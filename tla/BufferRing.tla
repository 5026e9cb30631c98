----------------------------- MODULE BufferRing -----------------------------
(***************************************************************************)
(* The worker's accounting of one slide's render buffers                   *)
(* (src/ipc/BufferRing.h): which are handed out, and where the next search *)
(* for a free one starts.                                                  *)
(***************************************************************************)
EXTENDS Integers, FiniteSets

CONSTANT KBuffers    \* kBuffersPerSlide

ASSUME KBuffersAssumption == KBuffers \in Nat \ {0}

Buffers == 0..(KBuffers - 1)
kInvalid == -1

Rings == [busy : SUBSET Buffers, next : Buffers]
FreshRing == [busy |-> {}, next |-> 0]

Free(r) == Buffers \ r.busy

(* Mutant of Candidate: only one place is looked at.                       *)
CandidateAtNext(r) == IF r.next \in r.busy THEN kInvalid ELSE r.next

(* The index acquire() hands out: the first free one at or after next,     *)
(* going round.                                                            *)
Distance(r, b) == (b - r.next) % KBuffers
Candidate(r) ==
  IF Free(r) = {} THEN kInvalid
  ELSE CHOOSE b \in Free(r) : \A c \in Free(r) : Distance(r, b) <= Distance(r, c)

(* Mutants of Acquired: the buffer is not marked; next does not go round.  *)
AcquiredUnmarked(r) == r
AcquiredNoWrap(r) ==
  IF Free(r) = {} THEN r
  ELSE [busy |-> r.busy \cup {Candidate(r)}, next |-> Candidate(r) + 1]

Acquired(r) ==
  IF Free(r) = {} THEN r
  ELSE [busy |-> r.busy \cup {Candidate(r)}, next |-> (Candidate(r) + 1) % KBuffers]

Released(r, b) == [r EXCEPT !.busy = @ \ {b}]
=============================================================================
