---------------------------- MODULE BufferLease -----------------------------
(***************************************************************************)
(* What the ring, the announce/done/release messages and the promotion in  *)
(* the UI together promise about every render buffer of every slide: it    *)
(* has one owner at a time, and the worker, the only one who writes to it, *)
(* takes it only when the UI side has given it back.  A buffer may be lost *)
(* (nobody will ever return it) until the worker is restarted; it is never *)
(* stolen.                                                                 *)
(***************************************************************************)
CONSTANT Leases    \* <<slide, buffer>> pairs

VARIABLE owner     \* lease -> "free" | "worker" | "main" | "lost"

Owners == {"free", "worker", "main", "lost"}

(* Acquired; given back unused; handed over in a FrameDone; returned;      *)
(* forgotten, by the worker (its slide threw without a message) or by main *)
(* (its import failed).                                                    *)
Transfers ==
  { <<"free", "worker">>, <<"worker", "free">>, <<"worker", "main">>,
    <<"main", "free">>, <<"worker", "lost">>, <<"main", "lost">> }

Init == owner = [x \in Leases |-> "free"]

Transfer ==
  /\ owner' \in [Leases -> Owners]
  /\ \A x \in Leases :
       owner'[x] = owner[x] \/ <<owner[x], owner'[x]>> \in Transfers

(* A worker that dies takes its buffers with it.                           *)
Restart == owner' = [x \in Leases |-> "free"]

Next == Transfer \/ Restart

Spec == Init /\ [][Next]_owner
=============================================================================
