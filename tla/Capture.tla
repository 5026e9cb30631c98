------------------------------ MODULE Capture -------------------------------
(***************************************************************************)
(* CaptureOutput (system/stdcapture.h): stderr is redirected into a pipe   *)
(* while a source is compiled; a reader thread empties it; the destructor  *)
(* restores stderr, joins the reader and hands the text over.  A process   *)
(* the source's code has started inherits the pipe (an heir) and keeps its *)
(* write end open.  Output is counted in chunks.                           *)
(***************************************************************************)
EXTENDS Naturals

CONSTANTS
  PipeSize,     \* chunks the pipe holds
  MaxWrites     \* bound: chunks a compile writes

ASSUME CaptureAssumption == PipeSize \in Nat \ {0} /\ MaxWrites \in Nat

(* redirected: stderr is the pipe; reader: where the thread is, "none" if  *)
(* it could not be started, "failed" after a failed read of the last drain; *)
(* got: chunks accumulated.                                                *)
Captures ==
  [redirected : BOOLEAN, stop : BOOLEAN, heir : BOOLEAN, pipe : 0..PipeSize,
   written : 0..MaxWrites, got : 0..MaxWrites,
   reader : {"none", "check", "read", "drain", "done", "failed"}]

Begun(reader) ==
  [redirected |-> TRUE, stop |-> FALSE, heir |-> FALSE, pipe |-> 0, written |-> 0,
   got |-> 0, reader |-> reader]

(* A write, by the compile or by an heir, blocks while the pipe is full.    *)
CanWrite(c) == (c.redirected \/ c.heir) /\ c.pipe < PipeSize /\ c.written < MaxWrites
Written(c) == [c EXCEPT !.pipe = @ + 1, !.written = @ + 1]

Forked(c) == [c EXCEPT !.heir = TRUE]
HeirGone(c) == [c EXCEPT !.heir = FALSE]

(* read() returns data, or nothing once every write end is closed, and     *)
(* blocks otherwise.                                                       *)
CanRead(c) == c.pipe > 0 \/ (~ c.redirected /\ ~ c.heir)
Taken(c) == [c EXCEPT !.pipe = 0, !.got = @ + c.pipe]

(* The reader: it looks at stop, reads, and at the end drains the pipe.    *)
(* (Mutant: it stops without draining.)                                    *)
ChecksOnly(c) == [c EXCEPT !.reader = IF c.stop THEN "done" ELSE "read"]
Checked(c) == [c EXCEPT !.reader = IF c.stop THEN "drain" ELSE "read"]
ReadDone(c) == [Taken(c) EXCEPT !.reader = IF c.pipe > 0 THEN "check" ELSE "drain"]
Drained(c) == [Taken(c) EXCEPT !.reader = IF c.pipe > 0 THEN "drain" ELSE "done"]

CanStep(c) == c.reader = "check" \/ (c.reader \in {"read", "drain"} /\ CanRead(c))
Stepped(c) ==
  CASE c.reader = "check" -> Checked(c)
    [] c.reader = "read" -> ReadDone(c)
    [] c.reader = "drain" -> Drained(c)

(* A read that is interrupted in the loop is tried again after a look at   *)
(* stop, one that fails ends the loop, and the drain is tried all the same;*)
(* a read that fails there, were it only interrupted, is the last.         *)
CanFail(c) == c.reader \in {"read", "drain"}
AfterFailure(c) == IF c.reader = "read" THEN {"check", "drain"} ELSE {"failed"}

(* The destructor: stop, restore stderr, join (or, without a thread, drain *)
(* here).                                                                  *)
Stopped(c) == [c EXCEPT !.stop = TRUE]
Restored(c) ==
  [c EXCEPT !.redirected = FALSE, !.reader = IF @ = "none" THEN "drain" ELSE @]
Joined(c) == c.reader \in {"done", "failed"}
=============================================================================
