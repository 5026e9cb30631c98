----------------------------- MODULE MCWatchdog -----------------------------
(* Scenes for Watchdog: ticks of half a second, a ping every tick, a pong  *)
(* timeout of two, a frame timeout of two, a compile timeout of four.      *)
EXTENDS Watchdog

Base == [boot |-> 1, engine |-> 1, compile |-> 1, frame |-> 1, pause |-> 1,
         first |-> 1, room |-> 4, same_version |-> TRUE, deaf |-> FALSE, hangs |-> 0, crashes |-> 0]

(* The slowest worker within its times, under a UI that is slower still.   *)
Slowest == [Base EXCEPT !.boot = 2, !.engine = 2, !.compile = 4, !.frame = 2, !.pause = 3, !.first = 2]
Crashing == [Base EXCEPT !.compile = 2, !.frame = 2, !.pause = 2, !.crashes = 1]
(* It may hang at anything, and ignores SIGTERM.                           *)
Hanging == [Base EXCEPT !.hangs = 1, !.deaf = TRUE, !.pause = 2]

(* What the UI sends does not fit in the socket while GL is set up.        *)
(* With room for two and one source, it is the ping that waits.            *)
Crowded == {[Base EXCEPT !.boot = 2, !.hangs = 1, !.first = 2, !.room = 1],
            [Base EXCEPT !.boot = 2, !.hangs = 1, !.first = 1, !.room = 2]}

(* The worker speaks another version of the protocol.                      *)
OldBinary == {[Base EXCEPT !.same_version = FALSE]}

Safe == {Slowest, Crashing, Hanging} \cup Crowded \cup OldBinary

(* What the theorems of Watchdog_proofs ask of the times.                  *)
ASSUME AllKeepWithinTimes == \A s \in Safe : KeepsWithinTimes(s)
ASSUME PongsAreDueFirst ==
  PingInterval + PongTimeout <= FrameTimeout + CompileTimeout + 1
=============================================================================
