-------------------------- MODULE WorkerLifecycle --------------------------
(***************************************************************************)
(* What the supervisor promises about the worker process, without clocks   *)
(* or messages: one worker at a time, every Spawn answered before the      *)
(* next, a dead worker either waited for or given up on, and giving up     *)
(* only after more than Limit crashes are on record (the comment heading   *)
(* src/supervisor/SupervisorLogic.h).                                      *)
(***************************************************************************)
EXTENDS Naturals

CONSTANT Limit    \* crash_storm_count

VARIABLES
  phase,     \* stopped, waiting, spawning, running, killing, gave_up
  crashes    \* the crashes on record

lifeVars == <<phase, crashes>>

Init == phase = "stopped" /\ crashes = 0

Arm == phase = "stopped" /\ phase' = "waiting" /\ UNCHANGED crashes
EmitSpawn == phase = "waiting" /\ phase' = "spawning" /\ UNCHANGED crashes
Spawned == phase = "spawning" /\ phase' = "running" /\ UNCHANGED crashes
EmitKill == phase = "running" /\ phase' = "killing" /\ UNCHANGED crashes

(* A death adds one crash to the record, of which time may have dropped    *)
(* some, and is final when the record is too long.  A failed spawn is a    *)
(* death too.                                                              *)
Die ==
  /\ phase \in {"spawning", "running", "killing"}
  /\ crashes' \in 0..(crashes + 1)
  /\ phase' = IF crashes' > Limit THEN "gave_up" ELSE "waiting"

(* A manual restart forgives everything and revives a supervisor that gave *)
(* up; a live worker is killed later, through EmitKill.                    *)
Forgive ==
  /\ phase \in {"waiting", "running", "killing", "gave_up"}
  /\ crashes' = 0
  /\ phase' = IF phase = "gave_up" THEN "waiting" ELSE phase

Next == Arm \/ EmitSpawn \/ Spawned \/ EmitKill \/ Die \/ Forgive

Spec == Init /\ [][Next]_lifeVars
=============================================================================
