---------------------------- MODULE CrashStorm -----------------------------
(***************************************************************************)
(* SupervisorLogic with the history of worker deaths since the last manual *)
(* restart, to state what the crash-storm cutoff means for an observer who *)
(* does not see crash_times_.                                              *)
(***************************************************************************)
EXTENDS SupervisorLogic

VARIABLE exits    \* times of the deaths since the last manual restart

stormVars == <<logic, now, action, exits>>

StormInit == Init /\ exits = <<>>

Died == logic.spawned /\ ~ logic'.spawned
DiedAtBirth == action = "Spawn" /\ action' = "None" /\ ~ logic'.spawned

StormNext ==
  \/ /\ CallStart \/ CallUpdate \/ Tick \/ Traffic
     /\ UNCHANGED exits
  \/ /\ SpawnWorker \/ WorkerExit
     /\ exits' = IF Died \/ DiedAtBirth THEN Append(exits, now) ELSE exits
  \/ Restart /\ exits' = <<>>

StormSpec == StormInit /\ [][StormNext]_stormVars

-----------------------------------------------------------------------------
(* The cutoff is exact: no worker is ever started while more than          *)
(* StormCount workers died within the last StormWindow since the user last *)
(* intervened, and the supervisor gives up only at a death that makes      *)
(* them that many.  The pruning of crash_times_, the reset after a stable  *)
(* run and the strict comparisons together must not lose or keep a crash   *)
(* too many.                                                               *)
ExitsSince(t) == Cardinality({i \in DOMAIN exits : exits[i] >= t})

StormIsCutOff ==
  [][/\ action # "Spawn" /\ action' = "Spawn"
          => ExitsSince(now - StormWindow + 1) <= StormCount
     /\ ~ logic.gave_up /\ logic'.gave_up
          => ExitsSince(now - StormWindow)' > StormCount]_stormVars

(* The backoff: the first respawn after a manual restart or a stable run   *)
(* is immediate, and every other one waits at least a second (or the cap,  *)
(* when that is shorter), however the crash record was pruned in between.  *)
BackoffApplies ==
  [][exits' # exits /\ exits' # <<>> /\ ~ logic'.gave_up /\ ~ logic.spawn_pending
     => LET wait == logic'.spawn_time - now
        IN  IF exits = <<>> \/ now - logic'.spawned_at >= StormWindow
            THEN wait = 0
            ELSE wait >= Second \/ wait = BackoffMax]_stormVars
=============================================================================
