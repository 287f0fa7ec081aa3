------------------------- MODULE WatchdogRefinement -------------------------
(***************************************************************************)
(* The watchdog, read as a supervisor.                                     *)
(***************************************************************************)
EXTENDS Watchdog

phaseMap ==
    CASE wpc \in {"setup", "spawned", "waiting"} -> "running"
      [] wpc = "join" -> "stopping"
      [] wpc \in {"returned", "fatal"} -> "ended"
upMap      == {s \in Services : proc[s] = "up"}
askedMap   == {s \in Services : spc[s] \notin {"none", "waitdeps"}}
retiredMap == {s \in Services : rpc[s] = "gone"}

Abstract == INSTANCE Supervisor WITH
    phase <- phaseMap, up <- upMap, had <- launched,
    asked <- askedMap, retired <- retiredMap

\* The goroutines, channels and signals of Walk, run and stop implement the
\* supervisor: start order, stop order, and no process after a shutdown.
ImplementsSupervisor == Abstract!Spec
=============================================================================
