----------------------------- MODULE Supervisor -----------------------------
(***************************************************************************)
(* What a supervisor of services with dependencies promises, with no word  *)
(* about goroutines, channels, signals or timers.                          *)
(*                                                                         *)
(* A service may be started, any number of times, once all it depends on   *)
(* has had a process.  After the shutdown has begun a service is asked to  *)
(* stop only when everything that depends on it has retired; a service     *)
(* retires when it has been asked to and has no process, and never gets a  *)
(* process again.  The supervisor ends a shutdown when all have retired.   *)
(***************************************************************************)
CONSTANTS Services, Configs

VARIABLES
    deps,     \* the dependencies of every service
    phase,    \* "running", "stopping" or "ended"
    up,       \* services with a process
    had,      \* services that have had a process
    asked,    \* services asked to stop
    retired   \* services that are stopped for good

vars == <<deps, phase, up, had, asked, retired>>

Dependents(s) == {d \in Services : s \in deps[d]}

Init ==
    /\ deps \in Configs
    /\ phase = "running"
    /\ up = {} /\ had = {} /\ asked = {} /\ retired = {}

Start(s) ==
    /\ phase # "ended"
    /\ s \notin up /\ s \notin retired
    /\ deps[s] \subseteq had
    /\ up' = up \cup {s} /\ had' = had \cup {s}
    /\ UNCHANGED <<deps, phase, asked, retired>>

Exit(s) ==
    /\ s \in up
    /\ up' = up \ {s}
    /\ UNCHANGED <<deps, phase, had, asked, retired>>

BeginStop ==
    /\ phase = "running"
    /\ phase' = "stopping"
    /\ UNCHANGED <<deps, up, had, asked, retired>>

AskStop(s) ==
    /\ phase = "stopping"
    /\ s \notin asked
    /\ Dependents(s) \subseteq retired
    /\ asked' = asked \cup {s}
    /\ UNCHANGED <<deps, phase, up, had, retired>>

Retire(s) ==
    /\ s \in asked /\ s \notin up /\ s \notin retired
    /\ retired' = retired \cup {s}
    /\ UNCHANGED <<deps, phase, up, had, asked>>

\* The shutdown is complete, or the configuration was refused at the start.
End ==
    /\ \/ phase = "stopping" /\ retired = Services
       \/ phase = "running" /\ had = {}
    /\ phase' = "ended"
    /\ UNCHANGED <<deps, up, had, asked, retired>>

Next ==
    \/ BeginStop \/ End
    \/ \E s \in Services : Start(s) \/ Exit(s) \/ AskStop(s) \/ Retire(s)

Spec == Init /\ [][Next]_vars
=============================================================================
