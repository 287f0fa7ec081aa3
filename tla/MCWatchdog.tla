----------------------------- MODULE MCWatchdog -----------------------------
(***************************************************************************)
(* Small instances of Watchdog: the dependency tables to check.            *)
(***************************************************************************)
EXTENDS WatchdogRefinement

CONSTANTS a, b, c, missing

\* b needs a.
Chain == [s \in Services |-> IF s = b THEN {a} ELSE {}]

\* b and c both need a: they share its "started" and it shares both "stopped".
FanOut == [s \in Services |-> IF s = a THEN {} ELSE {a}]

\* a needs b needs c.
Line == [s \in Services |-> IF s = a THEN {b} ELSE IF s = b THEN {c} ELSE {}]

\* b needs a section that does not exist.
Dangling == [s \in Services |-> IF s = b THEN {missing} ELSE {}]

\* Rounds of the loop of run.  The service c restarts: a dependent in FanOut,
\* the dependency at the end of Line.
LastTwice == [s \in Services |-> IF s = c THEN 2 ELSE 1]
TwiceEach == [s \in Services |-> 2]

MCNames == Services \cup {missing}
ThreeConfigs == {FanOut, Line, Dangling}
ChainConfigs == {Chain}
=============================================================================
