--------------------------- MODULE WatchdogProofs ---------------------------
(***************************************************************************)
(* Proofs about the watchdog for any set of services, any dependency table *)
(* and any timing: type correctness, the inductive invariant behind the    *)
(* start and stop order, and the safety properties that follow from it.    *)
(***************************************************************************)
EXTENDS WatchdogRefinement, TLAPS

USE DEF mainVars, sigVars, runVars, procVars, stopVars, chanVars

LEMMA InitTypeOK == Init => TypeOK
<1> SUFFICES ASSUME Init PROVE TypeOK
  OBVIOUS
<1>1. deps \in [Services -> SUBSET Names]
  BY ConfigsAssumption DEF Init
<1>2. /\ sigq \in 0..SigBuf /\ restarts \in [Services -> Nat]
      /\ \A s \in Services : restarts[s] <= MaxRestarts[s]
  BY BoundsAssumption DEF Init, Nowhere
<1> QED
  BY <1>1, <1>2
     DEF Init, TypeOK, Nowhere, MainStates, RunStates, StopStates, ProcStates

LEMMA NextTypeOK == TypeOK /\ [Next]_vars => TypeOK'
<1> SUFFICES ASSUME TypeOK, [Next]_vars PROVE TypeOK'
  OBVIOUS
<1> USE ServicesAssumption, BoundsAssumption
        DEF TypeOK, MainStates, RunStates, StopStates, ProcStates
<1>1. CASE WalkStep
  <2>1. CASE LoadConfig  BY <2>1 DEF LoadConfig, Nowhere
  <2>2. CASE LoadFatal  BY <2>2 DEF LoadFatal
  <2>3. CASE ReachWait  BY <2>3 DEF ReachWait
  <2>4. CASE Return  BY <2>4 DEF Return
  <2>5. ASSUME NEW s \in Services, WalkTake(s) PROVE TypeOK'
    BY <2>5 DEF WalkTake
  <2>6. ASSUME NEW s \in Services, WalkPut(s) PROVE TypeOK'
    BY <2>6 DEF WalkPut
  <2> QED BY <1>1, <2>1, <2>2, <2>3, <2>4, <2>5, <2>6 DEF WalkStep
<1>2. CASE HandlerStep
  <2>1. CASE HandlerReceive  BY <2>1 DEF HandlerReceive
  <2>2. CASE ShutdownAccepted
    BY <2>2 DEF ShutdownAccepted, Nowhere, Dependents
  <2>3. CASE ShutdownDropped  BY <2>3 DEF ShutdownDropped
  <2> QED BY <1>2, <2>1, <2>2, <2>3 DEF HandlerStep
<1>3. CASE UserSignal  BY <1>3 DEF UserSignal
<1>4. ASSUME NEW s \in Services, RunStep(s) PROVE TypeOK'
  <2>1. ASSUME NEW d \in Services, TakeStarted(s, d) PROVE TypeOK'
    BY <2>1 DEF TakeStarted
  <2>2. ASSUME NEW d \in Services, PutStarted(s, d) PROVE TypeOK'
    BY <2>2 DEF PutStarted
  <2>3. CASE EnterLoop(s)  BY <2>3 DEF EnterLoop, BeginRound
  <2>4. CASE BackoffElapsed(s)  BY <2>4 DEF BackoffElapsed, BeginRound
  <2>5. CASE DelayElapsed(s)  BY <2>5 DEF DelayElapsed, BeginRound
  <2>6. CASE LaunchAborted(s)  BY <2>6 DEF LaunchAborted
  <2>7. CASE LaunchFailed(s)  BY <2>7 DEF LaunchFailed
  <2>8. CASE Launch(s)  BY <2>8 DEF Launch
  <2>9. CASE SetProcess(s)  BY <2>9 DEF SetProcess
  <2>10. CASE PublishStarted(s)  BY <2>10 DEF PublishStarted
  <2>11. CASE Reap(s)  BY <2>11 DEF Reap
  <2>12. CASE RunShutdown(s)  BY <2>12 DEF RunShutdown
  <2> QED BY <1>4, <2>1, <2>2, <2>3, <2>4, <2>5, <2>6, <2>7, <2>8, <2>9,
             <2>10, <2>11, <2>12 DEF RunStep
<1>5. ASSUME NEW s \in Services, StopStep(s) PROVE TypeOK'
  <2>1. ASSUME NEW d \in Services, StopTake(s, d) PROVE TypeOK'
    BY <2>1 DEF StopTake
  <2>2. ASSUME NEW d \in Services, StopPut(s, d) PROVE TypeOK'
    BY <2>2 DEF StopPut
  <2>3. CASE RequestShutdown(s)  BY <2>3 DEF RequestShutdown
  <2>4. CASE SendTerm(s)  BY <2>4 DEF SendTerm
  <2>5. CASE TermTimeout(s)  BY <2>5 DEF TermTimeout
  <2>6. CASE SendKill(s)  BY <2>6 DEF SendKill
  <2>7. CASE ReceiveDone(s)  BY <2>7 DEF ReceiveDone
  <2>8. CASE Announce(s)  BY <2>8 DEF Announce
  <2> QED BY <1>5, <2>1, <2>2, <2>3, <2>4, <2>5, <2>6, <2>7, <2>8 DEF StopStep
<1>6. ASSUME NEW s \in Services, ProcExit(s) PROVE TypeOK'
  BY <1>6 DEF ProcExit
<1>7. CASE UNCHANGED vars  BY <1>7 DEF vars
<1> QED BY <1>1, <1>2, <1>3, <1>4, <1>5, <1>6, <1>7 DEF Next, Ended

\* Every reachable state of the watchdog is well typed.
THEOREM TypeCorrect == Spec => []TypeOK
BY InitTypeOK, NextTypeOK, PTL DEF Spec

-----------------------------------------------------------------------------
(***************************************************************************)
(* The inductive invariant.                                                *)
(***************************************************************************)

\* A process exists only while its run goroutine is between the launch and
\* the return of Wait.
ProcInv == \A s \in Services :
    proc[s] # "none" => rpc[s] \in {"launched", "publish", "wait"}

\* A "started" token, in the channel or in the hand of a dependent, means that
\* the service has been launched; what a run goroutine no longer waits for has
\* been launched too.
StartInv ==
    /\ wpc = "setup" => launched = {} /\ \A s \in Services : rpc[s] = "none"
    /\ started \subseteq launched
    /\ \A s \in Services :
        /\ rpc[s] \in {"launched", "publish", "wait"} => s \in launched
        /\ rheld[s] \subseteq launched
        /\ rpc[s] = "waitdep" => deps[s] \subseteq rtodo[s] \cup launched
        /\ rpc[s] \in {"backoff", "start", "launched", "publish", "wait",
                       "delay"} => deps[s] \subseteq launched
    /\ DependenciesStartFirst

\* A "stopped" token means that the stop goroutine has finished; what a stop
\* goroutine, or Walk, no longer waits for has finished too.
StopInv ==
    /\ wpc \notin {"join", "returned"} => \A s \in Services : spc[s] = "none"
    /\ \A s \in stopped \cup wheld : spc[s] = "finished"
    /\ wpc = "join" => \A s \in Services \ wtodo : spc[s] = "finished"
    /\ wpc = "returned" => \A s \in Services : spc[s] = "finished"
    /\ \A s \in Services :
        /\ rpc[s] = "gone" <=> spc[s] \in {"announce", "finished"}
        /\ \A d \in sheld[s] : spc[d] = "finished"
        /\ spc[s] = "waitdeps" =>
            \A d \in Dependents(s) \ stodo[s] : spc[d] = "finished"
        /\ spc[s] \notin {"none", "waitdeps"} =>
            \A d \in Dependents(s) : spc[d] = "finished"

IInv == TypeOK /\ ProcInv /\ StartInv /\ StopInv /\ StoppedTokenUnique

LEMMA InitIInv == Init => IInv
<1> SUFFICES ASSUME Init PROVE IInv
  OBVIOUS
<1>1. TypeOK
  BY InitTypeOK
<1>2. ProcInv /\ StartInv
  BY DEF Init, Nowhere, ProcInv, StartInv, DependenciesStartFirst
<1>3. StopInv /\ StoppedTokenUnique
  BY DEF Init, Nowhere, StopInv, StoppedTokenUnique
<1> QED
  BY <1>1, <1>2, <1>3 DEF IInv

LEMMA NextProcInv == IInv /\ [Next]_vars => ProcInv'
<1> SUFFICES ASSUME TypeOK, ProcInv, StartInv, [Next]_vars PROVE ProcInv'
  BY DEF IInv
<1> USE DEF TypeOK, ProcInv
<1>1. CASE WalkStep \/ HandlerStep \/ UserSignal
  <2>1. CASE LoadConfig
    BY <2>1 DEF LoadConfig, Nowhere, StartInv
  <2>2. CASE UNCHANGED <<rpc, proc>>
    BY <2>2
  <2> QED
    BY <1>1, <2>1, <2>2
       DEF WalkStep, HandlerStep, LoadFatal, ReachWait, Return, WalkTake,
           WalkPut, HandlerReceive, ShutdownAccepted, ShutdownDropped, UserSignal
<1>4. ASSUME NEW s \in Services, RunStep(s) PROVE ProcInv'
  <2>1. CASE UNCHANGED <<rpc, proc>>
    BY <2>1
  <2>3. CASE EnterLoop(s)  BY <2>3 DEF EnterLoop, BeginRound
  <2>4. CASE BackoffElapsed(s)  BY <2>4 DEF BackoffElapsed, BeginRound
  <2>5. CASE DelayElapsed(s)  BY <2>5 DEF DelayElapsed, BeginRound
  <2>6. CASE LaunchAborted(s)  BY <2>6 DEF LaunchAborted
  <2>7. CASE LaunchFailed(s)  BY <2>7 DEF LaunchFailed
  <2>8. CASE Launch(s)  BY <2>8 DEF Launch
  <2>9. CASE SetProcess(s)  BY <2>9 DEF SetProcess
  <2>10. CASE PublishStarted(s)  BY <2>10 DEF PublishStarted
  <2>11. CASE Reap(s)  BY <2>11 DEF Reap
  <2>12. CASE RunShutdown(s)  BY <2>12 DEF RunShutdown
  <2> QED
    BY <1>4, <2>1, <2>3, <2>4, <2>5, <2>6, <2>7, <2>8, <2>9, <2>10, <2>11,
       <2>12 DEF RunStep, TakeStarted, PutStarted
<1>5. ASSUME NEW s \in Services, StopStep(s) PROVE ProcInv'
  <2>1. CASE UNCHANGED <<rpc, proc>>
    BY <2>1
  <2>2. CASE SendKill(s)  BY <2>2 DEF SendKill, Reachable
  <2>3. CASE ReceiveDone(s)  BY <2>3 DEF ReceiveDone
  <2> QED
    BY <1>5, <2>1, <2>2, <2>3
       DEF StopStep, StopTake, StopPut, RequestShutdown, SendTerm, TermTimeout,
           Announce
<1>6. ASSUME NEW s \in Services, ProcExit(s) PROVE ProcInv'
  BY <1>6 DEF ProcExit
<1>7. CASE UNCHANGED vars  BY <1>7 DEF vars
<1> QED BY <1>1, <1>4, <1>5, <1>6, <1>7 DEF Next, Ended

LEMMA NextStartInv == IInv /\ [Next]_vars => StartInv'
<1> SUFFICES ASSUME TypeOK, StartInv, [Next]_vars PROVE StartInv'
  BY DEF IInv
<1> USE DEF TypeOK, StartInv, DependenciesStartFirst
<1> DEFINE startVars == <<deps, wpc, rpc, rtodo, rheld, started, launched>>
<1>1. CASE WalkStep \/ HandlerStep \/ UserSignal
  <2>1. CASE LoadConfig
    BY <2>1 DEF LoadConfig, Nowhere
  <2>2. CASE wpc' # "setup" /\ UNCHANGED <<deps, rpc, rtodo, rheld, started, launched>>
    BY <2>2
  <2>3. CASE UNCHANGED startVars
    BY <2>3
  <2> QED
    BY <1>1, <2>1, <2>2, <2>3
       DEF WalkStep, HandlerStep, LoadFatal, ReachWait, Return, WalkTake,
           WalkPut, HandlerReceive, ShutdownAccepted, ShutdownDropped, UserSignal
<1>4. ASSUME NEW s \in Services, RunStep(s) PROVE StartInv'
  <2>1. ASSUME NEW d \in Services, TakeStarted(s, d) PROVE StartInv'
    BY <2>1 DEF TakeStarted
  <2>2. ASSUME NEW d \in Services, PutStarted(s, d) PROVE StartInv'
    BY <2>2 DEF PutStarted
  <2>3. CASE EnterLoop(s)  BY <2>3 DEF EnterLoop, BeginRound
  <2>4. CASE BackoffElapsed(s)  BY <2>4 DEF BackoffElapsed, BeginRound
  <2>5. CASE DelayElapsed(s)  BY <2>5 DEF DelayElapsed, BeginRound
  <2>6. CASE LaunchAborted(s)  BY <2>6 DEF LaunchAborted
  <2>7. CASE LaunchFailed(s)  BY <2>7 DEF LaunchFailed
  <2>8. CASE Launch(s)  BY <2>8 DEF Launch
  <2>9. CASE SetProcess(s)  BY <2>9 DEF SetProcess
  <2>10. CASE PublishStarted(s)  BY <2>10 DEF PublishStarted
  <2>11. CASE Reap(s)  BY <2>11 DEF Reap
  <2>12. CASE RunShutdown(s)  BY <2>12 DEF RunShutdown
  <2> QED BY <1>4, <2>1, <2>2, <2>3, <2>4, <2>5, <2>6, <2>7, <2>8, <2>9,
             <2>10, <2>11, <2>12 DEF RunStep
<1>5. ASSUME NEW s \in Services, StopStep(s) PROVE StartInv'
  <2>1. CASE UNCHANGED startVars
    BY <2>1
  <2>3. CASE ReceiveDone(s)  BY <2>3 DEF ReceiveDone
  <2> QED
    BY <1>5, <2>1, <2>3
       DEF StopStep, StopTake, StopPut, RequestShutdown, SendTerm, TermTimeout,
           SendKill, Announce
<1>6. ASSUME NEW s \in Services, ProcExit(s) PROVE StartInv'
  BY <1>6 DEF ProcExit
<1>7. CASE UNCHANGED vars  BY <1>7 DEF vars
<1> QED BY <1>1, <1>4, <1>5, <1>6, <1>7 DEF Next, Ended

LEMMA NextStopInv == IInv /\ [Next]_vars => StopInv'
<1> SUFFICES ASSUME TypeOK, StopInv, StartInv, [Next]_vars PROVE StopInv'
  BY DEF IInv
<1> USE DEF TypeOK, StopInv, Dependents
<1> DEFINE others == <<deps, wpc, wtodo, wheld, spc, stodo, sheld, stopped>>
<1>1. CASE WalkStep
  <2>1. CASE LoadConfig  BY <2>1 DEF LoadConfig, Nowhere
  <2>2. CASE LoadFatal  BY <2>2 DEF LoadFatal
  <2>3. CASE ReachWait  BY <2>3 DEF ReachWait
  <2>4. CASE Return  BY <2>4 DEF Return
  <2>5. ASSUME NEW s \in Services, WalkTake(s) PROVE StopInv'
    BY <2>5 DEF WalkTake
  <2>6. ASSUME NEW s \in Services, WalkPut(s) PROVE StopInv'
    BY <2>6 DEF WalkPut
  <2> QED BY <1>1, <2>1, <2>2, <2>3, <2>4, <2>5, <2>6 DEF WalkStep
<1>2. CASE HandlerStep
  <2>1. CASE HandlerReceive  BY <2>1 DEF HandlerReceive
  <2>2. CASE ShutdownAccepted  BY <2>2 DEF ShutdownAccepted, Nowhere
  <2>3. CASE ShutdownDropped  BY <2>3 DEF ShutdownDropped
  <2> QED BY <1>2, <2>1, <2>2, <2>3 DEF HandlerStep
<1>3. CASE UserSignal  BY <1>3 DEF UserSignal
<1>4. ASSUME NEW s \in Services, RunStep(s) PROVE StopInv'
  <2>1. UNCHANGED others
    BY <1>4 DEF RunStep, TakeStarted, PutStarted, EnterLoop, BackoffElapsed,
                DelayElapsed, LaunchAborted, LaunchFailed, Launch, SetProcess,
                PublishStarted, Reap, RunShutdown
  <2>2. \A t \in Services : rpc'[t] = "gone" <=> rpc[t] = "gone"
    BY <1>4 DEF RunStep, TakeStarted, PutStarted, EnterLoop, BackoffElapsed,
                DelayElapsed, LaunchAborted, LaunchFailed, Launch, SetProcess,
                PublishStarted, Reap, RunShutdown, BeginRound
  <2> QED BY <2>1, <2>2
<1>5. ASSUME NEW s \in Services, StopStep(s) PROVE StopInv'
  <2>1. ASSUME NEW d \in Services, StopTake(s, d) PROVE StopInv'
    BY <2>1 DEF StopTake
  <2>2. ASSUME NEW d \in Services, StopPut(s, d) PROVE StopInv'
    BY <2>2 DEF StopPut
  <2>3. CASE RequestShutdown(s)  BY <2>3 DEF RequestShutdown
  <2>4. CASE SendTerm(s)  BY <2>4 DEF SendTerm
  <2>5. CASE TermTimeout(s)  BY <2>5 DEF TermTimeout
  <2>6. CASE SendKill(s)  BY <2>6 DEF SendKill
  <2>7. CASE ReceiveDone(s)  BY <2>7 DEF ReceiveDone
  <2>8. CASE Announce(s)  BY <2>8 DEF Announce
  <2> QED BY <1>5, <2>1, <2>2, <2>3, <2>4, <2>5, <2>6, <2>7, <2>8 DEF StopStep
<1>6. ASSUME NEW s \in Services, ProcExit(s) PROVE StopInv'
  BY <1>6 DEF ProcExit
<1>7. CASE UNCHANGED vars  BY <1>7 DEF vars
<1> QED BY <1>1, <1>2, <1>3, <1>4, <1>5, <1>6, <1>7 DEF Next, Ended

LEMMA NextTokenInv == IInv /\ [Next]_vars => StoppedTokenUnique'
<1> SUFFICES ASSUME TypeOK, StopInv, StoppedTokenUnique, [Next]_vars
             PROVE  StoppedTokenUnique'
  BY DEF IInv
<1> USE DEF TypeOK, StoppedTokenUnique
<1>0. CASE UNCHANGED <<wheld, sheld, stopped>>
  BY <1>0
<1>1. CASE WalkStep
  <2>1. ASSUME NEW s \in Services, WalkTake(s) PROVE StoppedTokenUnique'
    BY <2>1 DEF WalkTake
  <2>2. ASSUME NEW s \in Services, WalkPut(s) PROVE StoppedTokenUnique'
    BY <2>2 DEF WalkPut
  <2> QED BY <1>0, <1>1, <2>1, <2>2
             DEF WalkStep, LoadConfig, LoadFatal, ReachWait, Return
<1>2. CASE HandlerStep \/ UserSignal
  BY <1>0, <1>2 DEF HandlerStep, HandlerReceive, ShutdownAccepted,
                    ShutdownDropped, UserSignal
<1>4. ASSUME NEW s \in Services, RunStep(s) PROVE StoppedTokenUnique'
  BY <1>0, <1>4
     DEF RunStep, TakeStarted, PutStarted, EnterLoop, BackoffElapsed,
         DelayElapsed, LaunchAborted, LaunchFailed, Launch, SetProcess,
         PublishStarted, Reap, RunShutdown
<1>5. ASSUME NEW s \in Services, StopStep(s) PROVE StoppedTokenUnique'
  <2>1. ASSUME NEW d \in Services, StopTake(s, d) PROVE StoppedTokenUnique'
    BY <2>1 DEF StopTake
  <2>2. ASSUME NEW d \in Services, StopPut(s, d) PROVE StoppedTokenUnique'
    BY <2>2 DEF StopPut
  <2>3. CASE Announce(s)
    <3>1. s \notin wheld /\ \A t \in Services : s \notin sheld[t]
      BY <2>3 DEF Announce, StopInv
    <3> QED BY <2>3, <3>1 DEF Announce
  <2> QED BY <1>0, <1>5, <2>1, <2>2, <2>3
             DEF StopStep, RequestShutdown, SendTerm, TermTimeout, SendKill,
                 ReceiveDone
<1>6. ASSUME NEW s \in Services, ProcExit(s) PROVE StoppedTokenUnique'
  BY <1>0, <1>6 DEF ProcExit
<1>7. CASE UNCHANGED vars  BY <1>0, <1>7 DEF vars
<1> QED BY <1>1, <1>2, <1>4, <1>5, <1>6, <1>7 DEF Next, Ended

\* The invariant is inductive, so every reachable state satisfies it.
THEOREM IInvariant == Spec => []IInv
<1>1. IInv /\ [Next]_vars => IInv'
  BY NextTypeOK, NextProcInv, NextStartInv, NextStopInv, NextTokenInv DEF IInv
<1> QED
  BY InitIInv, <1>1, PTL DEF Spec

\* run launches no service before each of its dependencies has been launched.
THEOREM StartOrderHolds == Spec => []DependenciesStartFirst
<1>1. IInv => DependenciesStartFirst
  BY DEF IInv, StartInv
<1> QED
  BY IInvariant, <1>1, PTL

\* stop leaves a service alone until what depends on it is gone for good.
THEOREM StopOrderHolds == Spec => []StopOrder
<1>1. IInv => StopOrder
  BY DEF IInv, TypeOK, StopInv, ProcInv, StopOrder, Dependents
<1> QED
  BY IInvariant, <1>1, PTL

\* When Walk returns it leaves no process and no run goroutine behind.
THEOREM NoOrphansHold == Spec => []NoOrphans
<1>1. IInv => NoOrphans
  BY DEF IInv, TypeOK, StopInv, ProcInv, NoOrphans
<1> QED
  BY IInvariant, <1>1, PTL

\* No put-back of a "stopped" token finds the channel full.
THEOREM StoppedTokenHolds == Spec => []StoppedTokenUnique
<1>1. IInv => StoppedTokenUnique
  BY DEF IInv
<1> QED
  BY IInvariant, <1>1, PTL

-----------------------------------------------------------------------------
(***************************************************************************)
(* Refinement: every step of the watchdog is a step of the supervisor or   *)
(* leaves what the supervisor shows unchanged.                             *)
(***************************************************************************)
LEMMA InitRefines == Init => Abstract!Init
BY DEF Init, Abstract!Init, Nowhere, phaseMap, upMap, askedMap, retiredMap

LEMMA NextRefines == IInv /\ [Next]_vars => [Abstract!Next]_(Abstract!vars)
<1> SUFFICES ASSUME IInv, [Next]_vars
             PROVE  Abstract!Next \/ UNCHANGED Abstract!vars
  OBVIOUS
<1> USE DEF IInv, TypeOK
<1>0. CASE UNCHANGED <<deps, wpc, proc, launched, spc, rpc>>
  BY <1>0 DEF Abstract!vars, phaseMap, upMap, askedMap, retiredMap
<1>1. CASE WalkStep
  <2>1. CASE LoadConfig
    BY <2>1 DEF LoadConfig, Nowhere, StartInv, Abstract!vars, phaseMap, upMap,
                askedMap, retiredMap
  <2>2. CASE LoadFatal
    <3>1. Abstract!End
      BY <2>2 DEF LoadFatal, StartInv, Abstract!End, phaseMap, upMap, askedMap,
                  retiredMap
    <3> QED BY <3>1 DEF Abstract!Next
  <2>3. CASE ReachWait
    BY <2>3 DEF ReachWait, Abstract!vars, phaseMap, upMap, askedMap, retiredMap
  <2>4. CASE Return
    <3>1. retiredMap = Services
      BY <2>4 DEF Return, StopInv, retiredMap
    <3>2. Abstract!End
      BY <2>4, <3>1 DEF Return, Abstract!End, phaseMap, upMap, askedMap,
                        retiredMap
    <3> QED BY <3>2 DEF Abstract!Next
  <2> QED BY <1>0, <1>1, <2>1, <2>2, <2>3, <2>4 DEF WalkStep, WalkTake, WalkPut
<1>2. CASE HandlerStep \/ UserSignal
  <2>1. CASE ShutdownAccepted
    <3>1. askedMap' = askedMap /\ askedMap = {}
      BY <2>1 DEF ShutdownAccepted, Nowhere, StopInv, askedMap
    <3>2. Abstract!BeginStop
      BY <2>1, <3>1 DEF ShutdownAccepted, Abstract!BeginStop, phaseMap, upMap,
                        retiredMap
    <3> QED BY <3>2 DEF Abstract!Next
  <2> QED BY <1>0, <1>2, <2>1 DEF HandlerStep, HandlerReceive, ShutdownDropped,
                                  UserSignal
<1>4. ASSUME NEW s \in Services, RunStep(s)
      PROVE  Abstract!Next \/ UNCHANGED Abstract!vars
  <2>1. CASE Launch(s)
    <3>1. deps[s] \subseteq launched /\ s \notin upMap /\ s \notin retiredMap
      BY <2>1 DEF Launch, StartInv, ProcInv, upMap, retiredMap
    <3>2. phaseMap # "ended" /\ phaseMap' = phaseMap /\ askedMap' = askedMap
      BY <2>1 DEF Launch, Alive, MainStates, phaseMap, askedMap
    <3>3. upMap' = upMap \cup {s} /\ retiredMap' = retiredMap
      BY <2>1 DEF Launch, upMap, retiredMap
    <3>4. Abstract!Start(s)
      BY <2>1, <3>1, <3>2, <3>3 DEF Launch, Abstract!Start
    <3> QED BY <3>4 DEF Abstract!Next
  <2>2. ASSUME ~Launch(s)
        PROVE  /\ UNCHANGED <<deps, wpc, spc, launched>>
               /\ upMap' = upMap /\ retiredMap' = retiredMap
    BY <1>4, <2>2
       DEF RunStep, TakeStarted, PutStarted, EnterLoop, BackoffElapsed,
           DelayElapsed, LaunchAborted, LaunchFailed, SetProcess,
           PublishStarted, Reap, RunShutdown, BeginRound, upMap, retiredMap
  <2> QED BY <2>1, <2>2 DEF Abstract!vars, phaseMap, askedMap
<1>5. ASSUME NEW s \in Services, StopStep(s)
      PROVE  Abstract!Next \/ UNCHANGED Abstract!vars
  <2>1. CASE RequestShutdown(s)
    <3>1. wpc = "join"
      BY <2>1 DEF RequestShutdown, Alive, StopInv
    <3>2. Abstract!Dependents(s) \subseteq retiredMap
      BY <2>1 DEF RequestShutdown, StopInv, Dependents, Abstract!Dependents,
                  retiredMap
    <3>3. s \notin askedMap /\ askedMap' = askedMap \cup {s}
      BY <2>1 DEF RequestShutdown, askedMap
    <3>4. Abstract!AskStop(s)
      BY <2>1, <3>1, <3>2, <3>3
         DEF RequestShutdown, Abstract!AskStop, phaseMap, upMap, retiredMap
    <3> QED BY <3>4 DEF Abstract!Next
  <2>2. CASE SendKill(s)
    <3>1. CASE Reachable(s)
      <4>1. upMap' = upMap \ {s} /\ s \in upMap
        BY <2>2, <3>1 DEF SendKill, Reachable, upMap
      <4>2. Abstract!Exit(s)
        BY <2>2, <4>1 DEF SendKill, Abstract!Exit, phaseMap, askedMap,
                          retiredMap
      <4> QED BY <4>2 DEF Abstract!Next
    <3>2. CASE ~Reachable(s)
      BY <2>2, <3>2 DEF SendKill, Abstract!vars, phaseMap, upMap, askedMap,
                        retiredMap
    <3> QED BY <3>1, <3>2
  <2>3. CASE ReceiveDone(s)
    <3>1. s \in askedMap /\ s \notin upMap /\ s \notin retiredMap
      BY <2>3 DEF ReceiveDone, ProcInv, askedMap, upMap, retiredMap
    <3>2. retiredMap' = retiredMap \cup {s} /\ askedMap' = askedMap
      BY <2>3 DEF ReceiveDone, askedMap, retiredMap
    <3>3. Abstract!Retire(s)
      BY <2>3, <3>1, <3>2 DEF ReceiveDone, Abstract!Retire, phaseMap, upMap
    <3> QED BY <3>3 DEF Abstract!Next
  <2>4. CASE SendTerm(s) \/ TermTimeout(s) \/ Announce(s)
    BY <2>4 DEF SendTerm, TermTimeout, Announce, Abstract!vars, phaseMap, upMap,
                askedMap, retiredMap
  <2> QED BY <1>0, <1>5, <2>1, <2>2, <2>3, <2>4
             DEF StopStep, StopTake, StopPut
<1>6. ASSUME NEW s \in Services, ProcExit(s)
      PROVE  Abstract!Next \/ UNCHANGED Abstract!vars
  <2>1. upMap' = upMap \ {s} /\ s \in upMap
    BY <1>6 DEF ProcExit, upMap
  <2>2. Abstract!Exit(s)
    BY <1>6, <2>1 DEF ProcExit, Abstract!Exit, phaseMap, askedMap, retiredMap
  <2> QED BY <2>2 DEF Abstract!Next
<1>7. CASE UNCHANGED vars
  BY <1>0, <1>7 DEF vars
<1> QED BY <1>1, <1>2, <1>4, <1>5, <1>6, <1>7 DEF Next, Ended

\* The watchdog implements the supervisor, for every set of services, every
\* dependency table and every timing.
THEOREM Refinement == Spec => ImplementsSupervisor
BY IInvariant, InitRefines, NextRefines, PTL
   DEF Spec, ImplementsSupervisor, Abstract!Spec
=============================================================================
