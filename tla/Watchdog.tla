------------------------------ MODULE Watchdog ------------------------------
(***************************************************************************)
(* The process supervisor behind `wstools watchdog`: watchdogRun and       *)
(* shutdownHandler (src/command/watchdog.go) with the Watchdog and Service *)
(* types of the vendored package czxichen/command/watchdog.                *)
(*                                                                         *)
(* The processes of the model are the main goroutine (watchdogRun, then    *)
(* Walk), the signal handler, and for every service the goroutine of run   *)
(* and, once the shutdown began, the goroutine of stop.  A goroutine's     *)
(* steps are the stretches between two operations another one can see: a   *)
(* channel operation, the launch of the process, the store to svc.process. *)
(* The order in which Go ranges over a map is arbitrary: the services and  *)
(* dependencies that a loop still has to visit are a set.                  *)
(*                                                                         *)
(* The channels of capacity one (started, shutdown, stopped) are sets of   *)
(* the services whose channel is full.  svc.done and w.shutdown have no    *)
(* buffer: both ends take one step together.                               *)
(***************************************************************************)
EXTENDS Naturals

CONSTANTS
    Services,      \* sections of the configuration file
    Names,         \* what a "dependency" option can say, services or not
    Configs,       \* the dependency tables considered
    MaxRestarts,   \* bound on svc.restarts, the rounds of the loop of run, by
                   \* service
    SigBuf,        \* capacity of sigc, 3 in the code
    PromptRestart, \* a restart or backoff delay ends only once the other
                   \* goroutines have settled
    PromptTerm     \* so does term_timeout

ASSUME ServicesAssumption == Services \subseteq Names
ASSUME ConfigsAssumption == Configs \subseteq [Services -> SUBSET Names]
ASSUME BoundsAssumption ==
    /\ MaxRestarts \in [Services -> Nat \ {0}]
    /\ SigBuf \in Nat \ {0}
    /\ PromptRestart \in BOOLEAN /\ PromptTerm \in BOOLEAN

VARIABLES
    deps,       \* svc.dependencies of every service
    wpc,        \* where the main goroutine is
    wtodo,      \* services that the last loop of Walk has still to wait for
    wheld,      \* the service whose "stopped" token Walk took and owes back
    sigq,       \* signals in sigc
    hpc,        \* the handler: waiting for a signal, or holding one
    rpc,        \* where the goroutine of run is
    rtodo,      \* dependencies that run has still to wait for
    rheld,      \* the dependency whose "started" token run owes back
    failing,    \* services with svc.failures > 0
    restarts,   \* svc.restarts
    proc,       \* the operating system process of the service
    published,  \* services whose svc.process is that process
    termed,     \* history: the process has been sent SIGTERM
    launched,   \* history: the service has had a process
    spc,        \* where the goroutine of stop is
    stodo,      \* dependents that stop has still to wait for
    sheld,      \* the dependent whose "stopped" token stop owes back
    started, shutdown, stopped   \* services whose channel holds a token

mainVars == <<wpc, wtodo, wheld>>
sigVars  == <<sigq, hpc>>
runVars  == <<rpc, rtodo, rheld, failing, restarts>>
procVars == <<proc, published, termed, launched>>
stopVars == <<spc, stodo, sheld>>
chanVars == <<started, shutdown, stopped>>
vars == <<deps, mainVars, sigVars, runVars, procVars, stopVars, chanVars>>

MainStates == {"setup", "spawned", "waiting", "join", "returned", "fatal"}
RunStates  == {"none", "waitdep", "backoff", "start", "launched", "publish",
               "wait", "delay", "done", "gone"}
StopStates == {"none", "waitdeps", "term", "select", "kill", "waitdone",
               "announce", "finished"}
ProcStates == {"none", "up", "exited", "killed"}

Nowhere(value) == [s \in Services |-> value]

\* The services that name s as a dependency: svc.dependents.
Dependents(s) == {d \in Services : s \in deps[d]}

\* The goroutines exist until main returns or log.Fatalf exits.
Alive == wpc \notin {"returned", "fatal"}

TypeOK ==
    /\ deps \in [Services -> SUBSET Names]
    /\ wpc \in MainStates /\ wtodo \subseteq Services /\ wheld \subseteq Services
    /\ sigq \in 0..SigBuf /\ hpc \in {"idle", "got"}
    /\ rpc \in [Services -> RunStates]
    /\ rtodo \in [Services -> SUBSET Names]
    /\ rheld \in [Services -> SUBSET Services]
    /\ failing \subseteq Services
    /\ restarts \in [Services -> Nat]
    /\ \A s \in Services : restarts[s] <= MaxRestarts[s]
    /\ proc \in [Services -> ProcStates]
    /\ published \subseteq Services /\ termed \subseteq Services
    /\ launched \subseteq Services
    /\ spc \in [Services -> StopStates]
    /\ stodo \in [Services -> SUBSET Services]
    /\ sheld \in [Services -> SUBSET Services]
    /\ started \subseteq Services
    /\ shutdown \subseteq Services
    /\ stopped \subseteq Services

Init ==
    /\ deps \in Configs
    /\ wpc = "setup" /\ wtodo = {} /\ wheld = {}
    /\ sigq = 0 /\ hpc = "idle"
    /\ rpc = Nowhere("none") /\ rtodo = Nowhere({}) /\ rheld = Nowhere({})
    /\ failing = {} /\ restarts = Nowhere(0)
    /\ proc = Nowhere("none") /\ published = {} /\ termed = {} /\ launched = {}
    /\ spc = Nowhere("none") /\ stodo = Nowhere({}) /\ sheld = Nowhere({})
    /\ started = {} /\ shutdown = {} /\ stopped = {}

-----------------------------------------------------------------------------
(***************************************************************************)
(* The main goroutine.                                                     *)
(***************************************************************************)

\* Every option was valid and mapDependencies found every name: the run
\* goroutines are spawned.
LoadConfig ==
    /\ wpc = "setup"
    /\ \A s \in Services : deps[s] \subseteq Services
    /\ wpc' = "spawned"
    /\ rpc' = Nowhere("waitdep")
    /\ rtodo' = deps
    /\ UNCHANGED <<deps, wtodo, wheld, sigVars, rheld, failing, restarts,
                   procVars, stopVars, chanVars>>

\* An option is missing or invalid, or a dependency is no section: log.Fatalf.
LoadFatal ==
    /\ wpc = "setup"
    /\ wpc' = "fatal"
    /\ UNCHANGED <<deps, wtodo, wheld, sigVars, runVars, procVars, stopVars,
                   chanVars>>

\* Walk arrives at <-w.shutdown.
ReachWait ==
    /\ wpc = "spawned"
    /\ wpc' = "waiting"
    /\ UNCHANGED <<deps, wtodo, wheld, sigVars, runVars, procVars, stopVars,
                   chanVars>>

\* Last loop of Walk: take the token of a service that stopped ...
WalkTake(s) ==
    /\ wpc = "join" /\ wheld = {}
    /\ s \in wtodo /\ s \in stopped
    /\ wtodo' = wtodo \ {s} /\ wheld' = {s} /\ stopped' = stopped \ {s}
    /\ UNCHANGED <<deps, wpc, sigVars, runVars, procVars, stopVars, started,
                   shutdown>>

\* ... and put it back for the stop goroutines that also wait for it.
WalkPut(s) ==
    /\ wpc = "join" /\ s \in wheld
    /\ s \notin stopped
    /\ stopped' = stopped \cup {s} /\ wheld' = {}
    /\ UNCHANGED <<deps, wpc, wtodo, sigVars, runVars, procVars, stopVars,
                   started, shutdown>>

\* Variant: Walk returns after the first service that stopped.
ReturnEarly ==
    /\ wpc = "join" /\ wtodo # Services /\ wheld = {}
    /\ wpc' = "returned"
    /\ UNCHANGED <<deps, wtodo, wheld, sigVars, runVars, procVars, stopVars,
                   chanVars>>

Return ==
    /\ wpc = "join" /\ wtodo = {} /\ wheld = {}
    /\ wpc' = "returned"
    /\ UNCHANGED <<deps, wtodo, wheld, sigVars, runVars, procVars, stopVars,
                   chanVars>>

-----------------------------------------------------------------------------
(***************************************************************************)
(* Signals.  signal.Notify does not block: a signal that finds sigc full   *)
(* is lost.  Shutdown does not block either: a request that does not find  *)
(* Walk at its receive is lost.                                            *)
(***************************************************************************)
\* Variant: a channel without a limit.
UserSignalUnlimited ==
    /\ Alive
    /\ sigq' = sigq + 1
    /\ UNCHANGED <<deps, mainVars, hpc, runVars, procVars, stopVars,
                   chanVars>>

UserSignal ==
    /\ Alive
    /\ sigq' = IF sigq < SigBuf THEN sigq + 1 ELSE sigq
    /\ UNCHANGED <<deps, mainVars, hpc, runVars, procVars, stopVars,
                   chanVars>>

HandlerReceive ==
    /\ Alive
    /\ hpc = "idle" /\ sigq > 0
    /\ sigq' = sigq - 1 /\ hpc' = "got"
    /\ UNCHANGED <<deps, mainVars, runVars, procVars, stopVars, chanVars>>

\* w.shutdown <- true meets the receive of Walk, which spawns the stops.
ShutdownAccepted ==
    /\ hpc = "got" /\ wpc = "waiting"
    /\ hpc' = "idle" /\ wpc' = "join"
    /\ wtodo' = Services
    /\ spc' = Nowhere("waitdeps")
    /\ stodo' = [s \in Services |-> Dependents(s)]
    /\ UNCHANGED <<deps, wheld, sigq, runVars, procVars, sheld,
                   chanVars>>

\* The default branch of the select in Shutdown.
ShutdownDropped ==
    /\ Alive
    /\ hpc = "got" /\ wpc # "waiting"
    /\ hpc' = "idle"
    /\ UNCHANGED <<deps, mainVars, sigq, runVars, procVars, stopVars,
                   chanVars>>

-----------------------------------------------------------------------------
(***************************************************************************)
(* Timers.  The delays of the code are seconds (restartDelay 2s, backoff   *)
(* 5s and more, term_timeout 5s unless configured), the steps of a         *)
(* goroutine microseconds.  A prompt timer ends only when the goroutines   *)
(* of the services have settled: each one waits for a timer, for a process *)
(* or for another goroutine.  A timer that is not prompt (term_timeout =   *)
(* 0s, a goroutine starved for seconds) may end at any moment.             *)
(***************************************************************************)
RunBusy(s) ==
    \/ rpc[s] \in {"start", "launched", "publish"}
    \/ /\ rpc[s] = "waitdep"
       /\ rheld[s] # {} \/ rtodo[s] = {} \/ rtodo[s] \cap started # {}
    \/ rpc[s] \in {"waitdep", "backoff", "delay"} /\ s \in shutdown
    \/ rpc[s] = "wait" /\ proc[s] # "up"

StopBusy(s) ==
    \/ spc[s] \in {"term", "kill", "announce"}
    \/ spc[s] = "waitdeps" /\ stodo[s] \subseteq stopped
    \/ spc[s] \in {"select", "waitdone"} /\ rpc[s] = "done"

Settled == \A s \in Services : ~RunBusy(s) /\ ~StopBusy(s)

DelayMayEnd == PromptRestart => Settled
TermMayEnd  == PromptTerm => Settled

-----------------------------------------------------------------------------
(***************************************************************************)
(* The goroutine of run.                                                   *)
(***************************************************************************)
\* Wait for a dependency: take its "started" token ...
TakeStarted(s, d) ==
    /\ Alive
    /\ rpc[s] = "waitdep" /\ rheld[s] = {}
    /\ d \in rtodo[s] /\ d \in started
    /\ started' = started \ {d}
    /\ rheld' = [rheld EXCEPT ![s] = {d}]
    /\ rtodo' = [rtodo EXCEPT ![s] = @ \ {d}]
    /\ UNCHANGED <<deps, mainVars, sigVars, rpc, failing, restarts, procVars,
                   stopVars, shutdown, stopped>>

\* ... and send it again, which blocks while the channel is full.
PutStarted(s, d) ==
    /\ Alive
    /\ d \in rheld[s]
    /\ d \notin started
    /\ started' = started \cup {d}
    /\ rheld' = [rheld EXCEPT ![s] = {}]
    /\ UNCHANGED <<deps, mainVars, sigVars, rpc, rtodo, failing, restarts,
                   procVars, stopVars, shutdown, stopped>>

\* A round of the loop begins: svc.restarts++ and runOnce is called.
BeginRound(s) ==
    /\ restarts[s] < MaxRestarts[s]
    /\ restarts' = [restarts EXCEPT ![s] = @ + 1]
    /\ rpc' = [rpc EXCEPT ![s] = "start"]

\* Variant: run does not wait for its dependencies.
EnterLoopEarly(s) ==
    /\ Alive
    /\ rpc[s] = "waitdep" /\ rheld[s] = {}
    /\ BeginRound(s)
    /\ UNCHANGED <<deps, mainVars, sigVars, rtodo, rheld, failing, procVars,
                   stopVars, chanVars>>

\* All dependencies have started (svc.failures is still zero here).
EnterLoop(s) ==
    /\ Alive
    /\ rpc[s] = "waitdep" /\ rtodo[s] = {} /\ rheld[s] = {}
    /\ BeginRound(s)
    /\ UNCHANGED <<deps, mainVars, sigVars, rtodo, rheld, failing, procVars,
                   stopVars, chanVars>>

BackoffElapsed(s) ==
    /\ Alive
    /\ rpc[s] = "backoff" /\ DelayMayEnd
    /\ BeginRound(s)
    /\ UNCHANGED <<deps, mainVars, sigVars, rtodo, rheld, failing, procVars,
                   stopVars, chanVars>>

\* The pause after runOnce is over: a failed service backs off once more.
DelayElapsed(s) ==
    /\ Alive
    /\ rpc[s] = "delay" /\ DelayMayEnd
    /\ \/ /\ s \in failing
          /\ rpc' = [rpc EXCEPT ![s] = "backoff"]
          /\ UNCHANGED restarts
       \/ /\ s \notin failing
          /\ BeginRound(s)
    /\ UNCHANGED <<deps, mainVars, sigVars, rtodo, rheld, failing, procVars,
                   stopVars, chanVars>>

\* /dev/null or the log file cannot be opened: no failure is counted.
LaunchAborted(s) ==
    /\ Alive
    /\ rpc[s] = "start"
    /\ rpc' = [rpc EXCEPT ![s] = "delay"]
    /\ UNCHANGED <<deps, mainVars, sigVars, rtodo, rheld, failing, restarts,
                   procVars, stopVars, chanVars>>

\* os.StartProcess fails.
LaunchFailed(s) ==
    /\ Alive
    /\ rpc[s] = "start"
    /\ rpc' = [rpc EXCEPT ![s] = "delay"]
    /\ failing' = failing \cup {s}
    /\ UNCHANGED <<deps, mainVars, sigVars, rtodo, rheld, restarts, procVars,
                   stopVars, chanVars>>

\* os.StartProcess succeeds: the process is up, svc.process still is not it.
Launch(s) ==
    /\ Alive
    /\ rpc[s] = "start"
    /\ rpc' = [rpc EXCEPT ![s] = "launched"]
    /\ proc' = [proc EXCEPT ![s] = "up"]
    /\ termed' = termed \ {s} /\ launched' = launched \cup {s}
    /\ UNCHANGED <<deps, mainVars, sigVars, rtodo, rheld, failing, restarts,
                   published, stopVars, chanVars>>

\* svc.process = proc, under svc.lock.
SetProcess(s) ==
    /\ Alive
    /\ rpc[s] = "launched"
    /\ rpc' = [rpc EXCEPT ![s] = "publish"]
    /\ published' = published \cup {s}
    /\ UNCHANGED <<deps, mainVars, sigVars, rtodo, rheld, failing, restarts,
                   proc, termed, launched, stopVars, chanVars>>

\* Variant: the launch is not told to the dependents.
PublishStartedNever(s) ==
    /\ Alive
    /\ rpc[s] = "publish"
    /\ rpc' = [rpc EXCEPT ![s] = "wait"]
    /\ UNCHANGED <<deps, mainVars, sigVars, rtodo, rheld, failing, restarts,
                   procVars, stopVars, chanVars>>

\* svc.started <- true, unless a token of an earlier round is still there.
PublishStarted(s) ==
    /\ Alive
    /\ rpc[s] = "publish"
    /\ rpc' = [rpc EXCEPT ![s] = "wait"]
    /\ started' = started \cup {s}
    /\ UNCHANGED <<deps, mainVars, sigVars, rtodo, rheld, failing, restarts,
                   procVars, stopVars, shutdown, stopped>>

\* svc.process.Wait returns: success clears svc.failures, anything else is
\* a failure.  A process that SIGKILL ended is never a success.
Reap(s) ==
    /\ Alive
    /\ rpc[s] = "wait" /\ proc[s] \in {"exited", "killed"}
    /\ rpc' = [rpc EXCEPT ![s] = "delay"]
    /\ \/ failing' = failing \cup {s}
       \/ proc[s] = "exited" /\ failing' = failing \ {s}
    /\ proc' = [proc EXCEPT ![s] = "none"]
    /\ published' = published \ {s}
    /\ UNCHANGED <<deps, mainVars, sigVars, rtodo, rheld, restarts, termed,
                   launched, stopVars, chanVars>>

\* One of the three selects of run receives from svc.shutdown.
RunShutdown(s) ==
    /\ Alive
    /\ s \in shutdown
    /\ \/ rpc[s] = "waitdep" /\ rheld[s] = {} /\ rtodo[s] # {}
       \/ rpc[s] \in {"backoff", "delay"}
    /\ shutdown' = shutdown \ {s}
    /\ rpc' = [rpc EXCEPT ![s] = "done"]
    /\ UNCHANGED <<deps, mainVars, sigVars, rtodo, rheld, failing, restarts,
                   procVars, stopVars, started, stopped>>

-----------------------------------------------------------------------------
(***************************************************************************)
(* The goroutine of stop.                                                  *)
(***************************************************************************)
\* Variant: the token is copied, and so put back twice.
StopTakeCopy(s, d) ==
    /\ Alive
    /\ spc[s] = "waitdeps" /\ sheld[s] = {}
    /\ d \in stodo[s] /\ d \in stopped
    /\ sheld' = [sheld EXCEPT ![s] = {d}]
    /\ stodo' = [stodo EXCEPT ![s] = @ \ {d}]
    /\ UNCHANGED <<deps, mainVars, sigVars, runVars, procVars, spc, chanVars>>

StopTake(s, d) ==
    /\ Alive
    /\ spc[s] = "waitdeps" /\ sheld[s] = {}
    /\ d \in stodo[s] /\ d \in stopped
    /\ stopped' = stopped \ {d}
    /\ sheld' = [sheld EXCEPT ![s] = {d}]
    /\ stodo' = [stodo EXCEPT ![s] = @ \ {d}]
    /\ UNCHANGED <<deps, mainVars, sigVars, runVars, procVars, spc, started,
                   shutdown>>

\* Variant: the token is not put back.
StopPutLost(s, d) ==
    /\ Alive
    /\ d \in sheld[s]
    /\ sheld' = [sheld EXCEPT ![s] = {}]
    /\ UNCHANGED <<deps, mainVars, sigVars, runVars, procVars, spc, stodo,
                   chanVars>>

StopPut(s, d) ==
    /\ Alive
    /\ d \in sheld[s]
    /\ d \notin stopped
    /\ stopped' = stopped \cup {d}
    /\ sheld' = [sheld EXCEPT ![s] = {}]
    /\ UNCHANGED <<deps, mainVars, sigVars, runVars, procVars, spc, stodo,
                   started, shutdown>>

\* Variant: stop does not wait for the dependents.
RequestShutdownEarly(s) ==
    /\ Alive
    /\ spc[s] = "waitdeps" /\ sheld[s] = {}
    /\ s \notin shutdown
    /\ shutdown' = shutdown \cup {s}
    /\ spc' = [spc EXCEPT ![s] = "term"]
    /\ UNCHANGED <<deps, mainVars, sigVars, runVars, procVars, stodo, sheld,
                   started, stopped>>

\* All dependents have stopped: svc.shutdown <- true.
RequestShutdown(s) ==
    /\ Alive
    /\ spc[s] = "waitdeps" /\ stodo[s] = {} /\ sheld[s] = {}
    /\ s \notin shutdown
    /\ shutdown' = shutdown \cup {s}
    /\ spc' = [spc EXCEPT ![s] = "term"]
    /\ UNCHANGED <<deps, mainVars, sigVars, runVars, procVars, stodo, sheld,
                   started, stopped>>

\* svc.signal reaches the process that svc.process refers to; before the
\* first launch there is none, and one that was waited for ignores it.
Reachable(s) == s \in published /\ proc[s] = "up"

\* A process may exit on SIGTERM or ignore it: ProcExit is always possible.
SendTerm(s) ==
    /\ Alive
    /\ spc[s] = "term"
    /\ spc' = [spc EXCEPT ![s] = "select"]
    /\ termed' = IF Reachable(s) THEN termed \cup {s} ELSE termed
    /\ UNCHANGED <<deps, mainVars, sigVars, runVars, proc, published, launched,
                   stodo, sheld, chanVars>>

TermTimeout(s) ==
    /\ Alive
    /\ spc[s] = "select" /\ TermMayEnd
    /\ spc' = [spc EXCEPT ![s] = "kill"]
    /\ UNCHANGED <<deps, mainVars, sigVars, runVars, procVars, stodo, sheld,
                   chanVars>>

SendKill(s) ==
    /\ Alive
    /\ spc[s] = "kill"
    /\ spc' = [spc EXCEPT ![s] = "waitdone"]
    /\ proc' = [proc EXCEPT ![s] = IF Reachable(s) THEN "killed" ELSE @]
    /\ UNCHANGED <<deps, mainVars, sigVars, runVars, published, termed,
                   launched, stodo, sheld, chanVars>>

\* svc.done <- true of run meets <-svc.done of stop.
ReceiveDone(s) ==
    /\ Alive
    /\ rpc[s] = "done" /\ spc[s] \in {"select", "waitdone"}
    /\ rpc' = [rpc EXCEPT ![s] = "gone"]
    /\ spc' = [spc EXCEPT ![s] = "announce"]
    /\ UNCHANGED <<deps, mainVars, sigVars, rtodo, rheld, failing, restarts,
                   procVars, stodo, sheld, chanVars>>

\* Variant: stop announces the end after SIGTERM, without waiting for run.
AnnounceEarly(s) ==
    /\ Alive
    /\ spc[s] \in {"select", "announce"} /\ s \notin stopped
    /\ spc' = [spc EXCEPT ![s] = "finished"]
    /\ stopped' = stopped \cup {s}
    /\ UNCHANGED <<deps, mainVars, sigVars, runVars, procVars, stodo, sheld,
                   started, shutdown>>

\* svc.stopped <- true
Announce(s) ==
    /\ Alive
    /\ spc[s] = "announce" /\ s \notin stopped
    /\ spc' = [spc EXCEPT ![s] = "finished"]
    /\ stopped' = stopped \cup {s}
    /\ UNCHANGED <<deps, mainVars, sigVars, runVars, procVars, stodo, sheld,
                   started, shutdown>>

-----------------------------------------------------------------------------
\* The process ends by itself or because of SIGTERM; it needs no watchdog.
ProcExit(s) ==
    /\ proc[s] = "up"
    /\ proc' = [proc EXCEPT ![s] = "exited"]
    /\ UNCHANGED <<deps, mainVars, sigVars, runVars, published, termed,
                   launched, stopVars, chanVars>>

\* The program has ended.
Ended ==
    /\ ~Alive
    /\ UNCHANGED vars

WalkStep == \/ LoadConfig \/ LoadFatal \/ ReachWait \/ Return
            \/ \E s \in Services : WalkTake(s) \/ WalkPut(s)

HandlerStep == HandlerReceive \/ ShutdownAccepted \/ ShutdownDropped

RunStep(s) ==
    \/ \E d \in Services : TakeStarted(s, d) \/ PutStarted(s, d)
    \/ EnterLoop(s) \/ BackoffElapsed(s) \/ DelayElapsed(s)
    \/ LaunchAborted(s) \/ LaunchFailed(s) \/ Launch(s)
    \/ SetProcess(s) \/ PublishStarted(s) \/ Reap(s) \/ RunShutdown(s)

StopStep(s) ==
    \/ \E d \in Services : StopTake(s, d) \/ StopPut(s, d)
    \/ RequestShutdown(s) \/ SendTerm(s) \/ TermTimeout(s) \/ SendKill(s)
    \/ ReceiveDone(s) \/ Announce(s)

Next ==
    \/ WalkStep \/ HandlerStep \/ UserSignal
    \/ \E s \in Services : RunStep(s) \/ StopStep(s) \/ ProcExit(s)
    \/ Ended

Spec == Init /\ [][Next]_vars

\* The Go scheduler runs every goroutine that can go on.  Nothing makes the
\* user send a signal or a process exit.
Fairness ==
    /\ WF_vars(WalkStep) /\ WF_vars(HandlerStep)
    /\ \A s \in Services : WF_vars(RunStep(s)) /\ WF_vars(StopStep(s))

FairSpec == Spec /\ Fairness

-----------------------------------------------------------------------------
(***************************************************************************)
(* Properties.                                                             *)
(***************************************************************************)

\* No service gets a process before each of its dependencies has had one,
\* whatever the scheduling: the wait at the head of run.
DependenciesStartFirst ==
    \A s \in launched : deps[s] \subseteq launched

\* While a service is told to stop (svc.shutdown, SIGTERM, SIGKILL) or after
\* it stopped, none of the services that depend on it has a process or can
\* get one again: the wait at the head of stop.
StopOrder ==
    \A s \in Services : spc[s] \notin {"none", "waitdeps"} =>
        \A d \in Dependents(s) : rpc[d] = "gone" /\ proc[d] # "up"

\* When Walk has returned no process is left behind and no goroutine can
\* launch one: every run goroutine has ended.
NoOrphans ==
    wpc = "returned" =>
        \A s \in Services : rpc[s] = "gone" /\ proc[s] # "up"

\* A service's "stopped" token is unique: who took it out of the channel finds
\* the channel empty when putting it back, so neither stop nor Walk blocks on
\* the second statement of take-and-put-back.
StoppedTokenUnique ==
    /\ wheld \cap stopped = {}
    /\ \A s \in Services :
        /\ sheld[s] \cap (stopped \cup wheld) = {}
        /\ \A t \in Services \ {s} : sheld[s] \cap sheld[t] = {}

\* A process that SIGKILL ends was sent SIGTERM before (stop: SIGTERM first,
\* SIGKILL after term_timeout).
TermBeforeKill == \A s \in Services : proc[s] = "killed" => s \in termed

\* A shutdown that Walk accepted completes.
ShutdownCompletes == wpc = "join" ~> wpc = "returned"

\* A service whose dependencies have all been started does not stay in the
\* wait for them.
DependentsProceed == \A s \in Services :
    (rpc[s] = "waitdep" /\ deps[s] \subseteq launched)
        ~> (rpc[s] # "waitdep" \/ wpc = "returned")
=============================================================================
