------------------------------- MODULE Monitor -------------------------------
(***************************************************************************)
(* `wstools monitor`: monitorRun (src/command/monitor.go) with the gauges, *)
(* the collection function and the handler of src/common/cli/monitor.go.   *)
(*                                                                         *)
(* Two goroutines call the same collection function: main once before it   *)
(* serves or pushes, and the ticker goroutine at every tick.  A collection *)
(* sets the usage gauges one after the other, then resets all network      *)
(* gauges to -1 and sets those it has counters for, then resets all        *)
(* process gauges to 0 and sets those it finds in the process table to 1.  *)
(* Meanwhile readers (the pull handler, or the push loop of main) gather   *)
(* the gauges.  Usage values are abstracted to "a value".                  *)
(***************************************************************************)
EXTENDS Naturals

CONSTANTS
    Procs,        \* names given with -p
    Cards,        \* network gauges: card and direction
    Usages,       \* the cpu, memory and disk gauges
    MaxRounds,    \* bound on the collections of the ticker goroutine
    MaxFlips      \* bound on the starts and exits of monitored processes

ASSUME MonitorBounds == MaxRounds \in Nat /\ MaxFlips \in Nat

Collectors == {"main", "ticker"}

VARIABLES
    alive,    \* monitored processes that run
    flips,    \* number of starts and exits so far
    pc,       \* where each collector is
    utodo,    \* usage gauges that the collection has still to set
    ctodo,    \* network gauges still to be reset or set
    ptodo,    \* process gauges still to be reset or set
    found,    \* the process table as the collector read it
    rounds,   \* collections that the ticker goroutine has begun
    usage, card, proc,  \* the gauges
    serving,  \* main has finished its own collection
    dirty,    \* history: processes that started or exited since the time
              \* when the collection in progress, or the last one, began
    steady,   \* history: processes that have run since the program began
    broken,   \* history: the last read of the process table missed a process
    report    \* the gauges that the last reader gathered for the processes

collVars == <<pc, utodo, ctodo, ptodo, found, rounds>>
gauges   == <<usage, card, proc>>
vars == <<alive, flips, collVars, gauges, serving, dirty, steady, broken, report>>

Steps == {"idle", "usage", "cardReset", "cardRead", "cardSet", "procReset",
          "procRead", "procSet"}

TypeOK ==
    /\ alive \subseteq Procs /\ flips \in 0..MaxFlips
    /\ pc \in [Collectors -> Steps]
    /\ utodo \in [Collectors -> SUBSET Usages]
    /\ ctodo \in [Collectors -> SUBSET Cards]
    /\ ptodo \in [Collectors -> SUBSET Procs]
    /\ found \in [Collectors -> SUBSET Procs]
    /\ rounds \in 0..MaxRounds
    /\ usage \in [Usages -> {"unset", "error", "value"}]
    /\ card \in [Cards -> {"unset", "reset", "value"}]
    /\ proc \in [Procs -> 0..1]
    /\ serving \in BOOLEAN /\ broken \in BOOLEAN
    /\ dirty \subseteq Procs /\ steady \subseteq Procs
    /\ report \in [Procs -> 0..1] \cup {<<>>}

\* MonitorInstrument registers the gauges, at zero; the goroutine is spawned
\* and main begins its collection.
Init ==
    /\ alive \in SUBSET Procs /\ flips = 0
    /\ pc = [c \in Collectors |-> IF c = "main" THEN "usage" ELSE "idle"]
    /\ utodo = [c \in Collectors |-> IF c = "main" THEN Usages ELSE {}]
    /\ ctodo = [c \in Collectors |-> {}] /\ ptodo = [c \in Collectors |-> {}]
    /\ found = [c \in Collectors |-> {}]
    /\ rounds = 0
    /\ usage = [u \in Usages |-> "unset"] /\ card = [k \in Cards |-> "unset"]
    /\ proc = [p \in Procs |-> 0]
    /\ serving = FALSE /\ report = <<>>
    /\ dirty = {} /\ steady = alive /\ broken = FALSE

Idle == \A c \in Collectors : pc[c] = "idle"

-----------------------------------------------------------------------------
Goto(c, step) == pc' = [pc EXCEPT ![c] = step]

\* A tick: the goroutine collects again.  A tick that comes during a
\* collection stays in the ticker's channel, further ones are dropped.
Tick ==
    /\ pc["ticker"] = "idle" /\ rounds < MaxRounds
    /\ rounds' = rounds + 1
    /\ Goto("ticker", "usage")
    /\ utodo' = [utodo EXCEPT !["ticker"] = Usages]
    /\ dirty' = IF Idle THEN {} ELSE dirty
    /\ UNCHANGED <<alive, flips, ctodo, ptodo, found, gauges, serving, steady,
                   broken, report>>

\* setCPUValue, setMemValue, setDiskValue: the value, or -1.
SetUsage(c) ==
    /\ pc[c] = "usage"
    /\ \E u \in utodo[c] :
        /\ utodo' = [utodo EXCEPT ![c] = @ \ {u}]
        /\ \E v \in {"value", "error"} : usage' = [usage EXCEPT ![u] = v]
    /\ UNCHANGED <<alive, flips, pc, ctodo, ptodo, found, rounds, card, proc,
                   serving, dirty, steady, broken, report>>

UsageDone(c) ==
    /\ pc[c] = "usage" /\ utodo[c] = {}
    /\ Goto(c, IF Cards = {} THEN "cardRead" ELSE "cardReset")
    /\ ctodo' = [ctodo EXCEPT ![c] = Cards]
    /\ UNCHANGED <<alive, flips, utodo, ptodo, found, rounds, gauges, serving,
                   dirty, steady, broken, report>>

\* setInterfaceValue: reset every network gauge ...
ResetCard(c) ==
    /\ pc[c] = "cardReset"
    /\ \E k \in ctodo[c] :
        /\ ctodo' = [ctodo EXCEPT ![c] = @ \ {k}]
        /\ card' = [card EXCEPT ![k] = "reset"]
        /\ Goto(c, IF ctodo'[c] = {} THEN "cardRead" ELSE "cardReset")
    /\ UNCHANGED <<alive, flips, utodo, ptodo, found, rounds, usage, proc,
                   serving, dirty, steady, broken, report>>

\* ... read the counters of the cards that still exist, or fail ...
ReadCards(c) ==
    /\ pc[c] = "cardRead"
    /\ \E present \in SUBSET Cards : ctodo' = [ctodo EXCEPT ![c] = present]
    /\ Goto(c, "cardSet")
    /\ UNCHANGED <<alive, flips, utodo, ptodo, found, rounds, gauges, serving,
                   dirty, steady, broken, report>>

\* ... and set their gauges.
SetCard(c) ==
    /\ pc[c] = "cardSet"
    /\ \E k \in ctodo[c] :
        /\ ctodo' = [ctodo EXCEPT ![c] = @ \ {k}]
        /\ card' = [card EXCEPT ![k] = "value"]
    /\ UNCHANGED <<alive, flips, pc, utodo, ptodo, found, rounds, usage, proc,
                   serving, dirty, steady, broken, report>>

\* The end of a collection; main then serves or pushes.
Finish(c) ==
    /\ Goto(c, "idle")
    /\ serving' = (serving \/ c = "main")

\* setProcessStatus returns at once without process names.
CardsDone(c) ==
    /\ pc[c] = "cardSet" /\ ctodo[c] = {}
    /\ \/ Procs = {} /\ Finish(c) /\ UNCHANGED ptodo
       \/ /\ Procs # {}
          /\ Goto(c, "procReset") /\ ptodo' = [ptodo EXCEPT ![c] = Procs]
          /\ UNCHANGED serving
    /\ UNCHANGED <<alive, flips, utodo, ctodo, found, rounds, gauges, dirty,
                   steady, broken, report>>

\* Variant: the gauges are not reset.
ResetProcSkipped(c) ==
    /\ pc[c] = "procReset"
    /\ Goto(c, "procRead")
    /\ ptodo' = [ptodo EXCEPT ![c] = {}]
    /\ UNCHANGED <<alive, flips, utodo, ctodo, found, rounds, gauges, serving,
                   dirty, steady, broken, report>>

ResetProc(c) ==
    /\ pc[c] = "procReset"
    /\ \E p \in ptodo[c] :
        /\ ptodo' = [ptodo EXCEPT ![c] = @ \ {p}]
        /\ proc' = [proc EXCEPT ![p] = 0]
        /\ Goto(c, IF ptodo'[c] = {} THEN "procRead" ELSE "procReset")
    /\ UNCHANGED <<alive, flips, utodo, ctodo, found, rounds, usage, card,
                   serving, dirty, steady, broken, report>>

\* process.Processes, or an error that leaves all gauges at zero; a process
\* whose name cannot be read is passed over.
ReadProcs(c) ==
    /\ pc[c] = "procRead"
    /\ \E named \in SUBSET alive :
         found' = [found EXCEPT ![c] = named] /\ broken' = (named # alive)
    /\ Goto(c, "procSet")
    /\ UNCHANGED <<alive, flips, utodo, ctodo, ptodo, rounds, gauges, serving,
                   dirty, steady, report>>

\* Variant: the gauge is incremented for every process of the name.
SetProcIncrements(c) ==
    /\ pc[c] = "procSet"
    /\ \E p \in found[c] :
        /\ found' = [found EXCEPT ![c] = @ \ {p}]
        /\ proc' = [proc EXCEPT ![p] = @ + 1]
    /\ UNCHANGED <<alive, flips, pc, utodo, ctodo, ptodo, rounds, usage, card,
                   serving, dirty, steady, broken, report>>

SetProc(c) ==
    /\ pc[c] = "procSet"
    /\ \E p \in found[c] :
        /\ found' = [found EXCEPT ![c] = @ \ {p}]
        /\ proc' = [proc EXCEPT ![p] = 1]
    /\ UNCHANGED <<alive, flips, pc, utodo, ctodo, ptodo, rounds, usage, card,
                   serving, dirty, steady, broken, report>>

\* Variant: the loop over the process table ends before its end.
ProcsDoneEarly(c) ==
    /\ pc[c] = "procSet"
    /\ Finish(c)
    /\ UNCHANGED <<alive, flips, utodo, ctodo, ptodo, found, rounds, gauges,
                   dirty, steady, broken, report>>

ProcsDone(c) ==
    /\ pc[c] = "procSet" /\ found[c] = {}
    /\ Finish(c)
    /\ UNCHANGED <<alive, flips, utodo, ctodo, ptodo, found, rounds, gauges,
                   dirty, steady, broken, report>>

-----------------------------------------------------------------------------
\* A gauge is read atomically, but readers do not wait for a collection: the
\* pull handler answers any request, the push loop gathers at its own ticks.
Gather ==
    /\ serving
    /\ report' = proc
    /\ UNCHANGED <<alive, flips, collVars, gauges, serving, dirty, steady,
                   broken>>

\* A monitored process starts or exits.
Flip(p) ==
    /\ flips < MaxFlips
    /\ flips' = flips + 1
    /\ alive' = IF p \in alive THEN alive \ {p} ELSE alive \cup {p}
    /\ dirty' = dirty \cup {p} /\ steady' = steady \ {p}
    /\ UNCHANGED <<collVars, gauges, serving, broken, report>>

CollectStep(c) ==
    \/ SetUsage(c) \/ UsageDone(c) \/ ResetCard(c) \/ ReadCards(c) \/ SetCard(c)
    \/ CardsDone(c) \/ ResetProc(c) \/ ReadProcs(c) \/ SetProc(c) \/ ProcsDone(c)

Next ==
    \/ Tick \/ Gather
    \/ \E c \in Collectors : CollectStep(c)
    \/ \E p \in Procs : Flip(p)

Spec == Init /\ [][Next]_vars

-----------------------------------------------------------------------------
\* Between collections the process gauges tell the truth about every process
\* that neither started nor exited since the collection began, even when the
\* collections of main and of the ticker overlapped.  A read that failed can
\* only make a running process look stopped.
SettledGaugesAreTrue ==
    Idle => \A p \in Procs \ dirty :
        /\ proc[p] = 1 => p \in alive
        /\ p \in alive => proc[p] = 1 \/ broken

\* A reader gathers at any moment once main serves.  It never sees a gauge that
\* was not set, and it sees a process that has been running ever since the
\* program began as stopped only while a collection is between the reset of the
\* process gauges and their setting, or after one that missed a process.
ReadersMisledOnlyDuringReset ==
    serving =>
        /\ \A u \in Usages : usage[u] # "unset"
        /\ \A k \in Cards : card[k] # "unset"
        /\ \A p \in steady : proc[p] = 0 =>
               \/ broken
               \/ \E c \in Collectors : pc[c] \in {"procReset", "procRead", "procSet"}
=============================================================================
