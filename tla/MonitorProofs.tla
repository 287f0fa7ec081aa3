--------------------------- MODULE MonitorProofs ---------------------------
(***************************************************************************)
(* `wstools monitor` for any processes, network cards and disks, and any   *)
(* number of ticks: what the gauges say although two goroutines collect.   *)
(***************************************************************************)
EXTENDS Monitor, TLAPS

-----------------------------------------------------------------------------
(***************************************************************************)
(* The inductive invariant.                                                *)
(***************************************************************************)
BeforeProcs == {"usage", "cardReset", "cardRead", "cardSet"}

\* What a collection in progress has still to do to the gauge of p.
WillReset(c, p) == \/ pc[c] \in BeforeProcs
                   \/ pc[c] = "procReset" /\ p \in ptodo[c]
WillSet(c, p) == \/ pc[c] \in BeforeProcs \cup {"procReset", "procRead"}
                 \/ pc[c] = "procSet" /\ p \in found[c]
InWindow(c, p) == \/ pc[c] \in {"procReset", "procRead"}
                  \/ pc[c] = "procSet" /\ p \in found[c]

\* A process that never flipped runs, and is not dirty.
SteadyInv == steady \subseteq alive /\ steady \cap dirty = {}

\* What a collector found is true unless the process flipped since; it is
\* forgotten when the collection ends.
FoundInv ==
    \A c \in Collectors :
        /\ \A p \in found[c] : p \in alive \/ p \in dirty
        /\ pc[c] # "procSet" => found[c] = {}

\* A wrong gauge will still be reset, or set, by one of the two collectors.
ProcInv ==
    \A p \in Procs \ dirty :
        /\ proc[p] = 1 => p \in alive \/ \E c \in Collectors : WillReset(c, p)
        /\ p \in alive /\ proc[p] = 0 => broken \/ \E c \in Collectors : WillSet(c, p)

WindowInv ==
    \A p \in steady : proc[p] = 0 =>
        broken \/ pc["main"] \in BeforeProcs \/ \E c \in Collectors : InWindow(c, p)

\* Only main's own collection can leave a gauge unset, and it does not serve before.
UnsetInv ==
    /\ serving => pc["main"] = "idle"
    /\ \A u \in Usages : usage[u] = "unset" => pc["main"] = "usage" /\ u \in utodo["main"]
    /\ \A k \in Cards : card[k] = "unset" =>
           \/ pc["main"] = "usage"
           \/ pc["main"] = "cardReset" /\ k \in ctodo["main"]

IInv == TypeOK /\ SteadyInv /\ FoundInv /\ ProcInv /\ WindowInv /\ UnsetInv

-----------------------------------------------------------------------------
USE MonitorBounds DEF Collectors, collVars, gauges

LEMMA Types ==
    ASSUME TypeOK
    PROVE  /\ pc \in [Collectors -> Steps] /\ utodo \in [Collectors -> SUBSET Usages]
           /\ ctodo \in [Collectors -> SUBSET Cards] /\ ptodo \in [Collectors -> SUBSET Procs]
           /\ found \in [Collectors -> SUBSET Procs]
           /\ usage \in [Usages -> {"unset", "error", "value"}]
           /\ card \in [Cards -> {"unset", "reset", "value"}] /\ proc \in [Procs -> 0..1]
           /\ flips \in Nat /\ rounds \in Nat /\ alive \subseteq Procs
  BY DEF TypeOK

LEMMA InitIInv == Init => IInv
<1> SUFFICES ASSUME Init PROVE IInv OBVIOUS
<1>1. TypeOK
  <2>1. pc \in [Collectors -> Steps] /\ utodo \in [Collectors -> SUBSET Usages]
    BY DEF Init, Steps
  <2>2. /\ ctodo \in [Collectors -> SUBSET Cards] /\ ptodo \in [Collectors -> SUBSET Procs]
        /\ found \in [Collectors -> SUBSET Procs]
    BY DEF Init
  <2>3. /\ usage \in [Usages -> {"unset", "error", "value"}]
        /\ card \in [Cards -> {"unset", "reset", "value"}] /\ proc \in [Procs -> 0..1]
    BY DEF Init
  <2>4. flips \in 0..MaxFlips /\ rounds \in 0..MaxRounds
    BY DEF Init
  <2>5. /\ alive \subseteq Procs /\ serving \in BOOLEAN /\ broken \in BOOLEAN
        /\ dirty \subseteq Procs /\ steady \subseteq Procs /\ report = <<>>
    BY Zenon DEF Init
  <2> QED BY <2>1, <2>2, <2>3, <2>4, <2>5 DEF TypeOK
<1>2. SteadyInv /\ FoundInv
  BY DEF Init, SteadyInv, FoundInv
<1>3. pc["main"] = "usage" /\ utodo["main"] = Usages /\ serving = FALSE
  BY DEF Init
<1>4. ProcInv
  BY <1>3 DEF Init, ProcInv, WillReset, WillSet, BeforeProcs
<1>5. WindowInv /\ UnsetInv
  BY <1>3 DEF WindowInv, UnsetInv, BeforeProcs
<1> QED BY <1>1, <1>2, <1>4, <1>5 DEF IInv

LEMMA NextTypeOK == TypeOK /\ [Next]_vars => TypeOK'
<1> SUFFICES ASSUME TypeOK, [Next]_vars PROVE TypeOK' OBVIOUS
<1> USE DEF Steps, Goto
<1>0. /\ pc \in [Collectors -> Steps] /\ utodo \in [Collectors -> SUBSET Usages]
      /\ ctodo \in [Collectors -> SUBSET Cards] /\ ptodo \in [Collectors -> SUBSET Procs]
      /\ found \in [Collectors -> SUBSET Procs]
      /\ usage \in [Usages -> {"unset", "error", "value"}]
      /\ card \in [Cards -> {"unset", "reset", "value"}] /\ proc \in [Procs -> 0..1]
      /\ flips \in Nat /\ rounds \in Nat /\ alive \subseteq Procs
  BY Types
<1>1. CASE Tick
  <2>1. /\ UNCHANGED <<alive, flips, ctodo, ptodo, found, gauges, serving, steady, broken, report>>
        /\ rounds < MaxRounds /\ rounds' = rounds + 1
        /\ pc' = [pc EXCEPT !["ticker"] = "usage"] /\ utodo' = [utodo EXCEPT !["ticker"] = Usages]
        /\ (dirty' = {} \/ dirty' = dirty)
    BY <1>1 DEF Tick
  <2>2. rounds' \in 0..MaxRounds
    BY <2>1, <1>0
  <2>3. pc' \in [Collectors -> Steps] /\ utodo' \in [Collectors -> SUBSET Usages]
    BY <2>1, <1>0
  <2> QED BY <2>1, <2>2, <2>3 DEF TypeOK
<1>2. CASE Gather
  BY <1>2 DEF Gather, TypeOK
<1>3. ASSUME NEW p \in Procs, Flip(p) PROVE TypeOK'
  <2>1. UNCHANGED <<collVars, gauges, serving, broken, report>>
        /\ flips < MaxFlips /\ flips' = flips + 1
    BY <1>3 DEF Flip
  <2>2. flips' \in 0..MaxFlips
    BY <2>1, <1>0
  <2>3. alive' \subseteq Procs /\ dirty' \subseteq Procs /\ steady' \subseteq Procs
    BY <1>3 DEF Flip, TypeOK
  <2> QED BY <2>1, <2>2, <2>3 DEF TypeOK
<1>4. ASSUME NEW c \in Collectors, SetUsage(c) PROVE TypeOK'
  <2>1. UNCHANGED <<alive, flips, pc, ctodo, ptodo, found, rounds, card, proc, serving, dirty,
                    steady, broken, report>>
    BY <1>4 DEF SetUsage
  <2>2. utodo' \in [Collectors -> SUBSET Usages]
    BY <1>4, <1>0 DEF SetUsage
  <2>3. usage' \in [Usages -> {"unset", "error", "value"}]
    BY <1>4, <1>0 DEF SetUsage
  <2> QED BY <2>1, <2>2, <2>3 DEF TypeOK
<1>5. ASSUME NEW c \in Collectors, UsageDone(c) PROVE TypeOK'
  <2>1. UNCHANGED <<alive, flips, utodo, ptodo, found, rounds, gauges, serving, dirty, steady,
                    broken, report>>
    BY <1>5 DEF UsageDone
  <2>2. pc' \in [Collectors -> Steps] /\ ctodo' \in [Collectors -> SUBSET Cards]
    BY <1>5, <1>0 DEF UsageDone
  <2> QED BY <2>1, <2>2 DEF TypeOK
<1>6. ASSUME NEW c \in Collectors, ResetCard(c) PROVE TypeOK'
  <2>1. UNCHANGED <<alive, flips, utodo, ptodo, found, rounds, usage, proc, serving, dirty,
                    steady, broken, report>>
    BY <1>6 DEF ResetCard
  <2>2. PICK k \in ctodo[c] :
          /\ ctodo' = [ctodo EXCEPT ![c] = @ \ {k}] /\ card' = [card EXCEPT ![k] = "reset"]
          /\ (pc' = [pc EXCEPT ![c] = "cardRead"] \/ pc' = [pc EXCEPT ![c] = "cardReset"])
    BY <1>6 DEF ResetCard
  <2>3. pc' \in [Collectors -> Steps] /\ ctodo' \in [Collectors -> SUBSET Cards]
    BY <2>2, <1>0
  <2>4. card' \in [Cards -> {"unset", "reset", "value"}]
    BY <2>2, <1>0
  <2> QED BY <2>1, <2>3, <2>4 DEF TypeOK
<1>7. ASSUME NEW c \in Collectors, ReadCards(c) PROVE TypeOK'
  <2>1. UNCHANGED <<alive, flips, utodo, ptodo, found, rounds, gauges, serving, dirty, steady,
                    broken, report>>
    BY <1>7 DEF ReadCards
  <2>2. pc' \in [Collectors -> Steps] /\ ctodo' \in [Collectors -> SUBSET Cards]
    BY <1>7, <1>0 DEF ReadCards
  <2> QED BY <2>1, <2>2 DEF TypeOK
<1>8. ASSUME NEW c \in Collectors, SetCard(c) PROVE TypeOK'
  <2>1. UNCHANGED <<alive, flips, pc, utodo, ptodo, found, rounds, usage, proc, serving, dirty,
                    steady, broken, report>>
    BY <1>8 DEF SetCard
  <2>2. ctodo' \in [Collectors -> SUBSET Cards] /\ card' \in [Cards -> {"unset", "reset", "value"}]
    BY <1>8, <1>0 DEF SetCard
  <2> QED BY <2>1, <2>2 DEF TypeOK
<1>9. ASSUME NEW c \in Collectors, CardsDone(c) PROVE TypeOK'
  <2>1. UNCHANGED <<alive, flips, utodo, ctodo, found, rounds, gauges, dirty, steady, broken,
                    report>>
    BY <1>9 DEF CardsDone
  <2>2. pc' \in [Collectors -> Steps] /\ ptodo' \in [Collectors -> SUBSET Procs]
    BY <1>9, <1>0 DEF CardsDone, Finish
  <2>3. serving' \in BOOLEAN
    BY <1>9 DEF CardsDone, Finish, TypeOK
  <2> QED BY <2>1, <2>2, <2>3 DEF TypeOK
<1>10. ASSUME NEW c \in Collectors, ResetProc(c) PROVE TypeOK'
  <2>1. UNCHANGED <<alive, flips, utodo, ctodo, found, rounds, usage, card, serving, dirty,
                    steady, broken, report>>
    BY <1>10 DEF ResetProc
  <2>2. PICK p \in ptodo[c] :
          /\ ptodo' = [ptodo EXCEPT ![c] = @ \ {p}] /\ proc' = [proc EXCEPT ![p] = 0]
          /\ (pc' = [pc EXCEPT ![c] = "procRead"] \/ pc' = [pc EXCEPT ![c] = "procReset"])
    BY <1>10 DEF ResetProc
  <2>3. pc' \in [Collectors -> Steps] /\ ptodo' \in [Collectors -> SUBSET Procs]
    BY <2>2, <1>0
  <2>4. proc' \in [Procs -> 0..1]
    BY <2>2, <1>0
  <2> QED BY <2>1, <2>3, <2>4 DEF TypeOK
<1>11. ASSUME NEW c \in Collectors, ReadProcs(c) PROVE TypeOK'
  <2>1. UNCHANGED <<alive, flips, utodo, ctodo, ptodo, rounds, gauges, serving, dirty, steady,
                    report>>
    BY <1>11 DEF ReadProcs
  <2>2. pc' \in [Collectors -> Steps] /\ found' \in [Collectors -> SUBSET Procs]
    BY <1>11, <1>0 DEF ReadProcs
  <2>3. broken' \in BOOLEAN
    BY <1>11 DEF ReadProcs
  <2> QED BY <2>1, <2>2, <2>3 DEF TypeOK
<1>12. ASSUME NEW c \in Collectors, SetProc(c) PROVE TypeOK'
  <2>1. UNCHANGED <<alive, flips, pc, utodo, ctodo, ptodo, rounds, usage, card, serving, dirty,
                    steady, broken, report>>
    BY <1>12 DEF SetProc
  <2>2. found' \in [Collectors -> SUBSET Procs] /\ proc' \in [Procs -> 0..1]
    BY <1>12, <1>0 DEF SetProc
  <2> QED BY <2>1, <2>2 DEF TypeOK
<1>13. ASSUME NEW c \in Collectors, ProcsDone(c) PROVE TypeOK'
  <2>1. UNCHANGED <<alive, flips, utodo, ctodo, ptodo, found, rounds, gauges, dirty, steady,
                    broken, report>>
    BY <1>13 DEF ProcsDone
  <2>2. pc' \in [Collectors -> Steps]
    BY <1>13, <1>0 DEF ProcsDone, Finish
  <2>3. serving' \in BOOLEAN
    BY <1>13 DEF ProcsDone, Finish, TypeOK
  <2> QED BY <2>1, <2>2, <2>3 DEF TypeOK
<1>14. CASE UNCHANGED vars
  BY <1>14 DEF vars, TypeOK
<1> QED BY <1>1, <1>2, <1>3, <1>4, <1>5, <1>6, <1>7, <1>8, <1>9, <1>10, <1>11, <1>12, <1>13,
           <1>14 DEF Next, CollectStep

-----------------------------------------------------------------------------
(***************************************************************************)
(* A collection that has not reached the processes does not touch what the *)
(* invariant says of them.                                                 *)
(***************************************************************************)
ProcsInv == SteadyInv /\ FoundInv /\ ProcInv /\ WindowInv

LEMMA BeforeProcsStep ==
    ASSUME ProcsInv, NEW c \in Collectors, pc[c] \in BeforeProcs, pc'[c] \in BeforeProcs,
           \A d \in Collectors \ {c} : pc'[d] = pc[d],
           UNCHANGED <<alive, dirty, steady, found, ptodo, proc, broken>>
    PROVE  ProcsInv'
<1>1. \A d \in Collectors : pc'[d] = pc[d] \/ (pc[d] \in BeforeProcs /\ pc'[d] \in BeforeProcs)
  OBVIOUS
<1>2. SteadyInv'
  BY DEF ProcsInv, SteadyInv
<1>3. FoundInv'
  BY <1>1 DEF ProcsInv, FoundInv, BeforeProcs
<1>4. \A d \in Collectors, p \in Procs :
         /\ WillReset(d, p) => WillReset(d, p)'
         /\ WillSet(d, p) => WillSet(d, p)'
  BY <1>1 DEF WillReset, WillSet, BeforeProcs
<1>5. ProcInv'
  BY <1>4 DEF ProcsInv, ProcInv
<1>6. \A d \in Collectors : \A p : InWindow(d, p) => InWindow(d, p)'
  BY <1>1 DEF InWindow, BeforeProcs
<1>7. pc["main"] \in BeforeProcs => pc'["main"] \in BeforeProcs
  BY <1>1
<1>8. WindowInv'
  BY <1>6, <1>7 DEF ProcsInv, WindowInv
<1> QED BY <1>2, <1>3, <1>5, <1>8 DEF ProcsInv

LEMMA NextProcsInv == TypeOK /\ ProcsInv /\ [Next]_vars => ProcsInv'
<1> SUFFICES ASSUME TypeOK, ProcsInv, [Next]_vars PROVE ProcsInv' OBVIOUS
<1>0. /\ pc \in [Collectors -> Steps] /\ ptodo \in [Collectors -> SUBSET Procs]
      /\ found \in [Collectors -> SUBSET Procs] /\ proc \in [Procs -> 0..1]
      /\ alive \subseteq Procs /\ steady \subseteq Procs
  BY Types DEF TypeOK
<1>i. SteadyInv /\ FoundInv /\ ProcInv /\ WindowInv
  BY DEF ProcsInv
<1>1. CASE Tick
  <2>1. /\ UNCHANGED <<alive, ptodo, found, proc, steady, broken>>
        /\ pc["ticker"] = "idle" /\ pc' = [pc EXCEPT !["ticker"] = "usage"]
        /\ dirty' = (IF Idle THEN {} ELSE dirty)
    BY <1>1 DEF Tick, Goto
  <2>2. pc'["ticker"] = "usage" /\ pc'["main"] = pc["main"]
    BY <2>1, <1>0
  <2>3. SteadyInv'
    BY <2>1, <1>i DEF SteadyInv
  <2>4. FoundInv'
    <3>1. Idle => \A c \in Collectors : found[c] = {}
      BY <1>i DEF Idle, FoundInv
    <3>2. found["ticker"] = {}
      BY <2>1, <1>i DEF FoundInv
    <3> QED BY <2>1, <2>2, <3>1, <3>2, <1>i DEF FoundInv
  <2>5. \A p \in Procs : WillReset("ticker", p)' /\ WillSet("ticker", p)'
    BY <2>2 DEF WillReset, WillSet, BeforeProcs
  <2>6. ProcInv'
    BY <2>5 DEF ProcInv
  <2>7. WindowInv'
    <3>1. \A c \in Collectors : \A p : InWindow(c, p) => InWindow(c, p)'
      BY <2>1, <2>2 DEF InWindow
    <3> QED BY <2>1, <2>2, <3>1, <1>i DEF WindowInv
  <2> QED BY <2>3, <2>4, <2>6, <2>7 DEF ProcsInv
<1>2. CASE Gather \/ UNCHANGED vars
  <2>1. UNCHANGED <<alive, pc, ptodo, found, proc, dirty, steady, broken>>
    BY <1>2 DEF Gather, vars
  <2> QED BY <2>1 DEF ProcsInv, SteadyInv, FoundInv, ProcInv, WindowInv, WillReset, WillSet,
                      InWindow
<1>3. ASSUME NEW q \in Procs, Flip(q) PROVE ProcsInv'
  <2>1. /\ UNCHANGED <<pc, ptodo, found, proc, broken>>
        /\ dirty' = dirty \cup {q} /\ steady' = steady \ {q}
        /\ \A p : p # q => (p \in alive' <=> p \in alive)
    BY <1>3 DEF Flip
  <2>2. SteadyInv'
    BY <2>1, <1>i DEF SteadyInv
  <2>3. FoundInv'
    BY <2>1, <1>i DEF FoundInv
  <2>4. ProcInv'
    BY <2>1, <1>i DEF ProcInv, WillReset, WillSet
  <2>5. WindowInv'
    BY <2>1, <1>i DEF WindowInv, InWindow
  <2> QED BY <2>2, <2>3, <2>4, <2>5 DEF ProcsInv
<1>4. ASSUME NEW c \in Collectors,
             SetUsage(c) \/ UsageDone(c) \/ ResetCard(c) \/ ReadCards(c) \/ SetCard(c)
      PROVE  ProcsInv'
  <2>1. UNCHANGED <<alive, dirty, steady, found, ptodo, proc, broken>> /\ pc[c] \in BeforeProcs
    BY <1>4 DEF SetUsage, UsageDone, ResetCard, ReadCards, SetCard, BeforeProcs
  <2>2. pc' = pc \/ \E step \in BeforeProcs : pc' = [pc EXCEPT ![c] = step]
    BY <1>4 DEF SetUsage, UsageDone, ResetCard, ReadCards, SetCard, Goto, BeforeProcs
  <2>3. pc'[c] \in BeforeProcs /\ \A d \in Collectors \ {c} : pc'[d] = pc[d]
    BY <2>1, <2>2, <1>0
  <2> QED BY <2>1, <2>3, BeforeProcsStep
<1>5. ASSUME NEW c \in Collectors, CardsDone(c) PROVE ProcsInv'
  <2>1. UNCHANGED <<alive, found, proc, dirty, steady, broken>> /\ pc[c] = "cardSet"
    BY <1>5 DEF CardsDone
  <2>2. CASE Procs = {}
    <3>1. pc' = [pc EXCEPT ![c] = "idle"]
      BY <1>5, <2>2 DEF CardsDone, Finish, Goto
    <3>2. FoundInv'
      BY <2>1, <2>2, <3>1, <1>0, <1>i DEF FoundInv
    <3> QED BY <2>1, <2>2, <3>2, <1>0, <1>i DEF ProcsInv, SteadyInv, ProcInv, WindowInv
  <2>3. CASE Procs # {}
    <3>1. pc' = [pc EXCEPT ![c] = "procReset"] /\ ptodo' = [ptodo EXCEPT ![c] = Procs]
      BY <1>5, <2>3 DEF CardsDone, Goto
    <3>2. /\ pc'[c] = "procReset" /\ ptodo'[c] = Procs
          /\ \A d \in Collectors \ {c} : pc'[d] = pc[d] /\ ptodo'[d] = ptodo[d]
      BY <3>1, <1>0
    <3>3. SteadyInv' /\ FoundInv'
      BY <2>1, <3>2, <1>i DEF SteadyInv, FoundInv
    <3>4. \A p \in Procs : WillReset(c, p)' /\ WillSet(c, p)' /\ InWindow(c, p)'
      BY <3>2 DEF WillReset, WillSet, InWindow
    <3> QED BY <2>1, <3>3, <3>4, <1>0 DEF ProcsInv, ProcInv, WindowInv
  <2> QED BY <2>2, <2>3
<1>6. ASSUME NEW c \in Collectors, ResetProc(c) PROVE ProcsInv'
  <2>1. UNCHANGED <<alive, found, dirty, steady, broken>> /\ pc[c] = "procReset"
    BY <1>6 DEF ResetProc
  <2>2. PICK q \in ptodo[c] :
          /\ ptodo' = [ptodo EXCEPT ![c] = @ \ {q}] /\ proc' = [proc EXCEPT ![q] = 0]
          /\ pc' = [pc EXCEPT ![c] = IF ptodo'[c] = {} THEN "procRead" ELSE "procReset"]
    BY <1>6 DEF ResetProc, Goto
  <2>3. /\ ptodo'[c] = ptodo[c] \ {q} /\ proc'[q] = 0 /\ q \in Procs
        /\ \A d \in Collectors \ {c} : pc'[d] = pc[d] /\ ptodo'[d] = ptodo[d]
        /\ \A p \in Procs \ {q} : proc'[p] = proc[p]
    BY <2>2, <1>0
  <2>4. pc'[c] = (IF ptodo'[c] = {} THEN "procRead" ELSE "procReset")
    BY <2>2, <1>0
  <2>5. pc'[c] \in {"procRead", "procReset"}
    BY <2>4
  <2>6. SteadyInv' /\ FoundInv'
    BY <2>1, <2>3, <2>5, <1>i DEF SteadyInv, FoundInv
  <2>7. \A p \in Procs : WillSet(c, p)' /\ InWindow(c, p)'
    BY <2>5 DEF WillSet, InWindow
  <2>8. \A p \in Procs \ {q} : \A d \in Collectors : WillReset(d, p) => WillReset(d, p)'
    BY <2>1, <2>3, <2>4 DEF WillReset, BeforeProcs
  <2>9. ProcInv'
    <3> SUFFICES ASSUME NEW p \in Procs \ dirty
                 PROVE  proc'[p] = 1 => p \in alive \/ \E d \in Collectors : WillReset(d, p)'
      BY <2>1, <2>7 DEF ProcInv
    <3>1. CASE p = q
      BY <3>1, <2>3
    <3>2. CASE p # q
      BY <3>2, <2>3, <2>8, <1>i DEF ProcInv
    <3> QED BY <3>1, <3>2
  <2>10. WindowInv'
    BY <2>1, <2>7, <1>0 DEF WindowInv
  <2> QED BY <2>6, <2>9, <2>10 DEF ProcsInv
<1>7. ASSUME NEW c \in Collectors, ReadProcs(c) PROVE ProcsInv'
  <2>1. UNCHANGED <<alive, ptodo, proc, dirty, steady>> /\ pc[c] = "procRead"
        /\ pc' = [pc EXCEPT ![c] = "procSet"]
    BY <1>7 DEF ReadProcs, Goto
  <2>2. PICK named \in SUBSET alive :
          found' = [found EXCEPT ![c] = named] /\ broken' = (named # alive)
    BY <1>7 DEF ReadProcs
  <2>3. /\ pc'[c] = "procSet" /\ found'[c] = named
        /\ \A d \in Collectors \ {c} : pc'[d] = pc[d] /\ found'[d] = found[d]
    BY <2>1, <2>2, <1>0
  <2>4. SteadyInv' /\ FoundInv'
    BY <2>1, <2>3, <1>i DEF SteadyInv, FoundInv
  <2>5. \A p \in alive : broken' \/ (WillSet(c, p)' /\ InWindow(c, p)')
    BY <2>2, <2>3 DEF WillSet, InWindow
  <2>6. \A p \in Procs : \A d \in Collectors : WillReset(d, p) => WillReset(d, p)'
    BY <2>1, <2>3 DEF WillReset, BeforeProcs
  <2>7. ProcInv'
    BY <2>1, <2>5, <2>6, <1>i DEF ProcInv
  <2>8. WindowInv'
    BY <2>1, <2>5, <1>i DEF WindowInv, SteadyInv
  <2> QED BY <2>4, <2>7, <2>8 DEF ProcsInv
<1>8. ASSUME NEW c \in Collectors, SetProc(c) PROVE ProcsInv'
  <2>1. UNCHANGED <<alive, pc, ptodo, dirty, steady, broken>> /\ pc[c] = "procSet"
    BY <1>8 DEF SetProc
  <2>2. PICK q \in found[c] : found' = [found EXCEPT ![c] = @ \ {q}]
                             /\ proc' = [proc EXCEPT ![q] = 1]
    BY <1>8 DEF SetProc
  <2>3. /\ found'[c] = found[c] \ {q} /\ q \in Procs /\ proc'[q] = 1
        /\ \A d \in Collectors \ {c} : found'[d] = found[d]
        /\ \A p \in Procs \ {q} : proc'[p] = proc[p]
    BY <2>2, <1>0
  <2>4. SteadyInv' /\ FoundInv'
    BY <2>1, <2>3, <1>i DEF SteadyInv, FoundInv
  <2>5. q \in alive \/ q \in dirty
    BY <2>2, <1>i DEF FoundInv
  <2>6. \A p : \A d \in Collectors : p # q =>
           /\ WillReset(d, p) => WillReset(d, p)'
           /\ WillSet(d, p) => WillSet(d, p)'
           /\ InWindow(d, p) => InWindow(d, p)'
    BY <2>1, <2>3 DEF WillReset, WillSet, InWindow
  <2>7. ProcInv'
    BY <2>1, <2>3, <2>5, <2>6, <1>i DEF ProcInv
  <2>8. WindowInv'
    BY <2>1, <2>3, <2>6, <1>0, <1>i DEF WindowInv
  <2> QED BY <2>4, <2>7, <2>8 DEF ProcsInv
<1>9. ASSUME NEW c \in Collectors, ProcsDone(c) PROVE ProcsInv'
  <2>1. UNCHANGED <<alive, ptodo, found, proc, dirty, steady, broken>> /\ pc[c] = "procSet"
        /\ found[c] = {} /\ pc' = [pc EXCEPT ![c] = "idle"]
    BY <1>9 DEF ProcsDone, Finish, Goto
  <2>2. pc'[c] = "idle" /\ \A d \in Collectors \ {c} : pc'[d] = pc[d]
    BY <2>1, <1>0
  <2>3. SteadyInv' /\ FoundInv'
    BY <2>1, <2>2, <1>i DEF SteadyInv, FoundInv
  <2>4. \A p : \A d \in Collectors :
           /\ WillReset(d, p) => WillReset(d, p)'
           /\ WillSet(d, p) => WillSet(d, p)'
           /\ InWindow(d, p) => InWindow(d, p)'
    BY <2>1, <2>2 DEF WillReset, WillSet, InWindow, BeforeProcs
  <2>5. pc["main"] \in BeforeProcs => pc'["main"] \in BeforeProcs
    BY <2>1, <2>2 DEF BeforeProcs
  <2> QED BY <2>1, <2>3, <2>4, <2>5, <1>i DEF ProcsInv, ProcInv, WindowInv
<1> QED BY <1>1, <1>2, <1>3, <1>4, <1>5, <1>6, <1>7, <1>8, <1>9 DEF Next, CollectStep

-----------------------------------------------------------------------------
LEMMA NextUnsetInv == TypeOK /\ UnsetInv /\ [Next]_vars => UnsetInv'
<1> SUFFICES ASSUME TypeOK, UnsetInv, [Next]_vars PROVE UnsetInv' OBVIOUS
<1>0. /\ pc \in [Collectors -> Steps] /\ utodo \in [Collectors -> SUBSET Usages]
      /\ ctodo \in [Collectors -> SUBSET Cards]
      /\ usage \in [Usages -> {"unset", "error", "value"}]
      /\ card \in [Cards -> {"unset", "reset", "value"}]
  BY Types
<1>1. CASE Tick
  <2>1. UNCHANGED <<ctodo, usage, card, serving>>
        /\ pc' = [pc EXCEPT !["ticker"] = "usage"] /\ utodo' = [utodo EXCEPT !["ticker"] = Usages]
    BY <1>1 DEF Tick, Goto
  <2>2. pc'["main"] = pc["main"] /\ utodo'["main"] = utodo["main"]
    BY <2>1, <1>0
  <2> QED BY <2>1, <2>2 DEF UnsetInv
<1>2. CASE Gather \/ (\E p \in Procs : Flip(p)) \/ UNCHANGED vars
  <2>1. UNCHANGED <<pc, utodo, ctodo, usage, card, serving>>
    BY <1>2 DEF Gather, Flip, vars
  <2> QED BY <2>1 DEF UnsetInv
<1>3. ASSUME NEW c \in Collectors, SetUsage(c) PROVE UnsetInv'
  <2>1. UNCHANGED <<pc, ctodo, card, serving>>
    BY <1>3 DEF SetUsage
  <2>2. PICK u \in utodo[c] : /\ utodo' = [utodo EXCEPT ![c] = @ \ {u}]
                             /\ \E v \in {"value", "error"} : usage' = [usage EXCEPT ![u] = v]
    BY <1>3 DEF SetUsage
  <2>3. usage'[u] # "unset" /\ \A w \in Usages \ {u} : usage'[w] = usage[w]
    BY <2>2, <1>0
  <2>4. \A w \in Usages \ {u} : w \in utodo["main"] => w \in utodo'["main"]
    BY <2>2, <1>0
  <2> QED BY <2>1, <2>3, <2>4 DEF UnsetInv
<1>4. ASSUME NEW c \in Collectors, UsageDone(c) PROVE UnsetInv'
  <2>1. UNCHANGED <<utodo, usage, card, serving>> /\ pc[c] = "usage" /\ utodo[c] = {}
        /\ pc' = [pc EXCEPT ![c] = IF Cards = {} THEN "cardRead" ELSE "cardReset"]
        /\ ctodo' = [ctodo EXCEPT ![c] = Cards]
    BY <1>4 DEF UsageDone, Goto
  <2>2. CASE c = "main"
    <3>1. \A u \in Usages : usage[u] # "unset"
      BY <2>1, <2>2 DEF UnsetInv
    <3>2. serving' => FALSE
      BY <2>1, <2>2 DEF UnsetInv
    <3>3. pc'["main"] = (IF Cards = {} THEN "cardRead" ELSE "cardReset") /\ ctodo'["main"] = Cards
      BY <2>1, <2>2, <1>0
    <3>4. \A k \in Cards : pc'["main"] = "cardReset" /\ k \in ctodo'["main"]
      BY <3>3
    <3> QED BY <2>1, <3>1, <3>2, <3>4 DEF UnsetInv
  <2>3. CASE c = "ticker"
    <3>1. pc'["main"] = pc["main"] /\ ctodo'["main"] = ctodo["main"]
      BY <2>1, <2>3, <1>0
    <3> QED BY <2>1, <3>1 DEF UnsetInv
  <2> QED BY <2>2, <2>3
<1>5. ASSUME NEW c \in Collectors, ResetCard(c) PROVE UnsetInv'
  <2>1. UNCHANGED <<utodo, usage, serving>> /\ pc[c] = "cardReset"
    BY <1>5 DEF ResetCard
  <2>2. PICK k \in ctodo[c] :
          /\ ctodo' = [ctodo EXCEPT ![c] = @ \ {k}] /\ card' = [card EXCEPT ![k] = "reset"]
          /\ pc' = [pc EXCEPT ![c] = IF ctodo'[c] = {} THEN "cardRead" ELSE "cardReset"]
    BY <1>5 DEF ResetCard, Goto
  <2>3. card'[k] = "reset" /\ \A l \in Cards \ {k} : card'[l] = card[l]
    BY <2>2, <1>0
  <2>4. CASE c = "main"
    <3>1. pc'["main"] = (IF ctodo'["main"] = {} THEN "cardRead" ELSE "cardReset")
          /\ ctodo'["main"] = ctodo["main"] \ {k}
      BY <2>2, <2>4, <1>0
    <3>2. \A l \in Cards \ {k} : l \in ctodo["main"] =>
             pc'["main"] = "cardReset" /\ l \in ctodo'["main"]
      BY <3>1
    <3>3. (serving' => FALSE) /\ \A u \in Usages : usage'[u] # "unset"
      BY <2>1, <2>4 DEF UnsetInv
    <3>4. \A l \in Cards \ {k} : card[l] = "unset" => l \in ctodo["main"]
      BY <2>1, <2>4 DEF UnsetInv
    <3> QED BY <2>3, <3>2, <3>3, <3>4 DEF UnsetInv
  <2>5. CASE c = "ticker"
    <3>1. pc'["main"] = pc["main"] /\ ctodo'["main"] = ctodo["main"]
      BY <2>2, <2>5, <1>0
    <3> QED BY <2>1, <2>3, <3>1 DEF UnsetInv
  <2> QED BY <2>4, <2>5
<1>6. ASSUME NEW c \in Collectors, ReadCards(c) PROVE UnsetInv'
  <2>1. UNCHANGED <<utodo, usage, card, serving>> /\ pc[c] = "cardRead"
        /\ pc' = [pc EXCEPT ![c] = "cardSet"]
    BY <1>6 DEF ReadCards, Goto
  <2>2. CASE c = "main"
    <3>1. (\A u \in Usages : usage[u] # "unset") /\ (\A k \in Cards : card[k] # "unset")
          /\ (serving' => FALSE)
      BY <2>1, <2>2 DEF UnsetInv
    <3> QED BY <2>1, <3>1 DEF UnsetInv
  <2>3. CASE c = "ticker"
    <3>1. pc'["main"] = pc["main"] /\ ctodo'["main"] = ctodo["main"]
      BY <2>1, <2>3, <1>6, <1>0 DEF ReadCards
    <3> QED BY <2>1, <3>1 DEF UnsetInv
  <2> QED BY <2>2, <2>3
<1>7. ASSUME NEW c \in Collectors, SetCard(c) PROVE UnsetInv'
  <2>1. UNCHANGED <<pc, utodo, usage, serving>> /\ pc[c] = "cardSet"
    BY <1>7 DEF SetCard
  <2>2. PICK k \in ctodo[c] :
          ctodo' = [ctodo EXCEPT ![c] = @ \ {k}] /\ card' = [card EXCEPT ![k] = "value"]
    BY <1>7 DEF SetCard
  <2>3. card'[k] = "value" /\ \A l \in Cards \ {k} : card'[l] = card[l]
    BY <2>2, <1>0
  <2>4. \A l \in Cards \ {k} : l \in ctodo["main"] => l \in ctodo'["main"]
    BY <2>2, <1>0
  <2> QED BY <2>1, <2>3, <2>4 DEF UnsetInv
<1>8. ASSUME NEW c \in Collectors,
             CardsDone(c) \/ ResetProc(c) \/ ReadProcs(c) \/ SetProc(c) \/ ProcsDone(c)
      PROVE  UnsetInv'
  <2>1. UNCHANGED <<utodo, ctodo, usage, card>>
        /\ pc[c] \in {"cardSet", "procReset", "procRead", "procSet"}
    BY <1>8 DEF CardsDone, ResetProc, ReadProcs, SetProc, ProcsDone
  <2>2. \/ pc' = [pc EXCEPT ![c] = "idle"] /\ serving' = (serving \/ c = "main")
        \/ pc' = pc /\ serving' = serving
        \/ serving' = serving /\ \E step \in Steps : pc' = [pc EXCEPT ![c] = step]
    BY <1>8 DEF CardsDone, ResetProc, ReadProcs, SetProc, ProcsDone, Finish, Goto, Steps
  <2>3. CASE c = "main"
    <3>1. (\A u \in Usages : usage[u] # "unset") /\ (\A k \in Cards : card[k] # "unset")
          /\ ~serving
      BY <2>1, <2>3 DEF UnsetInv
    <3>2. serving' => pc'["main"] = "idle"
      BY <2>2, <2>3, <3>1, <1>0
    <3> QED BY <2>1, <3>1, <3>2 DEF UnsetInv
  <2>4. CASE c = "ticker"
    <3>1. pc'["main"] = pc["main"]
      BY <2>2, <2>4, <1>0
    <3>2. c # "main"
      BY <2>4
    <3>3. serving' => serving
      BY <2>2, <3>2, Zenon
    <3> QED BY <2>1, <3>1, <3>3 DEF UnsetInv
  <2> QED BY <2>3, <2>4
<1> QED BY <1>1, <1>2, <1>3, <1>4, <1>5, <1>6, <1>7, <1>8 DEF Next, CollectStep

-----------------------------------------------------------------------------
(***************************************************************************)
(* The theorems.                                                           *)
(***************************************************************************)
\* The invariant is inductive.
THEOREM IInvariant == Spec => []IInv
<1>1. IInv /\ [Next]_vars => IInv'
  BY NextTypeOK, NextProcsInv, NextUnsetInv DEF IInv, ProcsInv
<1> QED BY InitIInv, <1>1, PTL DEF Spec

\* Type correctness for any gauges: two collections that overlap never make a
\* process gauge anything but 0 or 1.
THEOREM TypeCorrect == Spec => []TypeOK
<1>1. IInv => TypeOK
  BY DEF IInv
<1> QED BY IInvariant, <1>1, PTL

\* When both goroutines are between collections the process gauges are true of
\* all processes that did not flip during the last ones, however these overlapped.
THEOREM SettledGaugesHold == Spec => []SettledGaugesAreTrue
<1>1. IInv => SettledGaugesAreTrue
  <2> SUFFICES ASSUME IInv, Idle, NEW p \in Procs \ dirty
               PROVE  (proc[p] = 1 => p \in alive) /\ (p \in alive => proc[p] = 1 \/ broken)
    BY DEF SettledGaugesAreTrue
  <2>1. proc[p] \in 0..1
    BY Types DEF IInv
  <2>2. \A c \in Collectors : ~WillReset(c, p) /\ ~WillSet(c, p)
    BY DEF Idle, WillReset, WillSet, BeforeProcs
  <2>3. /\ proc[p] = 1 => p \in alive
        /\ p \in alive /\ proc[p] = 0 => broken
    BY <2>2 DEF IInv, ProcInv
  <2> QED BY <2>1, <2>3
<1> QED BY IInvariant, <1>1, PTL

\* A reader, pulling or pushing, never gathers a gauge that was not set, and is
\* misled about a process that never stopped only while a collection is between
\* the reset and the setting of the process gauges, or after a failed read.
THEOREM ReadersHold == Spec => []ReadersMisledOnlyDuringReset
<1>1. IInv => ReadersMisledOnlyDuringReset
  <2> SUFFICES ASSUME IInv, serving
               PROVE  /\ \A u \in Usages : usage[u] # "unset"
                      /\ \A k \in Cards : card[k] # "unset"
                      /\ \A p \in steady : proc[p] = 0 =>
                             \/ broken
                             \/ \E c \in Collectors :
                                    pc[c] \in {"procReset", "procRead", "procSet"}
    BY DEF ReadersMisledOnlyDuringReset
  <2>1. pc["main"] = "idle"
    BY DEF IInv, UnsetInv
  <2>2. (\A u \in Usages : usage[u] # "unset") /\ (\A k \in Cards : card[k] # "unset")
    BY <2>1 DEF IInv, UnsetInv
  <2>3. \A p \in steady : proc[p] = 0 => broken \/ \E c \in Collectors : InWindow(c, p)
    BY <2>1 DEF IInv, WindowInv, BeforeProcs
  <2> QED BY <2>2, <2>3 DEF InWindow
<1> QED BY IInvariant, <1>1, PTL
=============================================================================
