---------------------------- MODULE SshRunProofs ----------------------------
(***************************************************************************)
(* `wstools ssh` for any host list, any failures of dials and sessions and *)
(* any capacity of the result channel: each client is reported exactly     *)
(* once, nobody sends on the closed channel, and a success is real.        *)
(***************************************************************************)
EXTENDS SshRun, FiniteSetTheorems, TLAPS

LEMMA AppendRange ==
    ASSUME NEW S, NEW s \in Seq(S), NEW x \in S
    PROVE  /\ Append(s, x) \in Seq(S) /\ Len(Append(s, x)) = Len(s) + 1
           /\ Range(Append(s, x)) = Range(s) \cup {x}
           /\ IsInjective(s) /\ x \notin Range(s) => IsInjective(Append(s, x))
<1> DEFINE t == Append(s, x)
<1>1. t \in Seq(S) /\ Len(t) = Len(s) + 1 /\ DOMAIN t = 1..(Len(s) + 1)
      /\ DOMAIN s = 1..Len(s) /\ Len(s) \in Nat
  OBVIOUS
<1>2. t[Len(s) + 1] = x /\ \A i \in 1..Len(s) : t[i] = s[i]
  OBVIOUS
<1>3. Range(t) = Range(s) \cup {x}
  BY <1>1, <1>2 DEF Range
<1>4. IsInjective(s) /\ x \notin Range(s) => IsInjective(t)
  BY <1>1, <1>2 DEF Range, IsInjective
<1> QED BY <1>1, <1>3, <1>4

LEMMA TailRange ==
    ASSUME NEW S, NEW s \in Seq(S), s # <<>>, IsInjective(s)
    PROVE  /\ Head(s) \in S /\ Tail(s) \in Seq(S) /\ Len(Tail(s)) = Len(s) - 1
           /\ Head(s) \in Range(s)
           /\ Range(Tail(s)) = Range(s) \ {Head(s)}
           /\ IsInjective(Tail(s))
<1> DEFINE t == Tail(s)
<1>1. /\ t \in Seq(S) /\ Len(t) = Len(s) - 1 /\ DOMAIN t = 1..(Len(s) - 1)
      /\ DOMAIN s = 1..Len(s) /\ Len(s) \in Nat /\ Len(s) > 0
      /\ Head(s) = s[1] /\ Head(s) \in S
  OBVIOUS
<1>2. \A i \in 1..(Len(s) - 1) : t[i] = s[i + 1]
  OBVIOUS
<1>3. IsInjective(t)
  BY <1>1, <1>2 DEF IsInjective
<1>4. Range(t) \subseteq Range(s) \ {Head(s)}
  BY <1>1, <1>2 DEF Range, IsInjective
<1>5. ASSUME NEW x \in Range(s) \ {Head(s)} PROVE x \in Range(t)
  <2>1. PICK i \in 1..Len(s) : x = s[i]
    BY <1>1 DEF Range
  <2>2. i # 1 /\ i - 1 \in 1..(Len(s) - 1) /\ t[i - 1] = x
    BY <2>1, <1>1, <1>2
  <2> QED BY <2>2, <1>1 DEF Range
<1>6. Head(s) \in Range(s)
  BY <1>1 DEF Range
<1> QED BY <1>1, <1>3, <1>4, <1>5, <1>6

-----------------------------------------------------------------------------
(***************************************************************************)
(* The inductive invariant.                                                *)
(***************************************************************************)
\* Where a client is: its result is still to come, is in the channel, or has
\* been printed.
Busy == {h \in Hosts : wpc[h] \notin {"none", "sent"}}
Working == stodo \cup sblocked \cup Busy
Queued == Range(ret)
Answered == {h \in Hosts : <<h, outcome[h]>> \in reports}

\* Nothing is under way before the last dial, and main closes the channel only
\* after the last result.
PhaseInv ==
    /\ mpc \in {"parse", "dial", "fatal"} => Working = {} /\ Queued = {} /\ Answered = {}
    /\ closed => mpc \in {"closing", "exited"}
    /\ mpc \in {"closing", "exited"} => got = Cardinality(clients)

\* Every client is in exactly one of the three places, and main has counted
\* those whose result it printed.
PlaceInv ==
    /\ mpc \in {"collect", "closing", "exited"} => clients = Working \cup Queued \cup Answered
    /\ Working \cap Queued = {} /\ Working \cap Answered = {} /\ Queued \cap Answered = {}
    /\ sasking = {} \/ sblocked = {}
    /\ stodo \cap sblocked = {} /\ (stodo \cup sblocked) \cap Busy = {}
    /\ \A g, h \in sblocked : g = h
    /\ IsInjective(ret)
    /\ IsFiniteSet(clients) /\ got = Cardinality(Answered)

\* A result that is sent, or about to be, has a verdict, and what was printed for
\* a client is that verdict.
VerdictInv ==
    /\ \A h \in Hosts : (h \in sblocked \cup Queued \/ wpc[h] = "result")
                            => outcome[h] \in {"ok", "err"}
    /\ \A h \in Hosts : \A v \in {"ok", "err"} :
           <<h, v>> \in reports => v = outcome[h]

\* With a command a verdict "ok" comes from the end of the command.
CommandInv ==
    opts.mode = "cmd" => \A h \in Hosts :
        /\ wpc[h] \in {"none", "exec", "result", "sent"}
        /\ outcome[h] = "ok" => h \in done

IInv == TypeOK /\ PhaseInv /\ PlaceInv /\ VerdictInv /\ CommandInv

USE DEF mainVars, workVars

LEMMA InitIInv == Init => IInv
<1> SUFFICES ASSUME Init PROVE IInv OBVIOUS
<1> USE ListsAssumption, OptionsAssumption, SshBounds
<1>1. Working = {} /\ Answered = {} /\ Busy = {}
  BY DEF Init, Working, Busy, Answered
<1>2. Range(<<>>) = {} /\ IsInjective(<<>>)
  BY DEF Range, IsInjective
<1>3. Queued = {} /\ IsInjective(ret)
  BY <1>2 DEF Init, Queued
<1>4. IsFiniteSet(clients) /\ Cardinality(clients) = 0 /\ Cardinality(Answered) = 0
  BY <1>1, FS_EmptySet DEF Init
<1>5. TypeOK
  <2>1. todo \in Seq(Hosts) /\ ret \in Seq(Hosts) /\ Len(ret) = 0
    BY DEF Init
  <2>2. got \in 0..Cardinality(clients) /\ Len(ret) <= RetCap
    BY <2>1, <1>4 DEF Init
  <2>3. /\ wpc \in [Hosts -> WorkStates] /\ outcome \in [Hosts -> {"none", "ok", "err"}]
        /\ gpc \in [Hosts -> {"none", "pending", "piped", "over"}]
    BY DEF Init, WorkStates
  <2> QED BY <2>1, <2>2, <2>3 DEF Init, TypeOK
<1>6. PhaseInv
  BY <1>1, <1>3 DEF Init, PhaseInv
<1>7. PlaceInv
  BY <1>1, <1>3, <1>4 DEF Init, PlaceInv
<1>8. VerdictInv
  BY <1>3 DEF Init, VerdictInv
<1>9. CommandInv
  BY DEF Init, CommandInv
<1> QED BY <1>5, <1>6, <1>7, <1>8, <1>9 DEF IInv

\* A step that leaves the work, the results and main's count alone.
LEMMA QuietStep ==
    ASSUME IInv, UNCHANGED <<workVars, ret, opts, got, reports>>
    PROVE  /\ Working' = Working /\ Busy' = Busy /\ Queued' = Queued
           /\ Answered' = Answered
           /\ VerdictInv' /\ CommandInv'
<1>1. /\ Working' = Working /\ Busy' = Busy /\ Queued' = Queued
      /\ Answered' = Answered
  BY DEF Working, Busy, Queued, Answered
<1>2. VerdictInv' /\ CommandInv'
  BY <1>1 DEF IInv, VerdictInv, CommandInv
<1> QED BY <1>1, <1>2

\* The goroutines of a host h whose result is still to come work on: only h is
\* concerned, and it stays at work.
LEMMA WorkStep ==
    ASSUME IInv, NEW h \in Working, Alive,
           UNCHANGED <<mainVars, ret>>,
           wpc' \in [Hosts -> WorkStates], outcome' \in [Hosts -> {"none", "ok", "err"}],
           \A g \in Hosts \ {h} : wpc'[g] = wpc[g] /\ outcome'[g] = outcome[g],
           Working' = Working
    PROVE  /\ PhaseInv' /\ Queued' = Queued /\ Answered' = Answered
           /\ \A v \in {"ok", "err"} : <<h, v>> \notin reports
           /\ \A g \in Hosts \ {h} : (g \in Queued \/ wpc'[g] = "result")
                                        => outcome'[g] \in {"ok", "err"}
           /\ \A g \in Hosts : \A v \in {"ok", "err"} :
                  <<g, v>> \in reports' => v = outcome'[g]
<1>1. Queued' = Queued
  BY DEF Queued
<1>2. h \in Hosts /\ h \notin Answered /\ h \notin Queued
  BY DEF IInv, TypeOK, PlaceInv, Working, Busy
<1>3. \A v \in {"ok", "err"} : <<h, v>> \notin reports
  BY <1>2 DEF IInv, VerdictInv, Answered
<1>4. \A g \in Hosts : <<g, "none">> \notin reports
  BY DEF IInv, TypeOK, Verdicts
<1>5. Answered' = Answered
  <2>1. h \notin Answered'
    BY <1>2, <1>3, <1>4 DEF Answered
  <2>2. \A g \in Hosts \ {h} : g \in Answered' <=> g \in Answered
    BY DEF Answered
  <2> QED BY <2>1, <2>2, <1>2 DEF Answered
<1>6. PhaseInv'
  BY <1>1, <1>5 DEF IInv, PhaseInv
<1>7. \A g \in Hosts \ {h} : (g \in Queued \/ wpc'[g] = "result")
                               => outcome'[g] \in {"ok", "err"}
  BY DEF IInv, VerdictInv
<1>8. \A g \in Hosts : \A v \in {"ok", "err"} :
          <<g, v>> \in reports' => v = outcome'[g]
  BY <1>3 DEF IInv, VerdictInv
<1> QED BY <1>1, <1>3, <1>5, <1>6, <1>7, <1>8

\* A worker goes from one of its steps to another.
LEMMA BusyStep ==
    ASSUME IInv, NEW h \in Busy, Alive,
           UNCHANGED <<mainVars, ret, stodo, sasking, sblocked>>,
           wpc' \in [Hosts -> WorkStates], outcome' \in [Hosts -> {"none", "ok", "err"}],
           \A g \in Hosts \ {h} : wpc'[g] = wpc[g] /\ outcome'[g] = outcome[g],
           wpc'[h] \notin {"none", "sent"},
           wpc'[h] = "result" => outcome'[h] \in {"ok", "err"}
    PROVE  PhaseInv' /\ PlaceInv' /\ VerdictInv'
<1>1. h \in Hosts /\ h \in Working /\ h \notin sblocked /\ h \notin Queued
  BY DEF IInv, PlaceInv, Busy, Working
<1>2. Busy' = Busy
  BY DEF Busy
<1>3. Working' = Working
  BY <1>2 DEF Working
<1>4. /\ PhaseInv' /\ Queued' = Queued /\ Answered' = Answered
      /\ \A g \in Hosts \ {h} : (g \in Queued \/ wpc'[g] = "result")
                                   => outcome'[g] \in {"ok", "err"}
      /\ \A g \in Hosts : \A v \in {"ok", "err"} :
             <<g, v>> \in reports' => v = outcome'[g]
  BY <1>1, <1>3, WorkStep
<1>5. PlaceInv'
  BY <1>2, <1>3, <1>4 DEF IInv, PlaceInv
<1>6. \A g \in sblocked : outcome'[g] \in {"ok", "err"}
  BY <1>1 DEF IInv, VerdictInv, TypeOK
<1>7. VerdictInv'
  BY <1>1, <1>4, <1>6 DEF VerdictInv
<1> QED BY <1>4, <1>5, <1>7

\* A result goes into the channel: its host was at work before.
LEMMA SendStep ==
    ASSUME IInv, NEW h \in Working, Send(h),
           UNCHANGED <<mainVars, gpc, outcome, done>>,
           Working' = Working \ {h}, Busy' \subseteq Busy,
           stodo' = stodo, sasking' = sasking, sblocked' \subseteq sblocked,
           \A g \in Hosts : wpc'[g] = "result" => wpc[g] = "result",
           outcome[h] \in {"ok", "err"}
    PROVE  /\ ret' \in Seq(Hosts) /\ Len(ret') <= RetCap
           /\ PhaseInv' /\ PlaceInv' /\ VerdictInv'
<1> USE SshBounds
<1>1. ret \in Seq(Hosts) /\ h \in Hosts /\ h \notin Queued /\ h \notin Answered
  BY DEF IInv, TypeOK, PlaceInv, Working, Busy
<1>2. ret' = Append(ret, h) /\ Len(ret) < RetCap
  BY DEF Send
<1>3. /\ ret' \in Seq(Hosts) /\ Len(ret') = Len(ret) + 1
      /\ Queued' = Queued \cup {h} /\ IsInjective(ret')
  BY <1>1, <1>2, AppendRange DEF IInv, PlaceInv, Queued
<1>4. Len(ret') <= RetCap
  BY <1>1, <1>2, <1>3
<1>5. Answered' = Answered
  BY DEF Answered
<1>6. mpc \notin {"parse", "dial", "fatal"}
  BY DEF IInv, PhaseInv
<1>7. PhaseInv'
  BY <1>6 DEF IInv, PhaseInv
<1>8. PlaceInv'
  <2>1. mpc' \in {"collect", "closing", "exited"}
            => clients' = Working' \cup Queued' \cup Answered'
    BY <1>3, <1>5 DEF IInv, PlaceInv
  <2>2. /\ Working' \cap Queued' = {} /\ Working' \cap Answered' = {}
        /\ Queued' \cap Answered' = {}
    BY <1>1, <1>3, <1>5 DEF IInv, PlaceInv
  <2>3. /\ stodo' \cap sblocked' = {} /\ (stodo' \cup sblocked') \cap Busy' = {}
        /\ \A g1, g2 \in sblocked' : g1 = g2
    BY DEF IInv, PlaceInv
  <2> QED BY <2>1, <2>2, <2>3, <1>3, <1>5 DEF IInv, PlaceInv
<1>9. VerdictInv'
  BY <1>3 DEF IInv, VerdictInv
<1> QED BY <1>3, <1>4, <1>7, <1>8, <1>9

LEMMA MainIInv ==
    ASSUME IInv, MainStep \/ DialOk \/ DialFails PROVE IInv'
<1> USE ListsAssumption, OptionsAssumption, SshBounds
<1>1. CASE ParseFatal \/ ParseHosts
  <2>1. UNCHANGED <<workVars, ret, opts, clients, got, closed, reports>> /\ mpc = "parse"
        /\ mpc' \in {"fatal", "dial"} /\ todo' \in Seq(Hosts)
    BY <1>1 DEF ParseFatal, ParseHosts, IInv, TypeOK
  <2>2. /\ Working' = Working /\ Busy' = Busy /\ Queued' = Queued
        /\ Answered' = Answered /\ VerdictInv' /\ CommandInv'
    BY <2>1, QuietStep
  <2>3. TypeOK'
    BY <2>1 DEF IInv, TypeOK
  <2>4. PhaseInv' /\ PlaceInv'
    BY <2>1, <2>2 DEF IInv, PhaseInv, PlaceInv
  <2> QED BY <2>2, <2>3, <2>4 DEF IInv
<1>2. CASE DialOk
  <2>1. UNCHANGED <<workVars, ret, opts, mpc, got, closed, reports>> /\ mpc = "dial"
        /\ clients' = clients \cup {Head(todo)} /\ todo' = Tail(todo) /\ todo # <<>>
    BY <1>2 DEF DialOk
  <2>2. Head(todo) \in Hosts /\ todo' \in Seq(Hosts)
    BY <2>1 DEF IInv, TypeOK
  <2>3. /\ Working' = Working /\ Busy' = Busy /\ Queued' = Queued
        /\ Answered' = Answered /\ VerdictInv' /\ CommandInv'
    BY <2>1, QuietStep
  <2>4. IsFiniteSet(clients') /\ Cardinality(clients') \in Nat
        /\ Cardinality(clients) \in Nat /\ Cardinality(clients) <= Cardinality(clients')
    <3>1. IsFiniteSet(clients) /\ Cardinality(clients) \in Nat
      BY FS_CardinalityType DEF IInv, PlaceInv
    <3>2. /\ IsFiniteSet(clients')
          /\ Cardinality(clients') = IF Head(todo) \in clients THEN Cardinality(clients)
                                     ELSE Cardinality(clients) + 1
      BY <2>1, <3>1, FS_AddElement
    <3> QED BY <3>1, <3>2
  <2>5. TypeOK'
    BY <2>1, <2>2, <2>4 DEF IInv, TypeOK
  <2>6. PhaseInv' /\ PlaceInv'
    BY <2>1, <2>3, <2>4 DEF IInv, PhaseInv, PlaceInv
  <2> QED BY <2>3, <2>5, <2>6 DEF IInv
<1>3. CASE DialFails
  <2>1. UNCHANGED <<workVars, ret, opts, mpc, clients, got, closed>> /\ mpc = "dial"
        /\ reports' = reports \cup {<<Head(todo), "undialled">>}
        /\ todo' = Tail(todo) /\ todo # <<>>
    BY <1>3 DEF DialFails
  <2>2. Head(todo) \in Hosts /\ todo' \in Seq(Hosts)
    BY <2>1 DEF IInv, TypeOK
  <2>3. \A h \in Hosts : \A v \in {"none", "ok", "err"} :
            <<h, v>> \in reports' <=> <<h, v>> \in reports
    BY <2>1
  <2>4. /\ Working' = Working /\ Busy' = Busy /\ Queued' = Queued
        /\ Answered' = Answered
    BY <2>1, <2>3 DEF IInv, TypeOK, Working, Busy, Queued, Answered
  <2>5. TypeOK'
    BY <2>1, <2>2 DEF IInv, TypeOK, Verdicts
  <2>6. PhaseInv' /\ PlaceInv'
    BY <2>1, <2>4 DEF IInv, PhaseInv, PlaceInv
  <2>7. VerdictInv' /\ CommandInv'
    BY <2>1, <2>3, <2>4 DEF IInv, VerdictInv, CommandInv
  <2> QED BY <2>5, <2>6, <2>7 DEF IInv
<1>4. CASE StartWork
  <2>1. UNCHANGED <<opts, todo, clients, got, closed, reports, sasking, sblocked, gpc,
                    outcome, done, ret>> /\ mpc = "dial" /\ mpc' = "collect"
    BY <1>4 DEF StartWork
  <2>2. /\ Working = {} /\ Queued = {} /\ Answered = {} /\ stodo = {}
        /\ sblocked = {} /\ Busy = {}
    BY <2>1 DEF IInv, PhaseInv, Working
  <2>3. Queued' = {} /\ Answered' = {}
    BY <2>1, <2>2 DEF Queued, Answered
  <2>4. clients \subseteq Hosts /\ sasking = {}
    BY <2>2 DEF IInv, TypeOK
  <2>5. CASE opts.mode = "cmd" /\ stodo' = clients /\ UNCHANGED wpc
    <3>1. Busy' = {} /\ Working' = clients
      BY <2>1, <2>2, <2>5 DEF Busy, Working
    <3>2. TypeOK'
      BY <2>1, <2>4, <2>5 DEF IInv, TypeOK
    <3>3. PhaseInv' /\ PlaceInv'
      BY <2>1, <2>2, <2>3, <3>1 DEF IInv, PhaseInv, PlaceInv
    <3>4. VerdictInv' /\ CommandInv'
      BY <2>1, <2>2, <2>3, <2>5 DEF IInv, VerdictInv, CommandInv
    <3> QED BY <3>2, <3>3, <3>4 DEF IInv
  <2>6. CASE /\ opts.mode = "file" /\ UNCHANGED stodo
             /\ wpc' = [h \in Hosts |-> IF h \in clients THEN "open" ELSE "none"]
    <3>1. Busy' = clients /\ Working' = clients
      BY <2>1, <2>2, <2>4, <2>6 DEF Busy, Working
    <3>2. TypeOK'
      <4>1. wpc' \in [Hosts -> WorkStates]
        BY <2>6 DEF WorkStates
      <4> QED BY <2>1, <2>4, <2>6, <4>1 DEF IInv, TypeOK
    <3>3. PhaseInv' /\ PlaceInv'
      BY <2>1, <2>2, <2>3, <2>6, <3>1 DEF IInv, PhaseInv, PlaceInv
    <3>4. VerdictInv' /\ CommandInv'
      BY <2>1, <2>2, <2>3, <2>6 DEF IInv, VerdictInv, CommandInv
    <3> QED BY <3>2, <3>3, <3>4 DEF IInv
  <2> QED BY <1>4, <2>5, <2>6 DEF StartWork
<1>5. CASE NobodyToServe \/ CloseResults \/ Exit
  <2>1. UNCHANGED <<workVars, ret, opts, todo, clients, got, reports>>
    BY <1>5 DEF NobodyToServe, CloseResults, Exit
  <2>2. /\ Working' = Working /\ Busy' = Busy /\ Queued' = Queued
        /\ Answered' = Answered /\ VerdictInv' /\ CommandInv'
    BY <2>1, QuietStep
  <2>3. mpc' \in {"closing", "exited"} /\ (closed' = closed \/ closed' = TRUE)
    BY <1>5 DEF NobodyToServe, CloseResults, Exit
  <2>4. TypeOK'
    BY <2>1, <2>3 DEF IInv, TypeOK
  <2>5. got = Cardinality(clients) /\ clients = Working \cup Queued \cup Answered
    <3>1. CASE NobodyToServe
      BY <3>1, FS_EmptySet DEF NobodyToServe, IInv, PhaseInv, PlaceInv
    <3>2. CASE CloseResults \/ Exit
      BY <3>2 DEF CloseResults, Exit, IInv, PhaseInv, PlaceInv
    <3> QED BY <1>5, <3>1, <3>2
  <2>6. PhaseInv' /\ PlaceInv'
    BY <2>1, <2>2, <2>3, <2>5 DEF IInv, PhaseInv, PlaceInv
  <2> QED BY <2>2, <2>4, <2>6 DEF IInv
<1>6. CASE Collect
  <2> DEFINE h == Head(ret)
  <2>1. /\ UNCHANGED <<workVars, opts, mpc, todo, clients, closed>> /\ mpc = "collect"
        /\ got < Cardinality(clients) /\ got' = got + 1 /\ ret # <<>> /\ ret' = Tail(ret)
        /\ reports' = reports \cup {<<h, outcome[h]>>}
    BY <1>6 DEF Collect
  <2>2. /\ h \in Hosts /\ ret' \in Seq(Hosts) /\ Len(ret') = Len(ret) - 1
        /\ h \in Queued /\ Queued' = Queued \ {h} /\ IsInjective(ret')
    BY <2>1, TailRange DEF IInv, TypeOK, PlaceInv, Queued
  <2>3. outcome[h] \in {"ok", "err"} /\ h \notin Answered
    BY <2>2 DEF IInv, VerdictInv, PlaceInv
  <2>4. Answered' = Answered \cup {h}
    BY <2>1, <2>2 DEF Answered
  <2>5. Working' = Working /\ Busy' = Busy
    BY <2>1 DEF Working, Busy
  <2>6. IsFiniteSet(Answered) /\ Cardinality(Answered') = got'
    <3>1. Answered \in SUBSET clients
      BY <2>1 DEF IInv, PlaceInv
    <3>2. IsFiniteSet(Answered)
      BY <3>1, FS_Subset DEF IInv, PlaceInv
    <3> QED BY <2>1, <2>3, <2>4, <3>2, FS_AddElement DEF IInv, PlaceInv
  <2>7. TypeOK'
    <3>1. got' \in 0..Cardinality(clients) /\ Len(ret') <= RetCap
      BY <2>1, <2>2, FS_CardinalityType DEF IInv, TypeOK, PlaceInv
    <3> QED BY <2>1, <2>2, <2>3, <3>1 DEF IInv, TypeOK, Verdicts
  <2>8. PhaseInv'
    BY <2>1 DEF IInv, PhaseInv
  <2>9. PlaceInv'
    BY <2>1, <2>2, <2>3, <2>4, <2>5, <2>6 DEF IInv, PlaceInv
  <2>10. VerdictInv' /\ CommandInv'
    BY <2>1, <2>2 DEF IInv, VerdictInv, CommandInv
  <2> QED BY <2>7, <2>8, <2>9, <2>10 DEF IInv
<1> QED BY <1>1, <1>2, <1>3, <1>4, <1>5, <1>6 DEF MainStep

LEMMA SenderIInv ==
    ASSUME NEW h0 \in Hosts, IInv,
           SenderAsks(h0) \/ SenderSends(h0) \/ SessionOpened(h0) \/ SessionRefused(h0)
    PROVE  IInv'
<1> USE SshBounds
<1>1. ASSUME NEW h \in Hosts, SessionOpened(h) PROVE IInv'
  <2>1. /\ UNCHANGED <<mainVars, ret, sblocked, gpc, outcome, done>> /\ Alive
        /\ h \in stodo /\ sblocked = {} /\ stodo' = stodo \ {h} /\ sasking' = {}
        /\ wpc' = [wpc EXCEPT ![h] = "exec"]
    BY <1>1 DEF SessionOpened, IInv, TypeOK, PlaceInv
  <2>2. TypeOK'
    BY <2>1 DEF IInv, TypeOK, WorkStates
  <2>3. wpc'[h] = "exec" /\ (\A g \in Hosts \ {h} : wpc'[g] = wpc[g])
    BY <2>1 DEF IInv, TypeOK
  <2>4. Busy' = Busy \cup {h} /\ h \notin Busy /\ h \in Working
    BY <2>1, <2>3 DEF IInv, PlaceInv, Busy, Working, TypeOK
  <2>5. Working' = Working
    BY <2>1, <2>4 DEF Working
  <2>6. /\ PhaseInv' /\ Queued' = Queued /\ Answered' = Answered
        /\ \A g \in Hosts \ {h} : (g \in Queued \/ wpc'[g] = "result")
                                     => outcome'[g] \in {"ok", "err"}
        /\ \A g \in Hosts : \A v \in {"ok", "err"} :
               <<g, v>> \in reports' => v = outcome'[g]
    BY <2>1, <2>2, <2>3, <2>4, <2>5, WorkStep DEF TypeOK
  <2>7. PlaceInv'
    BY <2>1, <2>4, <2>5, <2>6 DEF IInv, PlaceInv
  <2>8. VerdictInv'
    BY <2>1, <2>3, <2>4, <2>6 DEF IInv, VerdictInv, PlaceInv
  <2>9. CommandInv'
    BY <2>1, <2>3 DEF IInv, CommandInv
  <2> QED BY <2>2, <2>6, <2>7, <2>8, <2>9 DEF IInv
<1>2. ASSUME NEW h \in Hosts, SessionRefused(h) PROVE IInv'
  <2>1. /\ UNCHANGED <<mainVars, ret, wpc, gpc, done>> /\ Alive
        /\ h \in stodo /\ sblocked = {} /\ stodo' = stodo \ {h} /\ sasking' = {}
        /\ sblocked' = {h}
        /\ outcome' = [outcome EXCEPT ![h] = "err"]
    BY <1>2 DEF SessionRefused, IInv, TypeOK, PlaceInv
  <2>2. TypeOK'
    BY <2>1 DEF IInv, TypeOK
  <2>3. outcome'[h] = "err" /\ (\A g \in Hosts \ {h} : outcome'[g] = outcome[g])
    BY <2>1 DEF IInv, TypeOK
  <2>4. Busy' = Busy /\ h \notin Busy /\ h \in Working
    BY <2>1 DEF IInv, PlaceInv, Busy, Working
  <2>5. Working' = Working
    BY <2>1, <2>4 DEF Working
  <2>6. /\ PhaseInv' /\ Queued' = Queued /\ Answered' = Answered
        /\ \A g \in Hosts \ {h} : (g \in Queued \/ wpc'[g] = "result")
                                     => outcome'[g] \in {"ok", "err"}
        /\ \A g \in Hosts : \A v \in {"ok", "err"} :
               <<g, v>> \in reports' => v = outcome'[g]
    BY <2>1, <2>2, <2>3, <2>4, <2>5, WorkStep DEF TypeOK
  <2>7. PlaceInv'
    BY <2>1, <2>4, <2>5, <2>6 DEF IInv, PlaceInv
  <2>8. VerdictInv'
    BY <2>1, <2>3, <2>6 DEF VerdictInv
  <2>9. CommandInv'
    BY <2>1, <2>3 DEF IInv, CommandInv
  <2> QED BY <2>2, <2>6, <2>7, <2>8, <2>9 DEF IInv
<1>3. ASSUME NEW h \in Hosts, SenderSends(h) PROVE IInv'
  <2>1. /\ UNCHANGED <<mainVars, stodo, sasking, wpc, gpc, outcome, done>>
        /\ h \in sblocked /\ sblocked' = {} /\ Send(h)
    BY <1>3 DEF SenderSends
  <2>2. sblocked = {h} /\ h \in Working /\ outcome[h] \in {"ok", "err"}
    BY <2>1 DEF IInv, PlaceInv, VerdictInv, Working
  <2>3. Busy' = Busy /\ Working' = Working \ {h}
    BY <2>1, <2>2 DEF IInv, PlaceInv, Busy, Working
  <2>4. /\ ret' \in Seq(Hosts) /\ Len(ret') <= RetCap
        /\ PhaseInv' /\ PlaceInv' /\ VerdictInv'
    BY <2>1, <2>2, <2>3, SendStep
  <2>5. TypeOK'
    BY <2>1, <2>4 DEF IInv, TypeOK
  <2>6. CommandInv'
    BY <2>1 DEF IInv, CommandInv
  <2> QED BY <2>4, <2>5, <2>6 DEF IInv
<1>4. ASSUME NEW h \in Hosts, SenderAsks(h) PROVE IInv'
  <2>1. /\ UNCHANGED <<mainVars, ret, stodo, sblocked, wpc, gpc, outcome, done>>
        /\ h \in stodo /\ sblocked = {} /\ sasking' = {h}
    BY <1>4 DEF SenderAsks, SenderFree
  <2>2. TypeOK'
    BY <2>1 DEF IInv, TypeOK
  <2>3. /\ Working' = Working /\ Busy' = Busy /\ Queued' = Queued
        /\ Answered' = Answered
    BY <2>1 DEF Working, Busy, Queued, Answered
  <2>4. PhaseInv' /\ PlaceInv'
    BY <2>1, <2>3 DEF IInv, PhaseInv, PlaceInv
  <2>5. VerdictInv' /\ CommandInv'
    BY <2>1, <2>3 DEF IInv, VerdictInv, CommandInv
  <2> QED BY <2>2, <2>4, <2>5 DEF IInv
<1> QED BY <1>1, <1>2, <1>3, <1>4

LEMMA HostIInv ==
    ASSUME NEW h0 \in Hosts, IInv, LocalStep(h0) \/ RemoteStep(h0) PROVE IInv'
<1> USE SshBounds
<1>1. ASSUME NEW h \in Hosts, WorkerSends(h) PROVE IInv'
  <2>1. /\ UNCHANGED <<mainVars, stodo, sasking, sblocked, gpc, outcome, done>>
        /\ wpc[h] = "result" /\ wpc' = [wpc EXCEPT ![h] = "sent"] /\ Send(h)
    BY <1>1 DEF WorkerSends
  <2>2. wpc'[h] = "sent" /\ (\A g \in Hosts \ {h} : wpc'[g] = wpc[g])
    BY <2>1 DEF IInv, TypeOK
  <2>3. h \in Busy /\ h \in Working /\ outcome[h] \in {"ok", "err"}
    BY <2>1 DEF IInv, VerdictInv, Working, Busy
  <2>4. Busy' = Busy \ {h}
    BY <2>1, <2>2 DEF Busy
  <2>5. Working' = Working \ {h}
    BY <2>1, <2>3, <2>4 DEF IInv, PlaceInv, Working
  <2>6. /\ ret' \in Seq(Hosts) /\ Len(ret') <= RetCap
        /\ PhaseInv' /\ PlaceInv' /\ VerdictInv'
    BY <2>1, <2>2, <2>3, <2>4, <2>5, SendStep
  <2>7. TypeOK'
    BY <2>1, <2>6 DEF IInv, TypeOK, WorkStates
  <2>8. CommandInv'
    BY <2>1, <2>2 DEF IInv, CommandInv
  <2> QED BY <2>6, <2>7, <2>8 DEF IInv
<1>2. ASSUME NEW h \in Hosts, CommandEnds(h) PROVE IInv'
  <2>1. /\ UNCHANGED <<mainVars, ret, stodo, sasking, sblocked>> /\ h \in Busy /\ Alive
        /\ wpc'[h] \notin {"none", "sent"}
        /\ \A g \in Hosts \ {h} : wpc'[g] = wpc[g] /\ outcome'[g] = outcome[g]
        /\ wpc'[h] = "result" => outcome'[h] \in {"ok", "err"}
    BY <1>2 DEF CommandEnds, IInv, TypeOK, Busy
  <2>2. TypeOK'
    BY <1>2 DEF CommandEnds, IInv, TypeOK, WorkStates
  <2>3. PhaseInv' /\ PlaceInv' /\ VerdictInv'
    BY <2>1, <2>2, BusyStep DEF TypeOK
  <2>4. CommandInv'
    BY <1>2 DEF CommandEnds, IInv, TypeOK, CommandInv
  <2> QED BY <2>2, <2>3, <2>4 DEF IInv
<1>3. ASSUME NEW h \in Hosts, OpenFile(h) PROVE IInv'
  <2>1. /\ UNCHANGED <<mainVars, ret, stodo, sasking, sblocked>> /\ h \in Busy /\ Alive
        /\ wpc'[h] \notin {"none", "sent"}
        /\ \A g \in Hosts \ {h} : wpc'[g] = wpc[g] /\ outcome'[g] = outcome[g]
        /\ wpc'[h] = "result" => outcome'[h] \in {"ok", "err"}
    BY <1>3 DEF OpenFile, Give, IInv, TypeOK, Busy
  <2>2. TypeOK'
    BY <1>3 DEF OpenFile, Give, IInv, TypeOK, WorkStates
  <2>3. PhaseInv' /\ PlaceInv' /\ VerdictInv'
    BY <2>1, <2>2, BusyStep DEF TypeOK
  <2>4. CommandInv'
    BY <1>3 DEF OpenFile, Give, IInv, TypeOK, CommandInv
  <2> QED BY <2>2, <2>3, <2>4 DEF IInv
<1>4. ASSUME NEW h \in Hosts, NewSession(h) PROVE IInv'
  <2>1. /\ UNCHANGED <<mainVars, ret, stodo, sasking, sblocked>> /\ h \in Busy /\ Alive
        /\ wpc'[h] \notin {"none", "sent"}
        /\ \A g \in Hosts \ {h} : wpc'[g] = wpc[g] /\ outcome'[g] = outcome[g]
        /\ wpc'[h] = "result" => outcome'[h] \in {"ok", "err"}
    BY <1>4 DEF NewSession, Give, IInv, TypeOK, Busy
  <2>2. TypeOK'
    BY <1>4 DEF NewSession, Give, IInv, TypeOK, WorkStates
  <2>3. PhaseInv' /\ PlaceInv' /\ VerdictInv'
    BY <2>1, <2>2, BusyStep DEF TypeOK
  <2>4. CommandInv'
    BY <1>4 DEF NewSession, Give, IInv, TypeOK, CommandInv
  <2> QED BY <2>2, <2>3, <2>4 DEF IInv
<1>5. ASSUME NEW h \in Hosts, StatFile(h) PROVE IInv'
  <2>1. /\ UNCHANGED <<mainVars, ret, stodo, sasking, sblocked>> /\ h \in Busy /\ Alive
        /\ wpc'[h] \notin {"none", "sent"}
        /\ \A g \in Hosts \ {h} : wpc'[g] = wpc[g] /\ outcome'[g] = outcome[g]
        /\ wpc'[h] = "result" => outcome'[h] \in {"ok", "err"}
    BY <1>5 DEF StatFile, Give, IInv, TypeOK, Busy
  <2>2. TypeOK'
    BY <1>5 DEF StatFile, Give, IInv, TypeOK, WorkStates
  <2>3. PhaseInv' /\ PlaceInv' /\ VerdictInv'
    BY <2>1, <2>2, BusyStep DEF TypeOK
  <2>4. CommandInv'
    BY <1>5 DEF StatFile, Give, IInv, TypeOK, CommandInv
  <2> QED BY <2>2, <2>3, <2>4 DEF IInv
<1>6. ASSUME NEW h \in Hosts, StartScp(h) PROVE IInv'
  <2>1. /\ UNCHANGED <<mainVars, ret, stodo, sasking, sblocked>> /\ h \in Busy /\ Alive
        /\ wpc'[h] \notin {"none", "sent"}
        /\ \A g \in Hosts \ {h} : wpc'[g] = wpc[g] /\ outcome'[g] = outcome[g]
        /\ wpc'[h] = "result" => outcome'[h] \in {"ok", "err"}
    BY <1>6 DEF StartScp, Give, IInv, TypeOK, Busy
  <2>2. TypeOK'
    BY <1>6 DEF StartScp, Give, IInv, TypeOK, WorkStates
  <2>3. PhaseInv' /\ PlaceInv' /\ VerdictInv'
    BY <2>1, <2>2, BusyStep DEF TypeOK
  <2>4. CommandInv'
    BY <1>6 DEF StartScp, Give, IInv, TypeOK, CommandInv
  <2> QED BY <2>2, <2>3, <2>4 DEF IInv
<1>7. ASSUME NEW h \in Hosts, ScpExits(h) PROVE IInv'
  <2>1. /\ UNCHANGED <<mainVars, ret, stodo, sasking, sblocked>> /\ h \in Busy /\ Alive
        /\ wpc'[h] \notin {"none", "sent"}
        /\ \A g \in Hosts \ {h} : wpc'[g] = wpc[g] /\ outcome'[g] = outcome[g]
        /\ wpc'[h] = "result" => outcome'[h] \in {"ok", "err"}
    BY <1>7 DEF ScpExits, Give, IInv, TypeOK, Busy
  <2>2. TypeOK'
    BY <1>7 DEF ScpExits, Give, IInv, TypeOK, WorkStates
  <2>3. PhaseInv' /\ PlaceInv' /\ VerdictInv'
    BY <2>1, <2>2, BusyStep DEF TypeOK
  <2>4. CommandInv'
    BY <1>7 DEF ScpExits, Give, IInv, TypeOK, CommandInv
  <2> QED BY <2>2, <2>3, <2>4 DEF IInv
<1>8. ASSUME NEW h \in Hosts, OpenPipe(h) \/ CopyFile(h) PROVE IInv'
  <2>1. UNCHANGED <<mainVars, ret, stodo, sasking, sblocked, wpc, outcome>> /\ done \subseteq done'
    BY <1>8 DEF OpenPipe, CopyFile
  <2>2. TypeOK'
    BY <1>8 DEF OpenPipe, CopyFile, IInv, TypeOK
  <2>3. /\ Working' = Working /\ Busy' = Busy /\ Queued' = Queued
        /\ Answered' = Answered
    BY <2>1 DEF Working, Busy, Queued, Answered
  <2>4. PhaseInv' /\ PlaceInv'
    BY <2>1, <2>3 DEF IInv, PhaseInv, PlaceInv
  <2>5. VerdictInv' /\ CommandInv'
    BY <2>1, <2>3 DEF IInv, VerdictInv, CommandInv
  <2> QED BY <2>2, <2>4, <2>5 DEF IInv
<1> QED
  BY <1>1, <1>2, <1>3, <1>4, <1>5, <1>6, <1>7, <1>8, MainIInv, SenderIInv
     DEF LocalStep, RemoteStep, DialStep

LEMMA NextIInv == IInv /\ [Next]_vars => IInv'
<1> SUFFICES ASSUME IInv, [Next]_vars PROVE IInv' OBVIOUS
<1>1. CASE UNCHANGED vars
  <2>1. /\ Working' = Working /\ Busy' = Busy /\ Queued' = Queued
        /\ Answered' = Answered /\ VerdictInv' /\ CommandInv'
    BY <1>1, QuietStep DEF vars
  <2>2. TypeOK' /\ PhaseInv' /\ PlaceInv'
    BY <1>1, <2>1 DEF vars, IInv, TypeOK, PhaseInv, PlaceInv
  <2> QED BY <2>1, <2>2 DEF IInv
<1> QED BY <1>1, MainIInv, SenderIInv, HostIInv DEF Next, SenderStep, Ended

\* The invariant holds in every reachable state of `wstools ssh`, for any number
\* of hosts, any host list and any capacity of the result channel.
THEOREM IInvariant == Spec => []IInv
BY InitIInv, NextIInv, PTL DEF Spec

\* The channel never holds more than its capacity, main never counts more results
\* than it has clients, and every other variable has its type.
THEOREM TypeCorrect == Spec => []TypeOK
<1>1. IInv => TypeOK
  BY DEF IInv
<1> QED BY IInvariant, <1>1, PTL

\* Once main has counted as many results as clients, all of them are printed.
LEMMA AllAnswered ==
    ASSUME IInv, mpc \in {"closing", "exited"}
    PROVE  Answered = clients /\ Working = {} /\ Queued = {}
<1>1. /\ Answered \in SUBSET clients /\ IsFiniteSet(clients)
      /\ Cardinality(clients) = Cardinality(Answered)
  BY DEF IInv, PlaceInv, PhaseInv
<1>2. clients = Answered
  BY <1>1, FS_Subset
<1> QED BY <1>2 DEF IInv, PlaceInv

\* No goroutine of `wstools ssh` sends on the channel that main has closed: the
\* sender has no host left and every worker has sent its result.
THEOREM NoSendAfterCloseHolds == Spec => []NoSendAfterClose
<1>1. IInv => NoSendAfterClose
  <2> SUFFICES ASSUME IInv, closed PROVE stodo = {} /\ sblocked = {}
                              /\ \A h \in Hosts : wpc[h] \in {"none", "sent"}
    BY DEF NoSendAfterClose
  <2>1. mpc \in {"closing", "exited"}
    BY DEF IInv, PhaseInv
  <2>2. Working = {}
    BY <2>1, AllAnswered
  <2> QED BY <2>2 DEF Working, Busy
<1> QED BY IInvariant, <1>1, PTL

\* When the program ends, each client has exactly one line with its verdict and
\* a host that could not be dialled has none.
THEOREM ReportedOnceHolds == Spec => []EveryHostReportedOnce
<1>1. IInv => EveryHostReportedOnce
  <2> SUFFICES ASSUME IInv, mpc = "exited", NEW h \in Hosts
               PROVE  Cardinality({r \in reports : r[1] = h /\ r[2] # "undialled"})
                          = IF h \in clients THEN 1 ELSE 0
    BY DEF EveryHostReportedOnce
  <2> DEFINE lines == {r \in reports : r[1] = h /\ r[2] # "undialled"}
  <2>1. Answered = clients
    BY AllAnswered
  <2>2. ASSUME NEW r \in lines PROVE r = <<h, outcome[h]>>
    <3>1. PICK g \in Hosts, v \in Verdicts : r = <<g, v>>
      BY DEF IInv, TypeOK
    <3>2. g = h /\ v \in {"ok", "err"} /\ <<h, v>> \in reports
      BY <3>1 DEF Verdicts
    <3> QED BY <3>1, <3>2 DEF IInv, VerdictInv
  <2>3. CASE h \in clients
    <3>1. <<h, outcome[h]>> \in reports
      BY <2>1, <2>3 DEF Answered
    <3>2. outcome[h] # "undialled"
      BY DEF IInv, TypeOK
    <3>3. lines = {<<h, outcome[h]>>}
      BY <3>1, <3>2, <2>2
    <3>4. Cardinality(lines) = 1
      BY <3>3, FS_Singleton
    <3> QED BY <2>3, <3>4
  <2>4. CASE h \notin clients
    <3>1. <<h, outcome[h]>> \notin reports
      BY <2>1, <2>4 DEF Answered
    <3>2. lines = {}
      BY <3>1, <2>2
    <3>3. Cardinality(lines) = 0
      BY <3>2, FS_EmptySet
    <3> QED BY <2>4, <3>3
  <2> QED BY <2>3, <2>4
<1> QED BY IInvariant, <1>1, PTL

\* SUCCESS of a command is only printed for a host on which the command ran to
\* its end, whichever sessions fail.
THEOREM CommandSuccessHolds == Spec => []CommandSuccessIsReal
<1>1. IInv => CommandSuccessIsReal
  BY DEF IInv, CommandInv, VerdictInv, CommandSuccessIsReal
<1> QED BY IInvariant, <1>1, PTL
=============================================================================
