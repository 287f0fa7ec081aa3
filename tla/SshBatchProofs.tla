--------------------------- MODULE SshBatchProofs ---------------------------
(***************************************************************************)
(* SSHBatchCommond for any connections and any number of commands: the     *)
(* one SSHResult that a worker uses again and again never makes a false    *)
(* SUCCESS, and no worker receives more commands than main was given.      *)
(***************************************************************************)
EXTENDS SshBatch, FiniteSetTheorems, TLAPS

AtMostOnce(s, x) == \A i, j \in DOMAIN s : s[i] = x /\ s[j] = x => i = j

-----------------------------------------------------------------------------
(***************************************************************************)
(* The inductive invariant.                                                *)
(***************************************************************************)
\* Before the first command no worker has received or reported anything; the
\* workers belong to clients; and a client that the broadcast has still to
\* serve is one command behind.
MainInv ==
    /\ mpc = "dial" => clients = {}
    /\ mpc \in {"dial", "session"} =>
           \A h \in Hosts : got[h] = 0 /\ ~ret[h].err /\ wpc[h] \notin {"run", "result"}
    /\ \A h \in Hosts : wpc[h] # "none" => h \in clients
    /\ \A h \in Hosts : wpc[h] \in {"run", "result"} => got[h] >= 1
    /\ mpc = "broadcast" => IsInjective(todo) /\ \A h \in Range(todo) : got[h] < accepted

\* No result of h is on its way or printed.
NothingSent(h) == h \notin Range(results) /\ printed[h] = <<>>

\* One result of h is on its way, or it is printed and none is on its way.
SentOnce(h) ==
    \/ printed[h] = <<>> /\ AtMostOnce(results, h)
    \/ Len(printed[h]) = 1 /\ h \notin Range(results)

Succeeded(h) == ret[h].data = 1 /\ <<h, 1>> \in done

\* As long as the Error of a worker is not set, its second command has not ended,
\* and at most the result of the first has been sent.
First(h) == ~ret[h].err =>
    \/ got[h] = 0 /\ wpc[h] \notin {"run", "result"} /\ NothingSent(h)
    \/ got[h] = 1 /\ wpc[h] = "run" /\ NothingSent(h)
    \/ got[h] = 1 /\ wpc[h] = "result" /\ NothingSent(h) /\ Succeeded(h)
    \/ got[h] = 1 /\ wpc[h] \notin {"run", "result"} /\ SentOnce(h) /\ Succeeded(h)
    \/ got[h] = 2 /\ wpc[h] = "run" /\ SentOnce(h) /\ Succeeded(h)

FirstInv == \A h \in Hosts : First(h)

IInv == TypeOK /\ MainInv /\ FirstInv /\ SuccessIsReal

-----------------------------------------------------------------------------
(***************************************************************************)
(* Sequences.                                                              *)
(***************************************************************************)
LEMMA AppendFacts ==
    ASSUME NEW S, NEW s \in Seq(S), NEW x \in S
    PROVE  /\ Append(s, x) \in Seq(S) /\ Len(Append(s, x)) = Len(s) + 1
           /\ Append(s, x)[Len(s) + 1] = x
           /\ \A i \in DOMAIN s : Append(s, x)[i] = s[i]
           /\ DOMAIN Append(s, x) = DOMAIN s \cup {Len(s) + 1}
           /\ Range(Append(s, x)) = Range(s) \cup {x}
           /\ x \notin Range(s) => AtMostOnce(Append(s, x), x)
           /\ \A y : y # x /\ AtMostOnce(s, y) => AtMostOnce(Append(s, x), y)
<1> DEFINE t == Append(s, x)
<1>1. t \in Seq(S) /\ Len(t) = Len(s) + 1 /\ DOMAIN t = 1..(Len(s) + 1)
      /\ DOMAIN s = 1..Len(s) /\ Len(s) \in Nat
  OBVIOUS
<1>2. t[Len(s) + 1] = x /\ \A i \in 1..Len(s) : t[i] = s[i]
  OBVIOUS
<1>3. DOMAIN t = DOMAIN s \cup {Len(s) + 1}
  BY <1>1
<1>4. Range(t) = Range(s) \cup {x}
  BY <1>1, <1>2 DEF Range
<1>5. x \notin Range(s) => AtMostOnce(t, x)
  BY <1>1, <1>2 DEF Range, AtMostOnce
<1>6. \A y : y # x /\ AtMostOnce(s, y) => AtMostOnce(t, y)
  BY <1>1, <1>2 DEF AtMostOnce
<1> QED BY <1>1, <1>2, <1>3, <1>4, <1>5, <1>6

LEMMA TailFacts ==
    ASSUME NEW S, NEW s \in Seq(S), s # <<>>
    PROVE  /\ Head(s) \in S /\ Tail(s) \in Seq(S) /\ Len(Tail(s)) = Len(s) - 1
           /\ Head(s) \in Range(s) /\ Range(Tail(s)) \subseteq Range(s)
           /\ IsInjective(s) => IsInjective(Tail(s)) /\ Head(s) \notin Range(Tail(s))
           /\ AtMostOnce(s, Head(s)) => Head(s) \notin Range(Tail(s))
           /\ \A y : AtMostOnce(s, y) => AtMostOnce(Tail(s), y)
<1> DEFINE t == Tail(s)
<1>1. /\ t \in Seq(S) /\ Len(t) = Len(s) - 1 /\ DOMAIN t = 1..(Len(s) - 1)
      /\ DOMAIN s = 1..Len(s) /\ Len(s) \in Nat /\ Len(s) > 0
      /\ Head(s) = s[1] /\ Head(s) \in S
  OBVIOUS
<1>2. \A i \in 1..(Len(s) - 1) : t[i] = s[i + 1]
  OBVIOUS
<1>3. Head(s) \in Range(s) /\ Range(t) \subseteq Range(s)
  BY <1>1, <1>2 DEF Range
<1>4. IsInjective(s) => IsInjective(t) /\ Head(s) \notin Range(t)
  BY <1>1, <1>2 DEF Range, IsInjective
<1>5. AtMostOnce(s, Head(s)) => Head(s) \notin Range(t)
  BY <1>1, <1>2 DEF Range, AtMostOnce
<1>6. \A y : AtMostOnce(s, y) => AtMostOnce(t, y)
  BY <1>1, <1>2 DEF AtMostOnce
<1> QED BY <1>1, <1>3, <1>4, <1>5, <1>6

\* A loop over a map visits every key once.
LEMMA OrdersFacts ==
    ASSUME NEW S, IsFiniteSet(S), NEW s \in Orders(S)
    PROVE  s \in Seq(S) /\ IsInjective(s) /\ Range(s) = S
<1> DEFINE n == Cardinality(S)
<1>1. n \in Nat /\ IsFiniteSet(1..n) /\ Cardinality(1..n) = n
  BY FS_CardinalityType, FS_Interval
<1>2. s \in [1..n -> S] /\ Range(s) = S
  BY DEF Orders
<1>3. s \in Seq(S)
  BY <1>1, <1>2
<1>4. s \in Surjection(1..n, S)
  BY <1>2 DEF Surjection, Range
<1>5. s \in Injection(1..n, S)
  BY <1>1, <1>4, FS_SurjSameCardinalityImpliesInj
<1> QED BY <1>2, <1>3, <1>5 DEF Injection

-----------------------------------------------------------------------------
USE BatchAssumption DEF mainVars, workVars, printVars

\* The clients are hosts of the list, and finitely many.
LEMMA ClientsFinite ==
    ASSUME TypeOK, NEW S \in SUBSET Range(conns)
    PROVE  IsFiniteSet(S) /\ S \subseteq Hosts
<1>1. conns \in Seq(Hosts)
  BY DEF TypeOK
<1>2. DOMAIN conns = 1..Len(conns) /\ Len(conns) \in Nat /\ Range(conns) \subseteq Hosts
  BY <1>1 DEF Range
<1>3. conns \in Surjection(1..Len(conns), Range(conns))
  BY <1>1, <1>2 DEF Surjection, Range
<1>4. IsFiniteSet(1..Len(conns))
  BY <1>2, FS_Interval
<1>5. IsFiniteSet(Range(conns))
  BY <1>3, <1>4, FS_Surjection
<1> QED BY <1>2, <1>5, FS_Subset

LEMMA InitIInv == Init => IInv
<1> SUFFICES ASSUME Init PROVE IInv OBVIOUS
<1>1. Range(<<>>) = {} /\ Len(<<>>) = 0 /\ \A S : <<>> \in Seq(S)
  BY DEF Range
<1>2. TypeOK
  <2>1. conns \in Seq(Hosts) /\ Len(conns) \in Nat
    BY DEF Init
  <2>2. /\ wpc \in [Hosts -> {"none", "deaf", "idle", "run", "result", "ended"}]
        /\ ret \in [Hosts -> [data : 0..MaxCmds, err : BOOLEAN]]
        /\ got \in [Hosts -> 0..accepted] /\ printed \in [Hosts -> Seq(Line)]
    BY <1>1 DEF Init
  <2>3. accepted \in 0..MaxCmds /\ Len(results) <= Cap
    BY <1>1, <2>1 DEF Init, Cap
  <2> QED BY <1>1, <2>2, <2>3 DEF Init, TypeOK
<1>3. MainInv /\ FirstInv /\ SuccessIsReal
  BY <1>1 DEF Init, MainInv, FirstInv, First, NothingSent, SuccessIsReal
<1> QED BY <1>2, <1>3 DEF IInv

\* What the type invariant says of the pieces that the steps below use.
LEMMA Facts ==
    ASSUME IInv
    PROVE  /\ TypeOK /\ MainInv /\ FirstInv /\ SuccessIsReal
           /\ DOMAIN wpc = Hosts /\ DOMAIN got = Hosts /\ DOMAIN ret = Hosts
           /\ DOMAIN printed = Hosts
           /\ accepted \in Nat /\ MaxCmds \in Nat
           /\ \A h \in Hosts : got[h] \in Nat /\ got[h] <= accepted
           /\ \A h \in Hosts : printed[h] \in Seq(Line)
           /\ \A h \in Hosts : DOMAIN ret[h] = {"data", "err"}
           /\ clients \subseteq Hosts /\ IsFiniteSet(clients)
<1>1. TypeOK /\ MainInv /\ FirstInv /\ SuccessIsReal
  BY DEF IInv
<1>2. clients \subseteq Hosts /\ IsFiniteSet(clients)
  BY <1>1, ClientsFinite DEF TypeOK
<1>3. /\ wpc \in [Hosts -> {"none", "deaf", "idle", "run", "result", "ended"}]
      /\ ret \in [Hosts -> [data : 0..MaxCmds, err : BOOLEAN]]
      /\ got \in [Hosts -> 0..accepted] /\ printed \in [Hosts -> Seq(Line)]
      /\ accepted \in 0..MaxCmds
  BY <1>1 DEF TypeOK
<1>4. accepted \in Nat /\ \A h \in Hosts : got[h] \in Nat /\ got[h] <= accepted
  BY <1>3
<1>5. DOMAIN wpc = Hosts /\ DOMAIN got = Hosts /\ DOMAIN ret = Hosts /\ DOMAIN printed = Hosts
  BY <1>3
<1>6. \A h \in Hosts : printed[h] \in Seq(Line)
  BY <1>3
<1>7. \A h \in Hosts : DOMAIN ret[h] = {"data", "err"}
  BY <1>3
<1> QED BY <1>1, <1>2, <1>4, <1>5, <1>6, <1>7

LEMMA NextMainInv == IInv /\ [Next]_vars => MainInv'
<1> SUFFICES ASSUME IInv, [Next]_vars PROVE MainInv' OBVIOUS
<1>0. /\ TypeOK /\ MainInv /\ DOMAIN wpc = Hosts /\ DOMAIN got = Hosts /\ DOMAIN ret = Hosts
      /\ accepted \in Nat /\ \A h \in Hosts : got[h] \in Nat /\ got[h] <= accepted
      /\ clients \subseteq Hosts /\ IsFiniteSet(clients)
  BY Facts
<1>1. CASE Dial
  <2>1. mpc = "dial" /\ mpc' = "session" /\ UNCHANGED workVars
    BY <1>1 DEF Dial
  <2> QED BY <2>1, <1>0 DEF MainInv
<1>2. CASE OpenSession
  <2>1. /\ UNCHANGED <<mpc, clients, accepted, ret, got>> /\ mpc = "session" /\ todo # <<>>
        /\ \E state \in {"idle", "deaf"} : wpc' = [wpc EXCEPT ![Head(todo)] = state]
    BY <1>2 DEF OpenSession
  <2>2. Head(todo) \in clients
    BY <2>1, <1>0, TailFacts DEF TypeOK
  <2>3. /\ wpc'[Head(todo)] \in {"idle", "deaf"}
        /\ \A h \in Hosts \ {Head(todo)} : wpc'[h] = wpc[h]
    BY <2>1, <2>2, <1>0
  <2> QED BY <2>1, <2>2, <2>3, <1>0 DEF MainInv
<1>3. CASE Accept
  <2>1. /\ UNCHANGED <<clients, workVars>> /\ accepted' = accepted + 1 /\ mpc' = "broadcast"
        /\ todo' \in Orders(clients)
    BY <1>3 DEF Accept
  <2>2. IsInjective(todo') /\ Range(todo') = clients
    BY <2>1, <1>0, OrdersFacts
  <2> QED BY <2>1, <2>2, <1>0 DEF MainInv
<1>4. CASE Broadcast
  <2>1. CASE /\ todo # <<>> /\ wpc[Head(todo)] = "idle"
             /\ wpc' = [wpc EXCEPT ![Head(todo)] = "run"]
             /\ got' = [got EXCEPT ![Head(todo)] = @ + 1]
             /\ todo' = Tail(todo) /\ UNCHANGED mpc
    <3>1. UNCHANGED <<clients, accepted, ret>> /\ mpc = "broadcast"
      BY <1>4 DEF Broadcast
    <3>2. Head(todo) \in clients /\ Head(todo) \in Range(todo)
          /\ IsInjective(todo') /\ Head(todo) \notin Range(todo')
          /\ Range(todo') \subseteq Range(todo) /\ Range(todo') \subseteq clients
      <4>1. todo \in Seq(clients) /\ IsInjective(todo)
        BY <3>1, <1>0 DEF TypeOK, MainInv
      <4>2. Range(todo) \subseteq clients
        BY <4>1 DEF Range
      <4> QED BY <2>1, <4>1, <4>2, TailFacts
    <3>3. wpc'[Head(todo)] = "run" /\ got'[Head(todo)] = got[Head(todo)] + 1
          /\ \A h \in Hosts \ {Head(todo)} : wpc'[h] = wpc[h] /\ got'[h] = got[h]
      BY <2>1, <3>2, <1>0
    <3> QED BY <2>1, <3>1, <3>2, <3>3, <1>0 DEF MainInv
  <2>2. CASE todo = <<>> /\ mpc' = "select" /\ UNCHANGED <<todo, wpc, got>>
    <3>1. UNCHANGED <<clients, accepted, ret>>
      BY <1>4 DEF Broadcast
    <3> QED BY <2>2, <3>1, <1>0 DEF MainInv
  <2> QED BY <1>4, <2>1, <2>2 DEF Broadcast
<1>5. CASE Listen \/ SelectDone \/ CloseClient \/ CloseResults
  <2>1. UNCHANGED <<clients, workVars>> /\ mpc' \notin {"dial", "session", "broadcast"}
    BY <1>5 DEF Listen, SelectDone, CloseClient, CloseResults
  <2> QED BY <2>1, <1>0 DEF MainInv
<1>6. ASSUME NEW h \in Hosts, CommandEnds(h) PROVE MainInv'
  <2>1. /\ UNCHANGED <<mainVars, got>> /\ wpc[h] = "run" /\ wpc' = [wpc EXCEPT ![h] = "result"]
    BY <1>6 DEF CommandEnds
  <2>2. mpc \notin {"dial", "session"}
    BY <2>1, <1>0 DEF MainInv
  <2> QED BY <2>1, <2>2, <1>0 DEF MainInv
<1>7. ASSUME NEW h \in Hosts, SendResult(h) \/ WorkerEnds(h) PROVE MainInv'
  <2>1. /\ UNCHANGED <<mainVars, ret, got>> /\ wpc[h] # "none"
        /\ \E state \in {"idle", "ended"} : wpc' = [wpc EXCEPT ![h] = state]
    BY <1>7 DEF SendResult, WorkerEnds
  <2>2. wpc'[h] \in {"idle", "ended"} /\ \A g \in Hosts \ {h} : wpc'[g] = wpc[g]
    BY <2>1, <1>0
  <2> QED BY <2>1, <2>2, <1>0 DEF MainInv
<1>8. CASE (\E h \in Hosts : SendOnClosed(h)) \/ PrintNil
  <2>1. UNCHANGED <<clients, workVars>> /\ mpc' = "panic"
    BY <1>8 DEF SendOnClosed, PrintNil, Panic
  <2> QED BY <2>1, <1>0 DEF MainInv
<1>9. CASE PrintResult \/ PrinterDone \/ Cancel \/ UNCHANGED vars
  <2>1. UNCHANGED <<mpc, todo, clients, accepted, workVars>>
    BY <1>9 DEF PrintResult, PrinterDone, Cancel, vars
  <2> QED BY <2>1, <1>0 DEF MainInv
<1> QED BY <1>1, <1>2, <1>3, <1>4, <1>5, <1>6, <1>7, <1>8, <1>9
        DEF Next, MainStep, WorkerStep, PrinterStep

LEMMA NextTypeOK == IInv /\ [Next]_vars => TypeOK'
<1> SUFFICES ASSUME IInv, [Next]_vars PROVE TypeOK' OBVIOUS
<1> DEFINE Places == {"none", "deaf", "idle", "run", "result", "ended"}
           Result == [data : 0..MaxCmds, err : BOOLEAN]
<1>0. /\ TypeOK /\ MainInv /\ accepted \in Nat /\ clients \subseteq Hosts /\ IsFiniteSet(clients)
      /\ \A h \in Hosts : got[h] \in Nat /\ got[h] <= accepted
  BY Facts
<1>f. /\ wpc \in [Hosts -> Places] /\ ret \in [Hosts -> Result] /\ got \in [Hosts -> 0..accepted]
      /\ printed \in [Hosts -> Seq(Line)]
  BY <1>0 DEF TypeOK
<1>1. CASE Dial
  <2>1. /\ UNCHANGED <<conns, accepted, shut, cancelled, workVars, printVars, results, closed>>
        /\ mpc = "dial" /\ mpc' = "session"
        /\ clients' \subseteq Range(conns) /\ todo' \in Orders(clients')
    BY <1>1 DEF Dial
  <2>2. IsFiniteSet(clients')
    BY <2>1, <1>0, ClientsFinite
  <2>3. todo' \in Seq(clients')
    BY <2>1, <2>2, OrdersFacts
  <2>4. clients = {} /\ done = {} /\ shut = {} /\ results \in Seq(clients')
    <3>1. clients = {}
      BY <2>1, <1>0 DEF MainInv
    <3>2. done = {} /\ shut = {} /\ results \in Seq({})
      BY <3>1, <1>0 DEF TypeOK
    <3>3. results \in Seq(clients')
      BY <3>2
    <3> QED BY <3>1, <3>2, <3>3
  <2> QED BY <2>1, <2>3, <2>4, <1>0 DEF TypeOK, Cap
<1>2. CASE OpenSession
  <2>1. /\ UNCHANGED <<conns, mpc, clients, accepted, shut, cancelled, ret, got, done,
                       printVars, results, closed>>
        /\ todo # <<>> /\ todo' = Tail(todo)
        /\ \E state \in {"idle", "deaf"} : wpc' = [wpc EXCEPT ![Head(todo)] = state]
    BY <1>2 DEF OpenSession
  <2>2. todo' \in Seq(clients)
    BY <2>1, <1>0, TailFacts DEF TypeOK
  <2>3. wpc' \in [Hosts -> Places]
    BY <2>1, <1>f
  <2> QED BY <2>1, <2>2, <2>3, <1>0 DEF TypeOK, Cap
<1>3. CASE Listen
  <2>1. /\ UNCHANGED <<conns, todo, clients, accepted, shut, cancelled, workVars, printed,
                       results, closed>>
        /\ mpc' \in {"returned", "select"} /\ (ppc' = ppc \/ ppc' = "select")
    BY <1>3 DEF Listen
  <2> QED BY <2>1, <1>0 DEF TypeOK, Cap
<1>4. CASE Accept
  <2>1. /\ UNCHANGED <<conns, clients, shut, cancelled, workVars, printVars, results, closed>>
        /\ accepted < MaxCmds /\ accepted' = accepted + 1 /\ mpc' = "broadcast"
        /\ todo' \in Orders(clients)
    BY <1>4 DEF Accept
  <2>2. todo' \in Seq(clients)
    BY <2>1, <1>0, OrdersFacts
  <2>3. accepted' \in 0..MaxCmds /\ 0..accepted \subseteq 0..accepted'
    BY <2>1, <1>0
  <2>4. got' \in [Hosts -> 0..accepted']
    BY <2>1, <2>3, <1>f
  <2> QED BY <2>1, <2>2, <2>3, <2>4, <1>0 DEF TypeOK, Cap
<1>5. CASE Broadcast
  <2>1. /\ UNCHANGED <<conns, clients, accepted, shut, cancelled, ret, done,
                       printVars, results, closed>>
        /\ mpc = "broadcast"
    BY <1>5 DEF Broadcast
  <2>2. CASE /\ todo # <<>> /\ wpc' = [wpc EXCEPT ![Head(todo)] = "run"]
             /\ got' = [got EXCEPT ![Head(todo)] = @ + 1]
             /\ todo' = Tail(todo) /\ UNCHANGED mpc
    <3>1. Head(todo) \in Range(todo) /\ Head(todo) \in clients /\ todo' \in Seq(clients)
      BY <2>2, <1>0, TailFacts DEF TypeOK
    <3>2. got[Head(todo)] \in Nat /\ got[Head(todo)] < accepted
      BY <3>1, <2>1, <1>0 DEF MainInv
    <3>3. got[Head(todo)] + 1 \in 0..accepted
      BY <3>2, <1>0
    <3>4. got' \in [Hosts -> 0..accepted]
      BY <2>2, <3>3, <1>f
    <3>5. wpc' \in [Hosts -> Places]
      BY <2>2, <1>f
    <3> QED BY <2>1, <2>2, <3>1, <3>4, <3>5, <1>0 DEF TypeOK, Cap
  <2>3. CASE mpc' = "select" /\ UNCHANGED <<todo, wpc, got>>
    BY <2>1, <2>3, <1>0 DEF TypeOK, Cap
  <2> QED BY <1>5, <2>2, <2>3 DEF Broadcast
<1>6. CASE SelectDone
  <2>1. /\ UNCHANGED <<conns, clients, accepted, shut, cancelled, workVars, printVars,
                       results, closed>>
        /\ mpc' = "close" /\ todo' \in Orders(clients)
    BY <1>6 DEF SelectDone
  <2>2. todo' \in Seq(clients)
    BY <2>1, <1>0, OrdersFacts
  <2> QED BY <2>1, <2>2, <1>0 DEF TypeOK, Cap
<1>7. CASE CloseClient
  <2>1. /\ UNCHANGED <<conns, mpc, clients, accepted, cancelled, workVars, printVars,
                       results, closed>>
        /\ todo # <<>> /\ shut' = shut \cup {Head(todo)} /\ todo' = Tail(todo)
    BY <1>7 DEF CloseClient
  <2>2. todo' \in Seq(clients) /\ Head(todo) \in clients
    BY <2>1, <1>0, TailFacts DEF TypeOK
  <2> QED BY <2>1, <2>2, <1>0 DEF TypeOK, Cap
<1>8. CASE CloseResults
  <2>1. /\ UNCHANGED <<conns, todo, clients, accepted, shut, cancelled, workVars, printVars,
                       results>>
        /\ closed' = TRUE /\ mpc' = "returned"
    BY <1>8 DEF CloseResults
  <2> QED BY <2>1, <1>0 DEF TypeOK, Cap
<1>9. ASSUME NEW h \in Hosts, CommandEnds(h) PROVE TypeOK'
  <2>1. /\ UNCHANGED <<mainVars, got, printVars, results, closed>>
        /\ wpc[h] = "run" /\ wpc' = [wpc EXCEPT ![h] = "result"]
    BY <1>9 DEF CommandEnds
  <2>2. h \in clients /\ got[h] \in 1..MaxCmds
    <3>1. h \in clients /\ got[h] >= 1
      BY <2>1, <1>0 DEF MainInv
    <3>2. got[h] \in Nat /\ got[h] <= accepted /\ accepted \in 0..MaxCmds
      BY <1>0 DEF TypeOK
    <3> QED BY <3>1, <3>2, <1>0
  <2>3. wpc' \in [Hosts -> Places]
    BY <2>1, <1>f
  <2>4. ret' \in [Hosts -> Result] /\ done' \subseteq clients \X (1..MaxCmds)
    <3>1. done \subseteq clients \X (1..MaxCmds) /\ <<h, got[h]>> \in clients \X (1..MaxCmds)
      BY <2>2, <1>0 DEF TypeOK
    <3>2. CASE ret' = [ret EXCEPT ![h].data = got[h]] /\ done' = done \cup {<<h, got[h]>>}
      <4>1. ret[h] \in Result /\ got[h] \in 0..MaxCmds
        BY <2>2, <1>f
      <4>2. [ret[h] EXCEPT !.data = got[h]] \in Result
        BY <4>1
      <4>3. ret' \in [Hosts -> Result]
        BY <3>2, <4>2, <1>f
      <4> QED BY <3>1, <3>2, <4>3
    <3>3. CASE ret' = [ret EXCEPT ![h].err = TRUE] /\ UNCHANGED done
      <4>1. [ret[h] EXCEPT !.err = TRUE] \in Result
        BY <1>f
      <4>2. ret' \in [Hosts -> Result]
        BY <3>3, <4>1, <1>f
      <4> QED BY <3>1, <3>3, <4>2
    <3> QED BY <1>9, <3>2, <3>3 DEF CommandEnds
  <2> QED BY <2>1, <2>3, <2>4, <1>0 DEF TypeOK, Cap
<1>10. ASSUME NEW h \in Hosts, SendResult(h) PROVE TypeOK'
  <2>1. /\ UNCHANGED <<mainVars, ret, got, done, printVars, closed>>
        /\ wpc[h] = "result" /\ Len(results) < Cap
        /\ results' = Append(results, h) /\ wpc' = [wpc EXCEPT ![h] = "idle"]
    BY <1>10 DEF SendResult
  <2>2. h \in clients
    BY <2>1, <1>0 DEF MainInv
  <2>3. wpc' \in [Hosts -> Places]
    BY <2>1, <1>f
  <2>4. results' \in Seq(clients) /\ Len(results') = Len(results) + 1
    BY <2>1, <2>2, <1>0, AppendFacts DEF TypeOK
  <2>5. Len(results) \in Nat /\ Cap \in Nat /\ Cap' = Cap
    <3>1. results \in Seq(clients) /\ conns \in Seq(Hosts)
      BY <1>0 DEF TypeOK
    <3> QED BY <2>1, <3>1 DEF Cap
  <2>6. Len(results') <= Cap'
    BY <2>1, <2>4, <2>5
  <2> QED BY <2>1, <2>3, <2>4, <2>6, <1>0 DEF TypeOK
<1>11. ASSUME NEW h \in Hosts, WorkerEnds(h) PROVE TypeOK'
  <2>1. /\ UNCHANGED <<mainVars, ret, got, done, printVars, results, closed>>
        /\ wpc' = [wpc EXCEPT ![h] = "ended"]
    BY <1>11 DEF WorkerEnds
  <2>2. wpc' \in [Hosts -> Places]
    BY <2>1, <1>f
  <2> QED BY <2>1, <2>2, <1>0 DEF TypeOK, Cap
<1>12. CASE (\E h \in Hosts : SendOnClosed(h)) \/ PrintNil
  <2>1. /\ UNCHANGED <<conns, todo, clients, accepted, shut, cancelled, workVars, printVars,
                       results, closed>>
        /\ mpc' = "panic"
    BY <1>12 DEF SendOnClosed, PrintNil, Panic
  <2> QED BY <2>1, <1>0 DEF TypeOK, Cap
<1>13. CASE PrintResult
  <2> DEFINE h == Head(results)
             line == [ok |-> ~ret[h].err, data |-> ret[h].data]
  <2>1. /\ UNCHANGED <<mainVars, workVars, ppc, closed>> /\ results # <<>>
        /\ printed' = [printed EXCEPT ![h] = Append(@, line)] /\ results' = Tail(results)
    BY <1>13 DEF PrintResult
  <2>2. h \in clients /\ results' \in Seq(clients) /\ Len(results') = Len(results) - 1
    BY <2>1, <1>0, TailFacts DEF TypeOK
  <2>3. Len(results) \in Nat /\ Cap \in Nat /\ Cap' = Cap /\ Len(results) <= Cap
    <3>1. results \in Seq(clients) /\ conns \in Seq(Hosts) /\ Len(results) <= Cap
      BY <1>0 DEF TypeOK
    <3> QED BY <2>1, <3>1 DEF Cap
  <2>4. Len(results') <= Cap'
    BY <2>2, <2>3
  <2>5. ret[h] \in Result /\ printed[h] \in Seq(Line)
    BY <2>2, <1>0, <1>f
  <2>6. line \in Line
    BY <2>5 DEF Line
  <2> HIDE DEF line
  <2>7. Append(printed[h], line) \in Seq(Line)
    BY <2>5, <2>6, AppendFacts
  <2>8. printed' \in [Hosts -> Seq(Line)]
    BY <2>1, <2>7, <1>f
  <2> QED BY <2>1, <2>2, <2>4, <2>8, <1>0 DEF TypeOK
<1>14. CASE PrinterDone
  <2>1. UNCHANGED <<mainVars, workVars, printed, results, closed>> /\ ppc' = "over"
    BY <1>14 DEF PrinterDone
  <2> QED BY <2>1, <1>0 DEF TypeOK, Cap
<1>15. CASE Cancel \/ UNCHANGED vars
  <2>1. /\ UNCHANGED <<conns, mpc, todo, clients, accepted, shut, workVars, printVars,
                       results, closed>>
        /\ (cancelled' = cancelled \/ cancelled' = TRUE)
    BY <1>15 DEF Cancel, vars
  <2> QED BY <2>1, <1>0 DEF TypeOK, Cap
<1> QED BY <1>1, <1>2, <1>3, <1>4, <1>5, <1>6, <1>7, <1>8, <1>9, <1>10, <1>11, <1>12, <1>13,
           <1>14, <1>15
        DEF Next, MainStep, WorkerStep, PrinterStep

\* A step that leaves the pieces of a host alone.
LEMMA FirstUntouched ==
    ASSUME NEW h \in Hosts, First(h), ret'[h] = ret[h], got'[h] = got[h], wpc'[h] = wpc[h],
           UNCHANGED <<results, printed>>, done \subseteq done'
    PROVE  First(h)'
<1>1. NothingSent(h)' = NothingSent(h) /\ SentOnce(h)' = SentOnce(h)
  BY DEF NothingSent, SentOnce
<1>2. Succeeded(h) => Succeeded(h)'
  BY DEF Succeeded
<1> QED BY <1>1, <1>2 DEF First

LEMMA NextFirstInv == IInv /\ [Next]_vars => FirstInv' /\ SuccessIsReal'
<1> SUFFICES ASSUME IInv, [Next]_vars PROVE FirstInv' /\ SuccessIsReal' OBVIOUS
<1>0. /\ TypeOK /\ MainInv /\ FirstInv /\ SuccessIsReal
      /\ DOMAIN wpc = Hosts /\ DOMAIN got = Hosts /\ DOMAIN ret = Hosts
      /\ DOMAIN printed = Hosts /\ clients \subseteq Hosts
      /\ \A h \in Hosts : got[h] \in Nat
      /\ \A h \in Hosts : DOMAIN ret[h] = {"data", "err"}
      /\ \A h \in Hosts : printed[h] \in Seq(Line)
  BY Facts
<1>a. \A h \in Hosts : First(h)
  BY <1>0 DEF FirstInv
<1>b. ASSUME \A h \in Hosts : First(h)' PROVE FirstInv'
  BY <1>b DEF FirstInv
<1>c. ASSUME UNCHANGED printed, done \subseteq done' PROVE SuccessIsReal'
  BY <1>0, <1>c DEF SuccessIsReal
<1>1. CASE Dial \/ Listen \/ Accept \/ SelectDone \/ CloseClient \/ CloseResults
           \/ (\E h \in Hosts : SendOnClosed(h)) \/ PrintNil \/ PrinterDone \/ Cancel
           \/ UNCHANGED vars
  <2>1. UNCHANGED <<workVars, printed, results>>
    BY <1>1 DEF Dial, Listen, Accept, SelectDone, CloseClient, CloseResults, SendOnClosed,
                PrintNil, PrinterDone, Cancel, vars
  <2>2. \A h \in Hosts : First(h)'
    BY <2>1, <1>a, FirstUntouched
  <2> QED BY <2>1, <2>2, <1>b, <1>c
<1>2. CASE OpenSession
  <2>1. /\ UNCHANGED <<ret, got, done, printed, results>> /\ mpc = "session" /\ todo # <<>>
        /\ \E state \in {"idle", "deaf"} : wpc' = [wpc EXCEPT ![Head(todo)] = state]
    BY <1>2 DEF OpenSession
  <2>2. PICK g \in Hosts : g = Head(todo)
    BY <2>1, <1>0, TailFacts DEF TypeOK
  <2>3. /\ wpc'[g] \in {"idle", "deaf"}
        /\ \A h \in Hosts \ {g} : wpc'[h] = wpc[h]
    BY <2>1, <2>2, <1>0
  <2>4. First(g)'
    <3>1. got[g] = 0 /\ ~ret[g].err
      BY <2>1, <2>2, <1>0 DEF MainInv
    <3>2. NothingSent(g)
      BY <3>1, <2>2, <1>a DEF First
    <3> QED BY <2>1, <2>3, <3>1, <3>2 DEF First, NothingSent
  <2>5. \A h \in Hosts \ {g} : First(h)'
    BY <2>1, <2>3, <1>a, FirstUntouched
  <2> QED BY <2>1, <2>4, <2>5, <1>b, <1>c
<1>3. CASE Broadcast
  <2>1. UNCHANGED <<ret, done, printed, results>>
    BY <1>3 DEF Broadcast
  <2>2. CASE /\ todo # <<>> /\ wpc[Head(todo)] = "idle"
             /\ wpc' = [wpc EXCEPT ![Head(todo)] = "run"]
             /\ got' = [got EXCEPT ![Head(todo)] = @ + 1]
    <3>1. PICK g \in Hosts : g = Head(todo)
      BY <2>2, <1>0, TailFacts DEF TypeOK
    <3>2. wpc'[g] = "run" /\ got'[g] = got[g] + 1
          /\ \A h \in Hosts \ {g} : wpc'[h] = wpc[h] /\ got'[h] = got[h]
      BY <2>2, <3>1, <1>0
    <3>3. First(g)'
      <4>1. ~ret[g].err => \/ got[g] = 0 /\ NothingSent(g)
                           \/ got[g] = 1 /\ SentOnce(g) /\ Succeeded(g)
        BY <2>2, <3>1, <1>a DEF First
      <4>2. ret' = ret /\ NothingSent(g)' = NothingSent(g) /\ SentOnce(g)' = SentOnce(g)
            /\ Succeeded(g)' = Succeeded(g)
        BY <2>1 DEF NothingSent, SentOnce, Succeeded
      <4> QED BY <3>2, <4>1, <4>2 DEF First
    <3>4. \A h \in Hosts \ {g} : First(h)'
      BY <2>1, <3>2, <1>a, FirstUntouched
    <3> QED BY <2>1, <3>3, <3>4, <1>b, <1>c
  <2>3. CASE UNCHANGED <<todo, wpc, got>>
    <3>1. \A h \in Hosts : First(h)'
      BY <2>1, <2>3, <1>a, FirstUntouched
    <3> QED BY <2>1, <3>1, <1>b, <1>c
  <2> QED BY <1>3, <2>2, <2>3 DEF Broadcast
<1>4. ASSUME NEW h \in Hosts, CommandEnds(h) PROVE FirstInv' /\ SuccessIsReal'
  <2>1. /\ UNCHANGED <<got, printed, results>>
        /\ wpc[h] = "run" /\ wpc' = [wpc EXCEPT ![h] = "result"]
        /\ \/ /\ got[h] = 1 /\ ret' = [ret EXCEPT ![h].data = got[h]]
              /\ done' = done \cup {<<h, got[h]>>}
           \/ ret' = [ret EXCEPT ![h].err = TRUE] /\ done' = done
    BY <1>4 DEF CommandEnds
  <2>2. done \subseteq done' /\ wpc'[h] = "result"
        /\ \A g \in Hosts \ {h} : wpc'[g] = wpc[g] /\ ret'[g] = ret[g]
    BY <2>1, <1>0
  <2>3. CASE got[h] = 1 /\ ret' = [ret EXCEPT ![h].data = got[h]]
             /\ done' = done \cup {<<h, got[h]>>}
    <3>1. ret'[h].err = ret[h].err /\ ret'[h].data = 1 /\ <<h, 1>> \in done'
      BY <2>3, <1>0
    <3>2. ~ret[h].err => NothingSent(h)
      BY <2>1, <2>3, <1>a DEF First
    <3>3. NothingSent(h)' = NothingSent(h)
      BY <2>1 DEF NothingSent
    <3>4. First(h)'
      BY <2>1, <2>2, <2>3, <3>1, <3>2, <3>3 DEF First, Succeeded
    <3> QED BY <3>4, <2>1, <2>2, <1>a, <1>b, <1>c, FirstUntouched
  <2>4. CASE ret' = [ret EXCEPT ![h].err = TRUE]
    <3>1. ret'[h].err
      BY <2>4, <1>0
    <3>2. First(h)'
      BY <3>1 DEF First
    <3> QED BY <3>2, <2>1, <2>2, <1>a, <1>b, <1>c, FirstUntouched
  <2> QED BY <2>1, <2>3, <2>4
<1>5. ASSUME NEW h \in Hosts, SendResult(h) PROVE FirstInv' /\ SuccessIsReal'
  <2>1. /\ UNCHANGED <<ret, got, done, printed>> /\ wpc[h] = "result"
        /\ results' = Append(results, h) /\ wpc' = [wpc EXCEPT ![h] = "idle"]
    BY <1>5 DEF SendResult
  <2>2. wpc'[h] = "idle" /\ \A g \in Hosts \ {h} : wpc'[g] = wpc[g]
    BY <2>1, <1>0
  <2>3. h \in clients
    BY <2>1, <1>0 DEF MainInv
  <2>4. /\ Range(results') = Range(results) \cup {h}
        /\ h \notin Range(results) => AtMostOnce(results', h)
        /\ \A y : y # h /\ AtMostOnce(results, y) => AtMostOnce(results', y)
    <3>1. results \in Seq(clients)
      BY <1>0 DEF TypeOK
    <3> QED BY <2>1, <2>3, <3>1, AppendFacts
  <2>5. First(h)'
    <3>1. ~ret[h].err => got[h] = 1 /\ NothingSent(h) /\ Succeeded(h)
      BY <2>1, <1>a DEF First
    <3>2. NothingSent(h) => SentOnce(h)'
      BY <2>1, <2>4 DEF NothingSent, SentOnce
    <3> QED BY <2>1, <2>2, <3>1, <3>2 DEF First, Succeeded
  <2>6. ASSUME NEW g \in Hosts \ {h} PROVE First(g)'
    <3>1. (NothingSent(g) => NothingSent(g)') /\ (SentOnce(g) => SentOnce(g)')
          /\ Succeeded(g)' = Succeeded(g)
      BY <2>1, <2>4 DEF NothingSent, SentOnce, Succeeded
    <3>2. ret'[g] = ret[g] /\ got'[g] = got[g] /\ wpc'[g] = wpc[g] /\ First(g)
      BY <2>1, <2>2, <1>a
    <3> QED BY <3>1, <3>2 DEF First
  <2> QED BY <2>1, <2>5, <2>6, <1>b, <1>c
<1>6. ASSUME NEW h \in Hosts, WorkerEnds(h) PROVE FirstInv' /\ SuccessIsReal'
  <2>1. /\ UNCHANGED <<ret, got, done, printed, results>> /\ wpc[h] = "idle"
        /\ wpc' = [wpc EXCEPT ![h] = "ended"]
    BY <1>6 DEF WorkerEnds
  <2>2. wpc'[h] = "ended" /\ \A g \in Hosts \ {h} : wpc'[g] = wpc[g]
    BY <2>1, <1>0
  <2>3. First(h)'
    <3>1. NothingSent(h)' = NothingSent(h) /\ SentOnce(h)' = SentOnce(h)
          /\ Succeeded(h)' = Succeeded(h)
      BY <2>1 DEF NothingSent, SentOnce, Succeeded
    <3>2. First(h) /\ ret'[h] = ret[h] /\ got'[h] = got[h]
      BY <2>1, <1>a
    <3> QED BY <2>1, <2>2, <3>1, <3>2 DEF First
  <2> QED BY <2>1, <2>2, <2>3, <1>a, <1>b, <1>c, FirstUntouched
<1>7. CASE PrintResult
  <2>0. PICK h \in clients : h = Head(results)
    <3>1. results # <<>> /\ results \in Seq(clients)
      BY <1>7, <1>0 DEF PrintResult, TypeOK
    <3> QED BY <3>1, TailFacts
  <2> DEFINE line == [ok |-> ~ret[h].err, data |-> ret[h].data]
  <2>1. /\ UNCHANGED <<wpc, ret, got, done>> /\ results # <<>> /\ results' = Tail(results)
        /\ printed' = [printed EXCEPT ![h] = Append(@, line)]
    BY <1>7, <2>0 DEF PrintResult
  <2>2. /\ h \in clients /\ h \in Range(results) /\ Range(results') \subseteq Range(results)
        /\ AtMostOnce(results, h) => h \notin Range(results')
        /\ \A y : AtMostOnce(results, y) => AtMostOnce(results', y)
    <3>1. results \in Seq(clients)
      BY <1>0 DEF TypeOK
    <3> QED BY <2>0, <2>1, <3>1, TailFacts
  <2>3. /\ h \in Hosts /\ printed'[h] = Append(printed[h], line)
        /\ \A g \in Hosts \ {h} : printed'[g] = printed[g]
    BY <2>1, <2>2, <1>0
  <2>4. /\ Len(printed'[h]) = Len(printed[h]) + 1 /\ printed'[h][Len(printed[h]) + 1] = line
        /\ DOMAIN printed'[h] = DOMAIN printed[h] \cup {Len(printed[h]) + 1}
        /\ \A i \in DOMAIN printed[h] : printed'[h][i] = printed[h][i]
    <3>1. printed[h] \in Seq(Line)
      BY <2>3, <1>0
    <3>2. line \in Line
      <4>1. ret[h] \in [data : 0..MaxCmds, err : BOOLEAN]
        BY <2>3, <1>0 DEF TypeOK
      <4> QED BY <4>1 DEF Line
    <3> HIDE DEF line
    <3> QED BY <2>3, <3>1, <3>2, AppendFacts
  <2>5. ~ret[h].err =>
           /\ printed[h] = <<>> /\ AtMostOnce(results, h) /\ Succeeded(h)
           /\ \/ got[h] = 1 /\ wpc[h] \notin {"run", "result"}
              \/ got[h] = 2 /\ wpc[h] = "run"
    <3>1. ~NothingSent(h)
      BY <2>2 DEF NothingSent
    <3>2. SentOnce(h) => printed[h] = <<>> /\ AtMostOnce(results, h)
      BY <2>2 DEF SentOnce
    <3>3. First(h)
      BY <2>3, <1>a
    <3> QED BY <3>1, <3>2, <3>3 DEF First
  <2>6. First(h)'
    <3>1. ~ret[h].err => SentOnce(h)' /\ Succeeded(h)'
      <4>1. Succeeded(h)' = Succeeded(h)
        BY <2>1, <2>3 DEF Succeeded
      <4>2. ~ret[h].err => Len(printed'[h]) = 1
        BY <2>4, <2>5
      <4> QED BY <2>2, <2>5, <4>1, <4>2 DEF SentOnce
    <3>2. ret' = ret /\ got' = got /\ wpc' = wpc
      BY <2>1
    <3> QED BY <2>5, <3>1, <3>2 DEF First
  <2>7. ASSUME NEW g \in Hosts \ {h} PROVE First(g)'
    <3>1. (NothingSent(g) => NothingSent(g)') /\ (SentOnce(g) => SentOnce(g)')
          /\ Succeeded(g)' = Succeeded(g)
      BY <2>1, <2>2, <2>3 DEF NothingSent, SentOnce, Succeeded
    <3>2. ret' = ret /\ got' = got /\ wpc' = wpc /\ First(g)
      BY <2>1, <1>a
    <3> QED BY <3>1, <3>2 DEF First
  <2>8. SuccessIsReal'
    <3>1. ASSUME NEW i \in DOMAIN printed'[h], printed'[h][i].ok
          PROVE  i = 1 /\ printed'[h][i].data = 1 /\ <<h, 1>> \in done'
      <4>1. CASE i \in DOMAIN printed[h]
        <5>1. printed'[h][i] = printed[h][i]
          BY <2>4, <4>1
        <5> QED BY <5>1, <3>1, <4>1, <2>1, <2>3, <1>0 DEF SuccessIsReal
      <4>2. CASE i = Len(printed[h]) + 1
        <5>1. printed'[h][i] = line
          BY <2>4, <4>2
        <5>2. ~ret[h].err
          <6>1. line.ok
            BY <5>1, <3>1
          <6>2. line.ok = ~ret[h].err
            OBVIOUS
          <6> HIDE DEF line
          <6> QED BY <6>1, <6>2, Zenon
        <5>3. i = 1 /\ ret[h].data = 1 /\ <<h, 1>> \in done
          BY <2>5, <5>2, <4>2 DEF Succeeded
        <5> QED BY <5>1, <5>3, <2>1
      <4> QED BY <2>4, <4>1, <4>2, <3>1
    <3>2. ASSUME NEW g \in Hosts \ {h}, NEW i \in DOMAIN printed'[g], printed'[g][i].ok
          PROVE  i = 1 /\ printed'[g][i].data = 1 /\ <<g, 1>> \in done'
      BY <2>1, <2>3, <3>2, <1>0 DEF SuccessIsReal
    <3> QED BY <3>1, <3>2, <2>3 DEF SuccessIsReal
  <2> QED BY <2>6, <2>7, <2>8, <1>b
<1> QED BY <1>1, <1>2, <1>3, <1>4, <1>5, <1>6, <1>7
        DEF Next, MainStep, WorkerStep, PrinterStep

-----------------------------------------------------------------------------
(***************************************************************************)
(* The theorems.                                                           *)
(***************************************************************************)
\* The invariant is inductive.
THEOREM IInvariant == Spec => []IInv
<1>1. IInv /\ [Next]_vars => IInv'
  BY NextTypeOK, NextMainInv, NextFirstInv DEF IInv
<1> QED BY InitIInv, <1>1, PTL DEF Spec

\* Type correctness, for every list of connections and any number of commands: in
\* particular no worker receives more commands than main was given, no more
\* results lie in resultChan than its buffer holds, and only clients that were
\* dialled are served, closed or reported.
THEOREM TypeCorrect == Spec => []TypeOK
<1>1. IInv => TypeOK
  BY DEF IInv
<1> QED BY IInvariant, <1>1, PTL

\* Whatever the workers and the printer do in between, the printer says SUCCESS for
\* a host at most once, in its first line, and only of the first command, which
\* did succeed there: although a worker changes its one SSHResult while a pointer
\* to it is still in resultChan.
THEOREM SuccessIsRealHolds == Spec => []SuccessIsReal
<1>1. IInv => SuccessIsReal
  BY DEF IInv
<1> QED BY IInvariant, <1>1, PTL
=============================================================================
