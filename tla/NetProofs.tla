------------------------------ MODULE NetProofs ------------------------------
(***************************************************************************)
(* `wstools net` for any list of hosts and any number of requests: the     *)
(* WaitGroup counts the goroutines, no answer is invented, no socket is    *)
(* used that is not open, and main does not exit before every host has its *)
(* line.                                                                   *)
(***************************************************************************)
EXTENDS Net, FiniteSetTheorems, FunctionTheorems, TLAPS

-----------------------------------------------------------------------------
(***************************************************************************)
(* The inductive invariant.                                                *)
(***************************************************************************)
\* The echo replies among the messages of a socket.
Marked(s) == {k \in DOMAIN s : s[k] = "reply"}
Replies(s) == Cardinality(Marked(s))

\* The workers that have begun and are not over.
Live == {i \in Work : wpc[i] \notin {"none", "over"}}

\* The WaitGroup counts the live goroutines.  The positions that main has not
\* reached have no worker; without -q the only live one is that of main.
WaitInv ==
    /\ wg = IF quick THEN Cardinality(Live) ELSE 0
    /\ mpc = "inline" => ~quick /\ next \in Work
    /\ \A i \in Work : i >= next =>
           wpc[i] = "none" \/ (i = next /\ mpc \in {"inline", "panicked"})
    /\ ~quick => \A i \in Work : i < next => wpc[i] \in {"none", "over"}
    /\ mpc \in {"wait", "exited"} /\ action # "other" => next = Len(list) + 1
    /\ mpc = "exited" => wg = 0
    /\ mpc = "parse" => list = <<>>

\* A worker has at most Count results, and room for one more while it reads.
CountInv == \A i \in Work :
    /\ ok[i] + errs[i] <= Count
    /\ wpc[i] = "read" => ok[i] + errs[i] < Count

\* The answers counted and those still to be read came from the host.
AnswerInv == \A i \in Work : ok[i] + Replies(inbox[i]) <= replies[list[i]]

\* What a worker, or main for a host without an address, has printed.
ReportInv == \A i \in Work :
    /\ wpc[i] \in {"printed", "over"} => report[i] # "none"
    /\ i < next /\ wpc[i] = "none" => report[i] # "none"

IInv == TypeOK /\ WaitInv /\ CountInv /\ AnswerInv /\ ReportInv /\ SocketInUseIsOpen

-----------------------------------------------------------------------------
(***************************************************************************)
(* How the replies of a socket are counted.                                *)
(***************************************************************************)
LEMMA MarkedFinite ==
    ASSUME NEW s \in Seq(Kinds) PROVE IsFiniteSet(Marked(s)) /\ Replies(s) \in Nat
<1>1. Marked(s) \in SUBSET (1..Len(s)) /\ Len(s) \in Nat
  BY DEF Marked
<1>2. IsFiniteSet(1..Len(s))
  BY <1>1, FS_Interval
<1>3. IsFiniteSet(Marked(s))
  BY <1>1, <1>2, FS_Subset
<1> QED BY <1>3, FS_CardinalityType DEF Replies

LEMMA RepliesEmpty == Replies(<<>>) = 0
<1>1. Marked(<<>>) = {}
  BY DEF Marked
<1> QED BY <1>1, FS_EmptySet DEF Replies

LEMMA RepliesAppend ==
    ASSUME NEW s \in Seq(Kinds), NEW x \in Kinds
    PROVE  Replies(Append(s, x)) = Replies(s) + IF x = "reply" THEN 1 ELSE 0
<1> DEFINE t == Append(s, x)  n == Len(s) + 1
<1>1. /\ t \in Seq(Kinds) /\ DOMAIN t = 1..n /\ DOMAIN s = 1..(n - 1) /\ n \in Nat
      /\ n \notin 1..(n - 1) /\ t[n] = x /\ \A k \in 1..(n - 1) : t[k] = s[k]
  OBVIOUS
<1>2. IsFiniteSet(Marked(s)) /\ Replies(s) \in Nat
  BY MarkedFinite
<1>3. CASE x = "reply"
  <2>1. Marked(t) = Marked(s) \cup {n} /\ n \notin Marked(s)
    BY <1>1, <1>3 DEF Marked
  <2>2. Cardinality(Marked(t)) = Cardinality(Marked(s)) + 1
    BY <2>1, <1>2, FS_AddElement
  <2> QED BY <2>2, <1>3 DEF Replies
<1>4. CASE x # "reply"
  <2>1. Marked(t) = Marked(s)
    BY <1>1, <1>4 DEF Marked
  <2>2. Cardinality(Marked(t)) = Cardinality(Marked(s))
    BY <2>1
  <2> QED BY <1>2, <2>2, <1>4 DEF Replies
<1> QED BY <1>3, <1>4

LEMMA RepliesTail ==
    ASSUME NEW s \in Seq(Kinds), s # <<>>
    PROVE  Replies(Tail(s)) + (IF Head(s) = "reply" THEN 1 ELSE 0) = Replies(s)
<1> DEFINE t == Tail(s)  rest == Marked(s) \ {1}
           f == [k \in Marked(t) |-> k + 1]
<1>1. /\ t \in Seq(Kinds) /\ DOMAIN t = 1..(Len(s) - 1) /\ DOMAIN s = 1..Len(s)
      /\ Len(s) \in Nat /\ Len(s) > 0 /\ Head(s) = s[1]
      /\ \A k \in 1..(Len(s) - 1) : t[k] = s[k + 1]
  OBVIOUS
<1>2. IsFiniteSet(Marked(s)) /\ IsFiniteSet(Marked(t)) /\ Replies(s) \in Nat /\ Replies(t) \in Nat
  BY <1>1, MarkedFinite
<1>3. f \in Bijection(Marked(t), rest)
  <2>1. f \in [Marked(t) -> rest]
    BY <1>1 DEF Marked
  <2>2. \A j, k \in Marked(t) : f[j] = f[k] => j = k
    BY <1>1 DEF Marked
  <2>3. ASSUME NEW m \in rest PROVE \E k \in Marked(t) : f[k] = m
    <3>1. m - 1 \in Marked(t) /\ f[m - 1] = m
      BY <1>1 DEF Marked
    <3> QED BY <3>1
  <2> QED BY <2>1, <2>2, <2>3, Fun_IsBij
<1>4. Cardinality(rest) = Cardinality(Marked(t))
  <2>1. ExistsBijection(Marked(t), rest)
    BY <1>3 DEF ExistsBijection
  <2> QED BY <2>1, <1>2, FS_Bijection
<1>5. Cardinality(rest) = IF 1 \in Marked(s) THEN Cardinality(Marked(s)) - 1
                          ELSE Cardinality(Marked(s))
  BY <1>2, FS_RemoveElement
<1>6. 1 \in Marked(s) <=> Head(s) = "reply"
  BY <1>1 DEF Marked
<1>7. Replies(t) = Cardinality(rest) /\ Replies(s) = Cardinality(Marked(s))
  BY <1>4 DEF Replies
<1> QED BY <1>2, <1>5, <1>6, <1>7

-----------------------------------------------------------------------------
USE NetAssumption DEF mainVars, netVars, workVars, Running, Ends

LEMMA Update ==
    ASSUME NEW S, NEW T, NEW f \in [S -> T], NEW x \in S, NEW y \in T
    PROVE  [f EXCEPT ![x] = y] \in [S -> T]
OBVIOUS

LEMMA Bump ==
    ASSUME NEW S, NEW f \in [S -> Nat], NEW x \in S
    PROVE  [f EXCEPT ![x] = @ + 1] \in [S -> Nat]
<1>1. f[x] + 1 \in Nat
  OBVIOUS
<1> QED BY <1>1

LEMMA BoundedBump ==
    ASSUME NEW S, NEW n \in Nat, NEW f \in [S -> 0..n], NEW x \in S, f[x] < n
    PROVE  [f EXCEPT ![x] = @ + 1] \in [S -> 0..n]
<1>1. f[x] + 1 \in 0..n
  OBVIOUS
<1> QED BY <1>1

LEMMA PartOfInterval ==
    ASSUME NEW n \in Nat, NEW S \in SUBSET (1..n)
    PROVE  IsFiniteSet(S) /\ Cardinality(S) \in 0..n
<1>1. IsFiniteSet(1..n) /\ Cardinality(1..n) = n
  BY FS_Interval
<1>2. IsFiniteSet(S) /\ Cardinality(S) <= n
  BY <1>1, FS_Subset
<1> QED BY <1>2, FS_CardinalityType

\* The positions are those of a sequence of hosts.
LEMMA Positive ==
    ASSUME TypeOK
    PROVE  /\ list \in Seq(Hosts) /\ Work = 1..Len(list) /\ Len(list) \in Nat
           /\ next \in Nat /\ \A i \in Work : list[i] \in Hosts
<1>1. <<>> \in Seq(Hosts)
  OBVIOUS
<1>2. list \in Seq(Hosts)
  BY <1>1 DEF TypeOK
<1> QED BY <1>2 DEF TypeOK, Work

LEMMA InitIInv == Init => IInv
<1> SUFFICES ASSUME Init PROVE IInv OBVIOUS
<1>1. list = <<>> /\ Len(list) = 0 /\ Work = {} /\ Live = {} /\ Cardinality(Live) = 0
  BY FS_EmptySet DEF Init, Work, Live
<1>2. TypeOK
  <2>1. /\ wpc \in [Work -> {"none", "dial", "init", "send", "read", "reinit",
                              "print", "printed", "over"}]
        /\ inbox \in [Work -> Seq(Kinds)]
        /\ ok \in [Work -> 0..Count] /\ errs \in [Work -> 0..Count]
        /\ report \in [Work -> {"none", "unresolved", "failed", "summary", "open",
                                 "closed"}]
    BY <1>1 DEF Init
  <2>2. next \in 1..Len(list) + 1 /\ wg \in 0..Len(list)
    BY <1>1 DEF Init
  <2>3. pending \in [Hosts -> Nat] /\ replies \in [Hosts -> Nat]
    BY DEF Init
  <2> QED BY <1>1, <2>1, <2>2, <2>3 DEF Init, TypeOK
<1>3. WaitInv
  BY <1>1 DEF Init, WaitInv
<1> QED BY <1>1, <1>2, <1>3 DEF IInv, CountInv, AnswerInv, ReportInv, SocketInUseIsOpen

\* A step of a worker that is not its last: the worker is live before and after.
Working(i) ==
    \/ Dial(i) \/ InitSocket(i) \/ SendPingMsg(i) \/ Receive(i) \/ Deadline(i)
    \/ Reinit(i) \/ PrintResult(i)

LEMMA WorkingMoves ==
    ASSUME TypeOK, NEW i \in Work, Working(i)
    PROVE  /\ UNCHANGED <<mainVars, wg, replies>> /\ Running
           /\ wpc[i] \notin {"none", "over"} /\ wpc'[i] \notin {"none", "over"}
           /\ \A j \in Work \ {i} : wpc'[j] = wpc[j]
           /\ DOMAIN wpc' = Work /\ Work' = Work /\ Live' = Live
<1>1. /\ UNCHANGED <<mainVars, wg, replies>> /\ Running
      /\ wpc[i] \notin {"none", "over"} /\ wpc'[i] \notin {"none", "over"}
      /\ \A j \in Work \ {i} : wpc'[j] = wpc[j]
      /\ DOMAIN wpc' = Work
  BY DEF Working, Dial, InitSocket, SendPingMsg, Receive, Deadline, Reinit, PrintResult,
     At, Goto, TypeOK
<1>2. Work' = Work
  BY <1>1 DEF Work
<1>3. Live' = Live
  BY <1>1, <1>2 DEF Live
<1> QED BY <1>1, <1>2, <1>3

LEMMA NextWaitInv == IInv /\ [Next]_vars => WaitInv'
<1> SUFFICES ASSUME IInv, [Next]_vars PROVE WaitInv' OBVIOUS
<1>0. /\ TypeOK /\ WaitInv /\ Work = 1..Len(list) /\ Len(list) \in Nat /\ next \in Nat
      /\ list \in Seq(Hosts) /\ next <= Len(list) + 1 /\ next >= 1
      /\ IsFiniteSet(Live) /\ Cardinality(Live) \in Nat
  <2>1. TypeOK /\ WaitInv
    BY DEF IInv
  <2>2. Live \in SUBSET (1..Len(list))
    BY <2>1, Positive DEF Live
  <2>3. next <= Len(list) + 1 /\ next >= 1
    BY <2>1, Positive DEF TypeOK
  <2> QED BY <2>1, <2>2, <2>3, Positive, PartOfInterval
<1>1. CASE ParseList
  <2>1. UNCHANGED <<quick, next, wg>> /\ mpc = "parse" /\ mpc' = "loop"
        /\ list = <<>> /\ wpc' = [i \in Work' |-> "none"]
    BY <1>1, <1>0 DEF ParseList, WaitInv, Work
  <2>2. Live' = {} /\ Live = {}
    BY <2>1 DEF Live, Work
  <2> QED BY <2>1, <2>2, <1>0 DEF WaitInv
<1>2. CASE ParseFails \/ LoopEnds \/ WaitEnds
  <2>1. UNCHANGED <<action, quick, next, wg, list, wpc>> /\ mpc' \in {"wait", "exited"}
        /\ mpc \in {"parse", "loop", "wait"}
    BY <1>2 DEF ParseFails, LoopEnds, WaitEnds
  <2>2. Live' = Live /\ Work' = Work
    BY <2>1 DEF Live, Work
  <2>3. action # "other" => next = Len(list) + 1
    <3>1. CASE ParseFails
      <4>1. list = <<>> /\ Len(list) = 0
        BY <3>1, <1>0 DEF ParseFails, WaitInv
      <4> QED BY <4>1, <1>0
    <3>2. CASE LoopEnds
      BY <3>2, <1>0 DEF LoopEnds
    <3>3. CASE WaitEnds
      BY <3>3, <1>0 DEF WaitEnds, WaitInv
    <3> QED BY <1>2, <3>1, <3>2, <3>3
  <2>4. mpc' = "exited" => wg = 0
    <3>1. CASE ParseFails
      <4>1. Work = {}
        BY <3>1, <1>0 DEF ParseFails, WaitInv, Work
      <4>2. Cardinality(Live) = 0
        BY <4>1, FS_EmptySet DEF Live
      <4> QED BY <4>2, <1>0 DEF WaitInv
    <3>2. CASE LoopEnds \/ WaitEnds
      BY <3>2 DEF LoopEnds, WaitEnds
    <3> QED BY <1>2, <3>1, <3>2
  <2> QED BY <2>1, <2>2, <2>3, <2>4, <1>0 DEF WaitInv
<1>3. CASE Unresolved
  <2>1. UNCHANGED <<quick, wg, list, wpc, mpc>> /\ next' = next + 1 /\ mpc = "loop"
        /\ next \in Work
    BY <1>3 DEF Unresolved
  <2>2. Live' = Live /\ Work' = Work
    BY <2>1 DEF Live, Work
  <2> QED BY <2>1, <2>2, <1>0 DEF WaitInv
<1>4. CASE Spawn
  <2>1. UNCHANGED <<quick, list, mpc>> /\ next' = next + 1 /\ mpc = "loop" /\ quick
        /\ next \in Work /\ wpc' = [wpc EXCEPT ![next] = First] /\ wg' = wg + 1
    BY <1>4 DEF Spawn
  <2>2. Work' = Work
    BY <2>1 DEF Work
  <2>3. wpc'[next] \in {"dial", "init"} /\ \A j \in Work \ {next} : wpc'[j] = wpc[j]
    BY <2>1, <1>0 DEF TypeOK, First
  <2>4. Live' = Live \cup {next} /\ next \notin Live
    BY <2>1, <2>2, <2>3, <1>0 DEF Live, WaitInv
  <2>5. Cardinality(Live') = Cardinality(Live) + 1
    BY <2>4, <1>0, FS_AddElement
  <2> QED BY <2>1, <2>2, <2>3, <2>5, <1>0 DEF WaitInv
<1>5. CASE CallInline
  <2>1. UNCHANGED <<quick, list, next, wg>> /\ mpc' = "inline" /\ mpc = "loop" /\ ~quick
        /\ next \in Work /\ wpc' = [wpc EXCEPT ![next] = First]
    BY <1>5 DEF CallInline
  <2>2. Work' = Work
    BY <2>1 DEF Work
  <2>3. \A j \in Work \ {next} : wpc'[j] = wpc[j]
    BY <2>1, <1>0 DEF TypeOK
  <2> QED BY <2>1, <2>2, <2>3, <1>0 DEF WaitInv
<1>6. CASE InlineReturns
  <2>1. UNCHANGED <<quick, list, wpc, wg>> /\ mpc' = "loop" /\ mpc = "inline"
        /\ wpc[next] = "over" /\ next' = next + 1
    BY <1>6 DEF InlineReturns
  <2>2. Work' = Work /\ Live' = Live
    BY <2>1 DEF Work, Live
  <2> QED BY <2>1, <2>2, <1>0 DEF WaitInv
<1>7. ASSUME NEW i \in Work, Working(i) PROVE WaitInv'
  <2>1. /\ UNCHANGED <<mainVars, wg>> /\ Running
        /\ wpc[i] \notin {"none", "over"}
        /\ \A j \in Work \ {i} : wpc'[j] = wpc[j]
        /\ Work' = Work /\ Live' = Live
    BY <1>7, <1>0, WorkingMoves
  <2>2. i >= next => i = next /\ mpc = "inline"
    BY <2>1, <1>0 DEF WaitInv
  <2>3. ~quick => ~(i < next)
    BY <2>1, <1>0 DEF WaitInv
  <2> QED BY <2>1, <2>2, <2>3, <1>0 DEF WaitInv
<1>8. ASSUME NEW i \in Work, WorkerDone(i) PROVE WaitInv'
  <2>1. /\ UNCHANGED mainVars /\ Running /\ wpc[i] = "printed"
        /\ wg' = (IF quick THEN wg - 1 ELSE wg) /\ wpc' = [wpc EXCEPT ![i] = "over"]
    BY <1>8 DEF WorkerDone, At, Goto
  <2>2. wpc'[i] = "over" /\ \A j \in Work \ {i} : wpc'[j] = wpc[j]
    BY <2>1, <1>0 DEF TypeOK
  <2>3. Work' = Work
    BY <2>1 DEF Work
  <2>4. Live' = Live \ {i} /\ i \in Live
    BY <2>1, <2>2, <2>3 DEF Live
  <2>5. Cardinality(Live') = Cardinality(Live) - 1
    BY <2>4, <1>0, FS_RemoveElement
  <2>6. i >= next => i = next /\ mpc = "inline"
    BY <2>1, <1>0 DEF WaitInv
  <2> QED BY <2>1, <2>2, <2>3, <2>5, <2>6, <1>0 DEF WaitInv
<1>9. CASE (\E h \in Hosts : HostAnswers(h)) \/ UNCHANGED vars
  <2>1. UNCHANGED <<mainVars, wpc, wg>>
    BY <1>9 DEF HostAnswers, vars
  <2>2. Work' = Work /\ Live' = Live
    BY <2>1 DEF Work, Live
  <2> QED BY <2>1, <2>2, <1>0 DEF WaitInv
<1>10. CASE \E i \in Work : ReceiveLong(i)
  <2>1. UNCHANGED <<action, quick, list, next, wpc, wg>> /\ mpc' = "panicked"
        /\ Running /\ mpc # "parse"
    <3>1. UNCHANGED <<action, quick, list, next, wpc, wg>> /\ mpc' = "panicked" /\ Running
      BY <1>10 DEF ReceiveLong, At
    <3>2. mpc # "parse"
      BY <1>10, <1>0 DEF WaitInv, Work
    <3> QED BY <3>1, <3>2
  <2>2. Work' = Work /\ Live' = Live
    BY <2>1 DEF Work, Live
  <2> QED BY <2>1, <2>2, <1>0 DEF WaitInv
<1> QED BY <1>1, <1>2, <1>3, <1>4, <1>5, <1>6, <1>7, <1>8, <1>9, <1>10
        DEF Next, MainStep, WorkerStep, Working, Ended

\* No worker counts more than Count results.
LEMMA NextCountInv == IInv /\ [Next]_vars => CountInv'
<1> SUFFICES ASSUME IInv, [Next]_vars PROVE CountInv' OBVIOUS
<1>0. TypeOK /\ CountInv /\ \A i \in Work : ok[i] \in Nat /\ errs[i] \in Nat
  BY DEF IInv, TypeOK
<1>1. CASE ParseList
  BY <1>1 DEF ParseList, CountInv, Work
<1>2. CASE Spawn \/ CallInline
  <2>1. /\ UNCHANGED <<list, ok, errs>> /\ next \in Work
        /\ wpc' = [wpc EXCEPT ![next] = First]
    BY <1>2 DEF Spawn, CallInline
  <2>2. wpc'[next] # "read" /\ \A j \in Work \ {next} : wpc'[j] = wpc[j]
    BY <2>1, <1>0 DEF TypeOK, First
  <2> QED BY <2>1, <2>2, <1>0 DEF CountInv, Work
<1>3. ASSUME NEW i \in Work, Working(i) \/ WorkerDone(i) PROVE CountInv'
  <2> USE DEF At, Goto, Failed
  <2>1. list' = list /\ Work' = Work
    BY <1>3 DEF Working, Dial, InitSocket, SendPingMsg, Receive, Deadline, Reinit,
       PrintResult, WorkerDone, Work
  <2>2. CASE Dial(i) \/ InitSocket(i) \/ Reinit(i) \/ PrintResult(i) \/ WorkerDone(i)
    <3>1. UNCHANGED <<ok, errs>> /\ wpc'[i] # "read" /\ \A j \in Work \ {i} : wpc'[j] = wpc[j]
      BY <2>2, <1>0 DEF Dial, InitSocket, Reinit, PrintResult, WorkerDone, TypeOK
    <3> QED BY <3>1, <2>1, <1>0 DEF CountInv
  <2>3. CASE SendPingMsg(i)
    <3>1. ok[i] + errs[i] < Count /\ ok' = ok /\ DOMAIN wpc = Work /\ DOMAIN errs = Work
      BY <2>3, <1>0 DEF SendPingMsg, More, TypeOK
    <3>2. CASE Goto(i, "read") /\ UNCHANGED errs
      BY <3>1, <3>2, <2>1, <1>0 DEF CountInv
    <3>3. CASE Failed(i) /\ UNCHANGED wpc
      <4>1. errs'[i] = errs[i] + 1 /\ \A j \in Work \ {i} : errs'[j] = errs[j]
        BY <3>1, <3>3
      <4>2. wpc[i] # "read"
        BY <2>3 DEF SendPingMsg
      <4> QED BY <4>1, <4>2, <3>1, <3>3, <2>1, <1>0 DEF CountInv
    <3> QED BY <2>3, <3>2, <3>3 DEF SendPingMsg
  <2>4. CASE Receive(i) \/ Deadline(i)
    <3>1. DOMAIN wpc = Work /\ DOMAIN errs = Work /\ DOMAIN ok = Work
      BY <1>0 DEF TypeOK
    <3>2. /\ wpc[i] = "read" /\ wpc'[i] # "read"
          /\ \A j \in Work \ {i} : wpc'[j] = wpc[j]
      BY <2>4, <3>1 DEF Receive, Deadline
    <3>3. \/ ok' = [ok EXCEPT ![i] = @ + 1] /\ errs' = errs
          \/ errs' = [errs EXCEPT ![i] = @ + 1] /\ ok' = ok
      BY <2>4 DEF Receive, Deadline
    <3>4. /\ \A j \in Work \ {i} : ok'[j] = ok[j] /\ errs'[j] = errs[j]
          /\ \/ ok'[i] = ok[i] + 1 /\ errs'[i] = errs[i]
             \/ errs'[i] = errs[i] + 1 /\ ok'[i] = ok[i]
      BY <3>1, <3>3
    <3> QED BY <3>2, <3>4, <2>1, <1>0 DEF CountInv
  <2> QED BY <1>3, <2>2, <2>3, <2>4 DEF Working
<1>4. CASE ParseFails \/ Unresolved \/ InlineReturns \/ LoopEnds \/ WaitEnds
           \/ (\E h \in Hosts : HostAnswers(h)) \/ (\E i \in Work : ReceiveLong(i))
           \/ UNCHANGED vars
  <2>1. UNCHANGED <<list, wpc, ok, errs>>
    BY <1>4 DEF ParseFails, Unresolved, InlineReturns, LoopEnds, WaitEnds, HostAnswers,
       ReceiveLong, vars
  <2> QED BY <2>1, <1>0 DEF CountInv, Work
<1> QED BY <1>1, <1>2, <1>3, <1>4 DEF Next, MainStep, WorkerStep, Working, Ended

LEMMA NextTypeOK == IInv /\ [Next]_vars => TypeOK'
<1> SUFFICES ASSUME IInv, [Next]_vars PROVE TypeOK' OBVIOUS
<1>0. /\ TypeOK /\ WaitInv /\ CountInv /\ Work = 1..Len(list) /\ Len(list) \in Nat
      /\ next \in Nat /\ \A i \in Work : list[i] \in Hosts /\ ok[i] \in Nat /\ errs[i] \in Nat
  <2>1. TypeOK /\ WaitInv /\ CountInv
    BY DEF IInv
  <2>2. /\ Work = 1..Len(list) /\ Len(list) \in Nat /\ next \in Nat
        /\ \A i \in Work : list[i] \in Hosts
    BY <2>1, Positive
  <2>3. \A i \in Work : ok[i] \in Nat /\ errs[i] \in Nat
    BY <2>1 DEF TypeOK
  <2> QED BY <2>1, <2>2, <2>3
<1>1. CASE ParseList
  <2>1. /\ list' \in Lists /\ mpc' = "loop" /\ next' = next /\ wg' = wg
        /\ UNCHANGED <<action, quick, conn, pending, replies>> /\ list = <<>>
    BY <1>1, <1>0 DEF ParseList, WaitInv
  <2>2. /\ wpc' = [i \in Work' |-> "none"] /\ report' = [i \in Work' |-> "none"]
        /\ inbox' = [i \in Work' |-> <<>>]
        /\ ok' = [i \in Work' |-> 0] /\ errs' = [i \in Work' |-> 0]
    BY <1>1 DEF ParseList, Work
  <2>3. Len(list') \in Nat /\ next = 1 /\ wg = 0 /\ conn = {}
    <3>1. Len(list) = 0 /\ Work = {}
      BY <2>1 DEF Work
    <3> QED BY <2>1, <3>1, <1>0 DEF TypeOK
  <2>4. next' \in 1..Len(list') + 1 /\ wg' \in 0..Len(list')
    BY <2>1, <2>3
  <2>5. inbox' \in [Work' -> Seq(Kinds)]
    BY <2>2
  <2>6. ok' \in [Work' -> 0..Count] /\ errs' \in [Work' -> 0..Count]
    BY <2>2
  <2> QED BY <2>1, <2>2, <2>3, <2>4, <2>5, <2>6, <1>0 DEF TypeOK
<1>2. CASE ParseFails \/ Unresolved \/ InlineReturns \/ LoopEnds \/ WaitEnds
  <2>1. /\ UNCHANGED <<action, quick, list, netVars, workVars, wg>>
        /\ mpc' \in {"loop", "wait", "exited"}
    BY <1>2 DEF ParseFails, Unresolved, InlineReturns, LoopEnds, WaitEnds
  <2>2. next' = next \/ (next \in Work /\ next' = next + 1)
    BY <1>2, <1>0 DEF ParseFails, Unresolved, InlineReturns, LoopEnds, WaitEnds, WaitInv
  <2>3. next' \in 1..Len(list) + 1
    BY <2>2, <1>0 DEF TypeOK
  <2>4. Work' = Work
    BY <2>1 DEF Work
  <2>5. report' \in [Work -> {"none", "unresolved", "failed", "summary", "open", "closed"}]
    BY <1>2, <1>0 DEF ParseFails, Unresolved, InlineReturns, LoopEnds, WaitEnds, TypeOK
  <2> QED BY <2>1, <2>3, <2>4, <2>5, <1>0 DEF TypeOK
<1>3. CASE Spawn \/ CallInline
  <2>1. /\ UNCHANGED <<action, quick, list, conn, inbox, ok, errs, netVars, report>>
        /\ mpc' \in {"loop", "inline"} /\ next \in Work /\ next' \in {next, next + 1}
        /\ wpc' = [wpc EXCEPT ![next] = First]
    BY <1>3 DEF Spawn, CallInline
  <2>2. Work' = Work
    BY <2>1 DEF Work
  <2>3. next' \in 1..Len(list) + 1
    BY <2>1, <1>0 DEF TypeOK
  <2>4. wpc' \in [Work -> {"none", "dial", "init", "send", "read", "reinit", "print",
                           "printed", "over"}]
    BY <2>1, <1>0 DEF TypeOK, First
  <2>5. wg' \in 0..Len(list)
    <3>1. WaitInv'
      BY NextWaitInv
    <3>2. Cardinality(Live') \in 0..Len(list)
      BY <2>2, <1>0, PartOfInterval DEF Live
    <3> QED BY <3>1, <3>2, <1>0 DEF WaitInv
  <2> QED BY <2>1, <2>2, <2>3, <2>4, <2>5, <1>0 DEF TypeOK
<1>4. ASSUME NEW i \in Work, Working(i) \/ WorkerDone(i) PROVE TypeOK'
  <2> USE DEF At, Goto, Failed, Tell
  <2>1. UNCHANGED mainVars /\ Work' = Work
    BY <1>4 DEF Working, Dial, InitSocket, SendPingMsg, Receive, Deadline, Reinit,
       PrintResult, WorkerDone, Work
  <2>2. wg' \in 0..Len(list)
    <3>1. WaitInv'
      BY NextWaitInv
    <3>2. Cardinality(Live') \in 0..Len(list)
      BY <2>1, <1>0, PartOfInterval DEF Live
    <3> QED BY <2>1, <3>1, <3>2, <1>0 DEF WaitInv
  <2>3. CASE Dial(i)  BY <2>1, <2>2, <2>3, <1>0 DEF Dial, TypeOK
  <2>4. CASE InitSocket(i)  BY <2>1, <2>2, <2>4, <1>0 DEF InitSocket, TypeOK
  <2>5. CASE SendPingMsg(i)
    <3>1. ok[i] + errs[i] < Count
      BY <2>5 DEF SendPingMsg, More
    <3>2. pending' \in [Hosts -> Nat]
      <4>1. list[i] \in Hosts /\ pending \in [Hosts -> Nat]
        BY <1>0 DEF TypeOK
      <4>2. pending' = pending \/ pending' = [pending EXCEPT ![list[i]] = @ + 1]
        BY <2>5 DEF SendPingMsg
      <4> QED BY <4>1, <4>2, Bump
    <3>3. errs' \in [Work -> 0..Count]
      <4>1. errs' = errs \/ errs' = [errs EXCEPT ![i] = @ + 1]
        BY <2>5 DEF SendPingMsg
      <4>2. errs \in [Work -> 0..Count] /\ errs[i] < Count
        BY <3>1, <1>0 DEF TypeOK
      <4> QED BY <4>1, <4>2, BoundedBump
    <3> QED BY <2>1, <2>2, <2>5, <3>2, <3>3, <1>0 DEF SendPingMsg, TypeOK
  <2>6. CASE Receive(i) \/ Deadline(i)
    <3>1. ok[i] + errs[i] < Count
      BY <2>6, <1>0 DEF Receive, Deadline, CountInv
    <3>2. ok' \in [Work -> 0..Count] /\ errs' \in [Work -> 0..Count]
      <4>1. /\ ok' = ok \/ ok' = [ok EXCEPT ![i] = @ + 1]
            /\ errs' = errs \/ errs' = [errs EXCEPT ![i] = @ + 1]
        BY <2>6 DEF Receive, Deadline
      <4>2. /\ ok \in [Work -> 0..Count] /\ errs \in [Work -> 0..Count]
            /\ ok[i] < Count /\ errs[i] < Count
        BY <3>1, <1>0 DEF TypeOK
      <4>3. /\ [ok EXCEPT ![i] = @ + 1] \in [Work -> 0..Count]
            /\ [errs EXCEPT ![i] = @ + 1] \in [Work -> 0..Count]
        BY <4>2, BoundedBump
      <4> QED BY <4>1, <4>2, <4>3
    <3>3. inbox' \in [Work -> Seq(Kinds)]
      <4>1. inbox[i] \in Seq(Kinds)
        BY <1>0 DEF TypeOK
      <4>2. inbox[i] # <<>> => Tail(inbox[i]) \in Seq(Kinds)
        BY <4>1
      <4>3. \/ inbox' = inbox
            \/ inbox[i] # <<>> /\ inbox' = [inbox EXCEPT ![i] = Tail(inbox[i])]
        BY <2>6 DEF Receive, Deadline
      <4>4. inbox \in [Work -> Seq(Kinds)]
        BY <1>0 DEF TypeOK
      <4> QED BY <4>2, <4>3, <4>4, Update
    <3>4. /\ UNCHANGED <<conn, netVars, wg, report>>
          /\ wpc' \in [Work -> {"none", "dial", "init", "send", "read", "reinit", "print",
                                "printed", "over"}]
      BY <2>6, <1>0 DEF Receive, Deadline, TypeOK
    <3> QED BY <2>1, <3>2, <3>3, <3>4, <1>0 DEF TypeOK
  <2>7. CASE Reinit(i)
    <3>1. inbox' \in [Work -> Seq(Kinds)]
      <4>1. <<>> \in Seq(Kinds)
        OBVIOUS
      <4>2. inbox' = inbox \/ inbox' = [inbox EXCEPT ![i] = <<>>]
        BY <2>7 DEF Reinit
      <4>3. inbox \in [Work -> Seq(Kinds)]
        BY <1>0 DEF TypeOK
      <4> QED BY <4>1, <4>2, <4>3, Update
    <3> QED BY <2>1, <2>2, <2>7, <3>1, <1>0 DEF Reinit, TypeOK
  <2>8. CASE PrintResult(i)  BY <2>1, <2>2, <2>8, <1>0 DEF PrintResult, TypeOK
  <2>9. CASE WorkerDone(i)  BY <2>1, <2>2, <2>9, <1>0 DEF WorkerDone, TypeOK
  <2> QED BY <1>4, <2>3, <2>4, <2>5, <2>6, <2>7, <2>8, <2>9 DEF Working
<1>5. ASSUME NEW h \in Hosts, HostAnswers(h) PROVE TypeOK'
  <2>1. UNCHANGED <<mainVars, wpc, conn, ok, errs, wg, report>> /\ Work' = Work
    BY <1>5 DEF HostAnswers, Work
  <2>2. pending' \in [Hosts -> Nat] /\ replies' \in [Hosts -> Nat]
    <3>1. /\ pending[h] > 0 /\ pending' = [pending EXCEPT ![h] = @ - 1]
          /\ replies' = replies \/ replies' = [replies EXCEPT ![h] = @ + 1]
      BY <1>5 DEF HostAnswers
    <3>2. pending \in [Hosts -> Nat] /\ replies \in [Hosts -> Nat]
      BY <1>0 DEF TypeOK
    <3>3. pending[h] - 1 \in Nat
      BY <3>1, <3>2
    <3> QED BY <3>1, <3>2, <3>3, Bump
  <2>3. ASSUME NEW kind \in Kinds, Deliver(h, kind)
        PROVE inbox' \in [Work -> Seq(Kinds)]
    <3>1. ASSUME NEW i \in Work PROVE Append(inbox[i], kind) \in Seq(Kinds)
      <4>1. inbox[i] \in Seq(Kinds) /\ kind \in {"reply", "other"}
        BY <1>0 DEF TypeOK, Kinds
      <4> QED BY <4>1
    <3> QED BY <2>3, <3>1, <1>0 DEF Deliver, TypeOK
  <2>4. inbox' \in [Work -> Seq(Kinds)]
    BY <1>5, <2>3, <1>0 DEF HostAnswers, TypeOK, Kinds
  <2> QED BY <2>1, <2>2, <2>4, <1>0 DEF TypeOK
<1>6. CASE UNCHANGED vars
  BY <1>6, <1>0 DEF vars, TypeOK, Work
<1>7. CASE \E i \in Work : ReceiveLong(i)
  <2>1. mpc' = "panicked"
        /\ UNCHANGED <<action, quick, list, next, netVars, workVars, wg, report>>
    BY <1>7 DEF ReceiveLong
  <2>2. Work' = Work
    BY <2>1 DEF Work
  <2> QED BY <2>1, <2>2, <1>0 DEF TypeOK
<1> QED BY <1>1, <1>2, <1>3, <1>4, <1>5, <1>6, <1>7
        DEF Next, MainStep, WorkerStep, Working, Ended

\* Answers are counted only for replies that the host has sent.
LEMMA NextAnswerInv == IInv /\ [Next]_vars => AnswerInv'
<1> SUFFICES ASSUME IInv, [Next]_vars PROVE AnswerInv' OBVIOUS
<1>0. /\ TypeOK /\ AnswerInv /\ DOMAIN ok = Work /\ DOMAIN inbox = Work
      /\ \A i \in Work : /\ ok[i] \in Nat /\ inbox[i] \in Seq(Kinds)
                         /\ Replies(inbox[i]) \in Nat
                         /\ list[i] \in Hosts /\ replies[list[i]] \in Nat
  <2>1. /\ TypeOK /\ AnswerInv /\ DOMAIN ok = Work /\ DOMAIN inbox = Work
        /\ \A i \in Work : list[i] \in Hosts
    BY Positive DEF IInv, TypeOK
  <2>2. ok \in [Work -> 0..Count] /\ inbox \in [Work -> Seq(Kinds)]
        /\ replies \in [Hosts -> Nat]
    BY <2>1 DEF TypeOK, Kinds
  <2>3. \A i \in Work : ok[i] \in Nat /\ inbox[i] \in Seq(Kinds)
    BY <2>2
  <2> QED BY <2>1, <2>2, <2>3, MarkedFinite
<1>1. CASE ParseList
  <2>1. /\ list' \in Seq(Hosts) /\ replies' = replies
        /\ inbox' = [i \in DOMAIN list' |-> <<>>] /\ ok' = [i \in DOMAIN list' |-> 0]
    BY <1>1 DEF ParseList
  <2>2. \A i \in DOMAIN list' : list'[i] \in Hosts /\ replies[list'[i]] \in Nat
    BY <2>1, <1>0 DEF TypeOK
  <2> QED BY <2>1, <2>2, RepliesEmpty DEF AnswerInv, Work
<1>2. ASSUME NEW i \in Work, Receive(i) PROVE AnswerInv'
  <2>1. /\ UNCHANGED <<list, replies>> /\ inbox[i] # <<>>
        /\ inbox' = [inbox EXCEPT ![i] = Tail(inbox[i])]
        /\ \/ Head(inbox[i]) = "reply" /\ ok' = [ok EXCEPT ![i] = @ + 1]
           \/ Head(inbox[i]) = "other" /\ ok' = ok
    BY <1>2 DEF Receive, At, Goto, Failed
  <2>2. /\ Replies(Tail(inbox[i])) + (IF Head(inbox[i]) = "reply" THEN 1 ELSE 0)
               = Replies(inbox[i])
        /\ Replies(Tail(inbox[i])) \in Nat
    <3>1. inbox[i] \in Seq(Kinds) /\ Tail(inbox[i]) \in Seq(Kinds)
      BY <2>1, <1>0
    <3> QED BY <2>1, <3>1, RepliesTail, MarkedFinite
  <2>3. inbox'[i] = Tail(inbox[i])
        /\ ok'[i] = ok[i] + (IF Head(inbox[i]) = "reply" THEN 1 ELSE 0)
    BY <2>1, <1>0
  <2>4. ok'[i] + Replies(inbox'[i]) <= replies[list[i]]
    BY <2>2, <2>3, <1>0 DEF AnswerInv
  <2>5. \A j \in Work \ {i} : ok'[j] = ok[j] /\ inbox'[j] = inbox[j]
    BY <2>1, <1>0
  <2> QED BY <2>1, <2>4, <2>5, <1>0 DEF AnswerInv, Work
<1>3. ASSUME NEW i \in Work, Reinit(i) PROVE AnswerInv'
  <2>1. UNCHANGED <<list, replies, ok>>
        /\ (inbox' = inbox \/ inbox' = [inbox EXCEPT ![i] = <<>>])
    BY <1>3 DEF Reinit, At, Goto
  <2>2. \A j \in Work : inbox'[j] = inbox[j] \/ inbox'[j] = <<>>
    BY <2>1, <1>0
  <2> QED BY <2>1, <2>2, <1>0, RepliesEmpty DEF AnswerInv, Work
<1>4. ASSUME NEW h \in Hosts, HostAnswers(h) PROVE AnswerInv'
  <2>1. UNCHANGED <<list, ok>> /\ Work' = Work
    BY <1>4 DEF HostAnswers, Work
  <2>2. CASE Deliver(h, "reply") /\ replies' = [replies EXCEPT ![h] = @ + 1]
    <3> SUFFICES ASSUME NEW i \in Work
                 PROVE  ok[i] + Replies(inbox'[i]) <= replies'[list[i]]
      BY <2>1 DEF AnswerInv
    <3>1. /\ inbox'[i] = inbox[i] \/ (inbox'[i] = Append(inbox[i], "reply") /\ list[i] = h)
          /\ replies'[list[i]] = replies[list[i]] + (IF list[i] = h THEN 1 ELSE 0)
      <4>1. inbox'[i] = inbox[i] \/ (inbox'[i] = Append(inbox[i], "reply") /\ i \in Listed(h))
        BY <2>2 DEF Deliver
      <4>2. i \in Listed(h) => list[i] = h
        BY DEF Listed
      <4>3. replies \in [Hosts -> Nat] /\ list[i] \in Hosts /\ replies[list[i]] \in Nat
        BY <1>0 DEF TypeOK
      <4>4. replies'[list[i]] = IF list[i] = h THEN replies[list[i]] + 1 ELSE replies[list[i]]
        BY <2>2, <4>3
      <4> QED BY <4>1, <4>2, <4>3, <4>4
    <3>2. Replies(Append(inbox[i], "reply")) = Replies(inbox[i]) + 1
      BY <1>0, RepliesAppend DEF Kinds
    <3>3. /\ ok[i] \in Nat /\ Replies(inbox[i]) \in Nat /\ replies[list[i]] \in Nat
          /\ ok[i] + Replies(inbox[i]) <= replies[list[i]]
      BY <1>0 DEF AnswerInv
    <3>4. CASE inbox'[i] = inbox[i]
      BY <3>1, <3>3, <3>4
    <3>5. CASE inbox'[i] = Append(inbox[i], "reply") /\ list[i] = h
      <4>1. Replies(inbox'[i]) = Replies(inbox[i]) + 1
        BY <3>2, <3>5
      <4> QED BY <3>1, <3>3, <3>5, <4>1
    <3> QED BY <3>1, <3>4, <3>5
  <2>3. CASE Deliver(h, "other") /\ UNCHANGED replies
    <3> SUFFICES ASSUME NEW i \in Work
                 PROVE  ok[i] + Replies(inbox'[i]) <= replies[list[i]]
      BY <2>1, <2>3 DEF AnswerInv
    <3>1. inbox'[i] = inbox[i] \/ inbox'[i] = Append(inbox[i], "other")
      BY <2>3 DEF Deliver
    <3>2. Replies(Append(inbox[i], "other")) = Replies(inbox[i]) + 0
      BY <1>0, RepliesAppend DEF Kinds
    <3>3. /\ ok[i] \in Nat /\ Replies(inbox[i]) \in Nat /\ replies[list[i]] \in Nat
          /\ ok[i] + Replies(inbox[i]) <= replies[list[i]]
      BY <1>0 DEF AnswerInv
    <3>4. CASE inbox'[i] = inbox[i]
      BY <3>1, <3>3, <3>4
    <3>5. CASE inbox'[i] = Append(inbox[i], "other")
      <4>1. Replies(inbox'[i]) = Replies(inbox[i]) + 0
        BY <3>2, <3>5
      <4> QED BY <3>1, <3>3, <3>5, <4>1
    <3> QED BY <3>1, <3>4, <3>5
  <2>4. CASE UNCHANGED <<inbox, replies>>
    BY <2>1, <2>4, <1>0 DEF AnswerInv
  <2> QED BY <1>4, <2>2, <2>3, <2>4 DEF HostAnswers
<1>5. CASE \/ ParseFails \/ Unresolved \/ Spawn \/ CallInline \/ InlineReturns \/ LoopEnds
           \/ WaitEnds \/ UNCHANGED vars
           \/ \E i \in Work : \/ Dial(i) \/ InitSocket(i) \/ SendPingMsg(i) \/ Deadline(i)
                              \/ PrintResult(i) \/ WorkerDone(i) \/ ReceiveLong(i)
  <2>1. UNCHANGED <<list, ok, inbox, replies>>
    BY <1>5 DEF ParseFails, Unresolved, Spawn, CallInline, InlineReturns, LoopEnds, WaitEnds,
       vars, Dial, InitSocket, SendPingMsg, Deadline, PrintResult, WorkerDone, ReceiveLong
  <2> QED BY <2>1, <1>0 DEF AnswerInv, Work
<1> QED BY <1>1, <1>2, <1>3, <1>4, <1>5 DEF Next, MainStep, WorkerStep, Ended

\* A worker that goes on has its socket, and one that ends has its line.
LEMMA NextLineInv == IInv /\ [Next]_vars => ReportInv' /\ SocketInUseIsOpen'
<1> SUFFICES ASSUME IInv, [Next]_vars PROVE ReportInv' /\ SocketInUseIsOpen' OBVIOUS
<1>0. /\ TypeOK /\ WaitInv /\ ReportInv /\ SocketInUseIsOpen
      /\ DOMAIN wpc = Work /\ DOMAIN report = Work
      /\ Work = 1..Len(list) /\ Len(list) \in Nat /\ next \in Nat
  BY Positive DEF IInv, TypeOK
<1>1. CASE ParseList
  <2>1. /\ wpc' = [i \in Work' |-> "none"] /\ next' = next /\ Work' = DOMAIN list'
        /\ list' \in Seq(Hosts) /\ list = <<>>
    BY <1>1, <1>0 DEF ParseList, WaitInv, Work
  <2>2. next = 1 /\ Work' = 1..Len(list') /\ Len(list') \in Nat
    <3>1. Len(list) = 0
      BY <2>1
    <3> QED BY <2>1, <3>1, <1>0 DEF TypeOK
  <2> QED BY <2>1, <2>2 DEF ReportInv, SocketInUseIsOpen
<1>2. CASE Unresolved
  <2>1. /\ UNCHANGED <<list, wpc, conn>> /\ next \in Work /\ next' = next + 1
        /\ report' = [report EXCEPT ![next] = "unresolved"]
    BY <1>2 DEF Unresolved
  <2>2. report'[next] = "unresolved" /\ \A i \in Work \ {next} : report'[i] = report[i]
    BY <2>1, <1>0
  <2> QED BY <2>1, <2>2, <1>0 DEF ReportInv, SocketInUseIsOpen, Work
<1>3. CASE Spawn \/ CallInline
  <2>1. /\ UNCHANGED <<list, conn, report>> /\ next \in Work /\ next' \in {next, next + 1}
        /\ wpc' = [wpc EXCEPT ![next] = First] /\ (next' = next => ~quick)
    BY <1>3, <1>0 DEF Spawn, CallInline
  <2>2. wpc'[next] \in {"dial", "init"} /\ \A i \in Work \ {next} : wpc'[i] = wpc[i]
    BY <2>1, <1>0 DEF First
  <2> QED BY <2>1, <2>2, <1>0 DEF ReportInv, SocketInUseIsOpen, Work
<1>4. CASE InlineReturns
  <2>1. /\ UNCHANGED <<list, wpc, conn, report>> /\ wpc[next] = "over" /\ next' = next + 1
    BY <1>4 DEF InlineReturns
  <2> QED BY <2>1, <1>0 DEF ReportInv, SocketInUseIsOpen, Work
<1>5. ASSUME NEW i \in Work, Working(i) \/ WorkerDone(i)
      PROVE  ReportInv' /\ SocketInUseIsOpen'
  <2> USE DEF At, Goto, Failed, Tell
  <2>1. /\ UNCHANGED <<list, next>> /\ wpc'[i] # "none"
        /\ \A j \in Work \ {i} : wpc'[j] = wpc[j]
    BY <1>5, <1>0 DEF Working, Dial, InitSocket, SendPingMsg, Receive, Deadline, Reinit,
       PrintResult, WorkerDone
  <2>2. /\ \A j \in Work \ {i} : report'[j] = report[j] /\ (j \in conn => j \in conn')
        /\ wpc'[i] \in {"printed", "over"} => report'[i] # "none"
    <3>1. CASE Dial(i) \/ PrintResult(i) \/ InitSocket(i)
      BY <3>1, <1>0 DEF Dial, PrintResult, InitSocket
    <3>2. CASE SendPingMsg(i) \/ Receive(i) \/ Deadline(i) \/ Reinit(i)
      BY <3>2, <1>0 DEF SendPingMsg, Receive, Deadline, Reinit
    <3>3. CASE WorkerDone(i)
      BY <3>3, <1>0 DEF WorkerDone, ReportInv
    <3> QED BY <1>5, <3>1, <3>2, <3>3 DEF Working
  <2>3. wpc'[i] \in {"send", "read", "reinit"} => i \in conn'
    <3>1. CASE Dial(i) \/ PrintResult(i) \/ WorkerDone(i) \/ InitSocket(i) \/ Reinit(i)
      BY <3>1, <1>0 DEF Dial, PrintResult, WorkerDone, InitSocket, Reinit, SocketInUseIsOpen
    <3>2. CASE SendPingMsg(i) \/ Receive(i) \/ Deadline(i)
      BY <3>2, <1>0 DEF SendPingMsg, Receive, Deadline, SocketInUseIsOpen
    <3> QED BY <1>5, <3>1, <3>2 DEF Working
  <2> QED BY <2>1, <2>2, <2>3, <1>0 DEF ReportInv, SocketInUseIsOpen, Work
<1>6. CASE ParseFails \/ LoopEnds \/ WaitEnds \/ (\E h \in Hosts : HostAnswers(h))
           \/ (\E i \in Work : ReceiveLong(i)) \/ UNCHANGED vars
  <2>1. UNCHANGED <<list, next, wpc, conn, report>>
    BY <1>6 DEF ParseFails, LoopEnds, WaitEnds, HostAnswers, ReceiveLong, vars
  <2> QED BY <2>1, <1>0 DEF ReportInv, SocketInUseIsOpen, Work
<1> QED BY <1>1, <1>2, <1>3, <1>4, <1>5, <1>6
        DEF Next, MainStep, WorkerStep, Working, Ended

\* The invariant holds in every reachable state of `wstools net`, for any lists
\* and any number of requests.
THEOREM IInvariant == Spec => []IInv
<1>1. IInv /\ [Next]_vars => IInv'
  BY NextTypeOK, NextWaitInv, NextCountInv, NextAnswerInv, NextLineInv DEF IInv
<1> QED BY InitIInv, <1>1, PTL DEF Spec

\* The WaitGroup never goes below zero, which would be a panic, nor do the counters
\* of a worker go beyond -c; every variable has its type.
THEOREM TypeCorrect == Spec => []TypeOK
<1>1. IInv => TypeOK
  BY DEF IInv
<1> QED BY IInvariant, <1>1, PTL

\* A host that does not answer never seems up: a worker has counted no more
\* answers than its host has sent, whoever else pings it.
THEOREM NoPhantomHolds == Spec => []NoPhantomAnswers
<1>1. IInv => NoPhantomAnswers
  <2> SUFFICES ASSUME IInv, NEW i \in Work PROVE ok[i] <= replies[list[i]]
    BY DEF NoPhantomAnswers
  <2>1. /\ ok[i] \in Nat /\ Replies(inbox[i]) \in Nat /\ replies[list[i]] \in Nat
    BY Positive, MarkedFinite DEF IInv, TypeOK, Kinds
  <2>2. ok[i] + Replies(inbox[i]) <= replies[list[i]]
    BY DEF IInv, AnswerInv
  <2> QED BY <2>1, <2>2
<1> QED BY IInvariant, <1>1, PTL

\* sendPingMsg and the read after it never meet a nil p.conn.
THEOREM SocketHolds == Spec => []SocketInUseIsOpen
<1>1. IInv => SocketInUseIsOpen
  BY DEF IInv
<1> QED BY IInvariant, <1>1, PTL

\* The safety half of EveryHostReported: when main returns, every host of the list
\* has its line, unless -a names no action.
ExitAfterLastReport == mpc = "exited" => AllReported

\* wait.Wait returns only after the last goroutine has printed: main does not
\* return before something was printed for every position of the list, with -q or
\* not.
THEOREM ExitAfterLastReportHolds == Spec => []ExitAfterLastReport
<1>1. IInv => ExitAfterLastReport
  <2> SUFFICES ASSUME IInv, mpc = "exited", action # "other", NEW i \in Work
               PROVE  report[i] # "none"
    BY DEF ExitAfterLastReport, AllReported
  <2>1. /\ i \in 1..Len(list) /\ Len(list) \in Nat /\ next = Len(list) + 1 /\ wg = 0
    BY Positive DEF IInv, WaitInv
  <2>2. wpc[i] \in {"none", "over"}
    <3>1. CASE quick
      <4>1. IsFiniteSet(Live) /\ Cardinality(Live) = 0
        BY <2>1, <3>1, Positive, PartOfInterval DEF IInv, WaitInv, Live
      <4>2. Live = {}
        BY <4>1, FS_EmptySet
      <4> QED BY <4>2 DEF Live
    <3>2. CASE ~quick
      BY <2>1, <3>2 DEF IInv, WaitInv
    <3> QED BY <3>1, <3>2
  <2> QED BY <2>1, <2>2 DEF IInv, ReportInv
<1> QED BY IInvariant, <1>1, PTL
=============================================================================
