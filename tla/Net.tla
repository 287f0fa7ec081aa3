-------------------------------- MODULE Net --------------------------------
(***************************************************************************)
(* `wstools net`: NetRun with Ping, PingCount, sendPingMsg and portIsOpen  *)
(* (src/common/cli/net.go).                                                *)
(*                                                                         *)
(* Main goes through the list of hosts and pings each one in turn or, with *)
(* -q, in a goroutine of its own that a WaitGroup counts.  A ping socket   *)
(* is a raw one: it receives whatever ICMP message comes from its address, *)
(* the answers to earlier requests and to other sockets included.          *)
(*                                                                         *)
(* A worker is the execution of Ping, PingCount or portIsOpen for one      *)
(* position of the list; a host may be listed twice.                       *)
(***************************************************************************)
EXTENDS Naturals, Sequences

CONSTANTS
    Hosts,     \* addresses
    Lists,     \* host lists considered, sequences that may repeat a host
    Actions,   \* values of -a: "ping", "sum" (ping with -s), "telnet" or any "other"
    Count      \* -c, the number of requests

ASSUME NetAssumption ==
    /\ Lists \subseteq Seq(Hosts)
    /\ Actions \subseteq {"ping", "sum", "telnet", "other"}
    /\ Count \in Nat

VARIABLES
    action,   \* what to do with every host
    quick,    \* the -q option
    list,     \* the hosts
    mpc,      \* where main is
    next,     \* the position that main has reached in the list
    wg,       \* the counter of the WaitGroup
    wpc,      \* where the worker of a position is
    conn,     \* positions with a socket: p.conn # nil
    inbox,    \* messages that a socket has received, in order
    ok, errs, \* requests of a worker that counted as answered, as failed
    report,   \* what was printed for a position
    pending,  \* requests on their way to a host
    replies   \* history: echo replies that a host has sent

mainVars == <<action, quick, list, mpc, next>>
netVars  == <<pending, replies>>
workVars == <<wpc, conn, inbox, ok, errs>>
vars == <<mainVars, netVars, workVars, wg, report>>

Work == DOMAIN list
Listed(h) == {i \in Work : list[i] = h}

\* What a socket receives: an echo reply or another ICMP message.
Kinds == {"reply", "other"}

\* main returns, or a run time error ends the program.
Ends == {"exited", "panicked"}
Running == mpc \notin Ends

TypeOK ==
    /\ action \in Actions /\ quick \in BOOLEAN
    /\ list \in Lists \cup {<<>>}
    /\ mpc \in {"parse", "loop", "inline", "wait"} \cup Ends
    /\ next \in 1..Len(list) + 1
    /\ wg \in 0..Len(list)
    /\ wpc \in [Work -> {"none", "dial", "init", "send", "read", "reinit",
                         "print", "printed", "over"}]
    /\ conn \subseteq Work
    /\ inbox \in [Work -> Seq(Kinds)]
    /\ ok \in [Work -> 0..Count] /\ errs \in [Work -> 0..Count]
    /\ report \in [Work -> {"none", "unresolved", "failed", "summary", "open",
                            "closed"}]
    /\ pending \in [Hosts -> Nat] /\ replies \in [Hosts -> Nat]

Init ==
    /\ action \in Actions /\ quick \in BOOLEAN
    /\ list = <<>> /\ mpc = "parse" /\ next = 1 /\ wg = 0
    /\ wpc = <<>> /\ conn = {} /\ inbox = <<>> /\ ok = <<>> /\ errs = <<>>
    /\ report = <<>>
    /\ pending = [h \in Hosts |-> 0] /\ replies = [h \in Hosts |-> 0]

-----------------------------------------------------------------------------
(***************************************************************************)
(* Main.                                                                   *)
(***************************************************************************)
ParseList ==
    /\ mpc = "parse"
    /\ list' \in Lists
    /\ mpc' = "loop"
    /\ wpc' = [i \in DOMAIN list' |-> "none"]
    /\ report' = [i \in DOMAIN list' |-> "none"]
    /\ inbox' = [i \in DOMAIN list' |-> <<>>]
    /\ ok' = [i \in DOMAIN list' |-> 0] /\ errs' = [i \in DOMAIN list' |-> 0]
    /\ UNCHANGED <<action, quick, next, conn, netVars, wg>>

\* No option names a host, or the file cannot be opened or names none.
ParseFails ==
    /\ mpc = "parse"
    /\ mpc' = "exited"
    /\ UNCHANGED <<action, quick, list, next, netVars, workVars, wg, report>>

\* NetPingNew finds no address: it is printed and the next host's turn.
Unresolved ==
    /\ mpc = "loop" /\ next \in Work
    /\ action \in {"ping", "sum"}
    /\ report' = [report EXCEPT ![next] = "unresolved"]
    /\ next' = next + 1
    /\ UNCHANGED <<action, quick, list, mpc, netVars, workVars, wg>>

First == IF action = "telnet" THEN "dial" ELSE "init"

\* wait.Add(1) and go func() { ... }()
Spawn ==
    /\ mpc = "loop" /\ next \in Work /\ action # "other"
    /\ quick
    /\ wg' = wg + 1
    /\ wpc' = [wpc EXCEPT ![next] = First]
    /\ next' = next + 1
    /\ UNCHANGED <<action, quick, list, mpc, conn, inbox, ok, errs, netVars,
                   report>>

\* Without -q main is the worker.
CallInline ==
    /\ mpc = "loop" /\ next \in Work /\ action # "other"
    /\ ~quick
    /\ mpc' = "inline"
    /\ wpc' = [wpc EXCEPT ![next] = First]
    /\ UNCHANGED <<action, quick, list, next, conn, inbox, ok, errs, netVars,
                   wg, report>>

InlineReturns ==
    /\ mpc = "inline" /\ wpc[next] = "over"
    /\ mpc' = "loop" /\ next' = next + 1
    /\ UNCHANGED <<action, quick, list, netVars, workVars, wg, report>>

\* The end of the list.  The switch has no default: with another -a nothing is
\* done at all, and wg is 0.
LoopEnds ==
    /\ mpc = "loop" /\ (next \notin Work \/ action = "other")
    /\ mpc' = "wait"
    /\ UNCHANGED <<action, quick, list, next, netVars, workVars, wg, report>>

\* Variant: main does not wait.
WaitEndsEarly ==
    /\ mpc = "wait"
    /\ mpc' = "exited"
    /\ UNCHANGED <<action, quick, list, next, netVars, workVars, wg, report>>

\* wait.Wait()
WaitEnds ==
    /\ mpc = "wait" /\ wg = 0
    /\ mpc' = "exited"
    /\ UNCHANGED <<action, quick, list, next, netVars, workVars, wg, report>>

-----------------------------------------------------------------------------
(***************************************************************************)
(* A worker.  Every goroutine ends with main.                              *)
(***************************************************************************)
At(i, place) == Running /\ wpc[i] = place
Goto(i, place) == wpc' = [wpc EXCEPT ![i] = place]
Tell(i, what) == report' = [report EXCEPT ![i] = what]
Failed(i) == errs' = [errs EXCEPT ![i] = @ + 1]

\* portIsOpen: the connection is accepted, or refused or timed out.
Dial(i) ==
    /\ At(i, "dial")
    /\ Tell(i, "open") \/ Tell(i, "closed")
    /\ Goto(i, "printed")
    /\ UNCHANGED <<mainVars, conn, inbox, ok, errs, netVars, wg>>

\* p.Init: an error is returned and printed.
InitSocket(i) ==
    /\ At(i, "init")
    /\ \/ Goto(i, "send") /\ conn' = conn \cup {i} /\ UNCHANGED report
       \/ Goto(i, "printed") /\ Tell(i, "failed") /\ UNCHANGED conn
    /\ UNCHANGED <<mainVars, inbox, ok, errs, netVars, wg>>

More(i) == ok[i] + errs[i] < Count

\* SetDeadline and c.Write, which may fail.
SendPingMsg(i) ==
    /\ At(i, "send") /\ More(i)
    /\ \/ /\ Goto(i, "read")
          /\ pending' = [pending EXCEPT ![list[i]] = @ + 1]
          /\ UNCHANGED errs
       \/ Failed(i) /\ UNCHANGED <<wpc, pending>>
    /\ UNCHANGED <<mainVars, conn, inbox, ok, replies, wg, report>>

\* Variant: any message counts as an answer.
ReceiveAnything(i) ==
    /\ At(i, "read") /\ inbox[i] # <<>>
    /\ inbox' = [inbox EXCEPT ![i] = Tail(@)]
    /\ ok' = [ok EXCEPT ![i] = @ + 1]
    /\ Goto(i, "send")
    /\ UNCHANGED <<mainVars, conn, errs, netVars, wg, report>>

\* c.Read returns the oldest message; only an echo reply counts as an answer,
\* to whichever request it is.
Receive(i) ==
    /\ At(i, "read") /\ inbox[i] # <<>>
    /\ inbox' = [inbox EXCEPT ![i] = Tail(@)]
    /\ \/ /\ Head(inbox[i]) = "reply"
          /\ ok' = [ok EXCEPT ![i] = @ + 1] /\ UNCHANGED errs
       \/ Head(inbox[i]) = "other" /\ Failed(i) /\ UNCHANGED ok
    /\ Goto(i, "send")
    /\ UNCHANGED <<mainVars, conn, netVars, wg, report>>

\* Instead of it, a message of the host that some other program has asked for and
\* that fills the buffer: rb[:n] after the header is cut off is a run time error,
\* and ends all goroutines.
ReceiveLong(i) ==
    /\ At(i, "read")
    /\ mpc' = "panicked"
    /\ UNCHANGED <<action, quick, list, next, netVars, workVars, wg, report>>

\* Variant: no deadline.
DeadlineNever(i) ==
    /\ At(i, "read") /\ inbox[i] # <<>>
    /\ Failed(i)
    /\ Goto(i, IF action = "ping" THEN "reinit" ELSE "send")
    /\ UNCHANGED <<mainVars, conn, inbox, ok, netVars, wg, report>>

\* Three seconds without a message.  Ping then opens a new socket, PingCount
\* goes on with the old one.
Deadline(i) ==
    /\ At(i, "read") /\ inbox[i] = <<>>
    /\ Failed(i)
    /\ Goto(i, IF action = "ping" THEN "reinit" ELSE "send")
    /\ UNCHANGED <<mainVars, conn, inbox, ok, netVars, wg, report>>

\* Variant: Ping goes on without a socket.
ReinitGoesOn(i) ==
    /\ At(i, "reinit")
    /\ Goto(i, "send")
    /\ \/ inbox' = [inbox EXCEPT ![i] = <<>>] /\ UNCHANGED conn
       \/ conn' = conn \ {i} /\ UNCHANGED inbox
    /\ UNCHANGED <<mainVars, ok, errs, netVars, wg, report>>

\* p.Init once more; if it fails p.conn is nil and the loop ends.
Reinit(i) ==
    /\ At(i, "reinit")
    /\ \/ /\ Goto(i, "send") /\ inbox' = [inbox EXCEPT ![i] = <<>>]
          /\ UNCHANGED conn
       \/ Goto(i, "print") /\ conn' = conn \ {i} /\ UNCHANGED inbox
    /\ UNCHANGED <<mainVars, ok, errs, netVars, wg, report>>

\* The lines of Ping, or the one of PingCount, come when the loop is over.
PrintResult(i) ==
    /\ At(i, "print") \/ (At(i, "send") /\ ~More(i))
    /\ Tell(i, "summary") /\ Goto(i, "printed")
    /\ UNCHANGED <<mainVars, conn, inbox, ok, errs, netVars, wg>>

\* Variant: wait.Done also in the branch without -q.
WorkerDoneAlways(i) ==
    /\ At(i, "printed")
    /\ wg' = wg - 1
    /\ Goto(i, "over")
    /\ UNCHANGED <<mainVars, conn, inbox, ok, errs, netVars, report>>

\* wait.Done() of a goroutine, or the return to main.
WorkerDone(i) ==
    /\ At(i, "printed")
    /\ wg' = IF quick THEN wg - 1 ELSE wg
    /\ Goto(i, "over")
    /\ UNCHANGED <<mainVars, conn, inbox, ok, errs, netVars, report>>

-----------------------------------------------------------------------------
(***************************************************************************)
(* The network (external): a request or its answer is lost, or an answer   *)
(* arrives after any delay, at every socket that is open to its sender.    *)
(***************************************************************************)
Deliver(h, kind) ==
    inbox' = [i \in Work |->
        IF i \in Listed(h) \cap conn /\ wpc[i] \in {"send", "read", "reinit"}
        THEN Append(inbox[i], kind) ELSE inbox[i]]

HostAnswers(h) ==
    /\ Running /\ pending[h] > 0
    /\ pending' = [pending EXCEPT ![h] = @ - 1]
    /\ \/ /\ Deliver(h, "reply")
          /\ replies' = [replies EXCEPT ![h] = @ + 1]
       \/ Deliver(h, "other") /\ UNCHANGED replies
       \/ UNCHANGED <<inbox, replies>>
    /\ UNCHANGED <<mainVars, wpc, conn, ok, errs, wg, report>>

Ended == ~Running /\ UNCHANGED vars

MainStep ==
    \/ ParseList \/ ParseFails \/ Unresolved \/ Spawn \/ CallInline
    \/ InlineReturns \/ LoopEnds \/ WaitEnds

WorkerStep(i) ==
    \/ Dial(i) \/ InitSocket(i) \/ SendPingMsg(i) \/ Receive(i) \/ Deadline(i)
    \/ Reinit(i) \/ PrintResult(i) \/ WorkerDone(i)

Next ==
    \/ MainStep \/ Ended
    \/ \E i \in Work : WorkerStep(i) \/ ReceiveLong(i)
    \/ \E h \in Hosts : HostAnswers(h)

Spec == Init /\ [][Next]_vars

Positions == UNION {DOMAIN l : l \in Lists}

\* The goroutines are scheduled and the deadlines pass; no host has to answer or
\* to send a long message.
FairSpec ==
    /\ Spec
    /\ WF_vars(MainStep)
    /\ \A i \in Positions : WF_vars(i \in Work /\ WorkerStep(i))

-----------------------------------------------------------------------------
\* A worker counts no more answers than its host has sent, however late they
\* come and however many sockets receive them: a silent host never seems up.
NoPhantomAnswers == \A i \in Work : ok[i] <= replies[list[i]]

\* No worker writes to or reads from p.conn when it is nil, as it is after a
\* failed p.Init.
SocketInUseIsOpen ==
    \A i \in Work : wpc[i] \in {"send", "read", "reinit"} => i \in conn

\* When main returns, something was printed for every host of the list, unless -a
\* names no action.
AllReported == action # "other" => \A i \in Work : report[i] # "none"

\* The program ends even if no host ever answers, and not before something was
\* printed for every host of the list: main returns after the last goroutine.
\* Only a message that is too long ends it earlier.
EveryHostReported == <>(mpc = "panicked" \/ (mpc = "exited" /\ AllReported))
=============================================================================
