------------------------------ MODULE SshBatch ------------------------------
(***************************************************************************)
(* SSHBatchCommond with SSHSendCommonds and CMDClient.Close                *)
(* (src/common/cli/ssh.go): one command after the other is sent to all     *)
(* hosts until a context is cancelled.                                     *)
(*                                                                         *)
(* Main dials and opens a session per client, then hands every command it  *)
(* receives to the workers, over a channel without a buffer per worker.    *)
(* The workers send a pointer to their one SSHResult over resultChan to    *)
(* the printer.  The caller owns the command channel and the context.  If  *)
(* it closes the channel, main receives empty commands: for main that is a *)
(* caller which always has one more.                                       *)
(***************************************************************************)
EXTENDS Naturals, Sequences, FiniteSets, Functions

CONSTANTS
    Hosts,       \* addresses
    ConnLists,   \* lists of connections considered, which may repeat a host
    MaxCmds      \* bound on the commands of the caller

ASSUME BatchAssumption == ConnLists \subseteq Seq(Hosts) \ {<<>>} /\ MaxCmds \in Nat

VARIABLES
    conns,      \* the argument of SSHBatchCommond
    mpc,        \* where main is
    todo,       \* clients that the loop of main has still to serve, in its order
    clients,    \* keys of the map that InitClients returns
    accepted,   \* commands that main received
    shut,       \* clients whose CMDChan and connection are closed
    cancelled,  \* the context is done
    wpc,        \* where the worker of a client is; "deaf" if it has no session
    ret,        \* the SSHResult of each worker: the command of Data, and Error
    got,        \* commands that each worker has received
    results,    \* resultChan: the workers whose result it points to
    closed,     \* resultChan is closed
    ppc,        \* where the printer is
    printed,    \* the lines printed for each host
    done        \* pairs of a host and a command that succeeded there

mainVars    == <<conns, mpc, todo, clients, accepted, shut, cancelled>>
workVars    == <<wpc, ret, got, done>>
printVars   == <<ppc, printed>>
vars == <<mainVars, workVars, printVars, results, closed>>

Cap == Len(conns)

\* The orders in which a loop may range over a map.
Orders(S) == {s \in [1..Cardinality(S) -> S] : Range(s) = S}

Line == [ok : BOOLEAN, data : 0..MaxCmds]

TypeOK ==
    /\ conns \in ConnLists
    /\ mpc \in {"dial", "session", "select", "broadcast", "close", "returned", "panic"}
    /\ todo \in Seq(clients) /\ clients \subseteq Range(conns) /\ shut \subseteq clients
    /\ accepted \in 0..MaxCmds /\ cancelled \in BOOLEAN
    /\ wpc \in [Hosts -> {"none", "deaf", "idle", "run", "result", "ended"}]
    /\ ret \in [Hosts -> [data : 0..MaxCmds, err : BOOLEAN]]
    /\ got \in [Hosts -> 0..accepted] /\ done \subseteq clients \X (1..MaxCmds)
    /\ results \in Seq(clients) /\ Len(results) <= Cap /\ closed \in BOOLEAN
    /\ ppc \in {"none", "select", "over"}
    /\ printed \in [Hosts -> Seq(Line)]

Init ==
    /\ conns \in ConnLists
    /\ mpc = "dial" /\ todo = <<>> /\ clients = {} /\ accepted = 0
    /\ shut = {} /\ cancelled = FALSE
    /\ wpc = [h \in Hosts |-> "none"]
    /\ ret = [h \in Hosts |-> [data |-> 0, err |-> FALSE]]
    /\ got = [h \in Hosts |-> 0] /\ done = {}
    /\ results = <<>> /\ closed = FALSE
    /\ ppc = "none" /\ printed = [h \in Hosts |-> <<>>]

\* A panic of any goroutine ends the program.
Running == mpc # "panic"
Panic == mpc' = "panic"

-----------------------------------------------------------------------------
(***************************************************************************)
(* Main.                                                                   *)
(***************************************************************************)
\* InitClients: a host that cannot be dialled is left out.
Dial ==
    /\ mpc = "dial"
    /\ \E dialled \in SUBSET Range(conns) :
         clients' = dialled /\ todo' \in Orders(dialled)
    /\ mpc' = "session"
    /\ UNCHANGED <<conns, accepted, shut, cancelled, workVars, printVars, results, closed>>

\* SSHSendCommonds opens a session and spawns the worker, or fails: the client
\* stays in the map.
OpenSession ==
    /\ mpc = "session" /\ todo # <<>>
    /\ \E state \in {"idle", "deaf"} : wpc' = [wpc EXCEPT ![Head(todo)] = state]
    /\ todo' = Tail(todo)
    /\ UNCHANGED <<conns, mpc, clients, accepted, shut, cancelled, ret, got, done,
                   printVars, results, closed>>

\* The printer is spawned and main begins to listen.
Listen ==
    /\ mpc = "session" /\ todo = <<>>
    /\ \/ clients = {} /\ mpc' = "returned" /\ UNCHANGED ppc
       \/ clients # {} /\ mpc' = "select" /\ ppc' = "select"
    /\ UNCHANGED <<conns, todo, clients, accepted, shut, cancelled, workVars, printed,
                   results, closed>>

\* A command of the caller; the select may take it although the context is done.
Accept ==
    /\ mpc = "select" /\ accepted < MaxCmds
    /\ accepted' = accepted + 1
    /\ todo' \in Orders(clients) /\ mpc' = "broadcast"
    /\ UNCHANGED <<conns, clients, shut, cancelled, workVars, printVars, results, closed>>

\* The send waits for the worker to receive, whatever becomes of the context.
Broadcast ==
    /\ mpc = "broadcast"
    /\ \/ /\ todo # <<>> /\ wpc[Head(todo)] = "idle"
          /\ wpc' = [wpc EXCEPT ![Head(todo)] = "run"]
          /\ got' = [got EXCEPT ![Head(todo)] = @ + 1]
          /\ todo' = Tail(todo) /\ UNCHANGED mpc
       \/ todo = <<>> /\ mpc' = "select" /\ UNCHANGED <<todo, wpc, got>>
    /\ UNCHANGED <<conns, clients, accepted, shut, cancelled, ret, done,
                   printVars, results, closed>>

SelectDone ==
    /\ mpc = "select" /\ cancelled
    /\ mpc' = "close" /\ todo' \in Orders(clients)
    /\ UNCHANGED <<conns, clients, accepted, shut, cancelled, workVars, printVars,
                   results, closed>>


\* CMDClient.Close: the channel and the connection.
CloseClient ==
    /\ mpc = "close" /\ todo # <<>>
    /\ shut' = shut \cup {Head(todo)} /\ todo' = Tail(todo)
    /\ UNCHANGED <<conns, mpc, clients, accepted, cancelled, workVars, printVars,
                   results, closed>>

CloseResults ==
    /\ mpc = "close" /\ todo = <<>>
    /\ closed' = TRUE /\ mpc' = "returned"
    /\ UNCHANGED <<conns, todo, clients, accepted, shut, cancelled, workVars, printVars,
                   results>>

-----------------------------------------------------------------------------
(***************************************************************************)
(* The workers.                                                            *)
(***************************************************************************)
\* Variant: an error of a later command leaves the result as it is.
CommandEndsForgets(h) ==
    /\ Running /\ wpc[h] = "run"
    /\ wpc' = [wpc EXCEPT ![h] = "result"]
    /\ \/ /\ got[h] = 1
          /\ ret' = [ret EXCEPT ![h].data = got[h]]
          /\ done' = done \cup {<<h, got[h]>>}
       \/ UNCHANGED <<ret, done>>
    /\ UNCHANGED <<mainVars, got, printVars, results, closed>>

\* session.Output succeeds at most once: a session runs a single command, and
\* the next call finds its Stdout set.  Data is overwritten, Error never cleared.
CommandEnds(h) ==
    /\ Running /\ wpc[h] = "run"
    /\ wpc' = [wpc EXCEPT ![h] = "result"]
    /\ \/ /\ got[h] = 1
          /\ ret' = [ret EXCEPT ![h].data = got[h]]
          /\ done' = done \cup {<<h, got[h]>>}
       \/ ret' = [ret EXCEPT ![h].err = TRUE] /\ UNCHANGED done
    /\ UNCHANGED <<mainVars, got, printVars, results, closed>>

\* Variant: a failed command has no result.
SendResultOnlySuccess(h) ==
    /\ Running /\ wpc[h] = "result" /\ ~closed /\ Len(results) < Cap
    /\ results' = IF ret[h].err THEN results ELSE Append(results, h)
    /\ wpc' = [wpc EXCEPT ![h] = "idle"]
    /\ UNCHANGED <<mainVars, ret, got, done, printVars, closed>>

\* Variant: the send does not wait for room in the channel.
SendResultUnbounded(h) ==
    /\ Running /\ wpc[h] = "result" /\ ~closed
    /\ results' = Append(results, h)
    /\ wpc' = [wpc EXCEPT ![h] = "idle"]
    /\ UNCHANGED <<mainVars, ret, got, done, printVars, closed>>

SendResult(h) ==
    /\ Running /\ wpc[h] = "result" /\ ~closed /\ Len(results) < Cap
    /\ results' = Append(results, h)
    /\ wpc' = [wpc EXCEPT ![h] = "idle"]
    /\ UNCHANGED <<mainVars, ret, got, done, printVars, closed>>

\* A worker that sends, or that waits to send, when main closes resultChan.
SendOnClosed(h) ==
    /\ Running /\ wpc[h] = "result" /\ closed
    /\ Panic
    /\ UNCHANGED <<conns, todo, clients, accepted, shut, cancelled, workVars, printVars,
                   results, closed>>

WorkerEnds(h) ==
    /\ Running /\ wpc[h] = "idle" /\ h \in shut
    /\ wpc' = [wpc EXCEPT ![h] = "ended"]
    /\ UNCHANGED <<mainVars, ret, got, done, printVars, results, closed>>

-----------------------------------------------------------------------------
(***************************************************************************)
(* The printer, and the caller.                                            *)
(***************************************************************************)
\* The result is read when it is printed: the worker may have changed it since.
PrintResult ==
    /\ Running /\ ppc = "select" /\ results # <<>>
    /\ LET h == Head(results)
       IN  printed' = [printed EXCEPT ![h] =
                           Append(@, [ok |-> ~ret[h].err, data |-> ret[h].data])]
    /\ results' = Tail(results)
    /\ UNCHANGED <<mainVars, workVars, ppc, closed>>

\* The closed and empty channel gives nil, which the printer dereferences.
PrintNil ==
    /\ Running /\ ppc = "select" /\ closed /\ results = <<>>
    /\ Panic
    /\ UNCHANGED <<conns, todo, clients, accepted, shut, cancelled, workVars, printVars,
                   results, closed>>

PrinterDone ==
    /\ Running /\ ppc = "select" /\ cancelled
    /\ ppc' = "over"
    /\ UNCHANGED <<mainVars, workVars, printed, results, closed>>

\* The caller cancels the context.
Cancel ==
    /\ Running /\ ~cancelled
    /\ cancelled' = TRUE
    /\ UNCHANGED <<conns, mpc, todo, clients, accepted, shut, workVars, printVars,
                   results, closed>>

MainStep == Dial \/ OpenSession \/ Listen \/ Broadcast \/ SelectDone \/ CloseClient
            \/ CloseResults
WorkerStep(h) == CommandEnds(h) \/ SendResult(h) \/ SendOnClosed(h) \/ WorkerEnds(h)
PrinterStep == PrintResult \/ PrintNil \/ PrinterDone

Next ==
    \/ MainStep \/ Accept \/ PrinterStep \/ Cancel
    \/ \E h \in Hosts : WorkerStep(h)

Spec == Init /\ [][Next]_vars

\* The goroutines are scheduled and the commands end on their hosts.  Neither a
\* command nor a cancellation has to come.
FairSpec ==
    /\ Spec
    /\ WF_vars(MainStep) /\ WF_vars(PrinterStep)
    /\ \A h \in Hosts : WF_vars(WorkerStep(h))

-----------------------------------------------------------------------------
\* SUCCESS is printed at most once for a host, as its first line, with the
\* output of the first command, which did succeed there: neither the result
\* that a worker uses again nor a session that is spent makes a false one.
SuccessIsReal ==
    \A h \in Hosts : \A i \in DOMAIN printed[h] :
        printed[h][i].ok => i = 1 /\ printed[h][i].data = 1 /\ <<h, 1>> \in done

Deaf == {h \in clients : wpc[h] = "deaf"}

\* As long as the context is not done and every client has its session, each
\* command is answered by a line for each host: neither the channels without a
\* buffer nor the full resultChan can stop main, the workers and the printer.
EveryCommandAnswered ==
    \A n \in 1..MaxCmds :
        accepted >= n ~> \/ cancelled \/ Deaf # {}
                         \/ \A h \in clients : Len(printed[h]) >= n

\* Main waits for a client without a session, or for one that waits for room in
\* resultChan after the printer has gone.
Stuck ==
    /\ mpc = "broadcast" /\ todo # <<>>
    /\ \/ Head(todo) \in Deaf
       \/ wpc[Head(todo)] = "result" /\ ppc = "over" /\ Len(results) = Cap

=============================================================================
