------------------------------- MODULE SshRun -------------------------------
(***************************************************************************)
(* `wstools ssh`: sshRun (src/command/ssh.go) with InitClients,            *)
(* SSHSendCommonds, SSHSendFile and SSHBatchSendFile                       *)
(* (src/common/cli/ssh.go).                                                *)
(*                                                                         *)
(* Main picks the source of the host list, dials every host in turn, and   *)
(* then collects one result per client from a channel of capacity one.     *)
(* With a command (mode "cmd") a sender goroutine opens the sessions one   *)
(* after the other and spawns a worker per session; with a file (mode      *)
(* "file") main spawns a worker per client, and every worker a copier      *)
(* goroutine that feeds the standard input of the remote scp.              *)
(***************************************************************************)
EXTENDS Naturals, Sequences, FiniteSets

CONSTANTS
    Hosts,         \* addresses
    HostLists,     \* host lists considered, sequences that may repeat a host
    Options,       \* records [H, C, f, mode] of the command line considered
    RetCap,        \* capacity of the result channel, 1 in the code
    SessionsFail,  \* whether a connected host may refuse a session
    Responsive     \* hosts that answer every request, and whose processes end

ASSUME ListsAssumption == HostLists \subseteq Seq(Hosts)
ASSUME OptionsAssumption == Options \subseteq
    [H : {"none", "list", "path"}, C : {"none", "path"}, f : BOOLEAN,
     mode : {"cmd", "file"}]
ASSUME SshBounds == RetCap \in Nat \ {0} /\ SessionsFail \in BOOLEAN
                    /\ Responsive \subseteq Hosts

VARIABLES
    opts,      \* the command line: -H, -C, -f, and -c or -s/-d
    mpc,       \* where main is
    todo,      \* connections still to dial
    clients,   \* keys of the map that InitClients returns
    got,       \* results received by main: the i of its loop
    ret,       \* retChan or resultChan
    closed,    \* the channel has been closed
    reports,   \* what was printed: pairs of a host and a verdict
    stodo,     \* hosts whose session the sender goroutine has not got yet
    sasking,   \* the host of which it is asking a session
    sblocked,  \* the host whose session failed, while the sender reports it
    wpc,       \* where the worker of a host is
    gpc,       \* where the copier of a host is
    outcome,   \* the result a worker is about to send
    done       \* hosts that executed the command or stored the whole file

mainVars == <<opts, mpc, todo, clients, got, closed, reports>>
workVars == <<stodo, sasking, sblocked, wpc, gpc, outcome, done>>
vars == <<mainVars, workVars, ret>>

Verdicts == {"undialled", "ok", "err"}
WorkStates == {"none", "exec", "open", "session", "stat", "spawn", "started",
               "result", "sent"}

TypeOK ==
    /\ opts \in Options
    /\ mpc \in {"parse", "dial", "collect", "closing", "exited", "fatal"}
    /\ todo \in Seq(Hosts) /\ clients \subseteq Hosts
    /\ got \in 0..Cardinality(clients)
    /\ closed \in BOOLEAN
    /\ reports \subseteq Hosts \X Verdicts
    /\ ret \in Seq(Hosts) /\ Len(ret) <= RetCap
    /\ stodo \subseteq clients /\ sasking \subseteq stodo
    /\ sblocked \subseteq clients
    /\ wpc \in [Hosts -> WorkStates]
    /\ gpc \in [Hosts -> {"none", "pending", "piped", "over"}]
    /\ outcome \in [Hosts -> {"none", "ok", "err"}]
    /\ done \subseteq Hosts

Init ==
    /\ opts \in Options
    /\ mpc = "parse" /\ todo = <<>>
    /\ clients = {} /\ got = 0 /\ ret = <<>> /\ closed = FALSE /\ reports = {}
    /\ stodo = {} /\ sasking = {} /\ sblocked = {}
    /\ wpc = [h \in Hosts |-> "none"] /\ gpc = [h \in Hosts |-> "none"]
    /\ outcome = [h \in Hosts |-> "none"] /\ done = {}

Alive == mpc \notin {"exited", "fatal"}

-----------------------------------------------------------------------------
(***************************************************************************)
(* Main: the host list.                                                    *)
(***************************************************************************)

\* Which option the hosts are read from.  With -f the code reads the file of
\* -C, not the one of -H.
HostSource(o) ==
    IF o.H # "none" /\ ~o.f THEN "-H list" ELSE "-C file"

\* No host option, an unreadable or empty list, or missing credentials.
ParseFatal ==
    /\ mpc = "parse"
    /\ mpc' = "fatal"
    /\ UNCHANGED <<opts, todo, clients, got, closed, reports, workVars, ret>>

ParseHosts ==
    /\ mpc = "parse"
    /\ opts.H # "none" \/ opts.C # "none"
    /\ HostSource(opts) = "-C file" => opts.C # "none"
    /\ \E list \in HostLists : list # <<>> /\ todo' = list
    /\ mpc' = "dial"
    /\ UNCHANGED <<opts, clients, got, closed, reports, workVars, ret>>

(***************************************************************************)
(* InitClients.  A host listed twice is dialled twice; the second client   *)
(* replaces the first in the map.                                          *)
(***************************************************************************)
DialOk ==
    /\ mpc = "dial" /\ todo # <<>>
    /\ clients' = clients \cup {Head(todo)} /\ todo' = Tail(todo)
    /\ UNCHANGED <<opts, mpc, got, closed, reports, workVars, ret>>

\* A key that cannot be read, or a refused or timed out connection.
DialFails ==
    /\ mpc = "dial" /\ todo # <<>>
    /\ reports' = reports \cup {<<Head(todo), "undialled">>}
    /\ todo' = Tail(todo)
    /\ UNCHANGED <<opts, mpc, clients, got, closed, workVars, ret>>

\* Every host has been dialled: the goroutines start, main turns to its loop.
StartWork ==
    /\ mpc = "dial" /\ todo = <<>>
    /\ clients # {}
    /\ mpc' = "collect"
    /\ \/ opts.mode = "cmd" /\ stodo' = clients /\ UNCHANGED wpc
       \/ /\ opts.mode = "file" /\ UNCHANGED stodo
          /\ wpc' = [h \in Hosts |-> IF h \in clients THEN "open" ELSE "none"]
    /\ UNCHANGED <<opts, todo, clients, got, closed, reports, sasking,
                   sblocked, gpc, outcome, done, ret>>

NobodyToServe ==
    /\ mpc = "dial" /\ todo = <<>> /\ clients = {}
    /\ mpc' = "exited"
    /\ UNCHANGED <<opts, todo, clients, got, closed, reports, workVars,
                   ret>>

(***************************************************************************)
(* Main: the results.                                                      *)
(***************************************************************************)
Collect ==
    /\ mpc = "collect" /\ got < Cardinality(clients)
    /\ ret # <<>>
    /\ got' = got + 1
    /\ reports' = reports \cup {<<Head(ret), outcome[Head(ret)]>>}
    /\ ret' = Tail(ret)
    /\ UNCHANGED <<opts, mpc, todo, clients, closed, workVars>>

\* Variant: the loop stops one result short.
CloseResultsEarly ==
    /\ mpc = "collect" /\ got + 1 >= Cardinality(clients)
    /\ closed' = TRUE /\ mpc' = "closing"
    /\ UNCHANGED <<opts, todo, clients, got, reports, workVars, ret>>

CloseResults ==
    /\ mpc = "collect" /\ got = Cardinality(clients)
    /\ closed' = TRUE /\ mpc' = "closing"
    /\ UNCHANGED <<opts, todo, clients, got, reports, workVars, ret>>

Exit ==
    /\ mpc = "closing"
    /\ mpc' = "exited"
    /\ UNCHANGED <<opts, todo, clients, got, closed, reports, workVars,
                   ret>>

-----------------------------------------------------------------------------
(***************************************************************************)
(* A send of a result, and the sender goroutine with its workers.          *)
(***************************************************************************)
\* Variant: a channel without a limit.
SendUnlimited(h) == ret' = Append(ret, h)

Send(h) ==
    /\ Len(ret) < RetCap
    /\ ret' = Append(ret, h)

\* Variant: the sender executes the command itself before the next host.
SenderFreeInline ==
    sasking = {} /\ sblocked = {} /\ \A h \in Hosts : wpc[h] # "exec"

\* The sender is at the head of its loop, neither in the request of a session
\* nor in the send of an error.
SenderFree == sasking = {} /\ sblocked = {}

\* The next host of the map, in any order: cli.NewSession, without a timeout.
SenderAsks(h) ==
    /\ Alive
    /\ SenderFree /\ h \in stodo
    /\ sasking' = {h}
    /\ UNCHANGED <<mainVars, stodo, sblocked, wpc, gpc, outcome, done, ret>>

\* SSHSendCommonds got a session: its goroutine executes the command.
SessionOpened(h) ==
    /\ Alive
    /\ h \in sasking
    /\ stodo' = stodo \ {h} /\ sasking' = {}
    /\ wpc' = [wpc EXCEPT ![h] = "exec"]
    /\ UNCHANGED <<mainVars, sblocked, gpc, outcome, done, ret>>

\* Variant: after the error the command is executed all the same.
SessionRefusedAndRun(h) ==
    /\ Alive
    /\ SessionsFail
    /\ h \in sasking
    /\ stodo' = stodo \ {h} /\ sasking' = {} /\ sblocked' = {h}
    /\ wpc' = [wpc EXCEPT ![h] = "exec"]
    /\ outcome' = [outcome EXCEPT ![h] = "err"]
    /\ UNCHANGED <<mainVars, gpc, done, ret>>

\* Variant: the error is only printed, no result is sent.
SessionRefusedSilently(h) ==
    /\ Alive
    /\ SessionsFail
    /\ h \in sasking
    /\ stodo' = stodo \ {h} /\ sasking' = {}
    /\ UNCHANGED <<mainVars, sblocked, wpc, gpc, outcome, done, ret>>

\* It got none: the sender itself has to send the error.
SessionRefused(h) ==
    /\ Alive
    /\ SessionsFail
    /\ h \in sasking
    /\ stodo' = stodo \ {h} /\ sasking' = {} /\ sblocked' = {h}
    /\ outcome' = [outcome EXCEPT ![h] = "err"]
    /\ UNCHANGED <<mainVars, wpc, gpc, done, ret>>

SenderSends(h) ==
    /\ Alive
    /\ h \in sblocked
    /\ Send(h)
    /\ sblocked' = {}
    /\ UNCHANGED <<mainVars, stodo, sasking, wpc, gpc, outcome, done>>

\* Variant: the error of session.Output is dropped.
CommandEndsAlwaysOk(h) ==
    /\ Alive
    /\ wpc[h] = "exec"
    /\ wpc' = [wpc EXCEPT ![h] = "result"]
    /\ outcome' = [outcome EXCEPT ![h] = "ok"]
    /\ \/ done' = done \cup {h}
       \/ UNCHANGED done
    /\ UNCHANGED <<mainVars, stodo, sasking, sblocked, gpc, ret>>

\* session.Output: the command ran and exited with zero, or it failed.
CommandEnds(h) ==
    /\ Alive
    /\ wpc[h] = "exec"
    /\ wpc' = [wpc EXCEPT ![h] = "result"]
    /\ \/ outcome' = [outcome EXCEPT ![h] = "ok"] /\ done' = done \cup {h}
       \/ outcome' = [outcome EXCEPT ![h] = "err"] /\ UNCHANGED done
    /\ UNCHANGED <<mainVars, stodo, sasking, sblocked, gpc, ret>>

WorkerSends(h) ==
    /\ Alive
    /\ wpc[h] = "result"
    /\ Send(h)
    /\ wpc' = [wpc EXCEPT ![h] = "sent"]
    /\ UNCHANGED <<mainVars, stodo, sasking, sblocked, gpc, outcome, done>>

-----------------------------------------------------------------------------
(***************************************************************************)
(* SSHSendFile, the worker of mode "file".                                 *)
(***************************************************************************)
Give(h, verdict) ==
    /\ outcome' = [outcome EXCEPT ![h] = verdict]
    /\ wpc' = [wpc EXCEPT ![h] = "result"]

\* os.Open and File.Stat: an error is the result.
OpenFile(h) ==
    /\ Alive
    /\ wpc[h] = "open"
    /\ \/ wpc' = [wpc EXCEPT ![h] = "session"] /\ UNCHANGED outcome
       \/ Give(h, "err")
    /\ UNCHANGED <<mainVars, stodo, sasking, sblocked, gpc, done, ret>>

\* cli.NewSession: on an error SSHSendFile returns nil.
NewSession(h) ==
    /\ Alive
    /\ wpc[h] = "session"
    /\ \/ wpc' = [wpc EXCEPT ![h] = "stat"] /\ UNCHANGED outcome
       \/ SessionsFail /\ Give(h, "ok")
    /\ UNCHANGED <<mainVars, stodo, sasking, sblocked, gpc, done, ret>>

StatFile(h) ==
    /\ Alive
    /\ wpc[h] = "stat"
    /\ \/ /\ wpc' = [wpc EXCEPT ![h] = "spawn"]
          /\ gpc' = [gpc EXCEPT ![h] = "pending"]
          /\ UNCHANGED outcome
       \/ Give(h, "err") /\ UNCHANGED gpc
    /\ UNCHANGED <<mainVars, stodo, sasking, sblocked, done, ret>>

\* session.Run sends the exec request and marks the session as started.
StartScp(h) ==
    /\ Alive
    /\ wpc[h] = "spawn"
    /\ \/ wpc' = [wpc EXCEPT ![h] = "started"] /\ UNCHANGED outcome
       \/ Give(h, "err")
    /\ UNCHANGED <<mainVars, stodo, sasking, sblocked, gpc, done, ret>>

\* session.StdinPipe is an error on a started session; then scp reads an empty
\* input, and the copier ends without a word.
OpenPipe(h) ==
    /\ Alive
    /\ gpc[h] = "pending"
    /\ gpc' = [gpc EXCEPT ![h] = IF wpc[h] = "spawn" THEN "piped" ELSE "over"]
    /\ UNCHANGED <<mainVars, stodo, sasking, sblocked, wpc, outcome, done, ret>>

\* The copier writes the header, the file and the final zero byte.
CopyFile(h) ==
    /\ Alive
    /\ gpc[h] = "piped" /\ wpc[h] = "started"
    /\ gpc' = [gpc EXCEPT ![h] = "over"]
    /\ done' = done \cup {h}
    /\ UNCHANGED <<mainVars, stodo, sasking, sblocked, wpc, outcome, ret>>

\* scp exits with zero at the end of its input, whatever it received; it
\* fails when it cannot write or the connection breaks.
ScpExits(h) ==
    /\ Alive
    /\ wpc[h] = "started"
    /\ \/ gpc[h] # "piped" /\ Give(h, "ok")
       \/ Give(h, "err")
    /\ UNCHANGED <<mainVars, stodo, sasking, sblocked, gpc, done, ret>>

-----------------------------------------------------------------------------
Ended ==
    /\ ~Alive
    /\ UNCHANGED vars

MainStep ==
    \/ ParseFatal \/ ParseHosts \/ StartWork \/ NobodyToServe \/ Collect
    \/ CloseResults \/ Exit

SenderStep == \E h \in Hosts : SenderAsks(h) \/ SenderSends(h)

\* Steps of the local goroutines of a host.
LocalStep(h) == WorkerSends(h) \/ OpenFile(h) \/ StatFile(h) \/ OpenPipe(h)

DialStep(h) == todo # <<>> /\ Head(todo) = h /\ (DialOk \/ DialFails)

\* Steps that wait for the host: the handshake of a dial (its timeout is that of
\* the TCP connection), a session, the start of scp, the writes to its input, and
\* the end of the remote process.
RemoteStep(h) ==
    \/ DialStep(h) \/ SessionOpened(h) \/ SessionRefused(h) \/ NewSession(h)
    \/ StartScp(h) \/ CopyFile(h) \/ CommandEnds(h) \/ ScpExits(h)

Next ==
    \/ MainStep \/ SenderStep \/ Ended
    \/ \E h \in Hosts : LocalStep(h) \/ RemoteStep(h)

Spec == Init /\ [][Next]_vars

\* The goroutines are scheduled fairly.  A host that is not responsive may keep
\* whoever waits for it waiting forever: no request has a timeout.
FairSpec ==
    /\ Spec
    /\ WF_vars(MainStep) /\ WF_vars(SenderStep)
    /\ \A h \in Hosts : WF_vars(LocalStep(h))
    /\ \A h \in Responsive : WF_vars(RemoteStep(h))

-----------------------------------------------------------------------------
(***************************************************************************)
(* Properties.                                                             *)
(***************************************************************************)

\* Whoever may still send a result finds the channel open: main closes it only
\* after the last result, so no send panics.
NoSendAfterClose ==
    closed => /\ stodo = {} /\ sblocked = {}
              /\ \A h \in Hosts : wpc[h] \in {"none", "sent"}

\* When the program ends each client has exactly one result, and a host that is
\* no client has none.
EveryHostReportedOnce ==
    mpc = "exited" => \A h \in Hosts :
        Cardinality({r \in reports : r[1] = h /\ r[2] # "undialled"})
            = IF h \in clients THEN 1 ELSE 0

\* A SUCCESS line means that the command ran on that host to its end.
CommandSuccessIsReal ==
    opts.mode = "cmd" => \A h \in Hosts : <<h, "ok">> \in reports => h \in done

\* "[INFO] ..." (sent successfully) means that the host has stored the file.
FileSuccessIsReal ==
    opts.mode = "file" => \A h \in Hosts : <<h, "ok">> \in reports => h \in done

\* The program ends when every client answers and its process ends, whichever
\* dials and sessions fail: no result is missing and no send blocks for good.
Terminates == (mpc = "collect" /\ clients \subseteq Responsive) ~> ~Alive

\* A responsive host is reported, even while other hosts hang: neither the channel
\* of capacity one nor a command that never ends holds it up.  The one thing that
\* does is the sender's loop, which asks for the sessions one after the other and
\* without a timeout: a host whose turn has not come waits for ever while the
\* sender waits for the session of a host that does not answer.
HealthyReported == \A h \in Responsive :
    (mpc = "collect" /\ h \in clients)
        ~> \/ \E v \in {"ok", "err"} : <<h, v>> \in reports
           \/ h \in stodo /\ sasking \subseteq Hosts \ Responsive /\ sasking # {}
=============================================================================
