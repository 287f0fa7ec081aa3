--------------------------------- MODULE Ftp ---------------------------------
(***************************************************************************)
(* `wstools ftp`: ftpRun (src/command/ftp.go) with NewFTP, PutFile,        *)
(* GetFile and connection (src/common/cli/ftp.go), and a server.           *)
(*                                                                         *)
(* A reply of the server is its code; "EOF" is the end of the control      *)
(* connection, and "noport" a 227 without the numbers of a port.  Replies  *)
(* travel in order, each one in a piece or in two, and a read gets what    *)
(* has arrived.                                                            *)
(***************************************************************************)
EXTENDS Process

CONSTANTS
    FtpContents,   \* contents of the local and the remote file
    FtpOptions     \* records [given, Download]

ASSUME FtpAssumption == FtpContents \subseteq Seq(Nat)

\* The file of each side: a set with its content, empty if there is none.
Sides == {{}} \cup {{s} : s \in FtpContents}
Local == IF Exists("l") THEN {disk["l"].data} ELSE {}

FtpInit ==
    /\ opt \in FtpOptions
    /\ disk \in {Only("l", s) : s \in FtpContents} \cup {<<>>}
    /\ \E remote \in Sides :
         loc = [wire |-> <<>>, inbox |-> <<>>, buffer |-> <<>>, data |-> "none",
                remote |-> remote, before |-> <<Local, remote>>, opened |-> FALSE]
    /\ pc = "ftp" /\ out = <<>>

-----------------------------------------------------------------------------
(***************************************************************************)
(* The server.                                                             *)
(***************************************************************************)
Codes == {"220", "331", "230", "530", "EOF", "227", "noport", "500", "550", "125", "150"}
Pieces == [code : Codes, part : {"all", "head", "rest"}]
Reply(c) == [code |-> c, part |-> "all"]
Replies(codes) == [i \in DOMAIN codes |-> Reply(codes[i])]

\* To USER and PASS: a greeting and a login of one line or two, a refusal after
\* which the server closes the connection or keeps it, or silence.
LoginReplies == {<<"220", "331", "230">>, <<"220", "331", "230", "230">>,
                 <<"220", "331", "530", "EOF">>, <<"220", "331", "530">>,
                 <<"220">>, <<>>, <<"EOF">>}
PasvReplies == {<<"227">>, <<"noport">>, <<"500">>, <<>>, <<"EOF">>}

\* To STOR, which creates or truncates the remote file, and to RETR: the server
\* refuses or opens the file, and says so or not.  It may announce the transfer
\* with a 125, which the client does not know.
Transfers ==
    [replies : {<<"550">>, <<"EOF">>, <<>>}, remote : {loc.remote}, opened : {FALSE}] \cup
    IF opt.Download /\ loc.remote = {} THEN {}
    ELSE [replies : {<<"150">>, <<"125">>, <<>>}, opened : {TRUE},
          remote : {IF opt.Download THEN loc.remote ELSE {<<>>}}]

\* The next reply arrives, or its first bytes do.
Arrive ==
    /\ cmd = "ftp" /\ loc.wire # <<>>
    /\ LET next == Head(loc.wire) IN
       \/ loc' = [loc EXCEPT !.wire = Tail(@), !.inbox = Append(@, next)]
       \/ /\ next.part = "all" /\ next.code # "EOF"
          /\ loc' = [loc EXCEPT !.wire = <<[next EXCEPT !.part = "rest"]>> \o Tail(@),
                                !.inbox = Append(@, [next EXCEPT !.part = "head"])]
    /\ UNCHANGED <<cmd, opt, pc, disk, out>>

-----------------------------------------------------------------------------
\* Dial, and USER and PASS in one go.
FtpDial ==
    /\ pc = "ftp"
    /\ \/ FatalOutput /\ UNCHANGED loc
       \/ /\ opt.given
          /\ \E r \in LoginReplies : loc' = [loc EXCEPT !.wire = Replies(r)]
          /\ pc' = "login"
    /\ UNCHANGED <<cmd, opt, disk, out>>

\* The buffered reader of NewFTP holds a line, or the end of the connection.
HasLine == loc.buffer # <<>> /\ (Head(loc.buffer).part = "all" \/ Len(loc.buffer) > 1)
LineCode == Head(loc.buffer).code
NextLines == IF Head(loc.buffer).part = "all" THEN Tail(loc.buffer) ELSE Tail(Tail(loc.buffer))

\* It takes whatever has arrived.
FillBuffer ==
    /\ pc = "login" /\ ~HasLine /\ loc.inbox # <<>>
    /\ loc' = [loc EXCEPT !.buffer = @ \o loc.inbox, !.inbox = <<>>]
    /\ UNCHANGED <<cmd, opt, pc, disk, out>>

\* Variant: the end of the connection is no error.
LoginLineDeaf ==
    /\ pc = "login" /\ HasLine
    /\ \/ LineCode = "EOF" /\ UNCHANGED <<pc, loc, out>>
       \/ /\ LineCode = "230" /\ pc' = "pasv"
          /\ loc' = [loc EXCEPT !.buffer = <<>>] /\ out' = Append(out, "230")
       \/ /\ LineCode \in {"220", "331", "530"} /\ UNCHANGED <<pc, out>>
          /\ loc' = [loc EXCEPT !.buffer = NextLines]
    /\ UNCHANGED <<cmd, opt, disk>>

\* The loop of NewFTP: only 230 and the end of the connection end it, and what
\* follows 230 in the buffer is lost.  530 is printed.
LoginLine ==
    /\ pc = "login" /\ HasLine
    /\ \/ LineCode = "EOF" /\ FatalOutput /\ UNCHANGED <<loc, out>>
       \/ /\ LineCode = "230" /\ pc' = "pasv"
          /\ loc' = [loc EXCEPT !.buffer = <<>>] /\ out' = Append(out, "230")
       \/ /\ LineCode = "530" /\ UNCHANGED pc
          /\ loc' = [loc EXCEPT !.buffer = NextLines] /\ out' = Append(out, "530")
       \/ /\ LineCode \in {"220", "331"} /\ UNCHANGED <<pc, out>>
          /\ loc' = [loc EXCEPT !.buffer = NextLines]
    /\ UNCHANGED <<cmd, opt, disk>>

\* connection: PASV is sent.
SendPasv ==
    /\ pc = "pasv"
    /\ \E r \in PasvReplies : loc' = [loc EXCEPT !.wire = @ \o Replies(r)]
    /\ pc' = "passive"
    /\ UNCHANGED <<cmd, opt, disk, out>>

\* What a read of all that has arrived brings: the whole of a reply, or only its
\* first bytes.
Brings(c) == \E i \in DOMAIN loc.inbox :
    /\ loc.inbox[i].code = c
    /\ \/ loc.inbox[i].part = "all"
       \/ loc.inbox[i].part = "head" /\ i < Len(loc.inbox)
BringsHead(c) == loc.inbox[Len(loc.inbox)] = [code |-> c, part |-> "head"]

\* One read has to bring 227; a second line of the login before it does not
\* disturb getport, which looks at the last two numbers.  Then the data
\* connection is dialled.  Slicing a 227 that is cut off or has no port, or
\* indexing its numbers, is a run time error, unless what is left of it passes
\* for a port.
ReadPasv ==
    /\ pc = "passive" /\ loc.inbox # <<>>
    /\ \/ FatalOutput /\ UNCHANGED loc
       \/ (BringsHead("227") \/ BringsHead("noport") \/ Brings("noport")) /\ Panic /\ UNCHANGED loc
       \/ /\ Brings("227") \/ BringsHead("227")
          /\ loc' = [loc EXCEPT !.inbox = <<>>, !.data = "open"]
          /\ pc' = "request"
    /\ UNCHANGED <<cmd, opt, disk, out>>

SendRequest ==
    /\ pc = "request"
    /\ \E t \in Transfers :
         loc' = [loc EXCEPT !.wire = @ \o Replies(t.replies), !.remote = t.remote,
                            !.opened = t.opened]
    /\ pc' = "answer"
    /\ UNCHANGED <<cmd, opt, disk, out>>

\* One read has to bring 150, or enough of it.  An answer of a single byte, which
\* can only be a piece, is too short for the message of the error.  The deferred
\* Close of connection closes the data connection on every return.
ReadAnswer ==
    /\ pc = "answer" /\ loc.inbox # <<>>
    /\ loc' = [loc EXCEPT !.inbox = <<>>, !.data = "closed"]
    /\ \/ (Brings("150") \/ BringsHead("150")) /\ pc' = "copy"
       \/ ~Brings("150") /\ FatalOutput
       \/ Len(loc.inbox) = 1 /\ loc.inbox[1].part # "all" /\ Panic
    /\ UNCHANGED <<cmd, opt, disk, out>>

\* Variant: the error of io.Copy is dropped.
CopyDataForgets ==
    /\ pc = "copy" /\ loc.data = "closed"
    /\ IF opt.Download THEN disk' = With(disk, "l", File(<<>>)) ELSE UNCHANGED disk
    /\ Return
    /\ UNCHANGED <<cmd, opt, loc, out>>

\* PutFile and GetFile: GetFile creates the local file, unless that fails.  On
\* the closed connection io.Copy fails, or the read after it.
CopyData ==
    /\ pc = "copy" /\ loc.data = "closed"
    /\ \/ opt.Download /\ disk' = With(disk, "l", File(<<>>))
       \/ UNCHANGED disk
    /\ FatalOutput
    /\ UNCHANGED <<cmd, opt, loc, out>>

FtpNext == FtpDial \/ FillBuffer \/ LoginLine \/ SendPasv \/ ReadPasv
           \/ SendRequest \/ ReadAnswer \/ CopyData

-----------------------------------------------------------------------------
\* The client waits for a server that has nothing more to say: NewFTP and
\* connection set no deadline.
FtpWaits ==
    /\ cmd = "ftp" /\ loc.wire = <<>> /\ loc.inbox = <<>>
    /\ pc \in {"passive", "answer"} \/ (pc = "login" /\ ~HasLine)

\* Whatever the server answers and however its replies are cut into reads: ftp
\* exits with 0 only if both sides hold the same file, the file that is read is
\* left alone, and a transfer that the server refused changes neither side.
\* (With the data connection closed too early ftp never does exit with 0:
\* FtpUploads is about that.)
FtpFailsLoudly ==
    cmd = "ftp" =>
        /\ pc = "returned" => Local # {} /\ Local = loc.remote
        /\ IF opt.Download THEN loc.remote = loc.before[2] ELSE Local = loc.before[1]
        /\ ~loc.opened => <<Local, loc.remote>> = loc.before

\* An upload of a file that the server agrees to receive leads to the same file
\* on both sides.
FtpUploads ==
    (cmd = "ftp" /\ pc = "copy" /\ ~opt.Download /\ Exists("l")) ~> (Local = loc.remote)

\* A login that the server has refused comes to an end.
RefusedLoginEnds ==
    (cmd = "ftp" /\ \E i \in DOMAIN out : out[i] = "530") ~> Ended
=============================================================================
