------------------------------- MODULE Wstools -------------------------------
(***************************************************************************)
(* The program (src/wstools.go): main hands over to one sub-command.  Here *)
(* are the sequential ones; those with goroutines have a specification of  *)
(* their own.                                                              *)
(***************************************************************************)
EXTENDS Tail, Walks, Compare, Mail, Ftp

Commands == {"tail", "find", "md5sum", "compare", "mail", "ftp"}

Init ==
    \/ cmd = "tail"    /\ TailInit
    \/ cmd = "find"    /\ FindInit
    \/ cmd = "md5sum"  /\ Md5sumInit
    \/ cmd = "compare" /\ CompareInit
    \/ cmd = "mail"    /\ MailInit
    \/ cmd = "ftp"     /\ FtpInit

\* A step of the sub-command, or of the network that brings it what its peer sent.
Step ==
    \/ cmd = "tail"    /\ TailNext
    \/ cmd = "find"    /\ FindNext
    \/ cmd = "md5sum"  /\ Md5sumNext
    \/ cmd = "compare" /\ CompareNext
    \/ cmd = "mail"    /\ MailNext
    \/ cmd = "ftp"     /\ FtpNext
    \/ Arrive

\* The sub-command waits for a peer that says nothing more: there is no deadline.
PeerSilent == (cmd = "mail" /\ pc = "silent") \/ FtpWaits

Terminated == (Ended \/ PeerSilent) /\ UNCHANGED vars

Next == Step \/ FileVanishes \/ Terminated

Spec == Init /\ [][Next]_vars

\* The process is scheduled, and what a peer has sent arrives.  A peer need not
\* answer.
FairSpec == Spec /\ WF_vars(Step)

-----------------------------------------------------------------------------
Labels == [tail    |-> {"open", "tail"},
           find    |-> {"parse", "walk"},
           md5sum  |-> {"parse", "walk"},
           compare |-> {"start", "walk", "copy"},
           mail    |-> {"mail", "write", "send", "silent"},
           ftp     |-> {"ftp", "login", "pasv", "passive", "request", "answer", "copy"}]

Printed == [tail    |-> Seq(Nat),
            find    |-> Seq(STRING),
            md5sum  |-> Seq(STRING),
            compare |-> Seq(BOOLEAN \X Seq(STRING)),
            mail    |-> Seq({"size"}),
            ftp     |-> Seq({"230", "530"})]

\* The command is at one of its steps or has ended; whatever it wrote is a file
\* of bytes or a directory.
TypeOK ==
    /\ cmd \in Commands
    /\ pc \in Labels[cmd] \cup Ends
    /\ \A p \in DOMAIN disk : IsEntry(disk[p])
    /\ out \in Printed[cmd]

\* Every sub-command ends, unless its peer falls silent: it gets through every
\* walk, and through every dialogue in which the server answers or closes the
\* connection, however the answers are cut.  (RefusedLoginEnds is about a server
\* that refuses the login and then waits.)
EveryCommandEnds == <>(Ended \/ PeerSilent)
=============================================================================
