--------------------------- MODULE WstoolsProofs ---------------------------
(***************************************************************************)
(* The sequential sub-commands, for any files, trees, options and sizes of *)
(* buffers: the dialogues of `wstools mail` and `wstools ftp` with their   *)
(* servers, the walks of find and md5sum, the backward reader of tail, the *)
(* attachments of mail, and the comparison and the copies of compare.      *)
(*                                                                         *)
(* tail, mail and compare compute with recursive functions.  That such a   *)
(* function exists, and what it returns, is proved by looking at the least *)
(* argument for which it would be otherwise (LeastNat).                    *)
(***************************************************************************)
EXTENDS Wstools, FiniteSetTheorems, FunctionTheorems, TLAPS

-----------------------------------------------------------------------------
(***************************************************************************)
(* The inductive invariants.                                               *)
(***************************************************************************)
\* MailSend has had the agreement of the server to the recipients before its
\* step, and the message is taken at the last step but one.
MailInv ==
    cmd = "mail" =>
        /\ opt \in MailOptions
        /\ DOMAIN loc = {"stage", "rcpt", "msg", "accepted", "orig"}
        /\ loc.stage \in 1..(Len(opt.To) + 9)
        /\ loc.rcpt = {opt.To[i] : i \in {j \in DOMAIN opt.To : j + 5 < loc.stage}}
        /\ loc.accepted # {} => loc.stage >= Len(opt.To) + 8
        /\ loc.stage = Len(opt.To) + 9 => loc.accepted # {}
        /\ pc = "returned" => loc.accepted # {} \/ out # <<>>
        /\ pc \notin {"write", "send", "silent"} => ~Exists("tmp")

No150(s) == \A i \in DOMAIN s : s[i].code # "150"

\* Until the request nothing has changed; 150 is on its way or was read only if
\* the server opened the file.  ftp never returns.
FtpInv ==
    cmd = "ftp" =>
        /\ DOMAIN loc = {"wire", "inbox", "buffer", "data", "remote", "before", "opened"}
        /\ loc.wire \in Seq(Pieces) /\ loc.inbox \in Seq(Pieces) /\ loc.buffer \in Seq(Pieces)
        /\ loc.opened \in BOOLEAN
        /\ pc # "returned"
        /\ ~loc.opened => No150(loc.wire) /\ No150(loc.inbox) /\ No150(loc.buffer)
        /\ pc = "copy" => loc.opened
        /\ loc.opened => pc \in {"answer", "copy", "fatal", "panic"}
        /\ ~loc.opened => <<Local, loc.remote>> = loc.before
        /\ IF opt.Download THEN loc.remote = loc.before[2] ELSE Local = loc.before[1]

-----------------------------------------------------------------------------
(***************************************************************************)
(* The program keeps its sub-command, and only the actions of that one and *)
(* of its peers happen.                                                    *)
(***************************************************************************)
LEMMA CommandKept == [Next]_vars => cmd' = cmd
<1>1. TailNext => cmd' = cmd
  BY DEF TailNext, OpenTail, RunTail
<1>2. FindNext => cmd' = cmd
  BY DEF FindNext, FindParse, FindVisit, FindEnds
<1>3. Md5sumNext => cmd' = cmd
  BY DEF Md5sumNext, Md5sumParse, Md5sumVisit, Md5sumEnds
<1>4. CompareNext => cmd' = cmd
  BY DEF CompareNext, StartCompare, CompareVisit, CopyEntry, CompareEnds
<1>5. MailNext \/ FileVanishes => cmd' = cmd
  BY DEF MailNext, MailRun, WriteMessage, MailSend, FileVanishes
<1>6. FtpNext \/ Arrive => cmd' = cmd
  BY DEF FtpNext, FtpDial, FillBuffer, LoginLine, SendPasv, ReadPasv, SendRequest, ReadAnswer,
         CopyData, Arrive
<1> QED BY <1>1, <1>2, <1>3, <1>4, <1>5, <1>6 DEF Next, Step, Terminated, vars

LEMMA MailSteps ==
    [Next]_vars /\ cmd = "mail" =>
        MailRun \/ WriteMessage \/ MailSend \/ FileVanishes \/ UNCHANGED vars
  BY DEF Next, Step, MailNext, Arrive, Terminated

LEMMA FtpSteps ==
    [Next]_vars /\ cmd = "ftp" =>
        \/ FtpDial \/ FillBuffer \/ LoginLine \/ SendPasv \/ ReadPasv \/ SendRequest
        \/ ReadAnswer \/ CopyData \/ Arrive \/ UNCHANGED vars
  BY DEF Next, Step, FtpNext, FileVanishes, Terminated

-----------------------------------------------------------------------------
(***************************************************************************)
(* mail.                                                                   *)
(***************************************************************************)
LEMMA StageFacts ==
    ASSUME Len(opt.To) \in Nat, loc.stage \in 1..(Len(opt.To) + 9)
    PROVE  /\ Stage = "rcpt" <=> loc.stage \in 6..(Len(opt.To) + 5)
           /\ Stage = "close" <=> loc.stage = Len(opt.To) + 8
           /\ Stage = "quit" <=> loc.stage = Len(opt.To) + 9
<1> DEFINE n == Len(opt.To)
           i == loc.stage
<1>1. CASE i <= 5
  <2>1. i \in {1, 2, 3, 4, 5}
    BY <1>1
  <2>2. Stage = Opening[i]
    BY <1>1 DEF Stage
  <2>3. Stage \notin {"rcpt", "close", "quit"}
    BY <2>1, <2>2 DEF Opening
  <2> QED BY <2>3, <1>1
<1>2. CASE i > 5 /\ i <= 5 + n
  BY <1>2 DEF Stage
<1>3. CASE i > 5 + n
  <2>1. i - 5 - n \in {1, 2, 3, 4}
    BY <1>3
  <2>2. Stage = Closing[i - 5 - n]
    BY <1>3 DEF Stage
  <2>3. /\ Stage # "rcpt" /\ (Stage = "close" <=> i - 5 - n = 3)
        /\ (Stage = "quit" <=> i - 5 - n = 4)
    BY <2>1, <2>2 DEF Closing
  <2>4. /\ i \in Int /\ n \in Nat /\ i \notin 6..(n + 5)
        /\ (i - 5 - n = 3 <=> i = n + 8) /\ (i - 5 - n = 4 <=> i = n + 9)
    BY <1>3
  <2> QED BY <2>3, <2>4
<1> QED BY <1>1, <1>2, <1>3

LEMMA MailInitInv == Init => MailInv
<1> SUFFICES ASSUME Init, cmd = "mail" PROVE MailInv
  BY DEF MailInv
<1>1. MailInit
  BY DEF Init
<1>2. /\ opt \in MailOptions /\ pc = "mail" /\ loc.stage = 1 /\ loc.rcpt = {}
      /\ loc.accepted = {} /\ ~Exists("tmp")
      /\ DOMAIN loc = {"stage", "rcpt", "msg", "accepted", "orig"}
  BY <1>1, MailAssumption DEF MailInit, Exists
<1>3. Len(opt.To) \in Nat /\ DOMAIN opt.To = 1..Len(opt.To)
  BY <1>2, MailAssumption
<1> QED BY <1>2, <1>3 DEF MailInv

LEMMA MailNextInv == MailInv /\ [Next]_vars => MailInv'
<1> SUFFICES ASSUME MailInv, [Next]_vars, cmd = "mail" PROVE MailInv'
  BY CommandKept DEF MailInv
<1>0. /\ opt \in MailOptions
      /\ DOMAIN loc = {"stage", "rcpt", "msg", "accepted", "orig"}
      /\ loc.stage \in 1..(Len(opt.To) + 9)
      /\ loc.rcpt = {opt.To[i] : i \in {j \in DOMAIN opt.To : j + 5 < loc.stage}}
      /\ loc.accepted # {} => loc.stage >= Len(opt.To) + 8
      /\ loc.stage = Len(opt.To) + 9 => loc.accepted # {}
      /\ pc = "returned" => loc.accepted # {} \/ out # <<>>
      /\ pc \notin {"write", "send", "silent"} => ~Exists("tmp")
  BY DEF MailInv
<1>n. Len(opt.To) \in Nat /\ DOMAIN opt.To = 1..Len(opt.To)
  BY <1>0, MailAssumption
<1>t. "tmp" \notin DOMAIN Without(disk, "tmp")
  BY DEF Without
<1>1. CASE MailRun
  <2>1. UNCHANGED <<opt, loc>>
    BY <1>1 DEF MailRun
  <2>2. \/ pc' = "write"
        \/ pc' = "fatal" /\ UNCHANGED disk
        \/ pc' = "returned" /\ UNCHANGED disk /\ out' = <<"size">>
    BY <1>1 DEF MailRun, Return, FatalOutput
  <2>3. pc = "mail" /\ ~Exists("tmp")
    BY <1>1, <1>0 DEF MailRun
  <2>4. pc' = "returned" => out' # <<>>
    BY <2>2
  <2>5. pc' \notin {"write", "send", "silent"} => ~Exists("tmp")'
    BY <2>2, <2>3 DEF Exists
  <2> QED BY <2>1, <2>4, <2>5, <1>0 DEF MailInv
<1>2. CASE WriteMessage
  <2>1. UNCHANGED opt
    BY <1>2 DEF WriteMessage
  <2>2. CASE MailFails /\ UNCHANGED loc
    <3>1. pc' = "fatal" /\ disk' = Without(disk, "tmp")
      BY <2>2 DEF MailFails, FatalOutput
    <3> QED BY <2>1, <2>2, <3>1, <1>t, <1>0 DEF MailInv, Exists
  <2>3. ASSUME NEW m, loc' = [loc EXCEPT !.msg = m], pc' = "send" PROVE MailInv'
    <3>1. /\ loc'.stage = loc.stage /\ loc'.rcpt = loc.rcpt /\ loc'.accepted = loc.accepted
          /\ DOMAIN loc' = DOMAIN loc
      BY <2>3, <1>0
    <3> QED BY <2>1, <2>3, <3>1, <1>0 DEF MailInv
  <2> QED BY <1>2, <2>2, <2>3 DEF WriteMessage
<1>3. CASE MailSend
  <2>0. UNCHANGED opt /\ pc = "send"
    BY <1>3 DEF MailSend
  <2>s. /\ Stage = "rcpt" <=> loc.stage \in 6..(Len(opt.To) + 5)
        /\ Stage = "close" <=> loc.stage = Len(opt.To) + 8
        /\ Stage = "quit" <=> loc.stage = Len(opt.To) + 9
    BY <1>0, <1>n, StageFacts
  <2>1. CASE MailFails /\ UNCHANGED loc
    <3>1. pc' = "fatal" /\ disk' = Without(disk, "tmp")
      BY <2>1 DEF MailFails, FatalOutput
    <3> QED BY <2>0, <2>1, <3>1, <1>t, <1>0 DEF MailInv, Exists
  <2>5. CASE pc' = "silent" /\ UNCHANGED <<disk, loc>>
    BY <2>0, <2>5, <1>0 DEF MailInv
  <2>2. CASE /\ (MailFails \/ (pc' = "silent" /\ UNCHANGED disk))
             /\ Stage = "close" /\ loc' = [loc EXCEPT !.accepted = {Body}]
    <3>1. (pc' = "fatal" /\ disk' = Without(disk, "tmp")) \/ pc' = "silent"
      BY <2>2 DEF MailFails, FatalOutput
    <3>2. /\ loc'.stage = loc.stage /\ loc'.rcpt = loc.rcpt /\ loc'.accepted # {}
          /\ DOMAIN loc' = DOMAIN loc
      BY <2>2, <1>0
    <3>3. loc.stage = Len(opt.To) + 8
      BY <2>2, <2>s
    <3> QED BY <2>0, <3>1, <3>2, <3>3, <1>t, <1>0, <1>n DEF MailInv, Exists
  <2>3. CASE Stage # "quit" /\ StageSucceeds /\ UNCHANGED <<pc, disk>>
    <3>1. /\ loc'.stage = loc.stage + 1
          /\ loc'.rcpt = (IF Stage = "rcpt" THEN loc.rcpt \cup {opt.To[loc.stage - 5]}
                          ELSE loc.rcpt)
          /\ loc'.accepted = (IF Stage = "close" THEN {Body} ELSE loc.accepted)
          /\ DOMAIN loc' = DOMAIN loc
      BY <2>3, <1>0 DEF StageSucceeds
    <3>2. loc'.stage \in 1..(Len(opt.To) + 9)
      BY <2>3, <2>s, <3>1, <1>0, <1>n
    <3>3. loc'.rcpt = {opt.To[i] : i \in {j \in DOMAIN opt.To : j + 5 < loc'.stage}}
      <4>1. CASE Stage = "rcpt"
        <5>1. loc.stage - 5 \in DOMAIN opt.To
          BY <4>1, <2>s, <1>0, <1>n
        <5>2. {j \in DOMAIN opt.To : j + 5 < loc.stage + 1} =
              {j \in DOMAIN opt.To : j + 5 < loc.stage} \cup {loc.stage - 5}
          BY <5>1, <1>0, <1>n
        <5> QED BY <4>1, <3>1, <5>2, <1>0
      <4>2. CASE Stage # "rcpt"
        <5>1. loc.stage \notin 6..(Len(opt.To) + 5)
          BY <4>2, <2>s
        <5>2. {j \in DOMAIN opt.To : j + 5 < loc.stage + 1} =
              {j \in DOMAIN opt.To : j + 5 < loc.stage}
          BY <5>1, <1>0, <1>n
        <5> QED BY <4>2, <3>1, <5>2, <1>0
      <4> QED BY <4>1, <4>2
    <3>4. loc'.accepted # {} => loc'.stage >= Len(opt.To) + 8
      BY <2>s, <3>1, <1>0, <1>n
    <3>5. loc'.stage = Len(opt.To) + 9 => loc'.accepted # {}
      <4>1. loc'.stage = Len(opt.To) + 9 => Stage = "close"
        BY <2>s, <3>1, <1>0, <1>n
      <4> QED BY <4>1, <3>1
    <3> QED BY <2>0, <2>3, <3>1, <3>2, <3>3, <3>4, <3>5, <1>0 DEF MailInv
  <2>4. CASE Stage = "quit" /\ MailReturns /\ UNCHANGED loc
    <3>1. pc' = "returned" /\ disk' = Without(disk, "tmp")
      BY <2>4 DEF MailReturns, Return
    <3>2. loc.accepted # {}
      BY <2>4, <2>s, <1>0
    <3> QED BY <2>0, <2>4, <3>1, <3>2, <1>t, <1>0 DEF MailInv, Exists
  <2> QED BY <1>3, <2>1, <2>2, <2>3, <2>4, <2>5 DEF MailSend, NoAnswer
<1>4. CASE FileVanishes
  BY <1>4, <1>0 DEF FileVanishes, MailInv
<1>5. CASE UNCHANGED vars
  BY <1>5, <1>0 DEF vars, MailInv, Exists
<1> QED BY <1>1, <1>2, <1>3, <1>4, <1>5, MailSteps

\* Whichever step of the dialogue fails, for any addresses and any files: the
\* server takes the mail for all recipients or for none, mail exits with 0 only
\* if it was taken or its size was not to be had, and the temporary file is gone.
THEOREM MailAllOrNothingHolds == Spec => []MailAllOrNothing
<1>1. MailInv => MailAllOrNothing
  <2> SUFFICES ASSUME MailInv, cmd = "mail"
               PROVE  /\ loc.accepted # {} => loc.rcpt = Addresses
                      /\ pc = "returned" => loc.accepted # {} \/ out # <<>>
                      /\ Ended => ~Exists("tmp")
    BY DEF MailAllOrNothing
  <2>1. Len(opt.To) \in Nat /\ DOMAIN opt.To = 1..Len(opt.To)
    BY MailAssumption DEF MailInv
  <2>2. loc.accepted # {} => {j \in DOMAIN opt.To : j + 5 < loc.stage} = DOMAIN opt.To
    BY <2>1 DEF MailInv
  <2>3. loc.accepted # {} => loc.rcpt = Addresses
    BY <2>2 DEF MailInv, Addresses
  <2> QED BY <2>3 DEF MailInv, Ended, Ends
<1> QED BY MailInitInv, MailNextInv, <1>1, PTL DEF Spec

-----------------------------------------------------------------------------
(***************************************************************************)
(* ftp.                                                                    *)
(***************************************************************************)
LEMMA ConcatPieces ==
    ASSUME NEW s \in Seq(Pieces), NEW t \in Seq(Pieces)
    PROVE  s \o t \in Seq(Pieces) /\ (No150(s) /\ No150(t) => No150(s \o t))
<1>1. s \o t \in Seq(Pieces) /\ DOMAIN (s \o t) = 1..(Len(s) + Len(t))
      /\ DOMAIN s = 1..Len(s) /\ DOMAIN t = 1..Len(t) /\ Len(s) \in Nat /\ Len(t) \in Nat
  OBVIOUS
<1>2. \A i \in 1..(Len(s) + Len(t)) :
         (s \o t)[i] = IF i <= Len(s) THEN s[i] ELSE t[i - Len(s)]
  OBVIOUS
<1> QED BY <1>1, <1>2 DEF No150

LEMMA AppendPiece ==
    ASSUME NEW s \in Seq(Pieces), NEW x \in Pieces
    PROVE  /\ Append(s, x) \in Seq(Pieces)
           /\ No150(s) /\ x.code # "150" => No150(Append(s, x))
<1>1. Append(s, x) \in Seq(Pieces) /\ DOMAIN Append(s, x) = 1..(Len(s) + 1)
      /\ DOMAIN s = 1..Len(s) /\ Len(s) \in Nat
  OBVIOUS
<1>2. Append(s, x)[Len(s) + 1] = x /\ \A i \in 1..Len(s) : Append(s, x)[i] = s[i]
  OBVIOUS
<1> QED BY <1>1, <1>2 DEF No150

LEMMA TailPieces ==
    ASSUME NEW s \in Seq(Pieces), s # <<>>
    PROVE  /\ Tail(s) \in Seq(Pieces) /\ Len(Tail(s)) = Len(s) - 1 /\ Head(s) \in Pieces
           /\ No150(s) => No150(Tail(s)) /\ Head(s).code # "150"
<1>1. /\ Tail(s) \in Seq(Pieces) /\ DOMAIN Tail(s) = 1..(Len(s) - 1) /\ Head(s) = s[1]
      /\ DOMAIN s = 1..Len(s) /\ Len(s) \in Nat /\ Len(s) > 0 /\ Head(s) \in Pieces
      /\ Len(Tail(s)) = Len(s) - 1
  OBVIOUS
<1>2. \A i \in 1..(Len(s) - 1) : Tail(s)[i] = s[i + 1]
  OBVIOUS
<1> QED BY <1>1, <1>2 DEF No150

LEMMA LongTail ==
    ASSUME NEW s \in Seq(Pieces), Len(s) > 1
    PROVE  Tail(s) # <<>>
<1>1. Len(s) \in Nat /\ Len(s) - 1 # 0
  OBVIOUS
<1>2. Len(Tail(s)) = Len(s) - 1
  <2>1. s # <<>>
    OBVIOUS
  <2> QED BY <2>1, TailPieces
<1>3. Len(<<>>) = 0
  OBVIOUS
<1> QED BY <1>1, <1>2, <1>3, Zenon

LEMMA NoPieces == <<>> \in Seq(Pieces) /\ No150(<<>>)
  BY DEF No150

\* What the server sends are pieces, and 150 is in none of them unless it is
\* among its replies.
LEMMA ReplyPieces ==
    ASSUME NEW r \in Seq(Codes)
    PROVE  /\ Replies(r) \in Seq(Pieces)
           /\ (\A i \in DOMAIN r : r[i] # "150") => No150(Replies(r))
<1>1. DOMAIN r = 1..Len(r) /\ Len(r) \in Nat /\ \A i \in 1..Len(r) : r[i] \in Codes
  OBVIOUS
<1>2. \A i \in 1..Len(r) : Reply(r[i]) \in Pieces /\ Reply(r[i]).code = r[i]
  BY <1>1 DEF Reply, Pieces
<1>3. Replies(r) = [i \in 1..Len(r) |-> Reply(r[i])]
  BY <1>1 DEF Replies
<1>4. Replies(r) \in Seq(Pieces) /\ DOMAIN Replies(r) = DOMAIN r
  BY <1>1, <1>2, <1>3
<1> QED BY <1>1, <1>2, <1>3, <1>4 DEF No150

LEMMA ShortReplies ==
    ASSUME NEW a \in Codes, NEW b \in Codes, NEW c \in Codes, NEW d \in Codes
    PROVE  /\ <<>> \in Seq(Codes) /\ <<a>> \in Seq(Codes)
           /\ <<a, b, c>> \in Seq(Codes) /\ <<a, b, c, d>> \in Seq(Codes)
OBVIOUS

LEMMA LoginPieces == \A r \in LoginReplies : Replies(r) \in Seq(Pieces) /\ No150(Replies(r))
<1>1. {"220", "331", "230", "530", "EOF"} \subseteq Codes
  BY DEF Codes
<1>2. \A r \in LoginReplies : r \in Seq(Codes)
  <2>1. /\ <<"220", "331", "230">> \in Seq(Codes) /\ <<"220", "331", "230", "230">> \in Seq(Codes)
        /\ <<"220", "331", "530", "EOF">> \in Seq(Codes) /\ <<"220", "331", "530">> \in Seq(Codes)
        /\ <<"220">> \in Seq(Codes) /\ <<>> \in Seq(Codes) /\ <<"EOF">> \in Seq(Codes)
    BY <1>1, ShortReplies
  <2> QED BY <2>1, Zenon DEF LoginReplies
<1>3. \A r \in LoginReplies : \A i \in DOMAIN r : r[i] # "150"
  BY DEF LoginReplies
<1> QED BY <1>2, <1>3, ReplyPieces

LEMMA PasvPieces == \A r \in PasvReplies : Replies(r) \in Seq(Pieces) /\ No150(Replies(r))
<1>1. {"227", "noport", "500", "EOF"} \subseteq Codes
  BY DEF Codes
<1>2. \A r \in PasvReplies : r \in Seq(Codes)
  <2>1. /\ <<"227">> \in Seq(Codes) /\ <<"noport">> \in Seq(Codes) /\ <<"500">> \in Seq(Codes)
        /\ <<>> \in Seq(Codes) /\ <<"EOF">> \in Seq(Codes)
    BY <1>1, ShortReplies
  <2> QED BY <2>1, Zenon DEF PasvReplies
<1>3. \A r \in PasvReplies : \A i \in DOMAIN r : r[i] # "150"
  BY DEF PasvReplies
<1> QED BY <1>2, <1>3, ReplyPieces

\* A transfer that the server does not open has no 150 and leaves the remote
\* file alone, as every download does.
LEMMA TransferPieces ==
    ASSUME NEW t \in Transfers
    PROVE  /\ Replies(t.replies) \in Seq(Pieces) /\ t.opened \in BOOLEAN
           /\ opt.Download => t.remote = loc.remote
           /\ ~t.opened => t.remote = loc.remote /\ No150(Replies(t.replies))
<1>1. {"550", "EOF", "150", "125"} \subseteq Codes
  BY DEF Codes
<1>2. /\ <<"550">> \in Seq(Codes) /\ <<"EOF">> \in Seq(Codes) /\ <<>> \in Seq(Codes)
      /\ <<"150">> \in Seq(Codes) /\ <<"125">> \in Seq(Codes)
  BY <1>1, ShortReplies
<1>3. CASE t.replies \in {<<"550">>, <<"EOF">>, <<>>} /\ t.remote = loc.remote /\ t.opened = FALSE
  <2>1. t.replies \in Seq(Codes)
    BY <1>2, <1>3, Zenon
  <2>2. \A i \in DOMAIN t.replies : t.replies[i] # "150"
    BY <1>3
  <2> QED BY <1>3, <2>1, <2>2, ReplyPieces
<1>4. CASE /\ t.replies \in {<<"150">>, <<"125">>, <<>>} /\ t.opened = TRUE
           /\ opt.Download => t.remote = loc.remote
  <2>1. t.replies \in Seq(Codes)
    BY <1>2, <1>4, Zenon
  <2> QED BY <1>4, <2>1, ReplyPieces
<1> QED BY <1>3, <1>4 DEF Transfers

LEMMA FtpInitInv == Init => FtpInv
<1> SUFFICES ASSUME Init, cmd = "ftp" PROVE FtpInv
  BY DEF FtpInv
<1>1. FtpInit
  BY DEF Init
<1>2. PICK remote \in Sides :
         loc = [wire |-> <<>>, inbox |-> <<>>, buffer |-> <<>>, data |-> "none",
                remote |-> remote, before |-> <<Local, remote>>, opened |-> FALSE]
  BY <1>1 DEF FtpInit
<1>3. pc = "ftp"
  BY <1>1 DEF FtpInit
<1> QED BY <1>2, <1>3, NoPieces DEF FtpInv

LEMMA FtpNextInv == FtpInv /\ [Next]_vars => FtpInv'
<1> SUFFICES ASSUME FtpInv, [Next]_vars, cmd = "ftp" PROVE FtpInv'
  BY CommandKept DEF FtpInv
<1>0. /\ DOMAIN loc = {"wire", "inbox", "buffer", "data", "remote", "before", "opened"}
      /\ loc.wire \in Seq(Pieces) /\ loc.inbox \in Seq(Pieces) /\ loc.buffer \in Seq(Pieces)
      /\ loc.opened \in BOOLEAN /\ pc # "returned"
  BY DEF FtpInv
<1>i. /\ ~loc.opened => No150(loc.wire) /\ No150(loc.inbox) /\ No150(loc.buffer)
      /\ pc = "copy" => loc.opened
      /\ loc.opened => pc \in {"answer", "copy", "fatal", "panic"}
      /\ ~loc.opened => <<Local, loc.remote>> = loc.before
      /\ IF opt.Download THEN loc.remote = loc.before[2] ELSE Local = loc.before[1]
  BY DEF FtpInv
\* A step that changes neither side nor what is opened.
<1>k. ASSUME /\ UNCHANGED <<opt, disk>> /\ DOMAIN loc' = DOMAIN loc
             /\ loc'.wire \in Seq(Pieces) /\ loc'.inbox \in Seq(Pieces)
             /\ loc'.buffer \in Seq(Pieces)
             /\ loc'.remote = loc.remote /\ loc'.before = loc.before
             /\ loc'.opened = loc.opened
             /\ pc' # "returned" /\ (pc' = "copy" => loc.opened)
             /\ loc.opened => pc' \in {"answer", "copy", "fatal", "panic"}
             /\ ~loc.opened => No150(loc'.wire) /\ No150(loc'.inbox) /\ No150(loc'.buffer)
      PROVE  FtpInv'
  <2>1. Local' = Local
    BY <1>k DEF Local, Exists
  <2> QED BY <1>k, <2>1, <1>0, <1>i DEF FtpInv
<1>1. CASE FtpDial
  <2>1. UNCHANGED <<opt, disk>> /\ pc = "ftp" /\ pc' \in {"fatal", "login"}
    BY <1>1 DEF FtpDial, FatalOutput
  <2>2. CASE UNCHANGED loc
    BY <2>1, <2>2, <1>0, <1>i, <1>k
  <2>3. CASE \E r \in LoginReplies : loc' = [loc EXCEPT !.wire = Replies(r)]
    <3>1. PICK w \in Seq(Pieces) : loc' = [loc EXCEPT !.wire = w] /\ No150(w)
      BY <2>3, LoginPieces
    <3> QED BY <2>1, <3>1, <1>0, <1>i, <1>k
  <2> QED BY <1>1, <2>2, <2>3 DEF FtpDial
<1>2. CASE FillBuffer
  <2>1. UNCHANGED <<opt, disk, pc>> /\ pc = "login"
        /\ loc' = [loc EXCEPT !.buffer = @ \o loc.inbox, !.inbox = <<>>]
    BY <1>2 DEF FillBuffer
  <2>2. /\ loc.buffer \o loc.inbox \in Seq(Pieces)
        /\ No150(loc.buffer) /\ No150(loc.inbox) => No150(loc.buffer \o loc.inbox)
    BY <1>0, ConcatPieces
  <2> QED BY <2>1, <2>2, <1>0, <1>i, <1>k, NoPieces
<1>3. CASE LoginLine
  <2>1. UNCHANGED <<opt, disk>> /\ pc = "login" /\ pc' \in {"login", "fatal", "pasv"}
        /\ HasLine
        /\ \/ UNCHANGED loc
           \/ loc' = [loc EXCEPT !.buffer = <<>>]
           \/ loc' = [loc EXCEPT !.buffer = NextLines]
    BY <1>3 DEF LoginLine, FatalOutput
  <2>2. NextLines \in Seq(Pieces) /\ (No150(loc.buffer) => No150(NextLines))
    <3>1. loc.buffer # <<>>
      BY <2>1 DEF HasLine
    <3>2. /\ Tail(loc.buffer) \in Seq(Pieces) /\ Len(Tail(loc.buffer)) = Len(loc.buffer) - 1
          /\ No150(loc.buffer) => No150(Tail(loc.buffer))
      BY <3>1, <1>0, TailPieces
    <3>3. CASE Head(loc.buffer).part = "all"
      BY <3>2, <3>3 DEF NextLines
    <3>4. CASE Head(loc.buffer).part # "all"
      <4>1. Len(loc.buffer) > 1 /\ Len(loc.buffer) \in Nat
        BY <2>1, <3>4, <1>0 DEF HasLine
      <4>2. Tail(loc.buffer) # <<>>
        BY <1>0, <4>1, LongTail
      <4>3. /\ Tail(Tail(loc.buffer)) \in Seq(Pieces)
            /\ No150(Tail(loc.buffer)) => No150(Tail(Tail(loc.buffer)))
        BY <3>2, <4>2, TailPieces
      <4> QED BY <3>2, <3>4, <4>3 DEF NextLines
    <3> QED BY <3>3, <3>4
  <2>3. PICK w \in Seq(Pieces) : w = NextLines /\ (No150(loc.buffer) => No150(w))
    BY <2>2
  <2>4. UNCHANGED loc \/ loc' = [loc EXCEPT !.buffer = <<>>] \/ loc' = [loc EXCEPT !.buffer = w]
    BY <2>1, <2>3
  <2> QED BY <2>1, <2>3, <2>4, <1>0, <1>i, <1>k, NoPieces
<1>4. CASE SendPasv
  <2>1. UNCHANGED <<opt, disk>> /\ pc = "pasv" /\ pc' = "passive"
    BY <1>4 DEF SendPasv
  <2>2. PICK r \in PasvReplies : loc' = [loc EXCEPT !.wire = @ \o Replies(r)]
    BY <1>4 DEF SendPasv
  <2>3. PICK w \in Seq(Pieces) : w = Replies(r) /\ No150(w)
    BY <2>2, PasvPieces
  <2>4. loc.wire \o w \in Seq(Pieces) /\ (No150(loc.wire) => No150(loc.wire \o w))
    BY <1>0, <2>3, ConcatPieces
  <2> QED BY <2>1, <2>2, <2>3, <2>4, <1>0, <1>i, <1>k
<1>5. CASE ReadPasv
  <2>1. UNCHANGED <<opt, disk>> /\ pc = "passive" /\ pc' \in {"fatal", "panic", "request"}
        /\ (UNCHANGED loc \/ loc' = [loc EXCEPT !.inbox = <<>>, !.data = "open"])
    BY <1>5 DEF ReadPasv, FatalOutput, Panic
  <2> QED BY <2>1, <1>0, <1>i, <1>k, NoPieces
<1>6. CASE SendRequest
  <2>1. UNCHANGED <<opt, disk>> /\ pc = "request" /\ pc' = "answer"
    BY <1>6 DEF SendRequest
  <2>2. PICK t \in Transfers :
          loc' = [loc EXCEPT !.wire = @ \o Replies(t.replies), !.remote = t.remote,
                             !.opened = t.opened]
    BY <1>6 DEF SendRequest
  <2>3. PICK w \in Seq(Pieces) : w = Replies(t.replies) /\ (~t.opened => No150(w))
    BY <2>2, TransferPieces
  <2>4. /\ t.opened \in BOOLEAN /\ (opt.Download => t.remote = loc.remote)
        /\ ~t.opened => t.remote = loc.remote
    BY <2>2, TransferPieces
  <2>5. loc.wire \o w \in Seq(Pieces) /\ (No150(loc.wire) /\ No150(w) => No150(loc.wire \o w))
    BY <1>0, <2>3, ConcatPieces
  <2>6. /\ DOMAIN loc' = DOMAIN loc /\ loc'.wire = loc.wire \o w
        /\ loc'.inbox = loc.inbox /\ loc'.buffer = loc.buffer /\ loc'.before = loc.before
        /\ loc'.remote = t.remote /\ loc'.opened = t.opened
    BY <2>2, <2>3, <1>0
  <2>7. Local' = Local
    BY <2>1 DEF Local, Exists
  <2> QED BY <2>1, <2>3, <2>4, <2>5, <2>6, <2>7, <1>0, <1>i DEF FtpInv
<1>7. CASE ReadAnswer
  <2>1. UNCHANGED <<opt, disk>> /\ loc' = [loc EXCEPT !.inbox = <<>>, !.data = "closed"]
        /\ pc' \in {"copy", "fatal", "panic"} /\ loc.inbox # <<>>
        /\ (pc' = "copy" => Brings("150") \/ BringsHead("150"))
    BY <1>7 DEF ReadAnswer, FatalOutput, Panic
  <2>2. Brings("150") => \E i \in DOMAIN loc.inbox : loc.inbox[i].code = "150"
    BY DEF Brings
  <2>3. BringsHead("150") => \E i \in DOMAIN loc.inbox : loc.inbox[i].code = "150"
    <3>1. Len(loc.inbox) \in DOMAIN loc.inbox
      BY <2>1, <1>0
    <3> QED BY <3>1 DEF BringsHead
  <2>4. pc' = "copy" => loc.opened
    BY <2>1, <2>2, <2>3, <1>i DEF No150
  <2> QED BY <2>1, <2>4, <1>0, <1>i, <1>k, NoPieces
<1>8. CASE CopyData
  <2>1. UNCHANGED <<opt, loc>> /\ pc = "copy" /\ pc' = "fatal"
        /\ (opt.Download \/ UNCHANGED disk)
    BY <1>8 DEF CopyData, FatalOutput
  <2>2. ~opt.Download => Local' = Local
    BY <2>1 DEF Local, Exists
  <2> QED BY <2>1, <2>2, <1>0, <1>i DEF FtpInv
<1>9. CASE Arrive
  <2>1. UNCHANGED <<opt, disk, pc>> /\ loc.wire # <<>>
    BY <1>9 DEF Arrive
  <2>2. /\ Tail(loc.wire) \in Seq(Pieces) /\ Head(loc.wire) \in Pieces
        /\ No150(loc.wire) => No150(Tail(loc.wire)) /\ Head(loc.wire).code # "150"
    BY <2>1, <1>0, TailPieces
  <2>3. PICK next \in Pieces : next = Head(loc.wire)
    BY <2>2
  <2>4. CASE loc' = [loc EXCEPT !.wire = Tail(@), !.inbox = Append(@, next)]
    <3>1. /\ Append(loc.inbox, next) \in Seq(Pieces)
          /\ No150(loc.inbox) /\ next.code # "150" => No150(Append(loc.inbox, next))
      BY <1>0, AppendPiece
    <3> QED BY <2>1, <2>2, <2>3, <2>4, <3>1, <1>0, <1>i, <1>k
  <2>5. CASE loc' = [loc EXCEPT !.wire = <<[next EXCEPT !.part = "rest"]>> \o Tail(@),
                                !.inbox = Append(@, [next EXCEPT !.part = "head"])]
    <3>0. \A part \in {"head", "rest"} :
             [next EXCEPT !.part = part] \in Pieces /\ [next EXCEPT !.part = part].code = next.code
      BY <2>3 DEF Pieces
    <3>1. PICK head \in Pieces : head = [next EXCEPT !.part = "head"] /\ head.code = next.code
      BY <3>0
    <3>2. PICK rest \in Pieces : rest = [next EXCEPT !.part = "rest"] /\ rest.code = next.code
      BY <3>0
    <3>3. /\ Append(loc.inbox, head) \in Seq(Pieces)
          /\ No150(loc.inbox) /\ head.code # "150" => No150(Append(loc.inbox, head))
      BY <1>0, <3>1, AppendPiece
    <3>4. <<rest>> \in Seq(Pieces) /\ (rest.code # "150" => No150(<<rest>>))
      <4>1. <<rest>> \in Seq(Pieces)
        OBVIOUS
      <4>2. DOMAIN <<rest>> = {1} /\ <<rest>>[1] = rest
        OBVIOUS
      <4> QED BY <4>1, <4>2 DEF No150
    <3>5. /\ <<rest>> \o Tail(loc.wire) \in Seq(Pieces)
          /\ No150(<<rest>>) /\ No150(Tail(loc.wire)) => No150(<<rest>> \o Tail(loc.wire))
      BY <2>2, <3>4, ConcatPieces
    <3>6. loc' = [loc EXCEPT !.wire = <<rest>> \o Tail(@), !.inbox = Append(@, head)]
      BY <2>5, <3>1, <3>2
    <3> QED BY <2>1, <2>2, <2>3, <3>1, <3>2, <3>3, <3>4, <3>5, <3>6, <1>0, <1>i, <1>k
  <2> QED BY <1>9, <2>3, <2>4, <2>5 DEF Arrive
<1>10. CASE UNCHANGED vars
  BY <1>10, <1>0, <1>i, <1>k DEF vars
<1> QED BY <1>1, <1>2, <1>3, <1>4, <1>5, <1>6, <1>7, <1>8, <1>9, <1>10, FtpSteps

\* Whichever of the modelled replies the server sends and however they are cut
\* into reads: ftp exits with 0 only if both sides hold the same file, the file
\* that is read stays as it was, and a transfer that the server refuses changes
\* neither side, be the end a message or a run time error.
THEOREM FtpFailsLoudlyHolds == Spec => []FtpFailsLoudly
<1>1. FtpInv => FtpFailsLoudly
  BY DEF FtpInv, FtpFailsLoudly, Ended, Ends
<1> QED BY FtpInitInv, FtpNextInv, <1>1, PTL DEF Spec

-----------------------------------------------------------------------------
(***************************************************************************)
(* find and md5sum.                                                        *)
(***************************************************************************)
Walking == cmd \in {"find", "md5sum"}
Selects(e) == IF cmd = "find" THEN FindSelects(e) ELSE Md5sumSelects(e)
Fails(e) == IF cmd = "find" THEN e.err = "walk" ELSE Md5sumFails(e)

\* The entries visited are the first ones of the tree.
Seen == Len(loc.tree) - Len(loc.todo)
Chosen(k) == {i \in 1..k : Selects(loc.tree[i])}

StoppedAt(k) ==
    /\ Fails(loc.tree[k])
    /\ \A i \in 1..(k - 1) : ~Fails(loc.tree[i])
    /\ Lists(out, loc.tree, Chosen(k - 1))

\* The walk has printed what it selects of the entries before its place, and
\* if an error stopped it, before the first entry that fails.
WalkInv ==
    Walking =>
        /\ loc \in [todo : Seq(Entries), tree : Seq(Entries) \ {<<>>}, stopped : BOOLEAN]
        /\ out \in Seq(STRING)
        /\ loc.stopped => loc.todo = <<>> /\ \E k \in 1..Len(loc.tree) : StoppedAt(k)
        /\ ~loc.stopped =>
            /\ Seen \in 0..Len(loc.tree)
            /\ \A j \in 1..Len(loc.todo) : loc.todo[j] = loc.tree[Seen + j]
            /\ \A i \in 1..Seen : ~Fails(loc.tree[i])
            /\ Lists(out, loc.tree, Chosen(Seen))
        /\ pc = "parse" => loc.todo = loc.tree
        /\ cmd = "find" =>
            /\ opt \in FindOptions /\ pc \in {"parse", "walk", "returned"}
            /\ pc = "returned" /\ ~FindRejects => loc.todo = <<>>
        /\ cmd = "md5sum" =>
            /\ pc \in {"parse", "walk", "fatal", "panic"}
            /\ pc = "panic" => loc.todo = <<>> /\ ~loc.stopped
            /\ pc = "fatal" => loc.stopped \/ loc.todo = loc.tree

\* One more entry is visited and printed: the places of the others stay.
LEMMA ListsAppend ==
    ASSUME NEW printed \in Seq(STRING), NEW tree, NEW k \in Nat, NEW picked \in SUBSET (1..k),
           Lists(printed, tree, picked), tree[k + 1].name \in STRING
    PROVE  Lists(Append(printed, tree[k + 1].name), tree, picked \cup {k + 1})
<1> DEFINE more == picked \cup {k + 1}
           longer == Append(printed, tree[k + 1].name)
<1>1. IsFiniteSet(picked)
  <2>1. IsFiniteSet(1..k)
    BY FS_Interval
  <2> QED BY <2>1, FS_Subset
<1>2. Cardinality(more) = Cardinality(picked) + 1
  <2>1. k + 1 \notin picked
    <3>1. k + 1 \notin 1..k
      OBVIOUS
    <3> QED BY <3>1
  <2> QED BY <1>1, <2>1, FS_AddElement
<1>3. Len(longer) = Len(printed) + 1 /\ longer[Len(printed) + 1] = tree[k + 1].name
      /\ \A j \in 1..Len(printed) : longer[j] = printed[j]
  OBVIOUS
<1>4. Len(printed) = Cardinality(picked) /\ Cardinality(picked) \in Nat
  BY <1>1, FS_CardinalityType DEF Lists
<1>5. ASSUME NEW i \in picked PROVE longer[Cardinality(more \cap (1..i))] = tree[i].name
  <2>1. i \in 1..k /\ more \cap (1..i) = picked \cap (1..i)
    OBVIOUS
  <2>2. picked \cap (1..i) \in SUBSET picked /\ i \in picked \cap (1..i)
    BY <2>1
  <2>3. /\ IsFiniteSet(picked \cap (1..i))
        /\ Cardinality(picked \cap (1..i)) <= Cardinality(picked)
    BY <1>1, <2>2, FS_Subset
  <2>4. Cardinality(picked \cap (1..i)) \in Nat /\ Cardinality(picked \cap (1..i)) # 0
    BY <2>2, <2>3, FS_CardinalityType, FS_EmptySet
  <2>5. Cardinality(picked \cap (1..i)) \in 1..Len(printed)
    BY <1>4, <2>3, <2>4
  <2>6. printed[Cardinality(picked \cap (1..i))] = tree[i].name
    BY DEF Lists
  <2> QED BY <1>3, <2>1, <2>5, <2>6
<1>6. more \cap (1..(k + 1)) = more
  <2>1. 1..k \subseteq 1..(k + 1) /\ k + 1 \in 1..(k + 1)
    OBVIOUS
  <2> QED BY <2>1
<1>7. longer[Cardinality(more \cap (1..(k + 1)))] = tree[k + 1].name
  BY <1>2, <1>3, <1>4, <1>6
<1>8. \A i \in more : longer[Cardinality(more \cap (1..i))] = tree[i].name
  BY <1>5, <1>7
<1> QED BY <1>2, <1>3, <1>4, <1>8 DEF Lists

LEMMA ListsNone == ASSUME NEW tree PROVE Lists(<<>>, tree, {})
  BY FS_EmptySet DEF Lists

LEMMA NextPlace ==
    ASSUME NEW a \in Nat, NEW b \in Nat, b > 0, a - b \in 0..a
    PROVE  a - (b - 1) = (a - b) + 1 /\ (a - b) + 1 \in 1..a
  OBVIOUS

LEMMA WalkSteps ==
    [Next]_vars /\ Walking =>
        \/ (FindParse /\ cmd = "find") \/ FindVisit \/ FindEnds
        \/ (Md5sumParse /\ cmd = "md5sum") \/ Md5sumVisit \/ Md5sumEnds \/ UNCHANGED vars
  BY DEF Walking, Next, Step, FindNext, Md5sumNext, Arrive, FileVanishes, Terminated

LEMMA WalkInitInv == Init => WalkInv
<1> SUFFICES ASSUME Init, Walking PROVE WalkInv
  BY DEF WalkInv
<1>1. PICK tree \in WalkTrees : loc = [todo |-> tree, tree |-> tree, stopped |-> FALSE]
  BY DEF Init, Walking, FindInit, Md5sumInit
<1>2. pc = "parse" /\ out = <<>> /\ (cmd = "find" => opt \in FindOptions)
  BY DEF Init, Walking, FindInit, Md5sumInit
<1>3. tree \in Seq(Entries) \ {<<>>}
  BY WalksAssumption
<1>4. Seen = 0 /\ Len(loc.tree) \in Nat
  BY <1>1, <1>3 DEF Seen
<1>5. Chosen(0) = {}
  BY DEF Chosen
<1>6. out \in Seq(STRING) /\ Lists(out, loc.tree, Chosen(Seen))
  BY <1>2, <1>4, <1>5, ListsNone
<1>7. loc \in [todo : Seq(Entries), tree : Seq(Entries) \ {<<>>}, stopped : BOOLEAN]
      /\ loc.todo = loc.tree /\ loc.stopped = FALSE
  BY <1>1, <1>3
<1>8. /\ Seen \in 0..Len(loc.tree)
      /\ \A j \in 1..Len(loc.todo) : loc.todo[j] = loc.tree[Seen + j]
      /\ \A i \in 1..Seen : ~Fails(loc.tree[i])
  BY <1>4, <1>7
<1> QED BY <1>2, <1>6, <1>7, <1>8 DEF WalkInv, Walking

LEMMA WalkNextInv == WalkInv /\ [Next]_vars => WalkInv'
<1> SUFFICES ASSUME WalkInv, [Next]_vars, Walking PROVE WalkInv'
  BY CommandKept DEF WalkInv, Walking
<1>0. /\ loc \in [todo : Seq(Entries), tree : Seq(Entries) \ {<<>>}, stopped : BOOLEAN]
      /\ out \in Seq(STRING) /\ cmd' = cmd /\ cmd \in {"find", "md5sum"}
  BY CommandKept DEF WalkInv, Walking
<1>1. /\ loc.todo \in Seq(Entries) /\ loc.tree \in Seq(Entries) /\ loc.tree # <<>>
      /\ Len(loc.tree) \in Nat /\ Len(loc.todo) \in Nat /\ DOMAIN loc.tree = 1..Len(loc.tree)
      /\ loc.stopped \in BOOLEAN
  BY <1>0
\* What the invariant says of the tree stays while the options and loc do.
<1>k. ASSUME UNCHANGED opt, UNCHANGED cmd, loc'.tree = loc.tree
      PROVE  \A e : (Selects(e)' <=> Selects(e)) /\ (Fails(e)' <=> Fails(e))
  BY <1>k DEF Selects, Fails, FindSelects, Md5sumSelects, Md5sumFails
<1>s. ASSUME UNCHANGED <<opt, loc, out>>, pc' # "parse",
             cmd = "find" =>
                /\ pc' \in {"walk", "returned"}
                /\ pc' = "returned" /\ ~FindRejects => loc.todo = <<>>,
             cmd = "md5sum" =>
                /\ pc' \in {"walk", "fatal", "panic"}
                /\ pc' = "panic" => loc.todo = <<>> /\ ~loc.stopped
                /\ pc' = "fatal" => loc.stopped \/ loc.todo = loc.tree
      PROVE  WalkInv'
  <2>1. \A e : (Selects(e)' <=> Selects(e)) /\ (Fails(e)' <=> Fails(e))
    BY <1>0, <1>k, <1>s
  <2>2. Seen' = Seen /\ (FindRejects' <=> FindRejects) /\ \A k : Chosen(k)' = Chosen(k)
    BY <1>s, <2>1 DEF Seen, FindRejects, Chosen
  <2>3. \A k : StoppedAt(k)' <=> StoppedAt(k)
    BY <1>s, <2>1, <2>2 DEF StoppedAt
  <2> QED BY <1>0, <1>s, <2>1, <2>2, <2>3 DEF WalkInv, Walking
\* The entry at the place of the walk is passed over or printed.
<1>v. ASSUME UNCHANGED <<opt, pc>>, pc = "walk", loc.todo # <<>>, ~Fails(Entry),
             loc' = [loc EXCEPT !.todo = Tail(@)],
             IF Selects(Entry) THEN out' = Append(out, Entry.name) ELSE out' = out
      PROVE  WalkInv'
  <2> DEFINE k == Seen
  <2>1. ~loc.stopped
    BY <1>v DEF WalkInv
  <2>2. /\ k \in 0..Len(loc.tree) /\ k \in Nat
        /\ \A j \in 1..Len(loc.todo) : loc.todo[j] = loc.tree[k + j]
        /\ \A i \in 1..k : ~Fails(loc.tree[i])
        /\ Lists(out, loc.tree, Chosen(k))
    BY <1>1, <2>1 DEF WalkInv
  <2>3. /\ loc'.tree = loc.tree /\ loc'.todo = Tail(loc.todo) /\ ~loc'.stopped
        /\ loc' \in [todo : Seq(Entries), tree : Seq(Entries) \ {<<>>}, stopped : BOOLEAN]
    <3>1. Tail(loc.todo) \in Seq(Entries)
      BY <1>1, <1>v
    <3> QED BY <1>0, <1>v, <2>1, <3>1
  <2>4. /\ Len(loc'.todo) = Len(loc.todo) - 1 /\ Len(loc.todo) > 0
        /\ \A j \in 1..(Len(loc.todo) - 1) : loc'.todo[j] = loc.todo[j + 1]
    BY <1>1, <1>v, <2>3
  <2>5. Seen' = k + 1 /\ k + 1 \in 0..Len(loc.tree) /\ k + 1 \in DOMAIN loc.tree
    <3>1. Seen' = Len(loc.tree) - (Len(loc.todo) - 1) /\ k = Len(loc.tree) - Len(loc.todo)
      BY <2>3, <2>4 DEF Seen
    <3>2. Seen' = k + 1 /\ k + 1 \in 1..Len(loc.tree)
      BY <1>1, <2>2, <2>4, <3>1, NextPlace
    <3> QED BY <1>1, <3>2
  <2>6. Entry = loc.tree[k + 1] /\ Entry \in Entries
    <3>1. Entry = loc.todo[1]
      BY <1>1, <1>v DEF Entry
    <3> QED BY <1>1, <2>2, <2>4, <2>5, <3>1
  <2>7. \A e : (Selects(e)' <=> Selects(e)) /\ (Fails(e)' <=> Fails(e))
    BY <1>0, <1>k, <1>v, <2>3
  <2>8. \A j \in 1..Len(loc'.todo) : loc'.todo[j] = loc'.tree[Seen' + j]
    <3>1. ASSUME NEW j \in 1..Len(loc'.todo) PROVE loc'.todo[j] = loc.tree[k + 1 + j]
      <4>1. j + 1 \in 1..Len(loc.todo) /\ j \in 1..(Len(loc.todo) - 1) /\ k + (j + 1) = k + 1 + j
        BY <1>1, <2>2, <2>4
      <4>2. loc'.todo[j] = loc.todo[j + 1] /\ loc.todo[j + 1] = loc.tree[k + (j + 1)]
        BY <2>2, <2>4, <4>1
      <4> QED BY <4>1, <4>2
    <3> QED BY <2>3, <2>5, <3>1
  <2>9. \A i \in 1..(k + 1) : ~Fails(loc.tree[i])
    BY <1>v, <2>2, <2>6
  <2>10. Lists(out', loc.tree, Chosen(k + 1)) /\ out' \in Seq(STRING)
    <3>1. Chosen(k) \in SUBSET (1..k)
      BY DEF Chosen
    <3>2. CASE Selects(Entry)
      <4>1. Chosen(k + 1) = Chosen(k) \cup {k + 1}
        BY <2>2, <2>6, <3>2 DEF Chosen
      <4>2. loc.tree[k + 1].name \in STRING /\ out' = Append(out, loc.tree[k + 1].name)
        BY <1>v, <2>6, <3>2 DEF Entries
      <4>3. Lists(out', loc.tree, Chosen(k) \cup {k + 1})
        BY <1>0, <2>2, <3>1, <4>2, ListsAppend
      <4>4. out' \in Seq(STRING)
        BY <1>0, <4>2
      <4> QED BY <4>1, <4>3, <4>4
    <3>3. CASE ~Selects(Entry)
      <4>1. Chosen(k + 1) = Chosen(k)
        BY <2>2, <2>6, <3>3 DEF Chosen
      <4> QED BY <1>0, <1>v, <2>2, <3>3, <4>1
    <3> QED BY <3>2, <3>3
  <2>11. cmd = "find" => opt \in FindOptions
    BY DEF WalkInv
  <2>12. Chosen(Seen)' = Chosen(k + 1)
    BY <2>5, <2>3, <2>7 DEF Chosen
  <2> QED BY <1>0, <1>v, <2>3, <2>5, <2>7, <2>8, <2>9, <2>10, <2>11, <2>12 DEF WalkInv, Walking
\* An error stops the walk at its place.
<1>e. ASSUME UNCHANGED <<opt, pc, out>>, pc = "walk", loc.todo # <<>>, Fails(Entry),
             loc' = [loc EXCEPT !.todo = <<>>, !.stopped = TRUE]
      PROVE  WalkInv'
  <2>1. /\ loc'.tree = loc.tree /\ loc'.todo = <<>> /\ loc'.stopped = TRUE
        /\ loc' \in [todo : Seq(Entries), tree : Seq(Entries) \ {<<>>}, stopped : BOOLEAN]
    <3>1. <<>> \in Seq(Entries)
      OBVIOUS
    <3> QED BY <1>0, <1>e, <3>1
  <2>2. /\ Seen \in 0..Len(loc.tree)
        /\ \A j \in 1..Len(loc.todo) : loc.todo[j] = loc.tree[Seen + j]
        /\ \A i \in 1..Seen : ~Fails(loc.tree[i])
        /\ Lists(out, loc.tree, Chosen(Seen))
    BY <1>e DEF WalkInv
  <2>3. Entry = loc.todo[1] /\ Len(loc.todo) > 0
    BY <1>1, <1>e DEF Entry
  <2>4. Entry = loc.tree[Seen + 1] /\ Seen + 1 \in DOMAIN loc.tree
    <3>1. 1 \in 1..Len(loc.todo)
      BY <1>1, <2>3
    <3>2. Seen + 1 \in 1..Len(loc.tree)
      BY <1>1, <2>2, <2>3, NextPlace DEF Seen
    <3> QED BY <1>1, <2>2, <2>3, <3>1, <3>2
  <2>5. \A e : (Selects(e)' <=> Selects(e)) /\ (Fails(e)' <=> Fails(e))
    BY <1>0, <1>k, <1>e, <2>1
  <2>6. \E k \in 1..Len(loc'.tree) : StoppedAt(k)'
    <3>1. PICK n : n = Seen + 1
      OBVIOUS
    <3>2. n \in 1..Len(loc'.tree) /\ n - 1 = Seen /\ Seen \in Int
      BY <1>1, <2>1, <2>2, <2>4, <3>1
    <3>3. Chosen(n - 1)' = Chosen(n - 1)
      BY <2>1, <2>5 DEF Chosen
    <3>4. StoppedAt(n)'
      BY <1>e, <2>1, <2>2, <2>4, <2>5, <3>1, <3>2, <3>3 DEF StoppedAt
    <3> QED BY <3>2, <3>4
  <2>7. cmd = "find" => opt \in FindOptions
    BY DEF WalkInv
  <2> QED BY <1>0, <1>e, <2>1, <2>5, <2>6, <2>7 DEF WalkInv, Walking
<1>2. CASE FindParse /\ cmd = "find"
  <2>1. UNCHANGED <<opt, loc, out>> /\ (pc' = "walk" \/ (pc' = "returned" /\ FindRejects))
    BY <1>2 DEF FindParse, Return
  <2> QED BY <1>2, <1>s, <2>1
<1>3. CASE FindVisit
  <2>1. UNCHANGED opt /\ cmd = "find" /\ pc = "walk" /\ loc.todo # <<>>
    BY <1>3 DEF FindVisit
  <2>2. CASE Entry.err = "walk" /\ Stop
    BY <1>e, <2>1, <2>2 DEF Stop, Fails
  <2>3. CASE Entry.err # "walk" /\ FindSelects(Entry) /\ Show
    BY <1>v, <2>1, <2>3 DEF Show, Fails, Selects
  <2>4. CASE Entry.err # "walk" /\ ~FindSelects(Entry) /\ Skip
    BY <1>v, <2>1, <2>4 DEF Skip, Fails, Selects
  <2> QED BY <1>3, <2>2, <2>3, <2>4 DEF FindVisit
<1>4. CASE FindEnds
  BY <1>4, <1>s DEF FindEnds, Return
<1>5. CASE Md5sumParse /\ cmd = "md5sum"
  <2>1. UNCHANGED <<opt, loc, out>> /\ pc = "parse" /\ pc' \in {"walk", "fatal"}
    BY <1>5 DEF Md5sumParse, FatalOutput
  <2>2. loc.todo = loc.tree
    BY <2>1 DEF WalkInv
  <2> QED BY <1>5, <1>s, <2>1, <2>2
<1>6. CASE Md5sumVisit
  <2>1. UNCHANGED opt /\ cmd = "md5sum" /\ pc = "walk" /\ loc.todo # <<>>
    BY <1>6 DEF Md5sumVisit
  <2>2. CASE Md5sumFails(Entry) /\ Stop
    BY <1>e, <2>1, <2>2 DEF Stop, Fails
  <2>3. CASE ~Md5sumFails(Entry) /\ Md5sumSelects(Entry) /\ Show
    BY <1>v, <2>1, <2>3 DEF Show, Fails, Selects
  <2>4. CASE ~Md5sumFails(Entry) /\ ~Md5sumSelects(Entry) /\ Skip
    BY <1>v, <2>1, <2>4 DEF Skip, Fails, Selects
  <2> QED BY <1>6, <2>2, <2>3, <2>4 DEF Md5sumVisit
<1>7. CASE Md5sumEnds
  <2>1. UNCHANGED <<opt, loc, out>> /\ cmd = "md5sum" /\ loc.todo = <<>>
        /\ pc' = (IF loc.stopped THEN "fatal" ELSE "panic")
    BY <1>7 DEF Md5sumEnds, FatalOutput, Panic
  <2> QED BY <1>s, <2>1
<1>8. CASE UNCHANGED vars
  <2>1. UNCHANGED <<opt, pc, loc, out>>
    BY <1>8 DEF vars
  <2>2. \A e : (Selects(e)' <=> Selects(e)) /\ (Fails(e)' <=> Fails(e))
    BY <1>0, <1>k, <2>1
  <2>3. Seen' = Seen /\ (FindRejects' <=> FindRejects) /\ \A k : Chosen(k)' = Chosen(k)
    BY <2>1, <2>2 DEF Seen, FindRejects, Chosen
  <2>4. \A k : StoppedAt(k)' <=> StoppedAt(k)
    BY <2>1, <2>2, <2>3 DEF StoppedAt
  <2> QED BY <1>0, <2>1, <2>2, <2>3, <2>4 DEF WalkInv, Walking
<1> QED BY <1>2, <1>3, <1>4, <1>5, <1>6, <1>7, <1>8, WalkSteps

\* A plain age is not changed by the product of parseMtime: what find selects
\* is what was asked for.
LEMMA PlainAgeExact ==
    ASSUME opt \in FindOptions, ~FindRejects, PlainAge, NEW e
    PROVE  FindSelects(e) <=> Asked(e)
<1>1. Given(opt.Size) =>
        (MatchSize(parseSize(opt.Size), e.size) <=>
            (IF opt.Size.num[1] < 0 THEN e.size <= HelpBytes(opt.Size)
                                    ELSE e.size >= HelpBytes(opt.Size)))
  <2> SUFFICES ASSUME Given(opt.Size)
               PROVE  Abs(opt.Size.num[1]) * Bytes(opt.Size.unit) = HelpBytes(opt.Size)
    BY DEF MatchSize, parseSize
  <2> DEFINE n == Abs(opt.Size.num[1])
  <2>1. n \in Nat
    <3>1. opt.Size.num \in Seq(Int) /\ opt.Size.num # <<>>
      BY WalksAssumption DEF FindRejects, Unparsed
    <3>2. opt.Size.num[1] \in Int
      BY <3>1
    <3> QED BY <3>2 DEF Abs
  <2>2. HelpBytes(opt.Size) = CASE opt.Size.unit \in {"K", "k"} -> n * 1024
                                [] opt.Size.unit \in {"M", "m"} -> n * 1048576
                                [] opt.Size.unit \in {"G", "g"} -> n * 1073741824
                                [] OTHER -> n
    BY DEF HelpBytes
  <2> HIDE DEF n
  <2> QED BY <2>1, <2>2 DEF Bytes, n
<1>2. Given(opt.Mtime) =>
        (MatchTime(parseMtime(opt.Mtime), e.age) <=>
            (IF opt.Mtime.num[1] < 0 THEN e.age <= HelpMinutes(opt.Mtime)
                                     ELSE e.age > HelpMinutes(opt.Mtime)))
  <2> SUFFICES ASSUME Given(opt.Mtime)
               PROVE  Wrap(Abs(opt.Mtime.num[1]) * Minutes(opt.Mtime.unit)) = HelpMinutes(opt.Mtime)
    BY DEF MatchTime, parseMtime
  <2> DEFINE n == Abs(opt.Mtime.num[1])
             x == n * Minutes(opt.Mtime.unit)
  <2>1. n \in Nat
    <3>1. opt.Mtime.num \in Seq(Int) /\ opt.Mtime.num # <<>>
      BY WalksAssumption DEF FindRejects, Unparsed
    <3>2. opt.Mtime.num[1] \in Int
      BY <3>1
    <3> QED BY <3>2 DEF Abs
  <2>2. /\ opt.Mtime.unit \in {"M", "H", "d", "m"} /\ HelpMinutes(opt.Mtime) < Half
    BY DEF PlainAge
  <2>3. HelpMinutes(opt.Mtime) = CASE opt.Mtime.unit = "M" -> n
                                   [] opt.Mtime.unit = "H" -> n * 60
                                   [] opt.Mtime.unit = "d" -> n * 1440
                                   [] opt.Mtime.unit = "m" -> n * (30 * 1440)
                                   [] opt.Mtime.unit = "y" -> n * (365 * 1440)
                                   [] OTHER -> n \div 60
    BY DEF HelpMinutes
  <2> HIDE DEF n
  <2>4. x = HelpMinutes(opt.Mtime) /\ x \in Nat
    BY <2>1, <2>2, <2>3 DEF Minutes
  <2>5. Wrap(x) = x
    <3> HIDE DEF x
    <3> QED BY <2>2, <2>4 DEF Wrap, Half
  <2> QED BY <2>4, <2>5 DEF n
<1> QED BY <1>1, <1>2 DEF FindSelects, Asked

\* For any tree and any options: find prints exactly the entries that its help
\* says the options ask for, with -m for an age in minutes, hours, days or months
\* that fits into a duration, and md5sum the files of its selection, each in the
\* order of the walk and up to the first entry that fails.
THEOREM WalkPrintsSelectionHolds == Spec => []WalkPrintsSelection
<1>1. WalkInv => WalkPrintsSelection
  <2> SUFFICES ASSUME WalkInv PROVE WalkPrintsSelection OBVIOUS
  <2> DEFINE Reach == {i \in DOMAIN loc.tree : \A j \in 1..i : ~Fails(loc.tree[j])}
  <2>1. ASSUME Walking, loc.todo = <<>>
        PROVE  /\ Lists(out, loc.tree, {i \in Reach : Selects(loc.tree[i])})
               /\ (\E i \in DOMAIN loc.tree : Fails(loc.tree[i])) => loc.stopped
    <3>1. Len(loc.tree) \in Nat /\ DOMAIN loc.tree = 1..Len(loc.tree) /\ Len(loc.todo) = 0
      BY <2>1 DEF WalkInv
    <3>2. CASE ~loc.stopped
      <4>1. Seen = Len(loc.tree)
        BY <3>1 DEF Seen
      <4>2. /\ \A i \in 1..Len(loc.tree) : ~Fails(loc.tree[i])
            /\ Lists(out, loc.tree, Chosen(Len(loc.tree)))
        BY <2>1, <3>2, <4>1 DEF WalkInv
      <4>3. Reach = DOMAIN loc.tree
        <5>1. \A i \in 1..Len(loc.tree) : 1..i \subseteq 1..Len(loc.tree)
          BY <3>1
        <5> QED BY <3>1, <4>2, <5>1
      <4> QED BY <3>1, <4>2, <4>3 DEF Chosen
    <3>3. CASE loc.stopped
      <4>1. PICK k \in 1..Len(loc.tree) : StoppedAt(k)
        BY <2>1, <3>3 DEF WalkInv
      <4>2. Reach = 1..(k - 1)
        <5>1. ASSUME NEW i \in Reach PROVE i \in 1..(k - 1)
          <6>1. i \in 1..Len(loc.tree) /\ \A j \in 1..i : ~Fails(loc.tree[j])
            BY <3>1
          <6>2. k \notin 1..i
            BY <4>1, <6>1 DEF StoppedAt
          <6> QED BY <3>1, <6>1, <6>2
        <5>2. ASSUME NEW i \in 1..(k - 1) PROVE i \in Reach
          <6>1. i \in DOMAIN loc.tree /\ 1..i \subseteq 1..(k - 1)
            BY <3>1
          <6> QED BY <4>1, <6>1 DEF StoppedAt
        <5> QED BY <5>1, <5>2
      <4>3. {i \in Reach : Selects(loc.tree[i])} = Chosen(k - 1)
        BY <4>2 DEF Chosen
      <4> QED BY <3>3, <4>1, <4>3 DEF StoppedAt
    <3> QED BY <3>2, <3>3
  <2> HIDE DEF Reach
  <2>2. ASSUME FindDone, PlainAge PROVE PrintsAsked
    <3>1. Walking /\ loc.todo = <<>> /\ opt \in FindOptions /\ cmd = "find" /\ ~FindRejects
      BY <2>2 DEF WalkInv, Walking, FindDone
    <3>2. \A e : (Selects(e) <=> Asked(e)) /\ (Fails(e) <=> e.err = "walk")
      BY <2>2, <3>1, PlainAgeExact DEF Selects, Fails
    <3>3. {i \in Reach : Selects(loc.tree[i])} = {i \in FindReach : Asked(loc.tree[i])}
      BY <3>2 DEF Reach, FindReach
    <3> QED BY <2>1, <3>1, <3>3 DEF PrintsAsked
  <2>3. ASSUME Md5sumDone
        PROVE  /\ Lists(out, loc.tree, {i \in Md5sumReach : Summed(loc.tree[i])})
               /\ (\E i \in DOMAIN loc.tree : Unreadable(loc.tree[i])) => pc = "fatal"
    <3>1. /\ Walking /\ pc \in {"fatal", "panic"} /\ loc.todo = <<>> /\ cmd = "md5sum"
          /\ pc = "panic" => ~loc.stopped
      BY <2>3 DEF WalkInv, Walking, Ended, Ends, Md5sumDone
    <3>2. \A e : (Selects(e) <=> Summed(e)) /\ (Fails(e) <=> Unreadable(e))
      BY <3>1 DEF Selects, Fails, Md5sumSelects, Md5sumFails, Summed, Unreadable
    <3>3. {i \in Reach : Selects(loc.tree[i])} = {i \in Md5sumReach : Summed(loc.tree[i])}
      BY <3>2 DEF Reach, Md5sumReach
    <3> QED BY <2>1, <3>1, <3>2, <3>3
  <2> QED BY <2>2, <2>3 DEF WalkPrintsSelection
<1> QED BY WalkInitInv, WalkNextInv, <1>1, PTL DEF Spec

-----------------------------------------------------------------------------
(***************************************************************************)
(* tail: the newlines between two positions of a file.                     *)
(***************************************************************************)
\* Every set of numbers that is not empty has a least element.
LEMMA LeastNat == ASSUME NEW T \in SUBSET Nat, T # {}
                  PROVE  \E n \in T : \A m \in T : n <= m
<1>1. \E x \in T : \A y \in T : <<y, x>> \notin OpToRel(<, Nat)
  BY WFMin, NatLessThanWellFounded
<1>2. \A x, y \in Nat : y < x => <<y, x>> \in OpToRel(<, Nat)
  BY DEF OpToRel
<1>3. PICK R : /\ \E x \in T : \A y \in T : <<y, x>> \notin R
               /\ \A x, y \in Nat : y < x => <<y, x>> \in R
  BY <1>1, <1>2, Zenon
<1>4. PICK x \in T : \A y \in T : <<y, x>> \notin R
  BY <1>3
<1>5. \A y \in T : ~(y < x)
  BY <1>3, <1>4
<1>6. \A y \in T : x \in Nat /\ y \in Nat
  OBVIOUS
<1> QED BY <1>4, <1>5, <1>6

LFs(s, a, b) == {i \in (a + 1)..b : s[i] = LF}
Count(s, a, b) == Cardinality(LFs(s, a, b))

LEMMA CountType ==
    ASSUME NEW s, NEW a \in Nat, NEW b \in Nat
    PROVE  IsFiniteSet(LFs(s, a, b)) /\ Count(s, a, b) \in Nat
<1>1. IsFiniteSet((a + 1)..b)
  BY FS_Interval
<1>2. LFs(s, a, b) \in SUBSET ((a + 1)..b)
  BY DEF LFs
<1>3. IsFiniteSet(LFs(s, a, b))
  BY <1>1, <1>2, FS_Subset
<1> QED BY <1>3, FS_CardinalityType DEF Count

LEMMA CountNone == ASSUME NEW s, NEW a \in Nat PROVE Count(s, a, a) = 0
<1>1. LFs(s, a, a) = {}
  BY DEF LFs
<1> QED BY <1>1, FS_EmptySet DEF Count

LEMMA CountAdd ==
    ASSUME NEW s, NEW a \in Nat, NEW b \in Nat, NEW c \in Nat, a <= b, b <= c
    PROVE  Count(s, a, c) = Count(s, a, b) + Count(s, b, c)
<1>1. LFs(s, a, c) = LFs(s, a, b) \cup LFs(s, b, c) /\ LFs(s, a, b) \cap LFs(s, b, c) = {}
  BY DEF LFs
<1>2. IsFiniteSet(LFs(s, a, b)) /\ IsFiniteSet(LFs(s, b, c))
  BY CountType
<1>3. /\ Cardinality(LFs(s, a, b) \cup LFs(s, b, c)) = Cardinality(LFs(s, a, b))
             + Cardinality(LFs(s, b, c)) - Cardinality(LFs(s, a, b) \cap LFs(s, b, c))
  BY <1>2, FS_Union
<1>4. Cardinality(LFs(s, a, b) \cap LFs(s, b, c)) = 0
  BY <1>1, FS_EmptySet
<1>5. Count(s, a, b) \in Nat /\ Count(s, b, c) \in Nat
  BY CountType
<1> QED BY <1>1, <1>3, <1>4, <1>5 DEF Count

LEMMA CountOne ==
    ASSUME NEW s, NEW a \in Nat
    PROVE  Count(s, a, a + 1) = IF s[a + 1] = LF THEN 1 ELSE 0
<1>1. CASE s[a + 1] = LF
  <2>1. LFs(s, a, a + 1) = {a + 1}
    BY <1>1 DEF LFs
  <2> QED BY <1>1, <2>1, FS_Singleton DEF Count
<1>2. CASE s[a + 1] # LF
  <2>1. LFs(s, a, a + 1) = {}
    BY <1>2 DEF LFs
  <2> QED BY <1>2, <2>1, FS_EmptySet DEF Count
<1> QED BY <1>1, <1>2

LEMMA SubSeqFacts ==
    ASSUME NEW s \in Seq(Nat), NEW a \in Nat, NEW b \in 0..Len(s), a <= b
    PROVE  /\ SubSeq(s, a + 1, b) \in Seq(Nat) /\ Len(SubSeq(s, a + 1, b)) = b - a
           /\ DOMAIN SubSeq(s, a + 1, b) = 1..(b - a)
           /\ \A i \in 1..(b - a) : SubSeq(s, a + 1, b)[i] = s[a + i]
<1>1. b - a \in Nat /\ Len(s) \in Nat
  OBVIOUS
<1>2. ASSUME NEW i \in 1..(b - a) PROVE a + i \in 1..Len(s) /\ s[a + i] \in Nat
  BY <1>1
<1>3. SubSeq(s, a + 1, b) = [i \in 1..(b - a) |-> s[a + i]]
  <2>1. SubSeq(s, a + 1, b) = [i \in 1..(1 + b - (a + 1)) |-> s[i + (a + 1) - 1]]
    BY <1>1
  <2>2. 1 + b - (a + 1) = b - a /\ \A i \in 1..(b - a) : i + (a + 1) - 1 = a + i
    BY <1>1
  <2> QED BY <2>1, <2>2
<1>4. [i \in 1..(b - a) |-> s[a + i]] \in Seq(Nat)
  BY <1>1, <1>2
<1>5. Len(SubSeq(s, a + 1, b)) = b - a
  BY <1>1, <1>3
<1> QED BY <1>3, <1>4, <1>5

\* The newlines of a part of the file, counted in the part or in the file.
LEMMA NewlinesOfPart ==
    ASSUME NEW s \in Seq(Nat), NEW a \in Nat, NEW b \in 0..Len(s), a <= b
    PROVE  Newlines(SubSeq(s, a + 1, b)) = Count(s, a, b)
<1> DEFINE t == SubSeq(s, a + 1, b)
           X == {i \in DOMAIN t : t[i] = LF}
           f == [i \in X |-> a + i]
<1>1. DOMAIN t = 1..(b - a) /\ \A i \in 1..(b - a) : t[i] = s[a + i]
  BY SubSeqFacts
<1>2. b \in Nat
  OBVIOUS
<1>3. X = {i \in 1..(b - a) : s[a + i] = LF}
  BY <1>1
<1> HIDE DEF t, X
<1>4. f \in [X -> LFs(s, a, b)]
  BY <1>2, <1>3 DEF LFs
<1>5. \A j, k \in X : f[j] = f[k] => j = k
  BY <1>2, <1>3
<1>6. ASSUME NEW m \in LFs(s, a, b) PROVE \E k \in X : f[k] = m
  <2>1. m - a \in X /\ f[m - a] = m
    BY <1>2, <1>3 DEF LFs
  <2> QED BY <2>1
<1>7. ExistsBijection(X, LFs(s, a, b))
  <2>1. f \in Bijection(X, LFs(s, a, b))
    BY <1>4, <1>5, <1>6, Fun_IsBij
  <2> QED BY <2>1 DEF ExistsBijection
<1>8. IsFiniteSet(X)
  <2>1. IsFiniteSet(1..(b - a))
    BY <1>2, FS_Interval
  <2> QED BY <1>3, <2>1, FS_Subset
<1>9. Cardinality(X) = Cardinality(LFs(s, a, b))
  BY <1>7, <1>8, FS_Bijection
<1>10. Newlines(t) = Cardinality(X)
  BY DEF Newlines, X
<1> QED BY <1>9, <1>10 DEF Count, t

\* The position after the k-th newline exists, and is found.
LEMMA AfterLineFinds ==
    ASSUME NEW s \in Seq(Nat), NEW k \in Nat, k <= Newlines(s)
    PROVE  /\ AfterLine(s, k) \in 0..Len(s)
           /\ AfterLine(s, k) > 0 => s[AfterLine(s, k)] = LF
           /\ Newlines(SubSeq(s, 1, AfterLine(s, k))) = k
<1> DEFINE T == {i \in 0..Len(s) : Count(s, 0, i) >= k}
<1>1. Len(s) \in Nat /\ SubSeq(s, 1, Len(s)) = s
  OBVIOUS
<1>2. \A i \in 0..Len(s) : Newlines(SubSeq(s, 1, i)) = Count(s, 0, i)
  <2>1. ASSUME NEW i \in 0..Len(s) PROVE Newlines(SubSeq(s, 0 + 1, i)) = Count(s, 0, i)
    BY <1>1, NewlinesOfPart
  <2> QED BY <2>1
<1>3. Len(s) \in T
  <2>1. Len(s) \in 0..Len(s)
    BY <1>1
  <2>2. Newlines(s) = Count(s, 0, Len(s))
    BY <1>1, <1>2, <2>1
  <2> QED BY <2>1, <2>2
<1>4. PICK i \in T : \A j \in T : i <= j
  <2>1. T \in SUBSET Nat /\ T # {}
    BY <1>1, <1>3
  <2> QED BY <2>1, LeastNat
<1>5. i \in 0..Len(s) /\ Count(s, 0, i) >= k /\ i \in Nat
  BY <1>4, <1>1
<1>6. (i > 0 => s[i] = LF) /\ Count(s, 0, i) = k
  <2>1. CASE i = 0
    BY <2>1, <1>5, CountNone
  <2>2. CASE i > 0
    <3>1. i - 1 \in Nat /\ i - 1 \in 0..Len(s) /\ i - 1 \notin T
      BY <1>1, <1>4, <1>5, <2>2
    <3>2. Count(s, 0, i - 1) \in Nat /\ Count(s, 0, i - 1) < k
      BY <3>1, CountType
    <3>3. Count(s, 0, i) = Count(s, 0, i - 1) + Count(s, i - 1, i)
      BY <1>5, <3>1, CountAdd
    <3>4. Count(s, i - 1, i) = IF s[i] = LF THEN 1 ELSE 0
      <4>1. (i - 1) + 1 = i
        BY <1>5
      <4>2. Count(s, i - 1, (i - 1) + 1) = IF s[(i - 1) + 1] = LF THEN 1 ELSE 0
        BY <3>1, CountOne
      <4> QED BY <4>1, <4>2
    <3> QED BY <1>5, <2>2, <3>2, <3>3, <3>4
  <2> QED BY <1>5, <2>1, <2>2
<1>7. \E n \in 0..Len(s) : (n > 0 => s[n] = LF) /\ Newlines(SubSeq(s, 1, n)) = k
  BY <1>2, <1>5, <1>6
<1> QED BY <1>7 DEF AfterLine

\* A block ends where the last one began, and is never empty.
LEMMA ReadsBefore ==
    ASSUME NEW s \in Seq(Nat), NEW o \in 1..Len(s)
    PROVE  /\ read(s, o).offset \in 0..(o - 1)
           /\ read(s, o).bytes = SubSeq(s, read(s, o).offset + 1, o)
           /\ Newlines(read(s, o).bytes) = Count(s, read(s, o).offset, o)
           /\ Newlines(read(s, o).bytes) \in Nat
<1>1. ReadBuf \in Nat \ {0} /\ Len(s) \in Nat /\ o \in Nat
  BY TailAssumption
<1> DEFINE start == IF o >= ReadBuf THEN o - ReadBuf ELSE 0
           end   == IF start + ReadBuf < Len(s) THEN start + ReadBuf ELSE Len(s)
           count == IF o < ReadBuf /\ o < end THEN o ELSE end - start
<1>5. read(s, o).offset = start /\ read(s, o).bytes = SubSeq(s, start + 1, start + count)
  BY DEF read
<1>6. start \in 0..(o - 1)
  BY <1>1
<1>7. start + count = o
  <2>1. CASE o >= ReadBuf
    <3>1. start = o - ReadBuf /\ start + ReadBuf = o
      BY <1>1, <2>1
    <3>2. end = o
      BY <1>1, <3>1
    <3>3. count = end - start
      BY <1>1, <2>1
    <3> HIDE DEF start, end, count
    <3> QED BY <1>1, <1>6, <3>2, <3>3
  <2>2. CASE o < ReadBuf
    <3>1. start = 0
      BY <1>1, <2>2
    <3>2. end \in Nat /\ o <= end /\ (ReadBuf < Len(s) => end = ReadBuf) /\ (~(ReadBuf < Len(s)) => end = Len(s))
      BY <1>1, <2>2, <3>1
    <3>3. count = IF o < end THEN o ELSE end
      <4> HIDE DEF start, end
      <4> QED BY <1>1, <2>2, <3>1, <3>2
    <3> HIDE DEF start, end, count
    <3> QED BY <1>1, <3>1, <3>2, <3>3
  <2>3. o >= ReadBuf \/ o < ReadBuf
    BY <1>1
  <2> HIDE DEF start, count
  <2> QED BY <2>1, <2>2, <2>3
<1>4. read(s, o).offset \in 0..(o - 1) /\ read(s, o).bytes = SubSeq(s, read(s, o).offset + 1, o)
  <2> HIDE DEF start, count
  <2> QED BY <1>5, <1>6, <1>7
<1>8. PICK a \in Nat : a = read(s, o).offset /\ a <= o
  BY <1>1, <1>4
<1>9. Newlines(SubSeq(s, a + 1, o)) = Count(s, a, o)
  <2>1. o \in 0..Len(s)
    BY <1>1
  <2> QED BY <1>8, <2>1, NewlinesOfPart
<1>10. Count(s, a, o) \in Nat
  BY <1>1, CountType
<1> QED BY <1>4, <1>8, <1>9, <1>10

LEMMA BlockBefore ==
    ASSUME NEW s \in Seq(Nat), NEW o \in 1..Len(s)
    PROVE  \E a \in Nat, n \in Nat, t \in Seq(Nat) :
               /\ a = read(s, o).offset /\ t = read(s, o).bytes /\ n = Newlines(t)
               /\ a < o /\ a \in 0..(o - 1)
               /\ n = Count(s, a, o)
               /\ Len(t) = o - a /\ \A i \in 1..(o - a) : t[i] = s[a + i]
<1> DEFINE a == read(s, o).offset
           t == read(s, o).bytes
           n == Newlines(t)
<1>1. a \in 0..(o - 1) /\ t = SubSeq(s, a + 1, o) /\ n = Count(s, a, o) /\ n \in Nat
  BY ReadsBefore
<1> HIDE DEF a, t, n
<1>2. a \in Nat /\ a < o /\ a <= o /\ o \in 0..Len(s)
  BY <1>1
<1>3. t \in Seq(Nat) /\ Len(t) = o - a /\ \A i \in 1..(o - a) : t[i] = s[a + i]
  BY <1>1, <1>2, SubSeqFacts
<1> QED BY <1>1, <1>2, <1>3 DEF a, t, n

-----------------------------------------------------------------------------
\* One round of the first loop of TailLine, which goes on as f says.
Round(s, line, f, o, l) ==
    IF o = 0 THEN 0
    ELSE LET block == read(s, o)
             total == l + Newlines(block.bytes)
         IN  IF total >= line
             THEN block.offset + AfterLine(block.bytes, total - line)
             ELSE f[block.offset][total]

Rounds(s, line, f) == [o \in 0..Len(s) |-> [l \in Nat |-> Round(s, line, f, o, l)]]
Seek(s, line) == CHOOSE f : f = Rounds(s, line, f)

LEMMA SeekIsSeek ==
    ASSUME NEW s, NEW offset, NEW line
    PROVE  TailSeek(s, offset, line) = Seek(s, line)[offset][0]
BY DEF TailSeek, Seek, Rounds, Round

\* A round looks at f only where its block begins.
LEMMA RoundUses ==
    ASSUME NEW s \in Seq(Nat), NEW line \in Nat, NEW o \in 0..Len(s), NEW l \in Nat,
           NEW f, NEW g, \A i \in 0..(o - 1) : f[i] = g[i]
    PROVE  Round(s, line, f, o, l) = Round(s, line, g, o, l)
<1>1. CASE o = 0
  BY <1>1 DEF Round
<1>2. CASE o # 0
  <2>1. o \in 1..Len(s)
    BY <1>2
  <2>2. f[read(s, o).offset] = g[read(s, o).offset]
    BY <2>1, ReadsBefore
  <2> QED BY <1>2, <2>2 DEF Round
<1> QED BY <1>1, <1>2

\* The loop ends: there is a function that goes on as it says itself.
LEMMA SeekExists ==
    ASSUME NEW s \in Seq(Nat), NEW line \in Nat
    PROVE  Seek(s, line) = Rounds(s, line, Seek(s, line))
<1> DEFINE Up(m, h) == \A o \in 0..m : h[o] = [l \in Nat |-> Round(s, line, h, o, l)]
           Bad == {m \in 0..Len(s) : ~ \E h : Up(m, h)}
<1>1. Len(s) \in Nat
  OBVIOUS
<1>2. Bad = {}
  <2>1. SUFFICES ASSUME Bad # {} PROVE FALSE
    OBVIOUS
  <2>2. PICK m \in Bad : \A n \in Bad : m <= n
    <3>1. Bad \in SUBSET Nat
      BY <1>1
    <3> QED BY <2>1, <3>1, LeastNat
  <2>3. m \in 0..Len(s) /\ m \in Nat
    BY <1>1, <2>2
  <2>4. PICK h : Up(m - 1, h)
    <3>1. CASE m = 0
      <4>1. 0..(m - 1) = {}
        BY <3>1
      <4> QED BY <4>1
    <3>2. CASE m > 0
      <4>1. m - 1 \in 0..Len(s) /\ ~(m <= m - 1)
        BY <1>1, <2>3, <3>2
      <4>2. m - 1 \notin Bad
        <5> HIDE DEF Bad
        <5> QED BY <2>2, <4>1
      <4> QED BY <4>1, <4>2
    <3>3. m = 0 \/ m > 0
      BY <2>3
    <3> HIDE DEF Up
    <3> QED BY <3>1, <3>2, <3>3
  <2> DEFINE g == [o \in 0..m |-> IF o < m THEN h[o] ELSE [l \in Nat |-> Round(s, line, h, m, l)]]
  <2>5. ASSUME NEW i \in 0..(m - 1) PROVE g[i] = h[i]
    <3>1. i \in 0..m /\ i < m
      BY <2>3
    <3> QED BY <3>1
  <2>6. g[m] = [l \in Nat |-> Round(s, line, h, m, l)]
    BY <2>3
  <2> HIDE DEF g
  <2>7. ASSUME NEW o \in 0..m PROVE g[o] = [l \in Nat |-> Round(s, line, g, o, l)]
    <3>1. g[o] = [l \in Nat |-> Round(s, line, h, o, l)]
      <4>1. o = m \/ o \in 0..(m - 1)
        BY <2>3
      <4> QED BY <4>1, <2>4, <2>5, <2>6
    <3>2. ASSUME NEW l \in Nat PROVE Round(s, line, h, o, l) = Round(s, line, g, o, l)
      <4>1. o \in 0..Len(s) /\ 0..(o - 1) \subseteq 0..(m - 1)
        BY <1>1, <2>3
      <4>2. \A i \in 0..(o - 1) : h[i] = g[i]
        BY <4>1, <2>5
      <4> QED BY <4>1, <4>2, RoundUses
    <3> QED BY <3>1, <3>2
  <2>8. Up(m, g)
    BY <2>7
  <2> QED BY <2>2, <2>8
<1>3. PICK h : Up(Len(s), h)
  <2>1. Len(s) \in 0..Len(s)
    BY <1>1
  <2>2. Len(s) \notin Bad
    <3> HIDE DEF Bad
    <3> QED BY <1>2
  <2> QED BY <2>1, <2>2
<1> DEFINE f == [o \in 0..Len(s) |-> h[o]]
<1>4. f = Rounds(s, line, f)
  <2>1. ASSUME NEW o \in 0..Len(s) PROVE f[o] = [l \in Nat |-> Round(s, line, f, o, l)]
    <3>1. f[o] = [l \in Nat |-> Round(s, line, h, o, l)]
      BY <1>3
    <3>2. \A i \in 0..(o - 1) : h[i] = f[i]
      BY <1>1
    <3> HIDE DEF f
    <3>3. ASSUME NEW l \in Nat PROVE Round(s, line, h, o, l) = Round(s, line, f, o, l)
      BY <3>2, RoundUses
    <3> QED BY <3>1, <3>3
  <2>2. f = [o \in 0..Len(s) |-> f[o]]
    OBVIOUS
  <2> HIDE DEF f
  <2> QED BY <2>1, <2>2 DEF Rounds
<1> QED BY <1>4 DEF Seek

\* A position at which the reader, that began at o after l newlines, may stop.
Stops(s, line, o, l, p) ==
    /\ p \in 0..o
    /\ \/ Count(s, p, o) + l = line
       \/ p = 0 /\ Count(s, 0, o) + l < line

\* The block is enough: the reader stops after a newline of it.
LEMMA StopsInBlock ==
    ASSUME NEW s \in Seq(Nat), NEW line \in Nat, NEW o \in 1..Len(s), NEW l \in Nat, l < line,
           l + Newlines(read(s, o).bytes) >= line
    PROVE  Stops(s, line, o, l, read(s, o).offset
               + AfterLine(read(s, o).bytes, l + Newlines(read(s, o).bytes) - line))
<1>1. Len(s) \in Nat /\ o \in Nat /\ o \in 0..Len(s)
  OBVIOUS
<1>2. PICK a \in Nat, n \in Nat, t \in Seq(Nat) :
          /\ a = read(s, o).offset /\ t = read(s, o).bytes /\ n = Newlines(t)
          /\ a < o /\ n = Count(s, a, o)
          /\ Len(t) = o - a /\ \A i \in 1..(o - a) : t[i] = s[a + i]
  BY BlockBefore
<1>3. l + n >= line
  BY <1>2
<1>4. l + n - line \in Nat /\ l + n - line <= n
  BY <1>3
<1>5. PICK i : i = AfterLine(t, l + n - line) /\ i \in 0..Len(t) /\ Newlines(SubSeq(t, 1, i)) = l + n - line
  BY <1>2, <1>4, AfterLineFinds
<1>6. i \in Nat /\ a + i \in 0..o /\ a + i \in Nat /\ a + i \in 0..Len(s) /\ i \in 0..(o - a)
  <2>1. i \in 0..(o - a) /\ a < o
    BY <1>2, <1>5
  <2> QED BY <1>1, <2>1
<1>7. SubSeq(t, 1, i) = SubSeq(s, a + 1, a + i)
  <2>1. SubSeq(t, 1, i) = [k \in 1..i |-> t[k]]
    BY <1>6
  <2>2. /\ SubSeq(s, a + 1, a + i) = [k \in DOMAIN SubSeq(s, a + 1, a + i) |-> SubSeq(s, a + 1, a + i)[k]]
        /\ DOMAIN SubSeq(s, a + 1, a + i) = 1..(a + i - a)
        /\ \A k \in 1..(a + i - a) : SubSeq(s, a + 1, a + i)[k] = s[a + k]
    <3>1. a <= a + i
      BY <1>6
    <3>2. /\ SubSeq(s, a + 1, a + i) \in Seq(Nat) /\ DOMAIN SubSeq(s, a + 1, a + i) = 1..(a + i - a)
          /\ \A k \in 1..(a + i - a) : SubSeq(s, a + 1, a + i)[k] = s[a + k]
      BY <1>6, <3>1, SubSeqFacts
    <3>3. ASSUME NEW u \in Seq(Nat) PROVE u = [k \in DOMAIN u |-> u[k]]
      OBVIOUS
    <3> QED BY <3>2, <3>3
  <2>3. a + i - a = i /\ 1..i \subseteq 1..(o - a)
    BY <1>6, <1>1
  <2>4. \A k \in 1..i : t[k] = s[a + k]
    BY <1>2, <2>3
  <2> QED BY <2>1, <2>2, <2>3, <2>4
<1>8. Count(s, a, a + i) = l + n - line
  <2>1. a <= a + i
    BY <1>6
  <2>2. Newlines(SubSeq(s, a + 1, a + i)) = Count(s, a, a + i)
    BY <1>6, <2>1, NewlinesOfPart
  <2> QED BY <1>5, <1>7, <2>2
<1>9. Count(s, a, o) = Count(s, a, a + i) + Count(s, a + i, o) /\ Count(s, a + i, o) \in Nat
  <2>1. a <= a + i /\ a + i <= o
    BY <1>6
  <2> QED BY <1>1, <1>6, <2>1, CountAdd, CountType
<1>10. Count(s, a + i, o) + l = line
  <2>1. n = (l + n - line) + Count(s, a + i, o) /\ Count(s, a + i, o) \in Nat
    BY <1>2, <1>8, <1>9
  <2>2. ASSUME NEW c \in Nat, n = (l + n - line) + c PROVE c + l = line
    BY <2>2
  <2> QED BY <2>1, <2>2, Zenon
<1> QED BY <1>2, <1>5, <1>6, <1>10 DEF Stops

\* The block is not enough: where it stops from the block before, it may.
LEMMA StopsBefore ==
    ASSUME NEW s \in Seq(Nat), NEW line \in Nat, NEW o \in 1..Len(s), NEW l \in Nat, NEW p,
           Stops(s, line, read(s, o).offset, l + Newlines(read(s, o).bytes), p)
    PROVE  Stops(s, line, o, l, p)
<1>1. Len(s) \in Nat /\ o \in Nat
  OBVIOUS
<1>2. PICK a \in Nat, n \in Nat :
          /\ a = read(s, o).offset /\ n = Newlines(read(s, o).bytes) /\ a < o /\ n = Count(s, a, o)
  BY BlockBefore
<1>3. p \in 0..a /\ (Count(s, p, a) + (l + n) = line \/ (p = 0 /\ Count(s, 0, a) + (l + n) < line))
  BY <1>2 DEF Stops
<1>4. p \in Nat /\ p <= a /\ a <= o /\ p \in 0..o
  BY <1>1, <1>2, <1>3
<1>5. Count(s, p, o) = Count(s, p, a) + n
  BY <1>1, <1>2, <1>4, CountAdd
<1>6. Count(s, p, a) \in Nat
  BY <1>2, <1>4, CountType
<1> QED BY <1>2, <1>3, <1>4, <1>5, <1>6 DEF Stops

LEMMA SeekStops ==
    ASSUME NEW s \in Seq(Nat), NEW line \in Nat, NEW offset \in 0..Len(s), NEW begin \in Nat,
           begin < line
    PROVE  Stops(s, line, offset, begin, Seek(s, line)[offset][begin])
<1> DEFINE f == Seek(s, line)
           Good(o) == \A l \in Nat : l < line => Stops(s, line, o, l, f[o][l])
           Bad == {o \in 0..Len(s) : ~Good(o)}
<1>1. Len(s) \in Nat
  OBVIOUS
<1>2. \A o \in 0..Len(s), l \in Nat : f[o][l] = Round(s, line, f, o, l)
  <2>1. f = Rounds(s, line, f)
    BY SeekExists
  <2>2. Rounds(s, line, f) = [o \in 0..Len(s) |-> [l \in Nat |-> Round(s, line, f, o, l)]]
    BY DEF Rounds
  <2> HIDE DEF f
  <2> QED BY <2>1, <2>2
<1> HIDE DEF f
<1>3. Bad = {}
  <2>1. SUFFICES ASSUME Bad # {} PROVE FALSE
    OBVIOUS
  <2>2. PICK o \in Bad : \A n \in Bad : o <= n
    <3>1. Bad \in SUBSET Nat
      BY <1>1
    <3> HIDE DEF Bad
    <3> QED BY <2>1, <3>1, LeastNat
  <2>3. o \in 0..Len(s) /\ o \in Nat
    BY <1>1, <2>2
  <2>4. ASSUME NEW a \in 0..(o - 1) PROVE Good(a)
    <3>1. a \in 0..Len(s) /\ ~(o <= a)
      BY <1>1, <2>3
    <3>2. a \notin Bad
      <4> HIDE DEF Bad
      <4> QED BY <2>2, <3>1
    <3> HIDE DEF Good
    <3> QED BY <3>1, <3>2
  <2>5. ASSUME NEW l \in Nat, l < line PROVE Stops(s, line, o, l, f[o][l])
    <3>1. f[o][l] = Round(s, line, f, o, l)
      BY <1>2, <2>3
    <3>2. CASE o = 0
      <4>1. f[o][l] = 0
        BY <3>1, <3>2 DEF Round
      <4>2. Count(s, 0, 0) = 0
        BY CountNone
      <4> QED BY <2>5, <3>2, <4>1, <4>2 DEF Stops
    <3>3. CASE o # 0
      <4>1. o \in 1..Len(s)
        BY <2>3, <3>3
      <4>2. PICK a \in 0..(o - 1), n \in Nat, t \in Seq(Nat) :
                a = read(s, o).offset /\ n = Newlines(t) /\ t = read(s, o).bytes
        BY <4>1, BlockBefore
      <4>3. Round(s, line, f, o, l) = IF l + n >= line THEN a + AfterLine(t, l + n - line) ELSE f[a][l + n]
        BY <3>3, <4>2 DEF Round
      <4>4. CASE l + n >= line
        <5>1. Stops(s, line, o, l, a + AfterLine(t, l + n - line))
          BY <2>5, <4>1, <4>2, <4>4, StopsInBlock
        <5> QED BY <3>1, <4>3, <4>4, <5>1
      <4>5. CASE ~(l + n >= line)
        <5>1. Stops(s, line, a, l + n, f[a][l + n])
          <6>1. l + n \in Nat /\ l + n < line /\ Good(a)
            BY <2>4, <4>5
          <6> QED BY <6>1
        <5>2. Stops(s, line, o, l, f[a][l + n])
          BY <4>1, <4>2, <5>1, StopsBefore
        <5> QED BY <3>1, <4>3, <4>5, <5>2
      <4> QED BY <4>4, <4>5
    <3> QED BY <3>2, <3>3
  <2>6. Good(o)
    BY <2>5
  <2> HIDE DEF Good
  <2> QED BY <2>2, <2>6
<1>4. offset \notin Bad
  <2> HIDE DEF Bad
  <2> QED BY <1>3
<1> QED BY <1>4 DEF f

LEMMA SeekCounts ==
    ASSUME NEW s \in Seq(Nat), NEW offset \in 0..Len(s), NEW line \in Nat \ {0}
    PROVE  /\ TailSeek(s, offset, line) \in 0..offset
           /\ \/ Newlines(SubSeq(s, TailSeek(s, offset, line) + 1, offset)) = line
              \/ /\ TailSeek(s, offset, line) = 0
                 /\ Newlines(SubSeq(s, TailSeek(s, offset, line) + 1, offset)) < line
<1> DEFINE p == TailSeek(s, offset, line)
<1>1. Stops(s, line, offset, 0, p)
  <2>1. 0 \in Nat /\ 0 < line /\ line \in Nat
    OBVIOUS
  <2> QED BY <2>1, SeekStops, SeekIsSeek
<1> HIDE DEF p
<1>2. p \in 0..offset /\ (Count(s, p, offset) + 0 = line \/ (p = 0 /\ Count(s, p, offset) + 0 < line))
  BY <1>1 DEF Stops
<1>3. p \in Nat /\ p <= offset /\ offset \in Nat
  BY <1>2
<1>4. Newlines(SubSeq(s, p + 1, offset)) = Count(s, p, offset) /\ Count(s, p, offset) \in Nat
  BY <1>3, NewlinesOfPart, CountType
<1> QED BY <1>2, <1>4 DEF p

\* What tail prints are bytes of the file.
LEMMA FromType ==
    ASSUME NEW s \in Seq(Nat), NEW p \in Nat PROVE From(s, p) \in Seq(Nat)
<1>1. CASE p <= Len(s)
  <2>1. Len(s) \in 0..Len(s) /\ p \in 0..Len(s)
    BY <1>1
  <2> QED BY <1>1, <2>1, SubSeqFacts DEF From
<1>2. CASE ~(p <= Len(s))
  <2>1. From(s, p) = <<>>
    BY <1>2 DEF From
  <2> QED BY <2>1
<1> QED BY <1>1, <1>2

LEMMA BeginningType ==
    ASSUME NEW s \in Seq(Nat), NEW i \in 0..Len(s) PROVE SubSeq(s, 1, i) \in Seq(Nat)
<1>1. 0 <= i /\ 0 + 1 = 1 /\ 0 \in 0..Len(s)
  OBVIOUS
<1>2. SubSeq(s, 0 + 1, i) \in Seq(Nat)
  BY <1>1, SubSeqFacts
<1> QED BY <1>1, <1>2

LEMMA FirstLinesType ==
    ASSUME NEW s \in Seq(Nat), NEW lines \in Int
    PROVE  FirstLines(s, lines) \in Seq(Nat)
<1>1. Len(s) \in Nat /\ SubSeq(s, 1, Len(s)) = s
  OBVIOUS
<1>2. Newlines(s) \in Nat
  <2>1. Len(s) \in 0..Len(s) /\ 0 <= Len(s)
    BY <1>1
  <2>2. Newlines(SubSeq(s, 0 + 1, Len(s))) = Count(s, 0, Len(s))
    BY <2>1, NewlinesOfPart
  <2>3. Count(s, 0, Len(s)) \in Nat
    BY <1>1, CountType
  <2>4. SubSeq(s, 0 + 1, Len(s)) = s
    BY <1>1
  <2> QED BY <2>2, <2>3, <2>4
<1> DEFINE n == IF lines < Newlines(s) THEN lines ELSE Newlines(s)
<1>3. n \in Int /\ n <= Newlines(s)
  BY <1>2
<1>4. FirstLines(s, lines) = IF n < 0 THEN <<>> ELSE SubSeq(s, 1, AfterLine(s, n))
  BY DEF FirstLines
<1> HIDE DEF n
<1>5. CASE n < 0
  <2>1. <<>> \in Seq(Nat)
    OBVIOUS
  <2> QED BY <1>4, <1>5, <2>1
<1>6. CASE ~(n < 0)
  <2>1. n \in Nat
    BY <1>3, <1>6
  <2>2. AfterLine(s, n) \in 0..Len(s)
    BY <1>3, <2>1, AfterLineFinds
  <2> QED BY <1>4, <1>6, <2>2, BeginningType
<1> QED BY <1>5, <1>6

LEMMA TailLineType ==
    ASSUME NEW s \in Seq(Nat), NEW line \in Nat \ {0}, NEW lines \in Int
    PROVE  TailLine(s, StartOffset(s), line, lines) \in Seq(Nat)
<1>1. 0 \in 0..Len(s)
  OBVIOUS
<1>2. TailSeek(s, 0, line) \in Nat
  BY <1>1, SeekCounts
<1>3. PICK rest : rest = From(s, TailSeek(s, 0, line))
  OBVIOUS
<1>4. rest \in Seq(Nat)
  BY <1>2, <1>3, FromType
<1>5. TailLine(s, StartOffset(s), line, lines) = IF lines = 0 THEN rest ELSE FirstLines(rest, lines)
  BY <1>3 DEF TailLine, StartOffset
<1> QED BY <1>4, <1>5, FirstLinesType

LEMMA ReadAtType ==
    ASSUME NEW s \in Seq(Nat), NEW offset \in Int, NEW size \in Int, NEW lines \in Int
    PROVE  ReadAt(s, offset, size, lines) \in Seq(Nat)
<1>1. <<>> \in Seq(Nat) /\ (IF offset < 0 THEN 0 ELSE offset) \in Nat
  OBVIOUS
<1>2. PICK rest : rest = From(s, IF offset < 0 THEN 0 ELSE offset)
  OBVIOUS
<1>3. rest \in Seq(Nat) /\ FirstLines(rest, lines) \in Seq(Nat)
  BY <1>1, <1>2, FromType, FirstLinesType
<1>4. size > 0 => SubSeq(rest, 1, IF size < Len(rest) THEN size ELSE Len(rest)) \in Seq(Nat)
  <2>1. size > 0 => (IF size < Len(rest) THEN size ELSE Len(rest)) \in 0..Len(rest)
    BY <1>3
  <2> QED BY <1>3, <2>1, BeginningType
<1> QED BY <1>1, <1>2, <1>3, <1>4 DEF ReadAt

LEMMA ParseCompanyType ==
    ASSUME NEW c, c.num \in Seq(Int) PROVE parseCompany(c) \in Int
<1>1. CASE c.num = <<>>
  BY <1>1 DEF parseCompany
<1>2. CASE c.num # <<>>
  <2>1. c.num[1] \in Int
    BY <1>2
  <2> DEFINE company == CASE c.unit \in {"k", "kb"} -> 1024
                          [] c.unit \in {"m", "mb"} -> 1048576
                          [] OTHER -> 1
  <2>2. company \in Int
    OBVIOUS
  <2>3. parseCompany(c) = IF c = NoSize THEN 0 ELSE IF c.num = <<>> THEN -1 ELSE c.num[1] * company
    BY DEF parseCompany
  <2> HIDE DEF company
  <2>4. c.num[1] * company \in Int
    BY <2>1, <2>2
  <2> QED BY <1>2, <2>3, <2>4
<1> QED BY <1>1, <1>2

-----------------------------------------------------------------------------
(***************************************************************************)
(* tail: its run.                                                          *)
(***************************************************************************)
\* Files hold bytes, and the file is there when it is read.
TailInv ==
    cmd = "tail" =>
        /\ opt \in TailOptions
        /\ \A p \in DOMAIN disk : disk[p].data \in Seq(Nat)
        /\ pc = "tail" => Exists("f")

LEMMA TailSteps ==
    [Next]_vars /\ cmd = "tail" => OpenTail \/ RunTail \/ UNCHANGED vars
  BY DEF Next, Step, TailNext, Arrive, FileVanishes, Terminated

LEMMA TailInitInv == Init => TailInv
<1> SUFFICES ASSUME Init, cmd = "tail" PROVE TailInv
  BY DEF TailInv
<1>1. TailInit
  BY DEF Init
<1>2. opt \in TailOptions /\ pc = "open"
  BY <1>1 DEF TailInit
<1>3. \A p \in DOMAIN disk : disk[p].data \in Seq(Nat)
  <2>1. CASE disk = <<>>
    BY <2>1
  <2>2. ASSUME NEW s \in TailFiles, disk = Only("f", s)
        PROVE  \A p \in DOMAIN disk : disk[p].data \in Seq(Nat)
    <3>1. s \in Seq(Nat)
      BY TailAssumption
    <3> QED BY <2>2, <3>1 DEF Only, File
  <2> QED BY <1>1, <2>1, <2>2 DEF TailInit
<1> QED BY <1>2, <1>3 DEF TailInv

\* A run writes bytes, or panics.
LEMMA TailEmits ==
    ASSUME TailInv, cmd = "tail", RunTail
    PROVE  \/ Panic /\ UNCHANGED <<disk, out>>
           \/ \E bytes \in Seq(Nat) : Emit(bytes)
<1> DEFINE s == disk["f"].data
           Written == \E bytes \in Seq(Nat) : Emit(bytes)
<1>1. pc = "tail" /\ Exists("f") /\ opt \in TailOptions
  BY DEF RunTail, TailInv
<1>2. s \in Seq(Nat)
  BY <1>1 DEF TailInv, Exists
<1>o. opt.Line \in Int /\ opt.Lines \in Int /\ opt.Size.num \in Seq(Int) /\ opt.Offset.num \in Seq(Int)
  BY <1>1, TailAssumption
<1>4. Emit(<<>>) => Written
  <2>1. <<>> \in Seq(Nat)
    OBVIOUS
  <2> QED BY <2>1
<1>5. ASSUME opt.Line > 0, Emit(TailLine(s, StartOffset(s), opt.Line, opt.Lines))
      PROVE  Written
  <2>1. opt.Line \in Nat \ {0}
    BY <1>5, <1>o
  <2>2. TailLine(s, StartOffset(s), opt.Line, opt.Lines) \in Seq(Nat)
    BY <1>2, <1>o, <2>1, TailLineType
  <2> QED BY <1>5, <2>2
<1>6. ASSUME Emit(ReadAt(s, parseCompany(opt.Offset), parseCompany(opt.Size), opt.Lines))
      PROVE  Written
  <2>1. parseCompany(opt.Offset) \in Int /\ parseCompany(opt.Size) \in Int
    BY <1>o, ParseCompanyType
  <2>2. ReadAt(s, parseCompany(opt.Offset), parseCompany(opt.Size), opt.Lines) \in Seq(Nat)
    BY <1>2, <1>o, <2>1, ReadAtType
  <2> QED BY <1>6, <2>2
<1> HIDE DEF Written
<1> QED BY <1>4, <1>5, <1>6 DEF RunTail, Written

LEMMA TailNextInv == TailInv /\ [Next]_vars => TailInv'
<1> SUFFICES ASSUME TailInv, [Next]_vars, cmd = "tail" PROVE TailInv'
  BY CommandKept DEF TailInv
<1>0. opt \in TailOptions /\ (\A p \in DOMAIN disk : disk[p].data \in Seq(Nat))
  BY DEF TailInv
<1>1. ASSUME NEW bytes \in Seq(Nat), disk' = With(disk, opt.Output, File(bytes))
      PROVE  /\ \A p \in DOMAIN disk' : disk'[p].data \in Seq(Nat)
             /\ DOMAIN disk \subseteq DOMAIN disk'
  BY <1>0, <1>1 DEF With, File
<1>2. CASE OpenTail
  <2>1. /\ UNCHANGED opt
        /\ UNCHANGED disk \/ disk' = With(disk, opt.Output, File(<<>>))
        /\ pc' = "returned" \/ (pc' = "tail" /\ Exists("f"))
    BY <1>2 DEF OpenTail, Return
  <2>2. <<>> \in Seq(Nat)
    OBVIOUS
  <2> QED BY <1>0, <1>1, <2>1, <2>2 DEF TailInv, Exists
<1>3. CASE RunTail
  <2>1. UNCHANGED opt
    BY <1>3 DEF RunTail
  <2>2. CASE Panic /\ UNCHANGED <<disk, out>>
    BY <1>0, <2>1, <2>2 DEF Panic, TailInv
  <2>3. ASSUME NEW bytes \in Seq(Nat), Emit(bytes) PROVE TailInv'
    <3>1. /\ pc' = "returned"
          /\ UNCHANGED disk \/ disk' = With(disk, opt.Output, File(bytes))
      BY <2>3 DEF Emit, Return
    <3> QED BY <1>0, <1>1, <2>1, <3>1 DEF TailInv
  <2> QED BY <1>3, <2>2, <2>3, TailEmits
<1>4. CASE UNCHANGED vars
  BY <1>4 DEF vars, TailInv, Exists
<1> QED BY <1>2, <1>3, <1>4, TailSteps

\* For files and blocks of any size, and any number of lines: the backward
\* reader stops with exactly the newlines asked for between its position and
\* where it began, or at the start of the file when there are fewer.
THEOREM BackwardReaderCountsHolds == Spec => []BackwardReaderCounts
<1>1. TailInv => BackwardReaderCounts
  <2> SUFFICES ASSUME TailInv, cmd = "tail", Exists("f") PROVE BackwardReaderCounts
    BY DEF BackwardReaderCounts
  <2> DEFINE s == disk["f"].data
  <2>1. s \in Seq(Nat)
    BY DEF TailInv, Exists
  <2> HIDE DEF s
  <2>2. ASSUME NEW offset \in 0..Len(s), NEW line \in 1..(Len(s) + 1)
        PROVE  /\ TailSeek(s, offset, line) <= offset
               /\ \/ Newlines(SubSeq(s, TailSeek(s, offset, line) + 1, offset)) = line
                  \/ /\ TailSeek(s, offset, line) = 0
                     /\ Newlines(SubSeq(s, TailSeek(s, offset, line) + 1, offset)) < line
    <3>1. line \in Nat \ {0}
      BY <2>1
    <3>2. /\ TailSeek(s, offset, line) \in 0..offset
          /\ \/ Newlines(SubSeq(s, TailSeek(s, offset, line) + 1, offset)) = line
             \/ /\ TailSeek(s, offset, line) = 0
                /\ Newlines(SubSeq(s, TailSeek(s, offset, line) + 1, offset)) < line
      BY <2>1, <3>1, SeekCounts
    <3>3. \A p \in 0..offset : p <= offset
      OBVIOUS
    <3> QED BY <3>2, <3>3
  <2> QED BY <2>2 DEF BackwardReaderCounts, s
<1> QED BY TailInitInv, TailNextInv, <1>1, PTL DEF Spec

-----------------------------------------------------------------------------
(***************************************************************************)
(* mail: what is written of an attachment.                                 *)
(***************************************************************************)
WrapStart == [pos |-> 0, buffer |-> Zeros(MaxRaw), written |-> <<>>]

\* A round of base64Wrap.
WrapRound(s, last) ==
    LET count == ReadCount(s, last.pos, MaxRaw)
        next  == Refill(last.buffer, s, last.pos, count)
    IN  IF count = 0 THEN last
        ELSE [pos |-> last.pos + count, buffer |-> next, written |-> last.written \o next]

WrapRounds(s, f) == [n \in 0..Len(s) |-> IF n = 0 THEN WrapStart ELSE WrapRound(s, f[n - 1])]
Wrapped(s) == CHOOSE f : f = WrapRounds(s, f)

LEMMA WrapIsWrap == ASSUME NEW s PROVE base64Wrap(s) = Wrapped(s)[Len(s)].written
BY DEF base64Wrap, Wrapped, WrapRounds, WrapRound, WrapStart

LEMMA WrapExists ==
    ASSUME NEW s \in Seq(Nat) PROVE Wrapped(s) = WrapRounds(s, Wrapped(s))
<1> DEFINE Up(m, h) == \A n \in 0..m : h[n] = IF n = 0 THEN WrapStart ELSE WrapRound(s, h[n - 1])
           Bad == {m \in 0..Len(s) : ~ \E h : Up(m, h)}
<1>1. Len(s) \in Nat
  OBVIOUS
<1>2. Bad = {}
  <2>1. SUFFICES ASSUME Bad # {} PROVE FALSE
    OBVIOUS
  <2>2. PICK m \in Bad : \A n \in Bad : m <= n
    <3>1. Bad \in SUBSET Nat
      BY <1>1
    <3> HIDE DEF Bad
    <3> QED BY <2>1, <3>1, LeastNat
  <2>3. m \in 0..Len(s) /\ m \in Nat
    BY <1>1, <2>2
  <2>4. PICK h : Up(m - 1, h)
    <3>1. CASE m = 0
      <4>1. 0..(m - 1) = {}
        BY <3>1
      <4> QED BY <4>1
    <3>2. CASE m > 0
      <4>1. m - 1 \in 0..Len(s) /\ ~(m <= m - 1)
        BY <1>1, <2>3, <3>2
      <4>2. m - 1 \notin Bad
        <5> HIDE DEF Bad
        <5> QED BY <2>2, <4>1
      <4> QED BY <4>1, <4>2
    <3>3. m = 0 \/ m > 0
      BY <2>3
    <3> HIDE DEF Up
    <3> QED BY <3>1, <3>2, <3>3
  <2> DEFINE g == [n \in 0..m |-> IF n < m THEN h[n]
                                  ELSE IF m = 0 THEN WrapStart ELSE WrapRound(s, h[m - 1])]
  <2>5. ASSUME NEW i \in 0..(m - 1) PROVE g[i] = h[i]
    <3>1. i \in 0..m /\ i < m
      BY <2>3
    <3> QED BY <3>1
  <2>6. g[m] = IF m = 0 THEN WrapStart ELSE WrapRound(s, h[m - 1])
    BY <2>3
  <2> HIDE DEF g
  <2>7. ASSUME NEW n \in 0..m PROVE g[n] = IF n = 0 THEN WrapStart ELSE WrapRound(s, g[n - 1])
    <3>1. g[n] = IF n = 0 THEN WrapStart ELSE WrapRound(s, h[n - 1])
      <4>1. n = m \/ n \in 0..(m - 1)
        BY <2>3
      <4> QED BY <4>1, <2>4, <2>5, <2>6
    <3>2. n = 0 \/ n - 1 \in 0..(m - 1)
      BY <2>3
    <3>3. n = 0 \/ g[n - 1] = h[n - 1]
      BY <3>2, <2>5
    <3> QED BY <3>1, <3>3
  <2>8. Up(m, g)
    BY <2>7
  <2> QED BY <2>2, <2>8
<1>3. PICK h : Up(Len(s), h)
  <2>1. Len(s) \in 0..Len(s)
    BY <1>1
  <2>2. Len(s) \notin Bad
    <3> HIDE DEF Bad
    <3> QED BY <1>2
  <2> QED BY <2>1, <2>2
<1> DEFINE f == [n \in 0..Len(s) |-> h[n]]
<1>4. f = WrapRounds(s, f)
  <2>1. ASSUME NEW n \in 0..Len(s) PROVE f[n] = IF n = 0 THEN WrapStart ELSE WrapRound(s, f[n - 1])
    <3>1. f[n] = IF n = 0 THEN WrapStart ELSE WrapRound(s, h[n - 1])
      BY <1>3
    <3>2. n = 0 \/ n - 1 \in 0..Len(s)
      BY <1>1
    <3>3. n = 0 \/ f[n - 1] = h[n - 1]
      BY <3>2
    <3> HIDE DEF f
    <3> QED BY <3>1, <3>3
  <2>2. f = [n \in 0..Len(s) |-> f[n]]
    OBVIOUS
  <2> HIDE DEF f
  <2> QED BY <2>1, <2>2 DEF WrapRounds
<1> QED BY <1>4 DEF Wrapped

\* After n rounds the bytes read so far are written, and no others unless the
\* file has been read to its end.
WrapOK(s, n, v) ==
    /\ v.pos \in 0..Len(s) /\ (v.pos >= n \/ v.pos = Len(s))
    /\ v.buffer \in [1..MaxRaw -> Nat]
    /\ v.written \in Seq(Nat)
    /\ Len(v.written) - v.pos \in 0..(MaxRaw - 1)
    /\ v.pos < Len(s) => Len(v.written) = v.pos
    /\ \A i \in 1..v.pos : v.written[i] = s[i]

LEMMA ReadCountFacts ==
    ASSUME NEW s \in Seq(Nat), NEW i \in 0..Len(s), NEW size \in Nat \ {0}
    PROVE  /\ ReadCount(s, i, size) \in 0..size /\ i + ReadCount(s, i, size) \in 0..Len(s)
           /\ ReadCount(s, i, size) = 0 => i = Len(s)
           /\ ReadCount(s, i, size) < size => i + ReadCount(s, i, size) = Len(s)
<1>1. Len(s) \in Nat /\ i \in Nat
  OBVIOUS
<1>2. ReadCount(s, i, size) = IF i + size <= Len(s) THEN size ELSE IF i < Len(s) THEN Len(s) - i ELSE 0
  BY DEF ReadCount
<1> QED BY <1>1, <1>2

LEMMA WrapRoundKeeps ==
    ASSUME NEW s \in Seq(Nat), NEW n \in Nat, NEW v, WrapOK(s, n, v)
    PROVE  WrapOK(s, n + 1, WrapRound(s, v))
<1>1. MaxRaw \in Nat \ {0} /\ Len(s) \in Nat
  BY MailAssumption
<1>2. PICK i \in 0..Len(s), count \in 0..MaxRaw :
          /\ i = v.pos /\ count = ReadCount(s, v.pos, MaxRaw) /\ i + count \in 0..Len(s)
          /\ count = 0 => i = Len(s)
          /\ count < MaxRaw => i + count = Len(s)
  <2>1. PICK i \in 0..Len(s) : i = v.pos
    BY DEF WrapOK
  <2>2. /\ ReadCount(s, i, MaxRaw) \in 0..MaxRaw /\ i + ReadCount(s, i, MaxRaw) \in 0..Len(s)
        /\ ReadCount(s, i, MaxRaw) = 0 => i = Len(s)
        /\ ReadCount(s, i, MaxRaw) < MaxRaw => i + ReadCount(s, i, MaxRaw) = Len(s)
    BY <1>1, ReadCountFacts
  <2> QED BY <2>1, <2>2, Zenon
<1>3. PICK b \in [1..MaxRaw -> Nat], w \in Seq(Nat) : b = v.buffer /\ w = v.written
  BY DEF WrapOK
<1>4. /\ i >= n \/ i = Len(s)
      /\ Len(w) - i \in 0..(MaxRaw - 1) /\ (i < Len(s) => Len(w) = i)
      /\ \A k \in 1..i : w[k] = s[k]
  BY <1>2, <1>3 DEF WrapOK
<1>7. /\ i \in Nat /\ count \in Nat /\ count <= MaxRaw /\ i + count <= Len(s)
      /\ count < MaxRaw => i + count = Len(s)
  BY <1>1, <1>2
<1>5. CASE count = 0
  <2>1. WrapRound(s, v) = v
    BY <1>2, <1>5 DEF WrapRound
  <2>2. i = Len(s)
    BY <1>2, <1>5
  <2> QED BY <2>1, <2>2, <1>2 DEF WrapOK
<1>6. CASE count # 0
  <2> DEFINE next == Refill(b, s, i, count)
             u    == WrapRound(s, v)
  <2>1. u = [pos |-> i + count, buffer |-> next, written |-> w \o next]
    BY <1>2, <1>3, <1>6 DEF WrapRound
  <2>2. next \in [1..MaxRaw -> Nat] /\ \A k \in 1..count : next[k] = s[i + k]
    <3>1. next = [k \in 1..MaxRaw |-> IF k <= count THEN s[i + k] ELSE b[k]]
      BY DEF Refill
    <3>2. ASSUME NEW k \in 1..MaxRaw, k <= count PROVE s[i + k] \in Nat
      <4>1. i + k \in 1..Len(s)
        BY <1>1, <1>7, <3>2
      <4> QED BY <4>1
    <3>3. \A k \in 1..count : k \in 1..MaxRaw /\ k <= count
      BY <1>1
    <3> HIDE DEF next
    <3> QED BY <3>1, <3>2, <3>3
  <2> HIDE DEF next, u
  <2>3. next \in Seq(Nat) /\ Len(next) = MaxRaw
    BY <1>1, <2>2
  <2>4. i < Len(s) /\ Len(w) = i
    <3>1. i < Len(s)
      BY <1>1, <1>2, <1>6
    <3> QED BY <3>1, <1>4
  <2>5. /\ w \o next \in Seq(Nat) /\ Len(w \o next) = i + MaxRaw
        /\ \A k \in 1..(i + MaxRaw) : (w \o next)[k] = IF k <= i THEN w[k] ELSE next[k - i]
    <3>1. w \o next \in Seq(Nat) /\ Len(w \o next) = Len(w) + Len(next)
      BY <2>3
    <3>2. \A k \in 1..(Len(w) + Len(next)) : (w \o next)[k] = IF k <= Len(w) THEN w[k] ELSE next[k - Len(w)]
      BY <2>3
    <3> QED BY <3>1, <3>2, <2>3, <2>4
  <2>6. ASSUME NEW k \in 1..(i + count) PROVE (w \o next)[k] = s[k]
    <3>1. k \in 1..(i + MaxRaw)
      BY <1>1, <1>7
    <3>2. CASE k <= i
      <4>1. k \in 1..i
        BY <3>2
      <4> QED BY <1>4, <2>5, <3>1, <3>2, <4>1
    <3>3. CASE ~(k <= i)
      <4>1. k - i \in 1..count /\ i + (k - i) = k
        BY <3>3, <1>2
      <4> QED BY <2>2, <2>5, <3>1, <3>3, <4>1
    <3> QED BY <3>2, <3>3
  <2>7. /\ i + count >= n + 1 \/ i + count = Len(s)
        /\ (i + MaxRaw) - (i + count) \in 0..(MaxRaw - 1)
        /\ i + count < Len(s) => i + MaxRaw = i + count
    <3>1. count > 0 /\ (i >= n \/ i = Len(s))
      BY <1>4, <1>6, <1>7
    <3> QED BY <1>1, <1>7, <2>4, <3>1
  <2>8. u.pos = i + count /\ u.buffer = next /\ u.written = w \o next
    BY <2>1
  <2>9. WrapOK(s, n + 1, u)
    BY <1>2, <2>2, <2>5, <2>6, <2>7, <2>8 DEF WrapOK
  <2> QED BY <2>9 DEF u
<1> QED BY <1>5, <1>6

\* An attachment arrives with its bytes, and fewer than a line after them.
LEMMA WrapFacts ==
    ASSUME NEW s \in Seq(Nat)
    PROVE  /\ base64Wrap(s) \in Seq(Nat)
           /\ Len(base64Wrap(s)) - Len(s) \in 0..(MaxRaw - 1)
           /\ SubSeq(base64Wrap(s), 1, Len(s)) = s
<1> DEFINE f == Wrapped(s)
           Bad == {n \in 0..Len(s) : ~WrapOK(s, n, f[n])}
<1>1. MaxRaw \in Nat \ {0} /\ Len(s) \in Nat
  BY MailAssumption
<1>2. \A n \in 0..Len(s) : f[n] = IF n = 0 THEN WrapStart ELSE WrapRound(s, f[n - 1])
  <2>1. f = WrapRounds(s, f)
    BY WrapExists
  <2>2. WrapRounds(s, f) = [n \in 0..Len(s) |-> IF n = 0 THEN WrapStart ELSE WrapRound(s, f[n - 1])]
    BY DEF WrapRounds
  <2> HIDE DEF f
  <2> QED BY <2>1, <2>2
<1> HIDE DEF f
<1>3. WrapOK(s, 0, WrapStart)
  <2>1. Zeros(MaxRaw) \in [1..MaxRaw -> Nat] /\ <<>> \in Seq(Nat) /\ Len(<<>>) = 0
    BY DEF Zeros
  <2> QED BY <1>1, <2>1 DEF WrapOK, WrapStart
<1>4. Bad = {}
  <2>1. SUFFICES ASSUME Bad # {} PROVE FALSE
    OBVIOUS
  <2>2. PICK n \in Bad : \A m \in Bad : n <= m
    <3>1. Bad \in SUBSET Nat
      BY <1>1
    <3> HIDE DEF Bad
    <3> QED BY <2>1, <3>1, LeastNat
  <2>3. n \in 0..Len(s) /\ n \in Nat /\ ~WrapOK(s, n, f[n])
    BY <1>1, <2>2
  <2>4. CASE n = 0
    BY <1>2, <1>3, <2>3, <2>4
  <2>5. CASE n # 0
    <3>1. n - 1 \in Nat /\ n - 1 \in 0..Len(s) /\ ~(n <= n - 1) /\ (n - 1) + 1 = n
      BY <1>1, <2>3, <2>5
    <3>2. n - 1 \notin Bad
      <4> HIDE DEF Bad
      <4> QED BY <2>2, <3>1
    <3>3. WrapOK(s, n - 1, f[n - 1])
      BY <3>1, <3>2
    <3>4. WrapOK(s, (n - 1) + 1, WrapRound(s, f[n - 1]))
      BY <3>1, <3>3, WrapRoundKeeps
    <3> QED BY <1>2, <2>3, <2>5, <3>1, <3>4
  <2> QED BY <2>4, <2>5
<1>5. WrapOK(s, Len(s), f[Len(s)])
  <2>1. Len(s) \in 0..Len(s)
    BY <1>1
  <2>2. Len(s) \notin Bad
    <3> HIDE DEF Bad
    <3> QED BY <1>4
  <2> QED BY <2>1, <2>2
<1>6. PICK w \in Seq(Nat) : w = base64Wrap(s) /\ Len(w) - Len(s) \in 0..(MaxRaw - 1)
                            /\ \A i \in 1..Len(s) : w[i] = s[i]
  <2>1. base64Wrap(s) = f[Len(s)].written
    BY WrapIsWrap DEF f
  <2>2. f[Len(s)].pos = Len(s)
    BY <1>1, <1>5 DEF WrapOK
  <2> QED BY <1>5, <2>1, <2>2 DEF WrapOK
<1>7. SubSeq(w, 1, Len(s)) = s
  <2>1. SubSeq(w, 1, Len(s)) = [i \in 1..Len(s) |-> w[i]]
    BY <1>1, <1>6
  <2>2. s = [i \in 1..Len(s) |-> s[i]]
    OBVIOUS
  <2> QED BY <1>6, <2>1, <2>2
<1> QED BY <1>6, <1>7

-----------------------------------------------------------------------------
(***************************************************************************)
(* mail: the parts of a message.                                           *)
(***************************************************************************)
Kinds == {"headers", "alternative", "--B", "--S", "--S--", "text", "file"}
Parts == [kind : Kinds, bytes : Seq(Nat)]
FilesOf(message) == {i \in DOMAIN message : message[i].kind = "file"}

\* Places 2, 4, ... after the first c, up to the k-th.
Even(c, k) == {c + 2 * j : j \in 1..k}

LEMMA EvenCard ==
    ASSUME NEW c \in Nat, NEW k \in Nat
    PROVE  IsFiniteSet(Even(c, k)) /\ Cardinality(Even(c, k)) = k
<1> DEFINE f == [j \in 1..k |-> c + 2 * j]
<1>1. f \in [1..k -> Even(c, k)]
  BY DEF Even
<1>2. \A i, j \in 1..k : f[i] = f[j] => i = j
  OBVIOUS
<1>3. ASSUME NEW x \in Even(c, k) PROVE \E j \in 1..k : f[j] = x
  BY DEF Even
<1>4. ExistsBijection(1..k, Even(c, k))
  <2>1. f \in Bijection(1..k, Even(c, k))
    BY <1>1, <1>2, <1>3, Fun_IsBij
  <2> QED BY <2>1 DEF ExistsBijection
<1>5. IsFiniteSet(1..k) /\ Cardinality(1..k) = k
  BY FS_Interval
<1> QED BY <1>4, <1>5, FS_Bijection

LEMMA FileParts ==
    ASSUME NEW pre \in Seq(Parts), NEW n \in Nat, NEW att \in Seq(Parts), Len(att) = 2 * n,
           \A i \in DOMAIN pre : pre[i].kind # "file",
           \A i \in 1..(2 * n) : att[i].kind = "file" <=> i % 2 = 0
    PROVE  /\ Cardinality(FilesOf(pre \o att)) = n
           /\ \A i \in FilesOf(pre \o att) : \E k \in 1..n :
                  /\ Cardinality(FilesOf(pre \o att) \cap (1..i)) = k
                  /\ (pre \o att)[i] = att[2 * k]
           /\ \A i \in DOMAIN pre : i \in DOMAIN (pre \o att) /\ (pre \o att)[i] = pre[i]
<1> DEFINE c == Len(pre)
           m == pre \o att
<1>1. c \in Nat /\ DOMAIN pre = 1..c
  OBVIOUS
<1>2. DOMAIN m = 1..(c + 2 * n) /\ \A i \in 1..(c + 2 * n) : m[i] = IF i <= c THEN pre[i] ELSE att[i - c]
  <2>1. Len(m) = Len(pre) + Len(att) /\ m \in Seq(Parts)
    OBVIOUS
  <2>2. \A i \in 1..(Len(pre) + Len(att)) : m[i] = IF i <= Len(pre) THEN pre[i] ELSE att[i - Len(pre)]
    OBVIOUS
  <2> QED BY <2>1, <2>2
<1> HIDE DEF c, m
<1>3. FilesOf(m) = Even(c, n)
  <2>1. ASSUME NEW i \in FilesOf(m) PROVE i \in Even(c, n)
    <3>1. i \in 1..(c + 2 * n) /\ m[i].kind = "file"
      BY <1>2 DEF FilesOf
    <3>2. ~(i <= c)
      <4>1. i <= c => i \in DOMAIN pre /\ m[i] = pre[i]
        BY <1>1, <1>2, <3>1
      <4> QED BY <3>1, <4>1
    <3>3. i - c \in 1..(2 * n) /\ m[i] = att[i - c]
      BY <1>1, <1>2, <3>1, <3>2
    <3>4. (i - c) % 2 = 0
      BY <3>1, <3>3
    <3>5. PICK j \in 1..n : i - c = 2 * j
      <4>1. (i - c) \div 2 \in 1..n /\ i - c = 2 * ((i - c) \div 2)
        BY <3>3, <3>4
      <4> QED BY <4>1
    <3>6. i = c + 2 * j
      BY <1>1, <3>1, <3>5
    <3> QED BY <3>6 DEF Even
  <2>2. ASSUME NEW i \in Even(c, n) PROVE i \in FilesOf(m)
    <3>1. PICK j \in 1..n : i = c + 2 * j
      BY DEF Even
    <3>2. i \in 1..(c + 2 * n) /\ ~(i <= c) /\ i - c = 2 * j /\ 2 * j \in 1..(2 * n) /\ (2 * j) % 2 = 0
      BY <1>1, <3>1
    <3>3. m[i] = att[2 * j] /\ att[2 * j].kind = "file"
      BY <1>2, <3>2
    <3> QED BY <1>2, <3>2, <3>3 DEF FilesOf
  <2> QED BY <2>1, <2>2
<1>4. Cardinality(FilesOf(m)) = n
  BY <1>1, <1>3, EvenCard
<1>5. ASSUME NEW i \in FilesOf(m)
      PROVE  \E k \in 1..n : Cardinality(FilesOf(m) \cap (1..i)) = k /\ m[i] = att[2 * k]
  <2>1. PICK k \in 1..n : i = c + 2 * k
    BY <1>3 DEF Even
  <2>2. Even(c, n) \cap (1..i) = Even(c, k)
    <3>1. ASSUME NEW x \in Even(c, n) \cap (1..i) PROVE x \in Even(c, k)
      <4>1. PICK j \in 1..n : x = c + 2 * j /\ x <= i
        BY DEF Even
      <4>2. j \in 1..k
        BY <1>1, <2>1, <4>1
      <4> QED BY <4>1, <4>2 DEF Even
    <3>2. ASSUME NEW x \in Even(c, k) PROVE x \in Even(c, n) \cap (1..i)
      <4>1. PICK j \in 1..k : x = c + 2 * j
        BY DEF Even
      <4>2. j \in 1..n /\ x \in 1..i
        BY <1>1, <2>1, <4>1
      <4> QED BY <4>1, <4>2 DEF Even
    <3> QED BY <3>1, <3>2
  <2>3. Cardinality(Even(c, k)) = k
    BY <1>1, EvenCard
  <2>4. m[i] = att[2 * k]
    <3>1. i \in 1..(c + 2 * n) /\ ~(i <= c) /\ i - c = 2 * k
      BY <1>1, <2>1
    <3> QED BY <1>2, <3>1
  <2> QED BY <1>3, <2>2, <2>3, <2>4
<1>6. ASSUME NEW i \in DOMAIN pre PROVE i \in DOMAIN m /\ m[i] = pre[i]
  <2>1. i \in 1..(c + 2 * n) /\ i <= c
    BY <1>1
  <2> QED BY <1>2, <2>1
<1> QED BY <1>4, <1>5, <1>6 DEF m

NoFiles(parts) == parts \in Seq(Parts) /\ \A i \in DOMAIN parts : parts[i].kind # "file"
OtherParts == {p \in Parts : p.kind # "file"}

LEMMA TwoParts == ASSUME NEW a \in OtherParts, NEW b \in OtherParts PROVE NoFiles(<<a, b>>)
<1>1. <<a, b>> \in Seq(Parts)
  BY DEF OtherParts
<1>2. DOMAIN <<a, b>> = 1..2 /\ <<a, b>>[1] = a /\ <<a, b>>[2] = b
  OBVIOUS
<1> QED BY <1>1, <1>2 DEF NoFiles, OtherParts

LEMMA FourParts ==
    ASSUME NEW a \in OtherParts, NEW b \in OtherParts, NEW c \in OtherParts, NEW d \in OtherParts
    PROVE  NoFiles(<<a, b, c, d>>) /\ 3 \in DOMAIN <<a, b, c, d>> /\ <<a, b, c, d>>[3] = c
<1>1. <<a, b, c, d>> \in Seq(Parts)
  BY DEF OtherParts
<1>2. /\ DOMAIN <<a, b, c, d>> = 1..4 /\ <<a, b, c, d>>[1] = a /\ <<a, b, c, d>>[2] = b
      /\ <<a, b, c, d>>[3] = c /\ <<a, b, c, d>>[4] = d
  OBVIOUS
<1> QED BY <1>1, <1>2 DEF NoFiles, OtherParts

LEMMA ConcatParts ==
    ASSUME NEW u \in Seq(Parts), NEW v \in Seq(Parts), NoFiles(u), NoFiles(v)
    PROVE  /\ NoFiles(u \o v)
           /\ \A i \in DOMAIN v : \E j \in DOMAIN (u \o v) : (u \o v)[j] = v[i]
<1>1. /\ u \in Seq(Parts) /\ v \in Seq(Parts) /\ \A i \in DOMAIN u : u[i].kind # "file"
      /\ \A i \in DOMAIN v : v[i].kind # "file"
  BY DEF NoFiles
<1>2. /\ u \o v \in Seq(Parts) /\ DOMAIN (u \o v) = 1..(Len(u) + Len(v))
      /\ Len(u) \in Nat /\ Len(v) \in Nat /\ DOMAIN u = 1..Len(u) /\ DOMAIN v = 1..Len(v)
  BY <1>1
<1>3. \A i \in 1..(Len(u) + Len(v)) : (u \o v)[i] = IF i <= Len(u) THEN u[i] ELSE v[i - Len(u)]
  BY <1>1
<1>4. ASSUME NEW i \in 1..(Len(u) + Len(v)) PROVE (u \o v)[i].kind # "file"
  <2>1. (i <= Len(u) /\ i \in DOMAIN u) \/ (~(i <= Len(u)) /\ i - Len(u) \in DOMAIN v)
    BY <1>2
  <2> QED BY <1>1, <1>3, <2>1
<1>5. ASSUME NEW i \in DOMAIN v PROVE \E j \in DOMAIN (u \o v) : (u \o v)[j] = v[i]
  <2>1. Len(u) + i \in 1..(Len(u) + Len(v)) /\ ~(Len(u) + i <= Len(u)) /\ (Len(u) + i) - Len(u) = i
    BY <1>2
  <2> QED BY <1>2, <1>3, <2>1
<1> QED BY <1>2, <1>4, <1>5 DEF NoFiles

\* A message that is as it should be, for files with these contents.
Whole(message, orig) ==
    /\ HasContent => \E i \in DOMAIN message :
           message[i] = Part("text", IF opt.Content # <<>> THEN opt.Content
                                     ELSE orig[opt.ContentPath].data)
    /\ Cardinality(FilesOf(message)) = Len(opt.Attachments)
    /\ \A i \in FilesOf(message) :
           LET sent == message[i].bytes
               data == orig[opt.Attachments[Cardinality(FilesOf(message) \cap (1..i))]].data
           IN  /\ data \in Seq(Nat)
               /\ Len(sent) - Len(data) \in 0..(MaxRaw - 1)
               /\ SubSeq(sent, 1, Len(data)) = data

LEMMA MessageWhole ==
    ASSUME opt \in MailOptions, NEW orig,
           \A p \in DOMAIN disk : p # "tmp" => disk[p] = orig[p] /\ disk[p].data \in Seq(Nat),
           \A p \in ContentFiles \cup AttachedFiles : Exists(p)
    PROVE  /\ Whole(Message, orig) /\ Message \in Seq(Parts)
           /\ opt.Attachments # <<>> => /\ Len(Message) > 0
                                        /\ Message[Len(Message)].kind = "file"
<1> DEFINE n    == Len(opt.Attachments)
           text == IF opt.Content # <<>> THEN opt.Content ELSE disk[opt.ContentPath].data
           body == IF HasContent
                   THEN <<Mark("alternative"), Mark("--S"), Part("text", text), Mark("--S--")>>
                   ELSE <<>>
           pre  == <<Mark("headers"), Mark("--B")>> \o body
           file(k) == disk[opt.Attachments[k]].data
           att  == [i \in 1..(2 * n) |->
                       IF i % 2 = 1 THEN Mark("--B") ELSE Part("file", base64Wrap(file(i \div 2)))]
<1>1. /\ opt.Content \in Seq(Nat) /\ opt.Attachments \in Seq(STRING \ {"tmp"})
      /\ opt.ContentPath \in STRING \ {"tmp"} /\ n \in Nat
  BY MailAssumption
<1>2. ASSUME NEW k \in 1..n
      PROVE  file(k) \in Seq(Nat) /\ file(k) = orig[opt.Attachments[k]].data
  <2>1. opt.Attachments[k] # "tmp" /\ k \in DOMAIN opt.Attachments
    BY <1>1
  <2>2. opt.Attachments[k] \in DOMAIN disk
    BY <2>1 DEF AttachedFiles, Exists
  <2> QED BY <2>1, <2>2
<1>3. HasContent => text \in Seq(Nat)
                    /\ text = IF opt.Content # <<>> THEN opt.Content ELSE orig[opt.ContentPath].data
  <2>1. CASE opt.Content # <<>>
    BY <1>1, <2>1
  <2>2. CASE opt.Content = <<>> /\ opt.ContentPath # ""
    <3>1. opt.ContentPath \in DOMAIN disk /\ opt.ContentPath # "tmp"
      BY <1>1, <2>2 DEF ContentFiles, Exists
    <3> QED BY <2>2, <3>1
  <2> QED BY <2>1, <2>2 DEF HasContent
<1>4. \A kind \in Kinds : Mark(kind) \in Parts /\ Mark(kind).kind = kind
  <2>1. <<>> \in Seq(Nat)
    OBVIOUS
  <2> QED BY <2>1 DEF Mark, Part, Parts
<1>5. ASSUME NEW kind \in Kinds, NEW bytes \in Seq(Nat)
      PROVE  Part(kind, bytes) \in Parts /\ Part(kind, bytes).kind = kind /\ Part(kind, bytes).bytes = bytes
  BY DEF Part, Parts
<1>10. Message = pre \o att
  BY DEF Message
<1> HIDE DEF text, file
<1>6. NoFiles(pre) /\ (HasContent => \E i \in DOMAIN pre : pre[i] = Part("text", text))
  <2>1. \A kind \in Kinds : kind # "file" => Mark(kind) \in OtherParts
    BY <1>4 DEF OtherParts
  <2>2. NoFiles(<<Mark("headers"), Mark("--B")>>)
    <3>1. Mark("headers") \in OtherParts /\ Mark("--B") \in OtherParts
      BY <2>1 DEF Kinds
    <3> QED BY <3>1, TwoParts
  <2>3. NoFiles(body) /\ (HasContent => \E i \in DOMAIN body : body[i] = Part("text", text))
    <3>1. CASE HasContent
      <4>1. Part("text", text) \in OtherParts
        BY <1>3, <1>5, <3>1 DEF OtherParts, Kinds
      <4>2. PICK a \in OtherParts, b \in OtherParts, c \in OtherParts, d \in OtherParts :
              a = Mark("alternative") /\ b = Mark("--S") /\ c = Part("text", text) /\ d = Mark("--S--")
        BY <2>1, <4>1 DEF Kinds
      <4>3. body = <<a, b, c, d>>
        BY <3>1, <4>2
      <4>4. NoFiles(<<a, b, c, d>>) /\ 3 \in DOMAIN <<a, b, c, d>> /\ <<a, b, c, d>>[3] = c
        BY FourParts
      <4> HIDE DEF body
      <4> QED BY <4>2, <4>3, <4>4
    <3>2. CASE ~HasContent
      <4>1. body = <<>>
        BY <3>2
      <4>2. NoFiles(<<>>)
        BY DEF NoFiles
      <4> HIDE DEF body
      <4> QED BY <3>2, <4>1, <4>2
    <3> QED BY <3>1, <3>2
  <2> HIDE DEF body
  <2>4. /\ NoFiles(<<Mark("headers"), Mark("--B")>> \o body)
        /\ \A i \in DOMAIN body : \E j \in DOMAIN (<<Mark("headers"), Mark("--B")>> \o body) :
               (<<Mark("headers"), Mark("--B")>> \o body)[j] = body[i]
    <3>1. PICK u \in Seq(Parts) : u = <<Mark("headers"), Mark("--B")>> /\ NoFiles(u)
      BY <2>2 DEF NoFiles
    <3>2. PICK v \in Seq(Parts) : v = body /\ NoFiles(v)
      BY <2>3 DEF NoFiles
    <3>3. NoFiles(u \o v) /\ \A i \in DOMAIN v : \E j \in DOMAIN (u \o v) : (u \o v)[j] = v[i]
      BY <3>1, <3>2, ConcatParts
    <3> QED BY <3>1, <3>2, <3>3
  <2> QED BY <2>3, <2>4
<1>8. ASSUME NEW k \in 1..n
      PROVE  /\ base64Wrap(file(k)) \in Seq(Nat)
             /\ Part("file", base64Wrap(file(k))) \in Parts
             /\ Part("file", base64Wrap(file(k))).kind = "file"
             /\ Part("file", base64Wrap(file(k))).bytes = base64Wrap(file(k))
             /\ Len(base64Wrap(file(k))) - Len(file(k)) \in 0..(MaxRaw - 1)
             /\ SubSeq(base64Wrap(file(k)), 1, Len(file(k))) = file(k)
  <2>1. /\ base64Wrap(file(k)) \in Seq(Nat)
        /\ Len(base64Wrap(file(k))) - Len(file(k)) \in 0..(MaxRaw - 1)
        /\ SubSeq(base64Wrap(file(k)), 1, Len(file(k))) = file(k)
    BY <1>2, WrapFacts
  <2>2. PICK w \in Seq(Nat) : w = base64Wrap(file(k))
    BY <2>1
  <2>3. Part("file", w) \in Parts /\ Part("file", w).kind = "file" /\ Part("file", w).bytes = w
    BY <1>5 DEF Kinds
  <2> QED BY <2>1, <2>2, <2>3
<1>9. /\ att \in Seq(Parts) /\ Len(att) = 2 * n
      /\ \A i \in 1..(2 * n) : att[i].kind = "file" <=> i % 2 = 0
      /\ \A k \in 1..n : att[2 * k] = Part("file", base64Wrap(file(k)))
  <2>1. ASSUME NEW i \in 1..(2 * n)
        PROVE  att[i] \in Parts /\ (att[i].kind = "file" <=> i % 2 = 0)
    <3>1. CASE i % 2 = 1
      <4>1. att[i] = Mark("--B")
        BY <3>1
      <4>2. Mark("--B") \in Parts /\ Mark("--B").kind = "--B"
        BY <1>4 DEF Kinds
      <4> QED BY <3>1, <4>1, <4>2
    <3>2. CASE i % 2 # 1
      <4>1. i % 2 = 0 /\ i \div 2 \in 1..n
        BY <1>1, <3>2
      <4>2. att[i] = Part("file", base64Wrap(file(i \div 2)))
        BY <3>2
      <4>3. Part("file", base64Wrap(file(i \div 2))) \in Parts
        BY <4>1, <1>8
      <4>4. att[i].kind = "file"
        BY <4>2 DEF Part
      <4> QED BY <4>1, <4>2, <4>3, <4>4
    <3> QED BY <3>1, <3>2
  <2>2. 2 * n \in Nat
    BY <1>1
  <2>3. att \in Seq(Parts) /\ Len(att) = 2 * n
    <3>1. att \in [1..(2 * n) -> Parts]
      <4>1. att = [i \in 1..(2 * n) |-> att[i]]
        OBVIOUS
      <4> HIDE DEF att
      <4> QED BY <2>1, <4>1
    <3> HIDE DEF att
    <3> QED BY <2>2, <3>1
  <2>4. ASSUME NEW k \in 1..n PROVE att[2 * k] = Part("file", base64Wrap(file(k)))
    <3>1. 2 * k \in 1..(2 * n) /\ (2 * k) % 2 # 1 /\ (2 * k) \div 2 = k
      BY <1>1
    <3> QED BY <3>1
  <2> QED BY <2>1, <2>3, <2>4
<1> HIDE DEF pre, att
<1>11. /\ Cardinality(FilesOf(pre \o att)) = n
       /\ \A i \in FilesOf(pre \o att) : \E k \in 1..n :
              /\ Cardinality(FilesOf(pre \o att) \cap (1..i)) = k
              /\ (pre \o att)[i] = att[2 * k]
       /\ \A i \in DOMAIN pre : i \in DOMAIN (pre \o att) /\ (pre \o att)[i] = pre[i]
  <2>1. pre \in Seq(Parts) /\ \A i \in DOMAIN pre : pre[i].kind # "file"
    BY <1>6 DEF NoFiles
  <2> QED BY <1>1, <2>1, <1>9, FileParts
<1> DEFINE m == Message
<1>12. HasContent => \E i \in DOMAIN m :
           m[i] = Part("text", IF opt.Content # <<>> THEN opt.Content ELSE orig[opt.ContentPath].data)
  BY <1>3, <1>6, <1>10, <1>11
<1>13. ASSUME NEW i \in FilesOf(m)
       PROVE  LET sent == m[i].bytes
                  data == orig[opt.Attachments[Cardinality(FilesOf(m) \cap (1..i))]].data
              IN  /\ data \in Seq(Nat)
                  /\ Len(sent) - Len(data) \in 0..(MaxRaw - 1)
                  /\ SubSeq(sent, 1, Len(data)) = data
  <2>1. PICK k \in 1..n : Cardinality(FilesOf(m) \cap (1..i)) = k /\ m[i] = att[2 * k]
    BY <1>10, <1>11
  <2>2. m[i].bytes = base64Wrap(file(k))
    BY <1>8, <1>9, <2>1
  <2>3. orig[opt.Attachments[k]].data = file(k)
    BY <1>2 DEF file
  <2>4. file(k) \in Seq(Nat)
    BY <1>2 DEF file
  <2> HIDE DEF m
  <2> QED BY <1>8, <2>1, <2>2, <2>3, <2>4
<1>14. Cardinality(FilesOf(m)) = n
  BY <1>10, <1>11
<1>15. m \in Seq(Parts) /\ (n > 0 => Len(m) > 0 /\ m[Len(m)] = att[2 * n])
  <2>1. pre \in Seq(Parts) /\ att \in Seq(Parts) /\ Len(att) = 2 * n
    BY <1>6, <1>9 DEF NoFiles
  <2>2. /\ pre \o att \in Seq(Parts) /\ Len(pre \o att) = Len(pre) + 2 * n
        /\ \A i \in 1..(2 * n) : (pre \o att)[Len(pre) + i] = att[i]
    BY <2>1
  <2>3. n > 0 => 2 * n \in 1..(2 * n) /\ Len(pre) + 2 * n > 0
    BY <1>1, <2>1
  <2> QED BY <1>10, <2>2, <2>3
<1>16. opt.Attachments # <<>> => n > 0
  BY <1>1
<1>17. n > 0 => att[2 * n].kind = "file"
  <2>1. n > 0 => n \in 1..n
    BY <1>1
  <2> QED BY <1>8, <1>9, <2>1
<1> QED BY <1>12, <1>13, <1>14, <1>15, <1>16, <1>17 DEF Whole

-----------------------------------------------------------------------------
\* What the server may be given: big messages can have their last part cut.
Sendable(message, orig, big) ==
    /\ HasContent => \E i \in DOMAIN message :
           message[i] = Part("text", IF opt.Content # <<>> THEN opt.Content
                                     ELSE orig[opt.ContentPath].data)
    /\ Cardinality(FilesOf(message)) = Len(opt.Attachments)
    /\ \A i \in FilesOf(message) :
           LET sent == message[i].bytes
               data == orig[opt.Attachments[Cardinality(FilesOf(message) \cap (1..i))]].data
           IN  \/ Padded(sent, data)
               \/ i = Len(message) /\ big /\ \E k \in 0..Len(data) : sent = SubSeq(data, 1, k)

LEMMA WholeSendable ==
    ASSUME NEW message, NEW orig, NEW big, Whole(message, orig) PROVE Sendable(message, orig, big)
BY DEF Whole, Sendable, Padded

LEMMA BeginningOfBeginning ==
    ASSUME NEW s \in Seq(Nat), NEW a \in Nat, NEW b \in Nat, a <= b, b <= Len(s)
    PROVE  SubSeq(SubSeq(s, 1, b), 1, a) = SubSeq(s, 1, a)
<1>1. /\ SubSeq(s, 1, b) \in Seq(Nat) /\ Len(SubSeq(s, 1, b)) = b
      /\ \A i \in 1..b : SubSeq(s, 1, b)[i] = s[i]
  OBVIOUS
<1>2. PICK t \in Seq(Nat) : t = SubSeq(s, 1, b)
  BY <1>1
<1>3. /\ Len(SubSeq(t, 1, a)) = a /\ Len(SubSeq(s, 1, a)) = a
      /\ SubSeq(t, 1, a) \in Seq(Nat) /\ SubSeq(s, 1, a) \in Seq(Nat)
      /\ \A i \in 1..a : SubSeq(t, 1, a)[i] = t[i] /\ SubSeq(s, 1, a)[i] = s[i]
  BY <1>1, <1>2
<1>4. \A i \in 1..a : i \in 1..b
  OBVIOUS
<1> QED BY <1>1, <1>2, <1>3, <1>4

\* Cutting the last part leaves a message that may be given to the server.
LEMMA CutSendable ==
    ASSUME NEW message \in Seq(Parts), NEW orig, Whole(message, orig), Len(message) > 0,
           message[Len(message)].kind = "file",
           NEW k \in 0..(Len(message[Len(message)].bytes) - 1)
    PROVE  Sendable(CutLast(message, k), orig, TRUE)
<1> DEFINE L    == Len(message)
           sent == message[L].bytes
           cut  == CutLast(message, k)
           data(i) == orig[opt.Attachments[Cardinality(FilesOf(message) \cap (1..i))]].data
<1>1. L \in DOMAIN message /\ sent \in Seq(Nat) /\ message[L] \in Parts
  <2>1. L \in DOMAIN message /\ message[L] \in Parts
    OBVIOUS
  <2> QED BY <2>1 DEF Parts
<1>2. /\ DOMAIN cut = DOMAIN message /\ Len(cut) = L /\ cut[L] = Part("file", SubSeq(sent, 1, k))
      /\ \A i \in DOMAIN message : i # L => cut[i] = message[i]
  BY <1>1 DEF CutLast
<1>3. cut[L].kind = "file" /\ cut[L].bytes = SubSeq(sent, 1, k)
  BY <1>2 DEF Part
<1> HIDE DEF cut
<1>4. FilesOf(cut) = FilesOf(message) /\ L \in FilesOf(message)
  BY <1>1, <1>2, <1>3 DEF FilesOf
<1>5. HasContent => \E i \in DOMAIN cut :
          cut[i] = Part("text", IF opt.Content # <<>> THEN opt.Content ELSE orig[opt.ContentPath].data)
  <2> SUFFICES ASSUME HasContent
               PROVE  \E i \in DOMAIN cut : cut[i] =
                        Part("text", IF opt.Content # <<>> THEN opt.Content ELSE orig[opt.ContentPath].data)
    OBVIOUS
  <2>1. PICK i \in DOMAIN message : message[i] =
            Part("text", IF opt.Content # <<>> THEN opt.Content ELSE orig[opt.ContentPath].data)
    BY DEF Whole
  <2>2. i # L
    BY <2>1 DEF Part
  <2> QED BY <1>2, <2>1, <2>2
<1>6. \A i \in FilesOf(message) : /\ data(i) \in Seq(Nat)
                                  /\ Len(message[i].bytes) - Len(data(i)) \in 0..(MaxRaw - 1)
                                  /\ SubSeq(message[i].bytes, 1, Len(data(i))) = data(i)
  BY DEF Whole
<1>7. ASSUME NEW i \in FilesOf(message), i # L PROVE Padded(cut[i].bytes, data(i))
  <2>1. cut[i] = message[i]
    BY <1>2, <1>7 DEF FilesOf
  <2> QED BY <1>6, <2>1 DEF Padded
<1>8. Padded(cut[L].bytes, data(L)) \/ \E j \in 0..Len(data(L)) : cut[L].bytes = SubSeq(data(L), 1, j)
  <2>1. PICK d \in Seq(Nat) : d = data(L)
    BY <1>4, <1>6
  <2>2. Len(sent) - Len(d) \in 0..(MaxRaw - 1) /\ SubSeq(sent, 1, Len(d)) = d
    BY <1>4, <1>6, <2>1
  <2>3. k \in Nat /\ k < Len(sent) /\ Len(d) \in Nat /\ Len(d) <= Len(sent)
    BY <1>1, <2>2, MailAssumption
  <2>4. CASE k <= Len(d)
    <3>1. SubSeq(sent, 1, k) = SubSeq(SubSeq(sent, 1, Len(d)), 1, k)
      BY <1>1, <2>3, <2>4, BeginningOfBeginning
    <3>2. k \in 0..Len(d) /\ SubSeq(sent, 1, k) = SubSeq(d, 1, k)
      BY <2>2, <2>3, <2>4, <3>1
    <3> QED BY <1>3, <2>1, <3>2
  <2>5. CASE ~(k <= Len(d))
    <3>1. SubSeq(SubSeq(sent, 1, k), 1, Len(d)) = SubSeq(sent, 1, Len(d))
      BY <1>1, <2>3, <2>5, BeginningOfBeginning
    <3>2. Len(SubSeq(sent, 1, k)) = k
      BY <1>1, <2>3
    <3>3. k - Len(d) \in 0..(MaxRaw - 1)
      BY <1>1, <2>2, <2>3, <2>5, MailAssumption
    <3>4. Padded(SubSeq(sent, 1, k), d)
      BY <2>2, <3>1, <3>2, <3>3 DEF Padded
    <3> QED BY <1>3, <2>1, <3>4
  <2> QED BY <2>3, <2>4, <2>5
<1>9. Cardinality(FilesOf(cut)) = Len(opt.Attachments)
  BY <1>4 DEF Whole
<1>10. \A i \in FilesOf(cut) :
          \/ Padded(cut[i].bytes, data(i))
          \/ i = Len(cut) /\ \E j \in 0..Len(data(i)) : cut[i].bytes = SubSeq(data(i), 1, j)
  BY <1>2, <1>4, <1>7, <1>8
<1> QED BY <1>4, <1>5, <1>9, <1>10 DEF Sendable, cut

-----------------------------------------------------------------------------
\* The temporary file is for a big mail.
Big == MailSize(opt, loc.orig) >= MemMax
Good(message) == Sendable(message, loc.orig, Big)

\* Until the message is written the files are those of the beginning, if they
\* are there at all; then it may be sent, and so might every message taken.
ArriveInv ==
    cmd = "mail" =>
        /\ \A p \in DOMAIN loc.orig : loc.orig[p].data \in Seq(Nat)
        /\ pc = "mail" => disk = loc.orig
        /\ pc \in {"mail", "write"} =>
               \A p \in DOMAIN disk : p # "tmp" => p \in DOMAIN loc.orig /\ disk[p] = loc.orig[p]
        /\ pc = "write" /\ Exists("tmp") => Big
        /\ pc = "send" => Good(loc.msg)
        /\ \A message \in loc.accepted : Good(message)

LEMMA ArriveInitInv == Init => ArriveInv
<1> SUFFICES ASSUME Init, cmd = "mail" PROVE ArriveInv
  BY DEF ArriveInv
<1>1. MailInit
  BY DEF Init
<1>2. disk \in MailFiles /\ pc = "mail" /\ loc.orig = disk /\ loc.accepted = {}
  BY <1>1 DEF MailInit
<1>3. \A p \in DOMAIN disk : IsEntry(disk[p])
  BY <1>2, MailAssumption
<1> QED BY <1>2, <1>3 DEF ArriveInv, IsEntry

LEMMA ArriveNextInv == MailInv /\ ArriveInv /\ [Next]_vars => ArriveInv'
<1> SUFFICES ASSUME MailInv, ArriveInv, [Next]_vars, cmd = "mail" PROVE ArriveInv'
  BY CommandKept DEF ArriveInv
<1>0. /\ \A p \in DOMAIN loc.orig : loc.orig[p].data \in Seq(Nat)
      /\ pc = "mail" => disk = loc.orig
      /\ pc \in {"mail", "write"} =>
             \A p \in DOMAIN disk : p # "tmp" => p \in DOMAIN loc.orig /\ disk[p] = loc.orig[p]
      /\ pc = "write" /\ Exists("tmp") => Big
      /\ pc = "send" => Good(loc.msg)
      /\ \A message \in loc.accepted : Good(message)
  BY DEF ArriveInv
<1>d. opt \in MailOptions /\ DOMAIN loc = {"stage", "rcpt", "msg", "accepted", "orig"}
  BY DEF MailInv
\* What may be sent stays so while the options and the files of the start do.
<1>k. ASSUME UNCHANGED opt, loc'.orig = loc.orig
      PROVE  (Big' <=> Big) /\ \A message : Good(message)' <=> Good(message)
  BY <1>k DEF Good, Big, Sendable, HasContent
<1>1. CASE MailRun
  <2>1. UNCHANGED <<opt, loc>> /\ pc = "mail" /\ pc' \in {"write", "fatal", "returned"}
    BY <1>1 DEF MailRun, Return, FatalOutput
  <2>2. UNCHANGED disk \/ (disk' = With(disk, "tmp", File(<<>>)) /\ MailSize(opt, disk) >= MemMax)
    BY <1>1 DEF MailRun
  <2>3. \A p \in DOMAIN disk' : p # "tmp" => p \in DOMAIN disk /\ disk'[p] = disk[p]
    BY <2>2 DEF With
  <2>4. (Big' <=> Big) /\ \A message : Good(message)' <=> Good(message)
    BY <1>k, <2>1
  <2>5. Exists("tmp")' => Big'
    <3>1. ~Exists("tmp")
      BY <2>1 DEF MailInv
    <3>2. disk = loc.orig
      BY <1>0, <2>1
    <3> QED BY <2>2, <2>4, <3>1, <3>2 DEF Exists, Big
  <2> QED BY <1>0, <2>1, <2>3, <2>4, <2>5 DEF ArriveInv
<1>2. CASE WriteMessage
  <2>1. UNCHANGED opt /\ pc = "write"
    BY <1>2 DEF WriteMessage
  <2>2. CASE MailFails /\ UNCHANGED loc
    <3>1. pc' = "fatal"
      BY <2>2 DEF MailFails, FatalOutput
    <3>2. \A message : Good(message)' <=> Good(message)
      BY <1>k, <2>1, <2>2
    <3> QED BY <1>0, <2>2, <3>1, <3>2 DEF ArriveInv
  <2>3. ASSUME NEW m, Good(m), loc' = [loc EXCEPT !.msg = m], pc' = "send" PROVE ArriveInv'
    <3>1. loc'.orig = loc.orig /\ loc'.accepted = loc.accepted /\ loc'.msg = m
      BY <1>d, <2>3
    <3>2. \A message : Good(message)' <=> Good(message)
      BY <1>k, <2>1, <3>1
    <3>3. Good(loc.msg)'
      <4>1. Good(m)'
        BY <2>3, <3>2
      <4> QED BY <3>1, <4>1 DEF Good
    <3> QED BY <1>0, <2>3, <3>1, <3>2, <3>3 DEF ArriveInv
  <2>4. ASSUME \A p \in ContentFiles \cup AttachedFiles : Exists(p)
        PROVE  /\ Whole(Message, loc.orig) /\ Message \in Seq(Parts)
               /\ opt.Attachments # <<>> => /\ Len(Message) > 0
                                            /\ Message[Len(Message)].kind = "file"
    <3>1. \A p \in DOMAIN disk : p # "tmp" => disk[p] = loc.orig[p] /\ disk[p].data \in Seq(Nat)
      BY <1>0, <2>1
    <3> QED BY <1>d, <2>4, <3>1, MessageWhole
  <2>5. CASE /\ \A p \in ContentFiles \cup AttachedFiles : Exists(p)
             /\ loc' = [loc EXCEPT !.msg = Message] /\ pc' = "send"
    <3>1. Good(Message)
      BY <2>4, <2>5, WholeSendable DEF Good
    <3> QED BY <2>3, <2>5, <3>1
  <2>6. ASSUME \A p \in ContentFiles \cup AttachedFiles : Exists(p), Exists("tmp"),
               opt.Attachments # <<>>, pc' = "send",
               NEW k \in 0..(Len(Message[Len(Message)].bytes) - 1),
               loc' = [loc EXCEPT !.msg = CutLast(Message, k)]
        PROVE  ArriveInv'
    <3>1. Big
      BY <1>0, <2>1, <2>6
    <3>2. PICK m \in Seq(Parts) : m = Message
      BY <2>4, <2>6
    <3>3. Whole(m, loc.orig) /\ Len(m) > 0 /\ m[Len(m)].kind = "file"
      BY <2>4, <2>6, <3>2
    <3>4. Sendable(CutLast(m, k), loc.orig, TRUE)
      BY <2>6, <3>2, <3>3, CutSendable
    <3>5. Good(CutLast(Message, k))
      BY <3>1, <3>2, <3>4 DEF Good, Sendable
    <3> QED BY <2>3, <2>6, <3>5
  <2> QED BY <1>2, <2>2, <2>5, <2>6 DEF WriteMessage
<1>3. CASE MailSend
  <2>1. UNCHANGED opt /\ pc = "send" /\ pc' \in {"send", "silent", "fatal", "returned"}
    BY <1>3 DEF MailSend, MailFails, MailReturns, FatalOutput, Return
  <2>2. /\ loc'.orig = loc.orig /\ loc'.msg = loc.msg
        /\ loc'.accepted = loc.accepted \/ loc'.accepted = {loc.msg}
    <3>1. \/ UNCHANGED loc \/ loc' = [loc EXCEPT !.accepted = {Body}] \/ StageSucceeds
      BY <1>3 DEF MailSend, NoAnswer
    <3> QED BY <1>d, <3>1 DEF StageSucceeds, Body
  <2>3. Good(loc.msg) /\ \A message \in loc'.accepted : Good(message)
    BY <1>0, <2>1, <2>2
  <2>4. \A message : Good(message)' <=> Good(message)
    BY <1>k, <2>1, <2>2
  <2>5. Good(loc.msg)'
    <3>1. \A m : m = loc.msg => Good(m)'
      BY <2>3, <2>4
    <3> QED BY <2>2, <3>1 DEF Good
  <2> QED BY <1>0, <2>1, <2>2, <2>3, <2>4, <2>5 DEF ArriveInv
<1>4. CASE FileVanishes
  <2>1. UNCHANGED <<opt, loc, pc>> /\ pc = "write" /\ \E p : disk' = Without(disk, p)
    BY <1>4 DEF FileVanishes
  <2>2. \A p \in DOMAIN disk' : p \in DOMAIN disk /\ disk'[p] = disk[p]
    BY <2>1 DEF Without
  <2>3. (Big' <=> Big) /\ \A message : Good(message)' <=> Good(message)
    BY <1>k, <2>1
  <2> QED BY <1>0, <2>1, <2>2, <2>3 DEF ArriveInv, Exists
<1>5. CASE UNCHANGED vars
  <2>1. UNCHANGED <<cmd, opt, pc, disk, loc>>
    BY <1>5 DEF vars
  <2>2. (Big' <=> Big) /\ \A message : Good(message)' <=> Good(message)
    BY <1>k, <2>1
  <2>3. Good(loc.msg)' <=> Good(loc.msg)
    <3>1. \A m : m = loc.msg => (Good(m)' <=> Good(loc.msg))
      BY <2>2
    <3> QED BY <2>1, <3>1 DEF Good
  <2> QED BY <1>0, <2>1, <2>2, <2>3 DEF ArriveInv, Exists
<1> QED BY <1>1, <1>2, <1>3, <1>4, <1>5, MailSteps

\* For any text, attachments and size of the lines, on a disk that may be full:
\* every message that the server takes has the text and all attachments in their
\* order, each with its bytes and fewer bytes than a line after them, but for the
\* last one of a message from the temporary file, which may be cut.
THEOREM AttachmentsArriveHolds == Spec => []AttachmentsArrive
<1>1. ArriveInv => AttachmentsArrive
  BY DEF ArriveInv, AttachmentsArrive, Good, Big, Sendable, FilesOf, Attached, FileOf
<1> QED BY MailInitInv, MailNextInv, ArriveInitInv, ArriveNextInv, <1>1, PTL DEF Spec

-----------------------------------------------------------------------------
(***************************************************************************)
(* compare: the reads of a file.                                           *)
(***************************************************************************)
ReadState(s, size) == [pos : 0..Len(s), count : Nat, buffer : [1..size -> Nat]]

ReadStart(size) == [pos |-> 0, count |-> 0, buffer |-> Zeros(size)]

\* A Read of the file.
ReadOn(s, size, last) ==
    [pos    |-> last.pos + ReadCount(s, last.pos, size), count |-> ReadCount(s, last.pos, size),
     buffer |-> Refill(last.buffer, s, last.pos, ReadCount(s, last.pos, size))]

ReadRounds(s, size, limit, f) ==
    [n \in 0..limit |-> IF n = 0 THEN ReadStart(size) ELSE ReadOn(s, size, f[n - 1])]

LEMMA ReadsAre ==
    ASSUME NEW s, NEW size, NEW limit
    PROVE  Reads(s, size, limit) = CHOOSE f : f = ReadRounds(s, size, limit, f)
BY DEF Reads, ReadRounds, ReadOn, ReadStart

LEMMA ReadOnFacts ==
    ASSUME NEW s \in Seq(Nat), NEW size \in Nat \ {0}, NEW v \in ReadState(s, size)
    PROVE  /\ ReadOn(s, size, v) \in ReadState(s, size)
           /\ ReadOn(s, size, v).pos = v.pos + ReadOn(s, size, v).count
           /\ ReadOn(s, size, v).count = ReadCount(s, v.pos, size)
           /\ \A k \in 1..ReadOn(s, size, v).count :
                  k \in 1..size /\ ReadOn(s, size, v).buffer[k] = s[v.pos + k]
<1>1. Len(s) \in Nat
  OBVIOUS
<1>2. PICK i \in 0..Len(s), b \in [1..size -> Nat] : i = v.pos /\ b = v.buffer
  BY DEF ReadState
<1>3. PICK count \in 0..size : count = ReadCount(s, i, size) /\ i + count \in 0..Len(s)
  BY ReadCountFacts
<1> DEFINE next == Refill(b, s, i, count)
<1>4. next = [k \in 1..size |-> IF k <= count THEN s[i + k] ELSE b[k]]
  BY DEF Refill
<1>5. i \in Nat /\ count \in Nat /\ count <= size /\ i + count <= Len(s)
  BY <1>1, <1>3
<1>6. ASSUME NEW k \in 1..size, k <= count PROVE s[i + k] \in Nat
  <2>1. i + k \in 1..Len(s)
    BY <1>1, <1>5, <1>6
  <2> QED BY <2>1
<1> HIDE DEF next
<1>7. next \in [1..size -> Nat]
  BY <1>4, <1>6
<1>8. \A k \in 1..count : k \in 1..size /\ k <= count
  BY <1>5
<1>9. ReadOn(s, size, v) = [pos |-> i + count, count |-> count, buffer |-> next]
  BY <1>2, <1>3 DEF ReadOn, next
<1> QED BY <1>2, <1>3, <1>4, <1>5, <1>7, <1>8, <1>9 DEF ReadState

\* The file can be read any number of times.
LEMMA ReadsExist ==
    ASSUME NEW s \in Seq(Nat), NEW size \in Nat \ {0}, NEW limit \in Nat
    PROVE  \E f \in [0..limit -> ReadState(s, size)] :
               f[0] = ReadStart(size) /\ \A n \in 1..limit : f[n] = ReadOn(s, size, f[n - 1])
<1> DEFINE V == ReadState(s, size)
           z == ReadStart(size)
           g == [v \in V |-> ReadOn(s, size, v)]
<1>a. g \in [V -> V]
  BY ReadOnFacts
<1>b. z \in V
  <2>1. Zeros(size) \in [1..size -> Nat]
    BY DEF Zeros
  <2> QED BY <2>1 DEF ReadState, ReadStart
<1>c. \A v \in V : g[v] = ReadOn(s, size, v)
  OBVIOUS
<1> HIDE DEF V, z, g
<1> DEFINE Up(m, f) == f[0] = z /\ \A n \in 1..m : f[n] = g[f[n - 1]]
           Bad == {m \in Nat : ~ \E f \in [0..m -> V] : Up(m, f)}
<1>1. Bad = {}
  <2>1. SUFFICES ASSUME Bad # {} PROVE FALSE
    OBVIOUS
  <2>2. PICK m \in Bad : \A n \in Bad : m <= n
    <3>1. Bad \in SUBSET Nat
      OBVIOUS
    <3> HIDE DEF Bad
    <3> QED BY <2>1, <3>1, LeastNat
  <2>3. m \in Nat
    BY <2>2
  <2>4. CASE m = 0
    <3> DEFINE f == [n \in 0..m |-> z]
    <3>1. f \in [0..m -> V] /\ f[0] = z
      BY <2>4, <1>b
    <3>2. 1..m = {}
      BY <2>4
    <3>3. Up(m, f)
      BY <3>1, <3>2
    <3> QED BY <2>2, <3>1, <3>3
  <2>5. CASE m # 0
    <3>1. m - 1 \in Nat /\ ~(m <= m - 1) /\ m \in 1..m
      BY <2>3, <2>5
    <3>2. m - 1 \notin Bad
      <4> HIDE DEF Bad
      <4> QED BY <2>2, <3>1
    <3>3. PICK h \in [0..(m - 1) -> V] : Up(m - 1, h)
      BY <3>1, <3>2
    <3> DEFINE f == [n \in 0..m |-> IF n = m THEN g[h[m - 1]] ELSE h[n]]
    <3>4. /\ f[m] = g[h[m - 1]]
          /\ \A n \in 0..(m - 1) : f[n] = h[n]
      BY <3>1
    <3>5. f \in [0..m -> V]
      <4>1. m - 1 \in 0..(m - 1) /\ \A n \in 0..m : n = m \/ n \in 0..(m - 1)
        BY <3>1
      <4> QED BY <1>a, <4>1
    <3> HIDE DEF f
    <3>6. ASSUME NEW n \in 1..m PROVE f[n] = g[f[n - 1]]
      <4>1. n - 1 \in 0..(m - 1) /\ (n = m \/ (n \in 1..(m - 1) /\ n \in 0..(m - 1)))
        BY <3>1
      <4> QED BY <3>3, <3>4, <4>1
    <3>7. f[0] = z
      <4>1. 0 \in 0..(m - 1)
        BY <3>1
      <4> QED BY <3>3, <3>4, <4>1
    <3>8. Up(m, f)
      BY <3>6, <3>7
    <3> QED BY <2>2, <3>5, <3>8
  <2> QED BY <2>4, <2>5
<1>2. limit \notin Bad
  <2> HIDE DEF Bad
  <2> QED BY <1>1
<1>3. PICK f \in [0..limit -> V] : Up(limit, f)
  BY <1>2
<1>4. \A n \in 1..limit : n - 1 \in 0..limit
  OBVIOUS
<1>5. \A n \in 1..limit : f[n] = ReadOn(s, size, f[n - 1])
  BY <1>3, <1>4, <1>c
<1> QED BY <1>3, <1>5 DEF V, z

LEMMA ReadsFacts ==
    ASSUME NEW s \in Seq(Nat), NEW size \in Nat \ {0}, NEW limit \in Nat
    PROVE  /\ Reads(s, size, limit) \in [0..limit -> ReadState(s, size)]
           /\ Reads(s, size, limit)[0] = ReadStart(size)
           /\ \A n \in 1..limit :
                  Reads(s, size, limit)[n] = ReadOn(s, size, Reads(s, size, limit)[n - 1])
<1> DEFINE V == ReadState(s, size)
           f == Reads(s, size, limit)
<1>2. ReadStart(size) \in V
  <2>1. Zeros(size) \in [1..size -> Nat]
    BY DEF Zeros
  <2> QED BY <2>1 DEF ReadState, ReadStart
<1>3. PICK h \in [0..limit -> V] :
          h[0] = ReadStart(size) /\ \A n \in 1..limit : h[n] = ReadOn(s, size, h[n - 1])
  BY ReadsExist
<1> HIDE DEF V
<1>6. h = ReadRounds(s, size, limit, h)
  <2>1. \A n \in 0..limit : n = 0 \/ n \in 1..limit
    OBVIOUS
  <2>2. \A n \in 0..limit : h[n] = IF n = 0 THEN ReadStart(size) ELSE ReadOn(s, size, h[n - 1])
    BY <1>3, <2>1
  <2> QED BY <2>2 DEF ReadRounds
<1>7. f = ReadRounds(s, size, limit, f)
  BY <1>6, ReadsAre
<1> HIDE DEF f
<1>8. \A n \in 0..limit : f[n] = IF n = 0 THEN ReadStart(size) ELSE ReadOn(s, size, f[n - 1])
  BY <1>7 DEF ReadRounds
<1>9. f[0] = ReadStart(size) /\ \A n \in 1..limit : f[n] = ReadOn(s, size, f[n - 1])
  <2>1. 0 \in 0..limit /\ \A n \in 1..limit : n \in 0..limit /\ n # 0
    OBVIOUS
  <2> QED BY <1>8, <2>1
<1>10. \A n \in 0..limit : f[n] \in V
  <2> DEFINE Bad == {n \in 0..limit : f[n] \notin V}
  <2>1. SUFFICES ASSUME Bad # {} PROVE FALSE
    OBVIOUS
  <2>2. PICK m \in Bad : \A n \in Bad : m <= n
    <3>1. Bad \in SUBSET Nat
      OBVIOUS
    <3> HIDE DEF Bad
    <3> QED BY <2>1, <3>1, LeastNat
  <2>3. m \in 0..limit /\ f[m] \notin V
    BY <2>2
  <2>4. m # 0
    BY <1>2, <1>9, <2>3
  <2>5. m - 1 \in 0..limit /\ ~(m <= m - 1) /\ m \in 1..limit
    BY <2>3, <2>4
  <2>6. m - 1 \notin Bad
    <3> HIDE DEF Bad
    <3> QED BY <2>2, <2>5
  <2>7. f[m - 1] \in V
    BY <2>5, <2>6
  <2> QED BY <1>9, <2>3, <2>5, <2>7, ReadOnFacts DEF V
<1>11. f = [n \in 0..limit |-> f[n]]
  BY <1>7 DEF ReadRounds
<1> QED BY <1>9, <1>10, <1>11 DEF f, V

\* Comparebyte says that two files of one length are the same only if they are.
LEMMA ComparebyteExact ==
    ASSUME NEW s \in Seq(Nat), NEW d \in Seq(Nat), Len(s) = Len(d), Comparebyte(s, d)
    PROVE  s = d
<1> DEFINE limit == Len(s) + 1
           rs == Reads(s, CompareBuf, limit)
           rd == Reads(d, CompareBuf, limit)
           Same(n) == /\ rs[n].pos = rd[n].pos /\ (rs[n].pos >= n \/ rs[n].pos = Len(s))
                      /\ \A i \in 1..rs[n].pos : s[i] = d[i]
           Bad == {n \in 0..limit : ~Same(n)}
<1>1. CompareBuf \in Nat \ {0} /\ limit \in Nat /\ Len(s) \in Nat
  <2>1. CompareBuf \in Nat \ {0}
    BY CompareAssumption, Zenon
  <2>2. limit \in Nat /\ Len(s) \in Nat
    OBVIOUS
  <2> QED BY <2>1, <2>2
<1>2. /\ rs \in [0..limit -> ReadState(s, CompareBuf)] /\ rs[0] = ReadStart(CompareBuf)
      /\ \A n \in 1..limit : rs[n] = ReadOn(s, CompareBuf, rs[n - 1])
  <2> HIDE DEF limit
  <2> QED BY <1>1, ReadsFacts
<1>3. /\ rd \in [0..limit -> ReadState(d, CompareBuf)] /\ rd[0] = ReadStart(CompareBuf)
      /\ \A n \in 1..limit : rd[n] = ReadOn(d, CompareBuf, rd[n - 1])
  <2> HIDE DEF limit
  <2> QED BY <1>1, ReadsFacts
<1>4. \A n \in 1..limit : IF rs[n].count = 0 \/ rd[n].count = 0 THEN rs[n].count = rd[n].count
                          ELSE rs[n].count = rd[n].count /\ rs[n].buffer = rd[n].buffer
  BY DEF Comparebyte, SameBlock
<1> HIDE DEF rs, rd
<1>5. Bad = {}
  <2>1. SUFFICES ASSUME Bad # {} PROVE FALSE
    OBVIOUS
  <2>2. PICK n \in Bad : \A m \in Bad : n <= m
    <3>1. Bad \in SUBSET Nat
      BY <1>1
    <3> HIDE DEF Bad
    <3> QED BY <2>1, <3>1, LeastNat
  <2>3. n \in 0..limit /\ n \in Nat
    BY <1>1, <2>2
  <2>4. CASE n = 0
    <3>1. rs[n].pos = 0 /\ rd[n].pos = 0
      BY <1>2, <1>3, <2>4 DEF ReadStart
    <3>2. Same(n)
      BY <2>4, <3>1
    <3> QED BY <2>2, <3>2
  <2>5. CASE n # 0
    <3>1. n \in 1..limit /\ n - 1 \in 0..limit /\ ~(n <= n - 1)
      BY <1>1, <2>3, <2>5
    <3>2. n - 1 \notin Bad
      <4> HIDE DEF Bad
      <4> QED BY <2>2, <3>1
    <3>3. Same(n - 1)
      BY <3>1, <3>2
    <3>4. PICK i \in 0..Len(s) : i = rs[n - 1].pos /\ i = rd[n - 1].pos
      BY <1>2, <3>1, <3>3 DEF ReadState
    <3>5. rs[n - 1] \in ReadState(s, CompareBuf) /\ rd[n - 1] \in ReadState(d, CompareBuf)
      BY <1>2, <1>3, <3>1
    <3>6. /\ rs[n] \in ReadState(s, CompareBuf)
          /\ rs[n].pos = i + rs[n].count /\ rs[n].count = ReadCount(s, i, CompareBuf)
          /\ \A k \in 1..rs[n].count : rs[n].buffer[k] = s[i + k]
      <4>1. PICK v \in ReadState(s, CompareBuf) : v = rs[n - 1] /\ v.pos = i /\ rs[n] = ReadOn(s, CompareBuf, v)
        BY <1>2, <3>1, <3>4, <3>5
      <4>2. /\ ReadOn(s, CompareBuf, v) \in ReadState(s, CompareBuf)
            /\ ReadOn(s, CompareBuf, v).pos = v.pos + ReadOn(s, CompareBuf, v).count
            /\ ReadOn(s, CompareBuf, v).count = ReadCount(s, v.pos, CompareBuf)
            /\ \A k \in 1..ReadOn(s, CompareBuf, v).count : ReadOn(s, CompareBuf, v).buffer[k] = s[v.pos + k]
        BY <1>1, ReadOnFacts
      <4> QED BY <4>1, <4>2
    <3>7. /\ rd[n] \in ReadState(d, CompareBuf)
          /\ rd[n].pos = i + rd[n].count /\ rd[n].count = ReadCount(d, i, CompareBuf)
          /\ \A k \in 1..rd[n].count : rd[n].buffer[k] = d[i + k]
      <4>1. PICK v \in ReadState(d, CompareBuf) : v = rd[n - 1] /\ v.pos = i /\ rd[n] = ReadOn(d, CompareBuf, v)
        BY <1>3, <3>1, <3>4, <3>5
      <4>2. /\ ReadOn(d, CompareBuf, v) \in ReadState(d, CompareBuf)
            /\ ReadOn(d, CompareBuf, v).pos = v.pos + ReadOn(d, CompareBuf, v).count
            /\ ReadOn(d, CompareBuf, v).count = ReadCount(d, v.pos, CompareBuf)
            /\ \A k \in 1..ReadOn(d, CompareBuf, v).count : ReadOn(d, CompareBuf, v).buffer[k] = d[v.pos + k]
        BY <1>1, ReadOnFacts
      <4> QED BY <4>1, <4>2
    <3>8. PICK count \in Nat : count = rs[n].count /\ count = rd[n].count
      BY <1>4, <3>1, <3>6 DEF ReadState
    <3>9. i + count \in 0..Len(s) /\ (count = 0 => i = Len(s))
      <4>1. /\ i + ReadCount(s, i, CompareBuf) \in 0..Len(s)
            /\ ReadCount(s, i, CompareBuf) = 0 => i = Len(s)
        BY <1>1, ReadCountFacts
      <4>2. count = ReadCount(s, i, CompareBuf)
        BY <3>6, <3>8
      <4> QED BY <4>1, <4>2
    <3>10. i + count >= n \/ i + count = Len(s)
      <4>1. i >= n - 1 \/ i = Len(s)
        BY <3>3, <3>4
      <4> QED BY <1>1, <2>3, <3>9, <4>1
    <3>11. ASSUME NEW j \in 1..(i + count) PROVE s[j] = d[j]
      <4>1. CASE j \in 1..i
        BY <3>3, <3>4, <4>1
      <4>2. CASE j \notin 1..i
        <5>1. j - i \in 1..count /\ i + (j - i) = j /\ count # 0
          BY <4>2
        <5>2. rs[n].buffer = rd[n].buffer
          BY <1>4, <3>1, <3>8, <5>1
        <5> QED BY <3>6, <3>7, <3>8, <5>1, <5>2
      <4> QED BY <4>1, <4>2
    <3>12. Same(n)
      BY <3>6, <3>7, <3>8, <3>10, <3>11
    <3> QED BY <2>2, <3>12
  <2> QED BY <2>4, <2>5
<1>6. Len(s) \in 0..limit /\ Len(s) \notin Bad
  <2>1. Len(s) \in 0..limit
    BY <1>1
  <2> HIDE DEF Bad
  <2> QED BY <1>5, <2>1
<1>7. Same(Len(s))
  BY <1>6
<1>8. rs[Len(s)].pos = Len(s)
  <2>1. rs[Len(s)] \in ReadState(s, CompareBuf)
    BY <1>2, <1>6
  <2>2. rs[Len(s)].pos \in 0..Len(s)
    BY <2>1 DEF ReadState
  <2> QED BY <1>1, <1>7, <2>2
<1>9. \A i \in 1..Len(s) : s[i] = d[i]
  BY <1>7, <1>8
<1>10. s = [i \in 1..Len(s) |-> s[i]] /\ d = [i \in 1..Len(s) |-> d[i]]
  OBVIOUS
<1> QED BY <1>9, <1>10

-----------------------------------------------------------------------------
(***************************************************************************)
(* compare: the walk and the copies.                                       *)
(***************************************************************************)
\* A file of the source is done with: the destination held it with the same
\* content, or it has been printed, and with a -c other than the source copied.
Settled(r) ==
    LET s == <<"s", r>>
        d == <<"d", r>>
    IN  \/ d \in DOMAIN loc.orig /\ loc.orig[d] = loc.orig[s]
        \/ /\ opt.verbose => \E i \in DOMAIN out : out[i][2] = r
           /\ opt.copyto \in {"c", "d"} =>
                Exists(<<opt.copyto, r>>) /\ disk[<<opt.copyto, r>>] = loc.orig[s]

\* The source as the walk found it: every entry lies in directories.
OriginInv ==
    /\ \A p \in DOMAIN loc.orig : IsEntry(loc.orig[p])
    /\ \A r \in Rels : <<"s", r>> \in DOMAIN loc.orig =>
           \A k \in 0..(Len(r) - 1) :
               /\ Above(r, k) \in Rels /\ <<"s", Above(r, k)>> \in DOMAIN loc.orig
               /\ loc.orig[<<"s", Above(r, k)>>].dir

\* A copy changes nothing but the entry it is of, in the directory of -c.
DiskInv ==
    /\ \A p \in DOMAIN disk : IsEntry(disk[p])
    /\ \A p \in DOMAIN loc.orig :
           /\ Exists(p) /\ (loc.orig[p].dir => disk[p].dir)
           /\ p[1] # opt.copyto => disk[p] = loc.orig[p]
    /\ \A r \in Rels : Exists(<<"s", r>>) => <<"s", r>> \in DOMAIN loc.orig

\* The walk has found the file or a directory above it.
Found(r) == \E k \in 0..Len(r), i \in loc.todo : WalkOrder[i] = Above(r, k)

\* No copy has touched the file, in the source or in the destination.
Untouched(r) ==
    /\ disk[<<"s", r>>] = loc.orig[<<"s", r>>]
    /\ Exists(<<"d", r>>) => /\ <<"d", r>> \in DOMAIN loc.orig
                             /\ disk[<<"d", r>>] = loc.orig[<<"d", r>>]

\* As long as no error stops it, the walk is done with every file of the source
\* or has yet to reach it.
CompareInv ==
    cmd = "compare" =>
        /\ opt \in CompareOptions
        /\ DOMAIN loc = {"todo", "orig"} /\ loc.todo \subseteq DOMAIN WalkOrder
        /\ out \in Seq(BOOLEAN \X Seq(STRING))
        /\ OriginInv /\ DiskInv
        /\ pc \in {"start", "walk", "copy", "returned", "fatal"}
        /\ pc = "copy" => /\ loc.todo # {} /\ opt.copyto # "" /\ Exists(At("s"))
                          /\ opt.verbose => \E i \in DOMAIN out : out[i][2] = Rel
        /\ pc = "returned" => loc.todo = {}
        /\ pc # "fatal" => \A r \in SourceFiles : Settled(r) \/ (Found(r) /\ Untouched(r))

-----------------------------------------------------------------------------
LEMMA CompareSteps ==
    [Next]_vars /\ cmd = "compare" =>
        StartCompare \/ CompareVisit \/ CopyEntry \/ CompareEnds \/ UNCHANGED vars
  BY DEF Next, Step, CompareNext, Arrive, FileVanishes, Terminated

\* The walk visits the first of the entries it has found.
LEMMA PlaceFacts ==
    ASSUME loc.todo \subseteq DOMAIN WalkOrder, loc.todo # {}
    PROVE  Place \in loc.todo /\ Place \in DOMAIN WalkOrder /\ Rel \in Rels /\ Rel \in Seq(STRING)
<1>1. WalkOrder \in Seq(Seq(STRING))
  BY CompareAssumption, Zenon
<1>2. DOMAIN WalkOrder \subseteq Nat
  BY <1>1
<1>3. loc.todo \in SUBSET Nat
  BY <1>2
<1>4. PICK i \in loc.todo : \A j \in loc.todo : i <= j
  BY <1>3, LeastNat
<1>5. Place \in loc.todo
  BY <1>4 DEF Place
<1> QED BY <1>1, <1>5 DEF Rel, Rels

LEMMA RelsAreSeqs == Rels \subseteq Seq(STRING)
<1>1. WalkOrder \in Seq(Seq(STRING))
  BY CompareAssumption, Zenon
<1> QED BY <1>1 DEF Rels

LEMMA AboveFacts ==
    ASSUME NEW r \in Seq(STRING), NEW k \in 0..Len(r)
    PROVE  /\ Above(r, k) \in Seq(STRING) /\ Len(Above(r, k)) = k
           /\ \A j \in 1..k : Above(r, k)[j] = r[j]
BY DEF Above

LEMMA AboveAbove ==
    ASSUME NEW r \in Seq(STRING), NEW k \in 0..Len(r), NEW j \in 0..k
    PROVE  Above(Above(r, k), j) = Above(r, j)
<1>1. PICK a \in Seq(STRING) : a = Above(r, k) /\ Len(a) = k /\ \A i \in 1..k : a[i] = r[i]
  BY AboveFacts
<1>2. j \in 0..Len(r) /\ j \in 0..Len(a) /\ 1..j \subseteq 1..k
  BY <1>1
<1>3. Above(a, j) \in Seq(STRING) /\ Len(Above(a, j)) = j /\ \A i \in 1..j : Above(a, j)[i] = a[i]
  BY <1>2, AboveFacts
<1>4. Above(r, j) \in Seq(STRING) /\ Len(Above(r, j)) = j /\ \A i \in 1..j : Above(r, j)[i] = r[i]
  BY <1>2, AboveFacts
<1>5. \A i \in 1..j : Above(a, j)[i] = Above(r, j)[i]
  BY <1>1, <1>2, <1>3, <1>4
<1>6. PICK x \in Seq(STRING), y \in Seq(STRING) :
          x = Above(a, j) /\ y = Above(r, j) /\ Len(x) = j /\ Len(y) = j /\ \A i \in 1..j : x[i] = y[i]
  BY <1>3, <1>4, <1>5
<1>7. x = y
  BY <1>6
<1> QED BY <1>1, <1>6, <1>7

LEMMA AboveAll == ASSUME NEW r \in Seq(STRING) PROVE Above(r, Len(r)) = r
  BY DEF Above

LEMMA AboveNone == ASSUME NEW r \in Seq(STRING) PROVE Above(r, 0) = <<>>
  BY DEF Above

\* A file that matches is the same.
LEMMA ComparefileExact ==
    ASSUME NEW s, NEW d, IsEntry(s), IsEntry(d), ~s.dir, Comparefile(s, d)
    PROVE  s = d
<1>1. ~d.dir /\ Len(s.data) = Len(d.data) /\ Comparebyte(s.data, d.data)
  BY DEF Comparefile
<1>2. PICK a \in Seq(Nat), b \in Seq(Nat) : a = s.data /\ b = d.data
  BY DEF IsEntry
<1>3. a = b
  BY <1>1, <1>2, ComparebyteExact
<1>4. s = [dir |-> s.dir, data |-> s.data] /\ d = [dir |-> d.dir, data |-> d.data]
      /\ s.dir \in BOOLEAN /\ d.dir \in BOOLEAN
  BY DEF IsEntry
<1>5. s.dir = FALSE /\ d.dir = FALSE
  BY <1>1, <1>4
<1> QED BY <1>2, <1>3, <1>4, <1>5

LEMMA CompareInitInv == Init => CompareInv
<1> SUFFICES ASSUME Init, cmd = "compare" PROVE CompareInv
  BY DEF CompareInv
<1>1. CompareInit
  BY DEF Init
<1>2. PICK source \in SourceTrees, dest \in DestTrees, copies \in CopyTrees :
          disk = Rooted(source, dest, copies)
  BY <1>1 DEF CompareInit
<1>3. IsTree(source) /\ IsTree(dest) /\ IsTree(copies)
  BY CompareAssumption
<1>4. loc = [todo |-> {1}, orig |-> disk] /\ pc = "start" /\ out = <<>> /\ opt \in CompareOptions
  BY <1>1 DEF CompareInit
<1>5. DOMAIN loc = {"todo", "orig"} /\ loc.todo = {1} /\ loc.orig = disk
  BY <1>4
<1>6. 1 \in DOMAIN WalkOrder /\ WalkOrder[1] = <<>>
  <2>1. WalkOrder \in Seq(Seq(STRING)) /\ WalkOrder # <<>> /\ WalkOrder[1] = <<>>
    BY CompareAssumption, Zenon
  <2> QED BY <2>1
<1>7. /\ DOMAIN disk = ({"s"} \X DOMAIN source) \cup ({"d"} \X DOMAIN dest) \cup ({"c"} \X DOMAIN copies)
      /\ \A p \in DOMAIN disk : disk[p] = CASE p[1] = "s" -> source[p[2]]
                                          [] p[1] = "d" -> dest[p[2]]
                                          [] OTHER -> copies[p[2]]
  BY <1>2 DEF Rooted
<1>8. ASSUME NEW p \in DOMAIN disk PROVE IsEntry(disk[p])
  <2>1. CASE p \in {"s"} \X DOMAIN source
    <3>1. disk[p] = source[p[2]] /\ p[2] \in DOMAIN source
      BY <1>7, <2>1
    <3> QED BY <1>3, <3>1 DEF IsTree, IsEntry
  <2>2. CASE p \in {"d"} \X DOMAIN dest
    <3>1. disk[p] = dest[p[2]] /\ p[2] \in DOMAIN dest
      BY <1>7, <2>2
    <3> QED BY <1>3, <3>1 DEF IsTree, IsEntry
  <2>3. CASE p \in {"c"} \X DOMAIN copies
    <3>1. disk[p] = copies[p[2]] /\ p[2] \in DOMAIN copies
      BY <1>7, <2>3
    <3> QED BY <1>3, <3>1 DEF IsTree, IsEntry
  <2> QED BY <1>7, <2>1, <2>2, <2>3
<1>9. \A r : <<"s", r>> \in DOMAIN disk <=> r \in DOMAIN source
  BY <1>7
<1>10. \A r \in DOMAIN source : disk[<<"s", r>>] = source[r]
  BY <1>7
<1>11. ASSUME NEW r \in Rels, <<"s", r>> \in DOMAIN loc.orig, NEW k \in 0..(Len(r) - 1)
       PROVE  /\ Above(r, k) \in Rels /\ <<"s", Above(r, k)>> \in DOMAIN loc.orig
              /\ loc.orig[<<"s", Above(r, k)>>].dir
  <2>1. r \in DOMAIN source
    BY <1>5, <1>9, <1>11
  <2>2. Above(r, k) \in DOMAIN source /\ source[Above(r, k)].dir
    BY <1>3, <2>1 DEF IsTree
  <2>3. Above(r, k) \in Rels
    BY <1>3, <2>2 DEF IsTree
  <2> QED BY <1>5, <1>9, <1>10, <2>2, <2>3
<1>12. OriginInv
  BY <1>5, <1>8, <1>11 DEF OriginInv
<1>13. DiskInv
  BY <1>5, <1>8 DEF DiskInv, Exists
<1>14. ASSUME NEW r \in SourceFiles PROVE Found(r) /\ Untouched(r)
  <2>1. r \in Seq(STRING)
    BY RelsAreSeqs DEF SourceFiles
  <2>2. 0 \in 0..Len(r) /\ Above(r, 0) = <<>>
    BY <2>1, AboveNone
  <2>3. Found(r)
    BY <1>5, <1>6, <2>2 DEF Found
  <2> QED BY <1>5, <2>3 DEF Untouched, Exists
<1>15. out \in Seq(BOOLEAN \X Seq(STRING))
  BY <1>4
<1> QED BY <1>4, <1>5, <1>6, <1>12, <1>13, <1>14, <1>15 DEF CompareInv

\* A copy changes the file in the directory of -c that it is of, and makes the
\* directories above it.
LEMMA CopyKeeps ==
    ASSUME CompareInv, cmd = "compare", pc = "copy", opt' = opt, loc'.orig = loc.orig,
           NEW to, to = At(opt.copyto), ~IsDir(to), DOMAIN disk \subseteq DOMAIN disk',
           DOMAIN disk' \subseteq DOMAIN disk \cup Missing(to) \cup {to},
           \A p \in DOMAIN disk : p # to => disk'[p] = disk[p],
           \A p \in DOMAIN disk' : IsEntry(disk'[p])
    PROVE  DiskInv' /\ \A r \in SourceFiles : r # Rel /\ Untouched(r) => Untouched(r)'
<1>1. /\ OriginInv /\ DiskInv /\ loc.todo \subseteq DOMAIN WalkOrder /\ loc.todo # {}
      /\ Exists(At("s")) /\ opt \in CompareOptions
  BY DEF CompareInv
<1>2. Rel \in Rels /\ Rel \in Seq(STRING) /\ Len(Rel) \in Nat
  BY <1>1, PlaceFacts
<1>3. <<"s", Rel>> \in DOMAIN loc.orig /\ <<"s", Rel>> \in DOMAIN disk
  BY <1>1, <1>2 DEF DiskInv, At, Exists
<1>4. to = <<opt.copyto, Rel>> /\ to[1] = opt.copyto /\ to[2] = Rel
  BY DEF At
<1>5. \A p \in Missing(to) : \E k \in 0..(Len(Rel) - 1) : p = <<opt.copyto, Above(Rel, k)>>
  BY <1>4 DEF Missing
<1>6. ASSUME NEW k \in 0..(Len(Rel) - 1)
      PROVE  /\ <<"s", Above(Rel, k)>> \in DOMAIN loc.orig /\ <<"s", Above(Rel, k)>> \in DOMAIN disk
             /\ loc.orig[<<"s", Above(Rel, k)>>].dir
  BY <1>1, <1>2, <1>3 DEF OriginInv, DiskInv, Exists
<1>7. ASSUME NEW p \in DOMAIN loc.orig
      PROVE  /\ p \in DOMAIN disk' /\ (loc.orig[p].dir => disk'[p].dir)
             /\ p[1] # opt.copyto => disk'[p] = loc.orig[p]
  <2>1. p \in DOMAIN disk /\ (loc.orig[p].dir => disk[p].dir) /\ (p[1] # opt.copyto => disk[p] = loc.orig[p])
    BY <1>1 DEF DiskInv, Exists
  <2>2. CASE p # to
    BY <2>1, <2>2
  <2>3. CASE p = to
    BY <1>4, <2>1, <2>3 DEF IsDir, Exists
  <2> QED BY <2>2, <2>3
<1>8. ASSUME NEW r \in Rels, <<"s", r>> \in DOMAIN disk' PROVE <<"s", r>> \in DOMAIN loc.orig
  <2>1. CASE <<"s", r>> \in DOMAIN disk
    BY <1>1, <2>1 DEF DiskInv, Exists
  <2>2. CASE <<"s", r>> = to
    BY <1>3, <1>4, <2>2
  <2>3. CASE <<"s", r>> \in Missing(to)
    <3>1. PICK k \in 0..(Len(Rel) - 1) : <<"s", r>> = <<opt.copyto, Above(Rel, k)>>
      BY <1>5, <2>3
    <3>2. <<"s", r>> = <<"s", Above(Rel, k)>>
      BY <3>1
    <3> QED BY <1>6, <3>2
  <2> QED BY <1>8, <2>1, <2>2, <2>3
<1>9. DiskInv'
  BY <1>7, <1>8 DEF DiskInv, Exists
<1>10. ASSUME NEW r \in SourceFiles, r # Rel, Untouched(r) PROVE Untouched(r)'
  <2>1. r \in Rels /\ <<"s", r>> \in DOMAIN loc.orig /\ ~loc.orig[<<"s", r>>].dir
    BY DEF SourceFiles
  <2>2. <<"s", r>> \in DOMAIN disk /\ <<"s", r>> # to /\ <<"d", r>> # to
    BY <1>1, <1>4, <1>10, <2>1 DEF DiskInv, Exists
  <2>3. disk'[<<"s", r>>] = loc'.orig[<<"s", r>>]
    BY <1>10, <2>2 DEF Untouched
  <2>4. ASSUME <<"d", r>> \in DOMAIN disk'
        PROVE  <<"d", r>> \in DOMAIN loc'.orig /\ disk'[<<"d", r>>] = loc'.orig[<<"d", r>>]
    <3>1. <<"d", r>> \notin Missing(to)
      <4>1. SUFFICES ASSUME NEW k \in 0..(Len(Rel) - 1), <<"d", r>> = <<opt.copyto, Above(Rel, k)>>
                     PROVE FALSE
        BY <1>5
      <4>2. r = Above(Rel, k)
        BY <4>1
      <4> QED BY <1>6, <2>1, <4>2
    <3>2. <<"d", r>> \in DOMAIN disk
      BY <2>2, <2>4, <3>1
    <3> QED BY <1>10, <2>2, <3>2 DEF Untouched, Exists
  <2> QED BY <2>3, <2>4 DEF Untouched, Exists
<1> QED BY <1>9, <1>10

\* The walk goes down: what it had found and has not just visited it has still.
LEMMA ProceedFinds ==
    ASSUME CompareInv, cmd = "compare", loc.todo # {}, NEW fs, Proceed(fs),
           DOMAIN disk \subseteq DOMAIN fs
    PROVE  /\ pc' = "walk" /\ loc'.orig = loc.orig /\ DOMAIN loc' = {"todo", "orig"}
           /\ loc'.todo \subseteq DOMAIN WalkOrder
           /\ \A r \in SourceFiles : r # Rel /\ Found(r) => Found(r)'
<1> DEFINE child(r) == r # <<>> /\ Above(r, Len(r) - 1) = Rel /\ <<"s", r>> \in DOMAIN fs
           todo == (loc.todo \ {Place}) \cup {i \in DOMAIN WalkOrder : child(WalkOrder[i])}
<1>1. /\ OriginInv /\ DiskInv /\ loc.todo \subseteq DOMAIN WalkOrder
      /\ DOMAIN loc = {"todo", "orig"}
  BY DEF CompareInv
<1>2. pc' = "walk" /\ loc' = [loc EXCEPT !.todo = todo]
  BY DEF Proceed
<1>3. todo \subseteq DOMAIN WalkOrder
  BY <1>1
<1> HIDE DEF todo
<1>4. loc'.todo = todo /\ loc'.orig = loc.orig /\ DOMAIN loc' = {"todo", "orig"}
  BY <1>1, <1>2
<1>5. ASSUME NEW r \in SourceFiles, r # Rel, Found(r) PROVE Found(r)'
  <2>1. r \in Rels /\ <<"s", r>> \in DOMAIN loc.orig /\ r \in Seq(STRING) /\ Len(r) \in Nat
    BY RelsAreSeqs DEF SourceFiles
  <2>2. PICK k \in 0..Len(r), i \in loc.todo : WalkOrder[i] = Above(r, k)
    BY <1>5 DEF Found
  <2>3. CASE i # Place
    BY <1>4, <2>2, <2>3 DEF Found, todo
  <2>4. CASE i = Place
    <3>1. Above(r, k) = Rel
      BY <2>2, <2>4 DEF Rel
    <3>2. k # Len(r)
      BY <1>5, <2>1, <3>1, AboveAll
    <3>3. k + 1 \in 0..Len(r) /\ k \in 0..(k + 1) /\ (k + 1) - 1 = k
      BY <2>1, <3>2
    <3>4. PICK a \in Seq(STRING) : a = Above(r, k + 1) /\ Len(a) = k + 1 /\ Above(a, k) = Rel
      BY <2>1, <3>1, <3>3, AboveFacts, AboveAbove
    <3>5. a # <<>> /\ Above(a, Len(a) - 1) = Rel
      BY <3>3, <3>4
    <3>6. a \in Rels /\ <<"s", a>> \in DOMAIN loc.orig
      <4>1. CASE k + 1 = Len(r)
        BY <2>1, <3>4, <4>1, AboveAll
      <4>2. CASE k + 1 # Len(r)
        <5>1. k + 1 \in 0..(Len(r) - 1)
          BY <2>1, <3>3, <4>2
        <5> QED BY <1>1, <2>1, <3>4, <5>1 DEF OriginInv
      <4> QED BY <4>1, <4>2
    <3>7. <<"s", a>> \in DOMAIN fs
      BY <1>1, <3>6 DEF DiskInv, Exists
    <3>8. PICK j \in DOMAIN WalkOrder : WalkOrder[j] = a
      BY <3>6 DEF Rels
    <3>9. j \in todo
      BY <3>5, <3>7, <3>8 DEF todo
    <3> QED BY <1>4, <3>3, <3>4, <3>8, <3>9 DEF Found
  <2> QED BY <2>3, <2>4
<1> QED BY <1>2, <1>3, <1>4, <1>5

\* While the files stay, so does what the walk has done for them; it may print.
LEMMA CompareKeeps ==
    ASSUME CompareInv, cmd = "compare", UNCHANGED <<opt, disk>>, loc'.orig = loc.orig,
           loc.todo # {}, out' = out \/ out' = Append(out, Difference)
    PROVE  /\ OriginInv' /\ DiskInv' /\ SourceFiles' = SourceFiles
           /\ out' \in Seq(BOOLEAN \X Seq(STRING)) /\ Len(out) <= Len(out')
           /\ DOMAIN out \subseteq DOMAIN out' /\ \A i \in DOMAIN out : out'[i] = out[i]
           /\ \A r \in SourceFiles : (Settled(r) => Settled(r)') /\ (Untouched(r) => Untouched(r)')
<1>1. /\ OriginInv /\ DiskInv /\ loc.todo \subseteq DOMAIN WalkOrder
      /\ out \in Seq(BOOLEAN \X Seq(STRING))
  BY DEF CompareInv
<1>2. OriginInv' /\ DiskInv' /\ SourceFiles' = SourceFiles
  BY <1>1 DEF OriginInv, DiskInv, SourceFiles, Exists
<1>3. Difference \in BOOLEAN \X Seq(STRING)
  <2>1. Exists(At("d")) \in BOOLEAN
    BY DEF Exists
  <2>2. Rel \in Seq(STRING)
    BY <1>1, PlaceFacts
  <2> QED BY <2>1, <2>2 DEF Difference
<1>4. /\ out' \in Seq(BOOLEAN \X Seq(STRING)) /\ Len(out) <= Len(out')
      /\ DOMAIN out \subseteq DOMAIN out' /\ \A i \in DOMAIN out : out'[i] = out[i]
  <2>1. PICK T : T = BOOLEAN \X Seq(STRING)
    OBVIOUS
  <2>2. out \in Seq(T) /\ Difference \in T
    BY <1>1, <1>3, <2>1
  <2>3. /\ out' \in Seq(T) /\ Len(out) <= Len(out')
        /\ DOMAIN out \subseteq DOMAIN out' /\ \A i \in DOMAIN out : out'[i] = out[i]
    BY <2>2
  <2> QED BY <2>1, <2>3
<1>5. ASSUME NEW r \in SourceFiles, Settled(r) PROVE Settled(r)'
  <2>1. (\E i \in DOMAIN out : out[i][2] = r) => \E i \in DOMAIN out' : out'[i][2] = r
    BY <1>4
  <2> QED BY <1>5, <2>1 DEF Settled, Exists
<1>6. ASSUME NEW r \in SourceFiles, Untouched(r) PROVE Untouched(r)'
  BY <1>6 DEF Untouched, Exists
<1> QED BY <1>2, <1>4, <1>5, <1>6

\* The entry is compared.
LEMMA VisitInv ==
    ASSUME CompareInv, cmd = "compare", cmd' = cmd, CompareVisit
    PROVE  CompareInv'
<1>1. /\ pc = "walk" /\ loc.todo # {} /\ UNCHANGED <<opt, disk>>
      /\ opt \in CompareOptions /\ DOMAIN loc = {"todo", "orig"} /\ loc.todo \subseteq DOMAIN WalkOrder
      /\ OriginInv /\ DiskInv
      /\ \A r \in SourceFiles : Settled(r) \/ (Found(r) /\ Untouched(r))
  BY DEF CompareInv, CompareVisit
<1>2. opt.verbose \in BOOLEAN
  BY <1>1, CompareAssumption
<1>3. CASE FatalOutput /\ UNCHANGED <<loc, out>>
  <2>1. loc'.orig = loc.orig /\ pc' = "fatal"
    BY <1>3 DEF FatalOutput
  <2>2. OriginInv' /\ DiskInv' /\ out' \in Seq(BOOLEAN \X Seq(STRING))
    BY <1>1, <1>3, <2>1, CompareKeeps
  <2> QED BY <1>1, <1>3, <2>1, <2>2 DEF CompareInv
\* Of the files only the one visited needs a reason to be settled.
<1>4. ASSUME Proceed(disk), out' = out \/ out' = Append(out, Difference),
             \A r \in SourceFiles : r = Rel => Settled(r) \/ Settled(r)'
      PROVE  CompareInv'
  <2>1. /\ pc' = "walk" /\ loc'.orig = loc.orig /\ DOMAIN loc' = {"todo", "orig"}
        /\ loc'.todo \subseteq DOMAIN WalkOrder
        /\ \A r \in SourceFiles : r # Rel /\ Found(r) => Found(r)'
    BY <1>1, <1>4, ProceedFinds
  <2>2. /\ OriginInv' /\ DiskInv' /\ SourceFiles' = SourceFiles
        /\ out' \in Seq(BOOLEAN \X Seq(STRING))
        /\ \A r \in SourceFiles : (Settled(r) => Settled(r)') /\ (Untouched(r) => Untouched(r)')
    BY <1>1, <1>4, <2>1, CompareKeeps
  <2>3. \A r \in SourceFiles : Settled(r)' \/ (Found(r)' /\ Untouched(r)')
    BY <1>1, <1>4, <2>1, <2>2
  <2>4. (\A r \in SourceFiles : Settled(r) \/ (Found(r) /\ Untouched(r)))'
    BY <2>2, <2>3
  <2> QED BY <1>1, <2>1, <2>2, <2>4 DEF CompareInv
<1>5. CASE Exists(At("s")) /\ Matches /\ Proceed(disk) /\ UNCHANGED out
  <2>1. ASSUME Rel \in SourceFiles PROVE Settled(Rel)
    <3>0. SUFFICES ASSUME ~Settled(Rel) PROVE FALSE
      OBVIOUS
    <3>1. /\ Untouched(Rel) /\ <<"s", Rel>> \in DOMAIN loc.orig
          /\ ~loc.orig[<<"s", Rel>>].dir
      BY <1>1, <2>1, <3>0 DEF SourceFiles
    <3>2. /\ <<"d", Rel>> \in DOMAIN disk /\ Comparefile(disk[<<"s", Rel>>], disk[<<"d", Rel>>])
          /\ <<"s", Rel>> \in DOMAIN disk
      BY <1>5 DEF Matches, Exists, At
    <3>3. /\ disk[<<"s", Rel>>] = loc.orig[<<"s", Rel>>] /\ <<"d", Rel>> \in DOMAIN loc.orig
          /\ disk[<<"d", Rel>>] = loc.orig[<<"d", Rel>>]
      BY <3>1, <3>2 DEF Untouched, Exists
    <3>4. IsEntry(disk[<<"s", Rel>>]) /\ IsEntry(disk[<<"d", Rel>>])
      BY <1>1, <3>2 DEF DiskInv
    <3>5. disk[<<"s", Rel>>] = disk[<<"d", Rel>>]
      BY <3>1, <3>2, <3>3, <3>4, ComparefileExact
    <3> QED BY <3>0, <3>3, <3>5 DEF Settled
  <2> QED BY <1>4, <1>5, <2>1
<1>6. CASE /\ Exists(At("s")) /\ out' = IF opt.verbose THEN Append(out, Difference) ELSE out
           /\ IF opt.copyto = "" THEN Proceed(disk) ELSE pc' = "copy" /\ UNCHANGED loc
  <2>1. out' = out \/ out' = Append(out, Difference)
    BY <1>6
  <2>2. opt.verbose => \E i \in DOMAIN out' : out'[i][2] = Rel
    <3>1. SUFFICES ASSUME opt.verbose PROVE \E i \in DOMAIN out' : out'[i][2] = Rel
      OBVIOUS
    <3>2. out' = Append(out, Difference) /\ out \in Seq(BOOLEAN \X Seq(STRING))
      BY <1>6, <3>1 DEF CompareInv
    <3>3. PICK n \in Nat : n = Len(out) + 1 /\ n \in DOMAIN out' /\ out'[n] = Difference
      BY <3>2
    <3>4. Difference[2] = Rel
      BY DEF Difference
    <3> QED BY <3>3, <3>4
  <2>3. CASE opt.copyto = ""
    <3>1. loc'.orig = loc.orig
      BY <1>1, <1>6, <2>3, ProceedFinds
    <3>2. \A r \in SourceFiles : r = Rel => Settled(r)'
      BY <1>1, <2>2, <2>3 DEF Settled
    <3> QED BY <1>4, <1>6, <2>1, <2>3, <3>2
  <2>4. CASE opt.copyto # ""
    <3>1. pc' = "copy" /\ loc' = loc
      BY <1>6, <2>4
    <3>2. /\ OriginInv' /\ DiskInv' /\ SourceFiles' = SourceFiles
          /\ out' \in Seq(BOOLEAN \X Seq(STRING))
          /\ \A r \in SourceFiles : (Settled(r) => Settled(r)') /\ (Untouched(r) => Untouched(r)')
      BY <1>1, <2>1, <3>1, CompareKeeps
    <3>3. \A r \in SourceFiles : Settled(r)' \/ (Found(r)' /\ Untouched(r)')
      BY <1>1, <3>1, <3>2 DEF Found
    <3>4. (\A r \in SourceFiles : Settled(r) \/ (Found(r) /\ Untouched(r)))'
      BY <3>2, <3>3
    <3>5. Rel' = Rel /\ Exists(At("s"))'
      BY <1>1, <1>6, <3>1 DEF Rel, Place, At, Exists
    <3>6. (opt.verbose => \E i \in DOMAIN out : out[i][2] = Rel)'
      BY <1>1, <2>2, <3>5
    <3> QED BY <1>1, <2>4, <3>1, <3>2, <3>4, <3>5, <3>6 DEF CompareInv
  <2> QED BY <2>3, <2>4
<1> QED BY <1>3, <1>5, <1>6 DEF CompareVisit

\* The entry is copied.
LEMMA CopyInv ==
    ASSUME CompareInv, cmd = "compare", cmd' = cmd, CopyEntry
    PROVE  CompareInv'
<1> DEFINE to == At(opt.copyto)
           from == At("s")
<1>1. /\ pc = "copy" /\ loc.todo # {} /\ UNCHANGED <<opt, out>> /\ opt.copyto # ""
      /\ opt \in CompareOptions /\ DOMAIN loc = {"todo", "orig"} /\ loc.todo \subseteq DOMAIN WalkOrder
      /\ OriginInv /\ DiskInv /\ out \in Seq(BOOLEAN \X Seq(STRING)) /\ Exists(from)
      /\ opt.verbose => \E i \in DOMAIN out : out[i][2] = Rel
      /\ \A r \in SourceFiles : Settled(r) \/ (Found(r) /\ Untouched(r))
  BY DEF CompareInv, CopyEntry
<1>2. /\ IsEntry(Directory) /\ \A b \in Seq(Nat) : IsEntry(File(b)) /\ File(b).data = b /\ ~File(b).dir
      /\ <<>> \in Seq(Nat)
  BY DEF IsEntry, Directory, File
<1>3. ASSUME loc'.orig = loc.orig PROVE OriginInv' /\ SourceFiles' = SourceFiles
  BY <1>1, <1>3 DEF OriginInv, SourceFiles
<1>4. ASSUME NEW dirs \in SUBSET Missing(to)
      PROVE  /\ DOMAIN Made(dirs) = DOMAIN disk \cup dirs
             /\ \A p \in DOMAIN disk : Made(dirs)[p] = disk[p]
             /\ \A p \in DOMAIN Made(dirs) : IsEntry(Made(dirs)[p])
  <2>1. /\ DOMAIN Made(dirs) = DOMAIN disk \cup dirs
        /\ \A p \in DOMAIN Made(dirs) : Made(dirs)[p] = IF p \in DOMAIN disk THEN disk[p] ELSE Directory
    BY DEF Made
  <2>2. \A p \in DOMAIN disk : IsEntry(disk[p])
    BY <1>1 DEF DiskInv
  <2> QED BY <1>2, <2>1, <2>2
\* An error after the directories, or some of them, were made.
<1>5. ASSUME FatalOutput, UNCHANGED loc, DiskInv' PROVE CompareInv'
  <2>1. OriginInv' /\ pc' = "fatal"
    BY <1>3, <1>5 DEF FatalOutput
  <2> QED BY <1>1, <1>5, <2>1 DEF CompareInv
<1>6. CASE FatalOutput /\ UNCHANGED <<disk, loc>>
  <2>1. DiskInv'
    BY <1>1, <1>6 DEF DiskInv, Exists
  <2> QED BY <1>5, <1>6, <2>1
<1>7. CASE ~IsDir(to) /\ FatalOutput /\ disk' = Made(Topmost(Missing(to))) /\ UNCHANGED loc
  <2>1. Topmost(Missing(to)) \in SUBSET Missing(to)
    BY DEF Topmost
  <2>2. /\ DOMAIN disk' = DOMAIN disk \cup Topmost(Missing(to))
        /\ \A p \in DOMAIN disk : disk'[p] = disk[p]
        /\ \A p \in DOMAIN disk' : IsEntry(disk'[p])
    BY <1>4, <1>7, <2>1
  <2>3. /\ DOMAIN disk \subseteq DOMAIN disk'
        /\ DOMAIN disk' \subseteq DOMAIN disk \cup Missing(to) \cup {to}
    BY <2>1, <2>2
  <2>4. DiskInv'
    BY <1>1, <1>7, <2>2, <2>3, CopyKeeps
  <2> QED BY <1>5, <1>7, <2>4
<1> DEFINE made == Made(Missing(to))
<1>8. /\ DOMAIN made = DOMAIN disk \cup Missing(to)
      /\ \A p \in DOMAIN disk : made[p] = disk[p]
      /\ \A p \in DOMAIN made : IsEntry(made[p])
  BY <1>4
<1> HIDE DEF made, to, from
\* The file is there, empty or with what was copied.
<1>9. ASSUME NEW bytes \in Seq(Nat), disk' = With(made, to, File(bytes))
      PROVE  /\ DOMAIN disk \subseteq DOMAIN disk' /\ disk'[to] = File(bytes) /\ to \in DOMAIN disk'
             /\ DOMAIN disk' \subseteq DOMAIN disk \cup Missing(to) \cup {to}
             /\ \A p \in DOMAIN disk : p # to => disk'[p] = disk[p]
             /\ \A p \in DOMAIN disk' : IsEntry(disk'[p])
  <2>1. /\ DOMAIN disk' = DOMAIN made \cup {to}
        /\ \A p \in DOMAIN disk' : disk'[p] = IF p = to THEN File(bytes) ELSE made[p]
    BY <1>9 DEF With
  <2> QED BY <1>2, <1>8, <2>1
<1>10. CASE ~IsDir(to) /\ FatalOutput /\ UNCHANGED loc /\ disk' = With(made, to, File(<<>>))
  <2>1. DiskInv'
    BY <1>1, <1>2, <1>9, <1>10, CopyKeeps DEF to
  <2> QED BY <1>5, <1>10, <2>1
<1>11. CASE ~IsDir(to) /\ ~IsDir(from) /\ disk' = Copied(made, from, to) /\ Proceed(disk')
  <2> DEFINE truncated == With(made, to, File(<<>>))
  <2>1. /\ from \in DOMAIN disk /\ from \in DOMAIN truncated
        /\ truncated[from] = IF from = to THEN File(<<>>) ELSE disk[from]
    BY <1>1, <1>8 DEF With, Exists
  <2>2. IsEntry(truncated[from])
    BY <1>1, <1>2, <2>1 DEF DiskInv
  <2>3. PICK bytes \in Seq(Nat) : bytes = truncated[from].data
    BY <2>2 DEF IsEntry
  <2>4. disk' = With(made, to, File(bytes))
    BY <1>11, <2>3 DEF Copied
  <2>5. /\ DOMAIN disk \subseteq DOMAIN disk' /\ disk'[to] = File(bytes) /\ to \in DOMAIN disk'
        /\ DOMAIN disk' \subseteq DOMAIN disk \cup Missing(to) \cup {to}
        /\ \A p \in DOMAIN disk : p # to => disk'[p] = disk[p]
        /\ \A p \in DOMAIN disk' : IsEntry(disk'[p])
    BY <1>9, <2>4
  <2>6. /\ pc' = "walk" /\ loc'.orig = loc.orig /\ DOMAIN loc' = {"todo", "orig"}
        /\ loc'.todo \subseteq DOMAIN WalkOrder
        /\ \A r \in SourceFiles : r # Rel /\ Found(r) => Found(r)'
    BY <1>1, <1>11, <2>5, ProceedFinds
  <2>7. DiskInv' /\ \A r \in SourceFiles : r # Rel /\ Untouched(r) => Untouched(r)'
    BY <1>1, <1>11, <2>5, <2>6, CopyKeeps DEF to
  <2>8. ASSUME NEW r \in SourceFiles, r # Rel, Settled(r) PROVE Settled(r)'
    <3>1. <<opt.copyto, r>> # to
      BY <2>8 DEF to, At
    <3> QED BY <1>1, <2>5, <2>6, <2>8, <3>1 DEF Settled, Exists
  <2>9. ASSUME NEW r \in SourceFiles, r = Rel PROVE Settled(r)'
    <3>1. from \in DOMAIN loc.orig /\ ~loc.orig[from].dir
      BY <2>9 DEF SourceFiles, from, At
    <3>2. ASSUME opt.copyto \in {"c", "d"} PROVE to \in DOMAIN disk' /\ disk'[to] = loc.orig[from]
      <4>1. from # to /\ from[1] # opt.copyto
        BY <3>2 DEF from, to, At
      <4>2. truncated[from] = loc.orig[from]
        BY <1>1, <2>1, <3>1, <4>1 DEF DiskInv
      <4>3. IsEntry(loc.orig[from])
        BY <1>1, <3>1 DEF OriginInv
      <4>4. loc.orig[from] = [dir |-> FALSE, data |-> loc.orig[from].data]
        BY <3>1, <4>3 DEF IsEntry
      <4>5. File(bytes) = loc.orig[from]
        BY <2>3, <4>2, <4>4 DEF File
      <4> QED BY <2>5, <4>5
    <3>3. to = <<opt.copyto, r>> /\ from = <<"s", r>>
      BY <2>9 DEF to, from, At
    <3> QED BY <1>1, <2>6, <2>9, <3>2, <3>3 DEF Settled, Exists
  <2>10. OriginInv' /\ SourceFiles' = SourceFiles
    BY <1>3, <2>6
  <2>11. \A r \in SourceFiles : Settled(r)' \/ (Found(r)' /\ Untouched(r)')
    BY <1>1, <2>6, <2>7, <2>8, <2>9
  <2>12. (\A r \in SourceFiles : Settled(r) \/ (Found(r) /\ Untouched(r)))'
    BY <2>10, <2>11
  <2> QED BY <1>1, <2>6, <2>7, <2>10, <2>12 DEF CompareInv
<1> QED BY <1>6, <1>7, <1>10, <1>11 DEF CopyEntry, to, from, made

LEMMA CompareNextInv == CompareInv /\ [Next]_vars => CompareInv'
<1> SUFFICES ASSUME CompareInv, [Next]_vars, cmd = "compare" PROVE CompareInv'
  BY CommandKept DEF CompareInv
<1>1. cmd' = cmd
  BY CommandKept
<1>2. ASSUME UNCHANGED <<opt, disk, loc, out>>, pc' = pc \/ (pc' = "walk" /\ pc = "start")
                                                      \/ pc' = "fatal"
                                                      \/ (pc' = "returned" /\ pc = "walk" /\ loc.todo = {})
      PROVE  CompareInv'
  BY <1>1, <1>2 DEF CompareInv, OriginInv, DiskInv, SourceFiles, Settled, Found, Untouched, Exists, Rel, Place, At
<1>3. CASE StartCompare
  BY <1>2, <1>3 DEF StartCompare, FatalOutput
<1>4. CASE CompareVisit
  BY <1>1, <1>4, VisitInv
<1>5. CASE CopyEntry
  BY <1>1, <1>5, CopyInv
<1>6. CASE CompareEnds
  BY <1>2, <1>6 DEF CompareEnds, Return
<1>7. CASE UNCHANGED vars
  BY <1>2, <1>7 DEF vars
<1> QED BY <1>3, <1>4, <1>5, <1>6, <1>7, CompareSteps

\* When compare returns it has reported every difference, and copied it if the
\* directory of -c is not the source, and however it ends it has changed nothing
\* outside that directory, for any trees and any size of the blocks it reads
\* (ComparePath, Comparefile, Comparebyte and Copy): block by block it finds two
\* files equal only if they are, and no entry above a difference keeps the walk
\* from it.
THEOREM CompareCompleteHolds == Spec => []CompareComplete
<1>1. CompareInv => CompareComplete
  <2> SUFFICES ASSUME CompareInv, cmd = "compare" PROVE CompareComplete
    BY DEF CompareComplete
  <2>1. \A p \in DOMAIN loc.orig : p[1] # opt.copyto => Exists(p) /\ disk[p] = loc.orig[p]
    BY DEF CompareInv, DiskInv
  <2>2. ASSUME pc = "returned", NEW r \in SourceFiles PROVE Settled(r)
    <3>1. loc.todo = {}
      BY <2>2 DEF CompareInv
    <3> QED BY <2>2, <3>1 DEF CompareInv, Found
  <2>3. opt.copyto \in {"", "s", "d", "c"}
    BY CompareAssumption DEF CompareInv
  <2>4. ASSUME NEW r, Settled(r), Differs(r)
        PROVE  /\ opt.verbose => \E i \in DOMAIN out : out[i][2] = r
               /\ opt.copyto \notin {"", "s"} => InCopy(r)
    BY <2>3, <2>4 DEF Settled, Differs, InCopy
  <2> QED BY <2>1, <2>2, <2>4 DEF CompareComplete
<1> QED BY CompareInitInv, CompareNextInv, <1>1, PTL DEF Spec

-----------------------------------------------------------------------------
(***************************************************************************)
(* The types.                                                              *)
(***************************************************************************)
\* What every command keeps.
Entered == \A p \in DOMAIN disk : IsEntry(disk[p])

LEMMA WrittenEntries ==
    ASSUME Entered, NEW path, NEW bytes \in Seq(Nat), disk' = With(disk, path, File(bytes))
    PROVE  Entered'
<1>1. IsEntry(File(bytes))
  BY DEF IsEntry, File
<1>2. /\ DOMAIN disk' = DOMAIN disk \cup {path}
      /\ \A p \in DOMAIN disk' : disk'[p] = IF p = path THEN File(bytes) ELSE disk[p]
  BY DEF With
<1> QED BY <1>1, <1>2 DEF Entered

LEMMA RemovedEntries ==
    ASSUME Entered, NEW path, disk' = Without(disk, path)
    PROVE  Entered'
<1>1. /\ DOMAIN disk' = DOMAIN disk \ {path}
      /\ \A p \in DOMAIN disk' : disk'[p] = disk[p]
  BY DEF Without
<1> QED BY <1>1 DEF Entered

LEMMA OnlyEntries ==
    ASSUME NEW path, NEW bytes \in Seq(Nat), disk = Only(path, bytes)
    PROVE  Entered
<1>1. IsEntry(File(bytes))
  BY DEF IsEntry, File
<1> QED BY <1>1 DEF Entered, Only

LEMMA NoBytes == <<>> \in Seq(Nat)
  OBVIOUS

LEMMA TypeInit == Init => TypeOK
<1> SUFFICES ASSUME Init PROVE TypeOK
  OBVIOUS
<1>1. CASE cmd = "tail" /\ TailInit
  <2>1. pc = "open" /\ out = <<>>
    BY <1>1 DEF TailInit
  <2>2. CASE disk = <<>>
    BY <1>1, <2>1, <2>2 DEF TypeOK, Commands, Labels, Printed
  <2>3. ASSUME NEW s \in TailFiles, disk = Only("f", s) PROVE TypeOK
    <3>1. s \in Seq(Nat)
      BY TailAssumption
    <3>2. Entered
      BY <2>3, <3>1, OnlyEntries
    <3> QED BY <1>1, <2>1, <3>2 DEF TypeOK, Commands, Labels, Printed, Entered
  <2> QED BY <1>1, <2>2, <2>3 DEF TailInit
<1>2. CASE cmd = "find" /\ FindInit
  BY <1>2 DEF FindInit, TypeOK, Commands, Labels, Printed
<1>3. CASE cmd = "md5sum" /\ Md5sumInit
  BY <1>3 DEF Md5sumInit, TypeOK, Commands, Labels, Printed
<1>4. CASE cmd = "compare" /\ CompareInit
  <2>1. CompareInv
    BY CompareInitInv
  <2>2. pc = "start" /\ out = <<>> /\ Entered
    BY <1>4, <2>1 DEF CompareInit, CompareInv, DiskInv, Entered
  <2> QED BY <1>4, <2>2 DEF TypeOK, Commands, Labels, Printed, Entered
<1>5. CASE cmd = "mail" /\ MailInit
  <2>1. pc = "mail" /\ out = <<>> /\ disk \in MailFiles
    BY <1>5 DEF MailInit
  <2>2. Entered
    BY <2>1, MailAssumption DEF Entered
  <2> QED BY <1>5, <2>1, <2>2 DEF TypeOK, Commands, Labels, Printed, Entered
<1>6. CASE cmd = "ftp" /\ FtpInit
  <2>1. pc = "ftp" /\ out = <<>>
    BY <1>6 DEF FtpInit
  <2>2. CASE disk = <<>>
    BY <1>6, <2>1, <2>2 DEF TypeOK, Commands, Labels, Printed
  <2>3. ASSUME NEW s \in FtpContents, disk = Only("l", s) PROVE TypeOK
    <3>1. s \in Seq(Nat)
      BY FtpAssumption
    <3>2. Entered
      BY <2>3, <3>1, OnlyEntries
    <3> QED BY <1>6, <2>1, <3>2 DEF TypeOK, Commands, Labels, Printed, Entered
  <2> QED BY <1>6, <2>2, <2>3 DEF FtpInit
<1> QED BY <1>1, <1>2, <1>3, <1>4, <1>5, <1>6 DEF Init

\* The invariants of the commands give the types of what they print and write.
LEMMA TypeNext ==
    TypeOK /\ TailInv /\ WalkInv /\ CompareInv /\ CompareInv' /\ [Next]_vars => TypeOK'
<1> SUFFICES ASSUME TypeOK, TailInv, WalkInv, CompareInv, CompareInv', [Next]_vars PROVE TypeOK'
  OBVIOUS
<1>1. cmd' = cmd /\ cmd \in Commands /\ pc \in Labels[cmd] \cup Ends /\ Entered /\ out \in Printed[cmd]
  BY CommandKept DEF TypeOK, Entered
<1>2. ASSUME pc' \in Labels[cmd] \cup Ends, Entered', out' \in Printed[cmd] PROVE TypeOK'
  BY <1>1, <1>2 DEF TypeOK, Entered
<1>3. UNCHANGED disk => Entered'
  BY <1>1 DEF Entered
<1>4. CASE UNCHANGED vars
  BY <1>1, <1>2, <1>3, <1>4 DEF vars
<1>5. CASE cmd = "tail"
  <2>1. Labels[cmd] \cup Ends = {"open", "tail", "returned", "fatal", "panic"} /\ Printed[cmd] = Seq(Nat)
    BY <1>5 DEF Labels, Ends, Printed
  <2>2. CASE OpenTail
    <3>1. pc' \in {"returned", "tail"} /\ UNCHANGED out
          /\ (disk' = disk \/ disk' = With(disk, opt.Output, File(<<>>)))
      BY <2>2 DEF OpenTail, Return
    <3>2. Entered'
      BY <1>1, <1>3, <3>1, WrittenEntries, NoBytes
    <3> QED BY <1>1, <1>2, <2>1, <3>1, <3>2
  <2>3. CASE RunTail
    <3>1. CASE Panic /\ UNCHANGED <<disk, out>>
      BY <1>1, <1>2, <1>3, <2>1, <3>1 DEF Panic
    <3>2. ASSUME NEW bytes \in Seq(Nat), Emit(bytes) PROVE TypeOK'
      <4>1. pc' = "returned" /\ ((out' = bytes /\ UNCHANGED disk) \/
                (disk' = With(disk, opt.Output, File(bytes)) /\ UNCHANGED out))
        BY <3>2 DEF Emit, Return
      <4>2. Entered'
        BY <1>1, <1>3, <4>1, WrittenEntries
      <4> QED BY <1>1, <1>2, <2>1, <4>1, <4>2
    <3> QED BY <1>5, <2>3, <3>1, <3>2, TailEmits
  <2> QED BY <1>4, <1>5, <2>2, <2>3, TailSteps
<1>6. CASE cmd \in {"find", "md5sum"}
  <2>1. /\ Labels[cmd] \cup Ends = {"parse", "walk", "returned", "fatal", "panic"}
        /\ Printed[cmd] = Seq(STRING)
    BY <1>6 DEF Labels, Ends, Printed
  <2>2. CASE UNCHANGED <<disk, out>> /\ pc' \in {"walk", "returned", "fatal", "panic"}
    BY <1>1, <1>2, <1>3, <2>1, <2>2
  <2>3. CASE UNCHANGED disk /\ loc.todo # <<>> /\ (Stop \/ Show \/ Skip)
    <3>1. Entry.name \in STRING
      <4>1. loc.todo \in Seq(Entries)
        BY <1>6 DEF WalkInv, Walking
      <4>2. Entry \in Entries
        BY <2>3, <4>1 DEF Entry
      <4> QED BY <4>2 DEF Entries
    <3>2. UNCHANGED pc /\ (UNCHANGED out \/ out' = Append(out, Entry.name))
      BY <2>3 DEF Stop, Show, Skip
    <3>3. out' \in Seq(STRING)
      BY <1>1, <2>1, <3>1, <3>2
    <3> QED BY <1>1, <1>2, <1>3, <2>1, <2>3, <3>2, <3>3
  <2>4. Walking
    BY <1>6 DEF Walking
  <2> QED BY <1>4, <2>2, <2>3, <2>4, WalkSteps
          DEF FindParse, FindVisit, FindEnds, Md5sumParse, Md5sumVisit, Md5sumEnds, Return, FatalOutput, Panic
<1>7. CASE cmd = "compare"
  <2>1. /\ Labels[cmd] \cup Ends = {"start", "walk", "copy", "returned", "fatal", "panic"}
        /\ Printed[cmd] = Seq(BOOLEAN \X Seq(STRING))
    BY <1>7 DEF Labels, Ends, Printed
  <2>2. pc' \in {"start", "walk", "copy", "returned", "fatal"} /\ out' \in Seq(BOOLEAN \X Seq(STRING)) /\ Entered'
    BY <1>1, <1>7 DEF CompareInv, DiskInv, Entered
  <2> QED BY <1>2, <2>1, <2>2
<1>8. CASE cmd = "mail"
  <2>1. /\ Labels[cmd] \cup Ends = {"mail", "write", "send", "silent", "returned", "fatal", "panic"}
        /\ Printed[cmd] = Seq({"size"})
    BY <1>8 DEF Labels, Ends, Printed
  <2>2. CASE MailRun
    <3>1. /\ pc' \in {"fatal", "returned", "write"} /\ (UNCHANGED out \/ out' = <<"size">>)
          /\ (disk' = disk \/ disk' = With(disk, "tmp", File(<<>>)))
      BY <2>2 DEF MailRun, FatalOutput, Return
    <3>2. out' \in Seq({"size"})
      <4>1. <<"size">> \in Seq({"size"})
        OBVIOUS
      <4> QED BY <1>1, <2>1, <3>1, <4>1
    <3>3. Entered'
      BY <1>1, <1>3, <3>1, WrittenEntries, NoBytes
    <3> QED BY <1>2, <2>1, <3>1, <3>2, <3>3
  <2>3. CASE WriteMessage \/ MailSend
    <3>1. /\ pc' \in {"fatal", "returned", "send", "silent"} /\ UNCHANGED out
          /\ (disk' = disk \/ disk' = Without(disk, "tmp"))
      BY <2>3 DEF WriteMessage, MailSend, MailFails, MailReturns, FatalOutput, Return
    <3>2. Entered'
      BY <1>1, <1>3, <3>1, RemovedEntries
    <3> QED BY <1>1, <1>2, <2>1, <3>1, <3>2
  <2>4. CASE FileVanishes
    <3>1. PICK p \in DOMAIN disk : disk' = Without(disk, p)
      BY <2>4 DEF FileVanishes
    <3>2. Entered'
      BY <1>1, <3>1, RemovedEntries
    <3> QED BY <1>1, <1>2, <2>4, <3>2 DEF FileVanishes
  <2> QED BY <1>4, <1>8, <2>2, <2>3, <2>4, MailSteps
<1>9. CASE cmd = "ftp"
  <2>1. /\ Labels[cmd] \cup Ends = {"ftp", "login", "pasv", "passive", "request", "answer", "copy",
                                  "returned", "fatal", "panic"}
        /\ Printed[cmd] = Seq({"230", "530"})
    BY <1>9 DEF Labels, Ends, Printed
  <2>2. CASE CopyData
    <3>1. pc' = "fatal" /\ UNCHANGED out /\ (disk' = disk \/ disk' = With(disk, "l", File(<<>>)))
      BY <2>2 DEF CopyData, FatalOutput
    <3>2. Entered'
      BY <1>1, <1>3, <3>1, WrittenEntries, NoBytes
    <3> QED BY <1>1, <1>2, <2>1, <3>1, <3>2
  <2>3. CASE LoginLine
    <3>1. /\ pc' \in {"fatal", "pasv", "login"} /\ UNCHANGED disk
          /\ (UNCHANGED out \/ out' = Append(out, "230") \/ out' = Append(out, "530"))
      BY <2>3 DEF LoginLine, FatalOutput
    <3>2. out' \in Seq({"230", "530"})
      BY <1>1, <2>1, <3>1
    <3> QED BY <1>2, <1>3, <2>1, <3>1, <3>2
  <2>4. CASE FtpDial \/ FillBuffer \/ SendPasv \/ ReadPasv \/ SendRequest \/ ReadAnswer \/ Arrive
    <3>1. /\ UNCHANGED <<disk, out>>
          /\ \/ pc' \in {"fatal", "panic", "login", "passive", "request", "answer", "copy"}
             \/ UNCHANGED pc
      BY <2>4 DEF FtpDial, FillBuffer, SendPasv, ReadPasv, SendRequest, ReadAnswer, Arrive,
                  FatalOutput, Panic
    <3> QED BY <1>1, <1>2, <1>3, <2>1, <3>1
  <2> QED BY <1>4, <1>9, <2>2, <2>3, <2>4, FtpSteps
<1> QED BY <1>1, <1>5, <1>6, <1>7, <1>8, <1>9 DEF Commands

\* Every sub-command is always at one of its steps or has ended, prints what
\* it should, and whatever it writes, removes or makes, the file system holds
\* files of bytes and empty directories.
THEOREM TypeCorrect == Spec => []TypeOK
BY TypeInit, TypeNext, TailInitInv, TailNextInv, WalkInitInv, WalkNextInv, CompareInitInv, CompareNextInv, PTL
   DEF Spec
=============================================================================
