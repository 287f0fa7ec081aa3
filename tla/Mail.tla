-------------------------------- MODULE Mail --------------------------------
(***************************************************************************)
(* `wstools mail`: mailRun (src/command/mail.go) with MailRun, MailSend    *)
(* and the writer of the message (src/common/cli/mail.go), in a dialogue   *)
(* with an SMTP server that can fail or fall silent at every step.         *)
(*                                                                         *)
(* A message is a sequence of records: its delimiters ("--B" of the whole, *)
(* "--S" of the text), headers, and the parts with their bytes.            *)
(***************************************************************************)
EXTENDS Process

CONSTANTS
    MaxRaw,       \* bytes of a base64 line, 57
    MemMax,       \* size from which the message goes to a file, memMaxSize
    MailFiles,    \* file systems considered
    MailOptions   \* records [complete, Content, ContentPath, Attachments, To]

\* "tmp" stands for .<pid>.tmp, a name that nobody else uses.
ASSUME MailAssumption ==
    /\ MaxRaw \in Nat \ {0} /\ MemMax \in Nat
    /\ \A fs \in MailFiles :
           "tmp" \notin DOMAIN fs /\ \A p \in DOMAIN fs : IsEntry(fs[p])
    /\ \A o \in MailOptions :
           /\ o.To \in Seq(STRING) /\ o.complete \in BOOLEAN /\ o.Content \in Seq(Nat)
           /\ o.Attachments \in Seq(STRING \ {"tmp"}) /\ o.ContentPath \in STRING \ {"tmp"}

MailInit ==
    /\ opt \in MailOptions
    /\ disk \in MailFiles
    /\ loc = [stage |-> 1, rcpt |-> {}, msg |-> <<>>, accepted |-> {}, orig |-> disk]
    /\ pc = "mail" /\ out = <<>>

HasContent == opt.Content # <<>> \/ opt.ContentPath # ""

\* The files that Len and Writer look at for the text.
ContentFiles == IF opt.Content = <<>> /\ opt.ContentPath # "" THEN {opt.ContentPath} ELSE {}
AttachedFiles == {opt.Attachments[i] : i \in DOMAIN opt.Attachments}

-----------------------------------------------------------------------------
\* Len, with the options o in the file system fs: without a text it is 0,
\* whatever is attached.
MailSize(o, fs) ==
    LET sum[i \in 0..Len(o.Attachments)] ==
            IF i = 0 THEN IF o.Content # <<>> THEN Len(o.Content)
                          ELSE Len(fs[o.ContentPath].data)
            ELSE sum[i - 1] + Len(fs[o.Attachments[i]].data)
    IN  IF o.Content = <<>> /\ o.ContentPath = "" THEN 0 ELSE sum[Len(o.Attachments)]

SizeFails == HasContent /\ \E p \in ContentFiles \cup AttachedFiles : ~Exists(p)

\* The end of MailRun: the temporary file is removed.
MailReturns == Return /\ disk' = Without(disk, "tmp")
MailFails   == FatalOutput /\ disk' = Without(disk, "tmp")

\* A failure of Len is printed, and MailRun returns nil.
MailRun ==
    /\ pc = "mail"
    /\ \/ ~opt.complete /\ FatalOutput /\ UNCHANGED <<disk, out>>
       \/ opt.complete /\ SizeFails /\ Return /\ out' = <<"size">> /\ UNCHANGED disk
       \/ /\ opt.complete /\ ~SizeFails /\ UNCHANGED out
          /\ IF MailSize(opt, disk) >= MemMax
             THEN \/ pc' = "write" /\ disk' = With(disk, "tmp", File(<<>>))
                  \/ FatalOutput /\ UNCHANGED disk
             ELSE pc' = "write" /\ UNCHANGED disk
    /\ UNCHANGED <<cmd, opt, loc>>

-----------------------------------------------------------------------------
Part(kind, bytes) == [kind |-> kind, bytes |-> bytes]
Mark(kind) == Part(kind, <<>>)

\* Variant: the bytes of a short read are dropped.
base64WrapDrops(s) == SubSeq(s, 1, (Len(s) \div MaxRaw) * MaxRaw)

\* base64Wrap: after a short read the whole buffer is encoded, the bytes that
\* the read before left in it, or zeros, included.  wrap[n] is what n rounds of
\* the loop do; after Len(s) of them it has ended.
base64Wrap(s) ==
    LET wrap[n \in 0..Len(s)] ==
            IF n = 0 THEN [pos |-> 0, buffer |-> Zeros(MaxRaw), written |-> <<>>]
            ELSE LET last  == wrap[n - 1]
                     count == ReadCount(s, last.pos, MaxRaw)
                     next  == Refill(last.buffer, s, last.pos, count)
                 IN  IF count = 0 THEN last
                     ELSE [pos |-> last.pos + count, buffer |-> next,
                           written |-> last.written \o next]
    IN  wrap[Len(s)].written

\* Writer: the delimiter of the whole is written before the text, present or
\* not, and before every attachment, and never at the end.
Message ==
    LET text == IF opt.Content # <<>> THEN opt.Content ELSE disk[opt.ContentPath].data
        body == IF HasContent
                THEN <<Mark("alternative"), Mark("--S"), Part("text", text), Mark("--S--")>>
                ELSE <<>>
        attached == [i \in 1..(2 * Len(opt.Attachments)) |->
            IF i % 2 = 1 THEN Mark("--B")
            ELSE Part("file", base64Wrap(disk[opt.Attachments[i \div 2]].data))]
    IN  <<Mark("headers"), Mark("--B")>> \o body \o attached

\* A message whose last attachment ends after k bytes.
CutLast(message, k) ==
    [message EXCEPT ![Len(message)] = Part("file", SubSeq(@.bytes, 1, k))]

\* A file that is gone since Len is an error.  So is a disk that is full, for the
\* temporary file: base64Wrap does not look at the results of its writes, but
\* CreatePart of the next attachment reports them.  Nothing follows the last one:
\* what the disk did not take of it is missing.
WriteMessage ==
    /\ pc = "write"
    /\ \/ /\ Exists("tmp") \/ \E p \in ContentFiles \cup AttachedFiles : ~Exists(p)
          /\ MailFails /\ UNCHANGED loc
       \/ /\ \A p \in ContentFiles \cup AttachedFiles : Exists(p)
          /\ \/ loc' = [loc EXCEPT !.msg = Message]
             \/ /\ Exists("tmp") /\ opt.Attachments # <<>>
                /\ \E k \in 0..(Len(Message[Len(Message)].bytes) - 1) :
                     loc' = [loc EXCEPT !.msg = CutLast(Message, k)]
          /\ pc' = "send" /\ UNCHANGED disk
    /\ UNCHANGED <<cmd, opt, out>>

\* Somebody removes an attachment before it is read.
FileVanishes ==
    /\ cmd = "mail" /\ pc = "write"
    /\ \E p \in AttachedFiles \cap DOMAIN disk : disk' = Without(disk, p)
    /\ UNCHANGED <<cmd, opt, pc, loc, out>>

-----------------------------------------------------------------------------
\* The steps of MailSend, with a RCPT for each address.
Opening == <<"dial", "hello", "starttls", "auth", "mail">>
Closing == <<"data", "copy", "close", "quit">>
Stage == LET i == loc.stage
             n == Len(opt.To)
         IN  IF i <= 5 THEN Opening[i] ELSE IF i <= 5 + n THEN "rcpt" ELSE Closing[i - 5 - n]
Addresses == {opt.To[i] : i \in DOMAIN opt.To}

\* What io.Copy reads from the file or the buffer: it is rewound.
Body == loc.msg

\* The server agrees to a step.  It takes the message at the end of the data.
StageSucceeds ==
    loc' = [loc EXCEPT
        !.stage = @ + 1,
        !.rcpt = IF Stage = "rcpt" THEN @ \cup {opt.To[loc.stage - 5]} ELSE @,
        !.accepted = IF Stage = "close" THEN {Body} ELSE @]

\* Variant: a recipient that is refused is passed over.
MailSendPasses ==
    /\ pc = "send"
    /\ \/ Stage = "rcpt" /\ loc' = [loc EXCEPT !.stage = @ + 1] /\ UNCHANGED <<pc, disk>>
       \/ Stage # "quit" /\ StageSucceeds /\ UNCHANGED <<pc, disk>>
       \/ Stage = "quit" /\ MailReturns /\ UNCHANGED loc
    /\ UNCHANGED <<cmd, opt, out>>

\* No answer of the server reaches the client; it may have taken the message.
NoAnswer ==
    \/ UNCHANGED loc
    \/ Stage = "close" /\ loc' = [loc EXCEPT !.accepted = {Body}]

\* Each step succeeds, or fails and ends the dialogue.  STARTTLS is left out if
\* the server does not offer it.  The connection has no deadline: with a server
\* that falls silent the client waits.
MailSend ==
    /\ pc = "send"
    /\ \/ MailFails /\ NoAnswer
       \/ pc' = "silent" /\ UNCHANGED disk /\ NoAnswer
       \/ Stage # "quit" /\ StageSucceeds /\ UNCHANGED <<pc, disk>>
       \/ Stage = "quit" /\ MailReturns /\ UNCHANGED loc
    /\ UNCHANGED <<cmd, opt, out>>

MailNext == MailRun \/ WriteMessage \/ MailSend

-----------------------------------------------------------------------------
\* The server takes the mail for all recipients or for none, whichever step
\* fails; mail exits with 0 only if the server took it or the size could not be
\* determined; and it leaves no temporary file behind.
MailAllOrNothing ==
    cmd = "mail" =>
        /\ loc.accepted # {} => loc.rcpt = Addresses
        /\ pc = "returned" => loc.accepted # {} \/ out # <<>>
        /\ Ended => ~Exists("tmp")

\* The places of the attachments, and the file that belongs at such a place, as
\* it was at the start.
Attached(message) == {i \in DOMAIN message : message[i].kind = "file"}
FileOf(message, i) ==
    loc.orig[opt.Attachments[Cardinality(Attached(message) \cap (1..i))]].data

\* Bytes of a file, and fewer bytes than a line after them.
Padded(sent, data) ==
    Len(sent) - Len(data) \in 0..(MaxRaw - 1) /\ SubSeq(sent, 1, Len(data)) = data

\* Every message that the server takes has the text and all attachments in
\* their order, none dropped, exchanged or mixed with another.  Each one has its
\* bytes, followed by fewer bytes than a line that are not its own; only the last
\* one, of a message that went through the temporary file, may be a beginning of
\* its file.  (AttachmentsExact and AttachmentsComplete are about these two.)
AttachmentsArrive ==
    cmd = "mail" => \A message \in loc.accepted :
        /\ HasContent => \E i \in DOMAIN message :
               message[i] = Part("text", IF opt.Content # <<>> THEN opt.Content
                                         ELSE loc.orig[opt.ContentPath].data)
        /\ Cardinality(Attached(message)) = Len(opt.Attachments)
        /\ \A i \in Attached(message) :
               \/ Padded(message[i].bytes, FileOf(message, i))
               \/ /\ i = Len(message) /\ MailSize(opt, loc.orig) >= MemMax
                  /\ \E k \in 0..Len(FileOf(message, i)) :
                       message[i].bytes = SubSeq(FileOf(message, i), 1, k)

\* No attachment of a message that the server takes is longer than its file.
AttachmentsExact ==
    cmd = "mail" => \A message \in loc.accepted : \A i \in Attached(message) :
        Len(message[i].bytes) <= Len(FileOf(message, i))

\* No attachment of a message that the server takes is shorter than its file.
AttachmentsComplete ==
    cmd = "mail" => \A message \in loc.accepted : \A i \in Attached(message) :
        Len(message[i].bytes) >= Len(FileOf(message, i))
=============================================================================
