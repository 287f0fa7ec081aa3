-------------------------------- MODULE Tail --------------------------------
(***************************************************************************)
(* `wstools tail`: tailRun (src/command/tail.go) with RunTail and tailFile *)
(* (src/common/cli/tail.go).                                               *)
(***************************************************************************)
EXTENDS Process

CONSTANTS
    ReadBuf,      \* size of the blocks of the backward reader, 1024
    TailFiles,    \* contents considered, sequences of bytes
    TailOptions   \* records [Line, Lines, Size, Offset, Output]

ASSUME TailAssumption ==
    /\ ReadBuf \in Nat \ {0}
    /\ TailFiles \subseteq Seq(Nat)
    /\ \A o \in TailOptions : /\ {o.Line, o.Lines} \subseteq Int /\ o.Output \in STRING
                               /\ {o.Size.num, o.Offset.num} \subseteq Seq(Int)

LF == 10

TailInit ==
    /\ opt \in TailOptions
    /\ disk \in {Only("f", s) : s \in TailFiles} \cup {<<>>}
    /\ pc = "open" /\ loc = <<>> /\ out = <<>>

Newlines(s) == Cardinality({i \in DOMAIN s : s[i] = LF})

\* The position after the k-th newline, 0 if k is 0.
AfterLine(s, k) ==
    CHOOSE i \in 0..Len(s) : /\ i > 0 => s[i] = LF
                             /\ Newlines(SubSeq(s, 1, i)) = k

-----------------------------------------------------------------------------
(***************************************************************************)
(* The backward reader.                                                    *)
(***************************************************************************)
\* Variant: the first block of the file is not cut where the last one began.
readUncut(s, offset) ==
    LET start == IF offset >= ReadBuf THEN offset - ReadBuf ELSE 0
        end   == IF start + ReadBuf < Len(s) THEN start + ReadBuf ELSE Len(s)
    IN  [offset |-> start, bytes |-> SubSeq(s, start + 1, end)]

\* read: the block before offset.  The one at the start of the file may be
\* shorter: Read fills the buffer and the count is cut.
read(s, offset) ==
    LET start == IF offset >= ReadBuf THEN offset - ReadBuf ELSE 0
        end   == IF start + ReadBuf < Len(s) THEN start + ReadBuf ELSE Len(s)
        count == IF offset < ReadBuf /\ offset < end THEN offset ELSE end - start
    IN  [offset |-> start, bytes |-> SubSeq(s, start + 1, start + count)]

\* The first loop of TailLine: where it leaves the file, when it begins at
\* offset and looks for `line` newlines.  seek[o][l] goes on at o, after l of them.
TailSeek(s, offset, line) ==
    LET seek[o \in 0..Len(s)] == [l \in Nat |->
            IF o = 0 THEN 0
            ELSE LET block == read(s, o)
                     total == l + Newlines(block.bytes)
                 IN  IF total >= line
                     THEN block.offset + AfterLine(block.bytes, total - line)
                     ELSE seek[block.offset][total]]
    IN  seek[offset][0]

\* ReadBytes('\n') up to `lines` times; bytes without a newline at the end of
\* the file are not written.
FirstLines(s, lines) ==
    LET n == IF lines < Newlines(s) THEN lines ELSE Newlines(s)
    IN  IF n < 0 THEN <<>> ELSE SubSeq(s, 1, AfterLine(s, n))

From(s, position) == SubSeq(s, position + 1, Len(s))

TailLine(s, offset, line, lines) ==
    LET rest == From(s, TailSeek(s, offset, line))
    IN  IF lines = 0 THEN rest ELSE FirstLines(rest, lines)

-----------------------------------------------------------------------------
\* A size: its digits as a sequence of at most one number, and its unit.
NoSize == [num |-> <<>>, unit |-> ""]

\* parseCompany indexes the byte before the first one of a lone "b".
Unindexable(c) == c.num = <<>> /\ c.unit = "b"

\* parseCompany: -1 if the digits are no number.
parseCompany(c) ==
    LET company == CASE c.unit \in {"k", "kb"} -> 1024
                     [] c.unit \in {"m", "mb"} -> 1048576
                     [] OTHER -> 1
    IN  IF c = NoSize THEN 0 ELSE IF c.num = <<>> THEN -1 ELSE c.num[1] * company

\* tailFile.Read with f.size = 0.  A seek to a negative offset fails and leaves
\* the file at its start.
ReadAt(s, offset, size, lines) ==
    LET rest == From(s, IF offset < 0 THEN 0 ELSE offset)
    IN  IF 0 < offset \/ (size = 0 /\ lines = 0) THEN <<>>
        ELSE IF size > 0 THEN SubSeq(rest, 1, IF size < Len(rest) THEN size ELSE Len(rest))
        ELSE IF lines > 0 THEN FirstLines(rest, lines) ELSE <<>>

-----------------------------------------------------------------------------
\* The input and the output are opened; the output is truncated, the input too
\* if it is the same.  tailRun does not look at the error.
OpenTail ==
    /\ pc = "open"
    /\ \/ ~Exists("f") /\ Return /\ UNCHANGED disk
       \/ Exists("f") /\ opt.Output # "" /\ Return /\ UNCHANGED disk
       \/ /\ Exists("f") /\ opt.Output # ""
          /\ pc' = "tail" /\ disk' = With(disk, opt.Output, File(<<>>))
       \/ Exists("f") /\ opt.Output = "" /\ pc' = "tail" /\ UNCHANGED disk
    /\ UNCHANGED <<cmd, opt, loc, out>>

Emit(bytes) ==
    /\ Return
    /\ IF opt.Output = "" THEN out' = bytes /\ UNCHANGED disk
       ELSE disk' = With(disk, opt.Output, File(bytes)) /\ UNCHANGED out

\* RunTail creates the tailFile with offset 0.
StartOffset(s) == 0

RunTail ==
    /\ pc = "tail"
    /\ LET s == disk["f"].data
       IN  \/ opt.Offset = NoSize /\ opt.Line <= 0 /\ Emit(<<>>)
           \/ /\ opt.Offset = NoSize /\ opt.Line > 0
              /\ Emit(TailLine(s, StartOffset(s), opt.Line, opt.Lines))
           \/ /\ opt.Offset # NoSize
              /\ ~Unindexable(opt.Offset) /\ ~Unindexable(opt.Size)
              /\ Emit(ReadAt(s, parseCompany(opt.Offset), parseCompany(opt.Size),
                             opt.Lines))
           \/ /\ opt.Offset # NoSize
              /\ Unindexable(opt.Offset) \/ Unindexable(opt.Size)
              /\ Panic /\ UNCHANGED <<disk, out>>
    /\ UNCHANGED <<cmd, opt, loc>>

TailNext == OpenTail \/ RunTail

-----------------------------------------------------------------------------
\* Wherever the backward reader begins and however the lines lie across its
\* blocks, it counts every newline once: it stops with exactly the newlines
\* asked for between its position and where it began, or at the start of the
\* file when there are no more than that.  (RunTail lets it begin at 0 only.)
BackwardReaderCounts ==
    cmd = "tail" /\ Exists("f") =>
        LET s == disk["f"].data
        IN  \A offset \in 0..Len(s), line \in 1..(Len(s) + 1) :
                LET p == TailSeek(s, offset, line)
                    n == Newlines(SubSeq(s, p + 1, offset))
                IN  p <= offset /\ (n = line \/ (p = 0 /\ n < line))

\* With -l alone tail prints the file from that line on, counted from its end,
\* as the help of -l says: an end of the file with no more newlines than lines
\* asked for.
TailReadsFromTheEnd ==
    /\ cmd = "tail" /\ pc = "returned" /\ Exists("f")
    /\ opt.Line > 0 /\ opt.Lines = 0 /\ opt.Offset = NoSize /\ opt.Output = ""
    => LET s == disk["f"].data
       IN  \E i \in 0..Len(s) : out = From(s, i) /\ Newlines(out) <= opt.Line
=============================================================================
