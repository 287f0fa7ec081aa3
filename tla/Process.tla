------------------------------- MODULE Process -------------------------------
(***************************************************************************)
(* The state that the sequential sub-commands of wstools have in common:   *)
(* one process with its options, the files it can reach, its local         *)
(* variables and what it has printed.  Every sub-command is a module of    *)
(* its own over these variables; Wstools puts them together.               *)
(*                                                                         *)
(* The file system is a function whose domain is the set of the paths that *)
(* exist.                                                                  *)
(***************************************************************************)
EXTENDS Integers, Sequences, FiniteSets

VARIABLES
    cmd,    \* the sub-command
    opt,    \* its options, a record of each module
    pc,     \* where the command is, or how it ended
    disk,   \* the files it can reach
    loc,    \* its local variables, and what its peer does
    out     \* what it has printed

vars == <<cmd, opt, pc, disk, loc, out>>

Ends == {"returned", "fatal", "panic"}
Ended == pc \in Ends

\* The function of the command returns: exit status 0.
Return == pc' = "returned"

\* FatalOutput prints to the standard error and exits with status 1.
FatalOutput == pc' = "fatal"

\* A run time error of the program: exit status 2.
Panic == pc' = "panic"

File(bytes) == [dir |-> FALSE, data |-> bytes]
Directory   == [dir |-> TRUE, data |-> <<>>]

\* Files hold bytes, and directories none.
IsEntry(e) == e \in [dir : BOOLEAN, data : Seq(Nat)] /\ (e.dir => e.data = <<>>)

Exists(path) == path \in DOMAIN disk
IsFile(path) == Exists(path) /\ ~disk[path].dir
IsDir(path)  == Exists(path) /\ disk[path].dir

\* A file system with one file.
Only(path, bytes) == [p \in {path} |-> File(bytes)]

\* The file system after a path was written, or removed.
With(fs, path, entry) == [p \in DOMAIN fs \cup {path} |-> IF p = path THEN entry ELSE fs[p]]
Without(fs, path) == [p \in DOMAIN fs \ {path} |-> fs[p]]

\* A buffer after a read of n bytes at position i of s: the rest of it is older.
Refill(b, s, i, n) == [k \in DOMAIN b |-> IF k <= n THEN s[i + k] ELSE b[k]]

\* The number of bytes that a read into a buffer of that size gets at i.
ReadCount(s, i, size) ==
    IF i + size <= Len(s) THEN size ELSE IF i < Len(s) THEN Len(s) - i ELSE 0

Zeros(size) == [k \in 1..size |-> 0]

\* The reads of a file into one buffer: for each of the first `limit` its count,
\* the buffer after it and the position it leaves the file at.
Reads(s, size, limit) ==
    LET step[n \in 0..limit] ==
            IF n = 0 THEN [pos |-> 0, count |-> 0, buffer |-> Zeros(size)]
            ELSE LET last  == step[n - 1]
                     count == ReadCount(s, last.pos, size)
                 IN  [pos |-> last.pos + count, count |-> count,
                      buffer |-> Refill(last.buffer, s, last.pos, count)]
    IN  step
=============================================================================
