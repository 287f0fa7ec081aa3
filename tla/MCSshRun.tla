------------------------------ MODULE MCSshRun ------------------------------
(***************************************************************************)
(* Small instances of SshRun.                                              *)
(***************************************************************************)
EXTENDS SshRun

CONSTANTS h1, h2, h3

Opt(H, C, f, mode) == [H |-> H, C |-> C, f |-> f, mode |-> mode]

CmdOptions  == {Opt("list", "none", FALSE, "cmd")}
FileOptions == {Opt("none", "path", FALSE, "file")}
\* With -f and no -C there is no file to read.
NoFile      == {Opt("path", "none", TRUE, "cmd")}
AnyOptions  == CmdOptions \cup FileOptions \cup NoFile

\* Three hosts, or two of which one is listed twice.
Lists == {<<h1, h2, h3>>, <<h1, h2, h1>>}
OneHost == {<<h1>>}
=============================================================================
