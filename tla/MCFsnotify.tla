----------------------------- MODULE MCFsnotify -----------------------------
(***************************************************************************)
(* Small instances of Fsnotify: a file log, a directory tools with the     *)
(* entry tools/x, and the default -d "./", which is not a clean name.      *)
(***************************************************************************)
EXTENDS Fsnotify

CONSTANTS log, aux, tools, toolsX, dotSlash, dot, dotX, s1, s2

MCNames == {log, aux, tools, toolsX, dotSlash, dot, dotX}
MCScripts == {s1, s2}
MCClean == [n \in MCNames |-> IF n = dotSlash THEN dot ELSE n]
MCEntries == [n \in MCNames |->
    CASE n = tools -> {toolsX} [] n = dot -> {dotX} [] OTHER -> {}]

Line(path, script) == [path |-> path, script |-> script]
Setup(lines, dir, script) == [lines |-> lines, dir |-> dir, script |-> script]

\* Two files, one named twice: by a line and by -d.
FileSetups == {
    Setup({Line(log, s1), Line(aux, NoPath)}, log, s2),
    Setup({Line(log, s1), Line(aux, s2)}, NoPath, NoPath)}

\* One file of the configuration.
OneFile == {Setup({Line(log, s1)}, NoPath, NoPath)}

\* The example of the help: -d tools -s scripts.bat.
DirSetup == {Setup({}, tools, s1)}
=============================================================================
