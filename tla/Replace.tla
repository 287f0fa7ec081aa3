------------------------------ MODULE Replace ------------------------------
(***************************************************************************)
(* `wstools replace`: ReplaceRun, walkFile and replaceRun                  *)
(* (src/common/cli/replace.go), one file after the other, over a file      *)
(* system whose operations can fail and with a crash after any step.       *)
(*                                                                         *)
(* The content of a path is its original text ("old" for a file that holds *)
(* the text to replace, "plain" for one that does not), the text after the *)
(* replacement ("new"), a text cut short ("part"), the copy of a file with *)
(* nothing to replace ("copy"), or the path does not exist ("none").       *)
(***************************************************************************)
EXTENDS Sequences

CONSTANTS
    Files,        \* paths that the walk visits, with a file in each
    Order,        \* the order in which the walk visits them
    Temp,         \* the temporary path of each file: Base(path) + ".tmp"
    Others,       \* paths outside of Files
    Modes,        \* the values of -q considered, a set of Booleans
    Systems       \* the file systems considered: records of
                  \* sameDevice: the working directory is on the files' device,
                  \* writable: the directories of the files can be changed,
                  \* space: writes never fall short

Paths == Files \cup Others

ASSUME FilesAssumption ==
    /\ Order \in Seq(Files)
    /\ Temp \in [Files -> Paths]
    /\ Files \cap Others = {}
    /\ Modes \subseteq BOOLEAN
    /\ Systems \subseteq [sameDevice : BOOLEAN, writable : BOOLEAN, space : BOOLEAN]
ASSUME OrderAssumption == \A f \in Files : \E i \in DOMAIN Order : Order[i] = f

VARIABLES
    quick,     \* the -q option
    fs,        \* what the file system can do
    matching,  \* files that the suffix or the name pattern selects
    orig,      \* history: the file system at the start
    todo,      \* files that the walk has still to visit
    pc,        \* where replaceRun is with Head(todo)
    content,   \* the file system
    reported,  \* files for which "N places replaced" was printed
    failed     \* the walk stopped with an error

cfgVars == <<quick, fs, matching, orig>>
vars == <<cfgVars, todo, pc, content, reported, failed>>

Contents == {"none", "old", "plain", "new", "part", "copy"}

TypeOK ==
    /\ quick \in Modes /\ fs \in Systems /\ matching \subseteq Files
    /\ orig \in [Paths -> Contents]
    /\ todo \in Seq(Files)
    /\ pc \in {"args", "refused", "walk", "read", "write", "open", "copy", "remove",
               "rename", "ended", "crashed"}
    /\ content \in [Paths -> Contents]
    /\ reported \subseteq Files
    /\ failed \in BOOLEAN

Init ==
    /\ quick \in Modes /\ fs \in Systems /\ matching \in SUBSET Files
    /\ orig \in [Paths -> {"none", "old", "plain"}]
    /\ \A f \in Files : orig[f] # "none"
    /\ content = orig
    /\ todo = Order /\ pc = "args"
    /\ reported = {} /\ failed = FALSE

File == Head(todo)
Tmp  == Temp[File]

Set(p, text) == content' = [content EXCEPT ![p] = text]

\* replaceRun returns nil: the walk goes on.
Continue ==
    /\ todo' = Tail(todo)
    /\ pc' = "walk"
    /\ UNCHANGED failed

\* An error of replaceRun, or of the walk itself, ends the walk.
Abort ==
    /\ pc' = "ended" /\ failed' = TRUE
    /\ UNCHANGED todo

-----------------------------------------------------------------------------
\* ReplaceRun refuses an empty -o, -n or -p and a pattern that does not compile,
\* the one of -o with a message only, or starts the walk.
ReplaceRun ==
    /\ pc = "args"
    /\ pc' \in {"refused", "walk"}
    /\ UNCHANGED <<cfgVars, todo, content, reported, failed>>

(***************************************************************************)
(* walkFile.  The names of a directory are read before its files are       *)
(* visited: a file that was removed meanwhile is an error of the walk.     *)
(***************************************************************************)
Visit ==
    /\ pc = "walk" /\ todo # <<>>
    /\ \/ content[File] = "none" /\ Abort
       \/ content[File] # "none" /\ File \notin matching /\ Continue
       \/ /\ content[File] # "none" /\ File \in matching
          /\ pc' = (IF quick THEN "read" ELSE "open")
          /\ UNCHANGED <<todo, failed>>
    /\ UNCHANGED <<cfgVars, content, reported>>

WalkEnds ==
    /\ pc = "walk" /\ todo = <<>>
    /\ pc' = "ended"
    /\ UNCHANGED <<cfgVars, todo, content, reported, failed>>

-----------------------------------------------------------------------------
(***************************************************************************)
(* The quick mode: the file is read, counted and, if there is something to *)
(* replace, reported; then it is truncated and written again.              *)
(***************************************************************************)
QuickRead ==
    /\ pc = "read"
    /\ \/ Abort /\ UNCHANGED <<content, reported>>
       \/ /\ content[File] # "old" /\ Continue
          /\ UNCHANGED <<content, reported>>
       \/ /\ content[File] = "old"
          /\ reported' = reported \cup {File}
          /\ pc' = "write" /\ Set(File, "part")
          /\ UNCHANGED <<todo, failed>>
    /\ UNCHANGED cfgVars

\* os.Create fails after the report; the file is as it was.
QuickCreateFails ==
    /\ pc = "read" /\ content[File] = "old"
    /\ reported' = reported \cup {File}
    /\ Abort
    /\ UNCHANGED <<cfgVars, content>>

\* Variant: the text stays in a buffer that is not flushed.
QuickWriteUnflushed ==
    /\ pc = "write"
    /\ Continue
    /\ UNCHANGED <<cfgVars, content, reported>>

\* The result of Write is not looked at.
QuickWrite ==
    /\ pc = "write"
    /\ \/ Set(File, "new")
       \/ ~fs.space /\ UNCHANGED content
    /\ Continue
    /\ UNCHANGED <<cfgVars, reported>>

-----------------------------------------------------------------------------
(***************************************************************************)
(* The line by line mode, through a temporary file in the working          *)
(* directory.                                                              *)
(***************************************************************************)
\* Variant: the file is removed when it is opened.
OpenBothRemoves ==
    /\ pc = "open"
    /\ pc' = "copy"
    /\ content' = [content EXCEPT ![Tmp] = "part", ![File] = "none"]
    /\ UNCHANGED <<cfgVars, reported, todo, failed>>

\* os.Create of the temporary file, which truncates a file of that name, and
\* os.Open of the file.
OpenBoth ==
    /\ pc = "open"
    /\ \/ Abort /\ UNCHANGED content
       \/ Abort /\ Set(Tmp, "none")
       \/ pc' = "copy" /\ Set(Tmp, "part") /\ UNCHANGED <<todo, failed>>
    /\ UNCHANGED <<cfgVars, reported>>

\* Variant: the count of the last line decides.
CopyLinesLastCount ==
    /\ pc = "copy"
    /\ \/ Continue /\ Set(Tmp, "none")
       \/ /\ content[File] = "old" /\ Set(Tmp, "new")
          /\ pc' = "remove" /\ UNCHANGED <<todo, failed>>
    /\ UNCHANGED <<cfgVars, reported>>

\* The lines are copied; the results of the writes are not looked at.  A read
\* error removes the temporary file.  Without a match it is removed too.
CopyLines ==
    /\ pc = "copy"
    /\ \/ Abort /\ Set(Tmp, "none")
       \/ content[File] # "old" /\ Continue /\ Set(Tmp, "none")
       \/ /\ content[File] = "old"
          /\ \/ Set(Tmp, "new")
             \/ ~fs.space /\ UNCHANGED content
          /\ pc' = "remove" /\ UNCHANGED <<todo, failed>>
    /\ UNCHANGED <<cfgVars, reported>>

\* os.Remove of the file; its error is not looked at.
RemoveOriginal ==
    /\ pc = "remove"
    /\ pc' = "rename"
    /\ \/ fs.writable /\ Set(File, "none")
       \/ ~fs.writable /\ UNCHANGED content
    /\ UNCHANGED <<cfgVars, todo, reported, failed>>

\* Variant: the name of the temporary file is reported.
RenameTempReportsTemp ==
    /\ pc = "rename"
    /\ content' = [content EXCEPT ![File] = content[Tmp], ![Tmp] = "none"]
    /\ reported' = reported \cup {Tmp}
    /\ Continue
    /\ UNCHANGED cfgVars

\* os.Rename of the temporary file, which fails from one device to another or
\* without permission; its error is not looked at and the file is reported as
\* replaced.
RenameTemp ==
    /\ pc = "rename"
    /\ \/ /\ fs.sameDevice /\ fs.writable
          /\ content' = [content EXCEPT ![File] = content[Tmp], ![Tmp] = "none"]
       \/ ~(fs.sameDevice /\ fs.writable) /\ UNCHANGED content
    /\ reported' = reported \cup {File}
    /\ Continue
    /\ UNCHANGED cfgVars

-----------------------------------------------------------------------------
\* The program is killed, or the machine stops, between two steps.
Crash ==
    /\ pc \notin {"refused", "ended", "crashed"}
    /\ pc' = "crashed"
    /\ UNCHANGED <<cfgVars, todo, content, reported, failed>>

Ended ==
    /\ pc \in {"refused", "ended", "crashed"}
    /\ UNCHANGED vars

Next ==
    \/ ReplaceRun \/ Visit \/ WalkEnds \/ QuickRead \/ QuickCreateFails
    \/ QuickWrite \/ OpenBoth \/ CopyLines \/ RemoveOriginal \/ RenameTemp \/ Crash \/ Ended

Spec == Init /\ [][Next]_vars

-----------------------------------------------------------------------------
\* In the line by line mode the text of every file survives a crash at any step:
\* the file is as it was or has been replaced, or its replacement is in its
\* temporary file.  This needs complete writes, and a rename that works where the
\* removal before it does; the temporary paths are outside of the walk.
NothingLost ==
    ~quick /\ fs.space /\ (fs.writable => fs.sameDevice) =>
        \A f \in Files :
            \/ content[f] \in {orig[f], "new"}
            \/ content[f] = "none" /\ content[Temp[f]] = "new"

\* The quick mode truncates a file before it writes it: a crash, or an error of a
\* later file, leaves at most one file that is neither as it was nor replaced,
\* if writes are complete, and it has been reported.
QuickLosesAtMostOne ==
    quick /\ fs.space =>
        /\ \A f, g \in Files :
            content[f] \notin {orig[f], "new"} /\ content[g] \notin {orig[g], "new"} => f = g
        /\ \A f \in Files \ reported : content[f] = orig[f]

\* The file system does all that replaceRun asks of it without a look at the
\* result: Write, and in the line by line mode Remove and Rename.
DoesAsAsked == fs.space /\ (quick \/ (fs.writable /\ fs.sameDevice))

\* After a walk without an error, whatever Write, Remove and Rename did, the files
\* reported are exactly the selected files with the text and no other file has
\* changed.  That the reported ones have been replaced needs a file system that
\* does as asked (see ReportedIsReplaced).
ReportIsExact ==
    pc = "ended" /\ ~failed =>
        /\ reported = {f \in matching : orig[f] = "old"}
        /\ \A f \in Files \ reported : content[f] = orig[f]
        /\ DoesAsAsked => \A f \in reported : content[f] = "new"

\* A file reported as replaced at the end of a walk without an error has been.
ReportedIsReplaced ==
    pc = "ended" /\ ~failed => \A f \in reported : content[f] = "new"
=============================================================================
