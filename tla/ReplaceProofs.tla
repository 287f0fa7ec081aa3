---------------------------- MODULE ReplaceProofs ----------------------------
(***************************************************************************)
(* For any files, any file system whose writes, removals and renames may   *)
(* fail without notice, and any crash, if the temporary files are outside  *)
(* of the tree that is walked: what the line by line mode of replace keeps *)
(* of a text, what the quick mode can lose, and what both modes report.    *)
(***************************************************************************)
EXTENDS Replace, Naturals, TLAPS

Busy == {"read", "write", "open", "copy", "remove", "rename"}

\* The temporary paths are no files of the walk.
TempOutside == \A f \in Files : Temp[f] \in Others

\* Writes are complete, and renames work where removals do.
KeepsText == fs.space /\ (fs.writable => fs.sameDevice)

\* While no file is between its removal and the rename, each one is as it was
\* or replaced; at the removal the replacement is complete in the temporary
\* file, whose path belongs to no file of the walk.
LineInv ==
    /\ orig \in [Paths -> Contents] /\ content \in [Paths -> Contents]
    /\ todo \in Seq(Files)
    /\ pc \in Busy => todo # <<>>
    /\ ~quick =>
        /\ pc \notin {"read", "write"}
        /\ KeepsText /\ pc \in {"remove", "rename"} => content[Tmp] = "new"
        /\ KeepsText => \A f \in Files :
            \/ content[f] \in {orig[f], "new"}
            \/ /\ fs.writable
               /\ content[f] = "none" /\ content[Temp[f]] = "new"
               /\ pc \in {"rename", "crashed"}
               /\ pc = "rename" => f = File

LEMMA LineInit == Init => LineInv
BY FilesAssumption DEF Init, LineInv, Busy, Contents, Paths

LEMMA LineNext == ASSUME TempOutside PROVE LineInv /\ [Next]_vars => LineInv'
<1> SUFFICES ASSUME LineInv, [Next]_vars PROVE LineInv' OBVIOUS
<1> USE FilesAssumption
<1>0. ASSUME pc \in Busy PROVE /\ File \in Files /\ Tmp \in Others
                              /\ Tmp \in Paths /\ Tmp \notin Files
                              /\ File \in Paths /\ Tail(todo) \in Seq(Files)
  BY <1>0 DEF LineInv, File, Tmp, TempOutside, Paths
<1>k. UNCHANGED fs => KeepsText' = KeepsText
  BY DEF KeepsText
<1>1. CASE Visit
  <2>1. UNCHANGED <<quick, fs, orig, content>> /\ pc = "walk"
    BY <1>1 DEF Visit, cfgVars
  <2>2. pc' \in {"ended", "walk", "open"} \/ (quick /\ pc' = "read")
    BY <1>1 DEF Visit, Continue, Abort
  <2>3. todo # <<>> /\ (todo' = todo \/ (todo' = Tail(todo) /\ pc' = "walk"))
    BY <1>1 DEF Visit, Continue, Abort
  <2>4. todo \in Seq(Files)
    BY DEF LineInv
  <2>5. todo' \in Seq(Files)
    <3>1. Tail(todo) \in Seq(Files)
      BY <2>3, <2>4
    <3> QED BY <2>3, <2>4, <3>1
  <2>6. pc' \in Busy => todo' # <<>>
    BY <2>3 DEF Busy
  <2> QED BY <1>k, <2>1, <2>2, <2>5, <2>6 DEF LineInv
<1>2. CASE ReplaceRun \/ WalkEnds \/ Ended \/ UNCHANGED vars
  BY <1>2, <1>k DEF ReplaceRun, WalkEnds, Ended, vars, cfgVars, LineInv, Busy, File, Tmp
<1>3. CASE QuickRead \/ QuickCreateFails \/ QuickWrite
  <2>1. quick /\ quick' /\ orig' = orig /\ fs' = fs
    BY <1>3 DEF QuickRead, QuickCreateFails, QuickWrite, cfgVars, LineInv
  <2>2. content' \in [Paths -> Contents]
    BY <1>3, <1>0 DEF QuickRead, QuickCreateFails, QuickWrite, Set, LineInv,
       Busy, Contents
  <2>3. todo' \in Seq(Files) /\ (pc' \in Busy => todo' # <<>>)
    BY <1>3, <1>0 DEF QuickRead, QuickCreateFails, QuickWrite, Continue, Abort,
       LineInv, Busy
  <2> QED BY <2>1, <2>2, <2>3 DEF LineInv
<1>4. CASE OpenBoth
  <2>1. UNCHANGED <<quick, fs, orig, todo>> /\ pc = "open"
        /\ pc' \in {"ended", "copy"}
    BY <1>4 DEF OpenBoth, cfgVars, Abort
  <2>2. content' \in [Paths -> Contents]
        /\ \A f \in Files : content'[f] = content[f]
    BY <1>4, <1>0 DEF OpenBoth, Set, LineInv, Busy, Contents, Paths
  <2> QED BY <1>k, <2>1, <2>2, <1>0 DEF LineInv, Busy
<1>5. CASE CopyLines
  <2>1. UNCHANGED <<quick, fs, orig>> /\ pc = "copy"
        /\ pc' \in {"ended", "walk", "remove"}
        /\ (pc' = "remove" => todo' = todo)
        /\ todo' \in Seq(Files)
    BY <1>5, <1>0 DEF CopyLines, cfgVars, Abort, Continue, Busy, LineInv
  <2>2. content' \in [Paths -> Contents]
        /\ \A f \in Files : content'[f] = content[f]
    BY <1>5, <1>0 DEF CopyLines, Set, LineInv, Busy, Contents, Paths
  <2>3. KeepsText /\ pc' = "remove" => content'[Tmp] = "new"
    BY <1>5, <1>0 DEF CopyLines, Set, LineInv, Busy, KeepsText, Abort, Continue
  <2>4. pc' = "remove" => Tmp' = Tmp
    BY <2>1 DEF Tmp, File
  <2> QED BY <1>k, <2>1, <2>2, <2>3, <2>4, <1>0 DEF LineInv, Busy
<1>6. CASE RemoveOriginal
  <2>1. /\ UNCHANGED <<quick, fs, orig, todo>> /\ pc = "remove" /\ pc' = "rename"
        /\ \/ fs.writable /\ content' = [content EXCEPT ![File] = "none"]
           \/ ~fs.writable /\ content' = content
    BY <1>6 DEF RemoveOriginal, cfgVars, Set
  <2>2. File' = File /\ Tmp' = Tmp /\ Tmp = Temp[File]
    BY <2>1 DEF File, Tmp
  <2>3. content' \in [Paths -> Contents]
    BY <2>1, <1>0 DEF LineInv, Contents
  <2>4. ~quick /\ KeepsText => content'[Tmp] = "new"
    BY <2>1, <1>0 DEF LineInv, Busy
  <2>5. CASE fs.writable
    BY <1>k, <2>1, <2>2, <2>3, <2>4, <2>5, <1>0 DEF LineInv, Busy, Paths
  <2>6. CASE ~fs.writable
    BY <1>k, <2>1, <2>2, <2>3, <2>4, <2>6, <1>0 DEF LineInv, Busy, Paths
  <2> QED BY <2>5, <2>6
<1>7. CASE RenameTemp
  <2>1. /\ UNCHANGED <<quick, fs, orig>> /\ pc = "rename" /\ pc' = "walk"
        /\ todo' = Tail(todo)
        /\ \/ /\ fs.writable
              /\ content' = [content EXCEPT ![File] = content[Tmp], ![Tmp] = "none"]
           \/ ~(fs.writable /\ fs.sameDevice) /\ content' = content
    BY <1>7 DEF RenameTemp, cfgVars, Continue
  <2>2. content' \in [Paths -> Contents]
    BY <2>1, <1>0 DEF LineInv, Contents, Busy
  <2>3. todo' \in Seq(Files) /\ pc' \notin Busy
    BY <2>1, <1>0 DEF Busy
  <2>4. CASE content' = content /\ ~(fs.writable /\ fs.sameDevice)
    BY <1>k, <2>1, <2>3, <2>4 DEF LineInv, KeepsText
  <2>5. CASE content' = [content EXCEPT ![File] = content[Tmp], ![Tmp] = "none"]
    <3>1. ~quick /\ KeepsText => content'[File] = "new"
      BY <2>1, <2>5, <1>0 DEF LineInv, Busy
    <3>2. \A f \in Files \ {File} : content'[f] = content[f]
      BY <2>1, <2>5, <1>0 DEF LineInv, Busy, Paths
    <3> QED BY <1>k, <2>1, <2>2, <2>3, <3>1, <3>2 DEF LineInv
  <2> QED BY <2>1, <2>4, <2>5
<1>8. CASE Crash
  BY <1>8, <1>k DEF Crash, cfgVars, LineInv, Busy
<1> QED BY <1>1, <1>2, <1>3, <1>4, <1>5, <1>6, <1>7, <1>8 DEF Next

\* In the line by line mode the text of every file survives a crash after any
\* step of the walk, of the copy, of os.Remove and of os.Rename.
THEOREM NothingLostHolds == ASSUME TempOutside PROVE Spec => []NothingLost
<1>1. LineInv => NothingLost
  BY DEF LineInv, NothingLost, KeepsText
<1>2. LineInv /\ [Next]_vars => LineInv'
  BY LineNext
<1> QED BY LineInit, <1>1, <1>2, PTL DEF Spec

-----------------------------------------------------------------------------
(***************************************************************************)
(* Type correctness, whatever fails.                                       *)
(***************************************************************************)
TypeInv == TypeOK /\ (pc \in Busy => todo # <<>>)

LEMMA TypeNext == TypeInv /\ [Next]_vars => TypeInv'
<1> SUFFICES ASSUME TypeInv, [Next]_vars PROVE TypeInv' OBVIOUS
<1> USE FilesAssumption DEF cfgVars
<1>0. /\ content \in [Paths -> Contents] /\ todo \in Seq(Files) /\ reported \subseteq Files
      /\ TypeOK
  BY DEF TypeInv, TypeOK
<1>1. ASSUME pc \in Busy
      PROVE  /\ File \in Files /\ File \in Paths /\ Tmp \in Paths /\ Tail(todo) \in Seq(Files)
             /\ todo # <<>>
  BY <1>0, <1>1 DEF TypeInv, File, Tmp, Paths
<1>2. ASSUME NEW p \in Paths, NEW text \in Contents, Set(p, text)
      PROVE  content' \in [Paths -> Contents]
  BY <1>0, <1>2 DEF Set
<1>3. CASE Visit
  <2>1. UNCHANGED <<cfgVars, content, reported>> /\ todo # <<>>
        /\ pc' \in {"ended", "walk", "read", "open"}
        /\ (todo' = todo \/ (todo' = Tail(todo) /\ pc' = "walk"))
        /\ (failed' = failed \/ failed' = TRUE)
    BY <1>3 DEF Visit, Continue, Abort
  <2>2. todo # <<>> /\ todo \in Seq(Files) /\ (todo' = todo \/ todo' = Tail(todo))
    BY <2>1, <1>0
  <2>3. todo' \in Seq(Files)
    <3>1. Tail(todo) \in Seq(Files)
      BY <2>2
    <3> QED BY <2>2, <3>1
  <2> QED BY <2>1, <2>3, <1>0 DEF TypeInv, TypeOK, Busy
<1>4. CASE ReplaceRun \/ WalkEnds \/ Crash \/ Ended \/ UNCHANGED vars
  <2>1. UNCHANGED <<cfgVars, todo, content, reported, failed>>
        /\ (pc' = pc \/ pc' \in {"ended", "crashed", "refused", "walk"})
    BY <1>4 DEF ReplaceRun, WalkEnds, Crash, Ended, vars
  <2> QED BY <2>1 DEF TypeInv, TypeOK, Busy
<1>5. CASE QuickRead \/ QuickCreateFails \/ QuickWrite
  <2>1. UNCHANGED cfgVars /\ pc \in Busy
        /\ pc' \in {"ended", "walk", "write"}
        /\ (todo' = todo \/ (todo' = Tail(todo) /\ pc' = "walk"))
        /\ (failed' = failed \/ failed' = TRUE)
        /\ (reported' = reported \/ reported' = reported \cup {File})
    BY <1>5 DEF QuickRead, QuickCreateFails, QuickWrite, Continue, Abort, Busy
  <2>2. content' = content \/ \E text \in Contents : Set(File, text)
    BY <1>5 DEF QuickRead, QuickCreateFails, QuickWrite, Contents
  <2>3. content' \in [Paths -> Contents]
    BY <2>1, <2>2, <1>0, <1>1, <1>2
  <2>4. todo' \in Seq(Files) /\ reported' \subseteq Files
    BY <2>1, <1>0, <1>1
  <2> QED BY <2>1, <2>3, <2>4, <1>0, <1>1 DEF TypeInv, TypeOK, Busy
<1>6. CASE OpenBoth \/ CopyLines
  <2>1. UNCHANGED <<cfgVars, reported>> /\ pc \in Busy
        /\ pc' \in {"ended", "walk", "copy", "remove"}
        /\ (todo' = todo \/ (todo' = Tail(todo) /\ pc' = "walk"))
        /\ (failed' = failed \/ failed' = TRUE)
    BY <1>6 DEF OpenBoth, CopyLines, Continue, Abort, Busy
  <2>2. content' = content \/ \E text \in Contents : Set(Tmp, text)
    BY <1>6 DEF OpenBoth, CopyLines, Contents
  <2>3. content' \in [Paths -> Contents]
    BY <2>1, <2>2, <1>0, <1>1, <1>2
  <2>4. todo' \in Seq(Files)
    BY <2>1, <1>0, <1>1
  <2> QED BY <2>1, <2>3, <2>4, <1>0, <1>1 DEF TypeInv, TypeOK, Busy
<1>7. CASE RemoveOriginal
  <2>1. UNCHANGED <<cfgVars, todo, reported, failed>> /\ pc \in Busy /\ pc' = "rename"
        /\ (content' = content \/ Set(File, "none"))
    BY <1>7 DEF RemoveOriginal, Busy
  <2>2. content' \in [Paths -> Contents]
    BY <2>1, <1>0, <1>1, <1>2 DEF Contents
  <2> QED BY <2>1, <2>2, <1>0, <1>1 DEF TypeInv, TypeOK, Busy
<1>8. CASE RenameTemp
  <2>1. UNCHANGED <<cfgVars, failed>> /\ pc \in Busy /\ pc' = "walk" /\ todo' = Tail(todo)
        /\ reported' = reported \cup {File}
        /\ \/ content' = [content EXCEPT ![File] = content[Tmp], ![Tmp] = "none"]
           \/ content' = content
    BY <1>8 DEF RenameTemp, Continue, Busy
  <2>2. content' \in [Paths -> Contents]
    BY <2>1, <1>0, <1>1 DEF Contents
  <2>3. todo' \in Seq(Files) /\ reported' \subseteq Files
    BY <2>1, <1>0, <1>1
  <2> QED BY <2>1, <2>2, <2>3, <1>0 DEF TypeInv, TypeOK, Busy
<1> QED BY <1>3, <1>4, <1>5, <1>6, <1>7, <1>8 DEF Next

LEMMA TypeInit == Init => TypeInv
BY FilesAssumption DEF Init, TypeInv, TypeOK, Busy, Contents, Paths

\* Type correctness, for any files, options, failures and crashes.
THEOREM TypeCorrect == Spec => []TypeOK
<1>1. TypeInv => TypeOK
  BY DEF TypeInv
<1> QED BY TypeInit, TypeNext, <1>1, PTL DEF Spec

-----------------------------------------------------------------------------
(***************************************************************************)
(* What is reported.                                                       *)
(***************************************************************************)
Selected == {f \in matching : orig[f] = "old"}
Left == {todo[i] : i \in DOMAIN todo}

\* As long as the walk runs, a selected file that is not yet reported lies ahead,
\* a file that is not reported is as it was, except for one between its removal
\* and the rename, and a reported one is new if the file system does as asked.
ReportInv ==
    /\ failed => pc = "ended"
    /\ quick => pc \notin {"open", "copy", "remove", "rename"}
    /\ pc \notin {"crashed", "refused"} /\ ~failed =>
        /\ reported \subseteq Selected /\ Selected \subseteq reported \cup Left
        /\ pc = "ended" => todo = <<>>
        /\ pc \in Busy => File \in matching
        /\ pc = "write" => File \in reported
        /\ pc \in {"remove", "rename"} =>
            orig[File] = "old" /\ (fs.space => content[Tmp] = "new")
        /\ \A f \in Files \ reported : content[f] = orig[f] \/ (pc = "rename" /\ f = File)
        /\ DoesAsAsked => \A f \in reported :
            content[f] = "new" \/ (pc \in {"write", "rename"} /\ f = File)

LEMMA TailLeft ==
    ASSUME NEW s \in Seq(Files), s # <<>>
    PROVE  {s[i] : i \in DOMAIN s} \subseteq {Head(s)} \cup {Tail(s)[i] : i \in DOMAIN Tail(s)}
<1>1. /\ Head(s) = s[1] /\ DOMAIN s = 1..Len(s) /\ Len(s) \in Nat /\ Len(s) > 0
      /\ DOMAIN Tail(s) = 1..(Len(s) - 1)
  OBVIOUS
<1>2. \A j \in 1..(Len(s) - 1) : Tail(s)[j] = s[j + 1]
  OBVIOUS
<1>3. ASSUME NEW i \in 2..Len(s) PROVE i - 1 \in DOMAIN Tail(s) /\ Tail(s)[i - 1] = s[i]
  BY <1>1, <1>2
<1>4. \A i \in DOMAIN s : i = 1 \/ i \in 2..Len(s)
  BY <1>1
<1>5. ASSUME NEW i \in DOMAIN s
      PROVE  s[i] = Head(s) \/ \E j \in DOMAIN Tail(s) : s[i] = Tail(s)[j]
  <2>1. CASE i = 1
    BY <1>1, <2>1
  <2>2. CASE i \in 2..Len(s)
    BY <1>3, <2>2
  <2> QED BY <1>4, <2>1, <2>2
<1> QED BY <1>5

LEMMA ReportInit == Init => ReportInv
<1> SUFFICES ASSUME Init PROVE ReportInv OBVIOUS
<1>1. Selected \subseteq Left
  BY OrderAssumption DEF Init, Selected, Left
<1> QED BY <1>1 DEF Init, ReportInv, Busy

\* Every step keeps what is said of the reported files: it ends the walk with an
\* error, leaves the file in work, or is done with it.
LEMMA ReportNext == ASSUME TempOutside PROVE TypeInv /\ ReportInv /\ [Next]_vars => ReportInv'
<1> SUFFICES ASSUME TypeInv, ReportInv, [Next]_vars PROVE ReportInv' OBVIOUS
<1> USE DEF cfgVars
<1>0. /\ content \in [Paths -> Contents] /\ todo \in Seq(Files) /\ reported \subseteq Files
      /\ matching \subseteq Files /\ failed \in BOOLEAN
  BY DEF TypeInv, TypeOK
<1>1. ASSUME todo # <<>>
      PROVE  /\ File \in Files /\ Tmp \in Others /\ Tmp \notin Files /\ Tmp \in Paths
             /\ File \in Paths /\ Left \subseteq {File} \cup {Tail(todo)[i] : i \in DOMAIN Tail(todo)}
  <2>1. File \in Files
    BY <1>0, <1>1 DEF File
  <2>2. Tmp \in Others /\ Tmp \notin Files /\ Tmp \in Paths /\ File \in Paths
    BY <2>1, FilesAssumption DEF TempOutside, Tmp, Paths
  <2>3. Left \subseteq {File} \cup {Tail(todo)[i] : i \in DOMAIN Tail(todo)}
    BY <1>0, <1>1, TailLeft DEF Left, File
  <2> QED BY <2>1, <2>2, <2>3
<1>2. pc \in Busy => todo # <<>>
  BY DEF TypeInv
<1>m. quick => pc \notin {"open", "copy", "remove", "rename"}
  BY DEF ReportInv
<1>d. UNCHANGED cfgVars => DoesAsAsked' = DoesAsAsked
  BY DEF DoesAsAsked
<1>a. CASE Abort /\ UNCHANGED cfgVars
  BY <1>a DEF Abort, ReportInv
<1>r. ASSUME pc \notin {"ended", "crashed", "refused"}
      PROVE  /\ ~failed /\ reported \subseteq Selected /\ Selected \subseteq reported \cup Left
             /\ pc \in Busy => File \in matching
             /\ pc = "write" => File \in reported
             /\ pc \in {"remove", "rename"} =>
                    orig[File] = "old" /\ (fs.space => content[Tmp] = "new")
             /\ \A f \in Files \ reported : content[f] = orig[f] \/ (pc = "rename" /\ f = File)
             /\ DoesAsAsked => \A f \in reported :
                    content[f] = "new" \/ (pc \in {"write", "rename"} /\ f = File)
  BY <1>r DEF ReportInv
\* The walk goes on, with the file in work reported or with nothing to report.
<1>c. ASSUME Continue, UNCHANGED cfgVars, ~failed, todo # <<>>, reported \subseteq reported',
             reported' \subseteq Selected, Selected \subseteq reported \cup Left,
             File \in Selected => File \in reported',
             \A f \in Files \ reported' : content'[f] = orig[f],
             DoesAsAsked => \A f \in reported' : content'[f] = "new"
      PROVE  ReportInv'
  <2>1. todo' = Tail(todo) /\ pc' = "walk" /\ ~failed'
    BY <1>c DEF Continue
  <2>2. Selected' = Selected /\ Left' = {Tail(todo)[i] : i \in DOMAIN Tail(todo)}
    BY <1>c, <2>1 DEF Selected, Left
  <2>3. Selected \subseteq reported' \cup Left'
    BY <1>1, <1>c, <2>2
  <2> QED BY <1>c, <1>d, <2>1, <2>2, <2>3 DEF ReportInv, Busy
\* The file stays in work.
<1>w. ASSUME UNCHANGED <<cfgVars, todo, failed>>, ~failed, pc' \in Busy, File \in matching,
             quick => pc' \notin {"open", "copy", "remove", "rename"},
             reported' \subseteq Selected, reported \subseteq reported',
             Selected \subseteq reported \cup Left,
             pc' = "write" => File \in reported',
             pc' \in {"remove", "rename"} =>
                orig[File] = "old" /\ (fs.space => content'[Tmp] = "new"),
             \A f \in Files \ reported' : content'[f] = orig[f] \/ (pc' = "rename" /\ f = File),
             DoesAsAsked => \A f \in reported' :
                content'[f] = "new" \/ (pc' \in {"write", "rename"} /\ f = File)
      PROVE  ReportInv'
  <2>1. Selected' = Selected /\ Left' = Left /\ File' = File /\ Tmp' = Tmp
    BY <1>w DEF Selected, Left, File, Tmp
  <2>2. pc' \notin {"ended", "crashed", "refused"}
    BY <1>w DEF Busy
  <2> QED BY <1>w, <1>d, <2>1, <2>2 DEF ReportInv
<1>3. CASE Visit
  <2>1. UNCHANGED <<cfgVars, content, reported>> /\ pc = "walk" /\ todo # <<>>
    BY <1>3 DEF Visit
  <2>2. CASE File \notin matching /\ Continue
    <3>1. File \notin Selected
      BY <2>2 DEF Selected
    <3> QED BY <1>c, <1>r, <2>1, <2>2, <3>1
  <2>3. CASE File \in matching /\ pc' = (IF quick THEN "read" ELSE "open")
             /\ UNCHANGED <<todo, failed>>
    <3>1. pc' \in {"read", "open"} /\ (quick => pc' # "open")
      BY <2>3
    <3> QED BY <1>w, <1>r, <2>1, <2>3, <3>1 DEF Busy
  <2> QED BY <1>3, <1>a, <2>2, <2>3 DEF Visit
<1>4. CASE WalkEnds
  <2>1. pc = "walk" /\ todo = <<>> /\ pc' = "ended"
        /\ UNCHANGED <<cfgVars, todo, content, reported, failed>>
    BY <1>4 DEF WalkEnds
  <2>2. Selected' = Selected /\ Left' = Left
    BY <2>1 DEF Selected, Left
  <2> QED BY <1>r, <1>d, <2>1, <2>2 DEF ReportInv, Busy
<1>5. CASE QuickRead
  <2>1. UNCHANGED cfgVars /\ pc = "read" /\ todo # <<>>
    BY <1>5, <1>2 DEF QuickRead, Busy
  <2>2. CASE content[File] # "old" /\ Continue /\ UNCHANGED <<content, reported>>
    <3>1. File \in Selected => File \in reported
      BY <1>1, <1>r, <2>1, <2>2 DEF Selected
    <3> QED BY <1>c, <1>r, <2>1, <2>2, <3>1
  <2>3. CASE /\ content[File] = "old" /\ reported' = reported \cup {File}
             /\ pc' = "write" /\ Set(File, "part") /\ UNCHANGED <<todo, failed>>
    <3>1. File \in matching /\ File \in Selected
      BY <1>1, <1>r, <2>1, <2>3 DEF Selected, Busy
    <3>2. \A f \in Files \ {File} : content'[f] = content[f]
      BY <2>3, <1>0 DEF Set, Paths
    <3> QED BY <1>w, <1>r, <1>0, <2>1, <2>3, <3>1, <3>2 DEF Busy
  <2> QED BY <1>5, <1>a, <2>2, <2>3 DEF QuickRead
<1>6. CASE QuickCreateFails
  BY <1>6, <1>a DEF QuickCreateFails
<1>7. CASE QuickWrite
  <2>1. /\ UNCHANGED <<cfgVars, reported>> /\ pc = "write" /\ todo # <<>> /\ Continue
        /\ content' = [content EXCEPT ![File] = "new"] \/ (~fs.space /\ content' = content)
    BY <1>7, <1>2 DEF QuickWrite, Busy, Set
  <2>2. /\ DoesAsAsked => content'[File] = "new"
        /\ \A f \in Files \ {File} : content'[f] = content[f]
    BY <2>1, <1>0, <1>1 DEF Paths, DoesAsAsked
  <2>3. File \in reported
    BY <1>r, <2>1
  <2> QED BY <1>c, <1>r, <1>0, <2>1, <2>2, <2>3
<1>8. CASE OpenBoth
  <2>1. UNCHANGED <<cfgVars, reported>> /\ pc = "open" /\ todo # <<>>
    BY <1>8, <1>2 DEF OpenBoth, Busy
  <2>2. CASE pc' = "copy" /\ Set(Tmp, "part") /\ UNCHANGED <<todo, failed>>
    <3>1. \A f \in Files : content'[f] = content[f]
      BY <2>1, <2>2, <1>0, <1>1 DEF Set, Paths
    <3> QED BY <1>w, <1>r, <1>m, <1>0, <2>1, <2>2, <3>1 DEF Busy
  <2> QED BY <1>8, <1>a, <2>2 DEF OpenBoth
<1>9. CASE CopyLines
  <2>1. UNCHANGED <<cfgVars, reported>> /\ pc = "copy" /\ todo # <<>>
    BY <1>9, <1>2 DEF CopyLines, Busy
  <2>2. CASE content[File] # "old" /\ Continue /\ Set(Tmp, "none")
    <3>1. \A f \in Files : content'[f] = content[f]
      BY <2>1, <2>2, <1>0, <1>1 DEF Set, Paths
    <3>2. File \in Selected => File \in reported
      BY <1>1, <1>r, <2>1, <2>2 DEF Selected
    <3> QED BY <1>c, <1>r, <1>0, <2>1, <2>2, <3>1, <3>2
  <2>3. CASE /\ content[File] = "old" /\ pc' = "remove" /\ UNCHANGED <<todo, failed>>
             /\ Set(Tmp, "new") \/ (~fs.space /\ UNCHANGED content)
    <3>1. /\ fs.space => content'[Tmp] = "new"
          /\ \A f \in Files : content'[f] = content[f]
      BY <2>1, <2>3, <1>0, <1>1 DEF Set, Paths
    <3>2. orig[File] = "old"
      <4>1. CASE File \in reported
        BY <1>r, <2>1, <4>1 DEF Selected
      <4>2. CASE File \notin reported
        BY <1>1, <1>r, <2>1, <2>3, <4>2
      <4> QED BY <4>1, <4>2
    <3> QED BY <1>w, <1>r, <1>m, <1>0, <2>1, <2>3, <3>1, <3>2 DEF Busy
  <2> QED BY <1>9, <1>a, <2>2, <2>3 DEF CopyLines
<1>10. CASE RemoveOriginal
  <2>1. /\ UNCHANGED <<cfgVars, todo, reported, failed>> /\ pc = "remove" /\ pc' = "rename"
        /\ todo # <<>>
        /\ content' = [content EXCEPT ![File] = "none"] \/ content' = content
    BY <1>10, <1>2 DEF RemoveOriginal, Busy, Set
  <2>2. content'[Tmp] = content[Tmp] /\ \A f \in Files \ {File} : content'[f] = content[f]
    BY <2>1, <1>0, <1>1 DEF Paths
  <2> QED BY <1>w, <1>r, <1>m, <1>0, <2>1, <2>2 DEF Busy
<1>11. CASE RenameTemp
  <2>1. /\ UNCHANGED cfgVars /\ pc = "rename" /\ Continue /\ todo # <<>>
        /\ reported' = reported \cup {File}
        /\ \/ content' = [content EXCEPT ![File] = content[Tmp], ![Tmp] = "none"]
           \/ ~(fs.sameDevice /\ fs.writable) /\ content' = content
    BY <1>11, <1>2 DEF RenameTemp, Busy
  <2>2. /\ DoesAsAsked => content'[File] = content[Tmp]
        /\ \A f \in Files \ {File} : content'[f] = content[f]
    BY <2>1, <1>0, <1>1, <1>m DEF Paths, DoesAsAsked
  <2>3. (DoesAsAsked => content[Tmp] = "new") /\ File \in Selected
    BY <1>r, <2>1 DEF Selected, Busy, DoesAsAsked
  <2> QED BY <1>c, <1>r, <1>0, <2>1, <2>2, <2>3
<1>12. CASE Crash
  BY <1>12, <1>r DEF Crash, ReportInv
<1>13. CASE Ended \/ UNCHANGED vars
  <2>1. UNCHANGED vars
    BY <1>13 DEF Ended
  <2> QED BY <2>1 DEF vars, ReportInv, Selected, Left, File, Tmp, DoesAsAsked
<1>14. CASE ReplaceRun
  <2>1. pc = "args" /\ pc' \in {"refused", "walk"}
        /\ UNCHANGED <<cfgVars, todo, content, reported, failed>>
    BY <1>14 DEF ReplaceRun
  <2>2. Selected' = Selected /\ Left' = Left
    BY <2>1 DEF Selected, Left
  <2> QED BY <1>r, <1>d, <2>1, <2>2 DEF ReportInv, Busy
<1> QED BY <1>3, <1>4, <1>5, <1>6, <1>7, <1>8, <1>9, <1>10, <1>11, <1>12, <1>13, <1>14 DEF Next

\* In both modes and on any file system: after a walk without an error the files
\* reported are exactly the selected ones that held the text, no other file has
\* changed, and the reported ones are replaced if the file system did as asked.
THEOREM ReportIsExactHolds == ASSUME TempOutside PROVE Spec => []ReportIsExact
<1>1. TypeInv /\ ReportInv => ReportIsExact
  <2> SUFFICES ASSUME TypeInv, ReportInv, pc = "ended", ~failed
               PROVE  /\ reported = Selected
                      /\ \A f \in Files \ reported : content[f] = orig[f]
                      /\ DoesAsAsked => \A f \in reported : content[f] = "new"
    BY DEF ReportIsExact, Selected
  <2>1. Left = {} /\ reported \subseteq Files
    BY DEF ReportInv, Left, TypeInv, TypeOK
  <2> QED BY <2>1 DEF ReportInv
<1>2. TypeInv /\ ReportInv /\ [Next]_vars => ReportInv'
  BY ReportNext
<1> QED BY TypeInit, TypeNext, ReportInit, <1>1, <1>2, PTL DEF Spec

-----------------------------------------------------------------------------
(***************************************************************************)
(* What the quick mode can lose.                                           *)
(***************************************************************************)
\* Only the file in work is cut short, and it stays the head of todo when the
\* program is killed.
QuickInv ==
    quick =>
        /\ pc \notin {"open", "copy", "remove", "rename"}
        /\ pc = "write" => File \in reported
        /\ fs.space => \A f \in Files :
            /\ content[f] \in {orig[f], "new"} \/ (pc \in {"write", "crashed"} /\ f = File)
            /\ f \in reported \/ content[f] = orig[f]

LEMMA QuickNext == TypeInv /\ QuickInv /\ [Next]_vars => QuickInv'
<1> SUFFICES ASSUME TypeInv, QuickInv, [Next]_vars, quick' PROVE QuickInv'
  BY DEF QuickInv
<1> USE DEF cfgVars
<1>0. /\ content \in [Paths -> Contents] /\ todo \in Seq(Files) /\ Files \subseteq Paths
      /\ pc \in Busy => todo # <<>>
  BY DEF TypeInv, TypeOK, Paths
<1>1. UNCHANGED cfgVars /\ quick
  BY DEF Next, ReplaceRun, Visit, WalkEnds, QuickRead, QuickCreateFails, QuickWrite, OpenBoth,
     CopyLines, RemoveOriginal, RenameTemp, Crash, Ended, vars
<1>2. /\ pc \notin {"open", "copy", "remove", "rename"}
      /\ pc = "write" => File \in reported
      /\ fs.space => \A f \in Files :
          /\ content[f] \in {orig[f], "new"} \/ (pc \in {"write", "crashed"} /\ f = File)
          /\ f \in reported \/ content[f] = orig[f]
  BY <1>1 DEF QuickInv
<1>3. CASE Visit \/ WalkEnds \/ ReplaceRun
  BY <1>1, <1>2, <1>3 DEF Visit, WalkEnds, ReplaceRun, Abort, Continue, QuickInv
<1>4. CASE QuickRead
  <2>1. pc = "read" /\ File \in Files
    BY <1>0, <1>4 DEF QuickRead, Busy, File
  <2>2. CASE (Abort \/ Continue) /\ UNCHANGED <<content, reported>>
    BY <1>1, <1>2, <2>1, <2>2 DEF Abort, Continue, QuickInv
  <2>3. CASE /\ reported' = reported \cup {File} /\ pc' = "write" /\ Set(File, "part")
             /\ UNCHANGED <<todo, failed>>
    <3>1. File' = File /\ \A f \in Files \ {File} : content'[f] = content[f]
      BY <1>0, <2>3 DEF Set, File
    <3> QED BY <1>1, <1>2, <2>1, <2>3, <3>1 DEF QuickInv
  <2> QED BY <1>4, <2>2, <2>3 DEF QuickRead
<1>5. CASE QuickCreateFails
  BY <1>1, <1>2, <1>5 DEF QuickCreateFails, Abort, QuickInv
<1>6. CASE QuickWrite
  <2>1. pc = "write" /\ File \in Files /\ pc' = "walk" /\ reported' = reported
    BY <1>0, <1>6 DEF QuickWrite, Continue, Busy, File
  <2>2. fs.space => content' = [content EXCEPT ![File] = "new"]
    BY <1>6 DEF QuickWrite, Set
  <2>3. fs.space => content'[File] = "new" /\ \A f \in Files \ {File} : content'[f] = content[f]
    BY <1>0, <2>1, <2>2
  <2> QED BY <1>1, <1>2, <2>1, <2>3 DEF QuickInv
<1>7. CASE OpenBoth \/ CopyLines \/ RemoveOriginal \/ RenameTemp
  BY <1>2, <1>7 DEF OpenBoth, CopyLines, RemoveOriginal, RenameTemp
<1>8. CASE Crash \/ Ended \/ UNCHANGED vars
  BY <1>1, <1>2, <1>8 DEF Crash, Ended, vars, QuickInv, File
<1> QED BY <1>3, <1>4, <1>5, <1>6, <1>7, <1>8 DEF Next

\* The quick mode, killed after any step or stopped by an error: with complete
\* writes at most one file is neither as it was nor replaced, and a file that was
\* not reported is as it was.
THEOREM QuickLosesAtMostOneHolds == Spec => []QuickLosesAtMostOne
<1>1. Init => QuickInv
  BY DEF Init, QuickInv
<1>2. QuickInv => QuickLosesAtMostOne
  BY DEF QuickInv, QuickLosesAtMostOne
<1> QED BY TypeInit, TypeNext, QuickNext, <1>1, <1>2, PTL DEF Spec
==============================================================================
