------------------------------- MODULE Compare -------------------------------
(***************************************************************************)
(* `wstools compare`: compareRun (src/command/compare.go) with ComparePath,*)
(* Comparefile and Comparebyte (src/common/cli/compare.go) and the Copy of *)
(* the vendored package command.                                           *)
(*                                                                         *)
(* A path is a pair: "s" (the source), "d" (the destination) or "c" (the   *)
(* directory of -c), and the relative path, a sequence of names.           *)
(***************************************************************************)
EXTENDS Process

CONSTANTS
    WalkOrder,       \* the relative paths in the order of the walk
    CompareBuf,      \* size of the blocks of Comparebyte, 512
    SourceTrees,     \* the trees considered for each of the three, functions
    DestTrees,       \* from relative paths to entries; the empty function is
    CopyTrees,       \* a directory that does not exist
    CompareOptions   \* records [given, copyto, verbose, root]

Rels == {WalkOrder[i] : i \in DOMAIN WalkOrder}

\* The path of the directory k names down the path r.
Above(r, k) == SubSeq(r, 1, k)

\* Entries lie in directories.
IsTree(tree) ==
    \A r \in DOMAIN tree :
        /\ r \in Rels /\ IsEntry(tree[r])
        /\ \A k \in 0..(Len(r) - 1) : Above(r, k) \in DOMAIN tree /\ tree[Above(r, k)].dir

ASSUME CompareAssumption ==
    /\ CompareBuf \in Nat \ {0}
    /\ WalkOrder \in Seq(Seq(STRING)) /\ WalkOrder # <<>> /\ WalkOrder[1] = <<>>
    /\ \A tree \in SourceTrees \cup DestTrees \cup CopyTrees : IsTree(tree)
    /\ \A o \in CompareOptions : o.verbose \in BOOLEAN /\ o.copyto \in {"", "s", "d", "c"}

Rooted(source, dest, copies) ==
    [p \in ({"s"} \X DOMAIN source) \cup ({"d"} \X DOMAIN dest) \cup ({"c"} \X DOMAIN copies) |->
        CASE p[1] = "s" -> source[p[2]]
          [] p[1] = "d" -> dest[p[2]]
          [] OTHER -> copies[p[2]]]

\* todo: the places in WalkOrder of the entries that the walk has found.
CompareInit ==
    /\ opt \in CompareOptions
    /\ \E source \in SourceTrees, dest \in DestTrees, copies \in CopyTrees :
         disk = Rooted(source, dest, copies)
    /\ loc = [todo |-> {1}, orig |-> disk]
    /\ pc = "start" /\ out = <<>>

-----------------------------------------------------------------------------
\* Variant: only the counts of the two reads are compared.
SameBlockCounts(x, y, bx, by) == x = y

\* sint == dint && bytes.Equal(sbyte, dbyte), on the whole buffers.
SameBlock(x, y, bx, by) == x = y /\ bx = by

\* Comparebyte, block by block until both are at their end, which s is after
\* Len(s) blocks.
Comparebyte(s, d) ==
    LET rs == Reads(s, CompareBuf, Len(s) + 1)
        rd == Reads(d, CompareBuf, Len(s) + 1)
    IN  \A n \in 1..(Len(s) + 1) :
            IF rs[n].count = 0 \/ rd[n].count = 0 THEN rs[n].count = rd[n].count
            ELSE SameBlock(rs[n].count, rd[n].count, rs[n].buffer, rd[n].buffer)

\* Comparefile of two entries that could be opened.  The size of a directory
\* may be that of a file: then reading the directory fails.
Comparefile(s, d) ==
    \/ s.dir /\ d.dir
    \/ ~s.dir /\ ~d.dir /\ Len(s.data) = Len(d.data) /\ Comparebyte(s.data, d.data)

-----------------------------------------------------------------------------
Place == CHOOSE i \in loc.todo : \A j \in loc.todo : i <= j
Rel == WalkOrder[Place]
At(root) == <<root, Rel>>

\* An entry above the path is a file: an error other than "does not exist".
BelowFile(fs, p) == \E k \in 0..(Len(p[2]) - 1) :
    <<p[1], Above(p[2], k)>> \in DOMAIN fs /\ ~fs[<<p[1], Above(p[2], k)>>].dir

\* filepath.Walk goes on with the entries of the directory just visited.
Proceed(fs) ==
    LET child(r) == r # <<>> /\ Above(r, Len(r) - 1) = Rel /\ <<"s", r>> \in DOMAIN fs
    IN  /\ loc' = [loc EXCEPT !.todo = (@ \ {Place})
                                        \cup {i \in DOMAIN WalkOrder : child(WalkOrder[i])}]
        /\ pc' = "walk"

StartCompare ==
    /\ pc = "start"
    /\ IF opt.given THEN pc' = "walk" ELSE FatalOutput
    /\ UNCHANGED <<cmd, opt, disk, loc, out>>

Matches == Exists(At("d")) /\ Comparefile(disk[At("s")], disk[At("d")])

\* Variant: the line does not say whether the entry is new.
DifferenceUnmarked == Rel

\* What the handler prints: whether the entry is there but modified, and its path.
Difference == <<Exists(At("d")), Rel>>

\* The callback of ComparePath: an entry that cannot be examined ends the
\* walk, equal ones are passed over, and the handler prints the others.
CompareVisit ==
    /\ pc = "walk" /\ loc.todo # {}
    /\ \/ FatalOutput /\ UNCHANGED <<loc, out>>
       \/ /\ Exists(At("s")) /\ ~BelowFile(disk, At("d")) /\ Matches
          /\ Proceed(disk) /\ UNCHANGED out
       \/ /\ Exists(At("s")) /\ ~BelowFile(disk, At("d")) /\ ~Matches
          /\ out' = IF opt.verbose THEN Append(out, Difference) ELSE out
          /\ IF opt.copyto = "" THEN Proceed(disk)
             ELSE pc' = "copy" /\ UNCHANGED loc
    /\ UNCHANGED <<cmd, opt, disk>>

\* The directories that are missing above a path; MkdirAll gives them a mode
\* without search permission, in which only root can create anything.
Missing(p) == {<<p[1], Above(p[2], k)>> : k \in 0..(Len(p[2]) - 1)} \ DOMAIN disk
Topmost(dirs) == {p \in dirs : \A q \in dirs : Len(p[2]) <= Len(q[2])}
Made(dirs) == [p \in DOMAIN disk \cup dirs |-> IF p \in DOMAIN disk THEN disk[p] ELSE Directory]

\* The file at `to` is truncated before `from`, which may be the same, is read.
Copied(fs, from, to) ==
    LET truncated == With(fs, to, File(<<>>))
    IN  With(fs, to, File(truncated[from].data))

\* Copy of the entry to the directory of -c.
CopyEntry ==
    LET to == At(opt.copyto) IN
    /\ pc = "copy"
    /\ \/ FatalOutput /\ UNCHANGED <<disk, loc>>
       \/ /\ Rel # <<>> /\ ~IsDir(to) /\ ~BelowFile(disk, to)
          /\ \/ /\ Missing(to) # {} /\ ~opt.root
                /\ FatalOutput /\ disk' = Made(Topmost(Missing(to))) /\ UNCHANGED loc
             \/ /\ Missing(to) = {} \/ opt.root
                /\ FatalOutput /\ UNCHANGED loc
                /\ disk' = With(Made(Missing(to)), to, File(<<>>))
             \/ /\ Missing(to) = {} \/ opt.root
                /\ ~IsDir(At("s"))
                /\ disk' = Copied(Made(Missing(to)), At("s"), to)
                /\ Proceed(disk')
    /\ UNCHANGED <<cmd, opt, out>>

CompareEnds ==
    /\ pc = "walk" /\ loc.todo = {}
    /\ Return
    /\ UNCHANGED <<cmd, opt, disk, loc, out>>

CompareNext == StartCompare \/ CompareVisit \/ CopyEntry \/ CompareEnds

-----------------------------------------------------------------------------
SourceFiles == {r \in Rels : <<"s", r>> \in DOMAIN loc.orig
                             /\ ~loc.orig[<<"s", r>>].dir}

\* The destination did not hold the file with the same content.
Differs(r) == LET s == <<"s", r>>
                  d == <<"d", r>>
              IN  ~(d \in DOMAIN loc.orig /\ loc.orig[d] = loc.orig[s])

\* The file lies in the directory of -c as it was in the source at the start.
InCopy(r) == Exists(<<opt.copyto, r>>) /\ disk[<<opt.copyto, r>>] = loc.orig[<<"s", r>>]

\* When compare returns, every file of the source that the destination did not
\* hold with the same content has been printed, and with a -c other than the
\* source it lies in that directory as it was in the source at the start.
\* (DifferencesAreCopied is about the -c that is the source.)  However compare
\* ends, the trees it compares are as they were, unless one of them is the
\* directory of -c.
CompareComplete ==
    cmd = "compare" =>
        /\ \A p \in DOMAIN loc.orig :
               p[1] # opt.copyto => Exists(p) /\ disk[p] = loc.orig[p]
        /\ pc = "returned" => \A r \in SourceFiles :
               Differs(r) => /\ opt.verbose => \E i \in DOMAIN out : out[i][2] = r
                             /\ opt.copyto \notin {"", "s"} => InCopy(r)

\* With -c, whatever directory it names, every file that differs lies in it as it
\* was in the source, when compare returns.
DifferencesAreCopied ==
    cmd = "compare" /\ pc = "returned" /\ opt.copyto # "" =>
        \A r \in SourceFiles : Differs(r) => InCopy(r)

\* The copies keep their kind: what is a directory of the source never becomes a
\* file of the directory of -c.
DiffKeepsDirectories ==
    cmd = "compare" /\ opt.copyto = "c" =>
        \A r \in Rels : /\ <<"s", r>> \in DOMAIN loc.orig /\ loc.orig[<<"s", r>>].dir
                        /\ <<"c", r>> \notin DOMAIN loc.orig
                        => ~IsFile(<<"c", r>>)
=============================================================================
