-------------------------------- MODULE Walks --------------------------------
(***************************************************************************)
(* The commands that walk a directory and print what they select:          *)
(* `wstools find` (findRun, and Find of src/common/cli/find.go) and        *)
(* `wstools md5sum` (md5sumRun).  A tree is the sequence of the entries in *)
(* the order of filepath.Walk; err is "walk" for one that Walk cannot     *)
(* examine and "open" for a file that cannot be opened.                    *)
(*                                                                         *)
(* Times are whole minutes: a duration of 64 bits in nanoseconds holds     *)
(* fewer than Half of them.                                                *)
(***************************************************************************)
EXTENDS Process

CONSTANTS
    WalkTrees,    \* sequences of records [name, dir, size, age, err]
    FindOptions,  \* records [Dir, Path, Name, Size, Mtime]
    Md5Options    \* records [source, only, invert]

Half == 153722867

Entries == [name : STRING, dir : BOOLEAN, size : Nat, age : Int, err : {"none", "walk", "open"}]

\* The walk visits its root, if nothing else.
ASSUME WalksAssumption ==
    /\ WalkTrees \subseteq Seq(Entries) \ {<<>>}
    /\ \A o \in FindOptions : {o.Size.num, o.Mtime.num} \subseteq Seq(Int)

\* A regular expression: whether it is given, whether it compiles, and the names
\* that it matches.
NoRegexp == [given |-> FALSE, ok |-> TRUE, names |-> {}]

\* A quantity: its digits, as a sequence of at most one number, and its unit.
NoQuantity == [num |-> <<>>, unit |-> ""]
Given(q) == q # NoQuantity
Unparsed(q) == Given(q) /\ q.num = <<>>

FindInit ==
    /\ opt \in FindOptions
    /\ \E tree \in WalkTrees : loc = [todo |-> tree, tree |-> tree, stopped |-> FALSE]
    /\ pc = "parse" /\ disk = <<>> /\ out = <<>>

Md5sumInit ==
    /\ opt \in Md5Options
    /\ \E tree \in WalkTrees : loc = [todo |-> tree, tree |-> tree, stopped |-> FALSE]
    /\ pc = "parse" /\ disk = <<>> /\ out = <<>>

Entry == Head(loc.todo)

\* The callback returns nil, printing the path or not, or an error, which ends
\* the walk.
Skip == loc' = [loc EXCEPT !.todo = Tail(@)] /\ UNCHANGED <<pc, out>>
Show == loc' = [loc EXCEPT !.todo = Tail(@)] /\ out' = Append(out, Entry.name)
        /\ UNCHANGED pc
Stop == loc' = [loc EXCEPT !.todo = <<>>, !.stopped = TRUE] /\ UNCHANGED <<pc, out>>

-----------------------------------------------------------------------------
(***************************************************************************)
(* find.                                                                   *)
(***************************************************************************)
Abs(n) == IF n < 0 THEN -n ELSE n

\* The product of a time.Duration, which wraps around.
Wrap(x) == ((x + Half) % (2 * Half)) - Half

\* Without a unit the number counts nanoseconds: less than a minute.
Minutes(unit) == CASE unit = "M" -> 1
                   [] unit = "H" -> 60
                   [] unit = "d" -> 24 * 60
                   [] unit = "m" -> 24 * 60 * 30
                   [] unit = "y" -> 24 * 60 * 30 * 365
                   [] OTHER -> 0

\* parseMtime: Less, and the time as an age; ^d is -d - 1.
parseMtime(q) == [Less |-> q.num[1] < 0, Age |-> Wrap(Abs(q.num[1]) * Minutes(q.unit))]

\* Variant: the comparisons are exchanged.
MatchTimeExchanged(t, age) == IF t.Less THEN age > t.Age ELSE age <= t.Age

\* matchTime.Match: the last nanosecond of ^d makes the first one inclusive.
MatchTime(t, age) == IF t.Less THEN age <= t.Age ELSE age > t.Age

Bytes(unit) == CASE unit \in {"K", "k"} -> 1024
                 [] unit \in {"M", "m"} -> 1024 * 1024
                 [] unit \in {"G", "g"} -> 1024 * 1024 * 1024
                 [] OTHER -> 1

\* parseSize and matchSize.Match.
parseSize(q) == [Less |-> q.num[1] < 0, Size |-> Abs(q.num[1]) * Bytes(q.unit)]
MatchSize(m, size) == IF m.Less THEN size <= m.Size ELSE size >= m.Size

FindRejects == ~opt.Path \/ ~opt.Name.ok \/ Unparsed(opt.Size) \/ Unparsed(opt.Mtime)

\* An option that cannot be parsed is an error, which findRun does not look at.
FindParse ==
    /\ pc = "parse"
    /\ IF FindRejects THEN Return ELSE pc' = "walk"
    /\ UNCHANGED <<cmd, opt, disk, loc, out>>

FindSelects(e) ==
    /\ e.dir => opt.Dir
    /\ opt.Name.given => e.name \in opt.Name.names
    /\ Given(opt.Size) => MatchSize(parseSize(opt.Size), e.size)
    /\ Given(opt.Mtime) => MatchTime(parseMtime(opt.Mtime), e.age)

\* The callback of Find, with the handler of findRun, which prints.
FindVisit ==
    /\ cmd = "find" /\ pc = "walk" /\ loc.todo # <<>>
    /\ \/ Entry.err = "walk" /\ Stop
       \/ Entry.err # "walk" /\ FindSelects(Entry) /\ Show
       \/ Entry.err # "walk" /\ ~FindSelects(Entry) /\ Skip
    /\ UNCHANGED <<cmd, opt, disk>>

FindEnds ==
    /\ cmd = "find" /\ pc = "walk" /\ loc.todo = <<>>
    /\ Return
    /\ UNCHANGED <<cmd, opt, disk, loc, out>>

FindNext == FindParse \/ FindVisit \/ FindEnds

-----------------------------------------------------------------------------
(***************************************************************************)
(* md5sum.                                                                 *)
(***************************************************************************)
Md5sumParse ==
    /\ pc = "parse"
    /\ IF ~opt.source \/ ~opt.only.ok \/ ~opt.invert.ok
       THEN FatalOutput ELSE pc' = "walk"
    /\ UNCHANGED <<cmd, opt, disk, loc, out>>

Md5sumSelects(e) ==
    /\ ~e.dir
    /\ opt.only.given => e.name \in opt.only.names
    /\ opt.invert.given => e.name \notin opt.invert.names

Md5sumFails(e) == e.err = "walk" \/ (e.err = "open" /\ Md5sumSelects(e))

Md5sumVisit ==
    /\ cmd = "md5sum" /\ pc = "walk" /\ loc.todo # <<>>
    /\ \/ Md5sumFails(Entry) /\ Stop
       \/ ~Md5sumFails(Entry) /\ Md5sumSelects(Entry) /\ Show
       \/ ~Md5sumFails(Entry) /\ ~Md5sumSelects(Entry) /\ Skip
    /\ UNCHANGED <<cmd, opt, disk>>

\* FatalOutput is called in any case: with the error of the walk, or with
\* err.Error() of a nil error, a run time error.
Md5sumEnds ==
    /\ cmd = "md5sum" /\ pc = "walk" /\ loc.todo = <<>>
    /\ IF loc.stopped THEN FatalOutput ELSE Panic
    /\ UNCHANGED <<cmd, opt, disk, loc, out>>

Md5sumNext == Md5sumParse \/ Md5sumVisit \/ Md5sumEnds

-----------------------------------------------------------------------------
(***************************************************************************)
(* What the help of the two commands says of the options.                  *)
(***************************************************************************)
\* The age that -m names: minutes, hours, days, months of 30 days, years of 365
\* days, and seconds if it has no unit.
HelpMinutes(q) ==
    LET n == Abs(q.num[1])
    IN  CASE q.unit = "M" -> n
          [] q.unit = "H" -> n * 60
          [] q.unit = "d" -> n * 1440
          [] q.unit = "m" -> n * (30 * 1440)
          [] q.unit = "y" -> n * (365 * 1440)
          [] OTHER -> n \div 60

\* The size that -s names: kilobytes, megabytes, gigabytes in either case, and
\* bytes if it has no unit.
HelpBytes(q) ==
    LET n == Abs(q.num[1])
    IN  CASE q.unit \in {"K", "k"} -> n * 1024
          [] q.unit \in {"M", "m"} -> n * 1048576
          [] q.unit \in {"G", "g"} -> n * 1073741824
          [] OTHER -> n

\* A negative number asks for smaller or younger entries, another one for larger
\* or older ones.
Asked(e) ==
    /\ e.dir => opt.Dir
    /\ opt.Name.given => e.name \in opt.Name.names
    /\ Given(opt.Size) => IF opt.Size.num[1] < 0 THEN e.size <= HelpBytes(opt.Size)
                                                 ELSE e.size >= HelpBytes(opt.Size)
    /\ Given(opt.Mtime) => IF opt.Mtime.num[1] < 0 THEN e.age <= HelpMinutes(opt.Mtime)
                                                   ELSE e.age > HelpMinutes(opt.Mtime)

\* The files whose sum md5sum is asked for, and those that it cannot read.
Summed(e) == /\ ~e.dir
             /\ opt.only.given => e.name \in opt.only.names
             /\ ~(opt.invert.given /\ e.name \in opt.invert.names)
Unreadable(e) == e.err = "walk" \/ (e.err = "open" /\ Summed(e))

\* The places that the walk gets to: those before its first error.
FindReach   == {i \in DOMAIN loc.tree : \A j \in 1..i : loc.tree[j].err # "walk"}
Md5sumReach == {i \in DOMAIN loc.tree : \A j \in 1..i : ~Unreadable(loc.tree[j])}

\* The names printed are those of the entries picked, in their order: an entry
\* stands where the number of entries picked up to it says.
Lists(printed, tree, picked) ==
    /\ Len(printed) = Cardinality(picked)
    /\ \A i \in picked : printed[Cardinality(picked \cap (1..i))] = tree[i].name

\* find has looked at its tree, and md5sum at its own.
FindDone   == cmd = "find" /\ pc = "returned" /\ ~FindRejects
Md5sumDone == cmd = "md5sum" /\ Ended /\ loc.todo = <<>>

PrintsAsked == Lists(out, loc.tree, {i \in FindReach : Asked(loc.tree[i])})

\* The ages that parseMtime computes as the help describes them: of a unit other
\* than the year, and no longer than a duration (292 years).
PlainAge == Given(opt.Mtime) =>
    opt.Mtime.unit \in {"M", "H", "d", "m"} /\ HelpMinutes(opt.Mtime) < Half

\* find prints exactly the entries that its options ask for, in the order of the
\* walk, up to the first one that cannot be examined: with -m for a plain age
\* (FindHonoursAge is about the others).  md5sum prints in the same way the files
\* asked for up to the first one that it cannot read, and exits with 1 if there
\* is one.
WalkPrintsSelection ==
    /\ FindDone /\ PlainAge => PrintsAsked
    /\ Md5sumDone =>
        /\ Lists(out, loc.tree, {i \in Md5sumReach : Summed(loc.tree[i])})
        /\ (\E i \in DOMAIN loc.tree : Unreadable(loc.tree[i])) => pc = "fatal"

\* find prints exactly the entries that its options ask for, whatever the unit of
\* -m, as its help describes them.
FindHonoursAge == FindDone => PrintsAsked

\* md5sum of a tree in which it can read everything succeeds: it exits with 0.
Md5sumSucceeds ==
    Md5sumDone /\ (\A i \in DOMAIN loc.tree : ~Unreadable(loc.tree[i])) => pc = "returned"
=============================================================================
