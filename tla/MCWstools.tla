------------------------------ MODULE MCWstools ------------------------------
(***************************************************************************)
(* The sequential sub-commands on small files, trees and options.          *)
(***************************************************************************)
EXTENDS Wstools, TLC

\* tail: every file of at most six bytes, in blocks of two.
MCTailFiles == UNION {[1..n -> {LF, 120}] : n \in 0..6}
MCSizes == {NoSize, [num |-> <<2>>, unit |-> ""], [num |-> <<1>>, unit |-> "kb"],
            [num |-> <<>>, unit |-> "b"], [num |-> <<>>, unit |-> "mb"],
            [num |-> <<0>>, unit |-> "b"]}
MCTailOptions ==
    [Line : {0, 1, 3}, Lines : {0, 1}, Size : {NoSize}, Offset : {NoSize},
     Output : {"", "o", "f"}]
    \cup [Line : {0}, Lines : {0, 2}, Size : MCSizes, Offset : MCSizes \ {NoSize},
          Output : {""}]

MCLastLine ==
    [Line : {1}, Lines : {0}, Size : {NoSize}, Offset : {NoSize}, Output : {""}]

\* find and md5sum: a directory with two files and at most one failure.
MCEntry(name, dir, size, age, err) ==
    [name |-> name, dir |-> dir, size |-> size, age |-> age, err |-> err]
MCWalkTrees ==
    {<<MCEntry(".", TRUE, 0, 0, "none"), MCEntry("a", FALSE, 1024, ages[1], errs[1]),
       MCEntry("b", FALSE, 1, ages[2], errs[2])>> :
        ages \in {<<0, 1440>>, <<1441, 200000000>>, <<1440, 0>>},
        errs \in {<<"none", "none">>, <<"walk", "none">>, <<"none", "open">>}}
    \cup {<<MCEntry(".", TRUE, 0, 0, "walk")>>}
MCRegexps == {NoRegexp, [given |-> TRUE, ok |-> TRUE, names |-> {"a"}],
              [given |-> TRUE, ok |-> FALSE, names |-> {}]}
MCQuantity(num, unit) == [num |-> <<num>>, unit |-> unit]
MCFindOptions ==
    [Dir : BOOLEAN, Path : BOOLEAN, Name : MCRegexps,
     Size : {NoQuantity, [num |-> <<>>, unit |-> "K"], MCQuantity(-1, "k"),
             MCQuantity(1, "")},
     Mtime : {NoQuantity, [num |-> <<>>, unit |-> "d"], MCQuantity(-1, "d"),
              MCQuantity(1, "d"), MCQuantity(10, "y"), MCQuantity(-9, "y"),
              MCQuantity(1, "")}]
\* Files of a minute and of almost two years, and what find -m is asked of them.
MCAgedTrees ==
    {<<MCEntry(".", TRUE, 0, 0, "none"), MCEntry("a", FALSE, 1024, 1, "none"),
       MCEntry("b", FALSE, 1, 1000000, "none")>>}
MCOnlyMtime(quantities) ==
    [Dir : {FALSE}, Path : {TRUE}, Name : {NoRegexp}, Size : {NoQuantity}, Mtime : quantities]
MCFindSeconds == MCOnlyMtime({MCQuantity(-120, "")})
MCFindYears == MCOnlyMtime({MCQuantity(1, "y"), MCQuantity(10, "y")})
MCMd5Options == [source : BOOLEAN, only : MCRegexps, invert : MCRegexps]

\* compare: two files and a directory with a third one.
MCWalkOrder == <<<<>>, <<"f">>, <<"g">>, <<"g", "h">>>>
MCTree(f, g) == (<<>> :> Directory) @@ f @@ g
MCFiles == {<<>>} \cup {(<<"f">> :> File(s)) : s \in {<<1>>, <<1, 0>>, <<1, 0, 1>>, <<1, 0, 2>>}}
MCDirs == {<<>>, <<"g">> :> File(<<1>>), <<"g">> :> Directory,
           (<<"g">> :> Directory) @@ (<<"g", "h">> :> File(<<1>>)),
           (<<"g">> :> Directory) @@ (<<"g", "h">> :> File(<<2>>))}
MCTrees == {MCTree(f, g) : f \in MCFiles, g \in MCDirs}
MCSourceTrees == MCTrees
MCDestTrees == MCTrees \cup {<<>>}
MCCopyTrees == {<<>>, MCTree(<<>>, <<>>), MCTree(<<"f">> :> File(<<2>>), <<>>),
                MCTree(<<"f">> :> Directory, <<"g">> :> Directory)}
MCCompareOptions ==
    [given : {TRUE}, copyto : {"", "c", "d", "s"}, verbose : {TRUE}, root : {FALSE}]
    \cup [given : {TRUE}, copyto : {"c"}, verbose : {FALSE}, root : {TRUE}]
    \cup [given : {FALSE}, copyto : {""}, verbose : {TRUE}, root : {FALSE}]

MCCopyTo(place) ==
    [given : {TRUE}, copyto : {place}, verbose : {TRUE}, root : {FALSE}]
MCCopyToSource == MCCopyTo("s")
MCCopyToDiff == MCCopyTo("c")

\* mail: a line of two bytes, one temporary file from four bytes on.
MCMailFiles ==
    {("t" :> File(<<5>>)) @@ ("a" :> File(a)) @@ ("b" :> File(<<6, 7, 8>>)) :
        a \in {<<>>, <<1>>, <<1, 2>>, <<1, 2, 3>>}} \cup {<<>>}
MCMailOptions ==
    [complete : {TRUE}, Content : {<<>>, <<9>>}, ContentPath : {"", "t"},
     Attachments : {<<>>, <<"a">>, <<"a", "b">>}, To : {<<"m1", "m2">>}]
    \cup [complete : {FALSE}, Content : {<<>>}, ContentPath : {""}, Attachments : {<<>>},
          To : {<<"m1">>}]

\* ftp.
MCFtpContents == {<<>>, <<1>>}
MCFtpOptions == [given : BOOLEAN, Download : BOOLEAN]
MCFtpUploads == [given : {TRUE}, Download : {FALSE}]
=============================================================================
