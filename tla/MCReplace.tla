------------------------------ MODULE MCReplace ------------------------------
(***************************************************************************)
(* Small instances of Replace: the files a and b of a directory and, in    *)
(* the working directory, the temporary paths aTmp and bTmp.               *)
(***************************************************************************)
EXTENDS Replace

CONSTANTS a, b, c, aTmp, bTmp

\* The working directory is another one: the temporary paths are not walked.
Elsewhere == <<a, b, c>>
AnySystem == [sameDevice : BOOLEAN, writable : BOOLEAN, space : BOOLEAN]
\* The working directory is on another device.
OtherDevice == {[sameDevice |-> FALSE, writable |-> TRUE, space |-> TRUE]}
ElsewhereTemp == [f \in {a, b, c} |-> IF f = b THEN bTmp ELSE aTmp]
=============================================================================
