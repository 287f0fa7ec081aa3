------------------------------- MODULE MCNet -------------------------------
(***************************************************************************)
(* A small instance of Net: two hosts, or one listed twice.                *)
(***************************************************************************)
EXTENDS Net

CONSTANTS h1, h2

MCLists == {<<h1, h2>>, <<h1, h1>>}
=============================================================================
