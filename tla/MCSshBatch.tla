----------------------------- MODULE MCSshBatch -----------------------------
(***************************************************************************)
(* Two hosts, one of them listed twice or not.                             *)
(***************************************************************************)
EXTENDS SshBatch

CONSTANTS h1, h2

MCConnLists == {<<h1, h2>>, <<h1>>, <<h1, h2, h1>>}
=============================================================================
