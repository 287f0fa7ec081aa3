------------------------------ MODULE MCMonitor ------------------------------
(***************************************************************************)
(* Small instances of Monitor.                                             *)
(***************************************************************************)
EXTENDS Monitor

CONSTANTS p1, p2, in, cpu
=============================================================================
