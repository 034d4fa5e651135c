---------------------------- MODULE MCProcessWait ----------------------------
(***************************************************************************)
(* Small instances of ProcessWait for TLC.                                 *)
(***************************************************************************)
EXTENDS ProcessWait

CONSTANTS p1, p2, p3, main, f1, f2

=============================================================================
