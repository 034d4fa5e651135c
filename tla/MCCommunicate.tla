---------------------------- MODULE MCCommunicate ----------------------------
(***************************************************************************)
(* Small instances of Communicate for TLC.                                 *)
(***************************************************************************)
EXTENDS Communicate

CONSTANTS p1, p2, main, f1, f2

BothPiped == Streams

FailingOut == Procs \X {"out"}

=============================================================================
