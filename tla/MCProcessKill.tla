---------------------------- MODULE MCProcessKill ----------------------------
(***************************************************************************)
(* Small instances of ProcessKill for TLC.                                 *)
(***************************************************************************)
EXTENDS ProcessKill, TLC

CONSTANTS p1, main, f1, f2

\* Fibers are interchangeable.
Symmetry == Permutations(Fibers)

=============================================================================
