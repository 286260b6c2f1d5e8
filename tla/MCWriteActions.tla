---------------------------- MODULE MCWriteActions ----------------------------
(***************************************************************************)
(* Instances of WriteActions for TLC.                                      *)
(***************************************************************************)
EXTENDS WriteActions, TLC

CONSTANTS r1, r2, r3, r4, a, b

\* Requests and parameters are interchangeable.
Symmetry == Permutations(Request) \cup Permutations(Param)

=============================================================================
