---------------------------- MODULE MCCompaction ----------------------------
(***************************************************************************)
(* Instances of Compaction for TLC.                                        *)
(***************************************************************************)
EXTENDS Compaction, TLC

CONSTANTS t1, t2, t3

\* Turns are interchangeable.
Symmetry == Permutations(Turn)

=============================================================================
