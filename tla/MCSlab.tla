------------------------------- MODULE MCSlab -------------------------------
(***************************************************************************)
(* Slab for TLC: the tasks are interchangeable.                            *)
(***************************************************************************)
EXTENDS Slab, TLC

TaskSymmetry == Permutations(Task)
=============================================================================
