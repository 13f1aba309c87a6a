------------------------------ MODULE MCSched ------------------------------
(***************************************************************************)
(* Instances of Sched for TLC.  The pages that start out free are alike,   *)
(* so permuting them is a symmetry of the specification.                   *)
(***************************************************************************)
EXTENDS Sched, TLC

FreePageSymmetry == Permutations(Task \ {Idle, InitTask})

\* A task that sleeps on pagesem is woken (SleeperWoken), in every run of the
\* kernel in which no task exits: one that does may fail a BUG_ON of flush_delq.
SleeperWokenIfNoneExits == [](\A t \in Task : state[t] # "ZOMBIE") => SleeperWoken
=============================================================================
