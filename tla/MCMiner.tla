------------------------------ MODULE MCMiner ------------------------------
(* Instances of Miner for TLC. *)
EXTENDS Miner, TLC

\* Threads are interchangeable.
Symmetry == Permutations(Threads)
=============================================================================
