------------------------------ MODULE MCBcache ------------------------------
(* Instances of Bcache for TLC. *)
EXTENDS Bcache, TLC

\* The blocks are interchangeable.
BlockSymmetry == Permutations(Block)
=============================================================================
