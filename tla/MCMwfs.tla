------------------------------- MODULE MCMwfs -------------------------------
(* Small volumes for Mwfs: versions of one, two and no sectors. *)
EXTENDS Mwfs, TLC

CONSTANTS v1, v2, v3

MCBlocks == [v \in Version |-> CASE v = v1 -> 1 [] v = v2 -> 2 [] OTHER -> 0]

Symmetry == Permutations(Ino) \cup Permutations(Blk) \cup Permutations(Name)
=============================================================================
