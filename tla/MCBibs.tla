------------------------------- MODULE MCBibs -------------------------------
(* Small instances of Bibs for TLC.                                          *)
EXTENDS Bibs, TLC

(* Every document asks for the same key.                                     *)
SameBase == [d \in Docs |-> "knuth1984"]

Symmetry == Permutations(Procs) \cup Permutations(Docs)
=============================================================================
