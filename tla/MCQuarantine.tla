---------------------------- MODULE MCQuarantine ----------------------------
(* Two threads with one report each, again after a stop, and two paths of the same file name. *)
EXTENDS Quarantine, TLC

MCBase == [p \in Paths |-> "name"]
Symmetry == Permutations(Threads) \cup Permutations(Paths)
=============================================================================
