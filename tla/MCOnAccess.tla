----------------------------- MODULE MCOnAccess -----------------------------
(* Instances of OnAccess for TLC.                                          *)
EXTENDS OnAccess, TLC

\* Requests are interchangeable.
Symmetry == Permutations(Requests)
=============================================================================
