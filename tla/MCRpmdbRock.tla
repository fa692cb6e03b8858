---------------------------- MODULE MCRpmdbRock ----------------------------
(* RpmdbRock for TLC: two databases and two iterators, interchangeable.     *)
EXTENDS RpmdbRock, TLC

Symmetry == Permutations(Dbs) \cup Permutations(Mis)
=============================================================================
