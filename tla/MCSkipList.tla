----------------------------- MODULE MCSkipList -----------------------------
(* SkipList on small instances: node cells are interchangeable, and values. *)
EXTENDS SkipList, TLC

Symmetry == Permutations(Nodes) \cup Permutations(Values)
=============================================================================
