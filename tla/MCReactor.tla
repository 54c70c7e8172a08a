----------------------------- MODULE MCReactor -----------------------------
(* Reactor on small instances: the clients are interchangeable. *)
EXTENDS Reactor, TLC

Symmetry == Permutations(Clients)
=============================================================================
