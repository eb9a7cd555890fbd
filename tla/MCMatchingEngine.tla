-------------------------- MODULE MCMatchingEngine --------------------------
(* Instances of MatchingEngine for TLC. *)
EXTENDS MatchingEngine, TLC

(* Orders, users and client threads are interchangeable. *)
Symmetry ==
  Permutations(OrderIds) \cup Permutations(Users) \cup Permutations(Clients)
=============================================================================
