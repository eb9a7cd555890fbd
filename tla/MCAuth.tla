------------------------------- MODULE MCAuth -------------------------------
(* Instances of AuthSession for TLC. *)
EXTENDS AuthSession, TLC

Symmetry == Permutations(Requests) \cup Permutations(Ips)
=============================================================================
