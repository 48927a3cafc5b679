----------------------------- MODULE MCDomainPause -----------------------------
(* Instances of DomainPause for TLC. *)
EXTENDS DomainPause, TLC

Symmetry == Permutations(Callers)
===============================================================================
