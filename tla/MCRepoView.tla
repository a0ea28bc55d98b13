----------------------------- MODULE MCRepoView -----------------------------
(* Instances of RepoView for TLC.  Clients are interchangeable. *)
EXTENDS RepoView, TLC

Symmetry == Permutations(Clients)
===============================================================================
