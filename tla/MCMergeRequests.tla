--------------------------- MODULE MCMergeRequests ---------------------------
(* Instances of MergeRequests for TLC.  Clients and repositories are       *)
(* interchangeable; the symmetry is used for safety only.                  *)
EXTENDS MergeRequests, TLC

Symmetry == Permutations(Clients) \cup Permutations(Repos)
===============================================================================
