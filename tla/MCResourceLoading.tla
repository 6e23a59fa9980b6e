-------------------------- MODULE MCResourceLoading --------------------------
(* ResourceLoading on a few loaders and hosts. *)
EXTENDS ResourceLoading, TLC

\* Loaders are alike, and so are the http hosts.
Symmetry == Permutations(Loaders) \cup Permutations(Hosts)
=============================================================================
