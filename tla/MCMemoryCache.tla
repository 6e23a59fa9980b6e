---------------------------- MODULE MCMemoryCache ----------------------------
(* MemoryCache on a few resources and documents. *)
EXTENDS MemoryCache, TLC

\* Resources, documents and clients are alike.
Symmetry == Permutations(Resources) \cup Permutations(Documents) \cup Permutations(Clients)
=============================================================================
