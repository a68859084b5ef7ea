------------------------- MODULE MCProviderMetadata -------------------------
(* Instances of ProviderMetadata for TLC. *)
EXTENDS ProviderMetadata, TLC

\* For the safety runs: requests and urls are interchangeable.
Symmetry == Permutations(Requests) \union Permutations(Uris)
=============================================================================
