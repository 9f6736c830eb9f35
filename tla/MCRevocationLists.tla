------------------------- MODULE MCRevocationLists -------------------------
(* Instances of RevocationLists for TLC: callers of one registry.           *)
EXTENDS RevocationLists, TLC

\* Calls are handled alike, and no index is special.
MCSymmetry == Permutations(Calls) \cup Permutations(Indices)
=============================================================================
