-------------------------- MODULE MCIndyRegistrar --------------------------
(* Instances of IndyRegistrar for TLC: a wallet with a posted public DID    *)
(* and one that is on no ledger.                                            *)
EXTENDS IndyRegistrar, TLC

\* Requests are handled alike.
MCSymmetry == Permutations(Requests)
=============================================================================
