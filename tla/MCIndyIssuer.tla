---------------------------- MODULE MCIndyIssuer ----------------------------
(* Instances of IndyIssuer for TLC.                                         *)
EXTENDS IndyIssuer, TLC

\* Calls are handled alike, and so are requests.
MCSymmetry == Permutations(Requests) \cup Permutations(Calls)
=============================================================================
