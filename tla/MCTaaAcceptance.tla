-------------------------- MODULE MCTaaAcceptance --------------------------
(* Instances of TaaAcceptance for TLC: one or two ledgers, two tenants.     *)
EXTENDS TaaAcceptance, TLC

MCTestNet == <<"indicio", "test">>
MCDemoNet == <<"indicio", "demo">>

MCParts == {"indicio", "test", "demo", "1", "2"}

MCTwoNamespaces == {MCTestNet, MCDemoNet}
MCOneNamespace == {MCTestNet}

\* Tenants and requests are interchangeable in every safety property.
MCSymmetry == Permutations(Tenants) \cup Permutations(Requests)
=============================================================================
