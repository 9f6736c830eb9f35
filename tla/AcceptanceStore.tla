-------------------------- MODULE AcceptanceStore --------------------------
(* What the wallets promise about agreements: a tenant's wallet maps each   *)
(* agreement to the tenant's acceptance of that agreement, if there is one. *)
(* Acceptances are put one at a time and never lost.                        *)

CONSTANTS
  Tenants,      \* the wallets
  Agreements,   \* the agreements, by their digest
  None          \* not accepted

VARIABLE accepted  \* accepted[t][a]: tenant t's acceptance of agreement a

Init == accepted = [t \in Tenants |-> [a \in Agreements |-> None]]

\* One tenant accepts one agreement, perhaps again; nothing else changes.
Put(t, a) ==
  /\ accepted'[t][a] # None
  /\ accepted'[t][a].digest = a
  /\ accepted' = [accepted EXCEPT ![t][a] = accepted'[t][a]]

Next == \E t \in Tenants, a \in Agreements : Put(t, a)

Spec == Init /\ [][Next]_accepted

=============================================================================
