------------------------- MODULE RevocationRegister -------------------------
(***************************************************************************)
(* What the issuers that share a revocation registry may rely on, in terms *)
(* of its lists alone: it has one list at a time, each list revokes more   *)
(* than the one before, and the change from one to the next is reported to *)
(* at most one caller, after it was made.                                  *)
(***************************************************************************)
EXTENDS Naturals, Sequences

CONSTANTS
  Callers,  \* those who are told that they changed the list
  Indices   \* credential indices of the registry

VARIABLES
  history,  \* the lists there have been, in order
  given,    \* the lists that callers have
  finished  \* the changes that were reported, and to whom

Init ==
  /\ history = << >>
  /\ given = {}
  /\ finished = {}

\* The first list revokes nothing.
Create ==
  /\ history = << >>
  /\ history' = <<{}>>
  /\ UNCHANGED <<given, finished>>

\* Indices that are not revoked become so, and the others stay revoked.
Revoke(batch) ==
  /\ history # << >>
  /\ batch # {}
  /\ batch \cap history[Len(history)] = {}
  /\ history' = Append(history, history[Len(history)] \cup batch)
  /\ UNCHANGED <<given, finished>>

\* A caller gets a list that the registry has or had.
Give(i) ==
  /\ given' = given \cup {history[i]}
  /\ UNCHANGED <<history, finished>>

\* A caller is told that its change was made, as nobody was before, and has the
\* list it led to.
Report(c, i) ==
  /\ \A u \in finished : u.caller # c /\ u.prev # history[i]
  /\ finished' = finished \cup
                   {[caller |-> c, prev |-> history[i], curr |-> history[i + 1]]}
  /\ given' = given \cup {history[i + 1]}
  /\ UNCHANGED history

Next ==
  \/ Create
  \/ \E batch \in SUBSET Indices : Revoke(batch)
  \/ \E i \in 1..Len(history) : Give(i)
  \/ \E c \in Callers, i \in 1..(Len(history) - 1) : Report(c, i)

Spec == Init /\ [][Next]_<<history, given, finished>>

=============================================================================
