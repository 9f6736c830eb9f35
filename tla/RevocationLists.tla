-------------------------- MODULE RevocationLists --------------------------
(***************************************************************************)
(* The revocation lists of one revocation registry (registry.py): issuers  *)
(* register the first list, fetch the lists the ledger had, and publish    *)
(* updates that each take one list to the next.  The registry keeps no     *)
(* list and takes no lock: whether an update still fits the ledger's list  *)
(* shows only when the ledger gets it, and its caller may be gone by then. *)
(***************************************************************************)
EXTENDS Naturals, Sequences

CONSTANTS
  Calls,    \* calls of the registry, each handled once
  Indices,  \* credential indices of the registry
  None

\* An accumulator stands for the indices it revokes.
Lists == SUBSET Indices

VARIABLES
  ledger,  \* the entries the ledger has executed, in order
  known,   \* lists the registry has returned: what updates start from
  pc,      \* pc[c]: where call c stands
  req,     \* req[c]: the arguments of c
  entry,   \* entry[c]: the transaction made for c
  txn      \* txn[c]: how far that transaction is

vars == <<ledger, known, pc, req, entry, txn>>

\* An entry as it stands on the ledger: its accumulator, and the indices that
\* the entries so far have named as revoked.
LedgerList == [accum: Lists, revoked: Lists]

\* What an entry transaction carries.
Entry == [kind: {"register", "update"}, prevAccum: Lists, accum: Lists,
          revoked: Lists]

\* The arguments of a call; only those of "update" carry lists.
Request == [kind: {"register", "update", "get"}, prev: Lists, batch: Lists]

\* None is neither an entry nor a request.
ASSUME NoneAssumption == None \notin Entry \cup Request

-----------------------------------------------------------------------------
Init ==
  /\ ledger = << >>
  /\ known = {}
  /\ pc = [c \in Calls |-> "idle"]
  /\ req = [c \in Calls |-> None]
  /\ entry = [c \in Calls |-> None]
  /\ txn = [c \in Calls |-> "none"]

Goto(c, label) == pc' = [pc EXCEPT ![c] = label]

Arguments(c, kind, prev, batch) ==
  req' = [req EXCEPT ![c] = [kind |-> kind, prev |-> prev, batch |-> batch]]

\* register_revocation_list is called with a list that revokes nothing.
RegisterRevocationList(c) ==
  /\ pc[c] = "idle"
  /\ Arguments(c, "register", {}, {})
  /\ Goto(c, "author")
  /\ UNCHANGED <<ledger, known, entry, txn>>

\* update_revocation_list is called with a list its caller was given at some
\* time, that list with more indices revoked, and those indices.
UpdateRevocationList(c) ==
  /\ pc[c] = "idle"
  /\ \E prev \in known : \E batch \in (SUBSET (Indices \ prev)) \ {{}} :
       Arguments(c, "update", prev, batch)
  /\ Goto(c, "author")
  /\ UNCHANGED <<ledger, known, entry, txn>>

\* get_revocation_list: the list at whichever time the caller asks for.
GetRevocationList(c) ==
  /\ pc[c] = "idle"
  /\ \E i \in 1..Len(ledger) : known' = known \cup {ledger[i].revoked}
  /\ Arguments(c, "get", {}, {})
  /\ Goto(c, "ok")
  /\ UNCHANGED <<ledger, entry, txn>>

Curr(c) == req[c].prev \cup req[c].batch

\* A slip: the list to start from is looked up when the update is sent.
EntryOfLatest(c) ==
  [kind      |-> req[c].kind,
   prevAccum |-> IF ledger = << >> THEN {} ELSE ledger[Len(ledger)].accum,
   accum     |-> Curr(c),
   revoked   |-> req[c].batch]

\* A slip: the indices of the previous list are sent as the newly revoked ones.
EntryOfPrev(c) ==
  [kind      |-> req[c].kind,
   prevAccum |-> req[c].prev,
   accum     |-> Curr(c),
   revoked   |-> req[c].prev]

\* A slip: the newly revoked indices are not handed over.
EntryWithoutRevoked(c) ==
  [kind |-> req[c].kind, prevAccum |-> req[c].prev, accum |-> Curr(c)]

\* The transaction the author makes of prev_list, curr_list and revoked.
EntryOf(c) ==
  [kind      |-> req[c].kind,
   prevAccum |-> req[c].prev,
   accum     |-> Curr(c),
   revoked   |-> req[c].batch]

\* The author has its signer and the TAA, and hands the entry to the driver.
Submit(c) ==
  /\ pc[c] = "author"
  /\ entry' = [entry EXCEPT ![c] = EntryOf(c)]
  /\ txn' = [txn EXCEPT ![c] = "sent"]
  /\ Goto(c, "sent")
  /\ UNCHANGED <<ledger, known, req>>

\* The first list is registered once; an update follows the accumulator there is.
Fits(e) ==
  \/ e.kind = "register" /\ ledger = << >>
  \/ /\ e.kind = "update"
     /\ ledger # << >>
     /\ e.prevAccum = ledger[Len(ledger)].accum

RevokedSoFar == IF ledger = << >> THEN {} ELSE ledger[Len(ledger)].revoked

\* The ledger executes an entry that fits, whether or not its caller still
\* waits.
LedgerExecutes(c) ==
  /\ txn[c] = "sent"
  /\ Fits(entry[c])
  /\ ledger' = Append(ledger, [accum   |-> entry[c].accum,
                               revoked |-> RevokedSoFar \cup entry[c].revoked])
  /\ txn' = [txn EXCEPT ![c] = "executed"]
  /\ UNCHANGED <<known, pc, req, entry>>

\* The entry is refused, or lost on its way.
LedgerDrops(c) ==
  /\ txn[c] = "sent"
  /\ txn' = [txn EXCEPT ![c] = "dropped"]
  /\ UNCHANGED <<ledger, known, pc, req, entry>>

\* A slip: the result is made while the author's call is under way.
ReturnAtOnce(c) ==
  /\ pc[c] = "sent"
  /\ known' = known \cup {Curr(c)}
  /\ Goto(c, "ok")
  /\ UNCHANGED <<ledger, req, entry, txn>>

\* The driver's answer arrives: the state is "finished", and the list of the
\* result is the caller's own.
ReturnResult(c) ==
  /\ pc[c] = "sent"
  /\ txn[c] = "executed"
  /\ known' = known \cup {Curr(c)}
  /\ Goto(c, "ok")
  /\ UNCHANGED <<ledger, req, entry, txn>>

\* The call raises: a signer that is not found, a refused entry, a timeout, a
\* ledger without the list, the end of the process.  What was sent goes on.
Fails(c) ==
  /\ pc[c] \in {"idle", "author", "sent"}
  /\ Goto(c, "raised")
  /\ UNCHANGED <<ledger, known, req, entry, txn>>

Next ==
  \E c \in Calls :
    \/ RegisterRevocationList(c)
    \/ UpdateRevocationList(c)
    \/ GetRevocationList(c)
    \/ Submit(c)
    \/ LedgerExecutes(c)
    \/ LedgerDrops(c)
    \/ ReturnResult(c)
    \/ Fails(c)

Spec == Init /\ [][Next]_vars

-----------------------------------------------------------------------------
(* Properties                                                              *)

\* Type invariant of the ledger, the lists that are known and the calls.
TypeOK ==
  /\ ledger \in Seq(LedgerList)
  /\ known \subseteq Lists
  /\ pc \in [Calls -> {"idle", "author", "sent", "ok", "raised"}]
  /\ req \in [Calls -> Request \cup {None}]
  /\ entry \in [Calls -> Entry \cup {None}]
  /\ txn \in [Calls -> {"none", "sent", "executed", "dropped"}]

\* No update takes a revocation back, although every one replaces the whole
\* accumulator by one computed from a list its caller was given before others
\* updated it (update_revocation_list hands over prev_list as it got it).
NothingIsUndone ==
  \A i, j \in 1..Len(ledger) : i <= j => ledger[i].accum \subseteq ledger[j].accum

\* What verifiers compute from the entries agrees with the accumulator that
\* holders prove against, after every sequence of updates, late ones included
\* (the revoked indices are those that make curr_list of prev_list).
AccumulatorFits == \A i \in 1..Len(ledger) : ledger[i].accum = ledger[i].revoked

\* A revocation that was answered as finished is on the ledger for good.
FinishedIsRevoked ==
  \A c \in Calls : pc[c] = "ok" /\ req[c].kind = "update" =>
    /\ ledger # << >>
    /\ req[c].batch \subseteq ledger[Len(ledger)].revoked

\* Of several updates that start from the same list, all but one are refused:
\* no issuer is told "finished" for an update another one has overtaken.
OneUpdateOfAList ==
  \A c, d \in Calls :
    /\ pc[c] = "ok" /\ req[c].kind = "update"
    /\ pc[d] = "ok" /\ req[d].kind = "update"
    /\ req[c].prev = req[d].prev
    => c = d

\* Whatever a caller goes on from, be it a result or a fetched list, is a list
\* the ledger has had, so that a fetched current list can always be updated.  It is
\* part of what RegisterSpec says below.
KnownIsOnLedger == \A list \in known : \E i \in 1..Len(ledger) : ledger[i].accum = list

-----------------------------------------------------------------------------
(* The abstract specification                                              *)

History == [i \in 1..Len(ledger) |-> ledger[i].accum]

Reported ==
  {[caller |-> c, prev |-> req[c].prev, curr |-> Curr(c)] :
     c \in {d \in Calls : pc[d] = "ok" /\ req[d].kind = "update"}}

\* Calls that keep no list, take no lock and learn of conflicts only from the
\* ledger's answer still give their callers the register of RevocationRegister.
Register == INSTANCE RevocationRegister WITH
  Callers  <- Calls,
  history  <- History,
  given    <- known,
  finished <- Reported

RegisterSpec == Register!Spec

=============================================================================
