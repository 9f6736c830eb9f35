--------------------------- MODULE IndyRegistrar ---------------------------
(***************************************************************************)
(* Creation of did:indy DIDs: POST /did/indy/new-did, which makes a key    *)
(* and has the driver publish its nym, and POST /did/indy/from-nym, which  *)
(* gives a DID the wallet already has a did:indy form and a DID document   *)
(* (routes.py, registrar.py).                                              *)
(*                                                                         *)
(* Both are sequences of awaited calls on three parties that fail on their *)
(* own: the wallet (every write is committed at once, sessions being no    *)
(* transactions), the driver and the ledger.  A call to the ledger may be  *)
(* lost, rejected, or take effect after its caller has given up or died.   *)
(***************************************************************************)

CONSTANTS
  Requests,    \* calls of the two routes, each handled once, for one wallet
  Namespaces,  \* the ledgers
  HomeLedger,  \* the ledger ACA-Py's own ledger connection (BaseLedger) is on
  LocalNyms,   \* DIDs the wallet had before
  PostedNyms,  \* those of them that are on the home ledger
  PublicNym,   \* the wallet's public DID, or None
  None

ASSUME ConstantsAssumption ==
  /\ HomeLedger \in Namespaces
  /\ PostedNyms \subseteq LocalNyms
  /\ PublicNym \in LocalNyms \cup {None}
  /\ None \notin Namespaces \cup LocalNyms

VARIABLES
  kids,    \* the wallet's keys: pairs of a key and its kid
  dids,    \* the did:indy DIDs stored in the wallet
  ledger,  \* ledger[n][nym]: the nym's entry on ledger n
  pc,      \* pc[r]: the call the handler of r makes next or waits for
  req,     \* req[r]: the arguments of r
  call     \* call[r]: r's transaction on its way to the ledger

vars == <<kids, dids, ledger, pc, req, call>>

-----------------------------------------------------------------------------
(* Data.  A key is named for who made it and what for; a nym derived from a *)
(* key (nym_from_verkey) is named by the key.                               *)

VerKey(r) == <<r, "verkey">>
AssertKey(r) == <<r, "assert">>
OwnKey(l) == <<l, "own">>

Keys == {VerKey(r) : r \in Requests} \cup {AssertKey(r) : r \in Requests}
          \cup {OwnKey(l) : l \in LocalNyms}
Nyms == {VerKey(r) : r \in Requests} \cup LocalNyms
Dids == Namespaces \X Nyms

\* f"{did}#{fragment}"
Kid(did, fragment) == <<did, fragment>>

\* A nym derived from a fresh key is no DID the wallet had before.
ASSUME FreshAssumption ==
  /\ \A r \in Requests : VerKey(r) \notin LocalNyms
  /\ None \notin Keys
  /\ None \notin {Kid(d, f) : d \in Dids, f \in {"verkey", "assert"}}

Kids == {Kid(d, f) : d \in Dids, f \in {"verkey", "assert"}}

\* What of a DID document's content the properties tell apart.
Docs == [did: Dids, assert: Keys \cup {None}]
Entry == [verkey: Keys, doc: Docs \cup {None}, attrib: Docs \cup {None}]
Request == [kind: {"new", "from"}, namespace: Namespaces,
            nym: LocalNyms \cup {None}, ldp_vc: BOOLEAN]

\* None is no request, no ledger entry and no document.
ASSUME NoneAssumption == None \notin Request \cup Entry \cup Docs

\* "If nym is not provided, current public did is used."
LocalNym(r) == IF req[r].nym = None THEN PublicNym ELSE req[r].nym

Nym(r) == IF req[r].kind = "new" THEN VerKey(r) ELSE LocalNym(r)
Did(r) == <<req[r].namespace, Nym(r)>>

\* A slip the code once had room for ("# verkey = key.verkey"): the DID's
\* verkey is the assertion key, as from_public_nym has it.
VerkeyIsAssertKey(r) == IF req[r].ldp_vc THEN AssertKey(r) ELSE VerKey(r)

\* The verkey a new nym is published and stored with.
NewVerkey(r) == VerKey(r)

\* The verkey the DID is stored with.
Verkey(r) ==
  IF req[r].kind = "new" THEN NewVerkey(r)
  ELSE IF req[r].ldp_vc THEN AssertKey(r) ELSE OwnKey(LocalNym(r))

\* A slip: the assertion method is made of the kid, not of the key.
DocContentOfKid(r) ==
  [did |-> Did(r), assert |-> IF req[r].ldp_vc THEN Kid(Did(r), "assert") ELSE None]

DocContent(r) ==
  [did |-> Did(r), assert |-> IF req[r].ldp_vc THEN AssertKey(r) ELSE None]

\* Where the DID document is published: the driver knows the namespace, the
\* agent's own ledger connection does not.
Target(r) == IF req[r].kind = "new" THEN req[r].namespace ELSE HomeLedger

Live == {"key", "kid", "lookup", "assert", "services", "taa", "store", "open",
         "nym", "attrib"}
Finished == {"ok", "e400", "e404", "e500", "lost"}
OnItsWay == {"nym", "attrib"}

-----------------------------------------------------------------------------
Init ==
  /\ kids = {<<OwnKey(l), None>> : l \in LocalNyms}
  /\ dids = {}
  /\ ledger = [n \in Namespaces |-> [x \in Nyms |->
       IF n = HomeLedger /\ x \in PostedNyms
         THEN [verkey |-> OwnKey(x), doc |-> None, attrib |-> None]
         ELSE None]]
  /\ pc = [r \in Requests |-> "idle"]
  /\ req = [r \in Requests |-> None]
  /\ call = [r \in Requests |-> "none"]

Goto(r, label) == pc' = [pc EXCEPT ![r] = label]
Sends(r, txn) == call' = [call EXCEPT ![r] = txn]

\* mediation_id without didcomm, or an unknown mediation_id.
Refuse(r) ==
  /\ pc[r] = "idle"
  /\ \E answer \in {"e400", "e404"} : Goto(r, answer)
  /\ UNCHANGED <<kids, dids, ledger, req, call>>

Receive(r) ==
  /\ pc[r] = "idle"
  /\ \E a \in Request :
       /\ a.kind = "new" => a.nym = None
       /\ req' = [req EXCEPT ![r] = a]
       /\ Goto(r, IF a.kind = "new" THEN "key" ELSE "lookup")
  /\ UNCHANGED <<kids, dids, ledger, call>>

\* Any awaited call may raise, or be cut by its timeout: the route's except
\* clause answers 500 and nothing that was done is undone.
Fails(r) ==
  /\ pc[r] \in Live
  /\ Goto(r, "e500")
  /\ UNCHANGED <<kids, dids, ledger, req, call>>

-----------------------------------------------------------------------------
(* The wallet                                                              *)

CreateKey(r) ==
  /\ pc[r] = "key"
  /\ kids' = kids \cup {<<VerKey(r), None>>}
  /\ Goto(r, "kid")
  /\ UNCHANGED <<dids, ledger, req, call>>

AfterKeys(r) == Goto(r, IF req[r].ldp_vc THEN "assert" ELSE "services")

\* A slip: the key is left under its verkey only.
KidNotAssigned(r) ==
  /\ pc[r] = "kid"
  /\ AfterKeys(r)
  /\ UNCHANGED <<kids, dids, ledger, req, call>>

AssignKid(r) ==
  /\ pc[r] = "kid"
  /\ kids' = (kids \ {<<VerKey(r), None>>})
               \cup {<<VerKey(r), Kid(Did(r), "verkey")>>}
  /\ AfterKeys(r)
  /\ UNCHANGED <<dids, ledger, req, call>>

\* wallet.get_local_did / get_public_did; without a public DID this is an error.
LookUpDid(r) ==
  /\ pc[r] = "lookup"
  /\ IF LocalNym(r) = None THEN Goto(r, "e500") ELSE AfterKeys(r)
  /\ UNCHANGED <<kids, dids, ledger, req, call>>

\* A slip: the assertion key is created without its kid.
AssertKeyWithoutKid(r) ==
  /\ pc[r] = "assert"
  /\ kids' = kids \cup {<<AssertKey(r), None>>}
  /\ Goto(r, "services")
  /\ UNCHANGED <<dids, ledger, req, call>>

\* The wallet does not ask whether another key has this kid.
CreateAssertKey(r) ==
  /\ pc[r] = "assert"
  /\ kids' = kids \cup {<<AssertKey(r), Kid(Did(r), "assert")>>}
  /\ Goto(r, "services")
  /\ UNCHANGED <<dids, ledger, req, call>>

\* prepare_didcomm_services only reads (nothing at all without didcomm).
PrepareServices(r) ==
  /\ pc[r] = "services"
  /\ Goto(r, IF req[r].kind = "new" THEN "taa" ELSE "store")
  /\ UNCHANGED <<kids, dids, ledger, req, call>>

Known(did) == \E d \in dids : d.did = did

\* A slip: a DID that the wallet has is replaced.
StoreDidAgain(r) ==
  /\ pc[r] = "store"
  /\ dids' = {d \in dids : d.did # Did(r)}
               \cup {[did |-> Did(r), verkey |-> Verkey(r)]}
  /\ Goto(r, IF req[r].kind = "new" THEN "ok" ELSE "open")
  /\ UNCHANGED <<kids, ledger, req, call>>

\* store_did raises WalletDuplicateError when the wallet has the DID.
StoreDid(r) ==
  /\ pc[r] = "store"
  /\ \/ /\ ~Known(Did(r))
        /\ dids' = dids \cup {[did |-> Did(r), verkey |-> Verkey(r)]}
        /\ Goto(r, IF req[r].kind = "new" THEN "ok" ELSE "open")
     \/ /\ Known(Did(r))
        /\ Goto(r, "e500")
        /\ UNCHANGED dids
  /\ UNCHANGED <<kids, ledger, req, call>>

-----------------------------------------------------------------------------
(* The ledger                                                              *)

\* The transaction leaves: to the driver once the acceptance is at hand, or,
\* once the ledger connection is open, to the agent's own ledger.
SubmitNym(r) ==
  /\ pc[r] \in {"taa", "open"}
  /\ Sends(r, "nym")
  /\ Goto(r, "nym")
  /\ UNCHANGED <<kids, dids, ledger, req>>

\* The ledger executes r's transaction, whether or not its handler still waits.
\* A new nym must be new; the agent's own ledger must know the nym, which
\* signs for itself.
LedgerExecutes(r) ==
  LET n == Target(r)
      entry == ledger[n][Nym(r)]
      becomes(e) == ledger' = [ledger EXCEPT ![n][Nym(r)] = e]
  IN  /\ call[r] \in OnItsWay
      /\ \/ /\ call[r] = "nym"
            /\ req[r].kind = "new"
            /\ entry = None
            /\ becomes([verkey |-> Verkey(r), doc |-> DocContent(r),
                        attrib |-> None])
         \/ /\ call[r] = "nym"
            /\ req[r].kind = "from"
            /\ entry # None
            /\ becomes([entry EXCEPT !.doc = DocContent(r)])
         \/ /\ call[r] = "attrib"
            /\ entry # None
            /\ becomes([entry EXCEPT !.attrib = DocContent(r)])
      /\ Sends(r, "done")
      /\ UNCHANGED <<kids, dids, pc, req>>

\* It is lost on its way or rejected.
LedgerDrops(r) ==
  /\ call[r] \in OnItsWay
  /\ Sends(r, "dropped")
  /\ UNCHANGED <<kids, dids, ledger, pc, req>>

\* A slip: the first transaction's answer is not awaited.
NymNotAwaited(r) ==
  /\ pc[r] = "nym"
  /\ Goto(r, IF req[r].kind = "new" THEN "store" ELSE "attrib")
  /\ IF req[r].kind = "new" THEN UNCHANGED call ELSE Sends(r, "attrib")
  /\ UNCHANGED <<kids, dids, ledger, req>>

\* The answer to the NYM arrives: a new DID is stored, a document goes out
\* again as an ATTRIB.
NymAnswered(r) ==
  /\ pc[r] = "nym"
  /\ call[r] = "done"
  /\ Goto(r, IF req[r].kind = "new" THEN "store" ELSE "attrib")
  /\ IF req[r].kind = "new" THEN UNCHANGED call ELSE Sends(r, "attrib")
  /\ UNCHANGED <<kids, dids, ledger, req>>

AttribAnswered(r) ==
  /\ pc[r] = "attrib"
  /\ call[r] = "done"
  /\ Goto(r, "ok")
  /\ UNCHANGED <<kids, dids, ledger, req, call>>

-----------------------------------------------------------------------------
\* The agent stops and starts again: handlers go, transactions go on.
Restart ==
  /\ pc' = [r \in Requests |-> IF pc[r] \in Live THEN "lost" ELSE pc[r]]
  /\ UNCHANGED <<kids, dids, ledger, req, call>>

Handle(r) ==
  \/ Refuse(r)
  \/ Receive(r)
  \/ Fails(r)
  \/ CreateKey(r)
  \/ AssignKid(r)
  \/ LookUpDid(r)
  \/ CreateAssertKey(r)
  \/ PrepareServices(r)
  \/ StoreDid(r)
  \/ SubmitNym(r)
  \/ NymAnswered(r)
  \/ AttribAnswered(r)

Next ==
  \/ \E r \in Requests : Handle(r) \/ LedgerExecutes(r) \/ LedgerDrops(r)
  \/ Restart

Spec == Init /\ [][Next]_vars

-----------------------------------------------------------------------------
(* Properties                                                              *)

\* Type invariant of the wallet, the ledgers and the handlers.
TypeOK ==
  /\ kids \subseteq Keys \X (Kids \cup {None})
  /\ dids \subseteq [did: Dids, verkey: Keys]
  /\ ledger \in [Namespaces -> [Nyms -> Entry \cup {None}]]
  /\ pc \in [Requests -> {"idle"} \cup Live \cup Finished]
  /\ req \in [Requests -> Request \cup {None}]
  /\ call \in [Requests -> {"none", "nym", "attrib", "done", "dropped"}]

\* The keys get_key_by_kid finds for the DID's signer.
Signers(did) == {k \in Keys : <<k, Kid(did, "verkey")>> \in kids}

\* Whenever a new nym is on a ledger, even by a transaction executed after its
\* caller timed out or the agent crashed, the wallet has the key that controls
\* it, under the kid by which authors look it up (create_new_nym makes and
\* names the key before it publishes).
PublishedNymHasKey ==
  \A n \in Namespaces, r \in Requests :
    ledger[n][VerKey(r)] # None =>
      Signers(<<n, VerKey(r)>>) = {ledger[n][VerKey(r)].verkey}

\* A new DID is stored only once it is on the ledger, with the verkey the
\* ledger has and the one key by which get_signer signs.
NewDidSigns ==
  \A d \in dids : d.did[2] \notin LocalNyms =>
    /\ ledger[d.did[1]][d.did[2]] # None
    /\ ledger[d.did[1]][d.did[2]].verkey = d.verkey
    /\ Signers(d.did) = {d.verkey}

\* Whichever of several requests for one nym wins, the document on the ledger
\* belongs to a stored DID, and an assertion method in it is a key of this
\* wallet, under its kid, and the verkey the DID is stored with
\* (from_public_nym stores before it publishes).
PublishedDocIsOurs ==
  \A l \in LocalNyms :
    LET entry == ledger[HomeLedger][l]
    IN  entry # None =>
          \A doc \in {entry.doc, entry.attrib} \ {None} :
            /\ Known(doc.did)
            /\ doc.assert # None =>
                 /\ [did |-> doc.did, verkey |-> doc.assert] \in dids
                 /\ <<doc.assert, Kid(doc.did, "assert")>> \in kids

\* A 200 means that the DID is stored and that its nym's ledger entry has a
\* document, both by NYM and, for from-nym, by ATTRIB.
OkMeansDone ==
  \A r \in Requests : pc[r] = "ok" =>
    /\ [did |-> Did(r), verkey |-> Verkey(r)] \in dids
    /\ ledger[Target(r)][Nym(r)] # None
    /\ ledger[Target(r)][Nym(r)].doc # None
    /\ req[r].kind = "from" => ledger[Target(r)][Nym(r)].attrib # None

\* The document is published twice, as NYM and as ATTRIB, by two transactions
\* with an await between them.  They show the same content, however requests
\* for one nym interleave, fail and are retried, as long as the wallet has that
\* nym under one namespace only: store_did lets one request per DID through.
AttribAgrees ==
  \A l \in LocalNyms :
    LET entry == ledger[HomeLedger][l]
    IN  entry # None /\ entry.attrib \notin {None, entry.doc} =>
          \E d, e \in dids : d.did[2] = l /\ e.did[2] = l /\ d.did # e.did

\* The DID is stored, its document is not what the ledger shows, and nothing
\* that works for it is under way.
Stranded(did) ==
  /\ Known(did)
  /\ did[2] \in PostedNyms
  /\ \A doc \in {ledger[HomeLedger][did[2]].doc,
                 ledger[HomeLedger][did[2]].attrib} :
       doc = None \/ doc.did # did
  /\ \A r \in Requests :
       req[r] # None /\ Did(r) = did =>
         pc[r] \notin {"open", "nym", "attrib"} /\ call[r] \notin OnItsWay

\* There is no way back: once from-nym has failed between storing a DID and
\* publishing its document, no retry ever publishes it, because every retry
\* stops at the stored DID.
StrandedForever ==
  [][\A did \in Dids : Stranded(did) => Stranded(did)']_vars

\* Whatever requests race, fail, time out and are retried, wallet and ledgers
\* change only as DidRegister has it: key, nym and DID of a new nym, DID and
\* document of an old one, each in that order, and nothing but an old nym's
\* document is ever replaced (create_new_nym, from_public_nym, the routes).
Promised == INSTANCE DidRegister WITH
  OldNyms <- LocalNyms,
  named <- {p \in kids : p[2] # None},
  stored <- dids

RegisterSpec == Promised!Spec

-----------------------------------------------------------------------------
(* What the comments and docstrings say and the code does not do           *)

\* author.py: the signer of a DID is always the key {did}#verkey, because of
\* how the key is stored on creation.
SignerIsAlwaysStored == \A d \in dids : Signers(d.did) # {}

\* routes.py: the namespace is the ledger on which the DID is registered.
RegisteredOnNamedLedger ==
  \A r \in Requests : pc[r] = "ok" => ledger[req[r].namespace][Nym(r)] # None

=============================================================================
