----------------------------- MODULE IndyIssuer -----------------------------
(***************************************************************************)
(* What the DIDs of IndyRegistrar are for: AnonCreds schemas, credential   *)
(* definitions and revocation registry definitions are registered under    *)
(* them and fetched (registry.py), and they are resolved (resolver.py).    *)
(*                                                                         *)
(* Registrar, registry and resolver share no state of their own: they meet *)
(* in the wallet, where the registry's author looks a DID's key up by its  *)
(* kid whether or not the DID was ever stored, and on the ledgers, where   *)
(* transactions outlive the calls that sent them.                          *)
(***************************************************************************)
EXTENDS IndyRegistrar, Naturals, Sequences

CONSTANTS
  Calls,     \* calls of the registry and the resolver, each handled once
  Tags,      \* names of schemas and tags of definitions
  Foreigner  \* the nym of another agent, which has a schema on every ledger

ASSUME ForeignerAssumption == Foreigner \notin Nyms /\ Tags # {}

VARIABLES
  objects,  \* objects[n]: the AnonCreds transactions on ledger n, by seqNo
  cpc,      \* cpc[c]: where call c stands
  creq,     \* creq[c]: the arguments of c
  txn,      \* txn[c]: how far the transaction made for c is
  result    \* result[c]: what c has returned

cvars == <<objects, cpc, creq, txn, result>>
allvars == <<vars, cvars>>

Kinds == {"schema", "cred_def", "rev_reg_def"}

\* An id spells out its issuer, what it refers to and a name: a credential
\* definition the seqNo of its schema, a registry that of its definition.
Ids == [kind: Kinds, did: Namespaces \X (Nyms \cup {Foreigner}), ref: Nat, tag: Tags]
Id(kind, did, ref, tag) == [kind |-> kind, did |-> did, ref |-> ref, tag |-> tag]

\* key signed it; by is the call it was registered by.
Object == [id: Ids, key: Keys \cup {None}, by: Calls \cup {None}]

\* id: what is registered or fetched; of: the object the caller builds it on;
\* for "resolve" only id.did counts.  key: the author's signer.
CallRequest == [op: {"register", "get", "resolve"}, id: Ids, of: Ids,
                key: Keys \cup {None}]

\* What of a result the caller goes on from.
Result == [id: Ids, seqNo: Nat]

ASSUME NoResultAssumption == None \notin Result \cup CallRequest \cup Calls

ForeignSchema(n) ==
  [id |-> Id("schema", <<n, Foreigner>>, 0, CHOOSE t \in Tags : TRUE),
   key |-> None, by |-> None]

Positions(id) ==
  {i \in 1..Len(objects[id.did[1]]) : objects[id.did[1]][i].id = id}

-----------------------------------------------------------------------------
IssuerInit ==
  /\ Init
  /\ objects = [n \in Namespaces |-> <<ForeignSchema(n)>>]
  /\ cpc = [c \in Calls |-> "idle"]
  /\ creq = [c \in Calls |-> None]
  /\ txn = [c \in Calls |-> "none"]
  /\ result = [c \in Calls |-> None]

Move(c, label) == cpc' = [cpc EXCEPT ![c] = label]

Asks(c, op, id, of) ==
  creq' = [creq EXCEPT ![c] = [op |-> op, id |-> id, of |-> of, key |-> None]]

\* DIDs a caller can name: those the wallet stores, those that are on a ledger.
Nameable == {did \in Dids : Known(did) \/ ledger[did[1]][did[2]] # None}

Begins(c, id, of) ==
  /\ Asks(c, "register", id, of)
  /\ Move(c, "author")
  /\ UNCHANGED <<vars, objects, txn, result>>

RegisterSchema(c) ==
  /\ cpc[c] = "idle"
  /\ \E did \in Nameable, t \in Tags :
       LET id == Id("schema", did, 0, t) IN Begins(c, id, id)

Returned(kind) == {d \in Calls : result[d] # None /\ result[d].id.kind = kind}

\* A slip: transactions are counted from 0.
SeqNoFromZero(d) == result[d].seqNo - 1

\* schema.schema_metadata["seqNo"], where get_schema found the schema.
SchemaSeqNo(d) == result[d].seqNo

\* The schema was fetched some time before, from whichever ledger.
RegisterCredDef(c) ==
  /\ cpc[c] = "idle"
  /\ \E d \in Returned("schema"), did \in Nameable, t \in Tags :
       /\ creq[d].op = "get"
       /\ Begins(c, Id("cred_def", did, SchemaSeqNo(d), t), result[d].id)

\* ACA-Py registers it for the issuer of the definition.
RegisterRevRegDef(c) ==
  /\ cpc[c] = "idle"
  /\ \E d \in Returned("cred_def"), t \in Tags :
       LET of == result[d].id
       IN  Begins(c, Id("rev_reg_def", of.did, of.ref, t), of)

\* A slip: the author signs with the verkey the DID is stored with.
SubmitAsStored(c) ==
  /\ cpc[c] = "author"
  /\ \E d \in dids : d.did = creq[c].id.did /\
       creq' = [creq EXCEPT ![c].key = d.verkey]
  /\ txn' = [txn EXCEPT ![c] = "sent"]
  /\ Move(c, "sent")
  /\ UNCHANGED <<vars, objects, result>>

\* get_signer finds the key by its kid, and raises if there is none; whether
\* the DID is stored is not asked.  The transaction goes to the driver.
Submit(c) ==
  /\ cpc[c] = "author"
  /\ \E k \in Signers(creq[c].id.did) : creq' = [creq EXCEPT ![c].key = k]
  /\ txn' = [txn EXCEPT ![c] = "sent"]
  /\ Move(c, "sent")
  /\ UNCHANGED <<vars, objects, result>>

\* A ledger takes what the issuer's nym signs, if what it refers to is there; a
\* schema can not be replaced, a definition can.
Accepts(c) ==
  LET id == creq[c].id
      there == objects[id.did[1]]
      entry == ledger[id.did[1]][id.did[2]]
  IN  /\ entry # None /\ entry.verkey = creq[c].key
      /\ id.kind = "schema" => Positions(id) = {}
      /\ id.kind = "cred_def" =>
           id.ref \in 1..Len(there) /\ there[id.ref].id.kind = "schema"
      /\ id.kind = "rev_reg_def" => Positions(creq[c].of) # {}

LedgerTakes(c) ==
  LET id == creq[c].id
  IN  /\ txn[c] = "sent"
      /\ Accepts(c)
      /\ objects' = [objects EXCEPT ![id.did[1]] =
                       Append(@, [id |-> id, key |-> creq[c].key, by |-> c])]
      /\ txn' = [txn EXCEPT ![c] = "done"]
      /\ UNCHANGED <<vars, cpc, creq, result>>

LedgerRefuses(c) ==
  /\ txn[c] = "sent"
  /\ txn' = [txn EXCEPT ![c] = "dropped"]
  /\ UNCHANGED <<vars, objects, cpc, creq, result>>

\* A slip: the ledger's part of the answer is left out, as for revocation lists.
AnswersWithoutSeqNo(c, id, i) ==
  /\ result' = [result EXCEPT ![c] = [id |-> id]]
  /\ Move(c, "ok")

Answers(c, id, i) ==
  /\ result' = [result EXCEPT ![c] = [id |-> id, seqNo |-> i]]
  /\ Move(c, "ok")

\* A slip: the result is made while the author's call is under way.
ReturnAtOnce(c) ==
  /\ cpc[c] = "sent"
  /\ Answers(c, creq[c].id, Len(objects[creq[c].id.did[1]]) + 1)
  /\ UNCHANGED <<vars, objects, creq, txn>>

\* The state of the result is "finished".
Return(c) ==
  /\ cpc[c] = "sent" /\ txn[c] = "done"
  /\ \E i \in Positions(creq[c].id) :
       /\ objects[creq[c].id.did[1]][i].by = c
       /\ Answers(c, creq[c].id, i)
  /\ UNCHANGED <<vars, objects, creq, txn>>

\* What can be asked for: an id that a call or a ledger has.
AskedFor ==
  {objects[n][1].id : n \in Namespaces}
    \cup {creq[d].id : d \in {e \in Calls : creq[e] # None /\ creq[e].op = "register"}}

\* get_schema, get_schema_info_by_id, get_credential_definition and
\* get_revocation_registry_definition: the latest transaction of that id, or
\* an IndyRegistryError made of the LedgerTransactionError.
Get(c) ==
  /\ cpc[c] = "idle"
  /\ \E id \in AskedFor :
       /\ Asks(c, "get", id, id)
       /\ \/ /\ Positions(id) = {}
             /\ Move(c, "not_found")
             /\ UNCHANGED result
          \/ \E i \in Positions(id) :
               /\ \A j \in Positions(id) : j <= i
               /\ Answers(c, id, i)
  /\ UNCHANGED <<vars, objects, txn>>

\* IndyResolver._resolve: DIDNotFound if the ledger has no such nym.
Resolve(c) ==
  /\ cpc[c] = "idle"
  /\ \E did \in Nameable, t \in Tags :
       LET id == Id("schema", did, 0, t)
       IN  /\ Asks(c, "resolve", id, id)
           /\ Move(c, IF ledger[did[1]][did[2]] = None THEN "not_found" ELSE "ok")
  /\ UNCHANGED <<vars, objects, txn, result>>

\* The wallet, the driver or a pool raises or does not answer in time: the
\* caller gets the error (a ResolverError of the resolver's), what was sent
\* goes on.
Raises(c) ==
  /\ cpc[c] \in {"idle", "author", "sent"}
  /\ Move(c, "raised")
  /\ UNCHANGED <<vars, objects, creq, txn, result>>

AgentRestart ==
  /\ Restart
  /\ cpc' = [c \in Calls |-> IF cpc[c] \in {"author", "sent"} THEN "lost" ELSE cpc[c]]
  /\ UNCHANGED <<objects, creq, txn, result>>

Serve(c) ==
  \/ RegisterSchema(c)
  \/ RegisterCredDef(c)
  \/ RegisterRevRegDef(c)
  \/ Submit(c)
  \/ LedgerTakes(c)
  \/ LedgerRefuses(c)
  \/ Return(c)
  \/ Get(c)
  \/ Resolve(c)
  \/ Raises(c)

Register(r) == (Handle(r) \/ LedgerExecutes(r) \/ LedgerDrops(r)) /\ UNCHANGED cvars

IssuerNext ==
  \/ \E r \in Requests : Register(r)
  \/ \E c \in Calls : Serve(c)
  \/ AgentRestart

IssuerSpec == IssuerInit /\ [][IssuerNext]_allvars

-----------------------------------------------------------------------------
(* Properties                                                              *)

\* Type invariant of the objects and the calls.
IssuerTypeOK ==
  /\ objects \in [Namespaces -> Seq(Object)]
  /\ cpc \in [Calls -> {"idle", "author", "sent", "ok", "not_found", "raised", "lost"}]
  /\ creq \in [Calls -> CallRequest \cup {None}]
  /\ txn \in [Calls -> {"none", "sent", "done", "dropped"}]
  /\ result \in [Calls -> Result \cup {None}]

\* No ledger has a reason to refuse a signature: what an author sends carries
\* the key that controls its issuer's nym, even if the DID was never stored
\* because create_new_nym timed out or the agent died (author.get_signer).
SentIsSigned ==
  \A c \in Calls : txn[c] = "sent" =>
    LET did == creq[c].id.did
    IN  ledger[did[1]][did[2]] = None \/ ledger[did[1]][did[2]].verkey = creq[c].key

\* Nothing is ever registered under a DID of from_public_nym, however its
\* requests, failures and retries go on: it has no key under {did}#verkey.
OnlyNewNymsIssue ==
  \A n \in Namespaces : \A i \in 1..Len(objects[n]) :
    objects[n][i].id.did[2] \notin LocalNyms

\* A credential definition whose schema is on its own ledger refers to that
\* schema, whatever was registered between the fetch of the schema and the
\* definition's turn (register_credential_definition, schema_seq_no).  For a
\* schema of another ledger this does not hold: only the number is sent.
CredDefOfItsSchema ==
  \A n \in Namespaces : \A i \in 1..Len(objects[n]) :
    LET o == objects[n][i]
    IN  o.id.kind = "cred_def" /\ creq[o.by].of.did[1] = n =>
          objects[n][o.id.ref].id = creq[o.by].of

\* What a call has registered, and what POST /did/indy/new-did has answered, is
\* never reported as not found: an answer is given only after the ledger took
\* the transaction, and later transactions only add to it.
NotFoundIsTrue ==
  [][\A c \in Calls : cpc[c] = "idle" /\ cpc'[c] = "not_found" =>
       /\ \A d \in Calls :
            cpc[d] = "ok" /\ creq[d].op = "register" /\ creq'[c].op = "get" =>
              creq[d].id # creq'[c].id
       /\ \A r \in Requests :
            pc[r] = "ok" /\ req[r].kind = "new" /\ creq'[c].op = "resolve" =>
              Did(r) # creq'[c].id.did]_allvars

=============================================================================
