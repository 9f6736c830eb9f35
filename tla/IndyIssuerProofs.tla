-------------------------- MODULE IndyIssuerProofs --------------------------
(* Proofs about IndyIssuer, for any ledgers, wallet and number of requests  *)
(* and calls.  They rest on the invariant of IndyRegistrarProofs, which the *)
(* composition keeps because it implements the registrar.                   *)
EXTENDS IndyIssuer, IndyRegistrarProofs

-----------------------------------------------------------------------------
(* The composition implements the registrar                                *)

\* Registry and resolver leave wallet and nyms alone.
LEMMA ServeKeepsVars ==
  ASSUME NEW c \in Calls, Serve(c)
  PROVE  UNCHANGED vars
BY DEF Serve, RegisterSchema, RegisterCredDef, RegisterRevRegDef, Begins, Submit,
       LedgerTakes, LedgerRefuses, Return, Get, Resolve, Raises

LEMMA IssuerStepIsRegistrarStep == [IssuerNext]_allvars => [Next]_vars
<1>1. ASSUME NEW r \in Requests, Register(r) PROVE Next
  BY <1>1 DEF Register, Next
<1>2. ASSUME NEW c \in Calls, Serve(c) PROVE UNCHANGED vars
  BY <1>2, ServeKeepsVars
<1>3. AgentRestart => Next
  BY DEF AgentRestart, Next
<1>4. UNCHANGED allvars => UNCHANGED vars
  BY DEF allvars
<1> QED
  BY <1>1, <1>2, <1>3, <1>4 DEF IssuerNext

-----------------------------------------------------------------------------
(* The inductive invariant                                                 *)

\* No key has the kid of the signer of a DID the wallet had before.
NewKids ==
  \A n \in Namespaces, l \in LocalNyms, k \in Keys :
    <<k, Kid(<<n, l>>, "verkey")>> \notin kids

Registers(c) == creq[c] # None /\ creq[c].op = "register"

\* What a call's arguments are where it stands, and while its transaction is
\* about.  Only DIDs of the registrar are registered under.
Called(c) ==
  /\ cpc[c] = "idle" => creq[c] = None /\ txn[c] = "none" /\ result[c] = None
  /\ cpc[c] \in {"author", "sent"} \/ txn[c] # "none" => Registers(c)
  /\ cpc[c] = "author" => txn[c] = "none"
  /\ cpc[c] = "ok" => creq[c] # None
  /\ Registers(c) => creq[c].id.did \in Dids

\* What has been sent carries a key the wallet has under the kid of its issuer.
Signed(c) ==
  txn[c] # "none" =>
    creq[c].key \in Keys /\ <<creq[c].key, Kid(creq[c].id.did, "verkey")>> \in kids

\* Object id is transaction i of its ledger n.
At(n, i, id) == i \in 1..Len(objects[n]) /\ objects[n][i].id = id

\* A result is of an object on the ledger, where it says, and is the answer to
\* the request.
Resulted(c) ==
  /\ result[c] # None => At(result[c].id.did[1], result[c].seqNo, result[c].id)
  /\ cpc[c] = "ok" /\ Registers(c) =>
       result[c] # None /\ result[c].id = creq[c].id

\* A credential definition names its schema by where it is on the schema's ledger.
Refers(c) ==
  Registers(c) /\ creq[c].id.kind = "cred_def" =>
    At(creq[c].of.did[1], creq[c].id.ref, creq[c].of)

CallInv(c) == Called(c) /\ Signed(c) /\ Resulted(c) /\ Refers(c)

\* A ledger starts with a schema; a credential definition on it was registered
\* by the call it names.
Made(n) ==
  /\ 1 \in 1..Len(objects[n])
  /\ \A i \in 1..Len(objects[n]) : objects[n][i].id.kind = "cred_def" =>
       LET by == objects[n][i].by
       IN  by \in Calls /\ Registers(by) /\ creq[by].id = objects[n][i].id

CInv ==
  /\ IInv /\ NewKids
  /\ IssuerTypeOK
  /\ OnlyNewNymsIssue
  /\ \A c \in Calls : CallInv(c)
  /\ \A n \in Namespaces : Made(n)

-----------------------------------------------------------------------------
(* Lemmas about the data                                                   *)

LEMMA IdType ==
  ASSUME NEW kind \in Kinds, NEW did \in Namespaces \X (Nyms \cup {Foreigner}),
         NEW ref \in Nat, NEW t \in Tags
  PROVE  Id(kind, did, ref, t) \in Ids
BY DEF Id, Ids

LEMMA DidOfId ==
  ASSUME NEW id \in Ids
  PROVE  id.did[1] \in Namespaces /\ id.kind \in Kinds /\ id.ref \in Nat
<1>1. id.did \in Namespaces \X (Nyms \cup {Foreigner}) /\ id.kind \in Kinds
      /\ id.ref \in Nat
  BY DEF Ids
<1> QED
  BY <1>1

LEMMA DidParts ==
  ASSUME NEW did \in Dids
  PROVE  did[1] \in Namespaces /\ did[2] \in Nyms /\ did = <<did[1], did[2]>>
BY DEF Dids

\* The signer of what a call has sent is the key of a new nym.
LEMMA SignedDid ==
  ASSUME CInv, NEW c \in Calls, txn[c] # "none"
  PROVE  LET did == creq[c].id.did
         IN  /\ did \in Dids /\ did[2] \notin LocalNyms
             /\ creq[c].key = did[2]
<1> DEFINE did == creq[c].id.did
<1>1. /\ did \in Dids
      /\ creq[c].key \in Keys /\ <<creq[c].key, Kid(did, "verkey")>> \in kids
  BY DEF CInv, CallInv, Called, Signed
<1>2. did[1] \in Namespaces /\ did[2] \in Nyms /\ did = <<did[1], did[2]>>
  BY <1>1, DidParts
<1>3. did[2] \notin LocalNyms
  BY <1>1, <1>2 DEF CInv, NewKids
<1>4. creq[c].key = did[2]
  BY <1>1, <1>2 DEF CInv, IInv, KidsAreNyms
<1> QED
  BY <1>1, <1>3, <1>4

\* The registrar takes no signer's kid away, and gives none to the DIDs that
\* the wallet had.
LEMMA SignersStay ==
  ASSUME IInv, NewKids, [Next]_vars
  PROVE  /\ NewKids'
         /\ \A k \in Keys, d \in Dids :
              <<k, Kid(d, "verkey")>> \in kids => <<k, Kid(d, "verkey")>> \in kids'
<1>1. \A d \in Dids : Kid(d, "verkey") # None
  BY KidTypes
<1>2. \A n \in Namespaces, l \in LocalNyms : <<n, l>> \in Dids
  BY LocalTypes DEF Dids
<1>3. CASE kids' = kids
  BY <1>3 DEF NewKids
<1>4. ASSUME NEW r \in Requests, CreateKey(r)
      PROVE  kids' = kids \cup {<<VerKey(r), None>>}
  BY <1>4 DEF CreateKey
<1>5. ASSUME NEW r \in Requests, AssignKid(r)
      PROVE  kids' = (kids \ {<<VerKey(r), None>>})
                       \cup {<<VerKey(r), Kid(<<req[r].namespace, VerKey(r)>>, "verkey")>>}
  BY <1>5 DEF AssignKid, IInv, Handlers, Handler, Did, Nym
<1>6. ASSUME NEW r \in Requests, CreateAssertKey(r)
      PROVE  kids' = kids \cup {<<AssertKey(r), Kid(Did(r), "assert")>>}
  BY <1>6 DEF CreateAssertKey
<1>7. \/ kids' = kids
      \/ \E r \in Requests : CreateKey(r) \/ AssignKid(r) \/ CreateAssertKey(r)
  BY DEF Next, vars, Handle, Refuse, Receive, Fails, LookUpDid, PrepareServices,
         StoreDid, SubmitNym, NymAnswered, AttribAnswered, LedgerExecutes,
         LedgerDrops, Restart
<1>8. ASSUME NEW r \in Requests, CreateKey(r) \/ AssignKid(r) \/ CreateAssertKey(r)
      PROVE  NewKids'
  <2> SUFFICES ASSUME NEW n \in Namespaces, NEW l \in LocalNyms, NEW k \in Keys,
                      <<k, Kid(<<n, l>>, "verkey")>> \in kids'
               PROVE  FALSE
    BY DEF NewKids
  <2>1. <<k, Kid(<<n, l>>, "verkey")>> \notin kids
    BY DEF NewKids
  <2>2. Kid(<<n, l>>, "verkey") # None
    BY <1>1, <1>2
  <2>3. VerKey(r) # l
    BY KeyTypes
  <2>4. Kid(<<n, l>>, "verkey") # Kid(<<req[r].namespace, VerKey(r)>>, "verkey")
    BY <2>3 DEF Kid
  <2>5. Kid(<<n, l>>, "verkey") # Kid(Did(r), "assert")
    BY DEF Kid
  <2> QED
    BY <1>4, <1>5, <1>6, <1>8, <2>1, <2>2, <2>4, <2>5
<1>9. ASSUME NEW r \in Requests, CreateKey(r) \/ AssignKid(r) \/ CreateAssertKey(r),
             NEW k \in Keys, NEW d \in Dids, <<k, Kid(d, "verkey")>> \in kids
      PROVE  <<k, Kid(d, "verkey")>> \in kids'
  <2>1. <<k, Kid(d, "verkey")>> # <<VerKey(r), None>>
    BY <1>1
  <2> QED
    BY <1>4, <1>5, <1>6, <1>9, <2>1
<1> QED
  BY <1>3, <1>7, <1>8, <1>9

-----------------------------------------------------------------------------
(* The initial state and the steps                                         *)

LEMMA InitCInv == IssuerInit => CInv
<1> SUFFICES ASSUME IssuerInit PROVE CInv
  OBVIOUS
<1>1. IInv /\ Init
  BY InitIInv DEF IssuerInit
<1>2. NewKids
  <2>1. \A d \in Dids : Kid(d, "verkey") # None
    BY KidTypes
  <2>2. \A n \in Namespaces, l \in LocalNyms : <<n, l>> \in Dids
    BY LocalTypes DEF Dids
  <2>3. \A k, n, l : <<k, Kid(<<n, l>>, "verkey")>> \in kids
                      => Kid(<<n, l>>, "verkey") = None
    BY <1>1 DEF Init
  <2> QED
    BY <2>1, <2>2, <2>3 DEF NewKids
<1>3. \A n \in Namespaces :
        /\ ForeignSchema(n) \in Object /\ ForeignSchema(n).id.kind = "schema"
        /\ ForeignSchema(n).id.did[2] \notin LocalNyms
  <2> SUFFICES ASSUME NEW n \in Namespaces
               PROVE  /\ ForeignSchema(n) \in Object
                      /\ ForeignSchema(n).id.kind = "schema"
                      /\ ForeignSchema(n).id.did[2] \notin LocalNyms
    OBVIOUS
  <2>1. (CHOOSE t \in Tags : TRUE) \in Tags
    BY ForeignerAssumption DEF ForeignerAssumption
  <2>2. Id("schema", <<n, Foreigner>>, 0, CHOOSE t \in Tags : TRUE) \in Ids
    BY <2>1, IdType DEF Kinds
  <2>3. ForeignSchema(n) \in Object
    BY <2>2 DEF ForeignSchema, Object
  <2>4. Foreigner \notin LocalNyms
    BY ForeignerAssumption DEF ForeignerAssumption, Nyms
  <2> QED
    BY <2>3, <2>4 DEF ForeignSchema, Id
<1>4. \A n \in Namespaces :
        /\ objects[n] \in Seq(Object) /\ Len(objects[n]) = 1
        /\ objects[n][1] = ForeignSchema(n)
  BY <1>3 DEF IssuerInit
<1>5. IssuerTypeOK
  <2>1. objects \in [Namespaces -> Seq(Object)]
    BY <1>4 DEF IssuerInit
  <2> QED
    BY <2>1 DEF IssuerInit, IssuerTypeOK
<1>6. OnlyNewNymsIssue /\ \A n \in Namespaces : Made(n)
  BY <1>3, <1>4 DEF OnlyNewNymsIssue, Made
<1>7. \A c \in Calls : CallInv(c)
  BY DEF IssuerInit, CallInv, Called, Signed, Resulted, Refers, Registers
<1> QED
  BY <1>1, <1>2, <1>5, <1>6, <1>7 DEF CInv

\* A step of the registrar, or a restart that takes calls with it.
LEMMA OtherStep ==
  ASSUME CInv, [Next]_vars,
         UNCHANGED <<objects, creq, txn, result>>,
         cpc' \in [Calls -> {"idle", "author", "sent", "ok", "not_found", "raised",
                             "lost"}],
         \A c \in Calls : cpc'[c] = cpc[c] \/ cpc'[c] = "lost"
  PROVE  CInv'
<1>1. IInv'
  BY NextIInv DEF CInv
<1>2. /\ NewKids'
      /\ \A k \in Keys, d \in Dids :
           <<k, Kid(d, "verkey")>> \in kids => <<k, Kid(d, "verkey")>> \in kids'
  BY SignersStay DEF CInv
<1>3. IssuerTypeOK' /\ OnlyNewNymsIssue'
  BY DEF CInv, IssuerTypeOK, OnlyNewNymsIssue
<1>4. ASSUME NEW c \in Calls PROVE CallInv(c)'
  <2>1. CallInv(c) /\ (cpc'[c] = cpc[c] \/ cpc'[c] = "lost")
    BY DEF CInv
  <2>2. Called(c)' /\ Resulted(c)' /\ Refers(c)'
    BY <2>1 DEF CallInv, Called, Resulted, Refers, Registers, At
  <2>3. Signed(c)'
    BY <1>2, <2>1 DEF CallInv, Called, Signed
  <2> QED
    BY <2>2, <2>3 DEF CallInv
<1>5. \A n \in Namespaces : Made(n)'
  BY DEF CInv, Made, Registers
<1> QED
  BY <1>1, <1>2, <1>3, <1>4, <1>5 DEF CInv

\* What a step of a call keeps of the wallet and the nyms.
LEMMA ServeKeepsIInv ==
  ASSUME CInv, UNCHANGED vars
  PROVE  IInv' /\ NewKids'
<1>1. IInv'
  BY NextIInv DEF CInv
<1> QED
  BY <1>1 DEF CInv, NewKids, vars

\* A step of call c that makes no transaction, and leaves what is registered
\* as it is: c's own part is left to show.
LEMMA CallStep ==
  ASSUME CInv, NEW c \in Calls, UNCHANGED <<vars, objects>>, IssuerTypeOK',
         \A d \in Calls : d # c =>
           /\ cpc'[d] = cpc[d] /\ creq'[d] = creq[d]
           /\ txn'[d] = txn[d] /\ result'[d] = result[d],
         Registers(c) => Registers(c)' /\ creq'[c].id = creq[c].id,
         CallInv(c)'
  PROVE  CInv'
<1>1. IInv' /\ NewKids'
  BY ServeKeepsIInv DEF CInv
<1>2. OnlyNewNymsIssue'
  BY DEF CInv, OnlyNewNymsIssue
<1>3. ASSUME NEW d \in Calls, d # c PROVE CallInv(d)'
  <2>1. CallInv(d)
    BY DEF CInv
  <2> QED
    BY <1>3, <2>1
    DEF CallInv, Called, Signed, Resulted, Refers, Registers, At, vars
<1>4. \A d \in Calls : Registers(d) => Registers(d)' /\ creq'[d].id = creq[d].id
  BY DEF Registers
<1>5. \A n \in Namespaces : Made(n)'
  BY <1>4 DEF CInv, Made
<1> QED
  BY <1>1, <1>2, <1>3, <1>5 DEF CInv

\* A call begins to register an object.
LEMMA BeginsStep ==
  ASSUME CInv, NEW c \in Calls, cpc[c] = "idle", NEW id \in Ids, NEW of \in Ids,
         Begins(c, id, of), id.did \in Dids,
         id.kind = "cred_def" => At(of.did[1], id.ref, of)
  PROVE  CInv'
<1> DEFINE a == [op |-> "register", id |-> id, of |-> of, key |-> None]
<1>1. a \in CallRequest /\ a # None
  <2>1. a \in CallRequest
    BY DEF CallRequest
  <2> QED
    BY <2>1, NoResultAssumption DEF NoResultAssumption
<1>2. /\ creq' = [creq EXCEPT ![c] = a]
      /\ cpc' = [cpc EXCEPT ![c] = "author"]
      /\ UNCHANGED <<vars, objects, txn, result>>
  BY DEF Begins, Asks, Move
<1>3. IssuerTypeOK'
  BY <1>1, <1>2 DEF CInv, IssuerTypeOK
<1>4. /\ creq'[c] = a /\ cpc'[c] = "author"
      /\ \A d \in Calls : d # c => cpc'[d] = cpc[d] /\ creq'[d] = creq[d]
  BY <1>2 DEF CInv, IssuerTypeOK
<1>5. creq[c] = None /\ txn[c] = "none" /\ result[c] = None
  BY DEF CInv, CallInv, Called
<1>6. CallInv(c)'
  BY <1>1, <1>2, <1>4, <1>5 DEF CallInv, Called, Signed, Resulted, Refers, Registers, At
<1>7. ~Registers(c)
  BY <1>5 DEF Registers
<1> QED
  BY <1>2, <1>3, <1>4, <1>6, <1>7, CallStep

LEMMA RegisterSchemaStep ==
  ASSUME CInv, NEW c \in Calls, RegisterSchema(c)
  PROVE  CInv'
<1>1. PICK did \in Nameable, t \in Tags :
        LET id == Id("schema", did, 0, t) IN Begins(c, id, id)
  BY DEF RegisterSchema
<1> DEFINE id == Id("schema", did, 0, t)
<1>2. did \in Dids /\ did \in Namespaces \X (Nyms \cup {Foreigner})
  BY DEF Nameable, Dids
<1>3. id \in Ids /\ id.did = did /\ id.kind = "schema"
  BY <1>2, IdType DEF Kinds, Id
<1> QED
  BY <1>1, <1>2, <1>3, BeginsStep DEF RegisterSchema

\* What a result is of is on a ledger.
LEMMA ResultType ==
  ASSUME CInv, NEW d \in Calls, result[d] # None
  PROVE  /\ result[d].id \in Ids /\ result[d].seqNo \in Nat
         /\ At(result[d].id.did[1], result[d].seqNo, result[d].id)
<1>1. result[d] \in Result
  BY DEF CInv, IssuerTypeOK
<1> QED
  BY <1>1 DEF Result, CInv, CallInv, Resulted

LEMMA RegisterCredDefStep ==
  ASSUME CInv, NEW c \in Calls, RegisterCredDef(c)
  PROVE  CInv'
<1>1. PICK d \in Returned("schema") : \E did \in Nameable, t \in Tags :
        Begins(c, Id("cred_def", did, SchemaSeqNo(d), t), result[d].id)
  BY DEF RegisterCredDef
<1>2. PICK did \in Nameable, t \in Tags :
        Begins(c, Id("cred_def", did, SchemaSeqNo(d), t), result[d].id)
  BY <1>1
<1> DEFINE id == Id("cred_def", did, SchemaSeqNo(d), t)
<1>3. d \in Calls /\ result[d] # None
  BY DEF Returned
<1>4. did \in Dids /\ did \in Namespaces \X (Nyms \cup {Foreigner})
  BY DEF Nameable, Dids
<1>5. id \in Ids /\ id.did = did /\ id.ref = result[d].seqNo
  BY <1>3, <1>4, ResultType, IdType DEF Kinds, Id, SchemaSeqNo
<1> QED
  BY <1>2, <1>3, <1>4, <1>5, ResultType, BeginsStep DEF RegisterCredDef

LEMMA RegisterRevRegDefStep ==
  ASSUME CInv, NEW c \in Calls, RegisterRevRegDef(c)
  PROVE  CInv'
<1>1. PICK d \in Returned("cred_def") : \E t \in Tags :
        LET of == result[d].id
        IN  Begins(c, Id("rev_reg_def", of.did, of.ref, t), of)
  BY DEF RegisterRevRegDef
<1> DEFINE of == result[d].id
<1>2. PICK t \in Tags : Begins(c, Id("rev_reg_def", of.did, of.ref, t), of)
  BY <1>1
<1> DEFINE id == Id("rev_reg_def", of.did, of.ref, t)
           i == result[d].seqNo
           n == of.did[1]
<1>3. d \in Calls /\ result[d] # None /\ of.kind = "cred_def"
  BY DEF Returned
<1>4. of \in Ids /\ At(n, i, of)
  BY <1>3, ResultType
<1>5. of.did \in Dids
  <2>1. n \in Namespaces /\ i \in 1..Len(objects[n]) /\ objects[n][i].id = of
    BY <1>4, DidOfId DEF At
  <2>2. /\ objects[n][i].by \in Calls /\ Registers(objects[n][i].by)
        /\ creq[objects[n][i].by].id = of
    BY <1>3, <2>1 DEF CInv, Made
  <2> QED
    BY <2>2 DEF CInv, CallInv, Called
<1>6. of.did \in Namespaces \X (Nyms \cup {Foreigner}) /\ of.ref \in Nat
  BY <1>4 DEF Ids
<1>7. id \in Ids /\ id.did = of.did /\ id.kind = "rev_reg_def"
  BY <1>6, IdType DEF Kinds, Id
<1> QED
  BY <1>2, <1>4, <1>5, <1>7, BeginsStep DEF RegisterRevRegDef

LEMMA SubmitStep ==
  ASSUME CInv, NEW c \in Calls, Submit(c)
  PROVE  CInv'
<1>1. PICK k \in Signers(creq[c].id.did) : creq' = [creq EXCEPT ![c].key = k]
  BY DEF Submit
<1>2. /\ cpc[c] = "author" /\ txn' = [txn EXCEPT ![c] = "sent"]
      /\ cpc' = [cpc EXCEPT ![c] = "sent"]
      /\ UNCHANGED <<vars, objects, result>>
  BY DEF Submit, Move
<1>3. k \in Keys /\ <<k, Kid(creq[c].id.did, "verkey")>> \in kids
  BY DEF Signers
<1>4. Registers(c) /\ creq[c] \in CallRequest /\ CallInv(c)
  BY <1>2 DEF CInv, CallInv, Called, Registers, IssuerTypeOK
<1>5. /\ [creq[c] EXCEPT !.key = k] \in CallRequest
      /\ [creq[c] EXCEPT !.key = k].op = creq[c].op
      /\ [creq[c] EXCEPT !.key = k].id = creq[c].id
      /\ [creq[c] EXCEPT !.key = k].of = creq[c].of
      /\ [creq[c] EXCEPT !.key = k].key = k
  BY <1>3, <1>4 DEF CallRequest
<1>6. /\ creq'[c] = [creq[c] EXCEPT !.key = k]
      /\ cpc'[c] = "sent" /\ txn'[c] = "sent"
      /\ \A d \in Calls : d # c =>
           cpc'[d] = cpc[d] /\ creq'[d] = creq[d] /\ txn'[d] = txn[d]
  BY <1>1, <1>2 DEF CInv, IssuerTypeOK
<1>7. IssuerTypeOK'
  BY <1>1, <1>2, <1>4, <1>5 DEF CInv, IssuerTypeOK
<1>8. Registers(c)' /\ creq'[c].id = creq[c].id /\ creq'[c].of = creq[c].of
      /\ creq'[c].key = k
  BY <1>4, <1>5, <1>6, NoResultAssumption DEF Registers, NoResultAssumption
<1>9. CallInv(c)'
  BY <1>2, <1>3, <1>4, <1>6, <1>8
  DEF CallInv, Called, Signed, Resulted, Refers, At, vars
<1> QED
  BY <1>2, <1>6, <1>7, <1>8, <1>9, CallStep

\* An answer is about an object of the ledger it names.
LEMMA AnswerStep ==
  ASSUME CInv, NEW c \in Calls, NEW id \in Ids, NEW i \in Nat,
         Answers(c, id, i), At(id.did[1], i, id),
         UNCHANGED <<vars, objects, txn>>,
         creq' \in [Calls -> CallRequest \cup {None}],
         \A d \in Calls : d # c => creq'[d] = creq[d],
         \/ /\ Registers(c) /\ creq'[c] = creq[c] /\ id = creq[c].id
         \/ ~Registers(c) /\ ~Registers(c)' /\ creq'[c] # None
  PROVE  CInv'
<1>1. [id |-> id, seqNo |-> i] \in Result /\ [id |-> id, seqNo |-> i] # None
  <2>1. [id |-> id, seqNo |-> i] \in Result
    BY DEF Result
  <2> QED
    BY <2>1, NoResultAssumption DEF NoResultAssumption
<1>2. /\ result' = [result EXCEPT ![c] = [id |-> id, seqNo |-> i]]
      /\ cpc' = [cpc EXCEPT ![c] = "ok"]
  BY DEF Answers, Move
<1>3. IssuerTypeOK'
  BY <1>1, <1>2 DEF CInv, IssuerTypeOK
<1>4. /\ result'[c] = [id |-> id, seqNo |-> i] /\ cpc'[c] = "ok"
      /\ \A d \in Calls : d # c => cpc'[d] = cpc[d] /\ result'[d] = result[d]
  BY <1>2 DEF CInv, IssuerTypeOK
<1>5. CallInv(c)
  BY DEF CInv
<1>6. CallInv(c)'
  <2>1. Called(c)' /\ Refers(c)'
    BY <1>4, <1>5 DEF CallInv, Called, Refers, At, Registers
  <2>2. Signed(c)'
    BY <1>5 DEF CallInv, Called, Signed, Registers, vars
  <2>3. Resulted(c)'
    <3>1. /\ result'[c].id = id /\ result'[c].seqNo = i /\ result'[c] # None
      BY <1>1, <1>4
    <3> QED
      BY <3>1, <1>5 DEF Resulted, At, Registers
  <2> QED
    BY <2>1, <2>2, <2>3 DEF CallInv
<1>7. Registers(c) => Registers(c)' /\ creq'[c].id = creq[c].id
  BY DEF Registers
<1> QED
  BY <1>3, <1>4, <1>6, <1>7, CallStep

LEMMA ReturnStep ==
  ASSUME CInv, NEW c \in Calls, Return(c)
  PROVE  CInv'
<1>1. PICK i \in Positions(creq[c].id) : Answers(c, creq[c].id, i)
  BY DEF Return
<1>2. cpc[c] = "sent" /\ UNCHANGED <<vars, objects, creq, txn>>
  BY DEF Return
<1>3. Registers(c) /\ creq[c] \in CallRequest
  BY <1>2 DEF CInv, CallInv, Called, Registers, IssuerTypeOK
<1>4. creq[c].id \in Ids
  BY <1>3 DEF CallRequest
<1>5. i \in Nat /\ At(creq[c].id.did[1], i, creq[c].id)
  BY DEF Positions, At
<1>6. creq' \in [Calls -> CallRequest \cup {None}]
  BY <1>2 DEF CInv, IssuerTypeOK
<1> QED
  BY <1>1, <1>2, <1>3, <1>4, <1>5, <1>6, AnswerStep

\* A call that fetches or resolves takes no part in registering.
LEMMA AsksType ==
  ASSUME CInv, NEW c \in Calls, cpc[c] = "idle", NEW id \in Ids,
         NEW op \in {"get", "resolve"}, Asks(c, op, id, id)
  PROVE  /\ creq' \in [Calls -> CallRequest \cup {None}]
         /\ creq'[c].op = op /\ creq'[c].id = id
         /\ \A d \in Calls : d # c => creq'[d] = creq[d]
         /\ ~Registers(c) /\ ~Registers(c)' /\ creq'[c] # None
         /\ txn[c] = "none" /\ result[c] = None
<1> DEFINE a == [op |-> op, id |-> id, of |-> id, key |-> None]
<1>1. a \in CallRequest /\ a.op = op /\ a.id = id /\ a # None
  <2>1. a \in CallRequest
    BY DEF CallRequest
  <2> QED
    BY <2>1, NoResultAssumption DEF NoResultAssumption
<1>2. creq' = [creq EXCEPT ![c] = a] /\ creq \in [Calls -> CallRequest \cup {None}]
  BY DEF Asks, CInv, IssuerTypeOK
<1>3. creq[c] = None /\ txn[c] = "none" /\ result[c] = None
  BY DEF CInv, CallInv, Called
<1> QED
  BY <1>1, <1>2, <1>3 DEF Registers

\* A call ends without a result, and without a transaction it did not have.
LEMMA EndStep ==
  ASSUME CInv, NEW c \in Calls, NEW label \in {"ok", "not_found", "raised"},
         Move(c, label), UNCHANGED <<vars, objects, txn, result>>,
         creq' \in [Calls -> CallRequest \cup {None}],
         \A d \in Calls : d # c => creq'[d] = creq[d],
         \/ creq'[c] = creq[c] /\ label = "raised"
         \/ ~Registers(c) /\ ~Registers(c)' /\ creq'[c] # None
  PROVE  CInv'
<1>1. /\ cpc' = [cpc EXCEPT ![c] = label]
      /\ cpc'[c] = label
      /\ \A d \in Calls : d # c => cpc'[d] = cpc[d]
  BY DEF Move, CInv, IssuerTypeOK
<1>2. IssuerTypeOK'
  BY <1>1 DEF CInv, IssuerTypeOK
<1>3. CallInv(c)
  BY DEF CInv
<1>4. CallInv(c)'
  <2>1. CASE creq'[c] = creq[c] /\ label = "raised"
    BY <1>1, <1>3, <2>1
    DEF CallInv, Called, Signed, Resulted, Refers, Registers, At, vars
  <2>2. CASE ~Registers(c) /\ ~Registers(c)' /\ creq'[c] # None
    <3>1. txn[c] = "none"
      BY <1>3, <2>2, <1>1 DEF CallInv, Called, CInv, IssuerTypeOK
    <3> QED
      BY <1>1, <1>3, <2>2, <3>1 DEF CallInv, Called, Signed, Resulted, Refers, At
  <2> QED
    BY <2>1, <2>2
<1>5. Registers(c) => Registers(c)' /\ creq'[c].id = creq[c].id
  BY DEF Registers
<1> QED
  BY <1>1, <1>2, <1>4, <1>5, CallStep

LEMMA GetStep ==
  ASSUME CInv, NEW c \in Calls, Get(c)
  PROVE  CInv'
<1>1. PICK id \in AskedFor :
        /\ Asks(c, "get", id, id)
        /\ \/ Positions(id) = {} /\ Move(c, "not_found") /\ UNCHANGED result
           \/ \E i \in Positions(id) : Answers(c, id, i)
  BY DEF Get
<1>2. cpc[c] = "idle" /\ UNCHANGED <<vars, objects, txn>>
  BY DEF Get, vars
<1>3. id \in Ids
  <2>1. CASE \E n \in Namespaces : id = objects[n][1].id
    <3>1. PICK n \in Namespaces : id = objects[n][1].id
      BY <2>1
    <3>2. objects[n] \in Seq(Object) /\ 1 \in 1..Len(objects[n])
      BY DEF CInv, Made, IssuerTypeOK
    <3>3. objects[n][1] \in Object
      BY <3>2
    <3> QED
      BY <3>1, <3>3 DEF Object
  <2>2. CASE \E d \in Calls : creq[d] # None /\ id = creq[d].id
    BY <2>2 DEF CInv, IssuerTypeOK, CallRequest
  <2> QED
    BY <2>1, <2>2 DEF AskedFor
<1>4. /\ creq' \in [Calls -> CallRequest \cup {None}]
      /\ \A d \in Calls : d # c => creq'[d] = creq[d]
      /\ ~Registers(c) /\ ~Registers(c)' /\ creq'[c] # None
  BY <1>1, <1>2, <1>3, AsksType
<1>5. CASE Move(c, "not_found") /\ UNCHANGED result
  BY <1>2, <1>4, <1>5, EndStep
<1>6. ASSUME NEW i \in Positions(id), Answers(c, id, i) PROVE CInv'
  <2>1. i \in Nat /\ At(id.did[1], i, id)
    BY DEF Positions, At
  <2> QED
    BY <1>2, <1>3, <1>4, <1>6, <2>1, AnswerStep
<1> QED
  BY <1>1, <1>5, <1>6

LEMMA ResolveStep ==
  ASSUME CInv, NEW c \in Calls, Resolve(c)
  PROVE  CInv'
<1>1. PICK did \in Nameable, t \in Tags :
        LET id == Id("schema", did, 0, t)
        IN  /\ Asks(c, "resolve", id, id)
            /\ Move(c, IF ledger[did[1]][did[2]] = None THEN "not_found" ELSE "ok")
  BY DEF Resolve
<1> DEFINE id == Id("schema", did, 0, t)
           label == IF ledger[did[1]][did[2]] = None THEN "not_found" ELSE "ok"
<1>2. cpc[c] = "idle" /\ UNCHANGED <<vars, objects, txn, result>>
  BY DEF Resolve
<1>3. did \in Namespaces \X (Nyms \cup {Foreigner})
  BY DEF Nameable, Dids
<1>4. id \in Ids
  BY <1>3, IdType DEF Kinds
<1>5. /\ creq' \in [Calls -> CallRequest \cup {None}]
      /\ \A d \in Calls : d # c => creq'[d] = creq[d]
      /\ ~Registers(c) /\ ~Registers(c)' /\ creq'[c] # None
  BY <1>1, <1>2, <1>4, AsksType
<1>6. label \in {"ok", "not_found", "raised"} /\ Move(c, label)
  BY <1>1
<1> QED
  BY <1>2, <1>5, <1>6, EndStep

LEMMA RaisesStep ==
  ASSUME CInv, NEW c \in Calls, Raises(c)
  PROVE  CInv'
<1>1. Move(c, "raised") /\ UNCHANGED <<vars, objects, creq, txn, result>>
  BY DEF Raises
<1>2. creq' \in [Calls -> CallRequest \cup {None}]
  BY <1>1 DEF CInv, IssuerTypeOK
<1> QED
  BY <1>1, <1>2, EndStep

LEMMA LedgerRefusesStep ==
  ASSUME CInv, NEW c \in Calls, LedgerRefuses(c)
  PROVE  CInv'
<1>1. /\ txn[c] = "sent" /\ txn' = [txn EXCEPT ![c] = "dropped"]
      /\ UNCHANGED <<vars, objects, cpc, creq, result>>
  BY DEF LedgerRefuses
<1>2. IssuerTypeOK'
  BY <1>1 DEF CInv, IssuerTypeOK
<1>3. /\ txn'[c] = "dropped" /\ \A d \in Calls : d # c => txn'[d] = txn[d]
      /\ CallInv(c)
  BY <1>1 DEF CInv, IssuerTypeOK
<1>4. CallInv(c)'
  BY <1>1, <1>3
  DEF CallInv, Called, Signed, Resulted, Refers, Registers, At, vars
<1>5. Registers(c) => Registers(c)' /\ creq'[c].id = creq[c].id
  BY <1>1 DEF Registers
<1> QED
  BY <1>1, <1>2, <1>3, <1>4, <1>5, CallStep

LEMMA LedgerTakesStep ==
  ASSUME CInv, NEW c \in Calls, LedgerTakes(c)
  PROVE  CInv'
<1> DEFINE id == creq[c].id
<1>0. PICK n, o : n = id.did[1] /\ o = [id |-> id, key |-> creq[c].key, by |-> c]
  OBVIOUS
<1>1. /\ txn[c] = "sent" /\ txn' = [txn EXCEPT ![c] = "done"]
      /\ objects' = [objects EXCEPT ![n] = Append(@, o)]
      /\ UNCHANGED <<vars, cpc, creq, result>>
  BY <1>0 DEF LedgerTakes
<1>2. Registers(c) /\ creq[c] \in CallRequest /\ CallInv(c)
  BY <1>1 DEF CInv, CallInv, Called, Registers, IssuerTypeOK
<1>3. id \in Ids /\ n \in Namespaces /\ o \in Object
  <2>1. id \in Ids /\ creq[c].key \in Keys \cup {None}
    BY <1>2 DEF CallRequest
  <2> QED
    BY <1>0, <2>1, DidOfId DEF Object
<1>4. /\ objects' \in [Namespaces -> Seq(Object)]
      /\ \A m \in Namespaces : \A i \in 1..Len(objects[m]) :
           i \in 1..Len(objects'[m]) /\ objects'[m][i] = objects[m][i]
      /\ \A m \in Namespaces : \A i \in 1..Len(objects'[m]) :
           i \in 1..Len(objects[m]) \/ (m = n /\ objects'[m][i] = o)
  <2>1. objects \in [Namespaces -> Seq(Object)]
    BY DEF CInv, IssuerTypeOK
  <2>2. objects[n] \in Seq(Object) /\ Append(objects[n], o) \in Seq(Object)
    BY <1>3, <2>1
  <2>3. /\ objects'[n] = Append(objects[n], o)
        /\ \A m \in Namespaces : m # n => objects'[m] = objects[m]
    BY <1>1, <1>3, <2>1
  <2>4. objects' \in [Namespaces -> Seq(Object)]
    BY <1>1, <2>1, <2>2
  <2>5. /\ Len(objects'[n]) = Len(objects[n]) + 1 /\ Len(objects[n]) \in Nat
        /\ objects'[n][Len(objects[n]) + 1] = o
        /\ \A i \in 1..Len(objects[n]) : objects'[n][i] = objects[n][i]
    BY <2>2, <2>3
  <2> QED
    BY <1>3, <2>3, <2>4, <2>5
<1>5. \A m \in Namespaces : \A i, x : At(m, i, x) => At(m, i, x)'
  BY <1>4 DEF At
<1>6. IInv' /\ NewKids'
  BY <1>1, ServeKeepsIInv
<1>7. IssuerTypeOK'
  BY <1>1, <1>4 DEF CInv, IssuerTypeOK
<1>8. OnlyNewNymsIssue'
  <2>1. o.id.did[2] \notin LocalNyms
    BY <1>0, <1>1, SignedDid
  <2> QED
    BY <1>4, <2>1 DEF CInv, OnlyNewNymsIssue
<1>9. ASSUME NEW d \in Calls PROVE CallInv(d)'
  <2>1. /\ CallInv(d)
        /\ txn'[d] = txn[d] \/ (d = c /\ txn[d] = "sent" /\ txn'[d] = "done")
    BY <1>1 DEF CInv, IssuerTypeOK
  <2>2. Called(d)' /\ Signed(d)'
    BY <1>1, <2>1 DEF CallInv, Called, Signed, Registers, vars
  <2>3. Resulted(d)'
    <3>1. result[d] # None => result[d].id.did[1] \in Namespaces
      BY ResultType, DidOfId
    <3> QED
      BY <1>1, <1>5, <2>1, <3>1 DEF CallInv, Resulted, Registers
  <2>4. Refers(d)'
    <3>1. Registers(d) => creq[d].of.did[1] \in Namespaces
      BY DidOfId DEF CInv, IssuerTypeOK, CallRequest, Registers
    <3> QED
      BY <1>1, <1>5, <2>1, <3>1 DEF CallInv, Refers, Registers
  <2> QED
    BY <2>2, <2>3, <2>4 DEF CallInv
<1>10. ASSUME NEW m \in Namespaces, NEW i \in 1..Len(objects'[m]),
              objects'[m][i].id.kind = "cred_def"
       PROVE  LET by == objects'[m][i].by
              IN  by \in Calls /\ Registers(by) /\ creq[by].id = objects'[m][i].id
  <2>1. CASE i \in 1..Len(objects[m])
    BY <1>4, <1>10, <2>1 DEF CInv, Made
  <2>2. CASE objects'[m][i] = o
    BY <1>0, <1>2, <2>2
  <2> QED
    BY <1>4, <2>1, <2>2
<1>11. ASSUME NEW m \in Namespaces PROVE Made(m)'
  <2>1. 1 \in 1..Len(objects'[m])
    BY <1>4 DEF CInv, Made
  <2>2. \A d \in Calls : Registers(d) => Registers(d)'
    BY <1>1 DEF Registers
  <2> QED
    BY <1>1, <1>10, <2>1, <2>2 DEF Made
<1> QED
  BY <1>6, <1>7, <1>8, <1>9, <1>11 DEF CInv

LEMMA NextCInv == CInv /\ [IssuerNext]_allvars => CInv'
<1> SUFFICES ASSUME CInv, [IssuerNext]_allvars PROVE CInv'
  OBVIOUS
<1>1. [Next]_vars
  BY IssuerStepIsRegistrarStep
<1>2. ASSUME NEW c \in Calls, Serve(c) PROVE CInv'
  BY <1>2, RegisterSchemaStep, RegisterCredDefStep, RegisterRevRegDefStep,
     SubmitStep, LedgerTakesStep, LedgerRefusesStep, ReturnStep, GetStep,
     ResolveStep, RaisesStep DEF Serve
<1>3. CASE (\E r \in Requests : Register(r)) \/ UNCHANGED allvars
  <2>1. UNCHANGED <<objects, cpc, creq, txn, result>>
    BY <1>3 DEF Register, cvars, allvars
  <2> QED
    BY <1>1, <2>1, OtherStep DEF CInv, IssuerTypeOK
<1>4. CASE AgentRestart
  <2>1. /\ UNCHANGED <<objects, creq, txn, result>>
        /\ cpc' = [c \in Calls |-> IF cpc[c] \in {"author", "sent"} THEN "lost"
                                   ELSE cpc[c]]
    BY <1>4 DEF AgentRestart
  <2> QED
    BY <1>1, <2>1, OtherStep DEF CInv, IssuerTypeOK
<1> QED
  BY <1>2, <1>3, <1>4 DEF IssuerNext

-----------------------------------------------------------------------------
(* Results                                                                 *)

\* The objects, the calls and their results always have their types.
THEOREM IssuerTypeCorrect == IssuerSpec => []IssuerTypeOK
<1>1. IssuerInit => CInv
  BY InitCInv
<1>2. CInv /\ [IssuerNext]_allvars => CInv'
  BY NextCInv
<1>3. CInv => IssuerTypeOK
  BY DEF CInv
<1> QED
  BY <1>1, <1>2, <1>3, PTL DEF IssuerSpec

\* Whatever an author sends is signed with the key its issuer's nym has on the
\* ledger, if the nym is there.
THEOREM SignaturesFit == IssuerSpec => []SentIsSigned
<1>1. IssuerInit => CInv
  BY InitCInv
<1>2. CInv /\ [IssuerNext]_allvars => CInv'
  BY NextCInv
<1>3. CInv => SentIsSigned
  <2> SUFFICES ASSUME CInv, NEW c \in Calls, txn[c] = "sent"
               PROVE  LET did == creq[c].id.did
                      IN  \/ ledger[did[1]][did[2]] = None
                          \/ ledger[did[1]][did[2]].verkey = creq[c].key
    BY DEF SentIsSigned
  <2> DEFINE did == creq[c].id.did
  <2>1. did \in Dids /\ did[2] \notin LocalNyms /\ creq[c].key = did[2]
    BY SignedDid
  <2>2. did[1] \in Namespaces /\ \E r \in Requests : did[2] = VerKey(r)
    BY <2>1, DidParts DEF Nyms
  <2> QED
    BY <2>1, <2>2 DEF CInv, IInv, LedgerNyms
<1> QED
  BY <1>1, <1>2, <1>3, PTL DEF IssuerSpec

\* No object is ever registered under a DID the wallet had before.
THEOREM NewNymsIssue == IssuerSpec => []OnlyNewNymsIssue
<1>1. IssuerInit => CInv
  BY InitCInv
<1>2. CInv /\ [IssuerNext]_allvars => CInv'
  BY NextCInv
<1>3. CInv => OnlyNewNymsIssue
  BY DEF CInv
<1> QED
  BY <1>1, <1>2, <1>3, PTL DEF IssuerSpec

\* A credential definition refers to the schema its caller fetched, if that is
\* on the definition's ledger.
THEOREM RightSchema == IssuerSpec => []CredDefOfItsSchema
<1>1. IssuerInit => CInv
  BY InitCInv
<1>2. CInv /\ [IssuerNext]_allvars => CInv'
  BY NextCInv
<1>3. CInv => CredDefOfItsSchema
  <2> SUFFICES ASSUME CInv, NEW n \in Namespaces, NEW i \in 1..Len(objects[n]),
                      objects[n][i].id.kind = "cred_def",
                      creq[objects[n][i].by].of.did[1] = n
               PROVE  objects[n][objects[n][i].id.ref].id = creq[objects[n][i].by].of
    BY DEF CredDefOfItsSchema
  <2> DEFINE d == objects[n][i].by
  <2>1. d \in Calls /\ Registers(d) /\ creq[d].id = objects[n][i].id
    BY DEF CInv, Made
  <2>2. Refers(d)
    BY <2>1 DEF CInv, CallInv
  <2> QED
    BY <2>1, <2>2 DEF Refers, At
<1> QED
  BY <1>1, <1>2, <1>3, PTL DEF IssuerSpec

\* A new-did request that has answered 200 has its nym on the ledger.
LEMMA AnsweredNym ==
  ASSUME IInv, NEW r \in Requests, pc[r] = "ok", req[r].kind = "new"
  PROVE  ledger[Did(r)[1]][Did(r)[2]] # None
<1>1. req[r] # None
  BY NoneAssumption DEF IInv, Handlers, Handler, NoneAssumption
<1>2. ledger[req[r].namespace][VerKey(r)] # None
  BY <1>1 DEF IInv, Progress, Published
<1> QED
  BY <1>2 DEF Did, Nym

\* What the registry has registered and the registrar has published is never
\* reported as not found.
THEOREM FoundForever == IssuerSpec => NotFoundIsTrue
<1>1. IssuerInit => CInv
  BY InitCInv
<1>2. CInv /\ [IssuerNext]_allvars => CInv'
  BY NextCInv
<1> DEFINE Missing(c) == cpc[c] = "idle" /\ cpc'[c] = "not_found"
           Truly(c) ==
             /\ \A d \in Calls :
                  cpc[d] = "ok" /\ creq[d].op = "register" /\ creq'[c].op = "get" =>
                    creq[d].id # creq'[c].id
             /\ \A r \in Requests :
                  pc[r] = "ok" /\ req[r].kind = "new" /\ creq'[c].op = "resolve" =>
                    Did(r) # creq'[c].id.did
<1>3. CInv /\ [IssuerNext]_allvars =>
        [\A c \in Calls : Missing(c) => Truly(c)]_allvars
  <2> SUFFICES ASSUME CInv, [IssuerNext]_allvars, NEW c \in Calls, Missing(c)
               PROVE  Truly(c)
    OBVIOUS
  <2>1. Get(c) \/ Resolve(c)
    <3>1. ASSUME NEW d \in Calls, Serve(d) PROVE d = c
      BY <3>1
      DEF CInv, IssuerTypeOK, Serve, RegisterSchema, RegisterCredDef,
          RegisterRevRegDef, Begins, Submit, LedgerTakes, LedgerRefuses, Return,
          Answers, Get, Resolve, Raises, Move
    <3>2. Serve(c)
      BY <3>1 DEF CInv, IssuerTypeOK, IssuerNext, allvars, cvars, Register,
                  AgentRestart
    <3>3. ~(\E label \in {"author", "sent", "ok", "raised"} : Move(c, label))
      BY DEF Move, CInv, IssuerTypeOK
    <3>4. cpc' # cpc
      OBVIOUS
    <3> QED
      BY <3>2, <3>3, <3>4
      DEF Serve, RegisterSchema, RegisterCredDef, RegisterRevRegDef, Begins,
          Submit, LedgerTakes, LedgerRefuses, Return, Answers, Raises
  <2>2. CASE Get(c)
    <3>1. PICK id \in AskedFor :
            /\ Asks(c, "get", id, id)
            /\ \/ Positions(id) = {}
               \/ \E i \in Positions(id) : Answers(c, id, i)
      BY <2>2 DEF Get
    <3>2. creq'[c].op = "get" /\ creq'[c].id = id
      BY <3>1 DEF Asks, CInv, IssuerTypeOK
    <3>3. Positions(id) = {}
      BY <3>1 DEF Answers, Move, CInv, IssuerTypeOK
    <3>4. ASSUME NEW d \in Calls, cpc[d] = "ok", creq[d].op = "register",
                 creq[d].id = id
          PROVE  FALSE
      <4>1. Registers(d)
        BY <3>4 DEF CInv, CallInv, Called, Registers
      <4>2. result[d] # None /\ result[d].id = id
        BY <3>4, <4>1 DEF CInv, CallInv, Resulted
      <4>3. At(id.did[1], result[d].seqNo, id)
        BY <4>2 DEF CInv, CallInv, Resulted
      <4> QED
        BY <3>3, <4>3 DEF Positions, At
    <3> QED
      BY <3>2, <3>4
  <2>3. CASE Resolve(c)
    <3>1. PICK did \in Nameable, t \in Tags :
            LET id == Id("schema", did, 0, t)
            IN  /\ Asks(c, "resolve", id, id)
                /\ Move(c, IF ledger[did[1]][did[2]] = None THEN "not_found"
                           ELSE "ok")
      BY <2>3 DEF Resolve
    <3>2. creq'[c].op = "resolve" /\ creq'[c].id.did = did
      BY <3>1 DEF Asks, Id, CInv, IssuerTypeOK
    <3>3. ledger[did[1]][did[2]] = None
      BY <3>1 DEF Move, CInv, IssuerTypeOK
    <3> QED
      BY <3>2, <3>3, AnsweredNym DEF CInv
  <2> QED
    BY <2>1, <2>2, <2>3
<1>4. [][\A c \in Calls : Missing(c) => Truly(c)]_allvars => NotFoundIsTrue
  BY PTL DEF NotFoundIsTrue
<1> QED
  BY <1>1, <1>2, <1>3, <1>4, PTL DEF IssuerSpec

=============================================================================
