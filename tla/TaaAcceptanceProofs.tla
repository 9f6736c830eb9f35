------------------------ MODULE TaaAcceptanceProofs ------------------------
(* Proofs about TaaAcceptance, for any tenants, ledgers, versions and       *)
(* number of requests.                                                      *)
EXTENDS TaaAcceptance, SequenceTheorems, TLAPS

-----------------------------------------------------------------------------
(* The inductive invariant                                                 *)

\* What is known of the handler of r from where it stands.
Handler(r) ==
  /\ pc[r] = "idle" => req[r] = None /\ taa[r] = None
  /\ pc[r] \in InFlight \cup {"ok"} => req[r] \in Request
  /\ pc[r] \in {"add", "update"} =>
       /\ req[r].kind = "accept"
       /\ req[r].namespace \in Namespaces
  /\ pc[r] = "check" => req[r].kind = "get"
  /\ pc[r] \in {"read", "fill"} =>
       req[r].kind = "author" /\ req[r].namespace \in Ledgers
  /\ pc[r] = "fill" => taa[r] \in Acceptance

\* An accept request keeps, to the end, the acceptance issued for its agreement.
Issued(r) ==
  (req[r] # None /\ req[r].kind = "accept") =>
    /\ req[r].version \in Versions
    /\ taa[r] \in Acceptance
    /\ req[r].namespace # None =>
         taa[r].digest = Digest(req[r].namespace, req[r].version)

Accepted(t, a) == \E q \in Requests : AcceptedBy(q, t, a)

\* Each stored record is the record of its id, and was accepted by its tenant.
Stored(t) ==
  \A rec \in storage[t] :
    /\ rec.id = RecordId(rec.namespace, rec.version)
    /\ rec.digest = Digest(rec.namespace, rec.version)
    /\ Accepted(t, Load(rec))

\* So was what the tenant's cache entries hold.
Cached(t) ==
  \A n \in Ledgers :
    cache[n][CacheKey(n, t)] # None => Accepted(t, cache[n][CacheKey(n, t)])

\* And what the handler of a reading request holds.
Held(r) ==
  (req[r] # None /\ req[r].kind # "accept" /\ taa[r] # None) =>
    Accepted(req[r].tenant, taa[r])

\* An acknowledged acceptance has its record.
Kept(r) ==
  (pc[r] = "ok" /\ req[r].kind = "accept" /\ req[r].namespace # None) =>
    \E rec \in storage[req[r].tenant] :
      rec.id = RecordId(req[r].namespace, req[r].version)

Handlers == \A r \in Requests : Handler(r) /\ Issued(r)
Provenance ==
  /\ \A t \in Tenants : Stored(t) /\ Cached(t)
  /\ \A r \in Requests : Held(r)
Durability == \A r \in Requests : Kept(r)

\* The store keeps one record per id.
OneRecordPerId ==
  \A t \in Tenants : \A x, y \in storage[t] : x.id = y.id => x = y

IInv == TypeOK /\ Handlers /\ Provenance /\ Durability /\ OneRecordPerId

-----------------------------------------------------------------------------
(* Lemmas about the data                                                   *)

\* The id of a record tells its namespace and its version: no two agreements
\* share a record (record_id in save_taa_acceptance).
LEMMA RecordIdInjective ==
  \A m, n \in Namespaces, v, w \in Versions :
    RecordId(m, v) = RecordId(n, w) => m = n /\ v = w
BY ConstantsAssumption, AppendInjective DEF ConstantsAssumption, RecordId

\* What is stored loads as an acceptance (TAAAcceptanceSchema).
LEMMA LoadType ==
  ASSUME NEW rec \in Record
  PROVE  /\ Load(rec) \in Acceptance
         /\ Load(rec) # None
         /\ Load(rec).digest = rec.digest
BY ConstantsAssumption, NoneAssumption
DEF ConstantsAssumption, NoneAssumption, Record, Acceptance, Load

\* The record an accept request saves (save_taa_acceptance).
LEMMA RecordOfType ==
  ASSUME IInv, NEW r \in Requests, pc[r] \in {"add", "update"}
  PROVE  /\ RecordOf(r) \in Record
         /\ RecordOf(r).id = RecordId(RecordOf(r).namespace, RecordOf(r).version)
         /\ RecordOf(r).digest = Digest(RecordOf(r).namespace, RecordOf(r).version)
         /\ req[r].tenant \in Tenants
         /\ AcceptedBy(r, req[r].tenant, Load(RecordOf(r)))
<1>1. /\ req[r] \in Request /\ req[r] # None
      /\ req[r].kind = "accept"
      /\ req[r].namespace \in Namespaces /\ req[r].namespace # None
  BY NoneAssumption, ConstantsAssumption
  DEF IInv, Handlers, Handler, InFlight, NoneAssumption, ConstantsAssumption
<1>2. /\ req[r].version \in Versions
      /\ taa[r] \in Acceptance /\ taa[r] # None
      /\ taa[r].digest = Digest(req[r].namespace, req[r].version)
  BY <1>1, NoneAssumption DEF IInv, Handlers, Issued, NoneAssumption
<1>3. RecordOf(r) \in Record
  BY <1>1, <1>2 DEF RecordOf, Record, Acceptance, Digests
<1>4. AcceptedBy(r, req[r].tenant, Load(RecordOf(r)))
  BY <1>1, <1>2 DEF AcceptedBy, RecordOf, Load
<1> QED
  BY <1>1, <1>2, <1>3, <1>4 DEF RecordOf, Request

-----------------------------------------------------------------------------
(* The initial state and the steps                                         *)

\* An accept request's arguments and acceptance are set once: nothing that is
\* Accepted stops being so.
AcceptsKept ==
  \A q \in Requests :
    (req[q] # None /\ req[q].kind = "accept") =>
      req'[q] = req[q] /\ taa'[q] = taa[q]

LEMMA AcceptedStable ==
  ASSUME AcceptsKept, NEW t, NEW a, Accepted(t, a)
  PROVE  Accepted(t, a)'
BY DEF AcceptsKept, Accepted, AcceptedBy

\* Storage, cache and what readers hold keep their provenance when an action
\* leaves storage and cache alone, and no reader takes up anything.
LEMMA ProvenanceUnchanged ==
  ASSUME IInv, AcceptsKept, UNCHANGED <<storage, cache>>,
         \A r \in Requests : Held(r)'
  PROVE  Provenance'
<1>1. ASSUME NEW t \in Tenants PROVE Stored(t)'
  BY AcceptedStable DEF IInv, Provenance, Stored
<1>2. ASSUME NEW t \in Tenants PROVE Cached(t)'
  BY AcceptedStable DEF IInv, Provenance, Cached
<1> QED
  BY <1>1, <1>2 DEF Provenance

LEMMA InitIInv == Init => IInv
<1> SUFFICES ASSUME Init PROVE IInv
  OBVIOUS
<1>1. TypeOK
  BY DEF Init, TypeOK
<1>2. Handlers
  BY DEF Init, Handlers, Handler, Issued, InFlight
<1>3. Provenance
  <2>1. ASSUME NEW t \in Tenants PROVE Stored(t)
    BY DEF Init, Stored
  <2>2. ASSUME NEW t \in Tenants PROVE Cached(t)
    <3>1. \A n \in Ledgers : CacheKey(n, t) \in CacheKeys
      BY DEF CacheKeys
    <3> QED
      BY <3>1 DEF Init, Cached
  <2>3. ASSUME NEW r \in Requests PROVE Held(r)
    BY DEF Init, Held
  <2> QED
    BY <2>1, <2>2, <2>3 DEF Provenance
<1>4. Durability /\ OneRecordPerId
  BY DEF Init, Durability, Kept, OneRecordPerId
<1> QED
  BY <1>1, <1>2, <1>3, <1>4 DEF IInv

LEMMA DriverFailsStep ==
  ASSUME IInv, NEW r \in Requests, DriverFails(r)
  PROVE  IInv'
<1> USE DEF DriverFails, Goto
<1>1. TypeOK'
  BY DEF IInv, TypeOK, InFlight, Finished
<1>2. Handlers'
  BY DEF IInv, TypeOK, Handlers, Handler, Issued, InFlight
<1>3. AcceptsKept
  BY DEF AcceptsKept
<1>4. Provenance'
  BY <1>3, ProvenanceUnchanged, AcceptedStable DEF IInv, Provenance, Held
<1>5. Durability' /\ OneRecordPerId'
  BY DEF IInv, TypeOK, Durability, Kept, OneRecordPerId
<1> QED
  BY <1>1, <1>2, <1>4, <1>5 DEF IInv

LEMMA AcceptTaaStep ==
  ASSUME IInv, NEW r \in Requests, AcceptTaa(r)
  PROVE  IInv'
<1>1. PICK t \in Tenants, n \in Namespaces, v \in Versions,
           m \in Mechanisms \cup {None}, named \in BOOLEAN :
        /\ Arguments(r, "accept", t, IF named THEN n ELSE None, v, FALSE)
        /\ taa' = [taa EXCEPT ![r] = [digest |-> Digest(n, v), mechanism |-> m,
                                      time |-> clock]]
        /\ Goto(r, IF named THEN "add" ELSE "ok")
  BY DEF AcceptTaa
<1>2. /\ pc[r] = "idle" /\ req[r] = None
      /\ clock' = clock + 1
      /\ UNCHANGED <<storage, cache, swallowed, listed>>
  BY DEF AcceptTaa, IInv, Handlers, Handler
<1>3. req'[r] \in Request /\ taa'[r] \in Acceptance
  BY <1>1 DEF IInv, TypeOK, Arguments, Request, Acceptance, Digests
<1>4. TypeOK'
  BY <1>1, <1>2, <1>3 DEF IInv, TypeOK, Arguments, Goto, InFlight, Finished
<1>5. Handlers'
  <2>1. Handler(r)' /\ Issued(r)'
    BY <1>1, <1>2, <1>3, ConstantsAssumption
    DEF IInv, TypeOK, Handler, Issued, Arguments, Goto, InFlight,
        ConstantsAssumption
  <2>2. ASSUME NEW q \in Requests, q # r PROVE Handler(q)' /\ Issued(q)'
    BY <1>1, <2>2 DEF IInv, TypeOK, Handlers, Handler, Issued, Arguments, Goto
  <2> QED
    BY <2>1, <2>2 DEF Handlers
<1>6. AcceptsKept
  BY <1>1, <1>2 DEF AcceptsKept, Arguments
<1>7. Provenance'
  <2>1. ASSUME NEW q \in Requests PROVE Held(q)'
    BY <1>1, <1>2, <1>6, AcceptedStable
    DEF IInv, TypeOK, Provenance, Held, Arguments
  <2> QED
    BY <1>2, <1>6, <2>1, ProvenanceUnchanged
<1>8. Durability' /\ OneRecordPerId'
  BY <1>1, <1>2
  DEF IInv, TypeOK, Durability, Kept, OneRecordPerId, Arguments, Goto
<1> QED
  BY <1>4, <1>5, <1>7, <1>8 DEF IInv

LEMMA AddRecordStep ==
  ASSUME IInv, NEW r \in Requests, AddRecord(r)
  PROVE  IInv'
<1> DEFINE t == req[r].tenant
<1>1. /\ pc[r] = "add"
      /\ UNCHANGED <<cache, req, taa, swallowed, listed, clock>>
  BY DEF AddRecord
<1>2. /\ t \in Tenants
      /\ RecordOf(r) \in Record
      /\ RecordOf(r).id = RecordId(RecordOf(r).namespace, RecordOf(r).version)
      /\ RecordOf(r).digest = Digest(RecordOf(r).namespace, RecordOf(r).version)
      /\ AcceptedBy(r, t, Load(RecordOf(r)))
  BY <1>1, RecordOfType
<1>3. AcceptsKept
  BY <1>1 DEF AcceptsKept
<1>4. CASE /\ WithId(t, RecordOf(r).id) = {}
           /\ storage' = [storage EXCEPT ![t] = @ \cup {RecordOf(r)}]
           /\ Goto(r, "ok")
  <2>1. TypeOK'
    BY <1>1, <1>2, <1>4 DEF IInv, TypeOK, Goto, InFlight, Finished
  <2>2. Handlers'
    BY <1>1, <1>4 DEF IInv, TypeOK, Handlers, Handler, Issued, Goto, InFlight
  <2>3. Provenance'
    <3>1. ASSUME NEW s \in Tenants PROVE Stored(s)'
      <4>1. ASSUME NEW rec \in storage[s]
            PROVE  /\ rec.id = RecordId(rec.namespace, rec.version)
                   /\ rec.digest = Digest(rec.namespace, rec.version)
                   /\ Accepted(s, Load(rec))'
        BY <1>3, AcceptedStable DEF IInv, Provenance, Stored
      <4>2. ASSUME NEW rec, rec = RecordOf(r), s = t
            PROVE  Accepted(s, Load(rec))'
        BY <1>2, <1>3, <4>2, AcceptedStable DEF Accepted
      <4>3. \A rec \in storage'[s] :
              rec \in storage[s] \/ (s = t /\ rec = RecordOf(r))
        BY <1>2, <1>4 DEF IInv, TypeOK
      <4> QED
        BY <1>2, <4>1, <4>2, <4>3 DEF Stored
    <3>2. ASSUME NEW s \in Tenants PROVE Cached(s)'
      BY <1>1, <1>3, AcceptedStable DEF IInv, Provenance, Cached
    <3>3. ASSUME NEW q \in Requests PROVE Held(q)'
      BY <1>1, <1>3, AcceptedStable DEF IInv, Provenance, Held
    <3> QED
      BY <3>1, <3>2, <3>3 DEF Provenance
  <2>4. Durability'
    <3>1. RecordOf(r).id = RecordId(req[r].namespace, req[r].version)
      BY DEF RecordOf
    <3>2. Kept(r)'
      BY <1>1, <1>2, <1>4, <3>1 DEF IInv, TypeOK, Kept
    <3>3. ASSUME NEW q \in Requests, q # r PROVE Kept(q)'
      BY <1>1, <1>2, <1>4, <3>3 DEF IInv, TypeOK, Durability, Kept, Goto
    <3> QED
      BY <3>2, <3>3 DEF Durability
  <2>5. OneRecordPerId'
    BY <1>2, <1>4 DEF IInv, TypeOK, OneRecordPerId, WithId
  <2> QED
    BY <2>1, <2>2, <2>3, <2>4, <2>5 DEF IInv
<1>5. CASE UNCHANGED storage /\ Goto(r, "update")
  <2>1. TypeOK'
    BY <1>1, <1>5 DEF IInv, TypeOK, Goto, InFlight
  <2>2. Handlers'
    BY <1>1, <1>5 DEF IInv, TypeOK, Handlers, Handler, Issued, Goto, InFlight
  <2>3. Provenance'
    BY <1>1, <1>3, <1>5, ProvenanceUnchanged, AcceptedStable
    DEF IInv, Provenance, Held
  <2>4. Durability' /\ OneRecordPerId'
    BY <1>1, <1>5 DEF IInv, TypeOK, Durability, Kept, OneRecordPerId, Goto
  <2> QED
    BY <2>1, <2>2, <2>3, <2>4 DEF IInv
<1> QED
  BY <1>4, <1>5 DEF AddRecord

LEMMA UpdateRecordStep ==
  ASSUME IInv, NEW r \in Requests, UpdateRecord(r)
  PROVE  IInv'
<1> DEFINE t == req[r].tenant
<1>1. /\ pc[r] = "update"
      /\ UNCHANGED <<cache, req, taa, swallowed, listed, clock>>
  BY DEF UpdateRecord
<1>2. /\ t \in Tenants
      /\ RecordOf(r) \in Record
      /\ RecordOf(r).id = RecordId(RecordOf(r).namespace, RecordOf(r).version)
      /\ RecordOf(r).digest = Digest(RecordOf(r).namespace, RecordOf(r).version)
      /\ AcceptedBy(r, t, Load(RecordOf(r)))
  BY <1>1, RecordOfType
<1>3. AcceptsKept
  BY <1>1 DEF AcceptsKept
<1>4. CASE /\ WithId(t, RecordOf(r).id) # {}
           /\ storage' = [storage EXCEPT ![t] = Updated(t, RecordOf(r))]
           /\ Goto(r, "ok")
  <2>0. /\ storage'[t] = (storage[t] \ WithId(t, RecordOf(r).id)) \cup {RecordOf(r)}
        /\ \A s \in Tenants : s # t => storage'[s] = storage[s]
    BY <1>2, <1>4 DEF IInv, TypeOK, Updated
  <2>1. TypeOK'
    BY <1>1, <1>2, <1>4 DEF IInv, TypeOK, Goto, InFlight, Finished, Updated
  <2>2. Handlers'
    BY <1>1, <1>4 DEF IInv, TypeOK, Handlers, Handler, Issued, Goto, InFlight
  <2>3. Provenance'
    <3>1. ASSUME NEW s \in Tenants PROVE Stored(s)'
      <4>1. ASSUME NEW rec \in storage[s]
            PROVE  /\ rec.id = RecordId(rec.namespace, rec.version)
                   /\ rec.digest = Digest(rec.namespace, rec.version)
                   /\ Accepted(s, Load(rec))'
        BY <1>3, AcceptedStable DEF IInv, Provenance, Stored
      <4>2. ASSUME NEW rec, rec = RecordOf(r), s = t
            PROVE  Accepted(s, Load(rec))'
        BY <1>2, <1>3, <4>2, AcceptedStable DEF Accepted
      <4>3. \A rec \in storage'[s] :
              rec \in storage[s] \/ (s = t /\ rec = RecordOf(r))
        BY <2>0
      <4> QED
        BY <1>2, <4>1, <4>2, <4>3 DEF Stored
    <3>2. ASSUME NEW s \in Tenants PROVE Cached(s)'
      BY <1>1, <1>3, AcceptedStable DEF IInv, Provenance, Cached
    <3>3. ASSUME NEW q \in Requests PROVE Held(q)'
      BY <1>1, <1>3, AcceptedStable DEF IInv, Provenance, Held
    <3> QED
      BY <3>1, <3>2, <3>3 DEF Provenance
  <2>4. Durability'
    <3>1. \A s \in Tenants : \A rec \in storage[s] :
            \E new \in storage'[s] : new.id = rec.id
      BY <2>0 DEF WithId
    <3>2. RecordOf(r).id = RecordId(req[r].namespace, req[r].version)
      BY DEF RecordOf
    <3>3. Kept(r)'
      BY <1>1, <2>0, <3>2 DEF Kept
    <3>4. ASSUME NEW q \in Requests, q # r PROVE Kept(q)'
      <4>1. SUFFICES ASSUME pc[q] = "ok", req[q].kind = "accept",
                            req[q].namespace # None
                     PROVE  \E rec \in storage'[req[q].tenant] :
                              rec.id = RecordId(req[q].namespace, req[q].version)
        BY <1>1, <1>4, <3>4 DEF IInv, TypeOK, Kept, Goto
      <4>2. req[q].tenant \in Tenants
        BY <4>1 DEF IInv, Handlers, Handler, Request
      <4> QED
        BY <3>1, <4>1, <4>2 DEF IInv, Durability, Kept
    <3> QED
      BY <3>3, <3>4 DEF Durability
  <2>5. OneRecordPerId'
    BY <2>0 DEF IInv, OneRecordPerId, WithId
  <2> QED
    BY <2>1, <2>2, <2>3, <2>4, <2>5 DEF IInv
<1>5. CASE UNCHANGED storage /\ Goto(r, "e500")
  <2>1. TypeOK'
    BY <1>1, <1>5 DEF IInv, TypeOK, Goto, Finished
  <2>2. Handlers'
    BY <1>1, <1>5 DEF IInv, TypeOK, Handlers, Handler, Issued, Goto, InFlight
  <2>3. Provenance'
    BY <1>1, <1>3, <1>5, ProvenanceUnchanged, AcceptedStable
    DEF IInv, Provenance, Held
  <2>4. Durability' /\ OneRecordPerId'
    BY <1>1, <1>5 DEF IInv, TypeOK, Durability, Kept, OneRecordPerId, Goto
  <2> QED
    BY <2>1, <2>2, <2>3, <2>4 DEF IInv
<1> QED
  BY <1>4, <1>5 DEF UpdateRecord

LEMMA GetTaaStep ==
  ASSUME IInv, NEW r \in Requests, GetTaa(r)
  PROVE  IInv'
<1>1. PICK t \in Tenants, n \in Namespaces, v \in Versions \cup {None},
           owed \in BOOLEAN :
        /\ Arguments(r, "get", t, n, v, owed)
        /\ Goto(r, "check") \/ Goto(r, "e500")
  BY DEF GetTaa, Acknowledged
<1>2. /\ pc[r] = "idle" /\ req[r] = None /\ taa[r] = None
      /\ UNCHANGED <<storage, cache, taa, swallowed, listed, clock>>
  BY DEF GetTaa, IInv, Handlers, Handler
<1>3. req'[r] \in Request /\ req'[r].kind = "get"
  BY <1>1 DEF IInv, TypeOK, Arguments, Request
<1>4. TypeOK'
  BY <1>1, <1>2, <1>3 DEF IInv, TypeOK, Arguments, Goto, InFlight, Finished
<1>5. Handlers'
  <2>1. Handler(r)' /\ Issued(r)'
    BY <1>1, <1>3 DEF IInv, TypeOK, Handler, Issued, Goto, InFlight
  <2>2. ASSUME NEW q \in Requests, q # r PROVE Handler(q)' /\ Issued(q)'
    BY <1>1, <1>2, <2>2
    DEF IInv, TypeOK, Handlers, Handler, Issued, Arguments, Goto
  <2> QED
    BY <2>1, <2>2 DEF Handlers
<1>6. AcceptsKept
  BY <1>1, <1>2 DEF AcceptsKept, Arguments
<1>7. Provenance'
  <2>1. ASSUME NEW q \in Requests PROVE Held(q)'
    BY <1>1, <1>2, <1>6, AcceptedStable
    DEF IInv, TypeOK, Provenance, Held, Arguments
  <2> QED
    BY <1>2, <1>6, <2>1, ProvenanceUnchanged
<1>8. Durability' /\ OneRecordPerId'
  BY <1>1, <1>2
  DEF IInv, TypeOK, Durability, Kept, OneRecordPerId, Arguments, Goto
<1> QED
  BY <1>4, <1>5, <1>7, <1>8 DEF IInv

\* A record a reader finds in its wallet loads as an acceptance of its tenant.
LEMMA FoundIsAccepted ==
  ASSUME IInv, NEW t \in Tenants, NEW v, NEW rec \in Matches(t, v)
  PROVE  Load(rec) \in Acceptance /\ Accepted(t, Load(rec))
<1>1. rec \in storage[t] /\ rec \in Record
  BY DEF IInv, TypeOK, Matches
<1> QED
  BY <1>1, LoadType DEF IInv, Provenance, Stored

LEMMA ListTaaAcceptancesStep ==
  ASSUME IInv, NEW r \in Requests, ListTaaAcceptances(r)
  PROVE  IInv'
<1>1. PICK t \in Tenants :
        /\ Arguments(r, "list", t, None, None, FALSE)
        /\ \/ listed' = [listed EXCEPT ![r] = {Load(rec) : rec \in storage[t]}]
              /\ UNCHANGED swallowed
           \/ swallowed' = [swallowed EXCEPT ![r] = TRUE] /\ UNCHANGED listed
  BY DEF ListTaaAcceptances
<1>2. /\ pc[r] = "idle" /\ req[r] = None /\ taa[r] = None
      /\ Goto(r, "ok")
      /\ UNCHANGED <<storage, cache, taa, clock>>
  BY DEF ListTaaAcceptances, IInv, Handlers, Handler
<1>3. req'[r] \in Request /\ req'[r].kind = "list"
  BY <1>1 DEF IInv, TypeOK, Arguments, Request
<1>4. TypeOK'
  <2>1. {Load(rec) : rec \in storage[t]} \in SUBSET Acceptance
    BY LoadType DEF IInv, TypeOK
  <2>2. listed' \in [Requests -> SUBSET Acceptance]
    BY <1>1, <2>1 DEF IInv, TypeOK
  <2>3. swallowed' \in [Requests -> BOOLEAN]
    BY <1>1 DEF IInv, TypeOK
  <2> QED
    BY <1>1, <1>2, <1>3, <2>2, <2>3 DEF IInv, TypeOK, Arguments, Goto, Finished
<1>5. Handlers'
  <2>1. Handler(r)' /\ Issued(r)'
    BY <1>2, <1>3 DEF IInv, TypeOK, Handler, Issued, Goto, InFlight
  <2>2. ASSUME NEW q \in Requests, q # r PROVE Handler(q)' /\ Issued(q)'
    BY <1>1, <1>2, <2>2
    DEF IInv, TypeOK, Handlers, Handler, Issued, Arguments, Goto
  <2> QED
    BY <2>1, <2>2 DEF Handlers
<1>6. AcceptsKept
  BY <1>1, <1>2 DEF AcceptsKept, Arguments
<1>7. Provenance'
  <2>1. ASSUME NEW q \in Requests PROVE Held(q)'
    BY <1>1, <1>2, <1>6, AcceptedStable
    DEF IInv, TypeOK, Provenance, Held, Arguments
  <2> QED
    BY <1>2, <1>6, <2>1, ProvenanceUnchanged
<1>8. Durability' /\ OneRecordPerId'
  BY <1>1, <1>2, <1>3
  DEF IInv, TypeOK, Durability, Kept, OneRecordPerId, Arguments, Goto
<1> QED
  BY <1>4, <1>5, <1>7, <1>8 DEF IInv

\* What CheckAccepted and ReadRecord have in common: a reading handler takes up
\* a record of its wallet, or nothing, and goes on.
LEMMA ReaderStep ==
  ASSUME IInv, NEW r \in Requests,
         pc[r] \in {"check", "read"},
         NEW label \in {"fill", "ok"}, Goto(r, label),
         label = "fill" => pc[r] = "read" /\ taa'[r] \in Acceptance,
         UNCHANGED <<storage, cache, req, listed, clock>>,
         swallowed' \in [Requests -> BOOLEAN],
         \/ UNCHANGED taa
         \/ \E v : \E rec \in Matches(req[r].tenant, v) :
              taa' = [taa EXCEPT ![r] = Load(rec)]
  PROVE  IInv'
<1>1. /\ req[r] \in Request /\ req[r] # None
      /\ req[r].tenant \in Tenants
      /\ req[r].kind \in {"get", "author"}
  BY NoneAssumption
  DEF IInv, Handlers, Handler, InFlight, NoneAssumption, Request
<1>2. \/ UNCHANGED taa
      \/ \E a \in Acceptance :
           taa' = [taa EXCEPT ![r] = a] /\ Accepted(req[r].tenant, a)
  BY <1>1, FoundIsAccepted
<1>3. /\ taa' \in [Requests -> Acceptance \cup {None}]
      /\ \A q \in Requests : q # r => taa'[q] = taa[q]
  BY <1>2 DEF IInv, TypeOK
<1>4. TypeOK'
  BY <1>3 DEF IInv, TypeOK, Goto, InFlight, Finished
<1>5. Handlers'
  <2>1. Handler(r)' /\ Issued(r)'
    BY <1>1 DEF IInv, TypeOK, Handlers, Handler, Issued, Goto, InFlight
  <2>2. ASSUME NEW q \in Requests, q # r PROVE Handler(q)' /\ Issued(q)'
    BY <1>3, <2>2 DEF IInv, TypeOK, Handlers, Handler, Issued, Goto
  <2> QED
    BY <2>1, <2>2 DEF Handlers
<1>6. AcceptsKept
  BY <1>1, <1>3 DEF AcceptsKept
<1>7. Provenance'
  <2>1. Held(r)'
    <3>1. taa'[r] # None => Accepted(req[r].tenant, taa'[r])
      BY <1>1, <1>2 DEF IInv, TypeOK, Provenance, Held
    <3>2. ASSUME NEW t, NEW a, t = req[r].tenant, a = taa'[r], a # None
          PROVE  Accepted(t, a)'
      BY <1>6, <3>1, <3>2, AcceptedStable
    <3> QED
      BY <3>2 DEF Held
  <2>2. ASSUME NEW q \in Requests, q # r PROVE Held(q)'
    BY <1>3, <1>6, <2>2, AcceptedStable DEF IInv, Provenance, Held
  <2> QED
    BY <1>6, <2>1, <2>2, ProvenanceUnchanged
<1>8. Durability' /\ OneRecordPerId'
  BY <1>1 DEF IInv, TypeOK, Durability, Kept, OneRecordPerId, Goto
<1> QED
  BY <1>4, <1>5, <1>7, <1>8 DEF IInv

LEMMA CheckAcceptedStep ==
  ASSUME IInv, NEW r \in Requests, CheckAccepted(r)
  PROVE  IInv'
<1>1. swallowed' \in [Requests -> BOOLEAN]
  BY DEF CheckAccepted, IInv, TypeOK
<1>2. \/ UNCHANGED taa
      \/ \E v : \E rec \in Matches(req[r].tenant, v) :
           taa' = [taa EXCEPT ![r] = Load(rec)]
  BY DEF CheckAccepted
<1> QED
  BY <1>1, <1>2, ReaderStep DEF CheckAccepted

LEMMA ReadRecordStep ==
  ASSUME IInv, NEW r \in Requests, ReadRecord(r)
  PROVE  IInv'
<1>1. swallowed' \in [Requests -> BOOLEAN]
  BY DEF ReadRecord, IInv, TypeOK
<1>2. req[r].tenant \in Tenants
  BY DEF ReadRecord, IInv, Handlers, Handler, InFlight, Request
<1>3. \/ Goto(r, "ok") /\ UNCHANGED taa
      \/ /\ Goto(r, "fill") /\ taa'[r] \in Acceptance
         /\ \E v : \E rec \in Matches(req[r].tenant, v) :
              taa' = [taa EXCEPT ![r] = Load(rec)]
  BY <1>2, FoundIsAccepted DEF ReadRecord, IInv, TypeOK
<1>4. CASE Goto(r, "ok") /\ UNCHANGED taa
  BY <1>1, <1>4, ReaderStep DEF ReadRecord
<1>5. CASE /\ Goto(r, "fill") /\ taa'[r] \in Acceptance
           /\ \E v : \E rec \in Matches(req[r].tenant, v) :
                taa' = [taa EXCEPT ![r] = Load(rec)]
  BY <1>1, <1>5, ReaderStep DEF ReadRecord
<1> QED
  BY <1>3, <1>4, <1>5

LEMMA AuthorGetTaaStep ==
  ASSUME IInv, NEW r \in Requests, AuthorGetTaa(r)
  PROVE  IInv'
<1>1. PICK t \in Tenants, n \in Namespaces :
        /\ Arguments(r, "author", t, n, None, FALSE)
        /\ \/ n \notin Ledgers /\ Goto(r, "e500") /\ UNCHANGED taa
           \/ /\ n \in Ledgers /\ cache[n][CacheKey(n, t)] # None
              /\ taa' = [taa EXCEPT ![r] = cache[n][CacheKey(n, t)]]
              /\ Goto(r, "ok")
           \/ n \in Ledgers /\ Goto(r, "read") /\ UNCHANGED taa
  BY DEF AuthorGetTaa
<1>2. /\ pc[r] = "idle" /\ req[r] = None /\ taa[r] = None
      /\ UNCHANGED <<storage, cache, swallowed, listed, clock>>
  BY DEF AuthorGetTaa, IInv, Handlers, Handler
<1>3. /\ req'[r] \in Request
      /\ req'[r].kind = "author" /\ req'[r].tenant = t /\ req'[r].namespace = n
      /\ \A q \in Requests : q # r => req'[q] = req[q]
  BY <1>1 DEF IInv, TypeOK, Arguments, Request
<1>4. \/ UNCHANGED taa
      \/ \E a \in Acceptance :
           taa' = [taa EXCEPT ![r] = a] /\ Accepted(t, a)
  <2>1. n \in Ledgers => CacheKey(n, t) \in CacheKeys
    BY DEF CacheKeys
  <2> QED
    BY <1>1, <2>1 DEF IInv, TypeOK, Provenance, Cached
<1>5. /\ taa' \in [Requests -> Acceptance \cup {None}]
      /\ \A q \in Requests : q # r => taa'[q] = taa[q]
  BY <1>4 DEF IInv, TypeOK
<1>6. TypeOK'
  BY <1>1, <1>2, <1>3, <1>5
  DEF IInv, TypeOK, Arguments, Goto, InFlight, Finished
<1>7. Handlers'
  <2>1. Handler(r)' /\ Issued(r)'
    BY <1>1, <1>3 DEF IInv, TypeOK, Handler, Issued, Goto, InFlight
  <2>2. ASSUME NEW q \in Requests, q # r PROVE Handler(q)' /\ Issued(q)'
    BY <1>1, <1>3, <1>5, <2>2 DEF IInv, TypeOK, Handlers, Handler, Issued, Goto
  <2> QED
    BY <2>1, <2>2 DEF Handlers
<1>8. AcceptsKept
  BY <1>2, <1>3, <1>5 DEF AcceptsKept
<1>9. Provenance'
  <2>1. Held(r)'
    <3>1. taa'[r] # None => Accepted(t, taa'[r])
      BY <1>2, <1>4 DEF IInv, TypeOK
    <3>2. ASSUME NEW a, a = taa'[r], a # None PROVE Accepted(t, a)'
      BY <1>8, <3>1, <3>2, AcceptedStable
    <3> QED
      BY <1>3, <3>2 DEF Held
  <2>2. ASSUME NEW q \in Requests, q # r PROVE Held(q)'
    BY <1>3, <1>5, <1>8, <2>2, AcceptedStable DEF IInv, Provenance, Held
  <2> QED
    BY <1>2, <1>8, <2>1, <2>2, ProvenanceUnchanged
<1>10. Durability' /\ OneRecordPerId'
  BY <1>1, <1>2, <1>3
  DEF IInv, TypeOK, Durability, Kept, OneRecordPerId, Goto
<1> QED
  BY <1>6, <1>7, <1>9, <1>10 DEF IInv

LEMMA FillCacheStep ==
  ASSUME IInv, NEW r \in Requests, FillCache(r)
  PROVE  IInv'
<1> DEFINE t == req[r].tenant
           n == req[r].namespace
<1>1. /\ pc[r] = "fill" /\ Goto(r, "ok")
      /\ cache' = [cache EXCEPT ![n][CacheKey(n, t)] = taa[r]]
      /\ UNCHANGED <<storage, req, taa, swallowed, listed, clock>>
  BY DEF FillCache
<1>2. /\ req[r] \in Request /\ req[r] # None /\ req[r].kind = "author"
      /\ n \in Ledgers /\ t \in Tenants
      /\ taa[r] \in Acceptance /\ taa[r] # None
  BY <1>1, NoneAssumption
  DEF IInv, Handlers, Handler, InFlight, NoneAssumption, Request
<1>3. Accepted(t, taa[r])
  BY <1>2 DEF IInv, Provenance, Held
<1>4. TypeOK'
  BY <1>1, <1>2 DEF IInv, TypeOK, Goto, InFlight, Finished
<1>5. Handlers'
  BY <1>1 DEF IInv, TypeOK, Handlers, Handler, Issued, Goto, InFlight
<1>6. AcceptsKept
  BY <1>1 DEF AcceptsKept
<1>7. Provenance'
  <2>1. ASSUME NEW s \in Tenants PROVE Stored(s)'
    BY <1>1, <1>6, AcceptedStable DEF IInv, Provenance, Stored
  <2>2. ASSUME NEW s \in Tenants PROVE Cached(s)'
    <3>1. ASSUME NEW m \in Ledgers, NEW a, a = cache'[m][CacheKey(m, s)], a # None
          PROVE  Accepted(s, a)
      <4>1. CacheKey(m, s) \in CacheKeys /\ CacheKey(n, t) \in CacheKeys
        BY <1>2 DEF CacheKeys
      <4>2. CASE m = n /\ s = t
        BY <1>1, <1>2, <1>3, <3>1, <4>1, <4>2 DEF IInv, TypeOK
      <4>3. CASE ~(m = n /\ s = t)
        <5>1. CacheKey(m, s) # CacheKey(n, t)
          BY <4>3 DEF CacheKey
        <5>2. a = cache[m][CacheKey(m, s)]
          BY <1>1, <1>2, <3>1, <4>1, <5>1 DEF IInv, TypeOK
        <5> QED
          BY <3>1, <5>2 DEF IInv, Provenance, Cached
      <4> QED
        BY <4>2, <4>3
    <3>2. ASSUME NEW m \in Ledgers, NEW a, a = cache'[m][CacheKey(m, s)], a # None
          PROVE  Accepted(s, a)'
      BY <1>6, <3>1, <3>2, AcceptedStable
    <3> QED
      BY <3>2 DEF Cached, CacheKey
  <2>3. ASSUME NEW q \in Requests PROVE Held(q)'
    BY <1>1, <1>6, AcceptedStable DEF IInv, Provenance, Held
  <2> QED
    BY <2>1, <2>2, <2>3 DEF Provenance
<1>8. Durability' /\ OneRecordPerId'
  BY <1>1, <1>2 DEF IInv, TypeOK, Durability, Kept, OneRecordPerId, Goto
<1> QED
  BY <1>4, <1>5, <1>7, <1>8 DEF IInv

\* Entries only go when they expire and when the process restarts.
LEMMA CacheDrop ==
  ASSUME IInv, AcceptsKept, UNCHANGED <<storage, req, taa>>,
         \A n \in Ledgers, t \in Tenants :
           \/ cache'[n][CacheKey(n, t)] = cache[n][CacheKey(n, t)]
           \/ cache'[n][CacheKey(n, t)] = None
  PROVE  Provenance'
<1>1. ASSUME NEW t \in Tenants PROVE Stored(t)'
  BY AcceptedStable DEF IInv, Provenance, Stored
<1>2. ASSUME NEW t \in Tenants PROVE Cached(t)'
  BY AcceptedStable DEF IInv, Provenance, Cached, CacheKey
<1>3. ASSUME NEW r \in Requests PROVE Held(r)'
  BY AcceptedStable DEF IInv, Provenance, Held
<1> QED
  BY <1>1, <1>2, <1>3 DEF Provenance

LEMMA ExpireStep ==
  ASSUME IInv, NEW n \in Ledgers, NEW k \in CacheKeys, Expire(n, k)
  PROVE  IInv'
<1> USE DEF Expire
<1>1. TypeOK'
  BY DEF IInv, TypeOK
<1>2. Handlers'
  BY DEF IInv, Handlers, Handler, Issued
<1>3. AcceptsKept
  BY DEF AcceptsKept
<1>4. ASSUME NEW m \in Ledgers, NEW t \in Tenants
      PROVE  \/ cache'[m][CacheKey(m, t)] = cache[m][CacheKey(m, t)]
             \/ cache'[m][CacheKey(m, t)] = None
  <2>1. CacheKey(m, t) \in CacheKeys
    BY DEF CacheKeys
  <2> QED
    BY <2>1 DEF IInv, TypeOK
<1>5. Provenance'
  BY <1>3, <1>4, CacheDrop
<1>6. Durability' /\ OneRecordPerId'
  BY DEF IInv, Durability, Kept, OneRecordPerId
<1> QED
  BY <1>1, <1>2, <1>5, <1>6 DEF IInv

LEMMA RestartStep ==
  ASSUME IInv, Restart
  PROVE  IInv'
<1> USE DEF Restart
<1>1. TypeOK'
  BY DEF IInv, TypeOK, InFlight, Finished
<1>2. Handlers'
  BY DEF IInv, TypeOK, Handlers, Handler, Issued, InFlight
<1>3. AcceptsKept
  BY DEF AcceptsKept
<1>4. ASSUME NEW m \in Ledgers, NEW t \in Tenants
      PROVE  cache'[m][CacheKey(m, t)] = None
  <2>1. CacheKey(m, t) \in CacheKeys
    BY DEF CacheKeys
  <2> QED
    BY <2>1
<1>5. Provenance'
  BY <1>3, <1>4, CacheDrop
<1>6. Durability' /\ OneRecordPerId'
  BY DEF IInv, TypeOK, Durability, Kept, OneRecordPerId, InFlight
<1> QED
  BY <1>1, <1>2, <1>5, <1>6 DEF IInv

LEMMA NextIInv == IInv /\ [Next]_vars => IInv'
<1> SUFFICES ASSUME IInv, [Next]_vars PROVE IInv'
  OBVIOUS
<1>1. ASSUME NEW r \in Requests, Handle(r) PROVE IInv'
  BY <1>1, DriverFailsStep, AcceptTaaStep, AddRecordStep, UpdateRecordStep,
     GetTaaStep, CheckAcceptedStep, ListTaaAcceptancesStep, AuthorGetTaaStep,
     ReadRecordStep, FillCacheStep DEF Handle
<1>2. ASSUME NEW n \in Ledgers, NEW k \in CacheKeys, Expire(n, k) PROVE IInv'
  BY <1>2, ExpireStep
<1>3. CASE Restart
  BY <1>3, RestartStep
<1>4. CASE UNCHANGED vars
  BY <1>4
  DEF vars, IInv, TypeOK, Handlers, Handler, Issued, Provenance, Stored, Cached,
      Held, Accepted, AcceptedBy, Durability, Kept, OneRecordPerId
<1> QED
  BY <1>1, <1>2, <1>3, <1>4 DEF Next

-----------------------------------------------------------------------------
(* What the routes have answered                                           *)

\* What has been listed was accepted by the tenant that asked for it.
Listed(r) == \A a \in listed[r] : req[r] # None /\ Accepted(req[r].tenant, a)

\* Before it reads, a "get" that owes an acceptance has it acknowledged; what it
\* takes up is of its version; it takes up nothing only when nothing was owed.
Answered(r) ==
  (req[r] # None /\ req[r].kind = "get") =>
    /\ pc[r] = "check" =>
         /\ req[r].namespace \in Namespaces
         /\ req[r].version \in Versions
         /\ taa[r] = None
         /\ req[r].owed =>
              Acknowledged(req[r].tenant, req[r].namespace, req[r].version)
    /\ taa[r] # None => taa[r].digest.version = req[r].version
    /\ (pc[r] = "ok" /\ req[r].owed /\ ~swallowed[r]) => taa[r] # None

AInv == \A r \in Requests : Listed(r) /\ Answered(r)

LEMMA InitAInv == Init => AInv
BY DEF Init, AInv, Listed, Answered

\* A request that was received stays as it is, and so does its answer.
LEMMA RequestsKept ==
  ASSUME IInv, [Next]_vars
  PROVE  /\ AcceptsKept
         /\ \A q \in Requests : req[q] # None => req'[q] = req[q]
         /\ \A q \in Requests : pc[q] = "ok" => pc'[q] = "ok"
<1> USE DEF AcceptsKept, Goto
<1>1. ASSUME NEW r \in Requests,
             DriverFails(r) \/ AddRecord(r) \/ UpdateRecord(r) \/ FillCache(r)
      PROVE  UNCHANGED <<req, taa>> /\ \A q \in Requests : pc[q] = "ok" => pc'[q] = "ok"
  BY <1>1 DEF DriverFails, AddRecord, UpdateRecord, FillCache, IInv, TypeOK
<1>2. ASSUME NEW r \in Requests,
             AcceptTaa(r) \/ GetTaa(r) \/ ListTaaAcceptances(r) \/ AuthorGetTaa(r)
      PROVE  /\ pc[r] = "idle" /\ req[r] = None
             /\ \A q \in Requests :
                  q # r => req'[q] = req[q] /\ taa'[q] = taa[q] /\ pc'[q] = pc[q]
  BY <1>2
  DEF AcceptTaa, GetTaa, ListTaaAcceptances, AuthorGetTaa, Arguments, IInv,
      TypeOK, Handlers, Handler
<1>3. ASSUME NEW r \in Requests, CheckAccepted(r) \/ ReadRecord(r)
      PROVE  /\ pc[r] \in {"check", "read"} /\ req[r].kind # "accept"
             /\ UNCHANGED req
             /\ \A q \in Requests : q # r => taa'[q] = taa[q] /\ pc'[q] = pc[q]
  BY <1>3 DEF CheckAccepted, ReadRecord, IInv, TypeOK, Handlers, Handler
<1>4. ASSUME \/ \E n \in Ledgers, k \in CacheKeys : Expire(n, k)
             \/ Restart
             \/ UNCHANGED vars
      PROVE  UNCHANGED <<req, taa>> /\ \A q \in Requests : pc[q] = "ok" => pc'[q] = "ok"
  BY <1>4 DEF Expire, Restart, vars, IInv, TypeOK, InFlight
<1>5. CASE \E r \in Requests : Handle(r)
  BY <1>1, <1>2, <1>3, <1>5 DEF Handle
<1> QED
  BY <1>4, <1>5 DEF Next

\* An acknowledged acceptance stays acknowledged.
LEMMA AcknowledgedStable ==
  ASSUME IInv, [Next]_vars, NEW t, NEW n, NEW v, Acknowledged(t, n, v)
  PROVE  Acknowledged(t, n, v)'
<1>1. PICK q \in Requests :
        /\ pc[q] = "ok" /\ req[q].kind = "accept" /\ req[q].tenant = t
        /\ req[q].namespace = n /\ req[q].version = v
  BY DEF Acknowledged
<1>2. req[q] # None
  BY <1>1, NoneAssumption DEF IInv, Handlers, Handler, NoneAssumption
<1> QED
  BY <1>1, <1>2, RequestsKept DEF Acknowledged

\* The record of an acknowledged acceptance (save_taa_acceptance).
LEMMA AcknowledgedHasRecord ==
  ASSUME IInv, NEW q \in Requests,
         pc[q] = "ok", req[q].kind = "accept", req[q].namespace # None
  PROVE  /\ req[q].tenant \in Tenants
         /\ taa[q].digest = Digest(req[q].namespace, req[q].version)
         /\ \E rec \in storage[req[q].tenant] :
              /\ rec.namespace = req[q].namespace
              /\ rec.version = req[q].version
              /\ rec.digest = taa[q].digest
<1>1. /\ req[q].tenant \in Tenants
      /\ req[q].namespace \in Namespaces
      /\ req[q].version \in Versions
      /\ taa[q].digest = Digest(req[q].namespace, req[q].version)
  BY NoneAssumption
  DEF IInv, Handlers, Handler, Issued, Request, NoneAssumption
<1>2. PICK rec \in storage[req[q].tenant] :
        rec.id = RecordId(req[q].namespace, req[q].version)
  BY DEF IInv, Durability, Kept
<1>3. /\ rec.namespace \in Namespaces /\ rec.version \in Versions
      /\ rec.id = RecordId(rec.namespace, rec.version)
      /\ rec.digest = Digest(rec.namespace, rec.version)
  BY <1>1 DEF IInv, TypeOK, Provenance, Stored, Record
<1>4. rec.namespace = req[q].namespace /\ rec.version = req[q].version
  <2>1. RecordId(rec.namespace, rec.version)
          = RecordId(req[q].namespace, req[q].version)
    BY <1>2, <1>3
  <2>2. ASSUME NEW m \in Namespaces, NEW v \in Versions,
               m = rec.namespace, v = rec.version
        PROVE  m = req[q].namespace /\ v = req[q].version
    BY <1>1, <2>1, <2>2, RecordIdInjective
  <2> QED
    BY <1>3, <2>2
<1> QED
  BY <1>1, <1>3, <1>4

LEMMA NextAInv == IInv /\ AInv /\ [Next]_vars => AInv'
<1> SUFFICES ASSUME IInv, AInv, [Next]_vars PROVE AInv'
  OBVIOUS
<1>1. ASSUME NEW q \in Requests, UNCHANGED listed[q] PROVE Listed(q)'
  BY <1>1, RequestsKept, AcceptedStable DEF AInv, Listed
<1>2. ASSUME NEW q \in Requests, UNCHANGED <<pc[q], req[q], taa[q], swallowed[q]>>
      PROVE  Answered(q)'
  BY <1>2, AcknowledgedStable DEF AInv, Answered
<1>3. ASSUME NEW r \in Requests, Handle(r) PROVE AInv'
  <2>1. ASSUME NEW q \in Requests, q # r
        PROVE  UNCHANGED <<pc[q], req[q], taa[q], swallowed[q], listed[q]>>
    BY <1>3, <2>1
    DEF Handle, DriverFails, AcceptTaa, AddRecord, UpdateRecord, GetTaa,
        CheckAccepted, ListTaaAcceptances, AuthorGetTaa, ReadRecord, FillCache,
        Arguments, Goto, IInv, TypeOK
  <2>2. Listed(r)'
    <3>1. CASE ListTaaAcceptances(r)
      <4>1. PICK t \in Tenants :
              /\ Arguments(r, "list", t, None, None, FALSE)
              /\ \/ listed' = [listed EXCEPT ![r] = {Load(rec) : rec \in storage[t]}]
                 \/ UNCHANGED listed
        BY <3>1 DEF ListTaaAcceptances
      <4>2. req'[r] # None /\ req'[r].tenant = t
        <5>1. req'[r] = [kind |-> "list", tenant |-> t, namespace |-> None,
                         version |-> None, owed |-> FALSE]
          BY <4>1 DEF IInv, TypeOK, Arguments
        <5>2. req'[r] \in Request
          <6>1. [kind |-> "list", tenant |-> t, namespace |-> None,
                 version |-> None, owed |-> FALSE] \in Request
            BY DEF Request
          <6> QED
            BY <5>1, <6>1
        <5>3. req'[r].tenant = t
          BY <5>1
        <5> QED
          BY <5>2, <5>3, NoneAssumption DEF NoneAssumption
      <4>3. ASSUME NEW a \in listed'[r] PROVE Accepted(t, a)
        <5>1. CASE listed' = [listed EXCEPT ![r] = {Load(rec) : rec \in storage[t]}]
          BY <4>3, <5>1 DEF IInv, TypeOK, Provenance, Stored
        <5>2. CASE UNCHANGED listed
          BY <3>1, <4>3, <5>2
          DEF ListTaaAcceptances, IInv, Handlers, Handler, AInv, Listed
        <5> QED
          BY <4>1, <5>1, <5>2
      <4>4. ASSUME NEW a \in listed'[r] PROVE Accepted(t, a)'
        BY <4>3, RequestsKept, AcceptedStable
      <4> QED
        BY <4>2, <4>4 DEF Listed
    <3>2. CASE ~ListTaaAcceptances(r)
      <4>1. UNCHANGED listed
        BY <1>3, <3>2
        DEF Handle, DriverFails, AcceptTaa, AddRecord, UpdateRecord, GetTaa,
            CheckAccepted, AuthorGetTaa, ReadRecord, FillCache
      <4> QED
        BY <1>1, <4>1
    <3> QED
      BY <3>1, <3>2
  <2>3. Answered(r)'
    <3>1. CASE GetTaa(r)
      <4>1. PICK t \in Tenants, n \in Namespaces :
              \/ \E v \in Versions :
                   /\ Arguments(r, "get", t, n, v, Acknowledged(t, n, v))
                   /\ Goto(r, "check")
              \/ /\ Arguments(r, "get", t, n, None, FALSE)
                 /\ Goto(r, "e500")
        BY <3>1 DEF GetTaa
      <4>2. taa'[r] = None
        BY <3>1 DEF GetTaa, IInv, Handlers, Handler
      <4>3. CASE pc'[r] # "check"
        BY <4>1, <4>2, <4>3 DEF Answered, Goto, IInv, TypeOK
      <4>4. CASE pc'[r] = "check"
        <5>1. PICK v \in Versions :
                req'[r] = [kind |-> "get", tenant |-> t, namespace |-> n,
                           version |-> v, owed |-> Acknowledged(t, n, v)]
          BY <4>1, <4>4 DEF Arguments, Goto, IInv, TypeOK
        <5>2. Acknowledged(t, n, v) => Acknowledged(t, n, v)'
          BY AcknowledgedStable
        <5> QED
          BY <4>2, <4>4, <5>1, <5>2 DEF Answered
      <4> QED
        BY <4>3, <4>4
    <3>2. CASE CheckAccepted(r)
      <4>1. /\ pc[r] = "check" /\ pc'[r] = "ok" /\ UNCHANGED <<req, storage>>
            /\ req[r] \in Request /\ req[r] # None /\ req[r].kind = "get"
            /\ req[r].tenant \in Tenants
            /\ req[r].version \in Versions /\ req[r].version # None
            /\ taa[r] = None
        BY <3>2, NoneAssumption, ConstantsAssumption
        DEF CheckAccepted, Goto, IInv, TypeOK, Handlers, Handler, InFlight, AInv,
            Answered, Request, NoneAssumption, ConstantsAssumption
      <4>2. ASSUME NEW rec \in Matches(req[r].tenant, req[r].version),
                   taa' = [taa EXCEPT ![r] = Load(rec)]
            PROVE  Answered(r)'
        <5>1. /\ rec \in Record /\ rec.version = req[r].version
              /\ rec.digest = Digest(rec.namespace, rec.version)
          BY <4>1 DEF Matches, IInv, TypeOK, Provenance, Stored
        <5>2. taa'[r] # None /\ taa'[r].digest.version = req[r].version
          BY <4>2, <5>1, LoadType DEF IInv, TypeOK, Digest
        <5> QED
          BY <4>1, <5>2 DEF Answered
      <4>3. ASSUME Matches(req[r].tenant, req[r].version) = {}, UNCHANGED taa
            PROVE  Answered(r)'
        <5>1. ~req[r].owed
          <6>1. ASSUME req[r].owed PROVE FALSE
            <7>1. PICK q \in Requests :
                    /\ pc[q] = "ok" /\ req[q].kind = "accept"
                    /\ req[q].tenant = req[r].tenant
                    /\ req[q].namespace = req[r].namespace
                    /\ req[q].version = req[r].version
              BY <4>1, <6>1 DEF AInv, Answered, Acknowledged
            <7>2. req[r].namespace # None
              BY <4>1, ConstantsAssumption DEF AInv, Answered, ConstantsAssumption
            <7>3. PICK rec \in storage[req[r].tenant] :
                    rec.version = req[r].version
              BY <7>1, <7>2, AcknowledgedHasRecord
            <7> QED
              BY <4>3, <7>3 DEF Matches
          <6> QED
            BY <6>1
        <5> QED
          BY <4>1, <4>3, <5>1 DEF Answered
      <4>4. ASSUME swallowed' = [swallowed EXCEPT ![r] = TRUE], UNCHANGED taa
            PROVE  Answered(r)'
        BY <4>1, <4>4 DEF Answered, IInv, TypeOK
      <4> QED
        BY <3>2, <4>2, <4>3, <4>4 DEF CheckAccepted
    <3>3. CASE ~GetTaa(r) /\ ~CheckAccepted(r)
      <4>1. req'[r] # None /\ req'[r].kind = "get" =>
              UNCHANGED <<req[r], taa[r], swallowed[r]>> /\ pc'[r] \notin {"check", "ok"}
        BY <1>3, <3>3
        DEF Handle, DriverFails, AcceptTaa, AddRecord, UpdateRecord,
            ListTaaAcceptances, AuthorGetTaa, ReadRecord, FillCache, Arguments,
            Goto, IInv, TypeOK, Handlers, Handler
      <4> QED
        BY <4>1 DEF AInv, Answered
    <3> QED
      BY <3>1, <3>2, <3>3
  <2> QED
    BY <1>1, <1>2, <2>1, <2>2, <2>3 DEF AInv
<1>4. CASE \/ \E n \in Ledgers, k \in CacheKeys : Expire(n, k)
           \/ UNCHANGED vars
  <2>1. UNCHANGED <<pc, req, taa, swallowed, listed>>
    BY <1>4 DEF Expire, vars
  <2> QED
    BY <1>1, <1>2, <2>1 DEF AInv
<1>5. CASE Restart
  <2>1. /\ UNCHANGED <<req, taa, swallowed, listed>>
        /\ \A q \in Requests : pc'[q] = pc[q] \/ pc'[q] = "lost"
    BY <1>5 DEF Restart, IInv, TypeOK
  <2>2. ASSUME NEW q \in Requests PROVE Answered(q)'
    <3>1. CASE pc'[q] = pc[q]
      BY <1>2, <2>1, <3>1
    <3>2. CASE pc'[q] = "lost"
      BY <2>1, <3>2 DEF AInv, Answered
    <3> QED
      BY <2>1, <3>1, <3>2
  <2> QED
    BY <1>1, <2>1, <2>2 DEF AInv
<1> QED
  BY <1>3, <1>4, <1>5 DEF Next

-----------------------------------------------------------------------------
(* What has been served is still recorded                                  *)

\* Tenant t's wallet has a record of the agreement of a.
Recorded(t, a) == \E rec \in storage[t] : rec.digest = a.digest

\* The agreements of a tenant's cache entries are recorded.
CacheRecorded ==
  \A t \in Tenants, n \in Ledgers :
    cache[n][CacheKey(n, t)] # None => Recorded(t, cache[n][CacheKey(n, t)])

\* So are those that a reading request holds or has listed.
Served(r) ==
  /\ req[r] = None => listed[r] = {}
  /\ (req[r] # None /\ req[r].kind # "accept") =>
       \A a \in ({taa[r]} \ {None}) \cup listed[r] : Recorded(req[r].tenant, a)

RInv == CacheRecorded /\ \A r \in Requests : Served(r)

LEMMA InitRInv == Init => RInv
<1>1. \A n \in Ledgers, t \in Tenants : CacheKey(n, t) \in CacheKeys
  BY DEF CacheKeys
<1> QED
  BY <1>1 DEF Init, RInv, CacheRecorded, Served

\* No step takes the last record of an agreement out of a wallet: an update puts
\* a record of the same agreement in the place of the one it removes.
LEMMA RecordedStable ==
  ASSUME IInv, [Next]_vars, NEW t \in Tenants, NEW a, Recorded(t, a)
  PROVE  Recorded(t, a)'
<1>1. CASE UNCHANGED storage
  BY <1>1 DEF Recorded
<1>2. ASSUME NEW r \in Requests, AddRecord(r), ~UNCHANGED storage
      PROVE  Recorded(t, a)'
  BY <1>2 DEF AddRecord, Recorded, IInv, TypeOK
<1>3. ASSUME NEW r \in Requests, UpdateRecord(r), ~UNCHANGED storage
      PROVE  Recorded(t, a)'
  <2> DEFINE u == req[r].tenant
             new == RecordOf(r)
  <2>1. /\ u \in Tenants
        /\ new \in Record
        /\ new.id = RecordId(new.namespace, new.version)
        /\ new.digest = Digest(new.namespace, new.version)
    BY <1>3, RecordOfType DEF UpdateRecord
  <2>2. /\ storage'[u] = (storage[u] \ WithId(u, new.id)) \cup {new}
        /\ \A s \in Tenants : s # u => storage'[s] = storage[s]
    BY <1>3, <2>1 DEF UpdateRecord, Updated, IInv, TypeOK
  <2>3. CASE t # u
    BY <2>2, <2>3 DEF Recorded
  <2>4. CASE t = u
    <3>1. PICK rec \in storage[t] : rec.digest = a.digest
      BY DEF Recorded
    <3>2. CASE rec \notin WithId(u, new.id)
      BY <2>2, <2>4, <3>1, <3>2 DEF Recorded
    <3>3. CASE rec \in WithId(u, new.id)
      <4>1. /\ rec \in Record
            /\ rec.id = RecordId(rec.namespace, rec.version)
            /\ rec.digest = Digest(rec.namespace, rec.version)
        BY <3>1 DEF IInv, TypeOK, Provenance, Stored
      <4>2. RecordId(rec.namespace, rec.version)
              = RecordId(new.namespace, new.version)
        BY <2>1, <3>3, <4>1 DEF WithId
      <4>3. ASSUME NEW m \in Namespaces, NEW v \in Versions,
                   m = rec.namespace, v = rec.version
            PROVE  Digest(m, v) = new.digest
        <5>1. new.namespace \in Namespaces /\ new.version \in Versions
          BY <2>1 DEF Record
        <5>2. m = new.namespace /\ v = new.version
          BY <4>2, <4>3, <5>1, RecordIdInjective
        <5> QED
          BY <2>1, <5>2
      <4>4. new.digest = a.digest
        BY <3>1, <4>1, <4>3 DEF Record
      <4> QED
        BY <2>2, <2>4, <4>4 DEF Recorded
    <3> QED
      BY <3>2, <3>3
  <2> QED
    BY <2>3, <2>4
<1>4. ASSUME NEW r \in Requests, Handle(r), ~AddRecord(r), ~UpdateRecord(r)
      PROVE  UNCHANGED storage
  BY <1>4
  DEF Handle, DriverFails, AcceptTaa, GetTaa, CheckAccepted,
      ListTaaAcceptances, AuthorGetTaa, ReadRecord, FillCache
<1>5. ASSUME \/ \E n \in Ledgers, k \in CacheKeys : Expire(n, k)
             \/ Restart
             \/ UNCHANGED vars
      PROVE  UNCHANGED storage
  BY <1>5 DEF Expire, Restart, vars
<1> QED
  BY <1>1, <1>2, <1>3, <1>4, <1>5 DEF Next

\* What a wallet's record loads as is recorded in it.
LEMMA LoadedIsRecorded ==
  ASSUME IInv, NEW t \in Tenants, NEW rec \in storage[t]
  PROVE  Recorded(t, Load(rec))
BY LoadType DEF IInv, TypeOK, Recorded

\* A fill of the cache caches what its request read from its tenant's wallet.
LEMMA NextCacheRecorded ==
  ASSUME IInv, RInv, [Next]_vars
  PROVE  CacheRecorded'
<1> SUFFICES ASSUME NEW t \in Tenants, NEW n \in Ledgers
             PROVE  (cache[n][CacheKey(n, t)] # None =>
                       Recorded(t, cache[n][CacheKey(n, t)]))'
  BY DEF CacheRecorded
<1> DEFINE k == CacheKey(n, t)
<1>0. k \in CacheKeys
  BY DEF CacheKeys
<1>1. CASE cache'[n][k] = cache[n][k]
  <2>1. ASSUME NEW a, a = cache[n][k], a # None PROVE Recorded(t, a)'
    BY <2>1, RecordedStable DEF RInv, CacheRecorded
  <2> QED
    BY <1>1, <2>1 DEF Recorded
<1>2. ASSUME NEW r \in Requests, FillCache(r), cache'[n][k] # cache[n][k]
      PROVE  Recorded(t, cache[n][k])'
  <2> DEFINE m == req[r].namespace
             u == req[r].tenant
  <2>1. /\ pc[r] = "fill" /\ UNCHANGED storage
        /\ cache' = [cache EXCEPT ![m][CacheKey(m, u)] = taa[r]]
    BY <1>2 DEF FillCache
  <2>2. /\ req[r] # None /\ req[r].kind = "author"
        /\ taa[r] # None
    BY <2>1, NoneAssumption
    DEF IInv, Handlers, Handler, InFlight, NoneAssumption
  <2>3. n = m /\ k = CacheKey(m, u)
    BY <1>0, <1>2, <2>1 DEF IInv, TypeOK
  <2>4. t = u
    BY <2>3 DEF CacheKey
  <2>5. cache'[n][k] = taa[r]
    BY <1>0, <2>1, <2>3 DEF IInv, TypeOK
  <2>6. Recorded(u, taa[r])
    BY <2>2 DEF RInv, Served
  <2> QED
    BY <2>1, <2>4, <2>5, <2>6 DEF Recorded
<1>3. ASSUME NEW r \in Requests, Handle(r), ~FillCache(r)
      PROVE  UNCHANGED cache
  BY <1>3
  DEF Handle, DriverFails, AcceptTaa, AddRecord, UpdateRecord, GetTaa,
      CheckAccepted, ListTaaAcceptances, AuthorGetTaa, ReadRecord
<1>4. ASSUME \/ \E m \in Ledgers, j \in CacheKeys : Expire(m, j)
             \/ Restart
             \/ UNCHANGED vars
      PROVE  cache'[n][k] = cache[n][k] \/ cache'[n][k] = None
  BY <1>0, <1>4 DEF Expire, Restart, vars, IInv, TypeOK
<1> QED
  BY <1>1, <1>2, <1>3, <1>4 DEF Next

\* A reading request takes up a cache entry of its tenant or what a record of its
\* tenant's wallet loads as, and nothing else.
LEMMA NextServed ==
  ASSUME IInv, RInv, [Next]_vars, NEW q \in Requests
  PROVE  Served(q)'
<1>1. CASE UNCHANGED <<req[q], taa[q], listed[q]>>
  <2>1. req[q] # None => req[q].tenant \in Tenants
    BY DEF IInv, TypeOK, Request
  <2> QED
    BY <1>1, <2>1, RecordedStable DEF RInv, Served
<1>2. ASSUME AcceptTaa(q) PROVE Served(q)'
  <2>1. PICK t \in Tenants, n \in Namespaces, v \in Versions, named \in BOOLEAN :
          Arguments(q, "accept", t, IF named THEN n ELSE None, v, FALSE)
    BY <1>2 DEF AcceptTaa
  <2>2. req'[q].kind = "accept" /\ req'[q] \in Request
    BY <2>1 DEF Arguments, IInv, TypeOK, Request
  <2> QED
    BY <2>2, NoneAssumption DEF Served, NoneAssumption
<1>3. ASSUME GetTaa(q) \/ ListTaaAcceptances(q) \/ AuthorGetTaa(q)
      PROVE  Served(q)'
  <2>1. /\ req[q] = None /\ taa[q] = None /\ listed[q] = {}
        /\ UNCHANGED storage
    BY <1>3
    DEF GetTaa, ListTaaAcceptances, AuthorGetTaa, IInv, Handlers, Handler, RInv,
        Served
  <2>2. CASE GetTaa(q)
    BY <2>1, <2>2 DEF GetTaa, Served
  <2>3. CASE ListTaaAcceptances(q)
    <3>1. PICK t \in Tenants :
            /\ Arguments(q, "list", t, None, None, FALSE)
            /\ \/ listed' = [listed EXCEPT ![q] = {Load(rec) : rec \in storage[t]}]
               \/ UNCHANGED listed
      BY <2>3 DEF ListTaaAcceptances
    <3>2. taa'[q] = None
      BY <2>1, <2>3 DEF ListTaaAcceptances
    <3>3. req'[q] = [kind |-> "list", tenant |-> t, namespace |-> None,
                     version |-> None, owed |-> FALSE]
      BY <3>1 DEF Arguments, IInv, TypeOK
    <3>4. req'[q].tenant = t /\ req'[q] \in Request
      BY <3>3 DEF Request
    <3>5. \A a \in listed'[q] : Recorded(t, a)
      BY <2>1, <3>1, LoadedIsRecorded DEF IInv, TypeOK
    <3>6. \A a \in listed'[q] : Recorded(t, a)'
      BY <2>1, <3>5 DEF Recorded
    <3> QED
      BY <3>2, <3>4, <3>6, NoneAssumption DEF Served, NoneAssumption
  <2>4. CASE AuthorGetTaa(q)
    <3>1. PICK t \in Tenants, n \in Namespaces :
            /\ Arguments(q, "author", t, n, None, FALSE)
            /\ \/ UNCHANGED taa
               \/ /\ n \in Ledgers
                  /\ cache[n][CacheKey(n, t)] # None
                  /\ taa' = [taa EXCEPT ![q] = cache[n][CacheKey(n, t)]]
      BY <2>4 DEF AuthorGetTaa
    <3>2. listed'[q] = {}
      BY <2>1, <2>4 DEF AuthorGetTaa
    <3>3. req'[q] = [kind |-> "author", tenant |-> t, namespace |-> n,
                     version |-> None, owed |-> FALSE]
      BY <3>1 DEF Arguments, IInv, TypeOK
    <3>4. req'[q].tenant = t /\ req'[q] \in Request
      BY <3>3 DEF Request
    <3>5. taa'[q] # None => Recorded(t, taa'[q])
      BY <2>1, <3>1 DEF IInv, TypeOK, RInv, CacheRecorded
    <3>6. taa'[q] # None => Recorded(t, taa[q])'
      BY <2>1, <3>5 DEF Recorded
    <3> QED
      BY <3>2, <3>4, <3>6, NoneAssumption DEF Served, NoneAssumption
  <2> QED
    BY <1>3, <2>2, <2>3, <2>4
<1>4. ASSUME CheckAccepted(q) \/ ReadRecord(q) PROVE Served(q)'
  <2>1. /\ UNCHANGED <<storage, req, listed>>
        /\ req[q] \in Request /\ req[q] # None
    BY <1>4, NoneAssumption
    DEF CheckAccepted, ReadRecord, IInv, Handlers, Handler, InFlight,
        NoneAssumption
  <2>2. req[q].tenant \in Tenants
    BY <2>1 DEF Request
  <2>3. taa'[q] = taa[q] \/ \E rec \in storage[req[q].tenant] : taa'[q] = Load(rec)
    BY <1>4 DEF CheckAccepted, ReadRecord, Matches, IInv, TypeOK
  <2>4. taa'[q] = taa[q] \/ Recorded(req[q].tenant, taa'[q])
    BY <2>2, <2>3, LoadedIsRecorded
  <2>5. taa'[q] = taa[q] \/ Recorded(req[q].tenant, taa[q])'
    BY <2>1, <2>4 DEF Recorded
  <2> QED
    BY <2>1, <2>2, <2>5, RecordedStable DEF RInv, Served
<1>5. ASSUME NEW r \in Requests, Handle(r), r # q
      PROVE  UNCHANGED <<req[q], taa[q], listed[q]>>
  BY <1>5
  DEF Handle, DriverFails, AcceptTaa, AddRecord, UpdateRecord, GetTaa,
      CheckAccepted, ListTaaAcceptances, AuthorGetTaa, ReadRecord, FillCache,
      Arguments, IInv, TypeOK
<1>6. ASSUME DriverFails(q) \/ AddRecord(q) \/ UpdateRecord(q) \/ FillCache(q)
      PROVE  UNCHANGED <<req[q], taa[q], listed[q]>>
  BY <1>6 DEF DriverFails, AddRecord, UpdateRecord, FillCache
<1>7. ASSUME \/ \E n \in Ledgers, k \in CacheKeys : Expire(n, k)
             \/ Restart
             \/ UNCHANGED vars
      PROVE  UNCHANGED <<req[q], taa[q], listed[q]>>
  BY <1>7 DEF Expire, Restart, vars
<1>8. ASSUME Handle(q) PROVE Served(q)'
  BY <1>1, <1>2, <1>3, <1>4, <1>6, <1>8 DEF Handle
<1> QED
  BY <1>1, <1>5, <1>7, <1>8 DEF Next

LEMMA NextRInv == IInv /\ RInv /\ [Next]_vars => RInv'
BY NextCacheRecorded, NextServed DEF RInv

-----------------------------------------------------------------------------
(* Results                                                                 *)

\* Wallets, caches and handlers always have their types.
THEOREM TypeCorrect == Spec => []TypeOK
<1>1. Init => IInv
  BY InitIInv
<1>2. IInv /\ [Next]_vars => IInv'
  BY NextIInv
<1>3. IInv => TypeOK
  BY DEF IInv
<1> QED
  BY <1>1, <1>2, <1>3, PTL DEF Spec

\* A transaction never carries, and no route ever shows, an acceptance that its
\* own tenant did not make, for any number of tenants, ledgers and requests.
THEOREM OwnAcceptance == Spec => []TenantsOwnAcceptance
<1>1. Init => IInv /\ AInv
  BY InitIInv, InitAInv
<1>2. (IInv /\ AInv) /\ [Next]_vars => (IInv /\ AInv)'
  BY NextIInv, NextAInv
<1>3. IInv /\ AInv => TenantsOwnAcceptance
  <2> SUFFICES ASSUME IInv, AInv, NEW r \in Requests, pc[r] = "ok",
                      req[r].kind # "accept",
                      NEW a \in ({taa[r]} \ {None}) \cup listed[r]
               PROVE  \E q \in Requests : AcceptedBy(q, req[r].tenant, a)
    BY DEF TenantsOwnAcceptance
  <2>1. req[r] # None
    BY NoneAssumption DEF IInv, Handlers, Handler, NoneAssumption
  <2>2. CASE a \in listed[r]
    BY <2>2 DEF AInv, Listed, Accepted
  <2>3. CASE a = taa[r] /\ taa[r] # None
    BY <2>1, <2>3 DEF IInv, Provenance, Held, Accepted
  <2> QED
    BY <2>2, <2>3
<1> QED
  BY <1>1, <1>2, <1>3, PTL DEF Spec

\* No author's transaction carries, and no route shows or lists, an acceptance of
\* an agreement its tenant's wallet has no record of, through any races of fills,
\* updates, expiry and restarts: the cache is out of date in details only.
THEOREM ServedAcceptance == Spec => []ServedIsRecorded
<1>1. Init => IInv /\ RInv
  BY InitIInv, InitRInv
<1>2. (IInv /\ RInv) /\ [Next]_vars => (IInv /\ RInv)'
  BY NextIInv, NextRInv
<1>3. IInv /\ RInv => ServedIsRecorded
  BY NoneAssumption
  DEF IInv, Handlers, Handler, RInv, Served, Recorded, ServedIsRecorded,
      NoneAssumption
<1> QED
  BY <1>1, <1>2, <1>3, PTL DEF Spec

\* Concurrent saves never leave two records of one agreement in a wallet.
THEOREM UniqueRecords == Spec => []OneRecordPerAgreement
<1>1. Init => IInv
  BY InitIInv
<1>2. IInv /\ [Next]_vars => IInv'
  BY NextIInv
<1>3. IInv => OneRecordPerAgreement
  BY DEF IInv, Provenance, Stored, OneRecordPerId, OneRecordPerAgreement
<1> QED
  BY <1>1, <1>2, <1>3, PTL DEF Spec

\* An acknowledged acceptance is never lost, whatever follows.
THEOREM Durable == Spec => []AcknowledgedIsDurable
<1>1. Init => IInv
  BY InitIInv
<1>2. IInv /\ [Next]_vars => IInv'
  BY NextIInv
<1>3. IInv => AcknowledgedIsDurable
  BY AcknowledgedHasRecord DEF AcknowledgedIsDurable
<1> QED
  BY <1>1, <1>2, <1>3, PTL DEF Spec

\* An agreement whose acceptance had been acknowledged is shown as accepted
\* unless a storage error was dropped, whatever is saved meanwhile, and what is shown
\* as accepted is of the agreement's version.
THEOREM AcceptedShown == Spec => []AcceptedIsShown
<1>1. Init => IInv /\ AInv
  BY InitIInv, InitAInv
<1>2. (IInv /\ AInv) /\ [Next]_vars => (IInv /\ AInv)'
  BY NextIInv, NextAInv
<1>3. IInv /\ AInv => AcceptedIsShown
  BY NoneAssumption
  DEF IInv, Handlers, Handler, AInv, Answered, AcceptedIsShown, NoneAssumption
<1> QED
  BY <1>1, <1>2, <1>3, PTL DEF Spec

\* A list without a storage error has every acknowledged acceptance, once.
THEOREM AllAreListed == Spec => AcknowledgedIsListed
<1>1. Init => IInv
  BY InitIInv
<1>2. IInv /\ [Next]_vars => IInv'
  BY NextIInv
<1>3. ASSUME IInv, Next, NEW r \in Requests, NEW q \in Requests,
             pc[r] = "idle", pc'[r] = "ok",
             req'[r].kind = "list", ~swallowed'[r],
             pc[q] = "ok", req[q].kind = "accept", req[q].namespace # None,
             req[q].tenant = req'[r].tenant
      PROVE  \E a \in listed'[r] :
               \A b \in listed'[r] : b.digest = taa[q].digest <=> b = a
  <2> DEFINE t == req[q].tenant
  <2>1. ListTaaAcceptances(r)
    <3>1. ASSUME NEW p \in Requests, Handle(p), p # r PROVE pc'[r] = pc[r]
      BY <1>3, <3>1
      DEF Handle, DriverFails, AcceptTaa, AddRecord, UpdateRecord, GetTaa,
          CheckAccepted, ListTaaAcceptances, AuthorGetTaa, ReadRecord, FillCache,
          Goto, IInv, TypeOK
    <3>2. ASSUME \/ \E n \in Ledgers, k \in CacheKeys : Expire(n, k)
                 \/ Restart
          PROVE  pc'[r] = pc[r]
      BY <1>3, <3>2 DEF Expire, Restart, InFlight
    <3>3. Handle(r)
      BY <1>3, <3>1, <3>2 DEF Next
    <3>4. ~AcceptTaa(r) /\ ~GetTaa(r) /\ ~AuthorGetTaa(r) /\ ~DriverFails(r)
      BY <1>3
      DEF AcceptTaa, GetTaa, AuthorGetTaa, DriverFails, Arguments, Goto, IInv,
          TypeOK
    <3>5. /\ ~AddRecord(r) /\ ~UpdateRecord(r) /\ ~CheckAccepted(r)
          /\ ~ReadRecord(r) /\ ~FillCache(r)
      BY <1>3 DEF AddRecord, UpdateRecord, CheckAccepted, ReadRecord, FillCache
    <3> QED
      BY <3>3, <3>4, <3>5 DEF Handle
  <2>2. listed'[r] = {Load(rec) : rec \in storage[t]}
    BY <1>3, <2>1 DEF ListTaaAcceptances, Arguments, IInv, TypeOK
  <2>3. PICK rec \in storage[t] : rec.digest = taa[q].digest
    BY <1>3, AcknowledgedHasRecord
  <2>4. t \in Tenants
    BY <1>3, AcknowledgedHasRecord
  <2>5. ASSUME NEW x \in storage[t], x.digest = rec.digest PROVE x = rec
    <3>1. /\ x.digest = Digest(x.namespace, x.version)
          /\ rec.digest = Digest(rec.namespace, rec.version)
          /\ x.id = RecordId(x.namespace, x.version)
          /\ rec.id = RecordId(rec.namespace, rec.version)
      BY <1>3, <2>4 DEF IInv, Provenance, Stored
    <3>2. ASSUME NEW m, NEW n, NEW v, NEW w,
                 m = x.namespace, n = rec.namespace,
                 v = x.version, w = rec.version
          PROVE  m = n /\ v = w
      <4>1. Digest(m, v) = Digest(n, w)
        BY <2>5, <3>1, <3>2
      <4>2. /\ Digest(m, v).namespace = m /\ Digest(n, w).namespace = n
            /\ Digest(m, v).version = v /\ Digest(n, w).version = w
        BY DEF Digest
      <4> QED
        BY <4>1, <4>2
    <3>3. x.namespace = rec.namespace /\ x.version = rec.version
      BY <3>2
    <3> QED
      BY <1>3, <2>4, <3>1, <3>3 DEF IInv, OneRecordPerId
  <2>6. \A x \in storage[t] : Load(x).digest = x.digest
    BY <1>3, <2>4, LoadType DEF IInv, TypeOK
  <2>7. Load(rec) \in listed'[r]
    BY <2>2
  <2> QED
    BY <2>2, <2>3, <2>5, <2>6, <2>7
<1>4. IInv /\ [Next]_vars =>
        [\A r, q \in Requests :
           /\ pc[r] = "idle" /\ pc'[r] = "ok"
           /\ req'[r].kind = "list" /\ ~swallowed'[r]
           /\ pc[q] = "ok" /\ req[q].kind = "accept" /\ req[q].namespace # None
           /\ req[q].tenant = req'[r].tenant
           => \E a \in listed'[r] :
                \A b \in listed'[r] : b.digest = taa[q].digest <=> b = a]_vars
  BY <1>3
<1> QED
  BY <1>1, <1>2, <1>4, PTL DEF Spec, AcknowledgedIsListed

-----------------------------------------------------------------------------
(* The refinement                                                          *)

Mapped == [t \in Tenants |-> [d \in Digests |-> AcceptedOf(t, d)]]

\* An agreement's digest tells the agreement, and so does its record's id.
LEMMA DigestFields ==
  ASSUME NEW d \in Digests
  PROVE  /\ d.namespace \in Namespaces /\ d.version \in Versions
         /\ d = Digest(d.namespace, d.version)
BY DEF Digests, Digest

\* Replacing a record, or adding the first of its id, puts one acceptance.
LEMMA MappedPut ==
  ASSUME IInv, NEW t \in Tenants, NEW rec \in Record,
         rec.id = RecordId(rec.namespace, rec.version),
         rec.digest = Digest(rec.namespace, rec.version),
         storage' = [storage EXCEPT ![t] = (@ \ WithId(t, rec.id)) \cup {rec}]
  PROVE  Mapped' = [Mapped EXCEPT ![t][rec.digest] = Load(rec)]
<1>1. /\ storage'[t] = (storage[t] \ WithId(t, rec.id)) \cup {rec}
      /\ \A s \in Tenants : s # t => storage'[s] = storage[s]
  BY DEF IInv, TypeOK
<1>2. rec.namespace \in Namespaces /\ rec.version \in Versions /\ rec.digest \in Digests
  BY DEF Record
<1>3. AcceptedOf(t, rec.digest)' = Load(rec)
  <2>1. rec.digest.namespace = rec.namespace /\ rec.digest.version = rec.version
    BY DEF Digest
  <2>2. WithId(t, RecordId(rec.digest.namespace, rec.digest.version))' = {rec}
    BY <1>1, <2>1 DEF WithId
  <2> QED
    BY <2>2 DEF AcceptedOf
<1>4. ASSUME NEW s \in Tenants, NEW d \in Digests, ~(s = t /\ d = rec.digest)
      PROVE  AcceptedOf(s, d)' = AcceptedOf(s, d)
  <2>1. CASE s # t
    BY <1>1, <2>1 DEF AcceptedOf, WithId
  <2>2. CASE s = t
    <3>1. RecordId(d.namespace, d.version) # rec.id
      <4>1. ASSUME NEW m \in Namespaces, NEW v \in Versions,
                   m = rec.namespace, v = rec.version,
                   RecordId(d.namespace, d.version) = RecordId(m, v)
            PROVE  d = Digest(m, v)
        <5>1. d.namespace = m /\ d.version = v
          BY <4>1, DigestFields, RecordIdInjective
        <5> QED
          BY <5>1, DigestFields
      <4> QED
        BY <1>2, <1>4, <2>2, <4>1
    <3>2. WithId(s, RecordId(d.namespace, d.version))'
            = WithId(s, RecordId(d.namespace, d.version))
      BY <1>1, <2>2, <3>1 DEF WithId
    <3> QED
      BY <3>2 DEF AcceptedOf
  <2> QED
    BY <2>1, <2>2
<1>5. [Mapped EXCEPT ![t][rec.digest] = Load(rec)]
        = [s \in Tenants |-> [d \in Digests |->
             IF s = t /\ d = rec.digest THEN Load(rec) ELSE AcceptedOf(s, d)]]
  BY <1>2 DEF Mapped
<1> QED
  BY <1>3, <1>4, <1>5 DEF Mapped

\* Whatever requests race, storage calls fail and processes restart, the wallets
\* behave as the map of AcceptanceStore (save_taa_acceptance).
THEOREM ImplementsStore == Spec => StoreSpec
<1>1. Init => IInv
  BY InitIInv
<1>2. IInv /\ [Next]_vars => IInv'
  BY NextIInv
<1>3. Init => Store!Init
  BY DEF Init, Store!Init, AcceptedOf, WithId
<1>4. IInv /\ [Next]_vars => [Store!Next]_Mapped
  <2> SUFFICES ASSUME IInv, [Next]_vars PROVE [Store!Next]_Mapped
    OBVIOUS
  <2>1. CASE UNCHANGED storage
    BY <2>1 DEF Mapped, AcceptedOf, WithId
  <2>2. ASSUME NEW r \in Requests, AddRecord(r) \/ UpdateRecord(r), ~UNCHANGED storage
        PROVE  Store!Next
    <3> DEFINE t == req[r].tenant
               rec == RecordOf(r)
    <3>1. /\ t \in Tenants
          /\ rec \in Record
          /\ rec.id = RecordId(rec.namespace, rec.version)
          /\ rec.digest = Digest(rec.namespace, rec.version)
      BY <2>2, RecordOfType DEF AddRecord, UpdateRecord
    <3>2. storage' = [storage EXCEPT ![t] = (@ \ WithId(t, rec.id)) \cup {rec}]
      <4>1. CASE AddRecord(r)
        <5>1. /\ WithId(t, rec.id) = {}
              /\ storage' = [storage EXCEPT ![t] = @ \cup {rec}]
          BY <2>2, <4>1 DEF AddRecord
        <5>2. storage[t] \ WithId(t, rec.id) = storage[t]
          BY <5>1
        <5> QED
          BY <5>1, <5>2
      <4>2. CASE UpdateRecord(r)
        BY <2>2, <4>2 DEF UpdateRecord, Updated
      <4> QED
        BY <2>2, <4>1, <4>2
    <3>3. Mapped' = [Mapped EXCEPT ![t][rec.digest] = Load(rec)]
      BY <3>1, <3>2, MappedPut
    <3>4. rec.digest \in Digests /\ Load(rec) # None /\ Load(rec).digest = rec.digest
      BY <3>1, LoadType DEF Record
    <3>5. Mapped'[t][rec.digest] = Load(rec)
      BY <3>1, <3>3, <3>4 DEF Mapped
    <3>6. Store!Put(t, rec.digest)
      BY <3>3, <3>4, <3>5 DEF Store!Put, Mapped
    <3> QED
      BY <3>1, <3>4, <3>6 DEF Store!Next
  <2>3. ASSUME NEW r \in Requests, Handle(r), ~AddRecord(r), ~UpdateRecord(r)
        PROVE  UNCHANGED storage
    BY <2>3
    DEF Handle, DriverFails, AcceptTaa, GetTaa, CheckAccepted,
        ListTaaAcceptances, AuthorGetTaa, ReadRecord, FillCache
  <2>4. ASSUME \/ \E n \in Ledgers, k \in CacheKeys : Expire(n, k)
               \/ Restart
               \/ UNCHANGED vars
        PROVE  UNCHANGED storage
    BY <2>4 DEF Expire, Restart, vars
  <2> QED
    BY <2>1, <2>2, <2>3, <2>4 DEF Next
<1> QED
  BY <1>1, <1>2, <1>3, <1>4, PTL DEF Spec, StoreSpec, Store!Spec, Mapped

=============================================================================
