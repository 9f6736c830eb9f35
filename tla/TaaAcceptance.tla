--------------------------- MODULE TaaAcceptance ---------------------------
(***************************************************************************)
(* Acceptance of a ledger's Transaction Author Agreement (TAA): the admin  *)
(* routes that accept and show an agreement (routes.py), the records they  *)
(* keep in the tenant's wallet (taa_storage.py), and the read-through      *)
(* cache from which an author's transactions take the acceptance they      *)
(* carry (author.py).                                                      *)
(*                                                                         *)
(* Every await that really suspends (the driver's HTTP calls and the       *)
(* wallet's storage) ends an action, so requests of several tenants        *)
(* interleave there.  The in-memory cache never suspends.  Any storage     *)
(* call may fail, and the process may stop and restart at any point.       *)
(***************************************************************************)
EXTENDS Naturals, Sequences

CONSTANTS
  Tenants,      \* wallets; the wallet_id setting of a profile
  Parts,        \* strings without ":"
  Namespaces,   \* ledger namespaces, as the sequence of their ":" parts
  Ledgers,      \* the namespaces that have a pool in this process
  Versions,     \* version strings of agreements
  Mechanisms,   \* acceptance mechanisms of the agreements' AML
  Requests,     \* calls made to this component, each handled once
  None          \* Python's None, an absent field

OnFile == "on_file"

ASSUME ConstantsAssumption ==
  /\ Namespaces \subseteq Seq(Parts)
  /\ Ledgers \subseteq Namespaces
  /\ Versions \subseteq Parts
  /\ OnFile \in Mechanisms
  /\ None \notin Namespaces \cup Versions \cup Mechanisms

VARIABLES
  storage,      \* storage[t]: the acceptance records in tenant t's wallet
  cache,        \* cache[n][k]: entry k of the cache of namespace n's pool
  pc,           \* pc[r]: where the handler of request r stands
  req,          \* req[r]: the arguments of request r once it is known
  taa,          \* taa[r]: the acceptance the handler holds or returned
  swallowed,    \* swallowed[r]: a StorageError was logged and dropped
  listed,       \* listed[r]: the acceptances a list request has returned
  clock         \* stands for the time a new acceptance is stamped with

vars == <<storage, cache, pc, req, taa, swallowed, listed, clock>>

-----------------------------------------------------------------------------
(* Data.  A digest identifies the agreement it was computed from.          *)

Digest(n, v) == [namespace |-> n, version |-> v]

\* A slip that keeps one record per namespace: an acceptance of a later
\* version replaces the earlier one.
RecordIdOfNamespace(n, v) == Append(n, "")

\* f"{namespace}:{version}", the ":" being the separator of the parts.
RecordId(n, v) == Append(n, v)

\* A slip that forgets the wallet: all tenants share one entry per pool.
CacheKeyOfNamespace(n, t) == <<n>>

\* f"{namespace}_taa_cache::{wallet_id}"
CacheKey(n, t) == <<n, t>>

CacheKeys == {CacheKey(n, t) : n \in Ledgers, t \in Tenants}

Digests == {Digest(n, v) : n \in Namespaces, v \in Versions}

\* A TaaAcceptance as the driver returns it and transactions carry it.
Acceptance == [digest: Digests, mechanism: Mechanisms \cup {None}, time: Nat]

\* A stored record; a mechanism of None is dropped when it is dumped.
Record == [id: {RecordId(n, v) : n \in Namespaces, v \in Versions},
           namespace: Namespaces, version: Versions, digest: Digests,
           mechanism: Mechanisms \cup {None}, accepted_at: Nat]

\* A slip that hands out the stored mechanism without the model's default.
LoadNoDefault(rec) ==
  [digest |-> rec.digest, mechanism |-> rec.mechanism, time |-> rec.accepted_at]

\* What a record loads as: an absent mechanism takes the model's default.
Load(rec) ==
  [digest    |-> rec.digest,
   mechanism |-> IF rec.mechanism = None THEN OnFile ELSE rec.mechanism,
   time      |-> rec.accepted_at]

\* owed: whether, when a "get" was answered by the driver, an acceptance of
\* the same agreement had already been acknowledged (no part of the code).
Request == [kind: {"accept", "get", "author", "list"}, tenant: Tenants,
            namespace: Namespaces \cup {None}, version: Versions \cup {None},
            owed: BOOLEAN]

\* None is neither an acceptance nor a request.
ASSUME NoneAssumption == None \notin Acceptance \cup Request

InFlight == {"add", "update", "check", "read", "fill"}
Finished == {"ok", "e404", "e500", "lost"}

-----------------------------------------------------------------------------
Init ==
  /\ storage = [t \in Tenants |-> {}]
  /\ cache = [n \in Ledgers |-> [k \in CacheKeys |-> None]]
  /\ pc = [r \in Requests |-> "idle"]
  /\ req = [r \in Requests |-> None]
  /\ taa = [r \in Requests |-> None]
  /\ swallowed = [r \in Requests |-> FALSE]
  /\ listed = [r \in Requests |-> {}]
  /\ clock = 0

Goto(r, label) == pc' = [pc EXCEPT ![r] = label]

Arguments(r, kind, t, n, v, owed) ==
  req' = [req EXCEPT ![r] = [kind |-> kind, tenant |-> t, namespace |-> n,
                             version |-> v, owed |-> owed]]

\* The driver could not be reached or refused: the route answers 500.
DriverFails(r) ==
  /\ pc[r] = "idle"
  /\ Goto(r, "e500")
  /\ UNCHANGED <<storage, cache, req, taa, swallowed, listed, clock>>

-----------------------------------------------------------------------------
(* POST /did/indy/taa/accept                                               *)

\* The driver turns the agreement into an acceptance.  The record is saved
\* only when the body also names the namespace; either way the answer is 200.
AcceptTaa(r) ==
  /\ pc[r] = "idle"
  /\ \E t \in Tenants, n \in Namespaces, v \in Versions,
        m \in Mechanisms \cup {None}, named \in BOOLEAN :
       /\ Arguments(r, "accept", t, IF named THEN n ELSE None, v, FALSE)
       /\ taa' = [taa EXCEPT ![r] = [digest |-> Digest(n, v), mechanism |-> m,
                                     time |-> clock]]
       /\ Goto(r, IF named THEN "add" ELSE "ok")
  /\ clock' = clock + 1
  /\ UNCHANGED <<storage, cache, swallowed, listed>>

\* A slip that takes the digest from the body's agreement, which carries none.
RecordOfNoDigest(r) ==
  [id          |-> RecordId(req[r].namespace, req[r].version),
   namespace   |-> req[r].namespace,
   version     |-> req[r].version,
   digest      |-> None,
   mechanism   |-> taa[r].mechanism,
   accepted_at |-> taa[r].time]

\* A slip: the record gets an id of its own, as StorageRecord gives one that is
\* made without.
RecordOfOwnId(r) ==
  [id          |-> <<clock>>,
   namespace   |-> req[r].namespace,
   version     |-> req[r].version,
   digest      |-> taa[r].digest,
   mechanism   |-> taa[r].mechanism,
   accepted_at |-> taa[r].time]

\* The record save_taa_acceptance writes for the accept request r.
RecordOf(r) ==
  [id          |-> RecordId(req[r].namespace, req[r].version),
   namespace   |-> req[r].namespace,
   version     |-> req[r].version,
   digest      |-> taa[r].digest,
   mechanism   |-> taa[r].mechanism,
   accepted_at |-> taa[r].time]

WithId(t, id) == {rec \in storage[t] : rec.id = id}

\* storage.add_record: any StorageError, a duplicate or not, leads to update.
AddRecord(r) ==
  LET t == req[r].tenant
  IN  /\ pc[r] = "add"
      /\ \/ /\ WithId(t, RecordOf(r).id) = {}
            /\ storage' = [storage EXCEPT ![t] = @ \cup {RecordOf(r)}]
            /\ Goto(r, "ok")
         \/ /\ UNCHANGED storage
            /\ Goto(r, "update")
      /\ UNCHANGED <<cache, req, taa, swallowed, listed, clock>>

\* storage.update_record replaces the record of the same id.
Updated(t, rec) == (storage[t] \ WithId(t, rec.id)) \cup {rec}

\* A slip: the old record is deleted first, and the new one may fail to follow.
DeleteThenAdd(r) ==
  LET t == req[r].tenant
  IN  /\ pc[r] = "update"
      /\ \/ /\ WithId(t, RecordOf(r).id) # {}
            /\ storage' = [storage EXCEPT ![t] = Updated(t, RecordOf(r))]
            /\ Goto(r, "ok")
         \/ /\ storage' = [storage EXCEPT ![t] = @ \ WithId(t, RecordOf(r).id)]
            /\ Goto(r, "e500")
      /\ UNCHANGED <<cache, req, taa, swallowed, listed, clock>>

\* An error of the update (no such record, or the store failed) is a 500.
UpdateRecord(r) ==
  LET t == req[r].tenant
  IN  /\ pc[r] = "update"
      /\ \/ /\ WithId(t, RecordOf(r).id) # {}
            /\ storage' = [storage EXCEPT ![t] = Updated(t, RecordOf(r))]
            /\ Goto(r, "ok")
         \/ /\ UNCHANGED storage
            /\ Goto(r, "e500")
      /\ UNCHANGED <<cache, req, taa, swallowed, listed, clock>>

-----------------------------------------------------------------------------
(* POST /did/indy/taa                                                      *)

Acknowledged(t, n, v) ==
  \E q \in Requests :
    /\ pc[q] = "ok"
    /\ req[q].kind = "accept"
    /\ req[q].tenant = t
    /\ req[q].namespace = n
    /\ req[q].version = v

\* The driver answers with the agreement in force, or with none.  The 404 for
\* "none" is raised inside the try block, whose handler turns it into a 500.
GetTaa(r) ==
  /\ pc[r] = "idle"
  /\ \E t \in Tenants, n \in Namespaces :
       \/ \E v \in Versions :
            /\ Arguments(r, "get", t, n, v, Acknowledged(t, n, v))
            /\ Goto(r, "check")
       \/ /\ Arguments(r, "get", t, n, None, FALSE)
          /\ Goto(r, "e500")
  /\ UNCHANGED <<storage, cache, taa, swallowed, listed, clock>>

\* find_all_records with the query of get_taa_acceptance: by version only.
Matches(t, v) == {rec \in storage[t] : v = None \/ rec.version = v}

\* A StorageError is logged and read as "not accepted".
CheckAccepted(r) ==
  /\ pc[r] = "check"
  /\ \/ /\ \E rec \in Matches(req[r].tenant, req[r].version) :
             taa' = [taa EXCEPT ![r] = Load(rec)]
        /\ UNCHANGED swallowed
     \/ /\ Matches(req[r].tenant, req[r].version) = {}
        /\ UNCHANGED <<taa, swallowed>>
     \/ /\ swallowed' = [swallowed EXCEPT ![r] = TRUE]
        /\ UNCHANGED taa
  /\ Goto(r, "ok")
  /\ UNCHANGED <<storage, cache, req, listed, clock>>

-----------------------------------------------------------------------------
(* GET /did/indy/taa/acceptances                                           *)

\* All records of the wallet, as they load.  A StorageError is logged and read
\* as "none".
ListTaaAcceptances(r) ==
  /\ pc[r] = "idle"
  /\ \E t \in Tenants :
       /\ Arguments(r, "list", t, None, None, FALSE)
       /\ \/ /\ listed' = [listed EXCEPT ![r] = {Load(rec) : rec \in storage[t]}]
             /\ UNCHANGED swallowed
          \/ /\ swallowed' = [swallowed EXCEPT ![r] = TRUE]
             /\ UNCHANGED listed
  /\ Goto(r, "ok")
  /\ UNCHANGED <<storage, cache, taa, clock>>

-----------------------------------------------------------------------------
(* AcapyAuthorDeps.get_taa, called for every transaction an author builds  *)

\* A namespace without a pool has no cache to ask: the caller gets the error.
AuthorGetTaa(r) ==
  /\ pc[r] = "idle"
  /\ \E t \in Tenants, n \in Namespaces :
       /\ Arguments(r, "author", t, n, None, FALSE)
       /\ \/ /\ n \notin Ledgers
             /\ Goto(r, "e500")
             /\ UNCHANGED taa
          \/ /\ n \in Ledgers
             /\ cache[n][CacheKey(n, t)] # None
             /\ taa' = [taa EXCEPT ![r] = cache[n][CacheKey(n, t)]]
             /\ Goto(r, "ok")
          \/ /\ n \in Ledgers
             /\ cache[n][CacheKey(n, t)] = None
             /\ Goto(r, "read")
             /\ UNCHANGED taa
  /\ UNCHANGED <<storage, cache, swallowed, listed, clock>>

\* get_taa_acceptance(session, namespace): the first record of those found,
\* in whatever order the store returns them.  None is not cached.
ReadRecord(r) ==
  /\ pc[r] = "read"
  /\ \/ /\ \E rec \in Matches(req[r].tenant, None) :
             taa' = [taa EXCEPT ![r] = Load(rec)]
        /\ Goto(r, "fill")
        /\ UNCHANGED swallowed
     \/ /\ Matches(req[r].tenant, None) = {}
        /\ Goto(r, "ok")
        /\ UNCHANGED <<taa, swallowed>>
     \/ /\ swallowed' = [swallowed EXCEPT ![r] = TRUE]
        /\ Goto(r, "ok")
        /\ UNCHANGED taa
  /\ UNCHANGED <<storage, cache, req, listed, clock>>

\* The record read before the await is cached after it, whatever was saved
\* in between, and returned.
FillCache(r) ==
  LET n == req[r].namespace
  IN  /\ pc[r] = "fill"
      /\ cache' = [cache EXCEPT ![n][CacheKey(n, req[r].tenant)] = taa[r]]
      /\ Goto(r, "ok")
      /\ UNCHANGED <<storage, req, taa, swallowed, listed, clock>>

\* A slip: entries are set without a time to live.
NeverExpires(n, k) == FALSE /\ UNCHANGED vars

\* The entry's TTL runs out (CACHE_TTL after it was set).
Expire(n, k) ==
  /\ cache[n][k] # None
  /\ cache' = [cache EXCEPT ![n][k] = None]
  /\ UNCHANGED <<storage, pc, req, taa, swallowed, listed, clock>>

\* The agent stops and starts again: handlers and caches go, wallets stay.
Restart ==
  /\ cache' = [n \in Ledgers |-> [k \in CacheKeys |-> None]]
  /\ pc' = [r \in Requests |-> IF pc[r] \in InFlight THEN "lost" ELSE pc[r]]
  /\ UNCHANGED <<storage, req, taa, swallowed, listed, clock>>

Handle(r) ==
  \/ DriverFails(r)
  \/ AcceptTaa(r)
  \/ AddRecord(r)
  \/ UpdateRecord(r)
  \/ GetTaa(r)
  \/ CheckAccepted(r)
  \/ ListTaaAcceptances(r)
  \/ AuthorGetTaa(r)
  \/ ReadRecord(r)
  \/ FillCache(r)

Next ==
  \/ \E r \in Requests : Handle(r)
  \/ \E n \in Ledgers, k \in CacheKeys : Expire(n, k)
  \/ Restart

Spec == Init /\ [][Next]_vars

\* The event loop's clock advances: an entry does not outlive its TTL forever.
Fairness == \A n \in Ledgers, k \in CacheKeys : WF_vars(Expire(n, k))

FairSpec == Spec /\ Fairness

-----------------------------------------------------------------------------
(* Properties                                                              *)

\* Type invariant of the wallets, the caches and the handlers.
TypeOK ==
  /\ storage \in [Tenants -> SUBSET Record]
  /\ cache \in [Ledgers -> [CacheKeys -> Acceptance \cup {None}]]
  /\ pc \in [Requests -> {"idle"} \cup InFlight \cup Finished]
  /\ req \in [Requests -> Request \cup {None}]
  /\ taa \in [Requests -> Acceptance \cup {None}]
  /\ swallowed \in [Requests -> BOOLEAN]
  /\ listed \in [Requests -> SUBSET Acceptance]
  /\ clock \in Nat

\* Tenant t itself accepted a, through request q: a is what the driver issued
\* for q, with the default mechanism where q named none.
AcceptedBy(q, t, a) ==
  /\ req[q] # None
  /\ req[q].kind = "accept"
  /\ req[q].tenant = t
  /\ taa[q] # None
  /\ a.digest = taa[q].digest
  /\ a.time = taa[q].time
  /\ a.mechanism = IF taa[q].mechanism = None THEN OnFile ELSE taa[q].mechanism

\* The acceptance an author attaches to a transaction, or a route shows or lists,
\* is one that its own tenant made: no interleaving of cache fills, updates, expiry
\* and restarts hands a tenant another tenant's acceptance or a mixed record
\* (author.py get_taa, the wallet_id in its cache key).
TenantsOwnAcceptance ==
  \A r \in Requests :
    (pc[r] = "ok" /\ req[r].kind # "accept") =>
      \A a \in ({taa[r]} \ {None}) \cup listed[r] :
        \E q \in Requests : AcceptedBy(q, req[r].tenant, a)

\* A wallet has at most one record of an agreement, whichever and however many
\* accepts of it were between add_record and update_record at a time, so that
\* no older acceptance survives beside a newer one (save_taa_acceptance).
OneRecordPerAgreement ==
  \A t \in Tenants : \A x, y \in storage[t] :
    x.namespace = y.namespace /\ x.version = y.version => x = y

\* An acceptance once attached to a transaction, shown or listed is of an
\* agreement its tenant's wallet still has a record of, however old the cache
\* entry it came from and whatever replaced the record since: only its time and
\* mechanism can be out of date (author.py get_taa).
ServedIsRecorded ==
  \A r \in Requests :
    (pc[r] = "ok" /\ req[r].kind # "accept") =>
      \A a \in ({taa[r]} \ {None}) \cup listed[r] :
        \E rec \in storage[req[r].tenant] : rec.digest = a.digest

\* A 200 for an acceptance that names its namespace is durable: whatever is
\* accepted later, and across restarts, a record for that namespace and version
\* made by an acceptance of the same agreement is in the wallet.
AcknowledgedIsDurable ==
  \A r \in Requests :
    (pc[r] = "ok" /\ req[r].kind = "accept" /\ req[r].namespace # None) =>
      \E rec \in storage[req[r].tenant] :
        /\ rec.namespace = req[r].namespace
        /\ rec.version = req[r].version
        /\ rec.digest = taa[r].digest

\* The route reports an agreement as accepted when its acceptance had been
\* acknowledged before the driver answered, unless a storage error was dropped;
\* and what it reports is an acceptance of that version, of one ledger or another
\* (get_taa, "Check if we've already accepted this TAA").
AcceptedIsShown ==
  \A r \in Requests : (pc[r] = "ok" /\ req[r].kind = "get") =>
    /\ (req[r].owed /\ ~swallowed[r]) => taa[r] # None
    /\ taa[r] # None => taa[r].digest.version = req[r].version

\* A list that met no storage error has every agreement whose acceptance its
\* tenant had been told is stored, each once, whatever saves were half way
\* (get_all_taa_acceptances).
AcknowledgedIsListed ==
  [][\A r, q \in Requests :
       /\ pc[r] = "idle" /\ pc'[r] = "ok"
       /\ req'[r].kind = "list" /\ ~swallowed'[r]
       /\ pc[q] = "ok" /\ req[q].kind = "accept" /\ req[q].namespace # None
       /\ req[q].tenant = req'[r].tenant
       => \E a \in listed'[r] :
            \A b \in listed'[r] : b.digest = taa[q].digest <=> b = a]_vars

\* Once the calls stop, no pool keeps serving an acceptance that the wallet no
\* longer holds: a fill that raced with an update is gone after its TTL.
StaleEntriesDrain ==
  <>[](\A n \in Ledgers, t \in Tenants :
         cache[n][CacheKey(n, t)] # None =>
           \E rec \in storage[t] : Load(rec) = cache[n][CacheKey(n, t)])

\* The wallets implement the map of AcceptanceStore: in spite of the add that
\* falls through to an update, a save replaces at most the acceptance of its own
\* agreement in its own tenant's wallet, and no step of any request, expiry or
\* restart drops one (save_taa_acceptance).
AcceptedOf(t, d) ==
  LET found == WithId(t, RecordId(d.namespace, d.version))
  IN  IF found = {} THEN None ELSE Load(CHOOSE rec \in found : TRUE)

Store == INSTANCE AcceptanceStore WITH
  Agreements <- Digests,
  accepted <- [t \in Tenants |-> [d \in Digests |-> AcceptedOf(t, d)]]

StoreSpec == Store!Spec

-----------------------------------------------------------------------------
(* What the comments and docstrings say and the code does not do           *)

\* author.py: get_taa returns the acceptance record of the namespace.
TaaIsForNamespace ==
  \A r \in Requests :
    (pc[r] = "ok" /\ req[r].kind = "author" /\ taa[r] # None) =>
      taa[r].digest.namespace = req[r].namespace

\* taa_storage.py: without a version the most recent record is returned.
MostRecentIsRead ==
  [][\A r \in Requests :
       (pc[r] = "read" /\ pc'[r] = "fill") =>
         \A rec \in storage[req[r].tenant] : rec.accepted_at <= taa'[r].time]_vars

\* routes.py: accepting creates and stores an acceptance record.
AcknowledgedIsStored ==
  \A r \in Requests :
    (pc[r] = "ok" /\ req[r].kind = "accept") =>
      \E rec \in storage[req[r].tenant] : rec.digest = taa[r].digest

=============================================================================
