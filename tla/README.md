# A verification project for acapy-did-indy

TLA+ modules that model the `acapy_did_indy` plugin for ACA-Py
(`src/acapy_did_indy` in the repository), TLC configurations that check them on
small instances, and theorems about them that TLAPS proves for every instance.
Paths below are relative to the repository.

## 1. The system

The repository holds two ACA-Py plugins and a few helpers. The first plugin adds
`did:indy` support to ACA-Py: it creates DIDs, accepts a ledger's Transaction
Author Agreement (TAA), registers and resolves AnonCreds objects, and resolves
DIDs. It writes to ledgers through an endorsing service, *the driver*, reached
over HTTP, and (in one case) through ACA-Py's own ledger connection.

| component | state it keeps | operations | interacts with |
| --- | --- | --- | --- |
| TAA acceptance (`routes.py` 207-359, `taa_storage.py`, `models/taa_acceptance.py`, `author.py` 55-95) | records in each tenant's wallet; one in-memory cache per ledger pool, shared by all tenants | `POST taa`, `POST taa/accept`, `GET taa/acceptances`, `save_taa_acceptance`, `get_taa_acceptance`, `get_all_taa_acceptances`, `AcapyAuthorDeps.get_taa` | driver (HTTP), wallet storage, every author that builds a transaction |
| registrar (`registrar.py`, routes `new-did`, `from-nym`) | keys and DIDs in the wallet, nyms on the ledgers | `create_new_nym`, `from_public_nym`, `prepare_didcomm_services` | wallet, driver, ACA-Py's `BaseLedger`, mediation records |
| plugin setup (`__init__.py`) | what is bound in the injector; the AnonCreds registry's lists of registrars and resolvers | `setup`, `get_ledgers` | driver, genesis URLs, other plugins' registrars |
| author dependencies (`author.py` 1-54) | none of its own | `get_pool`, `get_signer` | wallet keys, ledger pools |
| AnonCreds registry (`registry.py`) | none of its own; schemas, credential definitions, revocation registries and lists live on the ledger | `register_*`, `get_*`, `update_revocation_list` | author (driver), resolver, caller's copy of a revocation list |
| resolver (`resolver.py`, `did.py`) | pools opened at setup | `_resolve`, dereferencing | ledger pools |
| did:web plugin and server (`acapy_did_web`, `did_web_server`) | keys and DIDs in the wallet; documents in the server's memory | create a DID, publish its document, serve it | HTTP |
| route table, swagger tags | none | - | - |
| demo, interop tests, images | - | - | clients of the plugin |

What is hard in this code, and hard to test:

* **Interleaving at awaits.** Everything runs on one event loop; a handler is
  atomic from one real suspension to the next. Handlers of several requests and
  several tenants interleave between "add" and "update" of a record, between
  reading a record and caching it, between creating a key, naming it, publishing
  its nym and storing its DID.
* **Partial failure.** Wallet sessions commit each write on its own. When a call
  to the driver or the ledger fails, nothing that was done before is undone; and
  a call that timed out for its caller may still take effect on the ledger.
* **Crash and restart.** The wallet and the ledger survive, handlers and caches
  do not; the did:web server forgets its documents.
* **Shared mutable lists.** Setup removes elements from the registry's lists
  while iterating over them, asks other plugins' code at each of them, and may stop
  after any of its steps.
* **Staleness.** The acceptance cache is filled after an await with what was
  read before it and is never invalidated, and a caller of
  `update_revocation_list` computes from a list somebody else may have replaced.

What makes each component correct:

* TAA acceptance: an acceptance belongs to the tenant whose transactions carry
  it; an acknowledged acceptance is never lost; a save replaces only its own
  agreement's record; a stale cache entry goes away.
* registrar: whoever sees a nym on the ledger can rely on the wallet having its
  key where signers look for it; a stored DID can sign; what is published
  belongs to what is stored; a 200 means the work is done.
* setup: the plugin answers for did:indy afterwards, in place of whoever did before,
  no handler of another method is touched, and a setup that fails sends nobody to a
  half-built plugin, and leaves ACA-Py's own support in place until it has built
  everything.
* AnonCreds registry: a revocation is not lost to a concurrent or a late one, and
  is on the ledger when it is reported as finished; what a DID's author sends is
  signed with the key its nym has; a definition refers to the schema it was built
  from; what is reported as registered is there for whoever asks.
* did:web: a DID resolves to where its document is, and a document that is shown
  has a key of the wallet.

The full list of hazards, each with its line and the properties that cover it,
is in `PROJECT.json`.

## 2. Plan

Written, the first two first because they hold the system's state and its
concurrency:

1. `AcceptanceStore`, `TaaAcceptance`, `TaaAcceptanceProofs`
2. `DidRegister`, `IndyRegistrar`, `IndyRegistrarProofs`, `IndyDocumentProofs`,
   `DidRegisterProofs`
3. `RevocationRegister`, `RevocationLists`, `RevocationListsProofs`
4. `PluginSetup`, `PluginSetupProofs`
5. `IndyIssuer`, `IndyIssuerProofs`: `IndyRegistrar` composed with the registry's
   other operations and the resolver
6. `DidWeb`, `DidWebProofs`

`IndyIssuer` extends `IndyRegistrar`; `TaaAcceptance` refines `AcceptanceStore`,
`IndyRegistrar` refines `DidRegister` and `RevocationLists` refines
`RevocationRegister`; otherwise the modules stand alone, because the components they
model share no state with the rest: setup is over before the first request, did:web DIDs
and did:indy DIDs have different kids, and an acceptance only decides what a transaction
carries, and not whether it is sent.

What could still be added: the content of the DIDComm services, and the DID
pattern of the resolver, as operators against a reference definition. Both are
layout without state; see section 6.

## 3. The modules

Each module has one action per stretch of a handler between two suspensions.
`pc[r]` tells where request `r`'s handler stands. A definition whose comment
begins "A slip" is part of no specification: it stands for a mistake one could
plausibly make at that point, and replaces the definition after it when the
strength of a property is tested (`PROJECT.json`, "mutants").

### TaaAcceptance

| here | in the code |
| --- | --- |
| `storage[t]` | records of type `taa_acceptance` in tenant t's wallet |
| `cache[n]` | the `BasicCache` of namespace n's `LedgerPool` |
| `AcceptTaa` | `accept_taa` up to the driver's answer; whether the body names a namespace decides whether anything is saved |
| `AddRecord`, `UpdateRecord` | the two awaited halves of `save_taa_acceptance` |
| `GetTaa`, `CheckAccepted` | `get_taa`: the driver's answer, then `get_taa_acceptance` by version |
| `ListTaaAcceptances` | `list_taa_acceptances`: all records of the wallet, as they load |
| `AuthorGetTaa`, `ReadRecord`, `FillCache` | `AcapyAuthorDeps.get_taa`: cache lookup, search by nothing, fill |
| `DriverFails` | any error of the driver's calls |
| `Expire`, `Restart` | the cache's TTL; the process stops and starts |

Namespaces are sequences of parts, as the `:` in `indicio:test` and in the record
id's format (`namespace:version`) makes them: that two agreements never share an
id is thus a consequence of versions having no `:`, an assumption
(`ConstantsAssumption`), and not of the model. Digests stand for the agreements
they were computed from. The store returns records in any order. Any storage
call may fail. `owed` in a request and `clock` are history: they record what had
been acknowledged, and when.

The client names, together with an agreement, the namespace the agreement is
of, if it names one. A body that pairs one ledger's agreement with another's
namespace is not considered.

`AcceptanceStore` is what the wallets promise: a map from agreements to
acceptances in which one acceptance is put at a time and none is ever dropped.

### IndyRegistrar

| here | in the code |
| --- | --- |
| `kids` | wallet keys with their kid |
| `dids` | `did:indy` DIDs stored by `store_did` |
| `ledger[n][x]` | nym x on ledger n: verkey, `diddocContent`, ATTRIB |
| `call[r]` | r's transaction on its way, which goes on if the handler gives up |
| `Refuse`, `Receive` | the routes' checks |
| `CreateKey`, `AssignKid`, `LookUpDid`, `CreateAssertKey`, `PrepareServices`, `StoreDid` | the awaited wallet calls of `create_new_nym` and `from_public_nym`, in their order |
| `SubmitNym`, `NymAnswered`, `AttribAnswered` | sending a transaction and its answer |
| `LedgerExecutes`, `LedgerDrops` | the ledger's side |
| `Fails`, `Restart` | an exception at any await; the process stops and starts |

External behaviour it relies on: `store_did` raises on a DID the wallet has;
`create_key` asks not whether a kid is taken; a nym derived from a fresh key is
new (`FreshAssumption`). `from-nym` is given a DID of the wallet that is a bare
nym, the case it is written for. The content of services is abstracted away.

`DidRegister` is what wallet and ledgers promise together, without handlers or
transactions: keys are named (`Name`), new nyms published (`Publish`), DIDs stored
(`Store`) and documents of the wallet's old nyms shown (`Show`), one at a time, each
only after what it rests on, and nothing but a shown document is ever replaced.
The two routes store on different sides of publishing, and both orders are in it.
Nothing is required of the keys that have no kid.

### RevocationLists

| here | in the code |
| --- | --- |
| `ledger` | the executed entries of one revocation registry, in order |
| `known` | lists the registry's callers were given, and go on from |
| `RegisterRevocationList`, `UpdateRevocationList` | the calls up to the author |
| `Submit` with `EntryOf` | `author.register_rev_status_list`, `author.update_rev_status_list` |
| `LedgerExecutes`, `LedgerDrops` | the ledger's side |
| `ReturnResult` | `RevListResult` with state "finished" and the caller's list |
| `GetRevocationList` | `get_revocation_list` for any time |
| `Fails` | any exception; the driver's transaction goes on |

An accumulator is represented by the indices it revokes, which determine it. Of
the ledger it is assumed that it executes an update only if `prevAccum` is its
current accumulator, and the first list only once: Indy's rule for
`REVOC_REG_ENTRY`, and the reason why the author needs `prev_list` at all. Of the
callers it is assumed that `curr_list` is `prev_list` with `revoked` added, as the
interface has it, and that a first list revokes nothing. The registry serves
lists of several registries, which do not interact: one is modelled.

`RevocationRegister` is the register that the callers share as they may see it: a
history of lists that only grows, lists given out of it, and each change reported
to at most one caller. It knows no calls, entries or accumulators; `History`, the
lists given to callers (`known`) and `Reported` are the refinement mapping.

### PluginSetup

`Start`, `DriverAnswers`, `DriverFails`, `FetchGenesis` are `setup`'s first part
and `get_ledgers`; `Bind`, `OpenPools` the bindings and `IndyResolver.setup`;
`SweepRegistrars`, `SweepResolvers` one iteration each of the loops over the
registry's lists, with the list iterator's index as `i`; `Register` the end, where
`resolving` says that the `DIDResolver` has the plugin's resolver.
`Swept` removes the element under the index, so that the next iteration passes
over the element that moved into its place, as Python does.

Every step that calls code outside this module may raise: the driver (`get_ledgers`
turns that into a return, or goes on without it), `fetch_genesis_transactions`, the
injection of `DIDMethods` in `Bind`, the pools, `supports` of any handler in either
loop, and the injection of the `DIDResolver` in `Register`. Setup catches none of
these but a `LedgerError`, and what it has done by then stays.

### IndyIssuer

| here | in the code |
| --- | --- |
| the variables and actions of `IndyRegistrar` | the same wallet and ledgers, with the registrar's requests going on between any two steps of a call |
| `objects[n]` | the AnonCreds transactions on ledger n; the place is the seqNo |
| `RegisterSchema`, `RegisterCredDef`, `RegisterRevRegDef` | the three `register_*` operations up to the author |
| `SchemaSeqNo` | `schema.schema_metadata["seqNo"]`, from a schema that was fetched some time before |
| `Submit` | `get_signer` for the author, and the transaction's way to the driver |
| `LedgerTakes`, `LedgerRefuses` | the ledger's side, whether or not the caller still waits |
| `Return` | the result with state "finished" |
| `Get` | `get_schema`, `get_schema_info_by_id`, `get_credential_definition`, `get_revocation_registry_definition`, with an `IndyRegistryError` where the ledger has nothing |
| `Resolve` | `IndyResolver._resolve` with `DIDNotFound` |
| `Raises` | any other error of the wallet, the driver or a pool |

Of a ledger it is assumed that it takes what is signed with the key of the
issuer's nym and refers to what is there, that a schema's id is taken once, while
a definition may be sent again, and that nothing is removed. An id spells out what
it refers to, as did:indy ids do. Every ledger starts with a schema of another
agent, so that a definition can be built on a schema that the wallet did not
issue. Revocation lists, the registry's remaining operations, are `RevocationLists`.

### DidWeb

| here | in the code |
| --- | --- |
| `kids`, `dids` | the wallet's keys under `{did}#key-0`, and its did:web DIDs |
| `docs` | `storage` in the server's memory |
| `put[r]` | r's document on its way to the server |
| `Cut`, `DidOf` | `url_to_did_web` |
| `NameUrl` | the URL a name stands for |
| `Refuse`, `Receive`, `CreateKey`, `SendDocument`, `ServerAnswers`, `StoreDid`, `Fails` | `create_did_web`, with the client's `put_did` |
| `ServerStores`, `ServedAt` | the server's `put_did` and `get_did_json` |
| `AgentRestart`, `ServerRestart` | each process stops and starts |

Texts (paths, names, DIDs) are sequences of pieces: `/`, `:`, the two words that
`url_to_did_web` looks for, `.well-known` and `did.json`, and whatever stands between
these. So `/a/did.jsonld` is `<<"/", "a", "/", "did.json", "ld">>`, and the code's
`path.replace(word, "")` is `Without(word, path)`: every occurrence of the word goes, at
whatever place of the path and inside whatever longer name (`Occurs`, `Within`), and
what is left is joined and searched for the next word (`Cut`). No two occurrences of
either word can overlap, so it does not matter that Python takes them from left to
right. A piece between contains none of the four, and joining pieces makes none: `did.`
and `json` are not two neighbouring pieces. `OneChar` are the pieces of one character,
for the test of the length in `DidOf`. `Without` is a recursive function because its
proofs solve its equation.

`TextAssumption` says that URLs and names are such texts, that a host is one piece, and
that a name is not empty, since `create_did_web` takes an empty name for none. A name
has no `?` or `#`, after which `urlparse` ends the path.
`Location` is the did:web method's rule, which a resolver follows. The flags
`issue` and `didcomm` choose a section of the document and nothing else.

## 4. What the runs show

| run | shows | size |
| --- | --- | --- |
| `taa_safety` | a tenant only ever sees and attaches its own acceptances, and of agreements its wallet still records; an agreement has one record; an acknowledged acceptance is durable, is shown and listed, and shown under its version; the wallets implement `AcceptanceStore` | 713,000 states |
| `taa_liveness` | a cache fill that raced with a re-acceptance does not stay | 34,000 states |
| `registrar_safety` | keys, stored DIDs and ledger entries are consistent whatever fails; NYM and ATTRIB of a nym that is stored once agree; a `from-nym` that failed half way is stuck for good; wallet and ledgers implement `DidRegister` | 67,000 states |
| `revocation_safety` | no revocation is taken back; accumulator and revoked indices agree; what is reported as finished is on the ledger; of two updates of one list one is refused; the lists implement `RevocationRegister` | 248,000 states |
| `setup_safety` | the plugin answers for did:indy in place of the handlers before it; handlers of other methods stay, in order; a failure at any step leaves nothing half-built registered, and the default until everything is bound; the driver's ledgers win | 5,238,000 states |
| `issuer_safety` | what is sent is signed with the nym's key; only DIDs of `new-did` issue; a definition refers to its caller's schema; what was registered is found | 152,000 states |
| `did_web_safety` | served keys are the wallet's; a DID resolves to its URL or to its name's document; a stored DID whose document is lost or replaced stays without it | 1,825,000 states |

`OneHandlerForIndy` says what the loops leave of did:indy handlers that stand side by
side: a loop passes over the one behind a handler it removes, so that the first goes and
the second stays, beside this plugin's. Nothing else stays: whoever answers for
did:indy after setup, and is not this plugin, stood right behind one that is gone.
With the one handler that ACA-Py itself comes with, that is nobody.

`FailureLeavesDefault` promises less the further setup has come. Until everything is
bound the lists are untouched; once the loops run, an exception of another handler's
`supports()`, or for want of a `DIDResolver`, comes when default handlers may be
gone, and did:indy is then left without any (`__init__.py` 189-196). What holds at every
step is that neither registry nor `DIDResolver` has anything of a plugin whose setup
failed, and (`OthersStay`) that the other methods have kept their handlers.

Four properties have a condition that says where the code's promise ends.
`CredDefOfItsSchema` speaks of schemas on the definition's own ledger: the number of a
schema of another ledger is sent as it is, and means something else there.
`ResolvesToItsName` leaves out names that begin with "did.json", of which
`url_to_did_web` cuts that off (`did.jsonabc` becomes `did:web:<host>abc`), and names
with a ":", which the did:web method takes for a "/". `UrlIsLocation` speaks of `Plain`
paths: none with "//" (nor a slash at the end) or ":", with "/did.json" only at the end
and not alone, and ".well-known/did.json" only in front, since both are cut out wherever
they stand: `a/did.json/b` and `a/b` become one DID, `/a/did.jsonld` becomes
`did:web:<host>:ald`, and `/did.json` the DID of the host. The instances have all of
these, so that the conditions are met from both sides. `AttribAgrees` speaks of nyms
that the wallet has under one namespace: two namespaces are two DIDs, whose documents do
get mixed on the one ledger that `from-nym` writes to.

`StrandedForever` and `DivergedForever` state what can not be repaired: both
handlers change something that others see before or after `store_did`, which
refuses every retry.

Five documented promises that the code does not keep, each a run that TLC
refutes:

| run | promise | what happens |
| --- | --- | --- |
| `taa_other_ledger` | `get_taa` retrieves the acceptance "for" a namespace (`author.py` 59) | the query by namespace is commented out; another ledger's acceptance is attached |
| `taa_most_recent` | "Return the most recent record" (`taa_storage.py` 100) | the first the store returns |
| `taa_not_stored` | "Create and store a TAA acceptance record" (`routes.py` 329) | 200, nothing stored, unless the body has a field its schema lacks |
| `registrar_signer` | the signer of a DID is always `{did}#verkey` (`author.py` 35) | no such key for a DID made by `from-nym` |
| `registrar_named_ledger` | the namespace is "the ledger on which to register the new DID" (`routes.py` 35) | `from-nym` writes to ACA-Py's own ledger |

Seen on the way, and in the models, but without a run of their own: without an
`api_key`, setup returns before it looks at ledgers that were given for resolution only
(README.md 151-163; `FailureLeavesDefault` says what is left then); the 404 for a ledger
without an agreement is turned into a 500 (`routes.py` 250, 267); an agreement is shown
as accepted when another ledger's agreement of the same version was (the cause of
`taa_other_ledger`); an error after setup has begun to remove did:indy handlers leaves
did:indy without one; a did:indy handler behind another is passed over; `url_to_did_web`
cuts "/did.json" out of longer names; `from-nym` stores the DID of a nym that is on no
ledger before the ledger refuses it.

### Bounds

* Three requests in `taa_safety`: two saves that race and a reader, or a save, a
  reader and a later re-acceptance by the same or the other tenant; two tenants
  because one can only meet its own records; two namespaces so that a version
  exists on two ledgers, with a pool for one of them so that the missing pool is
  met too; two versions. A request is handled once, so the number of requests
  bounds the number of handlers and the clock. Tenants and requests are
  interchangeable in every invariant and in `StoreSpec`, so symmetry is used;
  not in `taa_liveness`, which has one tenant, one ledger, one agreement and three
  requests (accept, read, accept again).
* Two requests in `registrar_safety`: the properties relate at most two handlers,
  a first and a rival or retry. Two ledgers, of which ACA-Py is connected to
  one, and two DIDs, of which one is on it.
* Five calls in `revocation_safety`: one registers, two race from one list, one
  fetches, one goes on from what was fetched; three credentials, so that two
  racing updates revoke different ones and a third is left. Calls and indices
  are interchangeable.
* One request of the registrar, three calls, one tag and two ledgers in
  `issuer_safety`: one call fetches a schema, one builds a definition on it, and a
  third gets in between, registers the same again, builds a registry on the
  definition or looks for it, all with the request at any point. `OnlyNewNymsIssue`
  and `SentIsSigned` relate one request and one call.
* Three requests in `did_web_safety`: a first, a rival or retry under its name, and
  a third that could repair what the two have left. Of the five names
  one is plain, two lose a "did.json", one has a ":" and one a "/", for which the server
  has no route; the seventeen URLs have each form of path that `Plain` tells apart, with and
  without a "/did.json" to cut off or to add; one is the server's own, and one has its
  host taken for a path.
* Lists of up to three handlers in `setup_safety`, drawn from five of which three
  support did:indy: every position of a removed handler before, behind and
  between others, two and three of them side by side; and two other handlers whose
  order may change.

`CHECK_DEADLOCK FALSE` stands in every configuration because the models do stop:
requests are handled once and setup ends.

### Fairness

Only `Expire` is fair (`WF_vars`), for every entry: the entry has a time to live
(`CACHE_TTL`) and the clock advances. No handler is assumed to proceed, neither
the driver nor the ledger to answer; a handler that stops leaves nothing that
`StaleEntriesDrain` is about.

## 5. What is proved

For every number of tenants, requests, ledgers, versions and mechanisms, finite
or not, from the named assumptions on the constants:

| module | theorem | states |
| --- | --- | --- |
| `TaaAcceptanceProofs` | `TypeCorrect` | `Spec => []TypeOK` |
| | `OwnAcceptance` | `Spec => []TenantsOwnAcceptance` |
| | `UniqueRecords` | `Spec => []OneRecordPerAgreement` |
| | `Durable` | `Spec => []AcknowledgedIsDurable` |
| | `AcceptedShown` | `Spec => []AcceptedIsShown` |
| | `ServedAcceptance` | `Spec => []ServedIsRecorded` |
| | `AllAreListed` | `Spec => AcknowledgedIsListed` |
| | `ImplementsStore` | `Spec => StoreSpec` |
| `IndyRegistrarProofs` | `RegistrarTypeCorrect` | `Spec => []TypeOK` |
| | `NymHasKey` | `Spec => []PublishedNymHasKey` |
| | `StoredDidSigns` | `Spec => []NewDidSigns` |
| `IndyDocumentProofs` | `OkIsDone` | `Spec => []OkMeansDone` |
| | `PublishedDocs` | `Spec => []PublishedDocIsOurs` |
| | `AttribsAgree` | `Spec => []AttribAgrees` |
| | `NoRetryHelps` | `Spec => StrandedForever` |
| `DidRegisterProofs` | `ImplementsDidRegister` | `Spec => RegisterSpec` |
| `IndyIssuerProofs` | `IssuerTypeCorrect` | `IssuerSpec => []IssuerTypeOK` |
| | `SignaturesFit` | `IssuerSpec => []SentIsSigned` |
| | `NewNymsIssue` | `IssuerSpec => []OnlyNewNymsIssue` |
| | `RightSchema` | `IssuerSpec => []CredDefOfItsSchema` |
| | `FoundForever` | `IssuerSpec => NotFoundIsTrue` |
| `DidWebProofs` | `WebTypeCorrect` | `Spec => []TypeOK` |
| | `ServedKeys` | `Spec => []ServedKeyIsOurs` |
| | `NoWayBack` | `Spec => DivergedForever` |
| | `NamesResolve` | `Spec => []ResolvesToItsName` |
| | `UrlsResolve` | `Spec => []UrlIsLocation` |
| `PluginSetupProofs` | `SetupTypeCorrect` | `Spec => []TypeOK` |
| | `DefaultStays` | `Spec => []FailureLeavesDefault` |
| | `Equipped` | `Spec => []RegisteredIsEquipped` |
| | `DriversLedgers` | `Spec => []LedgersMatchDriver` |
| | `OneHandler` | `Spec => []OneHandlerForIndy` |
| | `OthersUntouched` | `Spec => []OthersStay` |
| `RevocationListsProofs` | `ListsTypeCorrect` | `Spec => []TypeOK` |
| | `NoUndoing` | `Spec => []NothingIsUndone` |
| | `Fitting` | `Spec => []AccumulatorFits` |
| | `Finished` | `Spec => []FinishedIsRevoked` |
| | `OnlyOne` | `Spec => []OneUpdateOfAList` |
| | `KnownLists` | `Spec => []KnownIsOnLedger` |
| | `ImplementsRegister` | `Spec => RegisterSpec` |

**TaaAcceptance.** None of the properties is inductive. What an author
returns was read from the wallet or the cache earlier, so `TenantsOwnAcceptance`
needs that every record and every cache entry of a tenant was accepted by that
tenant (`Provenance`), and that what a handler holds between its awaits is of
that kind too (`Handlers`, which also says that a handler past a point has the
arguments that led it there). `AcceptedStable` is the lemma that makes this
work: an accept request never changes what it was issued. `AcknowledgedIsDurable`
needs that the only record an update removes has the id of the record it writes,
and, by `RecordIdInjective`, hence the same namespace, version and digest.
`OneRecordPerAgreement` combines two facts: the store has one record per id
(`OneRecordPerId`), and a record's id is that of its agreement.

What is shown and listed rests on a second layer (`AInv`), proved inductive relative to
the first: that an answer was computed when the acceptance it owes was already
acknowledged, and that what was acknowledged has its one record
(`AcknowledgedHasRecord`). For `ImplementsStore`, `Mapped` is the refinement mapping:
adding the first record of an id and replacing the record of an id both put one
acceptance into the map (`MappedPut`); every other step leaves it alone.

`ServedIsRecorded` says how stale a stale cache entry can be. An entry was once read
from a record, and the record may since have been replaced, even by a racing
save; but a replacement is of the same agreement, so that a record with the
entry's digest is always there (`RecordedStable`). That fact is carried from the
wallet to the cache, to the handlers between read and fill, and to what was
answered (`RInv`).

**IndyRegistrar.** `PublishedNymHasKey` is about a transaction that the ledger
may execute long after its handler is gone. The invariant therefore speaks of
what had to be done before the transaction was sent, and not of where the
handler stands: once `r` has sent something or got past naming its key, the key
is under its kid (`Named`), and once it has got past the ledger's answer the
nym's entry is there (`Published`); that the kid names no other key follows from
`KidsAreNyms`, every `#verkey` kid belonging to the nym derived from its key.

`ImplementsDidRegister` draws on both layers of the registrar's invariant, and on
one fact more, that a new nym's assertion key is named before its document leaves
(`NewKeyed`). With them each wallet call that changes something is a `Name` or a
`Store`, each executed transaction a `Publish` or a `Show`, whoever still waits for it,
and every other step a stutter.

**RevocationLists.** What is executed stays contained in the ledger's last list
(`Executed`, `UpToLast`): an update is executed only if it starts from the last
list, and its own list contains that. Hence two executed updates never start
from one list (`Exclusive`): when the second were executed, the last list would be
the one both started from, and would contain the first one's batch, which is
disjoint from it. A result is returned only for an executed transaction (`Call`),
which carries these facts over to what callers are told.

For `ImplementsRegister`, an entry's execution appends one list to `History`: the
first is empty, and a later one adds a batch disjoint from the last list
(`Executes`). A result goes to its caller once; that nobody else was told of the
same change is `Exclusive` again (`ReportOrGive`).
`KnownIsOnLedger` is part of the invariant, proved as `KnownLists`; the run does not
list it by itself because `RegisterSpec`, which it checks, lets callers be given no
other lists.

**The documents of from-nym** (`IndyDocumentProofs`, on top of the registrar's
invariant). Publication is done by requests that may be dead when it happens, so
the invariant traces each published document to the request that sent it (`Origin`), the
document before the attribute. `OneWorker` is the crux: a request that got past
`store_did` is the only one for its DID, for good. A nym that is stored under
one namespace therefore has one sender, and shows one document (`AttribsAgree`); and a
stored DID whose request has stopped has no other that could publish it
(`NoRetryHelps`).

**IndyIssuer.** Each step of a call leaves the registrar's variables alone, and each step
of the registrar is one of its own (`IssuerStepIsRegistrarStep`), so the registrar's
invariant is available for the composition. A transaction is signed
with the key found under the DID's kid; that key is the nym's (`Signed`), because
the nym is derived from it, and DIDs that the wallet had before have none
(`NewKids`). `RightSchema` needs that a seqNo, once given, always denotes the same
object: ledgers only grow, so a call's reference (`Refers`) stays true however long its
transaction is on its way. `FoundForever` is the same fact for ids.

**DidWeb.** A document is sent by a request that has made its key (`Keyed`), and no
key is ever removed. For `NoWayBack`, a stored DID's own request has delivered
its document once and is past doing so again; whatever else is delivered has
another key.

What DIDs are made of URLs is a fact about `Without`, a recursive function over a text
of any length. `WithoutTheEnd` gives its value for a word that stands only at the end of
a text, or nowhere: the closed form solves the function's equation, and any solution
agrees with it, because there is no least place at which they differ (`LeastNumber`,
from the library's well-founded induction, whose statement has no operator for a
parameter). `CutPath` derives from it what both replacements leave of a path,
`ThereAndBack` that slashes turned to colons and back are the slashes they were, and
`LocationOfDid` where the did:web method has the document; `PlainLocation` and
`NameLocation` are its two cases, a plain URL and a name. That a DID is stored by name
only for a name without a slash, the only ones the server takes, is `Routed`; that no
other name is served at the same place is `ServedApart`.

**PluginSetup.** Until everything is bound the lists are what they were, and until the last
step nothing of the plugin is in them (`ListsInv`); everything is bound from the loops on, and
wherever the plugin is registered (`BoundInv`); the ledgers bound are those chosen from
the driver's answer (`LedgersInv`). That sweeping keeps a list a list of the
registry, without repetition, is `SweptList`.

`OneHandler` and `OthersUntouched` are about a loop that shortens the list it runs over.
Its invariant (`SweptInv`, `Sweeping`): each did:indy handler in front of the index
stood right behind one that is gone, and what stands from the index on still stands as
it did before the loop. An iteration that removes a handler moves one in front of the
index that stood right behind it (`SweptFurther`), and that stays so whatever goes later
(`PassedOverStays`); at the end the index is past the list (`SweptToTheEnd`). The lists'
order is compared by `InOrder`, a relation between two elements, which removing a third
keeps (`SweptKeepsOthers`) and which is transitive from step to step.

Model-checked only:

* `StaleEntriesDrain`: liveness is beyond the prover.
* The findings, which are counterexamples.

## 6. What is not modelled

* The content of DIDComm services (`prepare_didcomm_services`): it lays out the
  mediation record that the route looked up and changes no state. That it is
  awaited between two writes, and may raise, is modelled.
* `GET namespaces`: it reads what setup bound
  (`PluginSetup`), and nothing depends on it.
* The DID pattern of the resolver: a regular expression over characters. The model
  resolves the DIDs it knows.
* The flags `issue` and `didcomm` of did:web; wording of agreements and messages,
  logging, metadata; the class of exceptions, where all a caller can see of it is
  that the operation failed.
* Values inside AnonCreds objects: attribute names, keys, accumulators (the last are
  represented by the indices they revoke).
* Route registration and swagger tags are a static table. Demo, interop tests and
  images are clients of the plugin or packaging.
* How long the TTL is. That a stale entry may be served for up to `CACHE_TTL` after
  a re-acceptance is the code's design; the model shows it happens and ends.
