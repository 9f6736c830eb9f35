---------------------------- MODULE PluginSetup ----------------------------
(***************************************************************************)
(* Setup of the acapy_did_indy plugin (__init__.py): which ledgers it ends *)
(* up with, what is bound when it gives up half way, and how it takes the  *)
(* place of the handlers of did:indy that ACA-Py comes with.               *)
(***************************************************************************)
EXTENDS Naturals, Sequences, SequencesExt

CONSTANTS
  Namespaces,   \* ledger namespaces
  Handlers,     \* AnonCreds handlers other plugins have registered
  IndyHandlers, \* those of them that support did:indy
  MaxHandlers,  \* bounds how many are in a list of the registry
  None

\* The handler this plugin registers.
Ours == "acapy_did_indy"

ASSUME ConstantsAssumption ==
  /\ IndyHandlers \subseteq Handlers
  /\ Ours \notin Handlers
  /\ MaxHandlers \in Nat

\* None is no set of ledgers.
ASSUME NoLedgersAssumption == \A A \in SUBSET Namespaces : A # None

VARIABLES
  settings,    \* the plugin's settings and whether there is a registry
  before,      \* the registry's lists when setup starts
  pc,          \* what setup does next, or how it ended
  driver,      \* the namespaces the driver answered with, if it did
  ledgers,     \* the namespaces of the bound Ledgers
  bound,       \* what has been bound in the injector
  registrars,  \* the AnonCreds registry's registrars
  resolvers,   \* and its resolvers
  resolving,   \* whether the DIDResolver has this plugin's resolver
  i            \* the index of the loop over one of them

vars == <<settings, before, pc, driver, ledgers, bound, registrars, resolvers, resolving, i>>

Settings == [registry: BOOLEAN, api_key: BOOLEAN, ledgers_from_driver: BOOLEAN,
             ledgers: (SUBSET Namespaces) \cup {None}]

\* register appends a handler once; a list holds no handler twice.
Lists == {s \in UNION {[1..n -> Handlers] : n \in 0..MaxHandlers} : IsInjective(s)}

Everything == {"client", "ledgers", "author", "resolver", "registrar", "registry"}

Init ==
  /\ settings \in Settings
  /\ before \in [registrars: Lists, resolvers: Lists]
  /\ pc = "start"
  /\ driver = None
  /\ ledgers = None
  /\ bound = {}
  /\ registrars = before.registrars
  /\ resolvers = before.resolvers
  /\ resolving = FALSE
  /\ i = 1

lists == <<registrars, resolvers, resolving, i>>

-----------------------------------------------------------------------------
\* Without a registry or an api_key setup logs an error and returns.
Start ==
  /\ pc = "start"
  /\ \/ /\ ~(settings.registry /\ settings.api_key)
        /\ pc' = "returned"
        /\ UNCHANGED bound
     \/ /\ settings.registry
        /\ settings.api_key
        /\ bound' = bound \cup {"client"}
        /\ pc' = "driver"
  /\ UNCHANGED <<settings, before, driver, ledgers, lists>>

\* A slip: the plugin's own configuration goes before the driver's.
PluginFirst(answer) ==
  IF settings.ledgers_from_driver \/ settings.ledgers = None
    THEN answer ELSE settings.ledgers

\* The driver's ledgers, even where the plugin's configuration differs.
Chosen(answer) == answer

\* get_ledgers with an answer from the driver.  A LedgerError makes setup return.
DriverAnswers ==
  /\ pc = "driver"
  /\ \E answer \in SUBSET Namespaces :
       /\ driver' = answer
       /\ \/ /\ settings.ledgers_from_driver \/ settings.ledgers # None
             /\ ledgers' = Chosen(answer)
             /\ pc' = "bind"
          \/ /\ ~settings.ledgers_from_driver
             /\ settings.ledgers = None
             /\ pc' = "returned"
             /\ UNCHANGED ledgers
  /\ UNCHANGED <<settings, before, bound, lists>>

\* get_ledgers when the driver cannot be reached.
DriverFails ==
  /\ pc = "driver"
  /\ \/ /\ settings.ledgers_from_driver \/ settings.ledgers = None
        /\ pc' = "returned"
     \/ /\ ~settings.ledgers_from_driver
        /\ settings.ledgers # None
        /\ pc' = "genesis"
  /\ UNCHANGED <<settings, before, driver, ledgers, bound, lists>>

\* fetch_genesis_transactions for each configured ledger; its error is no
\* LedgerError and leaves setup.
FetchGenesis ==
  /\ pc = "genesis"
  /\ \/ ledgers' = settings.ledgers /\ pc' = "bind"
     \/ UNCHANGED ledgers /\ pc' = "raised"
  /\ UNCHANGED <<settings, before, driver, bound, lists>>

\* A slip: the existing handlers are dropped before the pools are open.
BindAndDrop ==
  /\ pc = "bind"
  /\ bound' = bound \cup {"ledgers", "author"}
  /\ pc' \in {"pools", "raised"}
  /\ registrars' = SelectSeq(registrars, LAMBDA h : h \notin IndyHandlers)
  /\ UNCHANGED <<settings, before, driver, ledgers, resolvers, resolving, i>>

\* Without DIDMethods in the context, injecting it raises.
Bind ==
  /\ pc = "bind"
  /\ bound' = bound \cup {"ledgers", "author"}
  /\ pc' \in {"pools", "raised"}
  /\ UNCHANGED <<settings, before, driver, ledgers, lists>>

\* A slip: an error of a pool is swallowed and setup goes on.
PoolErrorsSwallowed ==
  /\ pc = "pools"
  /\ \/ bound' = bound \cup {"resolver", "registrar", "registry"}
     \/ UNCHANGED bound
  /\ pc' = "registrars"
  /\ UNCHANGED <<settings, before, driver, ledgers, lists>>

\* IndyResolver.setup opens a pool for each ledger; an error leaves setup.
OpenPools ==
  /\ pc = "pools"
  /\ \/ /\ bound' = bound \cup {"resolver", "registrar", "registry"}
        /\ pc' = "registrars"
     \/ UNCHANGED bound /\ pc' = "raised"
  /\ UNCHANGED <<settings, before, driver, ledgers, lists>>

-----------------------------------------------------------------------------
(* for x in list: if await x.supports(...): list.remove(x).  The iterator is *)
(* an index into the list that is being shortened.  supports is the other    *)
(* plugins' code: it may raise, and what was removed before stays removed.   *)

\* A slip: the handler is found and left where it is.
NotSwept(list, k) == list

\* A slip: the first handler of the list goes, whichever supports did:indy.
FirstSwept(list, k) == IF list[k] \in IndyHandlers THEN Tail(list) ELSE list

Swept(list, k) == IF list[k] \in IndyHandlers THEN RemoveAt(list, k) ELSE list

SweepRegistrars ==
  /\ pc = "registrars"
  /\ \/ /\ i <= Len(registrars)
        /\ registrars' = Swept(registrars, i)
        /\ i' = i + 1
        /\ UNCHANGED pc
     \/ /\ i <= Len(registrars)
        /\ pc' = "raised"
        /\ UNCHANGED <<registrars, i>>
     \/ /\ i > Len(registrars)
        /\ i' = 1
        /\ pc' = "resolvers"
        /\ UNCHANGED registrars
  /\ UNCHANGED <<settings, before, driver, ledgers, bound, resolvers, resolving>>

SweepResolvers ==
  /\ pc = "resolvers"
  /\ \/ /\ i <= Len(resolvers)
        /\ resolvers' = Swept(resolvers, i)
        /\ i' = i + 1
        /\ UNCHANGED pc
     \/ /\ i <= Len(resolvers)
        /\ pc' = "raised"
        /\ UNCHANGED <<resolvers, i>>
     \/ /\ i > Len(resolvers)
        /\ pc' = "register"
        /\ UNCHANGED <<resolvers, i>>
  /\ UNCHANGED <<settings, before, driver, ledgers, bound, registrars, resolving>>

\* A slip: the handler is registered once as a registrar, once as a resolver.
RegisterTwice ==
  /\ pc = "register"
  /\ registrars' = registrars \o <<Ours, Ours>>
  /\ resolvers' = resolvers \o <<Ours, Ours>>
  /\ resolving' = TRUE
  /\ pc' = "done"
  /\ UNCHANGED <<settings, before, driver, ledgers, bound, i>>

\* The DIDResolver, without which injecting it raises, gets IndyResolver, and
\* registry.register takes indy_registry, a registrar and a resolver.
Register ==
  /\ pc = "register"
  /\ \/ /\ resolving' = TRUE
        /\ registrars' = Append(registrars, Ours)
        /\ resolvers' = Append(resolvers, Ours)
        /\ pc' = "done"
     \/ /\ pc' = "raised"
        /\ UNCHANGED <<registrars, resolvers, resolving>>
  /\ UNCHANGED <<settings, before, driver, ledgers, bound, i>>

Next ==
  \/ Start
  \/ DriverAnswers
  \/ DriverFails
  \/ FetchGenesis
  \/ Bind
  \/ OpenPools
  \/ SweepRegistrars
  \/ SweepResolvers
  \/ Register

Spec == Init /\ [][Next]_vars

-----------------------------------------------------------------------------
(* Properties                                                              *)

\* Type invariant of what setup builds.
TypeOK ==
  /\ settings \in Settings
  /\ pc \in {"start", "driver", "genesis", "bind", "pools", "registrars",
             "resolvers", "register", "returned", "raised", "done"}
  /\ {driver, ledgers} \subseteq (SUBSET Namespaces) \cup {None}
  /\ bound \subseteq Everything
  /\ \A list \in {registrars, resolvers} :
       ToSet(list) \subseteq Handlers \cup {Ours} /\ IsInjective(list)
  /\ resolving \in BOOLEAN
  /\ i \in 1..(MaxHandlers + 1)

Indy(list) == ToSet(list) \cap (IndyHandlers \cup {Ours})

\* h stood right behind a did:indy handler that is gone: a loop over a list that
\* it shortens passes over what moves up.
PassedOver(h, list, old) ==
  \E k \in 2..Len(old) :
    old[k] = h /\ old[k - 1] \in IndyHandlers \ ToSet(list)

\* After setup this plugin answers for did:indy, as a registrar, as a resolver and
\* as the DIDResolver's, and in the registry it is alone, wherever the default
\* handler stood, but for those the loops passed over: of did:indy handlers side
\* by side the first always goes.  (TypeOK has it that no list holds it twice.)
OneHandlerForIndy ==
  pc = "done" =>
    /\ resolving
    /\ Ours \in ToSet(registrars) \cap ToSet(resolvers)
    /\ \A h \in Indy(registrars) \ {Ours} : PassedOver(h, registrars, before.registrars)
    /\ \A h \in Indy(resolvers) \ {Ours} : PassedOver(h, resolvers, before.resolvers)

\* Both are in the list, a where b is or in front of it.
InOrder(list, a, b) ==
  \E x, y \in DOMAIN list : x <= y /\ list[x] = a /\ list[y] = b

SameOthers(list, old) ==
  \A a, b \in Handlers \ IndyHandlers : InOrder(list, a, b) <=> InOrder(old, a, b)

\* The handlers of other methods stay, in their order, whatever setup has done
\* so far: removing while iterating never takes the wrong one.
OthersStay ==
  /\ SameOthers(registrars, before.registrars)
  /\ SameOthers(resolvers, before.resolvers)

\* If setup returns early or raises, nobody is sent to a half-built plugin, and as
\* long as it has not bound everything, ACA-Py's own did:indy support is untouched.
\* Later errors, of another handler's supports() or for want of a DIDResolver, come
\* when that support may already be gone, and leave did:indy without a handler.
FailureLeavesDefault ==
  pc \in {"returned", "raised"} =>
    /\ Ours \notin ToSet(registrars) \cup ToSet(resolvers) /\ ~resolving
    /\ bound # Everything =>
         registrars = before.registrars /\ resolvers = before.resolvers

\* What can be looked up has all that its operations inject, and where the
\* registry has the plugin, DIDs are resolved by it too.
RegisteredIsEquipped ==
  LET registered == Ours \in ToSet(registrars) \cup ToSet(resolvers)
  IN  /\ registered \/ resolving => bound = Everything
      /\ registered => resolving

\* The ledgers are the driver's whenever it answered, and otherwise those of
\* the configuration, and then only if ledgers_from_driver is off.
LedgersMatchDriver ==
  pc = "done" =>
    \/ driver # None /\ ledgers = driver
    \/ driver = None /\ ~settings.ledgers_from_driver /\ ledgers = settings.ledgers

=============================================================================
