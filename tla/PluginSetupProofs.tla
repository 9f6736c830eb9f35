------------------------- MODULE PluginSetupProofs -------------------------
(* Proofs about PluginSetup, for any ledgers, handlers and lengths of the   *)
(* registry's lists.                                                        *)
EXTENDS PluginSetup, SequenceTheorems, TLAPS

-----------------------------------------------------------------------------
(* The inductive invariant                                                 *)

\* A list of the registry: no handler twice, none that its plugins have not
\* registered, no longer than it was.
List(list) ==
  /\ list \in Seq(Handlers) /\ Len(list) <= MaxHandlers
  /\ IsInjective(list)

\* Nothing is taken off a list before everything is bound; this plugin comes
\* last.
ListsInv ==
  /\ bound # Everything =>
       registrars = before.registrars /\ resolvers = before.resolvers
  /\ pc # "done" => List(registrars) /\ List(resolvers) /\ ~resolving
  /\ pc = "done" =>
       \E r, s : List(r) /\ List(s) /\ registrars = Append(r, Ours)
                                    /\ resolvers = Append(s, Ours)
  /\ pc = "done" => resolving

Early == {"start", "driver", "genesis", "bind", "pools"}

BoundInv ==
  /\ pc \in Early => bound \subseteq {"client", "ledgers", "author"}
  /\ pc \in {"driver", "genesis", "bind", "pools"} => "client" \in bound
  /\ pc = "pools" => {"ledgers", "author"} \subseteq bound
  /\ pc \in {"registrars", "resolvers", "register", "done"} => bound = Everything

\* The driver's answer, or the configuration where that is allowed.
RightLedgers ==
  \/ driver # None /\ ledgers = driver
  \/ driver = None /\ ~settings.ledgers_from_driver /\ ledgers = settings.ledgers

LedgersInv ==
  /\ pc \in {"start", "driver", "genesis"} => driver = None
  /\ pc = "genesis" => ~settings.ledgers_from_driver
  /\ pc \in {"bind", "pools", "registrars", "resolvers", "register", "done"} =>
       RightLedgers

TypesInv ==
  /\ settings \in Settings
  /\ pc \in {"start", "driver", "genesis", "bind", "pools", "registrars",
             "resolvers", "register", "returned", "raised", "done"}
  /\ {driver, ledgers} \subseteq (SUBSET Namespaces) \cup {None}
  /\ bound \subseteq Everything
  /\ resolving \in BOOLEAN
  /\ i \in 1..(MaxHandlers + 1)

SInv == TypesInv /\ ListsInv /\ BoundInv /\ LedgersInv

-----------------------------------------------------------------------------
(* Lemmas about lists                                                      *)

\* list.remove moves the elements behind the removed one up by one.
LEMMA RemovedElement ==
  ASSUME NEW list, List(list), NEW k \in 1..Len(list)
  PROVE  /\ RemoveAt(list, k) \in Seq(Handlers)
         /\ Len(RemoveAt(list, k)) = Len(list) - 1
         /\ DOMAIN RemoveAt(list, k) = 1..(Len(list) - 1)
         /\ \A x \in 1..(Len(list) - 1) :
              RemoveAt(list, k)[x] = IF x < k THEN list[x] ELSE list[x + 1]
<1> DEFINE a == SubSeq(list, 1, k - 1)
           b == SubSeq(list, k + 1, Len(list))
<1>1. list \in Seq(Handlers) /\ Len(list) \in Nat /\ Len(list) <= MaxHandlers
      /\ \A x, y \in 1..Len(list) : list[x] = list[y] => x = y
      /\ MaxHandlers \in Nat
  BY ConstantsAssumption DEF List, IsInjective, ConstantsAssumption
<1>2. /\ a \in Seq(Handlers) /\ Len(a) = k - 1
      /\ \A x \in 1..(k - 1) : a[x] = list[x]
  <2>1. 1 \in Int /\ k - 1 \in Int /\ \A x \in 1..(k - 1) : list[x] \in Handlers
    BY <1>1
  <2>2. /\ a \in Seq(Handlers) /\ Len(a) = IF 1 <= k - 1 THEN k - 1 - 1 + 1 ELSE 0
        /\ \A x \in 1..(k - 1 - 1 + 1) : a[x] = list[1 + x - 1]
    BY <2>1, SubSeqProperties
  <2> HIDE DEF a
  <2> QED
    BY <1>1, <2>2
<1>3. /\ b \in Seq(Handlers) /\ Len(b) = Len(list) - k
      /\ \A x \in 1..(Len(list) - k) : b[x] = list[k + x]
  <2>1. /\ k + 1 \in Int /\ Len(list) \in Int
        /\ \A x \in (k + 1)..Len(list) : list[x] \in Handlers
    BY <1>1
  <2>2. /\ b \in Seq(Handlers)
        /\ Len(b) = IF k + 1 <= Len(list) THEN Len(list) - (k + 1) + 1 ELSE 0
        /\ \A x \in 1..(Len(list) - (k + 1) + 1) : b[x] = list[k + 1 + x - 1]
    BY <2>1, SubSeqProperties
  <2> HIDE DEF b
  <2> QED
    BY <1>1, <2>2
<1>4. PICK c : c = a \o b
  OBVIOUS
<1>5. RemoveAt(list, k) = c
  BY <1>4 DEF RemoveAt
<1> HIDE DEF a, b
<1>6. /\ c \in Seq(Handlers) /\ Len(c) = Len(list) - 1
      /\ DOMAIN c = 1..(Len(list) - 1)
      /\ \A x \in 1..(Len(list) - 1) :
           c[x] = IF x < k THEN list[x] ELSE list[x + 1]
  <2>1. /\ c \in Seq(Handlers) /\ Len(c) = Len(a) + Len(b)
        /\ \A x \in 1..(Len(a) + Len(b)) :
             c[x] = IF x <= Len(a) THEN a[x] ELSE b[x - Len(a)]
    BY <1>2, <1>3, <1>4, ConcatProperties
  <2>2. Len(a) + Len(b) = Len(list) - 1
    BY <1>1, <1>2, <1>3
  <2>3. Len(c) = Len(list) - 1 /\ DOMAIN c = 1..(Len(list) - 1)
    BY <2>1, <2>2, LenProperties
  <2>4. ASSUME NEW x \in 1..(Len(list) - 1)
        PROVE  c[x] = IF x < k THEN list[x] ELSE list[x + 1]
    <3>1. c[x] = IF x <= k - 1 THEN a[x] ELSE b[x - (k - 1)]
      BY <1>2, <2>1, <2>2
    <3>2. CASE x <= k - 1
      BY <1>1, <1>2, <3>1, <3>2
    <3>3. CASE ~(x <= k - 1)
      <4>1. x - (k - 1) \in 1..(Len(list) - k)
        BY <1>1, <3>3
      <4>2. b[x - (k - 1)] = list[k + (x - (k - 1))]
        BY <1>3, <4>1
      <4>3. k + (x - (k - 1)) = x + 1 /\ ~(x < k)
        BY <1>1, <3>3
      <4> QED
        BY <3>1, <3>3, <4>2, <4>3
    <3> QED
      BY <3>2, <3>3
  <2> QED
    BY <2>1, <2>3, <2>4
<1> QED
  BY <1>5, <1>6

\* An iteration leaves a list of the registry.
LEMMA SweptList ==
  ASSUME NEW list, List(list), NEW k \in 1..Len(list)
  PROVE  List(Swept(list, k))
<1>1. list \in Seq(Handlers) /\ Len(list) \in Nat /\ Len(list) <= MaxHandlers
      /\ \A x, y \in 1..Len(list) : list[x] = list[y] => x = y
      /\ MaxHandlers \in Nat
  BY ConstantsAssumption DEF List, IsInjective, ConstantsAssumption
<1>2. PICK c : c = RemoveAt(list, k)
  OBVIOUS
<1>3. /\ c \in Seq(Handlers) /\ Len(c) = Len(list) - 1
      /\ DOMAIN c = 1..(Len(list) - 1)
      /\ \A x \in 1..(Len(list) - 1) :
           c[x] = IF x < k THEN list[x] ELSE list[x + 1]
  BY <1>2, RemovedElement
<1>4. ASSUME NEW x \in DOMAIN c, NEW y \in DOMAIN c, c[x] = c[y]
      PROVE  x = y
  <2>1. \A z \in 1..(Len(list) - 1) : z \in 1..Len(list) /\ z + 1 \in 1..Len(list)
    BY <1>1
  <2> QED
    BY <1>1, <1>3, <1>4, <2>1
<1> QED
  BY <1>1, <1>2, <1>3, <1>4 DEF Swept, List, IsInjective

\* This plugin's handler is none of the others.
LEMMA AppendedList ==
  ASSUME NEW list, List(list)
  PROVE  /\ ToSet(Append(list, Ours)) \subseteq Handlers \cup {Ours}
         /\ IsInjective(Append(list, Ours))
<1>1. /\ list \in Seq(Handlers) /\ Len(list) \in Nat
      /\ \A x \in 1..Len(list) : list[x] \in Handlers /\ list[x] # Ours
      /\ \A x, y \in 1..Len(list) : list[x] = list[y] => x = y
  BY ConstantsAssumption DEF List, IsInjective, ConstantsAssumption
<1>2. DOMAIN Append(list, Ours) = 1..(Len(list) + 1)
      /\ Append(list, Ours)[Len(list) + 1] = Ours
      /\ \A x \in 1..Len(list) : Append(list, Ours)[x] = list[x]
  BY <1>1, AppendProperties
<1>3. ToSet(Append(list, Ours)) \subseteq Handlers \cup {Ours}
  BY <1>1, <1>2 DEF ToSet
<1>4. IsInjective(Append(list, Ours))
  BY <1>1, <1>2 DEF IsInjective
<1> QED
  BY <1>3, <1>4

LEMMA ListElements ==
  ASSUME NEW list, List(list)
  PROVE  ToSet(list) \subseteq Handlers /\ IsInjective(list)
BY DEF List, ToSet

\* What the registry holds when setup starts.
LEMMA ListsAreLists ==
  ASSUME NEW list \in Lists
  PROVE  List(list)
<1>1. PICK n \in 0..MaxHandlers : list \in [1..n -> Handlers]
  BY DEF Lists
<1>2. list \in Seq(Handlers) /\ Len(list) = n
  BY <1>1, ConstantsAssumption, IsASeq DEF ConstantsAssumption
<1>3. IsInjective(list)
  BY DEF Lists
<1> QED
  BY <1>1, <1>2, <1>3, ConstantsAssumption DEF List, ConstantsAssumption

-----------------------------------------------------------------------------
(* Lemmas about the handlers that go and those that stay                   *)

\* An iteration keeps the handlers of other methods in their order.
LEMMA SweptKeepsOthers ==
  ASSUME NEW list, List(list), NEW k \in 1..Len(list)
  PROVE  SameOthers(Swept(list, k), list)
<1> SUFFICES ASSUME list[k] \in IndyHandlers,
                    NEW a \in Handlers \ IndyHandlers, NEW b \in Handlers \ IndyHandlers
             PROVE  InOrder(RemoveAt(list, k), a, b) <=> InOrder(list, a, b)
  BY DEF SameOthers, Swept
<1>1. Len(list) \in Nat /\ DOMAIN list = 1..Len(list)
  BY DEF List
<1>2. PICK c : c = RemoveAt(list, k)
  OBVIOUS
<1>3. /\ DOMAIN c = 1..(Len(list) - 1)
      /\ \A x \in 1..(Len(list) - 1) :
           c[x] = IF x < k THEN list[x] ELSE list[x + 1]
  BY <1>2, RemovedElement
<1>4. ASSUME InOrder(c, a, b) PROVE InOrder(list, a, b)
  <2>1. PICK x \in 1..(Len(list) - 1), y \in 1..(Len(list) - 1) :
          x <= y /\ c[x] = a /\ c[y] = b
    BY <1>3, <1>4 DEF InOrder
  <2> DEFINE u == IF x < k THEN x ELSE x + 1
             v == IF y < k THEN y ELSE y + 1
  <2>2. u \in 1..Len(list) /\ v \in 1..Len(list) /\ u <= v
    BY <1>1, <2>1
  <2>3. list[u] = a /\ list[v] = b
    BY <1>3, <2>1
  <2> QED
    BY <1>1, <2>2, <2>3 DEF InOrder
<1>5. ASSUME InOrder(list, a, b) PROVE InOrder(c, a, b)
  <2>1. PICK x \in 1..Len(list), y \in 1..Len(list) :
          x <= y /\ list[x] = a /\ list[y] = b
    BY <1>1, <1>5 DEF InOrder
  <2>2. x # k /\ y # k
    BY <2>1
  <2> DEFINE u == IF x < k THEN x ELSE x - 1
             v == IF y < k THEN y ELSE y - 1
  <2>3. /\ u \in 1..(Len(list) - 1) /\ v \in 1..(Len(list) - 1) /\ u <= v
        /\ (IF u < k THEN u ELSE u + 1) = x
        /\ (IF v < k THEN v ELSE v + 1) = y
    BY <1>1, <2>1, <2>2
  <2>4. c[u] = a /\ c[v] = b
    BY <1>3, <2>1, <2>3
  <2> QED
    BY <1>3, <2>3, <2>4 DEF InOrder
<1> QED
  BY <1>2, <1>4, <1>5

\* Registering adds no handler of another method.
LEMMA RegisterKeepsOthers ==
  ASSUME NEW list, List(list)
  PROVE  SameOthers(Append(list, Ours), list)
<1> SUFFICES ASSUME NEW a \in Handlers \ IndyHandlers, NEW b \in Handlers \ IndyHandlers
             PROVE  InOrder(Append(list, Ours), a, b) <=> InOrder(list, a, b)
  BY DEF SameOthers
<1>1. /\ Len(list) \in Nat /\ DOMAIN list = 1..Len(list)
      /\ DOMAIN Append(list, Ours) = 1..(Len(list) + 1)
      /\ Append(list, Ours)[Len(list) + 1] = Ours
      /\ \A x \in 1..Len(list) : Append(list, Ours)[x] = list[x]
      /\ a # Ours /\ b # Ours
  BY ConstantsAssumption, AppendProperties DEF List, ConstantsAssumption
<1>2. \A x \in 1..(Len(list) + 1) : x \in 1..Len(list) \/ x = Len(list) + 1
  BY <1>1
<1>3. \A x \in 1..Len(list) : x \in 1..(Len(list) + 1)
  BY <1>1
<1> QED
  BY <1>1, <1>2, <1>3 DEF InOrder

LEMMA SameOthersTransitive ==
  ASSUME NEW list, NEW middle, NEW old,
         SameOthers(list, middle), SameOthers(middle, old)
  PROVE  SameOthers(list, old)
BY DEF SameOthers

\* What a loop that has come to n leaves of old: the rest is as it was, and of
\* what it has looked at or passed over, the did:indy handlers are the latter.
Sweeping(list, old, n) ==
  \E gone \in Nat :
    /\ Len(old) = Len(list) + gone
    /\ \A x \in 1..Len(list) : n <= x => list[x] = old[x + gone]
    /\ \A x \in 1..Len(list) :
         x < n /\ list[x] \in IndyHandlers => PassedOver(list[x], list, old)

LEMMA PassedOverStays ==
  ASSUME NEW h, NEW list, NEW less, NEW old,
         ToSet(less) \subseteq ToSet(list), PassedOver(h, list, old)
  PROVE  PassedOver(h, less, old)
BY DEF PassedOver

LEMMA SweptFurther ==
  ASSUME NEW list, List(list), NEW old, NEW k \in 1..Len(list), Sweeping(list, old, k)
  PROVE  Sweeping(Swept(list, k), old, k + 1)
<1>1. /\ Len(list) \in Nat /\ k \in Nat /\ DOMAIN list = 1..Len(list)
      /\ \A x, y \in 1..Len(list) : list[x] = list[y] => x = y
  BY DEF List, IsInjective
<1>2. PICK gone \in Nat :
        /\ Len(old) = Len(list) + gone
        /\ \A x \in 1..Len(list) : k <= x => list[x] = old[x + gone]
        /\ \A x \in 1..Len(list) :
             x < k /\ list[x] \in IndyHandlers => PassedOver(list[x], list, old)
  BY DEF Sweeping
<1>3. CASE list[k] \notin IndyHandlers
  <2>1. \A x \in 1..Len(list) : (x < k + 1 => x < k \/ x = k) /\ (k + 1 <= x => k <= x)
    BY <1>1
  <2>2. Swept(list, k) = list
    BY <1>3 DEF Swept
  <2> QED
    BY <1>2, <1>3, <2>1, <2>2 DEF Sweeping
<1>4. CASE list[k] \in IndyHandlers
  <2>1. PICK c : c = Swept(list, k)
    OBVIOUS
  <2>2. /\ Len(c) = Len(list) - 1 /\ DOMAIN c = 1..(Len(list) - 1)
        /\ \A x \in 1..(Len(list) - 1) :
             c[x] = IF x < k THEN list[x] ELSE list[x + 1]
    BY <1>4, <2>1, RemovedElement DEF Swept
  <2>3. ToSet(c) \subseteq ToSet(list) /\ list[k] \notin ToSet(c)
    <3>1. ASSUME NEW x \in 1..(Len(list) - 1)
          PROVE  c[x] \in ToSet(list) /\ c[x] # list[k]
      <4>1. /\ x \in 1..Len(list) /\ x + 1 \in 1..Len(list)
            /\ x < k => x # k
            /\ ~(x < k) => x + 1 # k
        BY <1>1
      <4> QED
        BY <1>1, <2>2, <4>1 DEF ToSet
    <3> QED
      BY <2>2, <3>1 DEF ToSet
  <2>4. ASSUME NEW x \in 1..Len(c), k + 1 <= x PROVE c[x] = old[x + (gone + 1)]
    <3>1. x \in 1..(Len(list) - 1) /\ ~(x < k)
      BY <1>1, <2>2, <2>4
    <3>2. x + 1 \in 1..Len(list) /\ k <= x + 1 /\ (x + 1) + gone = x + (gone + 1)
      BY <1>1, <2>4, <3>1
    <3> QED
      BY <1>2, <2>2, <3>1, <3>2
  <2>5. ASSUME NEW x \in 1..Len(c), x < k + 1, c[x] \in IndyHandlers
        PROVE  PassedOver(c[x], c, old)
    <3>1. x \in 1..(Len(list) - 1) /\ x \in 1..Len(list) /\ x + 1 \in 1..Len(list)
      BY <1>1, <2>2
    <3>2. CASE x < k
      <4>1. c[x] = list[x]
        BY <2>2, <3>1, <3>2
      <4>2. PassedOver(c[x], list, old)
        BY <1>2, <2>5, <3>1, <3>2, <4>1
      <4> QED
        BY <2>3, <4>2, PassedOverStays
    <3>3. CASE x = k
      <4>1. c[x] = list[x + 1]
        BY <2>2, <3>1, <3>3
      <4>2. /\ (x + 1) + gone \in 2..Len(old) /\ (x + 1) + gone - 1 = x + gone
            /\ k <= x + 1 /\ k <= x
        BY <1>1, <1>2, <3>1, <3>3
      <4>3. list[x + 1] = old[(x + 1) + gone] /\ list[x] = old[x + gone]
        BY <1>2, <3>1, <4>2
      <4> QED
        BY <1>4, <2>3, <3>3, <4>1, <4>2, <4>3 DEF PassedOver
    <3> QED
      BY <1>1, <2>5, <3>1, <3>2, <3>3
  <2>6. gone + 1 \in Nat /\ Len(old) = Len(c) + (gone + 1)
    BY <1>1, <1>2, <2>2
  <2> QED
    BY <2>1, <2>4, <2>5, <2>6 DEF Sweeping
<1> QED
  BY <1>3, <1>4

\* The did:indy handlers of the list are those that a loop passed over.
PassedOverOnly(list, old) ==
  \A h \in Indy(list) \ {Ours} : PassedOver(h, list, old)

LEMMA SweptToTheEnd ==
  ASSUME NEW list, List(list), NEW old, NEW n \in Nat, n > Len(list),
         Sweeping(list, old, n)
  PROVE  PassedOverOnly(list, old)
<1>1. Len(list) \in Nat /\ DOMAIN list = 1..Len(list)
  BY DEF List
<1>2. \A x \in 1..Len(list) : x < n
  BY <1>1
<1>3. ASSUME NEW h \in Indy(list) \ {Ours} PROVE PassedOver(h, list, old)
  <2>1. PICK x \in 1..Len(list) : h = list[x]
    BY <1>1 DEF Indy, ToSet
  <2>2. h \in IndyHandlers
    BY DEF Indy
  <2> QED
    BY <1>2, <2>1, <2>2 DEF Sweeping
<1> QED
  BY <1>3 DEF PassedOverOnly

LEMMA RegisteredAlone ==
  ASSUME NEW list, List(list), NEW old, PassedOverOnly(list, old)
  PROVE  Ours \in ToSet(Append(list, Ours)) /\ PassedOverOnly(Append(list, Ours), old)
<1>1. /\ Len(list) \in Nat /\ DOMAIN list = 1..Len(list)
      /\ DOMAIN Append(list, Ours) = 1..(Len(list) + 1)
      /\ Append(list, Ours)[Len(list) + 1] = Ours
      /\ \A x \in 1..Len(list) : Append(list, Ours)[x] = list[x]
  BY AppendProperties DEF List
<1>2. /\ \A x \in 1..(Len(list) + 1) : x \in 1..Len(list) \/ x = Len(list) + 1
      /\ \A x \in 1..Len(list) : x \in 1..(Len(list) + 1)
      /\ Len(list) + 1 \in 1..(Len(list) + 1)
  BY <1>1
<1> DEFINE longer == Append(list, Ours)
<1> HIDE DEF longer
<1>3. ToSet(longer) = ToSet(list) \cup {Ours}
  BY <1>1, <1>2 DEF ToSet, longer
<1>4. ASSUME NEW h \in Indy(longer) \ {Ours} PROVE PassedOver(h, longer, old)
  <2>1. h \in Indy(list) \ {Ours}
    BY <1>3 DEF Indy
  <2>2. PassedOver(h, list, old)
    BY <2>1 DEF PassedOverOnly
  <2> QED
    BY <1>3, <2>2, ConstantsAssumption DEF PassedOver, ConstantsAssumption
<1> QED
  BY <1>3, <1>4 DEF PassedOverOnly, longer

-----------------------------------------------------------------------------
(* The initial state and the steps                                         *)

LEMMA InitSInv == Init => SInv
<1> SUFFICES ASSUME Init PROVE SInv
  OBVIOUS
<1>1. List(registrars) /\ List(resolvers)
  BY ListsAreLists DEF Init
<1>2. TypesInv
  <2>1. 1 \in 1..(MaxHandlers + 1)
    BY ConstantsAssumption DEF ConstantsAssumption
  <2>2. {driver, ledgers} \subseteq (SUBSET Namespaces) \cup {None}
    BY DEF Init
  <2>3. settings \in Settings /\ pc = "start" /\ bound \subseteq Everything /\ ~resolving
    BY DEF Init
  <2> QED
    BY <2>1, <2>2, <2>3 DEF Init, TypesInv
<1>3. ListsInv /\ BoundInv /\ LedgersInv
  BY <1>1 DEF Init, ListsInv, BoundInv, LedgersInv, Early
<1> QED
  BY <1>2, <1>3 DEF SInv

\* The steps up to the bindings leave the registry's lists alone.
LEMMA EarlyStep ==
  ASSUME SInv,
         Start \/ DriverAnswers \/ DriverFails \/ FetchGenesis \/ Bind \/ OpenPools
  PROVE  SInv'
<1>1. UNCHANGED <<settings, before, registrars, resolvers, resolving, i>>
  BY DEF Start, DriverAnswers, DriverFails, FetchGenesis, Bind, OpenPools, lists
<1>2. TypesInv'
  <2>1. CASE Start
    BY <2>1 DEF SInv, TypesInv, Start, lists, Everything
  <2>2. CASE DriverAnswers
    BY <2>2 DEF SInv, TypesInv, DriverAnswers, Chosen, lists
  <2>3. CASE DriverFails
    BY <2>3 DEF SInv, TypesInv, DriverFails, lists
  <2>4. CASE FetchGenesis
    BY <2>4 DEF SInv, TypesInv, FetchGenesis, lists, Settings
  <2>5. CASE Bind
    BY <2>5 DEF SInv, TypesInv, Bind, lists, Everything
  <2>6. CASE OpenPools
    BY <2>6 DEF SInv, TypesInv, OpenPools, lists, Everything
  <2> QED
    BY <2>1, <2>2, <2>3, <2>4, <2>5, <2>6
<1>3. ListsInv'
  <2>1. pc \in Early /\ pc' # "done" /\ pc # "done"
    BY DEF Start, DriverAnswers, DriverFails, FetchGenesis, Bind, OpenPools, Early
  <2>2. bound # Everything
    BY <2>1 DEF SInv, BoundInv, Everything
  <2> QED
    BY <1>1, <2>1, <2>2 DEF SInv, ListsInv, List
<1>4. BoundInv'
  BY DEF SInv, BoundInv, Start, DriverAnswers, DriverFails, FetchGenesis, Bind,
         OpenPools, Everything, TypesInv, Early
<1>5. LedgersInv'
  <2>1. CASE Start \/ Bind \/ OpenPools
    BY <2>1 DEF SInv, LedgersInv, RightLedgers, Start, Bind, OpenPools
  <2>2. CASE DriverAnswers
    <3>1. PICK answer \in SUBSET Namespaces :
            /\ driver' = answer
            /\ (pc' = "bind" /\ ledgers' = answer) \/ pc' = "returned"
      BY <2>2 DEF DriverAnswers, Chosen
    <3> QED
      BY <3>1, NoLedgersAssumption DEF NoLedgersAssumption, LedgersInv, RightLedgers
  <2>3. CASE DriverFails \/ FetchGenesis
    BY <2>3 DEF SInv, LedgersInv, RightLedgers, DriverFails, FetchGenesis
  <2> QED
    BY <2>1, <2>2, <2>3
<1> QED
  BY <1>2, <1>3, <1>4, <1>5 DEF SInv

\* An iteration of a loop over a list of the registry.
LEMMA SweepStep ==
  ASSUME SInv, SweepRegistrars \/ SweepResolvers
  PROVE  SInv'
<1>1. /\ pc \in {"registrars", "resolvers"}
      /\ pc' \in {"registrars", "resolvers", "register", "raised"}
      /\ UNCHANGED <<settings, before, driver, ledgers, bound, resolving>>
  BY DEF SweepRegistrars, SweepResolvers
<1>2. List(registrars) /\ List(resolvers) /\ i \in 1..(MaxHandlers + 1)
      /\ MaxHandlers \in Nat
  BY <1>1, ConstantsAssumption DEF SInv, ListsInv, TypesInv, ConstantsAssumption
<1>3. Len(registrars) \in Nat /\ Len(resolvers) \in Nat
      /\ Len(registrars) <= MaxHandlers /\ Len(resolvers) <= MaxHandlers
  BY <1>2 DEF List
<1>4. List(registrars')
  <2>1. \/ registrars' = registrars
        \/ i \in 1..Len(registrars) /\ registrars' = Swept(registrars, i)
    BY <1>2, <1>3 DEF SweepRegistrars, SweepResolvers
  <2> QED
    BY <1>2, <2>1, SweptList
<1>5. List(resolvers')
  <2>1. \/ resolvers' = resolvers
        \/ i \in 1..Len(resolvers) /\ resolvers' = Swept(resolvers, i)
    BY <1>2, <1>3 DEF SweepRegistrars, SweepResolvers
  <2> QED
    BY <1>2, <2>1, SweptList
<1>6. i' \in 1..(MaxHandlers + 1)
  BY <1>2, <1>3 DEF SweepRegistrars, SweepResolvers
<1>7. TypesInv'
  BY <1>1, <1>6 DEF SInv, TypesInv
<1>8. ListsInv'
  BY <1>1, <1>4, <1>5 DEF SInv, BoundInv, ListsInv, List
<1>9. BoundInv' /\ LedgersInv'
  BY <1>1 DEF SInv, BoundInv, LedgersInv, RightLedgers, Early
<1> QED
  BY <1>7, <1>8, <1>9 DEF SInv

LEMMA RegisterStep ==
  ASSUME SInv, Register
  PROVE  SInv'
<1>1. /\ pc = "register" /\ pc' \in {"done", "raised"}
      /\ UNCHANGED <<settings, before, driver, ledgers, bound, i>>
      /\ bound = Everything
  BY DEF Register, SInv, BoundInv
<1>2. ListsInv'
  <2>1. CASE pc' = "done"
    <3>1. /\ registrars' = Append(registrars, Ours) /\ resolvers' = Append(resolvers, Ours)
          /\ resolving'
      BY <2>1 DEF Register
    <3> QED
      BY <1>1, <2>1, <3>1 DEF SInv, ListsInv, List
  <2>2. CASE pc' = "raised"
    <3>1. UNCHANGED <<registrars, resolvers, resolving>>
      BY <2>2 DEF Register
    <3> QED
      BY <1>1, <2>2, <3>1 DEF SInv, ListsInv, List
  <2> QED
    BY <1>1, <2>1, <2>2
<1>3. TypesInv'
  <2>1. resolving' \in BOOLEAN
    BY DEF Register, SInv, TypesInv
  <2> QED
    BY <1>1, <2>1 DEF SInv, TypesInv
<1>4. BoundInv' /\ LedgersInv'
  BY <1>1 DEF SInv, BoundInv, LedgersInv, RightLedgers, Early
<1> QED
  BY <1>2, <1>3, <1>4 DEF SInv

LEMMA NextSInv == SInv /\ [Next]_vars => SInv'
<1> SUFFICES ASSUME SInv, [Next]_vars PROVE SInv'
  OBVIOUS
<1>1. CASE UNCHANGED vars
  BY <1>1 DEF vars, SInv, TypesInv, ListsInv, List, BoundInv, LedgersInv, RightLedgers, Early
<1> QED
  BY <1>1, EarlyStep, SweepStep, RegisterStep DEF Next

-----------------------------------------------------------------------------
(* The loops                                                               *)

\* How far the did:indy handlers are removed: each loop starts at the head of a
\* list that nobody has touched.
SweptInv ==
  /\ pc \in Early => i = 1
  /\ pc = "registrars" =>
       resolvers = before.resolvers /\ Sweeping(registrars, before.registrars, i)
  /\ pc \in {"resolvers", "register"} => PassedOverOnly(registrars, before.registrars)
  /\ pc = "resolvers" => Sweeping(resolvers, before.resolvers, i)
  /\ pc = "register" => PassedOverOnly(resolvers, before.resolvers)
  /\ pc = "done" =>
       /\ Ours \in ToSet(registrars) /\ PassedOverOnly(registrars, before.registrars)
       /\ Ours \in ToSet(resolvers) /\ PassedOverOnly(resolvers, before.resolvers)

\* Where a loop starts nothing has been looked at.
LEMMA NothingSwept ==
  ASSUME NEW list, List(list)
  PROVE  Sweeping(list, list, 1)
<1>1. Len(list) \in Nat /\ Len(list) = Len(list) + 0 /\ 0 \in Nat
      /\ \A x \in 1..Len(list) : list[x] = list[x + 0] /\ ~(x < 1)
  BY DEF List
<1> QED
  BY <1>1 DEF Sweeping

LEMMA InitLoops == Init => SweptInv /\ OthersStay
BY DEF Init, SweptInv, OthersStay, SameOthers, Early

\* Each step takes away only handlers of did:indy and adds only this plugin's.
LEMMA NextOthersStay ==
  ASSUME SInv, OthersStay, [Next]_vars
  PROVE  OthersStay'
<1>1. UNCHANGED before
  BY DEF Next, Start, DriverAnswers, DriverFails, FetchGenesis, Bind, OpenPools,
         SweepRegistrars, SweepResolvers, Register, vars
<1>2. /\ SameOthers(registrars', registrars)
      /\ SameOthers(resolvers', resolvers)
  <2>1. CASE SweepRegistrars \/ SweepResolvers
    <3>1. List(registrars) /\ List(resolvers) /\ i \in Nat /\ i >= 1
          /\ Len(registrars) \in Nat /\ Len(resolvers) \in Nat
      BY <2>1, ConstantsAssumption
      DEF SInv, ListsInv, TypesInv, List, SweepRegistrars, SweepResolvers,
          ConstantsAssumption
    <3>2. /\ \/ registrars' = registrars
             \/ i \in 1..Len(registrars) /\ registrars' = Swept(registrars, i)
          /\ \/ resolvers' = resolvers
             \/ i \in 1..Len(resolvers) /\ resolvers' = Swept(resolvers, i)
      BY <2>1, <3>1 DEF SweepRegistrars, SweepResolvers
    <3>3. SameOthers(registrars, registrars) /\ SameOthers(resolvers, resolvers)
      BY DEF SameOthers
    <3> QED
      BY <3>1, <3>2, <3>3, SweptKeepsOthers
  <2>2. CASE Register
    <3>1. List(registrars) /\ List(resolvers)
      BY <2>2 DEF Register, SInv, ListsInv
    <3>2. \/ registrars' = Append(registrars, Ours) /\ resolvers' = Append(resolvers, Ours)
          \/ UNCHANGED <<registrars, resolvers>>
      BY <2>2 DEF Register
    <3>3. SameOthers(registrars, registrars) /\ SameOthers(resolvers, resolvers)
      BY DEF SameOthers
    <3> QED
      BY <3>1, <3>2, <3>3, RegisterKeepsOthers
  <2>3. CASE UNCHANGED <<registrars, resolvers>>
    BY <2>3 DEF SameOthers
  <2> QED
    BY <2>1, <2>2, <2>3
    DEF Next, Start, DriverAnswers, DriverFails, FetchGenesis, Bind, OpenPools,
        lists, vars
<1> QED
  BY <1>1, <1>2, SameOthersTransitive DEF OthersStay

LEMMA NextSweptInv ==
  ASSUME SInv, SweptInv, [Next]_vars
  PROVE  SweptInv'
<1>1. CASE Start \/ DriverAnswers \/ DriverFails \/ FetchGenesis \/ Bind \/ OpenPools
  <2>1. /\ pc \in Early
        /\ pc' \in Early \cup {"registrars", "returned", "raised"}
        /\ UNCHANGED <<before, registrars, resolvers, i>>
    BY <1>1
    DEF Start, DriverAnswers, DriverFails, FetchGenesis, Bind, OpenPools, lists, Early
  <2>2. /\ registrars = before.registrars /\ resolvers = before.resolvers /\ i = 1
        /\ List(registrars)
    BY <2>1 DEF SInv, ListsInv, BoundInv, SweptInv, Everything, Early
  <2>3. Sweeping(registrars, before.registrars, 1)
    BY <2>2, NothingSwept
  <2> QED
    BY <2>1, <2>2, <2>3 DEF SweptInv, Early
<1>2. CASE SweepRegistrars \/ SweepResolvers
  <2>1. List(registrars) /\ List(resolvers) /\ i \in Nat /\ i >= 1
        /\ Len(registrars) \in Nat /\ Len(resolvers) \in Nat
    BY <1>2, ConstantsAssumption
    DEF SInv, ListsInv, TypesInv, List, SweepRegistrars, SweepResolvers,
        ConstantsAssumption
  <2>2. CASE SweepRegistrars /\ i <= Len(registrars) /\ pc' # "raised"
    <3>1. /\ pc = "registrars" /\ pc' = "registrars" /\ i' = i + 1
          /\ registrars' = Swept(registrars, i) /\ UNCHANGED <<before, resolvers>>
          /\ i \in 1..Len(registrars)
      BY <2>1, <2>2 DEF SweepRegistrars
    <3> QED
      BY <2>1, <3>1, SweptFurther DEF SweptInv, Early
  <2>3. CASE SweepRegistrars /\ ~(i <= Len(registrars))
    <3>1. /\ pc = "registrars" /\ pc' = "resolvers" /\ i' = 1
          /\ UNCHANGED <<before, registrars, resolvers>> /\ i > Len(registrars)
      BY <2>1, <2>3 DEF SweepRegistrars
    <3>2. Sweeping(resolvers, before.resolvers, 1)
      BY <2>1, <3>1, NothingSwept DEF SweptInv
    <3>3. PassedOverOnly(registrars, before.registrars)
      BY <2>1, <3>1, SweptToTheEnd DEF SweptInv
    <3> QED
      BY <3>1, <3>2, <3>3 DEF SweptInv, Early
  <2>4. CASE SweepResolvers /\ i <= Len(resolvers) /\ pc' # "raised"
    <3>1. /\ pc = "resolvers" /\ pc' = "resolvers" /\ i' = i + 1
          /\ resolvers' = Swept(resolvers, i) /\ UNCHANGED <<before, registrars>>
          /\ i \in 1..Len(resolvers)
      BY <2>1, <2>4 DEF SweepResolvers
    <3> QED
      BY <2>1, <3>1, SweptFurther DEF SweptInv, Early
  <2>5. CASE SweepResolvers /\ ~(i <= Len(resolvers))
    <3>1. /\ pc = "resolvers" /\ pc' = "register"
          /\ UNCHANGED <<before, registrars, resolvers, i>> /\ i > Len(resolvers)
      BY <2>1, <2>5 DEF SweepResolvers
    <3> QED
      BY <2>1, <3>1, SweptToTheEnd DEF SweptInv, Early
  <2>6. CASE pc' = "raised"
    BY <2>6 DEF SweptInv, Early
  <2> QED
    BY <1>2, <2>2, <2>3, <2>4, <2>5, <2>6
<1>3. CASE Register
  <2>1. List(registrars) /\ List(resolvers) /\ UNCHANGED before /\ pc = "register"
    BY <1>3 DEF Register, SInv, ListsInv
  <2>2. CASE pc' = "done"
    <3>1. registrars' = Append(registrars, Ours) /\ resolvers' = Append(resolvers, Ours)
      BY <1>3, <2>2 DEF Register
    <3> QED
      BY <2>1, <2>2, <3>1, RegisteredAlone DEF SweptInv, Early
  <2>3. CASE pc' = "raised"
    BY <2>3 DEF SweptInv, Early
  <2> QED
    BY <1>3, <2>2, <2>3 DEF Register
<1>4. CASE UNCHANGED vars
  BY <1>4 DEF vars, SweptInv, PassedOverOnly, Sweeping, PassedOver, Indy
<1> QED
  BY <1>1, <1>2, <1>3, <1>4 DEF Next

-----------------------------------------------------------------------------
(* Results                                                                 *)

\* The settings, what is bound and the registry's lists have their types, and no
\* list ever holds a handler twice.
THEOREM SetupTypeCorrect == Spec => []TypeOK
<1>1. Init => SInv
  BY InitSInv
<1>2. SInv /\ [Next]_vars => SInv'
  BY NextSInv
<1>3. SInv => TypeOK
  <2> SUFFICES ASSUME SInv, NEW list \in {registrars, resolvers}
               PROVE  ToSet(list) \subseteq Handlers \cup {Ours} /\ IsInjective(list)
    BY DEF SInv, TypesInv, TypeOK
  <2>1. CASE pc = "done"
    BY <2>1, AppendedList DEF SInv, ListsInv
  <2>2. CASE pc # "done"
    BY <2>2, ListElements DEF SInv, ListsInv
  <2> QED
    BY <2>1, <2>2
<1> QED
  BY <1>1, <1>2, <1>3, PTL DEF Spec

\* A setup that returns early or raises has registered nothing, and nothing is taken
\* off the registry's lists for it before everything is bound.
THEOREM DefaultStays == Spec => []FailureLeavesDefault
<1>1. Init => SInv
  BY InitSInv
<1>2. SInv /\ [Next]_vars => SInv'
  BY NextSInv
<1>3. SInv => FailureLeavesDefault
  <2> SUFFICES ASSUME SInv, pc \in {"returned", "raised"}
               PROVE  /\ Ours \notin ToSet(registrars) \cup ToSet(resolvers) /\ ~resolving
                      /\ bound # Everything =>
                           registrars = before.registrars /\ resolvers = before.resolvers
    BY DEF FailureLeavesDefault
  <2>1. List(registrars) /\ List(resolvers) /\ ~resolving
    BY DEF SInv, ListsInv
  <2>2. Ours \notin ToSet(registrars) \cup ToSet(resolvers)
    BY <2>1, ListElements, ConstantsAssumption DEF ConstantsAssumption
  <2> QED
    BY <2>1, <2>2 DEF SInv, ListsInv
<1> QED
  BY <1>1, <1>2, <1>3, PTL DEF Spec

\* Once the plugin can be looked up, everything it injects is bound.
THEOREM Equipped == Spec => []RegisteredIsEquipped
<1>1. Init => SInv
  BY InitSInv
<1>2. SInv /\ [Next]_vars => SInv'
  BY NextSInv
<1>3. SInv => RegisteredIsEquipped
  <2> SUFFICES ASSUME SInv,
                      Ours \in ToSet(registrars) \cup ToSet(resolvers) \/ resolving
               PROVE  bound = Everything /\ resolving
    BY DEF RegisteredIsEquipped
  <2>1. pc = "done"
    BY ListElements, ConstantsAssumption DEF SInv, ListsInv, ConstantsAssumption
  <2> QED
    BY <2>1 DEF SInv, BoundInv, ListsInv
<1> QED
  BY <1>1, <1>2, <1>3, PTL DEF Spec

\* The ledgers are the driver's if it answered, the configuration's only if it
\* did not and that is allowed.
THEOREM DriversLedgers == Spec => []LedgersMatchDriver
<1>1. Init => SInv
  BY InitSInv
<1>2. SInv /\ [Next]_vars => SInv'
  BY NextSInv
<1>3. SInv => LedgersMatchDriver
  BY DEF SInv, LedgersInv, RightLedgers, LedgersMatchDriver
<1> QED
  BY <1>1, <1>2, <1>3, PTL DEF Spec

\* However often removing shortens the list a loop runs over, no handler of
\* another method goes, and none changes places with another.
THEOREM OthersUntouched == Spec => []OthersStay
<1>1. Init => SInv /\ OthersStay
  BY InitSInv, InitLoops
<1>2. SInv /\ OthersStay /\ [Next]_vars => SInv' /\ OthersStay'
  BY NextSInv, NextOthersStay
<1> QED
  BY <1>1, <1>2, PTL DEF Spec

\* However many did:indy handlers there are, and wherever they stand, this plugin's
\* has only those beside it that stood right behind one that is gone.
THEOREM OneHandler == Spec => []OneHandlerForIndy
<1>1. Init => SInv /\ SweptInv
  BY InitSInv, InitLoops
<1>2. SInv /\ SweptInv /\ [Next]_vars => SInv' /\ SweptInv'
  BY NextSInv, NextSweptInv
<1>3. SInv /\ SweptInv => OneHandlerForIndy
  BY DEF SInv, ListsInv, SweptInv, PassedOverOnly, OneHandlerForIndy
<1> QED
  BY <1>1, <1>2, <1>3, PTL DEF Spec

=============================================================================
