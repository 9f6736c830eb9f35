------------------------- MODULE DidRegisterProofs -------------------------
(* IndyRegistrar implements DidRegister, for any ledgers, wallet and number *)
(* of requests: the two invariants of the registrar, and one more.          *)
EXTENDS IndyDocumentProofs

-----------------------------------------------------------------------------
(* The inductive invariant                                                 *)

\* A request for a new nym that is past making its assertion key, and its
\* transaction even when the handler is gone, has that key under its kid.
NewKeyed(r) ==
  (/\ req[r] # None /\ req[r].kind = "new" /\ req[r].ldp_vc
   /\ pc[r] \in {"services", "taa", "nym", "store"} \/ call[r] # "none") =>
    <<AssertKey(r), Kid(Did(r), "assert")>> \in kids

PInv == DInv /\ \A r \in Requests : NewKeyed(r)

LEMMA InitPInv == Init => PInv
BY InitDInv DEF Init, PInv, NewKeyed

LEMMA NextNewKeyed ==
  ASSUME PInv, [Next]_vars, NEW r \in Requests
  PROVE  NewKeyed(r)'
<1>1. /\ IInv /\ Kept
      /\ req[r] # None => Did(r) \in Dids \/ req[r].kind = "from"
      /\ AssertKey(r) \in Keys
  BY NextKept, RequestTypes, KeyTypes DEF PInv, DInv, IInv, TypeOK, Request
<1>2. CASE UNCHANGED <<pc[r], req[r], call[r]>>
  BY <1>1, <1>2, SameRequest DEF PInv, NewKeyed, Kept
<1>3. ASSUME CreateAssertKey(r) PROVE NewKeyed(r)'
  BY <1>3 DEF CreateAssertKey, NewKeyed, Did, Nym, LocalNym
<1>4. ASSUME Refuse(r) \/ Receive(r) PROVE NewKeyed(r)'
  BY <1>1, <1>4
  DEF Refuse, Receive, Goto, NewKeyed, IInv, TypeOK, Handlers, Handler
<1>5. ASSUME \/ CreateKey(r) \/ AssignKid(r) \/ LookUpDid(r) \/ PrepareServices(r)
             \/ SubmitNym(r) \/ StoreDid(r) \/ NymAnswered(r) \/ AttribAnswered(r)
             \/ Fails(r)
      PROVE  NewKeyed(r)'
  BY <1>1, <1>5, SameRequest
  DEF CreateKey, AssignKid, LookUpDid, PrepareServices, SubmitNym, StoreDid,
      NymAnswered, AttribAnswered, Fails, AfterKeys, Goto, Sends, PInv, NewKeyed,
      Kept, DInv, RInv, Steps, IInv, TypeOK, Handlers, Handler
<1>6. ASSUME LedgerExecutes(r) \/ LedgerDrops(r) \/ Restart PROVE NewKeyed(r)'
  BY <1>1, <1>6, SameRequest
  DEF LedgerExecutes, LedgerDrops, Restart, Sends, OnItsWay, PInv, NewKeyed, Kept,
      IInv, TypeOK, Live
<1>7. ASSUME NEW q \in Requests, q # r,
             Handle(q) \/ LedgerExecutes(q) \/ LedgerDrops(q)
      PROVE  UNCHANGED <<pc[r], req[r], call[r]>>
  BY <1>1, <1>7
  DEF Handle, Refuse, Receive, Fails, CreateKey, AssignKid, LookUpDid,
      CreateAssertKey, PrepareServices, StoreDid, SubmitNym, NymAnswered,
      AttribAnswered, LedgerExecutes, LedgerDrops, AfterKeys, Goto, Sends, IInv,
      TypeOK
<1>8. ASSUME Handle(r) PROVE NewKeyed(r)'
  BY <1>3, <1>4, <1>5, <1>8 DEF Handle
<1> QED
  BY <1>2, <1>6, <1>7, <1>8 DEF Next, vars

LEMMA NextPInv == PInv /\ [Next]_vars => PInv'
BY NextDInv, NextNewKeyed DEF PInv

-----------------------------------------------------------------------------
(* The steps                                                               *)

NamedKids == {p \in kids : p[2] # None}

\* Making a key names none; naming it names one.
LEMMA NamesAKey ==
  ASSUME PInv, NEW r \in Requests,
         CreateKey(r) \/ AssignKid(r) \/ CreateAssertKey(r)
  PROVE  [Promised!Next]_(Promised!vars)
<1>1. /\ IInv /\ req[r] \in Request /\ req[r] # None
      /\ pc[r] \in {"key", "kid"} => req[r].kind = "new"
      /\ VerKey(r) \in Keys /\ AssertKey(r) \in Keys /\ VerKey(r) \notin LocalNyms
      /\ UNCHANGED <<dids, ledger>>
  BY KeyTypes, NoneAssumption
  DEF PInv, DInv, IInv, Handlers, Handler, CreateKey, AssignKid, CreateAssertKey,
      Live, NoneAssumption
<1>2. Did(r) \in Dids
  BY <1>1, Arguments
  DEF CreateKey, AssignKid, CreateAssertKey, Live
<1>3. CASE CreateKey(r)
  <2>1. NamedKids' = NamedKids
    BY <1>3 DEF CreateKey, NamedKids
  <2> QED
    BY <1>1, <2>1 DEF Promised!vars, NamedKids
<1>4. CASE AssignKid(r)
  <2>1. Kid(Did(r), "verkey") # None
    BY <1>2, KidTypes
  <2>2. NamedKids' = NamedKids \cup {<<VerKey(r), Kid(Did(r), "verkey")>>}
    BY <1>4, <2>1 DEF AssignKid, NamedKids
  <2>3. Did(r) = <<req[r].namespace, VerKey(r)>> /\ req[r].namespace \in Namespaces
    BY <1>1, <1>4 DEF AssignKid, Did, Nym, Request
  <2>4. ASSUME NEW p \in NamedKids, p[2] = Kid(Did(r), "verkey")
        PROVE  p[1] = VerKey(r)
    <3>1. p[1] \in Keys /\ p = <<p[1], p[2]>> /\ p \in kids
      BY <1>1 DEF IInv, TypeOK, NamedKids
    <3> QED
      BY <1>1, <2>3, <2>4, <3>1, KeyTypes DEF IInv, KidsAreNyms
  <2>5. Promised!Name(VerKey(r), Did(r), "verkey")
    BY <1>1, <2>2, <2>3, <2>4 DEF Promised!Name, NamedKids, Kid
  <2> QED
    BY <1>1, <1>2, <2>5 DEF Promised!Next, Promised!Dids, Dids
<1>5. CASE CreateAssertKey(r)
  <2>1. Kid(Did(r), "assert") # None
    BY <1>2, KidTypes
  <2>2. NamedKids' = NamedKids \cup {<<AssertKey(r), Kid(Did(r), "assert")>>}
    BY <1>5, <2>1 DEF CreateAssertKey, NamedKids
  <2>3. Promised!Name(AssertKey(r), Did(r), "assert")
    BY <1>1, <2>2 DEF Promised!Name, NamedKids, Kid
  <2> QED
    BY <1>1, <1>2, <2>3 DEF Promised!Next, Promised!Dids, Dids
<1> QED
  BY <1>3, <1>4, <1>5

\* A DID is stored once, and that of a new nym when the nym is on the ledger.
LEMMA StoresADid ==
  ASSUME PInv, NEW r \in Requests, StoreDid(r)
  PROVE  [Promised!Next]_(Promised!vars)
<1>1. /\ IInv /\ Steps(r) /\ pc[r] = "store" /\ req[r] \in Request /\ req[r] # None
      /\ UNCHANGED <<kids, ledger>>
  BY NoneAssumption
  DEF PInv, DInv, RInv, IInv, Handlers, Handler, StoreDid, Live, NoneAssumption
<1>2. /\ Did(r) \in Dids /\ Verkey(r) \in Keys
      /\ req[r].kind \in {"new", "from"}
      /\ req[r].kind = "from" => Did(r)[2] \in LocalNyms
  BY <1>1, Arguments DEF Live
<1>3. CASE Known(Did(r))
  BY <1>1, <1>3 DEF StoreDid, Promised!vars
<1>4. CASE ~Known(Did(r))
  <2>1. dids' = dids \cup {[did |-> Did(r), verkey |-> Verkey(r)]}
    BY <1>4 DEF StoreDid
  <2>2. ASSUME Did(r)[2] \notin LocalNyms
        PROVE  /\ ledger[Did(r)[1]][Did(r)[2]] # None
               /\ ledger[Did(r)[1]][Did(r)[2]].verkey = Verkey(r)
    <3>1. req[r].kind = "new"
      BY <1>2, <2>2
    <3>2. /\ Did(r) = <<req[r].namespace, VerKey(r)>> /\ Verkey(r) = VerKey(r)
          /\ req[r].namespace \in Namespaces
      BY <1>1, <3>1 DEF Did, Nym, Verkey, NewVerkey, Request
    <3>3. ledger[req[r].namespace][VerKey(r)] # None
      BY <1>1, <3>1 DEF IInv, Progress, Published
    <3>4. ledger[req[r].namespace][VerKey(r)].verkey = VerKey(r)
      BY <1>1, <3>2, <3>3 DEF IInv, LedgerNyms
    <3>5. Did(r)[1] = req[r].namespace /\ Did(r)[2] = VerKey(r)
      BY <3>2
    <3> QED
      BY <3>2, <3>3, <3>4, <3>5
  <2>3. Promised!Store(Did(r), Verkey(r))
    BY <1>1, <1>4, <2>1, <2>2 DEF Promised!Store, Known
  <2> QED
    BY <1>2, <2>3 DEF Promised!Next, Promised!Dids, Dids
<1> QED
  BY <1>3, <1>4

\* A transaction publishes a new nym or shows the document of a stored DID.
LEMMA ShowsADocument ==
  ASSUME PInv, NEW r \in Requests, LedgerExecutes(r)
  PROVE  [Promised!Next]_(Promised!vars)
<1> DEFINE n == Target(r)
           x == Nym(r)
           doc == DocContent(r)
<1>1. /\ IInv /\ RInv(r) /\ call[r] \in OnItsWay
      /\ req[r] \in Request /\ req[r] # None
      /\ UNCHANGED <<kids, dids>>
  BY NoneAssumption
  DEF PInv, DInv, IInv, Handlers, Handler, LedgerExecutes, OnItsWay, NoneAssumption
<1>2. /\ Did(r) \in Dids /\ Verkey(r) \in Keys /\ doc \in Docs /\ n \in Namespaces
      /\ req[r].kind \in {"new", "from"}
      /\ req[r].kind = "from" => x \in LocalNyms /\ Did(r)[2] = x
      /\ req[r].kind = "new" => x = VerKey(r) /\ Did(r)[2] = x
  BY <1>1, Arguments DEF OnItsWay
<1>3. doc.did = Did(r) /\ doc.assert = IF req[r].ldp_vc THEN AssertKey(r) ELSE None
  BY DEF DocContent
<1>4. <<AssertKey(r), Kid(Did(r), "assert")>> \in NamedKids \/ ~req[r].ldp_vc
  <2>1. Kid(Did(r), "assert") # None
    BY <1>2, KidTypes
  <2>2. <<AssertKey(r), Kid(Did(r), "assert")>> \in kids \/ ~req[r].ldp_vc
    BY <1>1, <1>2 DEF PInv, NewKeyed, RInv, Keyed, Working, From, OnItsWay
  <2> QED
    BY <2>1, <2>2 DEF NamedKids
<1>5. Promised!Backed(doc)
  BY <1>3, <1>4 DEF Promised!Backed, NamedKids, Kid
<1>6. CASE req[r].kind = "new"
  <2>1. /\ call[r] = "nym" /\ ledger[n][x] = None
        /\ ledger' = [ledger EXCEPT ![n][x] =
                        [verkey |-> Verkey(r), doc |-> doc, attrib |-> None]]
    BY <1>1, <1>6
    DEF LedgerExecutes, OnItsWay, IInv, Handlers, Handler
  <2>2. Did(r)[1] = n /\ x \notin LocalNyms /\ Verkey(r) = VerKey(r)
    BY <1>2, <1>6, KeyTypes DEF Did, Target, Verkey, NewVerkey
  <2>3. <<Verkey(r), Kid(Did(r), "verkey")>> \in NamedKids
    <3>1. Did(r) = <<req[r].namespace, VerKey(r)>>
      BY <1>6 DEF Did, Nym
    <3>2. <<VerKey(r), Kid(Did(r), "verkey")>> \in kids
      BY <1>1, <1>6, <2>1, <3>1 DEF IInv, Progress, Named
    <3>3. Kid(Did(r), "verkey") # None
      BY <1>2, KidTypes
    <3> QED
      BY <2>2, <3>2, <3>3 DEF NamedKids
  <2>4. Promised!Publish(Verkey(r), doc)
    BY <1>1, <1>2, <1>3, <1>5, <1>6, <2>1, <2>2, <2>3
    DEF Promised!Publish, NamedKids, Kid
  <2> QED
    BY <1>2, <2>4 DEF Promised!Next, Promised!Docs, Promised!Dids, Docs, Dids
<1>7. CASE req[r].kind = "from"
  <2>1. [did |-> Did(r), verkey |-> Verkey(r)] \in dids
    BY <1>1, <1>7 DEF RInv, Stored, Working, From, OnItsWay
  <2>2. doc.assert \in {None, Verkey(r)}
    BY <1>3, <1>7 DEF Verkey
  <2>3. \E d \in dids : d.did = doc.did /\ doc.assert \in {None, d.verkey}
    BY <1>3, <2>1, <2>2
  <2>4. /\ ledger[n][x] # None
        /\ \/ ledger' = [ledger EXCEPT ![n][x].doc = doc]
           \/ /\ ledger[n][x].doc # None
              /\ ledger' = [ledger EXCEPT ![n][x].attrib = doc]
    <3>1. CASE call[r] = "nym"
      BY <1>7, <3>1 DEF LedgerExecutes
    <3>2. CASE call[r] = "attrib"
      <4>1. ledger[n][x].doc # None
        BY <1>1, <3>2 DEF RInv, Shown, Place
      <4> QED
        BY <1>7, <3>2, <4>1 DEF LedgerExecutes
    <3> QED
      BY <1>1, <3>1, <3>2 DEF OnItsWay
  <2>5. Promised!Show(n, doc)
    BY <1>1, <1>2, <1>3, <1>5, <1>7, <2>3, <2>4 DEF Promised!Show
  <2> QED
    BY <1>2, <2>5 DEF Promised!Next, Promised!Docs, Promised!Dids, Docs, Dids
<1> QED
  BY <1>2, <1>6, <1>7

-----------------------------------------------------------------------------
(* The refinement                                                          *)

\* Whatever requests race, fail, time out and are retried, the wallet and the
\* ledgers behave as DidRegister: key, nym and DID of a new nym, DID and document
\* of an old one, each in that order, and no DID, no verkey and no named key is
\* ever taken back (create_new_nym, from_public_nym).
THEOREM ImplementsDidRegister == Spec => RegisterSpec
<1>1. Init => PInv
  BY InitPInv
<1>2. PInv /\ [Next]_vars => PInv'
  BY NextPInv
<1>3. Init => Promised!Init
  <2> SUFFICES ASSUME Init PROVE Promised!Init
    OBVIOUS
  <2>1. NamedKids = {}
    BY DEF Init, NamedKids
  <2>2. ASSUME NEW n \in Namespaces, NEW x \in Nyms, ledger[n][x] # None
        PROVE  /\ x \in LocalNyms
               /\ ledger[n][x].doc = None /\ ledger[n][x].attrib = None
    BY <2>2, ConstantsAssumption DEF Init, ConstantsAssumption
  <2> QED
    BY <2>1, <2>2 DEF Init, Promised!Init, NamedKids
<1>4. PInv /\ [Next]_vars => [Promised!Next]_(Promised!vars)
  <2> SUFFICES ASSUME PInv, [Next]_vars PROVE [Promised!Next]_(Promised!vars)
    OBVIOUS
  <2>1. CASE UNCHANGED <<kids, dids, ledger>>
    BY <2>1 DEF Promised!vars
  <2>2. CASE \E r \in Requests :
               CreateKey(r) \/ AssignKid(r) \/ CreateAssertKey(r)
    BY <2>2, NamesAKey
  <2>3. CASE \E r \in Requests : StoreDid(r)
    BY <2>3, StoresADid
  <2>4. CASE \E r \in Requests : LedgerExecutes(r)
    BY <2>4, ShowsADocument
  <2>5. ASSUME NEW r \in Requests, Handle(r)
        PROVE  \/ CreateKey(r) \/ AssignKid(r) \/ CreateAssertKey(r) \/ StoreDid(r)
               \/ UNCHANGED <<kids, dids, ledger>>
    BY <2>5
    DEF Handle, Refuse, Receive, Fails, LookUpDid, PrepareServices, SubmitNym,
        NymAnswered, AttribAnswered
  <2>6. ASSUME Restart \/ UNCHANGED vars \/ \E r \in Requests : LedgerDrops(r)
        PROVE  UNCHANGED <<kids, dids, ledger>>
    BY <2>6 DEF Restart, vars, LedgerDrops
  <2> QED
    BY <2>1, <2>2, <2>3, <2>4, <2>5, <2>6 DEF Next
<1> QED
  BY <1>1, <1>2, <1>3, <1>4, PTL DEF Spec, RegisterSpec, Promised!Spec

=============================================================================
