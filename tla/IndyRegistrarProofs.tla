------------------------ MODULE IndyRegistrarProofs ------------------------
(* Proofs about IndyRegistrar, for any ledgers, wallet and number of        *)
(* requests.                                                                *)
EXTENDS IndyRegistrar, TLAPS

-----------------------------------------------------------------------------
(* The inductive invariant                                                 *)

\* What the arguments of r are where its handler stands, and while its
\* transaction is about.
Handler(r) ==
  /\ pc[r] = "idle" => req[r] = None /\ call[r] = "none"
  /\ (pc[r] \in Live \cup {"ok"} \/ call[r] # "none") => req[r] \in Request
  /\ pc[r] \in {"key", "kid", "taa"} => req[r].kind = "new"
  /\ (pc[r] \in {"lookup", "open", "attrib"} \/ call[r] = "attrib") =>
       req[r].kind = "from"

\* A from-nym request works on a DID of the wallet once it has looked it up.
Found(r) ==
  (req[r] # None /\ req[r].kind = "from"
     /\ (pc[r] \in (Live \ {"lookup"}) \cup {"ok"} \/ call[r] # "none")) =>
    LocalNym(r) \in LocalNyms

\* A request for a new nym that is past naming its key, and its transaction
\* even when the handler is gone, has the key under its kid.
Named(r) ==
  (req[r] # None /\ req[r].kind = "new"
     /\ (pc[r] \in {"assert", "services", "taa", "nym", "store"}
           \/ call[r] # "none")) =>
    <<VerKey(r), Kid(<<req[r].namespace, VerKey(r)>>, "verkey")>> \in kids

\* A new nym whose transaction is done is on the ledger; it is stored after.
Published(r) ==
  (req[r] # None /\ req[r].kind = "new"
     /\ (pc[r] \in {"store", "ok"} \/ call[r] = "done")) =>
    ledger[req[r].namespace][VerKey(r)] # None

\* Only the key a nym was derived from gets the kid of the nym's signer.
KidsAreNyms ==
  \A n \in Namespaces, x \in Nyms, k \in Keys :
    <<k, Kid(<<n, x>>, "verkey")>> \in kids => k = x

\* A new nym on a ledger has the verkey it was derived from, and the wallet
\* has that key under its kid.
LedgerNyms ==
  \A n \in Namespaces, r \in Requests :
    ledger[n][VerKey(r)] # None =>
      /\ ledger[n][VerKey(r)].verkey = VerKey(r)
      /\ <<VerKey(r), Kid(<<n, VerKey(r)>>, "verkey")>> \in kids

\* A stored DID is of a DID the wallet had before or of a new nym on a ledger.
StoredDids ==
  \A d \in dids : d.did[2] \notin LocalNyms =>
    \E n \in Namespaces, r \in Requests :
      /\ d.did = <<n, VerKey(r)>>
      /\ d.verkey = VerKey(r)
      /\ ledger[n][VerKey(r)] # None

Handlers == \A r \in Requests : Handler(r) /\ Found(r)
Progress == \A r \in Requests : Named(r) /\ Published(r)

IInv ==
  TypeOK /\ Handlers /\ Progress /\ KidsAreNyms /\ LedgerNyms /\ StoredDids

-----------------------------------------------------------------------------
(* Lemmas about the data                                                   *)

\* The keys and the nym of a request.
LEMMA KeyTypes ==
  ASSUME NEW r \in Requests
  PROVE  /\ VerKey(r) \in Keys /\ AssertKey(r) \in Keys
         /\ VerKey(r) \in Nyms
         /\ VerKey(r) \notin LocalNyms
BY FreshAssumption DEF FreshAssumption, Keys, Nyms

LEMMA LocalTypes ==
  ASSUME NEW l \in LocalNyms
  PROVE  l \in Nyms /\ OwnKey(l) \in Keys
BY DEF Nyms, Keys

LEMMA KidTypes ==
  ASSUME NEW d \in Dids, NEW f \in {"verkey", "assert"}
  PROVE  Kid(d, f) \in Kids /\ Kid(d, f) # None
BY FreshAssumption DEF FreshAssumption, Kids

\* Of a request that works on a known nym, what it stores and publishes.
LEMMA RequestTypes ==
  ASSUME NEW r \in Requests, req[r] \in Request,
         req[r].kind = "from" => LocalNym(r) \in LocalNyms
  PROVE  /\ req[r] # None
         /\ req[r].namespace \in Namespaces
         /\ Nym(r) \in Nyms
         /\ Did(r) \in Dids
         /\ Verkey(r) \in Keys
         /\ DocContent(r) \in Docs
         /\ Target(r) \in Namespaces
<1>1. req[r].namespace \in Namespaces /\ req[r].kind \in {"new", "from"}
      /\ req[r].ldp_vc \in BOOLEAN
  BY DEF Request
<1>2. Nym(r) \in Nyms
  BY <1>1, KeyTypes, LocalTypes DEF Nym
<1>3. Did(r) \in Dids
  BY <1>1, <1>2 DEF Did, Dids
<1>4. Verkey(r) \in Keys
  BY <1>1, KeyTypes, LocalTypes DEF Verkey, NewVerkey
<1>5. DocContent(r) \in Docs
  BY <1>3, KeyTypes DEF DocContent, Docs
<1>6. Target(r) \in Namespaces
  BY <1>1, ConstantsAssumption DEF Target, ConstantsAssumption
<1>7. req[r] # None
  BY NoneAssumption DEF NoneAssumption
<1> QED
  BY <1>1, <1>2, <1>3, <1>4, <1>5, <1>6, <1>7

-----------------------------------------------------------------------------
(* The initial state and the steps                                         *)

LEMMA InitIInv == Init => IInv
<1> SUFFICES ASSUME Init PROVE IInv
  OBVIOUS
<1>1. TypeOK
  <2>1. kids \subseteq Keys \X (Kids \cup {None})
    BY LocalTypes DEF Init
  <2>2. ledger \in [Namespaces -> [Nyms -> Entry \cup {None}]]
    <3>1. \A x \in PostedNyms :
            [verkey |-> OwnKey(x), doc |-> None, attrib |-> None] \in Entry
      BY LocalTypes, ConstantsAssumption DEF Entry, ConstantsAssumption
    <3> QED
      BY <3>1 DEF Init
  <2> QED
    BY <2>1, <2>2 DEF Init, TypeOK
<1>2. Handlers
  BY DEF Init, Handlers, Handler, Found, Live
<1>3. Progress
  BY DEF Init, Progress, Named, Published
<1>4. KidsAreNyms
  BY KidTypes DEF Init, KidsAreNyms, Dids
<1>5. LedgerNyms
  <2>1. ASSUME NEW n \in Namespaces, NEW r \in Requests
        PROVE  ledger[n][VerKey(r)] = None
    BY KeyTypes, ConstantsAssumption DEF Init, ConstantsAssumption
  <2> QED
    BY <2>1 DEF LedgerNyms
<1>6. StoredDids
  BY DEF Init, StoredDids
<1> QED
  BY <1>1, <1>2, <1>3, <1>4, <1>5, <1>6 DEF IInv

\* A step that leaves the wallet and the ledgers alone keeps what is said of
\* them.
LEMMA FactsUnchanged ==
  ASSUME IInv, UNCHANGED <<kids, dids, ledger>>
  PROVE  KidsAreNyms' /\ LedgerNyms' /\ StoredDids'
BY DEF IInv, KidsAreNyms, LedgerNyms, StoredDids

\* The steps that move one handler on and do nothing else.
LEMMA MoveStep ==
  ASSUME IInv, NEW r \in Requests,
         \/ Refuse(r)
         \/ Fails(r)
         \/ LookUpDid(r)
         \/ PrepareServices(r)
         \/ AttribAnswered(r)
  PROVE  IInv'
<1>1. UNCHANGED <<kids, dids, ledger, req, call>>
  BY DEF Refuse, Fails, LookUpDid, PrepareServices, AttribAnswered
<1>2. TypeOK'
  BY <1>1
  DEF IInv, TypeOK, Refuse, Fails, LookUpDid, PrepareServices, AttribAnswered,
      Goto, AfterKeys, Live, Finished
<1>3. Handlers'
  <2>1. \A q \in Requests : q # r => pc'[q] = pc[q]
    BY DEF IInv, TypeOK, Refuse, Fails, LookUpDid, PrepareServices,
           AttribAnswered, Goto, AfterKeys
  <2>2. Handler(r)'
    BY <1>1
    DEF IInv, TypeOK, Handlers, Handler, Refuse, Fails, LookUpDid,
        PrepareServices, AttribAnswered, Goto, AfterKeys, Live, Request
  <2>3. Found(r)'
    <3>1. CASE LookUpDid(r)
      <4>1. req[r] \in Request /\ req[r].nym \in LocalNyms \cup {None}
        BY <3>1 DEF LookUpDid, IInv, Handlers, Handler, Live, Request
      <4>2. CASE LocalNym(r) = None
        <5>1. pc'[r] = "e500" /\ LocalNym(r)' = LocalNym(r)
          BY <1>1, <3>1, <4>2 DEF IInv, TypeOK, LookUpDid, Goto, LocalNym
        <5> QED
          BY <1>1, <5>1 DEF IInv, Handlers, Found, Live
      <4>3. CASE LocalNym(r) # None
        BY <1>1, <4>1, <4>3, ConstantsAssumption
        DEF LocalNym, Found, ConstantsAssumption
      <4> QED
        BY <4>2, <4>3
    <3>2. CASE ~LookUpDid(r)
      <4>1. LocalNym(r)' = LocalNym(r)
        BY <1>1 DEF LocalNym
      <4>2. pc'[r] \in Live \cup {"ok"} => pc[r] \in Live \ {"lookup"}
        BY <3>2
        DEF IInv, TypeOK, Refuse, Fails, PrepareServices, AttribAnswered, Goto,
            Live
      <4> QED
        BY <1>1, <4>1, <4>2 DEF IInv, Handlers, Found
    <3> QED
      BY <3>1, <3>2
  <2>4. ASSUME NEW q \in Requests, q # r PROVE Handler(q)' /\ Found(q)'
    BY <1>1, <2>1, <2>4 DEF IInv, Handlers, Handler, Found, LocalNym
  <2> QED
    BY <2>2, <2>3, <2>4 DEF Handlers
<1>4. Progress'
  <2>1. \A q \in Requests : q # r => pc'[q] = pc[q]
    BY DEF IInv, TypeOK, Refuse, Fails, LookUpDid, PrepareServices,
           AttribAnswered, Goto, AfterKeys
  <2>2. Named(r)'
    BY <1>1
    DEF IInv, TypeOK, Handlers, Handler, Progress, Named, Refuse, Fails,
        LookUpDid, PrepareServices, AttribAnswered, Goto, AfterKeys, Live
  <2>3. Published(r)'
    BY <1>1
    DEF IInv, TypeOK, Handlers, Handler, Progress, Published, Refuse, Fails,
        LookUpDid, PrepareServices, AttribAnswered, Goto, AfterKeys, Live
  <2>4. ASSUME NEW q \in Requests, q # r PROVE Named(q)' /\ Published(q)'
    BY <1>1, <2>1, <2>4 DEF IInv, Progress, Named, Published
  <2> QED
    BY <2>2, <2>3, <2>4 DEF Progress
<1> QED
  BY <1>1, <1>2, <1>3, <1>4, FactsUnchanged DEF IInv

LEMMA ReceiveStep ==
  ASSUME IInv, NEW r \in Requests, Receive(r)
  PROVE  IInv'
<1>1. PICK a \in Request :
        /\ req' = [req EXCEPT ![r] = a]
        /\ Goto(r, IF a.kind = "new" THEN "key" ELSE "lookup")
  BY DEF Receive
<1>2. /\ pc[r] = "idle" /\ call[r] = "none"
      /\ UNCHANGED <<kids, dids, ledger, call>>
  BY DEF Receive, IInv, Handlers, Handler
<1>3. TypeOK'
  BY <1>1, <1>2 DEF IInv, TypeOK, Goto, Live
<1>4. /\ \A q \in Requests : q # r => pc'[q] = pc[q] /\ req'[q] = req[q]
      /\ req'[r] = a /\ a.kind \in {"new", "from"}
      /\ pc'[r] = IF a.kind = "new" THEN "key" ELSE "lookup"
  BY <1>1 DEF IInv, TypeOK, Goto, Request
<1>5. Handlers'
  <2>1. Handler(r)' /\ Found(r)'
    BY <1>2, <1>4 DEF Handler, Found, Live
  <2>2. ASSUME NEW q \in Requests, q # r PROVE Handler(q)' /\ Found(q)'
    BY <1>2, <1>4, <2>2 DEF IInv, Handlers, Handler, Found, LocalNym
  <2> QED
    BY <2>1, <2>2 DEF Handlers
<1>6. Progress'
  <2>1. Named(r)' /\ Published(r)'
    BY <1>2, <1>4 DEF Named, Published
  <2>2. ASSUME NEW q \in Requests, q # r PROVE Named(q)' /\ Published(q)'
    BY <1>2, <1>4, <2>2 DEF IInv, Progress, Named, Published
  <2> QED
    BY <2>1, <2>2 DEF Progress
<1> QED
  BY <1>2, <1>3, <1>5, <1>6, FactsUnchanged DEF IInv

\* Keys are added under kids of their own, and no pair with a kid goes:
\* what is known of the kids of new nyms stays.
LEMMA KidsKept ==
  ASSUME IInv, UNCHANGED <<dids, ledger>>,
         \A k, d : <<k, Kid(d, "verkey")>> \in kids
                     => <<k, Kid(d, "verkey")>> \in kids'
  PROVE  LedgerNyms' /\ StoredDids'
BY DEF IInv, LedgerNyms, StoredDids

LEMMA CreateKeyStep ==
  ASSUME IInv, NEW r \in Requests, CreateKey(r)
  PROVE  IInv'
<1>1. /\ pc[r] = "key" /\ req[r].kind = "new"
      /\ kids' = kids \cup {<<VerKey(r), None>>}
      /\ pc' = [pc EXCEPT ![r] = "kid"]
      /\ UNCHANGED <<dids, ledger, req, call>>
  BY DEF CreateKey, Goto, IInv, Handlers, Handler
<1>2. TypeOK'
  BY <1>1, KeyTypes DEF IInv, TypeOK, Live
<1>3. Handlers'
  <2>1. ASSUME NEW q \in Requests PROVE Handler(q)'
    BY <1>1 DEF IInv, TypeOK, Handlers, Handler, Live
  <2>2. ASSUME NEW q \in Requests PROVE Found(q)'
    <3>1. LocalNym(q)' = LocalNym(q)
      BY <1>1 DEF LocalNym
    <3> QED
      BY <1>1, <3>1 DEF IInv, TypeOK, Handlers, Found, Live
  <2> QED
    BY <2>1, <2>2 DEF Handlers
<1>4. Progress'
  BY <1>1 DEF IInv, TypeOK, Progress, Named, Published
<1>5. KidsAreNyms'
  <2>1. \A n \in Namespaces, x \in Nyms : Kid(<<n, x>>, "verkey") # None
    BY KidTypes DEF Dids
  <2> QED
    BY <1>1, <2>1 DEF IInv, KidsAreNyms
<1>6. LedgerNyms' /\ StoredDids'
  BY <1>1, KidsKept
<1> QED
  BY <1>2, <1>3, <1>4, <1>5, <1>6 DEF IInv

LEMMA AssignKidStep ==
  ASSUME IInv, NEW r \in Requests, AssignKid(r)
  PROVE  IInv'
<1> DEFINE kid == Kid(<<req[r].namespace, VerKey(r)>>, "verkey")
<1>1. /\ pc[r] = "kid" /\ req[r].kind = "new" /\ req[r] \in Request
      /\ req[r].namespace \in Namespaces
      /\ UNCHANGED <<dids, ledger, req, call>>
  BY DEF AssignKid, IInv, Handlers, Handler, Live, Request
<1>2. kids' = (kids \ {<<VerKey(r), None>>}) \cup {<<VerKey(r), kid>>}
  BY <1>1 DEF AssignKid, Did, Nym
<1>3. \E label \in {"assert", "services"} : pc' = [pc EXCEPT ![r] = label]
  BY DEF AssignKid, AfterKeys, Goto
<1>4. /\ <<req[r].namespace, VerKey(r)>> \in Dids
      /\ kid \in Kids /\ VerKey(r) \in Keys
  BY <1>1, KeyTypes, KidTypes DEF Dids
<1>5. TypeOK'
  BY <1>1, <1>2, <1>3, <1>4 DEF IInv, TypeOK, Live
<1>6. Handlers'
  <2>1. ASSUME NEW q \in Requests PROVE Handler(q)'
    BY <1>1, <1>3 DEF IInv, TypeOK, Handlers, Handler, Live
  <2>2. ASSUME NEW q \in Requests PROVE Found(q)'
    <3>1. LocalNym(q)' = LocalNym(q)
      BY <1>1 DEF LocalNym
    <3> QED
      BY <1>1, <1>3, <3>1 DEF IInv, TypeOK, Handlers, Found, Live
  <2> QED
    BY <2>1, <2>2 DEF Handlers
<1>7. \A n \in Namespaces, x \in Nyms : \A k :
        <<k, Kid(<<n, x>>, "verkey")>> \in kids
          => <<k, Kid(<<n, x>>, "verkey")>> \in kids'
  BY <1>2, KidTypes DEF Dids
<1>8. Progress'
  <2>1. Named(r)'
    BY <1>1, <1>2 DEF Named
  <2>2. Published(r)'
    BY <1>1, <1>3 DEF IInv, TypeOK, Progress, Published
  <2>3. ASSUME NEW q \in Requests, q # r PROVE Named(q)' /\ Published(q)'
    <3>1. pc'[q] = pc[q] /\ req'[q] = req[q] /\ call'[q] = call[q]
      BY <1>1, <1>3, <2>3 DEF IInv, TypeOK
    <3>2. req[q] # None => req[q].namespace \in Namespaces
      BY DEF IInv, TypeOK, Request
    <3>3. Named(q)'
      BY <1>7, <3>1, <3>2, KeyTypes DEF IInv, Progress, Named
    <3>4. Published(q)'
      BY <1>1, <3>1 DEF IInv, Progress, Published
    <3> QED
      BY <3>3, <3>4
  <2> QED
    BY <2>1, <2>2, <2>3 DEF Progress
<1>9. KidsAreNyms'
  BY <1>2 DEF IInv, KidsAreNyms, Kid
<1>10. LedgerNyms' /\ StoredDids'
  BY <1>1, <1>7, KeyTypes DEF IInv, LedgerNyms, StoredDids
<1> QED
  BY <1>5, <1>6, <1>8, <1>9, <1>10 DEF IInv

LEMMA CreateAssertKeyStep ==
  ASSUME IInv, NEW r \in Requests, CreateAssertKey(r)
  PROVE  IInv'
<1>1. /\ pc[r] = "assert" /\ req[r] \in Request
      /\ req[r].kind = "from" => LocalNym(r) \in LocalNyms
      /\ kids' = kids \cup {<<AssertKey(r), Kid(Did(r), "assert")>>}
      /\ pc' = [pc EXCEPT ![r] = "services"]
      /\ UNCHANGED <<dids, ledger, req, call>>
  BY NoneAssumption
  DEF CreateAssertKey, Goto, IInv, Handlers, Handler, Found, Live,
      NoneAssumption
<1>2. TypeOK'
  <2>1. <<AssertKey(r), Kid(Did(r), "assert")>> \in Keys \X (Kids \cup {None})
    BY <1>1, RequestTypes, KeyTypes, KidTypes
  <2> QED
    BY <1>1, <2>1 DEF IInv, TypeOK, Live
<1>3. Handlers'
  <2>1. ASSUME NEW q \in Requests PROVE Handler(q)'
    BY <1>1 DEF IInv, TypeOK, Handlers, Handler, Live
  <2>2. ASSUME NEW q \in Requests PROVE Found(q)'
    <3>1. LocalNym(q)' = LocalNym(q)
      BY <1>1 DEF LocalNym
    <3> QED
      BY <1>1, <3>1 DEF IInv, TypeOK, Handlers, Found, Live
  <2> QED
    BY <2>1, <2>2 DEF Handlers
<1>4. Progress'
  BY <1>1 DEF IInv, TypeOK, Progress, Named, Published
<1>5. KidsAreNyms'
  BY <1>1 DEF IInv, KidsAreNyms, Kid
<1>6. LedgerNyms' /\ StoredDids'
  BY <1>1, KidsKept
<1> QED
  BY <1>2, <1>3, <1>4, <1>5, <1>6 DEF IInv

LEMMA StoreDidStep ==
  ASSUME IInv, NEW r \in Requests, StoreDid(r)
  PROVE  IInv'
<1>1. /\ pc[r] = "store" /\ req[r] \in Request /\ req[r] # None
      /\ req[r].kind \in {"new", "from"} /\ req[r].namespace \in Namespaces
      /\ req[r].kind = "from" => LocalNym(r) \in LocalNyms
      /\ UNCHANGED <<kids, ledger, req, call>>
  BY NoneAssumption
  DEF StoreDid, IInv, Handlers, Handler, Found, Live, NoneAssumption, Request
<1>2. \E label \in {"ok", "open", "e500"} :
        /\ pc' = [pc EXCEPT ![r] = label]
        /\ label = "open" => req[r].kind = "from"
  BY <1>1 DEF StoreDid, Goto
<1>3. dids' = dids \/ dids' = dids \cup {[did |-> Did(r), verkey |-> Verkey(r)]}
  BY DEF StoreDid
<1>4. TypeOK'
  <2>1. Did(r) \in Dids /\ Verkey(r) \in Keys
    BY <1>1, RequestTypes
  <2> QED
    BY <1>1, <1>2, <1>3, <2>1 DEF IInv, TypeOK, Live, Finished
<1>5. Handlers'
  <2>1. ASSUME NEW q \in Requests PROVE Handler(q)'
    BY <1>1, <1>2 DEF IInv, TypeOK, Handlers, Handler, Live
  <2>2. ASSUME NEW q \in Requests PROVE Found(q)'
    <3>1. LocalNym(q)' = LocalNym(q)
      BY <1>1 DEF LocalNym
    <3> QED
      BY <1>1, <1>2, <3>1 DEF IInv, TypeOK, Handlers, Found, Live
  <2> QED
    BY <2>1, <2>2 DEF Handlers
<1>6. Progress'
  BY <1>1, <1>2 DEF IInv, TypeOK, Progress, Named, Published
<1>7. KidsAreNyms' /\ LedgerNyms'
  BY <1>1 DEF IInv, KidsAreNyms, LedgerNyms
<1>8. StoredDids'
  <2>1. ASSUME NEW d \in dids', d.did[2] \notin LocalNyms
        PROVE  \E n \in Namespaces, q \in Requests :
                 /\ d.did = <<n, VerKey(q)>>
                 /\ d.verkey = VerKey(q)
                 /\ ledger[n][VerKey(q)] # None
    <3>1. CASE d \in dids
      BY <2>1, <3>1 DEF IInv, StoredDids
    <3>2. CASE d = [did |-> Did(r), verkey |-> Verkey(r)]
      <4>1. req[r].kind = "new"
        BY <1>1, <2>1, <3>2 DEF Did, Nym
      <4>2. d.did = <<req[r].namespace, VerKey(r)>> /\ d.verkey = VerKey(r)
        BY <3>2, <4>1 DEF Did, Nym, Verkey, NewVerkey
      <4>3. ledger[req[r].namespace][VerKey(r)] # None
        BY <1>1, <4>1 DEF IInv, Progress, Published
      <4> QED
        BY <1>1, <4>2, <4>3
    <3> QED
      BY <1>3, <2>1, <3>1, <3>2
  <2> QED
    BY <1>1, <2>1 DEF StoredDids
<1> QED
  BY <1>4, <1>5, <1>6, <1>7, <1>8 DEF IInv

\* The steps that send or lose a transaction and leave the rest alone.
LEMMA SendStep ==
  ASSUME IInv, NEW r \in Requests,
         SubmitNym(r) \/ NymAnswered(r) \/ LedgerDrops(r)
  PROVE  IInv'
<1>1. /\ UNCHANGED <<kids, dids, ledger, req>>
      /\ \A q \in Requests : q # r => pc'[q] = pc[q] /\ call'[q] = call[q]
  BY DEF SubmitNym, NymAnswered, LedgerDrops, Goto, Sends, IInv, TypeOK
<1>2. TypeOK'
  BY <1>1
  DEF SubmitNym, NymAnswered, LedgerDrops, Goto, Sends, IInv, TypeOK, Live
<1>3. req[r] \in Request /\ req[r] # None /\ req[r].kind \in {"new", "from"}
  BY NoneAssumption
  DEF SubmitNym, NymAnswered, LedgerDrops, IInv, Handlers, Handler, Live,
      OnItsWay, NoneAssumption, Request
<1>4. \/ /\ SubmitNym(r) /\ pc'[r] = "nym" /\ call'[r] = "nym"
      \/ /\ NymAnswered(r) /\ req[r].kind = "new"
         /\ pc'[r] = "store" /\ call'[r] = call[r] /\ call[r] = "done"
      \/ /\ NymAnswered(r) /\ req[r].kind = "from"
         /\ pc'[r] = "attrib" /\ call'[r] = "attrib"
      \/ /\ LedgerDrops(r) /\ call[r] \in OnItsWay
         /\ pc'[r] = pc[r] /\ call'[r] = "dropped"
  BY <1>3
  DEF SubmitNym, NymAnswered, LedgerDrops, Goto, Sends, IInv, TypeOK
<1>5. Handlers'
  <2>1. Handler(r)'
    BY <1>1, <1>3, <1>4
    DEF IInv, Handlers, Handler, NymAnswered, LedgerDrops, OnItsWay
  <2>2. Found(r)'
    <3>1. LocalNym(r)' = LocalNym(r)
      BY <1>1 DEF LocalNym
    <3>2. pc[r] \in (Live \ {"lookup"}) \cup {"ok"} \/ call[r] # "none"
      BY <1>4 DEF SubmitNym, NymAnswered, Live, OnItsWay
    <3> QED
      BY <1>1, <3>1, <3>2 DEF IInv, Handlers, Found
  <2>3. ASSUME NEW q \in Requests, q # r PROVE Handler(q)' /\ Found(q)'
    BY <1>1, <2>3 DEF IInv, Handlers, Handler, Found, LocalNym
  <2> QED
    BY <2>1, <2>2, <2>3 DEF Handlers
<1>6. Progress'
  <2>1. Named(r)'
    <3>1. req[r].kind = "new" =>
            \/ pc[r] \in {"assert", "services", "taa", "nym", "store"}
            \/ call[r] # "none"
      BY <1>4 DEF SubmitNym, NymAnswered, OnItsWay, IInv, Handlers, Handler
    <3> QED
      BY <1>1, <3>1 DEF IInv, Progress, Named
  <2>2. Published(r)'
    BY <1>1, <1>4 DEF IInv, Progress, Published
  <2>3. ASSUME NEW q \in Requests, q # r PROVE Named(q)' /\ Published(q)'
    BY <1>1, <2>3 DEF IInv, Progress, Named, Published
  <2> QED
    BY <2>1, <2>2, <2>3 DEF Progress
<1> QED
  BY <1>1, <1>2, <1>5, <1>6, FactsUnchanged DEF IInv

LEMMA LedgerExecutesStep ==
  ASSUME IInv, NEW r \in Requests, LedgerExecutes(r)
  PROVE  IInv'
<1> DEFINE n == Target(r)
           x == Nym(r)
<1>1. /\ call[r] \in OnItsWay
      /\ call' = [call EXCEPT ![r] = "done"]
      /\ UNCHANGED <<kids, dids, pc, req>>
  BY DEF LedgerExecutes, Sends
<1>2. /\ req[r] \in Request /\ req[r] # None
      /\ req[r].kind \in {"new", "from"}
      /\ req[r].kind = "from" => LocalNym(r) \in LocalNyms
      /\ n \in Namespaces /\ x \in Nyms
      /\ Verkey(r) \in Keys /\ DocContent(r) \in Docs
  <2>1. req[r] \in Request /\ req[r] # None
    BY <1>1, NoneAssumption
    DEF IInv, Handlers, Handler, OnItsWay, NoneAssumption
  <2>2. req[r].kind = "from" => LocalNym(r) \in LocalNyms
    BY <1>1, <2>1 DEF IInv, Handlers, Found, OnItsWay
  <2> QED
    BY <2>1, <2>2, RequestTypes DEF Request
\* The entry the transaction makes or changes.
<1>3. PICK e \in Entry :
        /\ ledger' = [ledger EXCEPT ![n][x] = e]
        /\ \/ req[r].kind = "new" /\ e.verkey = Verkey(r)
           \/ req[r].kind = "from"
  <2>1. CASE call[r] = "nym" /\ req[r].kind = "new"
    <3>1. [verkey |-> Verkey(r), doc |-> DocContent(r), attrib |-> None] \in Entry
      BY <1>2 DEF Entry
    <3> QED
      BY <2>1, <3>1 DEF LedgerExecutes
  <2>2. CASE req[r].kind = "from"
    <3>1. ledger[n][x] \in Entry \cup {None}
      BY <1>2 DEF IInv, TypeOK
    <3>2. ledger[n][x] # None =>
            /\ [ledger[n][x] EXCEPT !.doc = DocContent(r)] \in Entry
            /\ [ledger[n][x] EXCEPT !.attrib = DocContent(r)] \in Entry
      BY <1>2, <3>1 DEF Entry
    <3> QED
      BY <2>2, <3>2 DEF LedgerExecutes
  <2>3. call[r] = "nym" \/ req[r].kind = "from"
    BY <1>1, <1>2 DEF IInv, Handlers, Handler, OnItsWay
  <2> QED
    BY <1>2, <2>1, <2>2, <2>3
<1>4. /\ ledger'[n][x] = e /\ e # None
      /\ \A m \in Namespaces, y \in Nyms :
           ~(m = n /\ y = x) => ledger'[m][y] = ledger[m][y]
  BY <1>2, <1>3, NoneAssumption DEF IInv, TypeOK, NoneAssumption
<1>5. TypeOK'
  BY <1>1, <1>2, <1>3 DEF IInv, TypeOK
<1>6. Handlers'
  <2>1. ASSUME NEW q \in Requests PROVE Handler(q)'
    BY <1>1 DEF IInv, TypeOK, Handlers, Handler, OnItsWay
  <2>2. ASSUME NEW q \in Requests PROVE Found(q)'
    <3>1. LocalNym(q)' = LocalNym(q)
      BY <1>1 DEF LocalNym
    <3> QED
      BY <1>1, <3>1 DEF IInv, TypeOK, Handlers, Found, OnItsWay
  <2> QED
    BY <2>1, <2>2 DEF Handlers
\* No entry goes.
<1>7. \A m \in Namespaces, q \in Requests :
        ledger[m][VerKey(q)] # None => ledger'[m][VerKey(q)] # None
  BY <1>4, KeyTypes
<1>8. Progress'
  <2>1. ASSUME NEW q \in Requests PROVE Named(q)'
    BY <1>1 DEF IInv, TypeOK, Progress, Named, OnItsWay
  <2>2. ASSUME NEW q \in Requests, q # r PROVE Published(q)'
    <3>1. call'[q] = call[q] /\ req'[q] = req[q] /\ pc'[q] = pc[q]
      BY <1>1, <2>2 DEF IInv, TypeOK
    <3>2. req[q] # None => req[q].namespace \in Namespaces
      BY DEF IInv, TypeOK, Request
    <3> QED
      BY <1>7, <3>1, <3>2 DEF IInv, Progress, Published
  <2>3. Published(r)'
    <3>1. req[r].kind = "new" => n = req[r].namespace /\ x = VerKey(r)
      BY DEF Target, Nym
    <3> QED
      BY <1>1, <1>4, <3>1 DEF Published
  <2> QED
    BY <2>1, <2>2, <2>3 DEF Progress
<1>9. KidsAreNyms'
  BY <1>1 DEF IInv, KidsAreNyms
<1>10. LedgerNyms'
  <2>1. ASSUME NEW m \in Namespaces, NEW q \in Requests,
               ledger'[m][VerKey(q)] # None
        PROVE  /\ ledger'[m][VerKey(q)].verkey = VerKey(q)
               /\ <<VerKey(q), Kid(<<m, VerKey(q)>>, "verkey")>> \in kids'
    <3>1. CASE m = n /\ VerKey(q) = x
      <4>1. req[r].kind = "new"
        BY <1>2, <3>1, KeyTypes DEF Nym
      <4>2. m = req[r].namespace /\ VerKey(q) = VerKey(r) /\ e.verkey = VerKey(r)
        BY <1>3, <3>1, <4>1 DEF Target, Nym, Verkey, NewVerkey
      <4>3. <<VerKey(r), Kid(<<req[r].namespace, VerKey(r)>>, "verkey")>> \in kids
        BY <1>1, <1>2, <4>1 DEF IInv, Progress, Named, OnItsWay
      <4>4. ledger'[m][VerKey(q)] = e
        BY <1>4, <3>1
      <4>5. <<VerKey(q), Kid(<<m, VerKey(q)>>, "verkey")>> \in kids
        BY <4>2, <4>3 DEF Kid
      <4> QED
        BY <1>1, <4>2, <4>4, <4>5
    <3>2. CASE ~(m = n /\ VerKey(q) = x)
      BY <1>1, <1>4, <2>1, <3>2, KeyTypes DEF IInv, LedgerNyms
    <3> QED
      BY <3>1, <3>2
  <2> QED
    BY <2>1 DEF LedgerNyms
<1>11. StoredDids'
  BY <1>1, <1>7 DEF IInv, StoredDids
<1> QED
  BY <1>5, <1>6, <1>8, <1>9, <1>10, <1>11 DEF IInv

LEMMA RestartStep ==
  ASSUME IInv, Restart
  PROVE  IInv'
<1>1. /\ UNCHANGED <<kids, dids, ledger, req, call>>
      /\ \A q \in Requests :
           pc'[q] = IF pc[q] \in Live THEN "lost" ELSE pc[q]
  BY DEF Restart, IInv, TypeOK
<1>2. TypeOK'
  BY DEF Restart, IInv, TypeOK, Live, Finished
<1>3. Handlers'
  <2>1. ASSUME NEW q \in Requests PROVE Handler(q)'
    BY <1>1 DEF IInv, Handlers, Handler, Live
  <2>2. ASSUME NEW q \in Requests PROVE Found(q)'
    <3>1. LocalNym(q)' = LocalNym(q)
      BY <1>1 DEF LocalNym
    <3> QED
      BY <1>1, <3>1 DEF IInv, Handlers, Found, Live
  <2> QED
    BY <2>1, <2>2 DEF Handlers
<1>4. Progress'
  BY <1>1 DEF IInv, Progress, Named, Published, Live
<1> QED
  BY <1>1, <1>2, <1>3, <1>4, FactsUnchanged DEF IInv

LEMMA NextIInv == IInv /\ [Next]_vars => IInv'
<1> SUFFICES ASSUME IInv, [Next]_vars PROVE IInv'
  OBVIOUS
<1>1. ASSUME NEW r \in Requests, Handle(r) PROVE IInv'
  BY <1>1, MoveStep, ReceiveStep, CreateKeyStep, AssignKidStep,
     CreateAssertKeyStep, StoreDidStep, SendStep DEF Handle
<1>2. ASSUME NEW r \in Requests, LedgerExecutes(r) PROVE IInv'
  BY <1>2, LedgerExecutesStep
<1>3. ASSUME NEW r \in Requests, LedgerDrops(r) PROVE IInv'
  BY <1>3, SendStep
<1>4. CASE Restart
  BY <1>4, RestartStep
<1>5. CASE UNCHANGED vars
  <2>1. UNCHANGED <<kids, dids, ledger, pc, req, call>>
    BY <1>5 DEF vars
  <2>2. TypeOK' /\ Handlers'
    BY <2>1 DEF IInv, TypeOK, Handlers, Handler, Found, LocalNym
  <2>3. Progress'
    BY <2>1 DEF IInv, Progress, Named, Published
  <2> QED
    BY <2>1, <2>2, <2>3, FactsUnchanged DEF IInv
<1> QED
  BY <1>1, <1>2, <1>3, <1>4, <1>5 DEF Next

-----------------------------------------------------------------------------
(* Results                                                                 *)

\* The wallet, the ledgers and the handlers always have their types.
THEOREM RegistrarTypeCorrect == Spec => []TypeOK
<1>1. Init => IInv
  BY InitIInv
<1>2. IInv /\ [Next]_vars => IInv'
  BY NextIInv
<1>3. IInv => TypeOK
  BY DEF IInv
<1> QED
  BY <1>1, <1>2, <1>3, PTL DEF Spec

\* The signer of a new nym that is on a ledger is the key it was derived from.
LEMMA SignerOfNym ==
  ASSUME IInv, NEW n \in Namespaces, NEW r \in Requests,
         ledger[n][VerKey(r)] # None
  PROVE  Signers(<<n, VerKey(r)>>) = {VerKey(r)}
<1>1. VerKey(r) \in Signers(<<n, VerKey(r)>>)
  BY KeyTypes DEF IInv, LedgerNyms, Signers
<1>2. ASSUME NEW k \in Signers(<<n, VerKey(r)>>) PROVE k = VerKey(r)
  BY KeyTypes DEF IInv, KidsAreNyms, Signers
<1> QED
  BY <1>1, <1>2

\* Whenever a new nym is on a ledger, the wallet has its key, and get_signer
\* finds that key and no other.
THEOREM NymHasKey == Spec => []PublishedNymHasKey
<1>1. Init => IInv
  BY InitIInv
<1>2. IInv /\ [Next]_vars => IInv'
  BY NextIInv
<1>3. IInv => PublishedNymHasKey
  BY SignerOfNym DEF IInv, LedgerNyms, PublishedNymHasKey
<1> QED
  BY <1>1, <1>2, <1>3, PTL DEF Spec

\* A stored new DID has the verkey of its ledger entry, and signs with it.
THEOREM StoredDidSigns == Spec => []NewDidSigns
<1>1. Init => IInv
  BY InitIInv
<1>2. IInv /\ [Next]_vars => IInv'
  BY NextIInv
<1>3. IInv => NewDidSigns
  <2> SUFFICES ASSUME IInv, NEW d \in dids, d.did[2] \notin LocalNyms
               PROVE  /\ ledger[d.did[1]][d.did[2]] # None
                      /\ ledger[d.did[1]][d.did[2]].verkey = d.verkey
                      /\ Signers(d.did) = {d.verkey}
    BY DEF NewDidSigns
  <2>1. PICK n \in Namespaces, r \in Requests :
          /\ d.did = <<n, VerKey(r)>>
          /\ d.verkey = VerKey(r)
          /\ ledger[n][VerKey(r)] # None
    BY DEF IInv, StoredDids
  <2>2. d.did[1] = n /\ d.did[2] = VerKey(r)
    BY <2>1
  <2>3. Signers(d.did) = {d.verkey}
    BY <2>1, SignerOfNym
  <2> QED
    BY <2>1, <2>2, <2>3 DEF IInv, LedgerNyms
<1> QED
  BY <1>1, <1>2, <1>3, PTL DEF Spec

=============================================================================
