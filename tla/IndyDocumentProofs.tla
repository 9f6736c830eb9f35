------------------------- MODULE IndyDocumentProofs -------------------------
(* Proofs about what IndyRegistrar publishes, for any ledgers, wallet and   *)
(* number of requests: a second invariant on top of the one of              *)
(* IndyRegistrarProofs.                                                     *)
EXTENDS IndyRegistrarProofs

-----------------------------------------------------------------------------
(* The inductive invariant                                                 *)

From(r) == req[r] # None /\ req[r].kind = "from"

\* A from-nym request that has stored its DID, and still works for it or has sent
\* something.
Working(r) ==
  From(r) /\ (pc[r] \in {"open", "nym", "attrib", "ok"} \/ call[r] # "none")

\* Where a handler stands and how far its transactions are.
Steps(r) ==
  /\ pc[r] \in {"key", "kid", "lookup", "assert", "services", "taa", "open"} =>
       call[r] = "none"
  /\ pc[r] = "store" => call[r] = IF req[r].kind = "new" THEN "done" ELSE "none"
  /\ pc[r] = "nym" => call[r] \in {"nym", "done", "dropped"}
  /\ pc[r] = "attrib" => call[r] \in {"attrib", "done", "dropped"}
  /\ pc[r] = "ok" => call[r] = "done"

\* Who works for a DID, or has answered 200, has stored it.
Stored(r) ==
  Working(r) \/ pc[r] = "ok" => [did |-> Did(r), verkey |-> Verkey(r)] \in dids

\* Who is past making an assertion key has it under its kid.
Keyed(r) ==
  From(r) /\ req[r].ldp_vc /\ (pc[r] \in {"services", "store"} \/ Working(r)) =>
    <<AssertKey(r), Kid(Did(r), "assert")>> \in kids

Place(r) == ledger[Target(r)][Nym(r)]

\* A transaction that is done, or was before an ATTRIB left, shows on the ledger.
Shown(r) ==
  /\ req[r] # None /\ (pc[r] = "attrib" \/ call[r] \in {"attrib", "done"}) =>
       Place(r) # None /\ Place(r).doc # None
  /\ From(r) /\ (pc[r] = "ok" \/ (pc[r] = "attrib" /\ call[r] = "done")) =>
       Place(r).attrib # None

RInv(r) == Steps(r) /\ Stored(r) /\ Keyed(r) /\ Shown(r)

\* store_did lets one request per DID through.
OneWorker ==
  \A q, r \in Requests : Working(q) /\ Working(r) /\ Did(q) = Did(r) => q = r

\* doc is what r has sent for nym l.
Sender(r, l, doc) ==
  From(r) /\ call[r] # "none" /\ Nym(r) = l /\ doc = DocContent(r)

\* What is published for a DID the wallet had was sent by a from-nym request,
\* the document before the attribute.
Origin(l) ==
  LET entry == ledger[HomeLedger][l]
  IN  entry # None =>
        /\ \A doc \in {entry.doc, entry.attrib} \ {None} :
             \E r \in Requests : Sender(r, l, doc)
        /\ entry.attrib # None => entry.doc # None

DInv ==
  /\ IInv
  /\ \A r \in Requests : RInv(r)
  /\ OneWorker
  /\ \A l \in LocalNyms : Origin(l)

-----------------------------------------------------------------------------
(* Lemmas                                                                  *)

\* What is derived from a request's arguments stays as they do.
LEMMA SameRequest ==
  ASSUME NEW r \in Requests, req'[r] = req[r]
  PROVE  /\ LocalNym(r)' = LocalNym(r) /\ Nym(r)' = Nym(r) /\ Did(r)' = Did(r)
         /\ Verkey(r)' = Verkey(r) /\ DocContent(r)' = DocContent(r)
         /\ Target(r)' = Target(r) /\ From(r)' = From(r)
BY DEF LocalNym, Nym, Did, Verkey, NewVerkey, DocContent, Target, From

\* A request that has got so far is one the route let through.
LEMMA Arguments ==
  ASSUME IInv, NEW r \in Requests, req[r] # None,
         req[r].kind = "from" =>
           pc[r] \in (Live \ {"lookup"}) \cup {"ok"} \/ call[r] # "none"
  PROVE  /\ req[r] \in Request /\ req[r].kind \in {"new", "from"}
         /\ Nym(r) \in Nyms /\ Did(r) \in Dids /\ Target(r) \in Namespaces
         /\ Verkey(r) \in Keys /\ DocContent(r) \in Docs
         /\ req[r].kind = "from" => Nym(r) \in LocalNyms /\ Did(r)[2] = Nym(r)
         /\ req[r].kind = "new" => Nym(r) = VerKey(r) /\ Did(r)[2] = Nym(r)
<1>1. req[r] \in Request
  BY DEF IInv, TypeOK
<1>2. req[r].kind \in {"new", "from"}
  BY <1>1 DEF Request
<1>3. req[r].kind = "from" => LocalNym(r) \in LocalNyms
  BY DEF IInv, Handlers, Found
<1> QED
  BY <1>1, <1>2, <1>3, RequestTypes DEF Nym, Did

\* Nothing is taken back: stored DIDs, kids of assertion keys, and what shows on
\* a ledger.
Kept ==
  /\ dids \subseteq dids'
  /\ \A k \in Keys, d \in Dids :
       <<k, Kid(d, "assert")>> \in kids => <<k, Kid(d, "assert")>> \in kids'
  /\ \A n \in Namespaces, x \in Nyms : ledger[n][x] # None =>
       /\ ledger'[n][x] # None
       /\ ledger[n][x].doc # None => ledger'[n][x].doc # None
       /\ ledger[n][x].attrib # None => ledger'[n][x].attrib # None

\* The entry that a transaction makes or changes.
LEMMA Executed ==
  ASSUME IInv, NEW r \in Requests, LedgerExecutes(r)
  PROVE  /\ call[r] \in OnItsWay /\ req[r] # None
         /\ Target(r) \in Namespaces /\ Nym(r) \in Nyms
         /\ \E e \in Entry :
              /\ ledger' = [ledger EXCEPT ![Target(r)][Nym(r)] = e]
              /\ \/ /\ call[r] = "nym" /\ req[r].kind = "new"
                    /\ e.doc = DocContent(r) /\ Place(r) = None
                 \/ /\ call[r] = "nym" /\ req[r].kind = "from"
                    /\ Place(r) # None
                    /\ e.doc = DocContent(r) /\ e.attrib = Place(r).attrib
                 \/ /\ call[r] = "attrib" /\ req[r].kind = "from"
                    /\ Place(r) # None
                    /\ e.doc = Place(r).doc /\ e.attrib = DocContent(r)
<1>1. call[r] \in OnItsWay
  BY DEF LedgerExecutes
<1>2. req[r] # None
  BY <1>1, NoneAssumption DEF IInv, Handlers, Handler, OnItsWay, NoneAssumption
<1>3. /\ Nym(r) \in Nyms /\ Target(r) \in Namespaces
      /\ Verkey(r) \in Keys /\ DocContent(r) \in Docs
      /\ req[r].kind \in {"new", "from"}
  BY <1>1, <1>2, Arguments DEF OnItsWay
<1>4. Place(r) \in Entry \cup {None}
  BY <1>3 DEF IInv, TypeOK, Place
<1>5. CASE call[r] = "nym" /\ req[r].kind = "new"
  <2> DEFINE e == [verkey |-> Verkey(r), doc |-> DocContent(r), attrib |-> None]
  <2>1. e \in Entry
    BY <1>3 DEF Entry
  <2>2. ledger' = [ledger EXCEPT ![Target(r)][Nym(r)] = e] /\ Place(r) = None
    BY <1>5 DEF LedgerExecutes, Place
  <2> QED
    BY <1>1, <1>2, <1>3, <1>5, <2>1, <2>2
<1>6. CASE call[r] = "nym" /\ req[r].kind = "from"
  <2> DEFINE e == [Place(r) EXCEPT !.doc = DocContent(r)]
  <2>1. ledger' = [ledger EXCEPT ![Target(r)][Nym(r)] = e] /\ Place(r) # None
    BY <1>6 DEF LedgerExecutes, Place
  <2>2. e \in Entry /\ e.doc = DocContent(r) /\ e.attrib = Place(r).attrib
    BY <1>3, <1>4, <2>1 DEF Entry
  <2> QED
    BY <1>1, <1>2, <1>3, <1>6, <2>1, <2>2
<1>7. CASE call[r] = "attrib"
  <2> DEFINE e == [Place(r) EXCEPT !.attrib = DocContent(r)]
  <2>1. ledger' = [ledger EXCEPT ![Target(r)][Nym(r)] = e] /\ Place(r) # None
    BY <1>7 DEF LedgerExecutes, Place
  <2>2. e \in Entry /\ e.attrib = DocContent(r) /\ e.doc = Place(r).doc
    BY <1>3, <1>4, <2>1 DEF Entry
  <2>3. req[r].kind = "from"
    BY <1>7 DEF IInv, Handlers, Handler
  <2> QED
    BY <1>1, <1>2, <1>3, <1>7, <2>1, <2>2, <2>3
<1> QED
  BY <1>1, <1>3, <1>5, <1>6, <1>7 DEF OnItsWay

LEMMA NextKept ==
  ASSUME IInv, [Next]_vars
  PROVE  Kept
<1>1. dids \subseteq dids'
  BY DEF Next, vars, Handle, Refuse, Receive, Fails, CreateKey, AssignKid, LookUpDid,
         CreateAssertKey, PrepareServices, StoreDid, SubmitNym, NymAnswered,
         AttribAnswered, LedgerExecutes, LedgerDrops, Restart
<1>2. ASSUME NEW k \in Keys, NEW d \in Dids, <<k, Kid(d, "assert")>> \in kids
      PROVE  <<k, Kid(d, "assert")>> \in kids'
  <2>1. Kid(d, "assert") # None
    BY KidTypes
  <2>2. \A r \in Requests : <<k, Kid(d, "assert")>> # <<VerKey(r), None>>
    BY <2>1
  <2> QED
    BY <1>2, <2>2
    DEF Next, vars, Handle, Refuse, Receive, Fails, CreateKey, AssignKid, LookUpDid,
        CreateAssertKey, PrepareServices, StoreDid, SubmitNym, NymAnswered,
        AttribAnswered, LedgerExecutes, LedgerDrops, Restart
<1>3. ASSUME NEW n \in Namespaces, NEW x \in Nyms, ledger[n][x] # None
      PROVE  /\ ledger'[n][x] # None
             /\ ledger[n][x].doc # None => ledger'[n][x].doc # None
             /\ ledger[n][x].attrib # None => ledger'[n][x].attrib # None
  <2>1. CASE \E r \in Requests : LedgerExecutes(r)
    <3>1. PICK r \in Requests : LedgerExecutes(r)
      BY <2>1
    <3>2. /\ call[r] \in OnItsWay /\ req[r] # None
          /\ Target(r) \in Namespaces /\ Nym(r) \in Nyms
      BY <3>1, Executed
    <3>3. DocContent(r) # None
      BY <3>2, Arguments, NoneAssumption DEF OnItsWay, NoneAssumption
    <3>4. PICK e \in Entry :
            /\ ledger' = [ledger EXCEPT ![Target(r)][Nym(r)] = e]
            /\ \/ Place(r) = None
               \/ /\ Place(r) # None
                  /\ \/ e.doc = DocContent(r) /\ e.attrib = Place(r).attrib
                     \/ e.doc = Place(r).doc /\ e.attrib = DocContent(r)
      BY <3>1, Executed
    <3>5. e # None
      BY NoneAssumption DEF NoneAssumption
    <3>6. ledger'[n][x] = IF n = Target(r) /\ x = Nym(r) THEN e ELSE ledger[n][x]
      BY <3>2, <3>4 DEF IInv, TypeOK
    <3> QED
      BY <1>3, <3>3, <3>4, <3>5, <3>6 DEF Place
  <2>2. CASE ledger' = ledger
    BY <1>3, <2>2
  <2> QED
    BY <2>1, <2>2
    DEF Next, vars, Handle, Refuse, Receive, Fails, CreateKey, AssignKid, LookUpDid,
        CreateAssertKey, PrepareServices, StoreDid, SubmitNym, NymAnswered,
        AttribAnswered, LedgerDrops, Restart
<1> QED
  BY <1>1, <1>2, <1>3 DEF Kept

\* A request that a step does not touch keeps what is known of it.
LEMMA OtherRequest ==
  ASSUME DInv, Kept, NEW q \in Requests,
         pc'[q] = pc[q], req'[q] = req[q], call'[q] = call[q]
  PROVE  RInv(q)' /\ (Working(q)' <=> Working(q))
<1>1. IInv /\ Steps(q) /\ Stored(q) /\ Keyed(q) /\ Shown(q)
  BY DEF DInv, RInv
<1>2. /\ Did(q)' = Did(q) /\ Verkey(q)' = Verkey(q) /\ Target(q)' = Target(q)
      /\ Nym(q)' = Nym(q) /\ From(q)' = From(q) /\ Working(q)' = Working(q)
  BY SameRequest DEF Working
<1>3. Steps(q)'
  BY <1>1 DEF Steps
<1>4. Stored(q)'
  BY <1>1, <1>2 DEF Stored, Kept
<1>5. Keyed(q)'
  <2>1. ASSUME From(q), pc[q] \in {"services", "store"} \/ Working(q)
        PROVE  Did(q) \in Dids /\ AssertKey(q) \in Keys
    BY <1>1, <2>1, Arguments, KeyTypes DEF From, Working, Live
  <2> QED
    BY <1>1, <1>2, <2>1 DEF Keyed, Kept
<1>6. Shown(q)'
  <2>1. ASSUME req[q] # None,
               pc[q] \in {"attrib", "ok"} \/ call[q] \in {"attrib", "done"}
        PROVE  Target(q) \in Namespaces /\ Nym(q) \in Nyms
    BY <1>1, <2>1, Arguments DEF Live
  <2>2. Place(q)' = ledger'[Target(q)][Nym(q)]
    BY <1>2 DEF Place
  <2> QED
    BY <1>1, <1>2, <2>1, <2>2 DEF Shown, Steps, From, Place, Kept
<1> QED
  BY <1>2, <1>3, <1>4, <1>5, <1>6 DEF RInv

\* A step that leaves the ledgers alone, and takes no transaction back.
LEMMA OriginsKept ==
  ASSUME DInv, UNCHANGED ledger,
         \A q \in Requests : From(q) /\ call[q] # "none" =>
           req'[q] = req[q] /\ call'[q] # "none"
  PROVE  \A l \in LocalNyms : Origin(l)'
<1>1. ASSUME NEW l \in LocalNyms, NEW q \in Requests, NEW doc, Sender(q, l, doc)
      PROVE  Sender(q, l, doc)'
  BY <1>1, SameRequest DEF Sender
<1> QED
  BY <1>1 DEF DInv, Origin

\* A step of request r on which no other request begins to work: r's own part
\* is left to show.
LEMMA RequestStep ==
  ASSUME DInv, NEW r \in Requests, [Next]_vars, UNCHANGED <<ledger, req>>,
         \A q \in Requests : q # r => pc'[q] = pc[q] /\ call'[q] = call[q],
         call[r] # "none" => call'[r] # "none",
         Working(r)' => Working(r) \/ ~Known(Did(r)),
         RInv(r)'
  PROVE  DInv'
<1>1. IInv' /\ Kept
  BY NextIInv, NextKept DEF DInv
<1>2. \A q \in Requests : q # r => RInv(q)' /\ (Working(q)' <=> Working(q))
  BY <1>1, OtherRequest
<1>3. \A q \in Requests : Did(q)' = Did(q)
  BY SameRequest
<1>4. \A q \in Requests : Working(q) => Known(Did(q))
  BY DEF DInv, RInv, Stored, Known
<1>5. OneWorker'
  BY <1>2, <1>3, <1>4 DEF DInv, OneWorker
<1>6. \A l \in LocalNyms : Origin(l)'
  BY OriginsKept
<1> QED
  BY <1>1, <1>2, <1>5, <1>6 DEF DInv

-----------------------------------------------------------------------------
(* The initial state and the steps                                         *)

LEMMA InitDInv == Init => DInv
<1> SUFFICES ASSUME Init PROVE DInv
  OBVIOUS
<1>1. IInv
  BY InitIInv
<1>2. \A r \in Requests : RInv(r)
  BY DEF Init, RInv, Steps, Stored, Keyed, Shown, Working, From
<1>3. OneWorker
  BY DEF Init, OneWorker, Working, From
<1>4. ASSUME NEW l \in LocalNyms PROVE Origin(l)
  <2>1. ledger[HomeLedger][l] = None
          \/ ledger[HomeLedger][l] = [verkey |-> OwnKey(l), doc |-> None, attrib |-> None]
    BY ConstantsAssumption, LocalTypes DEF Init, ConstantsAssumption
  <2> QED
    BY <2>1 DEF Origin
<1> QED
  BY <1>1, <1>2, <1>3, <1>4 DEF DInv

\* The steps that move one handler on and leave its wallet's keys alone.
LEMMA DMoveStep ==
  ASSUME DInv, NEW r \in Requests,
         \/ Refuse(r)
         \/ Fails(r)
         \/ LookUpDid(r)
         \/ PrepareServices(r)
         \/ AttribAnswered(r)
  PROVE  DInv'
<1>1. UNCHANGED <<kids, dids, ledger, req, call>> /\ [Next]_vars
  BY DEF Refuse, Fails, LookUpDid, PrepareServices, AttribAnswered, Next, Handle
<1>2. /\ IInv /\ TypeOK /\ Handler(r)
      /\ Steps(r) /\ Stored(r) /\ Keyed(r) /\ Shown(r)
  BY DEF DInv, RInv, IInv, Handlers
<1>3. /\ pc'[r] \in Live \cup Finished
      /\ \A q \in Requests : q # r => pc'[q] = pc[q]
      /\ \/ pc'[r] \in {"e400", "e404", "e500"}
         \/ pc[r] = "lookup" /\ pc'[r] \in {"assert", "services"}
              /\ (pc'[r] = "services" => ~req[r].ldp_vc)
         \/ pc[r] = "services" /\ pc'[r] \in {"taa", "store"}
              /\ (pc'[r] = "store" <=> req[r].kind # "new")
         \/ pc[r] = "attrib" /\ pc'[r] = "ok" /\ call[r] = "done"
  BY <1>2
  DEF TypeOK, Refuse, Fails, LookUpDid, PrepareServices, AttribAnswered, Goto,
      AfterKeys, Live, Finished, Handler, Request
<1>4. /\ Did(r)' = Did(r) /\ Verkey(r)' = Verkey(r) /\ Place(r)' = Place(r)
      /\ From(r)' = From(r)
  BY <1>1, SameRequest DEF Place
<1>5. Working(r)' => Working(r)
  BY <1>1, <1>3, <1>4 DEF Working
<1>6. Steps(r)'
  BY <1>1, <1>2, <1>3 DEF Steps, Handler, Request
<1>7. Stored(r)'
  <2>1. pc'[r] = "ok" => Working(r)
    BY <1>2, <1>3, NoneAssumption
    DEF Handler, Working, From, Live, Finished, NoneAssumption
  <2> QED
    BY <1>1, <1>2, <1>4, <1>5, <2>1 DEF Stored
<1>8. Keyed(r)'
  BY <1>1, <1>2, <1>3, <1>4, <1>5 DEF Keyed, From
<1>9. Shown(r)'
  BY <1>1, <1>2, <1>3, <1>4 DEF Shown, From
<1>10. RInv(r)'
  BY <1>6, <1>7, <1>8, <1>9 DEF RInv
<1> QED
  BY <1>1, <1>3, <1>5, <1>10, RequestStep

LEMMA DReceiveStep ==
  ASSUME DInv, NEW r \in Requests, Receive(r)
  PROVE  DInv'
<1>1. [Next]_vars
  BY DEF Next, Handle
<1>2. IInv' /\ Kept
  BY <1>1, NextIInv, NextKept DEF DInv
<1>3. /\ pc[r] = "idle" /\ call[r] = "none" /\ req[r] = None
      /\ UNCHANGED <<kids, dids, ledger, call>>
  BY DEF Receive, DInv, IInv, Handlers, Handler
<1>4. /\ pc'[r] \in {"key", "lookup"}
      /\ \A q \in Requests : q # r => pc'[q] = pc[q] /\ req'[q] = req[q]
  BY DEF Receive, Goto, DInv, IInv, TypeOK
<1>5. ~Working(r)' /\ ~Working(r)
  BY <1>3, <1>4 DEF Working, From
<1>6. RInv(r)'
  BY <1>3, <1>4, <1>5 DEF RInv, Steps, Stored, Keyed, Shown
<1>7. \A q \in Requests : q # r => RInv(q)' /\ (Working(q)' <=> Working(q))
  BY <1>2, <1>3, <1>4, OtherRequest
<1>8. OneWorker'
  <2>1. \A q \in Requests : q # r => Did(q)' = Did(q)
    BY <1>4, SameRequest
  <2> QED
    BY <1>5, <1>7, <2>1 DEF DInv, OneWorker
<1>9. \A l \in LocalNyms : Origin(l)'
  BY <1>3, <1>4, OriginsKept DEF From
<1> QED
  BY <1>2, <1>6, <1>7, <1>8, <1>9 DEF DInv

\* The steps that make a new nym's key.
LEMMA DKeyStep ==
  ASSUME DInv, NEW r \in Requests, CreateKey(r) \/ AssignKid(r)
  PROVE  DInv'
<1>1. /\ pc[r] \in {"key", "kid"} /\ req[r].kind = "new" /\ req[r] \in Request
      /\ call[r] = "none" /\ UNCHANGED <<dids, ledger, req, call>>
  BY DEF CreateKey, AssignKid, DInv, RInv, Steps, IInv, Handlers, Handler, Live
<1>2. /\ pc'[r] \in {"kid", "assert", "services"}
      /\ \A q \in Requests : q # r => pc'[q] = pc[q]
  BY DEF CreateKey, AssignKid, AfterKeys, Goto, DInv, IInv, TypeOK
<1>3. ~From(r)' /\ ~Working(r)'
  BY <1>1 DEF From, Working
<1>4. RInv(r)'
  BY <1>1, <1>2, <1>3 DEF RInv, Steps, Stored, Keyed, Shown
<1>5. [Next]_vars
  BY DEF Next, Handle
<1> QED
  BY <1>1, <1>2, <1>3, <1>4, <1>5, RequestStep

LEMMA DCreateAssertKeyStep ==
  ASSUME DInv, NEW r \in Requests, CreateAssertKey(r)
  PROVE  DInv'
<1>1. /\ pc[r] = "assert" /\ call[r] = "none"
      /\ kids' = kids \cup {<<AssertKey(r), Kid(Did(r), "assert")>>}
      /\ UNCHANGED <<dids, ledger, req, call>>
  BY DEF CreateAssertKey, DInv, RInv, Steps
<1>2. /\ pc'[r] = "services"
      /\ \A q \in Requests : q # r => pc'[q] = pc[q]
  BY DEF CreateAssertKey, Goto, DInv, IInv, TypeOK
<1>3. ~Working(r)' /\ Did(r)' = Did(r)
  BY <1>1, <1>2, SameRequest DEF Working
<1>4. RInv(r)'
  BY <1>1, <1>2, <1>3 DEF RInv, Steps, Stored, Keyed, Shown
<1>5. [Next]_vars
  BY DEF Next, Handle
<1> QED
  BY <1>1, <1>2, <1>3, <1>4, <1>5, RequestStep

LEMMA DStoreDidStep ==
  ASSUME DInv, NEW r \in Requests, StoreDid(r)
  PROVE  DInv'
<1>1. /\ pc[r] = "store" /\ req[r] # None /\ req[r].kind \in {"new", "from"}
      /\ call[r] = IF req[r].kind = "new" THEN "done" ELSE "none"
      /\ UNCHANGED <<kids, ledger, req, call>>
  BY NoneAssumption DEF StoreDid, DInv, RInv, Steps, IInv, Handlers, Handler, Live,
                        Request, NoneAssumption
<1>2. /\ \A q \in Requests : q # r => pc'[q] = pc[q]
      /\ \/ /\ ~Known(Did(r))
            /\ [did |-> Did(r), verkey |-> Verkey(r)] \in dids'
            /\ pc'[r] = IF req[r].kind = "new" THEN "ok" ELSE "open"
         \/ pc'[r] = "e500"
  BY DEF StoreDid, Goto, DInv, IInv, TypeOK
<1>3. /\ Did(r)' = Did(r) /\ Verkey(r)' = Verkey(r) /\ Place(r)' = Place(r)
      /\ From(r)' = From(r) /\ Keyed(r) /\ Shown(r)
  BY <1>1, SameRequest DEF Place, DInv, RInv
<1>4. Working(r)' => ~Known(Did(r)) /\ pc'[r] = "open"
  BY <1>1, <1>2, <1>3 DEF Working, From
<1>5. Steps(r)' /\ Stored(r)' /\ Keyed(r)'
  BY <1>1, <1>2, <1>3, <1>4 DEF Steps, Stored, Keyed, Working
<1>6. Shown(r)'
  BY <1>1, <1>2, <1>3 DEF Shown, From
<1>7. [Next]_vars
  BY DEF Next, Handle
<1> QED
  BY <1>1, <1>2, <1>4, <1>5, <1>6, <1>7, RequestStep DEF RInv

\* The steps that send or lose a transaction.
LEMMA DSendStep ==
  ASSUME DInv, NEW r \in Requests,
         SubmitNym(r) \/ NymAnswered(r) \/ LedgerDrops(r)
  PROVE  DInv'
<1>1. /\ UNCHANGED <<kids, dids, ledger, req>> /\ [Next]_vars
      /\ \A q \in Requests : q # r => pc'[q] = pc[q] /\ call'[q] = call[q]
  BY DEF SubmitNym, NymAnswered, LedgerDrops, Goto, Sends, DInv, IInv, TypeOK,
         Next, Handle
<1>2. /\ Handler(r) /\ Steps(r) /\ Stored(r) /\ Keyed(r) /\ Shown(r)
      /\ req[r] # None /\ req[r].kind \in {"new", "from"}
  BY NoneAssumption
  DEF SubmitNym, NymAnswered, LedgerDrops, OnItsWay, DInv, RInv, IInv, Handlers,
      Handler, Live, Request, NoneAssumption
<1>3. \/ pc[r] = "open" /\ pc'[r] = "nym" /\ call'[r] = "nym"
      \/ pc[r] = "taa" /\ req[r].kind = "new" /\ pc'[r] = "nym" /\ call'[r] = "nym"
      \/ /\ pc[r] = "nym" /\ call[r] = "done" /\ req[r].kind = "new"
         /\ pc'[r] = "store" /\ call'[r] = call[r]
      \/ /\ pc[r] = "nym" /\ call[r] = "done" /\ req[r].kind = "from"
         /\ pc'[r] = "attrib" /\ call'[r] = "attrib"
      \/ pc'[r] = pc[r] /\ call[r] \in OnItsWay /\ call'[r] = "dropped"
  BY <1>2 DEF SubmitNym, NymAnswered, LedgerDrops, Goto, Sends, DInv, IInv, TypeOK,
              Handler
<1>4. /\ Did(r)' = Did(r) /\ Verkey(r)' = Verkey(r) /\ Place(r)' = Place(r)
      /\ From(r)' = From(r)
  BY <1>1, SameRequest DEF Place
<1>5. Working(r)' => Working(r)
  BY <1>1, <1>3, <1>4 DEF Working, From, OnItsWay
<1>6. Steps(r)'
  BY <1>1, <1>2, <1>3 DEF Steps, OnItsWay
<1>7. Stored(r)' /\ Keyed(r)'
  BY <1>1, <1>2, <1>3, <1>4, <1>5 DEF Stored, Keyed, From
<1>8. Shown(r)'
  BY <1>1, <1>2, <1>3, <1>4 DEF Shown, Steps, From, OnItsWay
<1>9. call'[r] # "none"
  BY <1>2, <1>3 DEF OnItsWay
<1> QED
  BY <1>1, <1>5, <1>6, <1>7, <1>8, <1>9, RequestStep DEF RInv

LEMMA DExecutesStep ==
  ASSUME DInv, NEW r \in Requests, LedgerExecutes(r)
  PROVE  DInv'
<1>1. [Next]_vars
  BY DEF Next
<1>2. IInv' /\ Kept
  BY <1>1, NextIInv, NextKept DEF DInv
<1>3. /\ UNCHANGED <<kids, dids, pc, req>>
      /\ call[r] \in OnItsWay /\ call'[r] = "done"
      /\ \A q \in Requests : q # r => call'[q] = call[q]
  BY DEF LedgerExecutes, Sends, DInv, IInv, TypeOK
<1>4. /\ req[r] # None /\ Target(r) \in Namespaces /\ Nym(r) \in Nyms
      /\ DocContent(r) # None
      /\ req[r].kind = "from" => Nym(r) \in LocalNyms
      /\ req[r].kind = "new" => Nym(r) \notin LocalNyms
  <2>1. req[r] # None /\ Target(r) \in Namespaces /\ Nym(r) \in Nyms
    BY Executed DEF DInv
  <2> QED
    BY <1>3, <2>1, Arguments, KeyTypes, NoneAssumption
    DEF DInv, OnItsWay, NoneAssumption
<1>5. Steps(r) /\ Stored(r) /\ Keyed(r) /\ Shown(r)
  BY DEF DInv, RInv
<1>6. PICK e \in Entry :
        /\ ledger' = [ledger EXCEPT ![Target(r)][Nym(r)] = e]
        /\ \/ /\ call[r] = "nym" /\ req[r].kind = "new"
              /\ e.doc = DocContent(r)
           \/ /\ call[r] = "nym" /\ req[r].kind = "from"
              /\ Place(r) # None
              /\ e.doc = DocContent(r) /\ e.attrib = Place(r).attrib
           \/ /\ call[r] = "attrib" /\ req[r].kind = "from"
              /\ Place(r) # None
              /\ e.doc = Place(r).doc /\ e.attrib = DocContent(r)
  BY Executed DEF DInv
<1>7. /\ e # None
      /\ e.doc # None
      /\ call[r] = "attrib" => e.attrib # None
      /\ \A n \in Namespaces, x \in Nyms :
           ledger'[n][x] = IF n = Target(r) /\ x = Nym(r) THEN e ELSE ledger[n][x]
  <2>1. e # None
    BY NoneAssumption DEF NoneAssumption
  <2>2. \A n \in Namespaces, x \in Nyms :
          ledger'[n][x] = IF n = Target(r) /\ x = Nym(r) THEN e ELSE ledger[n][x]
    BY <1>4, <1>6 DEF DInv, IInv, TypeOK
  <2>3. call[r] = "attrib" => Place(r).doc # None
    BY <1>4, <1>5 DEF Shown
  <2> QED
    BY <1>4, <1>6, <2>1, <2>2, <2>3
<1>8. /\ Did(r)' = Did(r) /\ Verkey(r)' = Verkey(r) /\ From(r)' = From(r)
      /\ Place(r)' = e
  <2>1. /\ Did(r)' = Did(r) /\ Verkey(r)' = Verkey(r) /\ From(r)' = From(r)
        /\ Target(r)' = Target(r) /\ Nym(r)' = Nym(r)
    BY <1>3, SameRequest
  <2> QED
    BY <1>4, <1>7, <2>1 DEF Place
<1>9. Working(r)' <=> Working(r)
  BY <1>3, <1>8 DEF Working, OnItsWay
<1>10. RInv(r)'
  <2>1. Steps(r)'
    BY <1>3, <1>5 DEF Steps, OnItsWay
  <2>2. Stored(r)' /\ Keyed(r)'
    BY <1>3, <1>5, <1>8, <1>9 DEF Stored, Keyed
  <2>3. Shown(r)'
    BY <1>3, <1>5, <1>7, <1>8 DEF Shown, Steps, OnItsWay
  <2> QED
    BY <2>1, <2>2, <2>3 DEF RInv
<1>11. \A q \in Requests : q # r => RInv(q)' /\ (Working(q)' <=> Working(q))
  BY <1>2, <1>3, OtherRequest
<1>12. OneWorker'
  <2>1. \A q \in Requests : Did(q)' = Did(q)
    BY <1>3, SameRequest
  <2> QED
    BY <1>9, <1>11, <2>1 DEF DInv, OneWorker
<1>13. ASSUME NEW l \in LocalNyms PROVE Origin(l)'
  <2>1. ASSUME NEW q \in Requests, NEW doc, Sender(q, l, doc)
        PROVE  Sender(q, l, doc)'
    BY <1>3, <2>1, SameRequest DEF Sender
  <2>2. l \in Nyms /\ HomeLedger \in Namespaces
    BY LocalTypes, ConstantsAssumption DEF ConstantsAssumption
  <2>3. CASE HomeLedger = Target(r) /\ l = Nym(r)
    <3>1. req[r].kind = "from" /\ Place(r) # None /\ Place(r) = ledger[HomeLedger][l]
      BY <1>4, <1>6, <2>3 DEF Place
    <3>2. \A doc \in {Place(r).doc, Place(r).attrib} \ {None} :
            \E q \in Requests : Sender(q, l, doc)'
      BY <2>1, <3>1 DEF DInv, Origin
    <3>3. {e.doc, e.attrib} \subseteq {Place(r).doc, Place(r).attrib, DocContent(r)}
      BY <1>6, <3>1
    <3>4. ledger'[HomeLedger][l] = e
      BY <1>7, <2>2, <2>3
    <3>5. \A doc \in {e.doc, e.attrib} \ {None} :
            \E q \in Requests : Sender(q, l, doc)'
      <4> SUFFICES ASSUME NEW doc \in {e.doc, e.attrib} \ {None}
                   PROVE  \E q \in Requests : Sender(q, l, doc)'
        OBVIOUS
      <4>1. CASE doc = DocContent(r)
        <5>1. DocContent(r)' = DocContent(r)
          BY <1>3, SameRequest
        <5> QED
          BY <1>3, <1>4, <2>3, <3>1, <4>1, <5>1, SameRequest DEF Sender, From
      <4>2. CASE doc # DocContent(r)
        BY <3>2, <3>3, <4>2
      <4> QED
        BY <4>1, <4>2
    <3> QED
      BY <1>7, <3>4, <3>5 DEF Origin
  <2>4. CASE ~(HomeLedger = Target(r) /\ l = Nym(r))
    <3>1. ledger'[HomeLedger][l] = ledger[HomeLedger][l]
      BY <1>7, <2>2, <2>4
    <3> QED
      BY <2>1, <3>1 DEF DInv, Origin
  <2> QED
    BY <2>3, <2>4
<1> QED
  BY <1>2, <1>10, <1>11, <1>12, <1>13 DEF DInv

\* A restart, or a step of nobody.
LEMMA DRestartStep ==
  ASSUME DInv, Restart \/ UNCHANGED vars
  PROVE  DInv'
<1>1. UNCHANGED <<kids, dids, ledger, req, call>> /\ [Next]_vars
  BY DEF Restart, vars, Next
<1>2. \A q \in Requests :
        pc'[q] = pc[q] \/ (pc[q] \in Live /\ pc'[q] = "lost")
  BY DEF Restart, vars, DInv, IInv, TypeOK
<1>3. IInv'
  BY <1>1, NextIInv DEF DInv
<1>4. ASSUME NEW q \in Requests PROVE RInv(q)' /\ (Working(q)' => Working(q))
  <2>1. /\ Did(q)' = Did(q) /\ Verkey(q)' = Verkey(q) /\ Place(q)' = Place(q)
        /\ From(q)' = From(q)
    BY <1>1, SameRequest DEF Place
  <2>2. Working(q)' => Working(q)
    BY <1>1, <1>2, <2>1 DEF Working
  <2>3. Steps(q) /\ Stored(q) /\ Keyed(q) /\ Shown(q)
    BY DEF DInv, RInv
  <2>4. Steps(q)' /\ Stored(q)' /\ Keyed(q)' /\ Shown(q)'
    BY <1>1, <1>2, <2>1, <2>2, <2>3 DEF Steps, Stored, Keyed, Shown
  <2> QED
    BY <2>2, <2>4 DEF RInv
<1>5. OneWorker'
  <2>1. \A q \in Requests : Did(q)' = Did(q)
    BY <1>1, SameRequest
  <2> QED
    BY <1>4, <2>1 DEF DInv, OneWorker
<1>6. \A l \in LocalNyms : Origin(l)'
  BY <1>1, OriginsKept
<1> QED
  BY <1>3, <1>4, <1>5, <1>6 DEF DInv

LEMMA NextDInv == DInv /\ [Next]_vars => DInv'
<1> SUFFICES ASSUME DInv, [Next]_vars PROVE DInv'
  OBVIOUS
<1>1. ASSUME NEW r \in Requests, Handle(r) \/ LedgerExecutes(r) \/ LedgerDrops(r)
      PROVE  DInv'
  BY <1>1, DMoveStep, DReceiveStep, DKeyStep, DCreateAssertKeyStep, DStoreDidStep,
     DSendStep, DExecutesStep DEF Handle
<1> QED
  BY <1>1, DRestartStep DEF Next

-----------------------------------------------------------------------------
(* Results                                                                 *)

\* A 200 means that the DID is stored and its document on the ledger.
THEOREM OkIsDone == Spec => []OkMeansDone
<1>1. Init => DInv
  BY InitDInv
<1>2. DInv /\ [Next]_vars => DInv'
  BY NextDInv
<1>3. DInv => OkMeansDone
  <2> SUFFICES ASSUME DInv, NEW r \in Requests, pc[r] = "ok"
               PROVE  /\ [did |-> Did(r), verkey |-> Verkey(r)] \in dids
                      /\ Place(r) # None /\ Place(r).doc # None
                      /\ req[r].kind = "from" => Place(r).attrib # None
    BY DEF OkMeansDone, Place
  <2>1. req[r] # None
    BY NoneAssumption DEF DInv, IInv, Handlers, Handler, NoneAssumption
  <2>2. Steps(r) /\ Stored(r) /\ Shown(r)
    BY DEF DInv, RInv
  <2> QED
    BY <2>1, <2>2 DEF Steps, Stored, Shown, From
<1> QED
  BY <1>1, <1>2, <1>3, PTL DEF Spec

\* What is known of the sender of a published document.
LEMMA SenderFacts ==
  ASSUME DInv, NEW l \in LocalNyms, NEW r \in Requests, NEW doc, Sender(r, l, doc)
  PROVE  /\ Working(r) /\ doc.did = Did(r) /\ Did(r)[2] = l
         /\ [did |-> Did(r), verkey |-> Verkey(r)] \in dids
         /\ doc.assert # None =>
              doc.assert = Verkey(r) /\ <<doc.assert, Kid(doc.did, "assert")>> \in kids
<1>1. Working(r) /\ From(r) /\ doc = DocContent(r) /\ Did(r)[2] = l
  BY DEF Sender, Working, Did
<1>2. [did |-> Did(r), verkey |-> Verkey(r)] \in dids /\ Keyed(r)
  BY <1>1 DEF DInv, RInv, Stored
<1>3. doc.did = Did(r) /\ doc.assert = IF req[r].ldp_vc THEN AssertKey(r) ELSE None
  BY <1>1 DEF DocContent
<1>4. req[r].ldp_vc => Verkey(r) = AssertKey(r)
  BY <1>1 DEF Verkey, From
<1> QED
  BY <1>1, <1>2, <1>3, <1>4 DEF Keyed

\* Whatever is published for a DID the wallet had is of a stored DID, with the
\* key it is stored with.
THEOREM PublishedDocs == Spec => []PublishedDocIsOurs
<1>1. Init => DInv
  BY InitDInv
<1>2. DInv /\ [Next]_vars => DInv'
  BY NextDInv
<1>3. DInv => PublishedDocIsOurs
  <2> SUFFICES ASSUME DInv, NEW l \in LocalNyms, ledger[HomeLedger][l] # None,
                      NEW doc \in {ledger[HomeLedger][l].doc,
                                   ledger[HomeLedger][l].attrib} \ {None}
               PROVE  /\ Known(doc.did)
                      /\ doc.assert # None =>
                           /\ [did |-> doc.did, verkey |-> doc.assert] \in dids
                           /\ <<doc.assert, Kid(doc.did, "assert")>> \in kids
    BY DEF PublishedDocIsOurs
  <2>1. PICK r \in Requests : Sender(r, l, doc)
    BY DEF DInv, Origin
  <2>2. /\ doc.did = Did(r) /\ [did |-> Did(r), verkey |-> Verkey(r)] \in dids
        /\ doc.assert # None =>
             doc.assert = Verkey(r) /\ <<doc.assert, Kid(doc.did, "assert")>> \in kids
    BY <2>1, SenderFacts
  <2>3. Known(doc.did)
    BY <2>2 DEF Known
  <2> QED
    BY <2>2, <2>3
<1> QED
  BY <1>1, <1>2, <1>3, PTL DEF Spec

\* NYM and ATTRIB differ only for a nym that is stored under two namespaces.
THEOREM AttribsAgree == Spec => []AttribAgrees
<1>1. Init => DInv
  BY InitDInv
<1>2. DInv /\ [Next]_vars => DInv'
  BY NextDInv
<1>3. DInv => AttribAgrees
  <2> SUFFICES ASSUME DInv, NEW l \in LocalNyms, ledger[HomeLedger][l] # None,
                      ledger[HomeLedger][l].attrib # None,
                      ledger[HomeLedger][l].attrib # ledger[HomeLedger][l].doc
               PROVE  \E d, e \in dids : d.did[2] = l /\ e.did[2] = l /\ d.did # e.did
    BY DEF AttribAgrees
  <2> DEFINE entry == ledger[HomeLedger][l]
  <2>1. entry.doc # None
    BY DEF DInv, Origin
  <2>2. PICK q \in Requests : Sender(q, l, entry.attrib)
    BY DEF DInv, Origin
  <2>3. PICK r \in Requests : Sender(r, l, entry.doc)
    BY <2>1 DEF DInv, Origin
  <2>4. q # r
    BY <2>2, <2>3 DEF Sender
  <2>5. /\ Working(q) /\ Did(q)[2] = l /\ [did |-> Did(q), verkey |-> Verkey(q)] \in dids
        /\ Working(r) /\ Did(r)[2] = l /\ [did |-> Did(r), verkey |-> Verkey(r)] \in dids
    BY <2>2, <2>3, SenderFacts
  <2>6. Did(q) # Did(r)
    BY <2>4, <2>5 DEF DInv, OneWorker
  <2> QED
    BY <2>5, <2>6
<1> QED
  BY <1>1, <1>2, <1>3, PTL DEF Spec

\* A stranded DID has no way back.
THEOREM NoRetryHelps == Spec => StrandedForever
<1>1. Init => DInv
  BY InitDInv
<1>2. DInv /\ [Next]_vars => DInv'
  BY NextDInv
<1>3. DInv /\ [Next]_vars =>
        [\A did \in Dids : Stranded(did) => Stranded(did)']_vars
  <2> SUFFICES ASSUME DInv, [Next]_vars, NEW did \in Dids, Stranded(did)
               PROVE  Stranded(did)'
    OBVIOUS
  <2> DEFINE n == HomeLedger
             x == did[2]
             Idle(r) == pc[r] \notin {"open", "nym", "attrib"} /\ call[r] \notin OnItsWay
  <2>1. /\ Known(did) /\ x \in PostedNyms /\ x \in LocalNyms /\ x \in Nyms
        /\ n \in Namespaces
        /\ \A doc \in {ledger[n][x].doc, ledger[n][x].attrib} :
             doc = None \/ doc.did # did
        /\ \A r \in Requests : req[r] # None /\ Did(r) = did => Idle(r)
    BY LocalTypes, ConstantsAssumption DEF Stranded, ConstantsAssumption
  <2>2. Known(did)'
    BY <2>1, NextKept DEF DInv, Kept, Known
  <2>3. ASSUME NEW doc \in {ledger'[n][x].doc, ledger'[n][x].attrib}
        PROVE  doc = None \/ doc.did # did
    <3>1. CASE ledger' = ledger
      BY <2>1, <2>3, <3>1
    <3>2. ASSUME NEW r \in Requests, LedgerExecutes(r)
          PROVE  doc = None \/ doc.did # did
      <4>1. PICK e \in Entry :
              /\ ledger' = [ledger EXCEPT ![Target(r)][Nym(r)] = e]
              /\ \/ req[r].kind = "new"
                 \/ /\ req[r].kind = "from"
                    /\ {e.doc, e.attrib} \subseteq
                         {Place(r).doc, Place(r).attrib, DocContent(r)}
        BY <3>2, Executed DEF DInv
      <4>2. /\ call[r] \in OnItsWay /\ req[r] # None
            /\ Target(r) \in Namespaces /\ Nym(r) \in Nyms
        BY <3>2, Executed DEF DInv
      <4>3. ledger'[n][x] = IF n = Target(r) /\ x = Nym(r) THEN e ELSE ledger[n][x]
        BY <2>1, <4>1, <4>2 DEF DInv, IInv, TypeOK
      <4>4. CASE n = Target(r) /\ x = Nym(r)
        <5>1. req[r].kind = "from"
          BY <2>1, <4>1, <4>4, KeyTypes DEF Nym
        <5>2. Did(r) # did /\ DocContent(r).did = Did(r)
          BY <2>1, <4>2 DEF DocContent
        <5> QED
          BY <2>1, <2>3, <4>1, <4>3, <4>4, <5>1, <5>2 DEF Place
      <4>5. CASE ~(n = Target(r) /\ x = Nym(r))
        BY <2>1, <2>3, <4>3, <4>5
      <4> QED
        BY <4>4, <4>5
    <3> QED
      BY <3>1, <3>2
      DEF Next, vars, Handle, Refuse, Receive, Fails, CreateKey, AssignKid, LookUpDid,
          CreateAssertKey, PrepareServices, StoreDid, SubmitNym, NymAnswered,
          AttribAnswered, LedgerDrops, Restart
  <2>4. ASSUME NEW r \in Requests, req'[r] # None, Did(r)' = did
        PROVE  Idle(r)'
    <3>1. CASE req'[r] # req[r]
      <4>1. Receive(r)
        BY <3>1
        DEF Next, vars, Handle, Refuse, Receive, Fails, CreateKey, AssignKid,
            LookUpDid, CreateAssertKey, PrepareServices, StoreDid, SubmitNym,
            NymAnswered, AttribAnswered, LedgerExecutes, LedgerDrops, Restart,
            DInv, IInv, TypeOK
      <4>2. pc'[r] \in {"key", "lookup"} /\ call'[r] = "none"
        BY <4>1 DEF Receive, Goto, DInv, IInv, TypeOK, Handlers, Handler
      <4> QED
        BY <4>2 DEF OnItsWay
    <3>2. CASE req'[r] = req[r]
      <4>1. Did(r) = did /\ Idle(r)
        BY <2>1, <2>4, <3>2, SameRequest
      <4>2. Known(Did(r)) /\ pc[r] \notin {"open", "nym", "attrib"}
            /\ call[r] \notin OnItsWay
        BY <2>1, <4>1
      <4>3. pc[r] # "taa"
        <5>1. req[r].kind = "new" => Did(r)[2] = VerKey(r)
          BY DEF Did, Nym
        <5> QED
          BY <2>1, <4>1, <5>1, KeyTypes DEF DInv, IInv, Handlers, Handler
      <4>4. \A q \in Requests : Handle(q) => (pc'[r] = pc[r] /\ call'[r] = call[r]) \/ q = r
        BY DEF Handle, Refuse, Receive, Fails, CreateKey, AssignKid, LookUpDid,
               CreateAssertKey, PrepareServices, StoreDid, SubmitNym, NymAnswered,
               AttribAnswered, AfterKeys, Goto, Sends, DInv, IInv, TypeOK
      <4>5. CASE Handle(r)
        BY <4>2, <4>3, <4>5
        DEF Handle, Refuse, Receive, Fails, CreateKey, AssignKid, LookUpDid,
            CreateAssertKey, PrepareServices, StoreDid, SubmitNym, NymAnswered,
            AttribAnswered, AfterKeys, Goto, Sends, DInv, IInv, TypeOK, OnItsWay
      <4>6. CASE \E q \in Requests : LedgerExecutes(q) \/ LedgerDrops(q)
        BY <4>2, <4>6 DEF LedgerExecutes, LedgerDrops, Sends, DInv, IInv, TypeOK,
                          OnItsWay
      <4>7. CASE Restart \/ UNCHANGED vars
        BY <4>2, <4>7 DEF Restart, vars, DInv, IInv, TypeOK, OnItsWay
      <4> QED
        BY <4>2, <4>4, <4>5, <4>6, <4>7 DEF Next
    <3> QED
      BY <3>1, <3>2
  <2> QED
    BY <2>1, <2>2, <2>3, <2>4 DEF Stranded
<1>4. [][\A did \in Dids : Stranded(did) => Stranded(did)']_vars => StrandedForever
  BY PTL DEF StrandedForever
<1> QED
  BY <1>1, <1>2, <1>3, <1>4, PTL DEF Spec

=============================================================================
