----------------------- MODULE RevocationListsProofs -----------------------
(* Proofs about RevocationLists, for any number of calls and any indices.   *)
EXTENDS RevocationLists, SequenceTheorems, TLAPS

-----------------------------------------------------------------------------
(* The inductive invariant                                                 *)

\* An update names indices its list does not revoke; other calls carry no list.
Batched(a) ==
  /\ a.kind = "update" => a.batch # {} /\ a.batch \cap a.prev = {}
  /\ a.kind # "update" => a.batch = {} /\ a.prev = {}

\* What is known of call c from where it stands.
Call(c) ==
  /\ pc[c] \in {"author", "sent", "ok"} => req[c] \in Request
  /\ pc[c] \in {"author", "sent"} => req[c].kind # "get"
  /\ pc[c] \in {"idle", "author"} => txn[c] = "none"
  /\ pc[c] = "sent" => txn[c] # "none"
  /\ (pc[c] = "ok" /\ req[c].kind # "get") => txn[c] = "executed"
  /\ req[c] # None => Batched(req[c])
  /\ txn[c] # "none" => req[c] \in Request /\ req[c].kind # "get"
                          /\ entry[c] = EntryOf(c)

\* What is executed is contained in the ledger's last list, and stands there.
Executed(c) ==
  txn[c] = "executed" =>
    /\ ledger # << >>
    /\ Curr(c) \subseteq ledger[Len(ledger)].accum
    /\ \E i \in 1..Len(ledger) : ledger[i].accum = Curr(c)

\* No two executed updates start from the same list.
Exclusive ==
  \A c, d \in Calls :
    /\ txn[c] = "executed" /\ req[c].kind = "update"
    /\ txn[d] = "executed" /\ req[d].kind = "update"
    /\ req[c].prev = req[d].prev
    => c = d

\* All lists are contained in the last one.
UpToLast ==
  \A i \in 1..Len(ledger) : ledger[i].accum \subseteq ledger[Len(ledger)].accum

IInv ==
  /\ TypeOK
  /\ \A c \in Calls : Call(c) /\ Executed(c)
  /\ Exclusive
  /\ UpToLast
  /\ NothingIsUndone
  /\ AccumulatorFits
  /\ KnownIsOnLedger

-----------------------------------------------------------------------------
(* Steps that send nothing and execute nothing                             *)

\* What depends on the ledger, the transactions and the arguments alone stays.
LEMMA LedgerUnchanged ==
  ASSUME IInv, UNCHANGED <<ledger, txn>>,
         \A c \in Calls : txn[c] # "none" => req'[c] = req[c]
  PROVE  /\ \A c \in Calls : Executed(c)'
         /\ Exclusive' /\ UpToLast' /\ NothingIsUndone' /\ AccumulatorFits'
<1>1. \A c \in Calls : Executed(c)'
  BY DEF IInv, Executed, Curr
<1>2. Exclusive'
  BY DEF IInv, Exclusive
<1>3. UpToLast' /\ NothingIsUndone' /\ AccumulatorFits'
  BY DEF IInv, UpToLast, NothingIsUndone, AccumulatorFits
<1> QED
  BY <1>1, <1>2, <1>3

\* A call comes in with arguments that fit its kind.
LEMMA ReceiveStep ==
  ASSUME IInv, NEW c \in Calls, pc[c] = "idle",
         NEW a \in Request, Batched(a),
         req' = [req EXCEPT ![c] = a],
         \/ a.kind # "get" /\ pc' = [pc EXCEPT ![c] = "author"] /\ known' = known
         \/ a.kind = "get" /\ pc' = [pc EXCEPT ![c] = "ok"],
         known' \subseteq Lists, KnownIsOnLedger',
         UNCHANGED <<ledger, entry, txn>>
  PROVE  IInv'
<1>1. txn[c] = "none"
  BY DEF IInv, Call
<1>2. TypeOK'
  BY DEF IInv, TypeOK
<1>3. \A d \in Calls : txn[d] # "none" => req'[d] = req[d]
  BY <1>1 DEF IInv, TypeOK
<1>4. ASSUME NEW d \in Calls PROVE Call(d)'
  <2>1. CASE d = c
    BY <1>1, <2>1 DEF IInv, TypeOK, Call
  <2>2. CASE d # c
    <3>1. pc'[d] = pc[d] /\ req'[d] = req[d] /\ txn'[d] = txn[d] /\ entry'[d] = entry[d]
      BY <2>2 DEF IInv, TypeOK
    <3> QED
      BY <3>1 DEF IInv, Call, EntryOf, Curr
  <2> QED
    BY <2>1, <2>2
<1> QED
  BY <1>2, <1>3, <1>4, LedgerUnchanged DEF IInv

\* The arguments of each kind of call fit it.
LEMMA RegisterStep ==
  ASSUME IInv, NEW c \in Calls, RegisterRevocationList(c)
  PROVE  IInv'
<1> DEFINE a == [kind |-> "register", prev |-> {}, batch |-> {}]
<1>1. a \in Request /\ Batched(a)
  BY DEF Request, Batched, Lists
<1>2. KnownIsOnLedger' /\ known' \subseteq Lists
  BY DEF RegisterRevocationList, IInv, TypeOK, KnownIsOnLedger
<1> QED
  BY <1>1, <1>2, ReceiveStep DEF RegisterRevocationList, Arguments, Goto

LEMMA UpdateStep ==
  ASSUME IInv, NEW c \in Calls, UpdateRevocationList(c)
  PROVE  IInv'
<1>0. PICK prev \in known : \E batch \in (SUBSET (Indices \ prev)) \ {{}} :
        Arguments(c, "update", prev, batch)
  BY DEF UpdateRevocationList
<1>1. PICK batch \in (SUBSET (Indices \ prev)) \ {{}} :
        Arguments(c, "update", prev, batch)
  BY <1>0
<1> DEFINE a == [kind |-> "update", prev |-> prev, batch |-> batch]
<1>2. a \in Request /\ Batched(a)
  BY DEF Request, Batched, Lists, IInv, TypeOK
<1>3. KnownIsOnLedger' /\ known' \subseteq Lists
  BY DEF UpdateRevocationList, IInv, TypeOK, KnownIsOnLedger
<1> QED
  BY <1>1, <1>2, <1>3, ReceiveStep DEF UpdateRevocationList, Arguments, Goto

LEMMA GetStep ==
  ASSUME IInv, NEW c \in Calls, GetRevocationList(c)
  PROVE  IInv'
<1> DEFINE a == [kind |-> "get", prev |-> {}, batch |-> {}]
<1>1. a \in Request /\ Batched(a)
  BY DEF Request, Batched, Lists
<1>2. PICK i \in 1..Len(ledger) : known' = known \cup {ledger[i].revoked}
  BY DEF GetRevocationList
<1>3. ledger[i] \in LedgerList /\ ledger[i].accum = ledger[i].revoked
  BY DEF IInv, TypeOK, AccumulatorFits
<1>4. KnownIsOnLedger' /\ known' \subseteq Lists
  BY <1>2, <1>3 DEF GetRevocationList, IInv, TypeOK, KnownIsOnLedger, LedgerList
<1> QED
  BY <1>1, <1>4, ReceiveStep DEF GetRevocationList, Arguments, Goto

\* The call raises: nothing else changes.
LEMMA FailsStep ==
  ASSUME IInv, NEW c \in Calls, Fails(c)
  PROVE  IInv'
<1>1. TypeOK'
  BY DEF Fails, Goto, IInv, TypeOK
<1>2. ASSUME NEW d \in Calls PROVE Call(d)'
  BY DEF Fails, Goto, IInv, TypeOK, Call, EntryOf, Curr
<1>3. KnownIsOnLedger'
  BY DEF Fails, IInv, KnownIsOnLedger
<1> QED
  BY <1>1, <1>2, <1>3, LedgerUnchanged DEF Fails, IInv

\* The result of an executed transaction is a list of the ledger.
LEMMA ReturnStep ==
  ASSUME IInv, NEW c \in Calls, ReturnResult(c)
  PROVE  IInv'
<1>1. req[c] \in Request /\ txn[c] = "executed"
  BY DEF ReturnResult, IInv, Call
<1>2. TypeOK'
  BY <1>1 DEF ReturnResult, Goto, IInv, TypeOK, Curr, Request, Lists
<1>3. ASSUME NEW d \in Calls PROVE Call(d)'
  BY <1>1 DEF ReturnResult, Goto, IInv, TypeOK, Call, EntryOf, Curr
<1>4. KnownIsOnLedger'
  <2>1. \E i \in 1..Len(ledger) : ledger[i].accum = Curr(c)
    BY <1>1 DEF IInv, Executed
  <2> QED
    BY <2>1 DEF ReturnResult, IInv, KnownIsOnLedger
<1> QED
  BY <1>2, <1>3, <1>4, LedgerUnchanged DEF ReturnResult, IInv

-----------------------------------------------------------------------------
(* Steps of the transactions                                               *)

\* An entry is made of the arguments and sent.
LEMMA SubmitStep ==
  ASSUME IInv, NEW c \in Calls, Submit(c)
  PROVE  IInv'
<1>1. /\ req[c] \in Request /\ req[c].kind # "get" /\ txn[c] = "none"
      /\ UNCHANGED <<ledger, known, req>>
  BY DEF Submit, IInv, Call
<1>2. EntryOf(c) \in Entry
  BY <1>1 DEF EntryOf, Entry, Request, Curr, Lists
<1>3. TypeOK'
  BY <1>1, <1>2 DEF Submit, Goto, IInv, TypeOK
<1>4. ASSUME NEW d \in Calls PROVE Call(d)' /\ Executed(d)'
  <2>1. CASE d = c
    BY <1>1, <2>1 DEF Submit, Goto, IInv, TypeOK, Call, Executed, EntryOf, Curr
  <2>2. CASE d # c
    <3>1. pc'[d] = pc[d] /\ txn'[d] = txn[d] /\ entry'[d] = entry[d]
      BY <2>2 DEF Submit, Goto, IInv, TypeOK
    <3> QED
      BY <1>1, <3>1 DEF IInv, Call, Executed, EntryOf, Curr
  <2> QED
    BY <2>1, <2>2
<1>5. Exclusive'
  BY <1>1 DEF Submit, IInv, TypeOK, Exclusive
<1>6. UpToLast' /\ NothingIsUndone' /\ AccumulatorFits' /\ KnownIsOnLedger'
  BY <1>1 DEF IInv, UpToLast, NothingIsUndone, AccumulatorFits, KnownIsOnLedger
<1> QED
  BY <1>3, <1>4, <1>5, <1>6 DEF IInv

\* A dropped entry changes no list.
LEMMA DropStep ==
  ASSUME IInv, NEW c \in Calls, LedgerDrops(c)
  PROVE  IInv'
<1>1. TypeOK'
  BY DEF LedgerDrops, IInv, TypeOK
<1>2. ASSUME NEW d \in Calls PROVE Call(d)' /\ Executed(d)'
  <2>1. CASE d = c
    BY <2>1 DEF LedgerDrops, IInv, TypeOK, Call, Executed, EntryOf, Curr
  <2>2. CASE d # c
    <3>1. txn'[d] = txn[d]
      BY <2>2 DEF LedgerDrops, IInv, TypeOK
    <3> QED
      BY <3>1 DEF LedgerDrops, IInv, Call, Executed, EntryOf, Curr
  <2> QED
    BY <2>1, <2>2
<1>3. Exclusive'
  BY DEF LedgerDrops, IInv, TypeOK, Exclusive
<1>4. UpToLast' /\ NothingIsUndone' /\ AccumulatorFits' /\ KnownIsOnLedger'
  BY DEF LedgerDrops, IInv, UpToLast, NothingIsUndone, AccumulatorFits,
         KnownIsOnLedger
<1> QED
  BY <1>1, <1>2, <1>3, <1>4 DEF IInv

\* An executed entry takes the last list to one that contains it.
LEMMA ExecuteStep ==
  ASSUME IInv, NEW c \in Calls, LedgerExecutes(c)
  PROVE  IInv'
<1> DEFINE n == Len(ledger)
           new == [accum   |-> Curr(c),
                   revoked |-> RevokedSoFar \cup req[c].batch]
<1>1. /\ req[c] \in Request /\ req[c].kind # "get" /\ entry[c] = EntryOf(c)
      /\ Batched(req[c])
      /\ UNCHANGED <<known, pc, req, entry>>
  BY NoneAssumption DEF LedgerExecutes, IInv, Call, NoneAssumption
<1>2. ledger' = Append(ledger, new) /\ new \in LedgerList
  <2>1. RevokedSoFar \in Lists
    <3>1. CASE ledger = << >>
      BY <3>1 DEF RevokedSoFar, Lists
    <3>2. CASE ledger # << >>
      <4>1. ledger[Len(ledger)] \in LedgerList
        BY <3>2 DEF IInv, TypeOK
      <4> QED
        BY <3>2, <4>1 DEF RevokedSoFar, LedgerList
    <3> QED
      BY <3>1, <3>2
  <2>2. new \in LedgerList
    BY <1>1, <2>1 DEF LedgerList, Lists, Curr, Request
  <2> QED
    BY <1>1, <2>2 DEF LedgerExecutes, EntryOf
<1>3. /\ n \in Nat /\ Len(ledger') = n + 1
      /\ \A i \in 1..n : ledger'[i] = ledger[i]
      /\ ledger'[n + 1] = new
      /\ ledger' \in Seq(LedgerList)
  BY <1>2 DEF IInv, TypeOK
<1>4. /\ req[c].kind = "register" => n = 0
      /\ req[c].kind = "update" => n > 0 /\ ledger[n].accum = req[c].prev
  BY <1>1, <1>3 DEF LedgerExecutes, Fits, EntryOf, IInv, TypeOK
<1>5. /\ \A i \in 1..n : ledger[i].accum \subseteq Curr(c)
      /\ new.accum = new.revoked
  <2>1. CASE req[c].kind = "register"
    BY <1>1, <1>4, <2>1 DEF Batched, RevokedSoFar, Curr, IInv, TypeOK
  <2>2. CASE req[c].kind = "update"
    <3>1. ledger # << >> /\ ledger[n].revoked = req[c].prev
      BY <1>3, <1>4, <2>2 DEF IInv, AccumulatorFits
    <3>2. \A i \in 1..n : ledger[i].accum \subseteq req[c].prev
      BY <1>4, <2>2 DEF IInv, UpToLast
    <3> QED
      BY <3>1, <3>2 DEF RevokedSoFar, Curr
  <2> QED
    BY <1>1, <2>1, <2>2 DEF Request
<1>6. TypeOK'
  BY <1>1, <1>3 DEF LedgerExecutes, IInv, TypeOK
<1>7. ASSUME NEW d \in Calls PROVE Call(d)' /\ Executed(d)'
  <2>1. CASE d = c
    <3>1. txn'[c] = "executed" /\ txn[c] = "sent"
      BY DEF LedgerExecutes, IInv, TypeOK
    <3>2. Call(c)'
      BY <1>1, <3>1 DEF IInv, Call, EntryOf, Curr
    <3>3. ledger' # << >> /\ ledger'[n + 1].accum = Curr(c)' /\ n + 1 \in 1..Len(ledger')
      BY <1>1, <1>3 DEF Curr
    <3>4. Executed(c)'
      BY <1>3, <3>3 DEF Executed
    <3> QED
      BY <2>1, <3>2, <3>4
  <2>2. CASE d # c
    <3>1. txn'[d] = txn[d]
      BY <2>2 DEF LedgerExecutes, IInv, TypeOK
    <3>2. Call(d)'
      BY <1>1, <3>1 DEF IInv, Call, EntryOf, Curr
    <3>3. ASSUME txn[d] = "executed" PROVE Executed(d)'
      <4>1. /\ ledger # << >> /\ Curr(d)' = Curr(d)
            /\ Curr(d) \subseteq ledger[n].accum
            /\ \E i \in 1..n : ledger[i].accum = Curr(d)
        BY <1>1, <3>3 DEF IInv, Executed, Curr
      <4>2. Curr(d) \subseteq Curr(c) /\ ledger' # << >>
        BY <1>3, <1>5, <4>1
      <4> QED
        BY <1>3, <4>1, <4>2 DEF Executed
    <3> QED
      BY <3>1, <3>2, <3>3 DEF Executed
  <2> QED
    BY <2>1, <2>2
<1>8. Exclusive'
  <2>1. ASSUME NEW d \in Calls, d # c, txn[d] = "executed",
               req[d].kind = "update", req[c].kind = "update",
               req[d].prev = req[c].prev
        PROVE  FALSE
    <3>1. Curr(d) \subseteq req[d].prev
      BY <1>4, <2>1 DEF IInv, Executed
    <3>2. Batched(req[d])
      BY <2>1, NoneAssumption DEF IInv, Call, NoneAssumption
    <3> QED
      BY <2>1, <3>1, <3>2 DEF Curr, Batched
  <2>2. \A d \in Calls : d # c => txn'[d] = txn[d]
    BY DEF LedgerExecutes, IInv, TypeOK
  <2> QED
    BY <1>1, <2>1, <2>2 DEF IInv, Exclusive
<1>9. UpToLast' /\ NothingIsUndone' /\ AccumulatorFits'
  <2>1. UpToLast'
    BY <1>3, <1>5 DEF UpToLast
  <2>2. NothingIsUndone'
    BY <1>3, <1>5 DEF IInv, NothingIsUndone
  <2>3. ASSUME NEW i \in 1..(n + 1)
        PROVE  ledger'[i].accum = ledger'[i].revoked
    <3>1. CASE i = n + 1
      BY <1>3, <1>5, <3>1
    <3>2. CASE i # n + 1
      <4>1. i \in 1..n
        BY <1>3, <3>2
      <4> QED
        BY <1>3, <4>1 DEF IInv, AccumulatorFits
    <3> QED
      BY <3>1, <3>2
  <2>4. AccumulatorFits'
    BY <1>3, <2>3 DEF AccumulatorFits
  <2> QED
    BY <2>1, <2>2, <2>4
<1>10. KnownIsOnLedger'
  BY <1>1, <1>3 DEF IInv, KnownIsOnLedger
<1> QED
  BY <1>6, <1>7, <1>8, <1>9, <1>10 DEF IInv

-----------------------------------------------------------------------------
(* The invariant holds                                                     *)

LEMMA InitIInv == Init => IInv
<1> SUFFICES ASSUME Init PROVE IInv
  OBVIOUS
<1>1. TypeOK
  BY DEF Init, TypeOK
<1>2. \A c \in Calls : Call(c) /\ Executed(c)
  BY DEF Init, Call, Executed
<1>3. Exclusive /\ KnownIsOnLedger
  BY DEF Init, Exclusive, KnownIsOnLedger
<1>4. UpToLast /\ NothingIsUndone /\ AccumulatorFits
  BY DEF Init, UpToLast, NothingIsUndone, AccumulatorFits
<1> QED
  BY <1>1, <1>2, <1>3, <1>4 DEF IInv

LEMMA NextIInv == IInv /\ [Next]_vars => IInv'
<1> SUFFICES ASSUME IInv, [Next]_vars PROVE IInv'
  OBVIOUS
<1>1. CASE UNCHANGED vars
  BY <1>1 DEF vars, IInv, TypeOK, Call, Executed, Curr, EntryOf, Exclusive,
    UpToLast, NothingIsUndone, AccumulatorFits, KnownIsOnLedger
<1>2. ASSUME NEW c \in Calls, RegisterRevocationList(c) PROVE IInv'
  BY <1>2, RegisterStep
<1>3. ASSUME NEW c \in Calls, UpdateRevocationList(c) PROVE IInv'
  BY <1>3, UpdateStep
<1>4. ASSUME NEW c \in Calls, GetRevocationList(c) PROVE IInv'
  BY <1>4, GetStep
<1>5. ASSUME NEW c \in Calls, Submit(c) PROVE IInv'
  BY <1>5, SubmitStep
<1>6. ASSUME NEW c \in Calls, LedgerExecutes(c) PROVE IInv'
  BY <1>6, ExecuteStep
<1>7. ASSUME NEW c \in Calls, LedgerDrops(c) PROVE IInv'
  BY <1>7, DropStep
<1>8. ASSUME NEW c \in Calls, ReturnResult(c) PROVE IInv'
  BY <1>8, ReturnStep
<1>9. ASSUME NEW c \in Calls, Fails(c) PROVE IInv'
  BY <1>9, FailsStep
<1> QED
  BY <1>1, <1>2, <1>3, <1>4, <1>5, <1>6, <1>7, <1>8, <1>9 DEF Next

\* The ledger, the lists that are known and the calls always have their types.
THEOREM ListsTypeCorrect == Spec => []TypeOK
<1>1. IInv => TypeOK
  BY DEF IInv
<1> QED
  BY <1>1, InitIInv, NextIInv, PTL DEF Spec

\* However many issuers update from however old lists, no revocation is taken
\* back (update_revocation_list).
THEOREM NoUndoing == Spec => []NothingIsUndone
<1>1. IInv => NothingIsUndone
  BY DEF IInv
<1> QED
  BY <1>1, InitIInv, NextIInv, PTL DEF Spec

\* The accumulator on the ledger always revokes the indices the entries name.
THEOREM Fitting == Spec => []AccumulatorFits
<1>1. IInv => AccumulatorFits
  BY DEF IInv
<1> QED
  BY <1>1, InitIInv, NextIInv, PTL DEF Spec

\* A finished revocation is and remains on the ledger.
THEOREM Finished == Spec => []FinishedIsRevoked
<1>1. IInv => FinishedIsRevoked
  <2> SUFFICES ASSUME IInv, NEW c \in Calls, pc[c] = "ok", req[c].kind = "update"
               PROVE  /\ ledger # << >>
                      /\ req[c].batch \subseteq ledger[Len(ledger)].revoked
    BY DEF FinishedIsRevoked
  <2>1. /\ ledger # << >>
        /\ req[c].batch \subseteq ledger[Len(ledger)].accum
    BY DEF IInv, Call, Executed, Curr
  <2>2. ledger[Len(ledger)].accum = ledger[Len(ledger)].revoked
    BY <2>1 DEF IInv, TypeOK, AccumulatorFits
  <2> QED
    BY <2>1, <2>2
<1> QED
  BY <1>1, InitIInv, NextIInv, PTL DEF Spec

\* Two updates of one list never both end as finished.
THEOREM OnlyOne == Spec => []OneUpdateOfAList
<1>1. IInv => OneUpdateOfAList
  <2>1. ASSUME IInv, NEW c \in Calls, pc[c] = "ok", req[c].kind = "update"
        PROVE  txn[c] = "executed"
    BY <2>1 DEF IInv, Call
  <2> QED
    BY <2>1 DEF IInv, Exclusive, OneUpdateOfAList
<1> QED
  BY <1>1, InitIInv, NextIInv, PTL DEF Spec

\* Every list a caller goes on from is one the ledger has had.
THEOREM KnownLists == Spec => []KnownIsOnLedger
<1>1. IInv => KnownIsOnLedger
  BY DEF IInv
<1> QED
  BY <1>1, InitIInv, NextIInv, PTL DEF Spec

-----------------------------------------------------------------------------
(* The refinement                                                          *)

\* An executed update took the list it starts from to the one it makes.
Applied(c) ==
  txn[c] = "executed" /\ req[c].kind = "update" =>
    \E i \in 1..(Len(ledger) - 1) :
      ledger[i].accum = req[c].prev /\ ledger[i + 1].accum = Curr(c)

LEMMA InitApplied == Init => \A c \in Calls : Applied(c)
BY DEF Init, Applied

\* What the ledger appends, and to what.
LEMMA Executes ==
  ASSUME IInv, NEW c \in Calls, LedgerExecutes(c)
  PROVE  /\ req[c] \in Request /\ Batched(req[c]) /\ req[c].kind # "get"
         /\ Len(ledger) \in Nat /\ Len(ledger') = Len(ledger) + 1
         /\ \A i \in 1..Len(ledger) : ledger'[i] = ledger[i]
         /\ ledger'[Len(ledger) + 1].accum = Curr(c)
         /\ req[c].kind = "register" => ledger = << >> /\ Len(ledger) = 0
         /\ req[c].kind = "update" =>
              ledger # << >> /\ Len(ledger) > 0 /\ ledger[Len(ledger)].accum = req[c].prev
<1>1. req[c] \in Request /\ Batched(req[c]) /\ req[c].kind # "get" /\ entry[c] = EntryOf(c)
  BY NoneAssumption DEF LedgerExecutes, IInv, Call, NoneAssumption
<1>2. PICK new : new.accum = Curr(c) /\ ledger' = Append(ledger, new)
  BY <1>1 DEF LedgerExecutes, EntryOf
<1>3. /\ Len(ledger) \in Nat /\ Len(ledger') = Len(ledger) + 1
      /\ \A i \in 1..Len(ledger) : ledger'[i] = ledger[i]
      /\ ledger'[Len(ledger) + 1] = new
  BY <1>2 DEF IInv, TypeOK
<1>4. ledger # << >> <=> Len(ledger) > 0
  BY DEF IInv, TypeOK
<1> QED
  BY <1>1, <1>2, <1>3, <1>4 DEF LedgerExecutes, Fits, EntryOf

LEMMA NextApplied ==
  ASSUME IInv, \A c \in Calls : Applied(c), [Next]_vars, NEW d \in Calls
  PROVE  Applied(d)'
<1>1. ASSUME NEW c \in Calls, LedgerExecutes(c) PROVE Applied(d)'
  <2>1. UNCHANGED req /\ txn' = [txn EXCEPT ![c] = "executed"] /\ Curr(d)' = Curr(d)
    BY <1>1 DEF LedgerExecutes, Curr
  <2>2. /\ Len(ledger) \in Nat /\ Len(ledger') = Len(ledger) + 1
        /\ \A i \in 1..Len(ledger) : ledger'[i] = ledger[i]
        /\ ledger'[Len(ledger) + 1].accum = Curr(c)
        /\ req[c].kind = "update" =>
             Len(ledger) > 0 /\ ledger[Len(ledger)].accum = req[c].prev
    BY <1>1, Executes
  <2>3. CASE d = c
    <3> SUFFICES ASSUME req[c].kind = "update"
                 PROVE  \E i \in 1..(Len(ledger') - 1) :
                          ledger'[i].accum = req[c].prev /\ ledger'[i + 1].accum = Curr(c)
      BY <2>1, <2>3 DEF Applied
    <3>1. Len(ledger) \in 1..(Len(ledger') - 1)
      BY <2>2
    <3>2. ledger'[Len(ledger)].accum = req[c].prev
      BY <2>2
    <3> QED
      BY <2>2, <3>1, <3>2
  <2>4. CASE d # c
    <3> SUFFICES ASSUME txn[d] = "executed", req[d].kind = "update"
                 PROVE  \E i \in 1..(Len(ledger') - 1) :
                          ledger'[i].accum = req[d].prev /\ ledger'[i + 1].accum = Curr(d)
      BY <2>1, <2>4 DEF Applied, IInv, TypeOK
    <3>1. PICK i \in 1..(Len(ledger) - 1) :
            ledger[i].accum = req[d].prev /\ ledger[i + 1].accum = Curr(d)
      BY DEF Applied
    <3>2. i \in 1..(Len(ledger') - 1) /\ i \in 1..Len(ledger) /\ i + 1 \in 1..Len(ledger)
      BY <2>2
    <3> QED
      BY <2>2, <3>1, <3>2
  <2> QED
    BY <2>3, <2>4
<1>2. CASE UNCHANGED ledger
  <2>1. txn[d] = "executed" => req'[d] = req[d] /\ Curr(d)' = Curr(d)
    BY DEF Next, RegisterRevocationList, UpdateRevocationList, GetRevocationList,
           Submit, LedgerExecutes, LedgerDrops, ReturnResult, Fails, Arguments,
           vars, IInv, TypeOK, Call, Curr
  <2>2. txn'[d] = "executed" => txn[d] = "executed"
    <3>1. ASSUME NEW c \in Calls, LedgerExecutes(c) PROVE FALSE
      BY <1>2, <3>1, Executes
    <3> QED
      BY <3>1
      DEF Next, RegisterRevocationList, UpdateRevocationList, GetRevocationList,
          Submit, LedgerDrops, ReturnResult, Fails, vars, IInv, TypeOK
  <2> QED
    BY <1>2, <2>1, <2>2 DEF Applied
<1> QED
  BY <1>1, <1>2
  DEF Next, RegisterRevocationList, UpdateRevocationList, GetRevocationList, Submit,
      LedgerDrops, ReturnResult, Fails, vars

\* The lists of the ledger, as the register has them.
LEMMA HistoryIs ==
  ASSUME IInv
  PROVE  /\ Len(ledger) \in Nat /\ History \in Seq(Lists) /\ Len(History) = Len(ledger)
         /\ \A i \in 1..Len(ledger) : History[i] = ledger[i].accum
         /\ History = << >> <=> ledger = << >>
<1>1. Len(ledger) \in Nat /\ \A i \in 1..Len(ledger) : ledger[i] \in LedgerList
  BY DEF IInv, TypeOK
<1>2. \A i \in 1..Len(ledger) : ledger[i].accum \in Lists
  BY <1>1 DEF LedgerList
<1>3. History = [i \in 1..Len(ledger) |-> ledger[i].accum]
  BY DEF History
<1>4. History \in Seq(Lists) /\ Len(History) = Len(ledger)
  BY <1>1, <1>2, <1>3
<1>5. \A i \in 1..Len(ledger) : History[i] = ledger[i].accum
  BY <1>3
<1>6. History = << >> <=> Len(History) = 0
  BY <1>4
<1>7. ledger = << >> <=> Len(ledger) = 0
  <2>1. ledger \in Seq(LedgerList)
    BY DEF IInv, TypeOK
  <2> QED
    BY <2>1
<1> QED
  BY <1>1, <1>4, <1>5, <1>6, <1>7

\* The updates that were answered, as the register has them.
LEMMA ReportedStays ==
  ASSUME IInv, NEW c \in Calls,
         \A d \in Calls \ {c} : pc'[d] = pc[d] /\ req'[d] = req[d],
         ~(pc[c] = "ok" /\ req[c].kind = "update"),
         ~(pc'[c] = "ok" /\ req'[c].kind = "update")
  PROVE  Reported' = Reported
<1>1. \A d \in Calls : (pc'[d] = "ok" /\ req'[d].kind = "update") <=>
                       (pc[d] = "ok" /\ req[d].kind = "update")
  OBVIOUS
<1>2. \A d \in Calls : pc[d] = "ok" /\ req[d].kind = "update" => req'[d] = req[d]
  OBVIOUS
<1> QED
  BY <1>1, <1>2 DEF Reported, Curr

mapped == <<History, known, Reported>>

LEMMA CreateOrRevoke ==
  ASSUME IInv, NEW c \in Calls, LedgerExecutes(c), IInv'
  PROVE  Register!Next
<1>1. /\ req[c] \in Request /\ Batched(req[c]) /\ req[c].kind # "get"
      /\ Len(ledger) \in Nat /\ Len(ledger') = Len(ledger) + 1
      /\ \A i \in 1..Len(ledger) : ledger'[i] = ledger[i]
      /\ ledger'[Len(ledger) + 1].accum = Curr(c)
      /\ req[c].kind = "register" => ledger = << >> /\ Len(ledger) = 0
      /\ req[c].kind = "update" =>
           ledger # << >> /\ Len(ledger) > 0 /\ ledger[Len(ledger)].accum = req[c].prev
  BY Executes
<1>2. UNCHANGED <<known, Reported>>
  BY DEF LedgerExecutes, Reported, Curr
<1>3. /\ History \in Seq(Lists) /\ Len(History) = Len(ledger)
      /\ \A i \in 1..Len(ledger) : History[i] = ledger[i].accum
      /\ History = << >> <=> ledger = << >>
  BY HistoryIs
<1>4. Curr(c) \in Lists
  BY <1>1 DEF Curr, Lists, Request
<1>5. History' = Append(History, Curr(c))
  <2>1. /\ History' \in Seq(Lists) /\ Len(History') = Len(ledger) + 1
        /\ \A i \in 1..(Len(ledger) + 1) : History'[i] = ledger'[i].accum
    <3>1. ledger' \in Seq(LedgerList)
      BY DEF IInv, TypeOK
    <3>2. \A i \in 1..Len(ledger') : ledger'[i].accum \in Lists
      <4>1. \A i \in 1..Len(ledger') : ledger'[i] \in LedgerList
        BY <3>1
      <4> QED
        BY <4>1 DEF LedgerList
    <3>3. History' = [i \in 1..(Len(ledger) + 1) |-> ledger'[i].accum]
      BY <1>1 DEF History
    <3> QED
      BY <1>1, <3>2, <3>3
  <2>2. /\ Append(History, Curr(c)) \in Seq(Lists)
        /\ Len(Append(History, Curr(c))) = Len(ledger) + 1
        /\ \A i \in 1..Len(ledger) : Append(History, Curr(c))[i] = History[i]
        /\ Append(History, Curr(c))[Len(ledger) + 1] = Curr(c)
    BY <1>1, <1>3, <1>4, AppendProperties
  <2>3. \A i \in 1..(Len(ledger) + 1) : i \in 1..Len(ledger) \/ i = Len(ledger) + 1
    BY <1>1
  <2>4. \A i \in 1..(Len(ledger) + 1) : History'[i] = Append(History, Curr(c))[i]
    BY <1>1, <1>3, <2>1, <2>2, <2>3
  <2> QED
    BY <2>1, <2>2, <2>4, SeqEqual
<1>6. CASE req[c].kind = "register"
  <2>1. Curr(c) = {} /\ History = << >>
    BY <1>1, <1>3, <1>6 DEF Batched, Curr
  <2>2. History' = <<{}>>
    BY <1>5, <2>1
  <2>3. Register!Create
    BY <1>2, <2>1, <2>2 DEF Register!Create
  <2> QED
    BY <2>3 DEF Register!Next
<1>7. CASE req[c].kind = "update"
  <2>1. /\ req[c].batch \in SUBSET Indices /\ req[c].batch # {}
        /\ req[c].batch \cap req[c].prev = {}
    BY <1>1, <1>7 DEF Batched, Request, Lists
  <2>2. History # << >> /\ History[Len(History)] = req[c].prev
    BY <1>1, <1>3, <1>7
  <2>3. Register!Revoke(req[c].batch)
    BY <1>2, <1>5, <2>1, <2>2 DEF Register!Revoke, Curr
  <2> QED
    BY <2>1, <2>3 DEF Register!Next
<1> QED
  BY <1>1, <1>6, <1>7 DEF Request

LEMMA ReportOrGive ==
  ASSUME IInv, \A c \in Calls : Applied(c), NEW c \in Calls, ReturnResult(c)
  PROVE  Register!Next
<1>1. /\ pc[c] = "sent" /\ txn[c] = "executed" /\ known' = known \cup {Curr(c)}
      /\ pc' = [pc EXCEPT ![c] = "ok"] /\ UNCHANGED <<ledger, req, entry, txn>>
  BY DEF ReturnResult, Goto
<1>2. /\ Len(ledger) \in Nat /\ Len(History) = Len(ledger)
      /\ \A i \in 1..Len(ledger) : History[i] = ledger[i].accum
  BY HistoryIs
<1>3. History' = History /\ \A d \in Calls : Curr(d)' = Curr(d)
  BY <1>1 DEF History, Curr
<1>4. \A d \in Calls : pc'[d] = IF d = c THEN "ok" ELSE pc[d]
  BY <1>1 DEF IInv, TypeOK
<1>5. CASE req[c].kind # "update"
  <2>1. Reported' = Reported
    BY <1>1, <1>4, <1>5, ReportedStays
  <2>2. PICK i \in 1..Len(ledger) : ledger[i].accum = Curr(c)
    BY <1>1 DEF IInv, Executed
  <2>3. Register!Give(i)
    BY <1>1, <1>2, <1>3, <2>1, <2>2 DEF Register!Give
  <2> QED
    BY <1>2, <2>3 DEF Register!Next
<1>6. CASE req[c].kind = "update"
  <2>1. PICK i \in 1..(Len(ledger) - 1) :
          ledger[i].accum = req[c].prev /\ ledger[i + 1].accum = Curr(c)
    BY <1>1, <1>6 DEF Applied
  <2>2. History[i] = req[c].prev /\ History[i + 1] = Curr(c)
    <3>1. i \in 1..Len(ledger) /\ i + 1 \in 1..Len(ledger)
      BY <1>2
    <3> QED
      BY <1>2, <2>1, <3>1
  <2> DEFINE new == [caller |-> c, prev |-> req[c].prev, curr |-> Curr(c)]
  <2>3. Reported' = Reported \cup {new}
    <3>1. \A d \in Calls : (pc'[d] = "ok" /\ req'[d].kind = "update") <=>
                           (d = c \/ (pc[d] = "ok" /\ req[d].kind = "update"))
      BY <1>1, <1>4, <1>6
    <3>2. Reported' = {[caller |-> d, prev |-> req[d].prev, curr |-> Curr(d)] :
                         d \in {e \in Calls : e = c \/ (pc[e] = "ok" /\ req[e].kind = "update")}}
      BY <1>1, <1>3, <3>1 DEF Reported
    <3> QED
      BY <3>2 DEF Reported
  <2>4. ASSUME NEW u \in Reported PROVE u.caller # c /\ u.prev # req[c].prev
    <3>1. PICK d \in Calls : /\ pc[d] = "ok" /\ req[d].kind = "update"
                             /\ u = [caller |-> d, prev |-> req[d].prev, curr |-> Curr(d)]
      BY <2>4 DEF Reported
    <3>2. txn[d] = "executed"
      BY <3>1 DEF IInv, Call
    <3>3. d # c
      BY <1>1, <3>1
    <3>4. req[d].prev # req[c].prev
      BY <1>1, <1>6, <3>1, <3>2, <3>3 DEF IInv, Exclusive
    <3> QED
      BY <3>1, <3>3, <3>4
  <2>5. Register!Report(c, i)
    BY <1>1, <1>3, <2>2, <2>3, <2>4 DEF Register!Report
  <2> QED
    BY <1>2, <2>5 DEF Register!Next
<1> QED
  BY <1>5, <1>6

LEMMA FetchGives ==
  ASSUME IInv, NEW c \in Calls, GetRevocationList(c)
  PROVE  Register!Next
<1>1. PICK i \in 1..Len(ledger) : known' = known \cup {ledger[i].revoked}
  BY DEF GetRevocationList
<1>2. /\ Len(History) = Len(ledger) /\ History[i] = ledger[i].accum
      /\ ledger[i].accum = ledger[i].revoked
  BY HistoryIs DEF IInv, AccumulatorFits
<1>3. History' = History
  BY DEF GetRevocationList, History
<1>4. Reported' = Reported
  <2>1. /\ pc[c] = "idle" /\ req'[c].kind = "get"
        /\ \A d \in Calls \ {c} : pc'[d] = pc[d] /\ req'[d] = req[d]
    BY DEF GetRevocationList, Goto, Arguments, IInv, TypeOK
  <2> QED
    BY <2>1, ReportedStays
<1>5. Register!Give(i)
  BY <1>1, <1>2, <1>3, <1>4 DEF Register!Give
<1> QED
  BY <1>2, <1>5 DEF Register!Next

\* The other steps are not seen by the callers of the register.
LEMMA Unseen ==
  ASSUME IInv, NEW c \in Calls,
         \/ RegisterRevocationList(c)
         \/ UpdateRevocationList(c)
         \/ Submit(c)
         \/ LedgerDrops(c)
         \/ Fails(c)
  PROVE  UNCHANGED mapped
<1>1. UNCHANGED <<ledger, known>>
  BY DEF RegisterRevocationList, UpdateRevocationList, Submit, LedgerDrops, Fails
<1>2. /\ \A d \in Calls \ {c} : pc'[d] = pc[d] /\ req'[d] = req[d]
      /\ (pc[c] # "ok" /\ pc'[c] # "ok") \/ (pc'[c] = pc[c] /\ req'[c] = req[c])
  BY DEF RegisterRevocationList, UpdateRevocationList, Submit, LedgerDrops, Fails,
         Goto, Arguments, IInv, TypeOK
<1>3. Reported' = Reported
  <2>1. CASE pc[c] # "ok" /\ pc'[c] # "ok"
    BY <1>2, <2>1, ReportedStays
  <2>2. CASE pc'[c] = pc[c] /\ req'[c] = req[c]
    BY <1>2, <2>2 DEF Reported, Curr
  <2> QED
    BY <1>2, <2>1, <2>2
<1> QED
  BY <1>1, <1>3 DEF mapped, History

\* Calls without a lock or a list of their own, whose conflicts show only when
\* the ledger has their entries, give their callers a register whose lists grow
\* one after another and whose changes are reported to at most one of them.
THEOREM ImplementsRegister == Spec => RegisterSpec
<1>1. Init => IInv /\ \A c \in Calls : Applied(c)
  BY InitIInv, InitApplied
<1>2. IInv /\ (\A c \in Calls : Applied(c)) /\ [Next]_vars
        => IInv' /\ (\A c \in Calls : Applied(c))'
  BY NextIInv, NextApplied
<1>3. Init => Register!Init
  <2> SUFFICES ASSUME Init PROVE Register!Init
    OBVIOUS
  <2>1. History = << >> /\ known = {}
    BY DEF Init, History
  <2>2. Reported = {}
    BY DEF Init, Reported
  <2> QED
    BY <2>1, <2>2 DEF Register!Init
<1>4. IInv /\ (\A c \in Calls : Applied(c)) /\ [Next]_vars => [Register!Next]_mapped
  <2> SUFFICES ASSUME IInv, \A c \in Calls : Applied(c), [Next]_vars
               PROVE  [Register!Next]_mapped
    OBVIOUS
  <2>1. CASE UNCHANGED vars
    BY <2>1 DEF vars, mapped, History, Reported, Curr
  <2>2. ASSUME NEW c \in Calls, LedgerExecutes(c) PROVE Register!Next
    BY <2>2, CreateOrRevoke, NextIInv DEF Next
  <2> QED
    BY <2>1, <2>2, ReportOrGive, FetchGives, Unseen DEF Next
<1> QED
  BY <1>1, <1>2, <1>3, <1>4, PTL DEF Spec, RegisterSpec, Register!Spec, mapped

=============================================================================
