---------------------------- MODULE DidRegister ----------------------------
(***************************************************************************)
(* What the wallet and the ledgers of did:indy DIDs promise, whoever writes *)
(* to them: nothing is taken back but the document shown for a DID the     *)
(* wallet had before, and things come in an order.  A key is named for a   *)
(* DID before its nym is published, a new nym is published before its DID  *)
(* is stored, and an old nym's DID is stored before its document is shown. *)
(***************************************************************************)

CONSTANTS
  Keys,        \* the wallet's keys
  Namespaces,  \* the ledgers
  Nyms,        \* what DIDs are of
  OldNyms,     \* those that the wallet had before
  None         \* no ledger entry, no document, no assertion method

VARIABLES
  named,   \* the wallet's keys that have a kid, with the kid
  stored,  \* the DIDs stored in the wallet, with their verkeys
  ledger   \* ledger[n][x]: what ledger n has of nym x

vars == <<named, stored, ledger>>

Dids == Namespaces \X Nyms
Docs == [did: Dids, assert: Keys \cup {None}]

Init ==
  /\ named = {}
  /\ stored = {}
  /\ \A n \in Namespaces, x \in Nyms : ledger[n][x] # None =>
       x \in OldNyms /\ ledger[n][x].doc = None /\ ledger[n][x].attrib = None

\* A DID has one key to sign with; it may get assertion keys again and again.
Name(key, did, use) ==
  /\ use = "verkey" =>
       did[2] \notin OldNyms /\ \A p \in named : p[2] = <<did, use>> => p[1] = key
  /\ named' = named \cup {<<key, <<did, use>>>>}
  /\ UNCHANGED <<stored, ledger>>

\* The assertion method of a document, if any, is a key named for it.
Backed(doc) == doc.assert # None => <<doc.assert, <<doc.did, "assert">>>> \in named

\* A new nym is published once, with the key named for its DID.
Publish(key, doc) ==
  LET n == doc.did[1]
      x == doc.did[2]
  IN  /\ x \notin OldNyms
      /\ ledger[n][x] = None
      /\ <<key, <<doc.did, "verkey">>>> \in named
      /\ Backed(doc)
      /\ ledger' = [ledger EXCEPT ![n][x] =
                      [verkey |-> key, doc |-> doc, attrib |-> None]]
      /\ UNCHANGED <<named, stored>>

\* A DID is stored once; that of a new nym, as it was published.
Store(did, key) ==
  /\ \A d \in stored : d.did # did
  /\ did[2] \notin OldNyms =>
       ledger[did[1]][did[2]] # None /\ ledger[did[1]][did[2]].verkey = key
  /\ stored' = stored \cup {[did |-> did, verkey |-> key]}
  /\ UNCHANGED <<named, ledger>>

\* The document of a stored DID is shown with its old nym, the attribute after
\* the document.  Its assertion method is the key the DID is stored with.
Show(n, doc) ==
  LET x == doc.did[2]
  IN  /\ x \in OldNyms
      /\ ledger[n][x] # None
      /\ Backed(doc)
      /\ \E d \in stored : d.did = doc.did /\ doc.assert \in {None, d.verkey}
      /\ \/ ledger' = [ledger EXCEPT ![n][x].doc = doc]
         \/ /\ ledger[n][x].doc # None
            /\ ledger' = [ledger EXCEPT ![n][x].attrib = doc]
      /\ UNCHANGED <<named, stored>>

Next ==
  \/ \E key \in Keys, did \in Dids, use \in {"verkey", "assert"} : Name(key, did, use)
  \/ \E key \in Keys, doc \in Docs : Publish(key, doc)
  \/ \E key \in Keys, did \in Dids : Store(did, key)
  \/ \E n \in Namespaces, doc \in Docs : Show(n, doc)

Spec == Init /\ [][Next]_vars

=============================================================================
