------------------------------- MODULE DidWeb -------------------------------
(***************************************************************************)
(* Creation of did:web DIDs (acapy_did_web) and the server that publishes  *)
(* their documents (did_web_server).  A request makes a key, puts the      *)
(* document on the server and stores the DID, in three awaited calls on    *)
(* two parties that fail on their own.  The server keeps its documents in  *)
(* memory, replaces them without asking, and may get a document after the  *)
(* request that sent it has failed.                                        *)
(***************************************************************************)
EXTENDS Naturals, Sequences

CONSTANTS
  Requests,  \* calls of POST /did/web/create, each handled once
  Urls,      \* the url arguments, as urlparse splits them: [host, path]
  Names,     \* the name arguments
  Base,      \* the server's host
  Pieces,    \* what texts are made of
  OneChar,   \* pieces that are a single character
  None

\* A path, a name and a DID (after "did:web:") is a text, cut into pieces: "/",
\* ":", the names that url_to_did_web looks for, and what stands between them.
\* "/a/did.jsonld" is <<"/", "a", "/", "did.json", "ld">>.  A piece in between
\* holds none of the others, and no two of them make one where they are joined,
\* in the text or in what is left of it.
\* A host is one piece, its port included, however its ":" is written.
Slash == "/"
Colon == ":"
WellKnown == ".well-known"
Json == "did.json"

VARIABLES
  kids,  \* the wallet's keys: pairs of the request a key was made for and its kid
  dids,  \* the DIDs stored in the wallet
  docs,  \* docs[n]: the document the server has under name n
  pc,    \* pc[r]: the call the handler of r makes next or waits for
  req,   \* req[r]: the arguments of r
  put    \* put[r]: how far r's document is on its way to the server

vars == <<kids, dids, docs, pc, req, put>>

-----------------------------------------------------------------------------
(* From URLs to DIDs                                                       *)

\* word stands in text at its k-th piece.
Occurs(word, text, k) ==
  /\ k + Len(word) - 1 <= Len(text)
  /\ \A j \in 1..Len(word) : text[k + j - 1] = word[j]

Within(word, text, i) ==
  \E k \in 1..i : i < k + Len(word) /\ Occurs(word, text, k)

\* text.replace(word, ""), for a word of which no two places overlap.
Without(word, text) ==
  LET left[i \in 0..Len(text)] ==
        IF i = 0 THEN << >>
        ELSE IF Within(word, text, i) THEN left[i - 1]
        ELSE Append(left[i - 1], text[i])
  IN  left[Len(text)]

SlashJson == <<Slash, Json>>
WellKnownJson == <<WellKnown, Slash, Json>>

Cut(path) == Without(SlashJson, Without(WellKnownJson, path))

\* text.replace(a, b), for single characters.
Replaced(text, a, b) == [i \in 1..Len(text) |-> IF text[i] = a THEN b ELSE text[i]]

\* A slip: the path is left out only if it is empty.
DidOfAnyPath(url) == <<url.host>> \o Replaced(Cut(url.path), Slash, Colon)

\* url_to_did_web: a path of at most one character is left out.
DidOf(url) ==
  LET path == Cut(url.path)
  IN  IF path = << >> \/ (Len(path) = 1 /\ path[1] \in OneChar)
        THEN <<url.host>>
        ELSE <<url.host>> \o Replaced(path, Slash, Colon)

\* Where the did:web method has the document of a DID.
Location(did) ==
  IF \A i \in 1..Len(did) : did[i] # Colon
    THEN did \o <<Slash, WellKnown, Slash, Json>>
    ELSE Replaced(did, Colon, Slash) \o SlashJson

\* A slip: the name is not added to the server's address.
NameUrlWithoutName(n) == [host |-> Base, path |-> << >>]

\* f"{client.base_url}/{name}", for a name without a "?" or "#", which end a path.
NameUrl(n) == [host |-> Base, path |-> <<Slash>> \o n]

\* GET /{name}/did.json
ServedAt(n) == <<Base, Slash>> \o n \o SlashJson

-----------------------------------------------------------------------------
\* The DIDs that the arguments are turned into.
DidOfUrl == [u \in Urls |-> DidOf(u)]
DidOfName == [n \in Names |-> DidOf(NameUrl(n))]

Dids == {DidOfUrl[u] : u \in Urls} \cup {DidOfName[n] : n \in Names}

\* key: the request whose key the document's "key-0" is.
Docs == [did: Dids, key: Requests]

\* name is None where url is given: it is not looked at then.
Request == [url: Urls, name: {None}] \cup [url: {None}, name: Names]

\* An empty name is refused.
ASSUME TextAssumption ==
  /\ {Slash, Colon, WellKnown, Json} \subseteq Pieces
  /\ \A u \in Urls : u.path \in Seq(Pieces) /\ u.host \in Pieces \ {Slash, Colon}
  /\ Names \subseteq Seq(Pieces) \ {<< >>}
  /\ Base \in Pieces \ {Slash, Colon}
  /\ Slash \in OneChar

ASSUME NoneAssumption == None \notin Urls \cup Names \cup Docs \cup Request

Did(r) == IF req[r].url # None THEN DidOfUrl[req[r].url] ELSE DidOfName[req[r].name]

\* f"{did}#key-0"
Kid(did) == <<did, "key-0">>

Init ==
  /\ kids = {}
  /\ dids = {}
  /\ docs = [n \in Names |-> None]
  /\ pc = [r \in Requests |-> "idle"]
  /\ req = [r \in Requests |-> None]
  /\ put = [r \in Requests |-> "none"]

Goto(r, label) == pc' = [pc EXCEPT ![r] = label]

\* Neither url nor name.
Refuse(r) ==
  /\ pc[r] = "idle"
  /\ Goto(r, "e400")
  /\ UNCHANGED <<kids, dids, docs, req, put>>

Receive(r) ==
  /\ pc[r] = "idle"
  /\ \E a \in Request : req' = [req EXCEPT ![r] = a]
  /\ Goto(r, "key")
  /\ UNCHANGED <<kids, dids, docs, put>>

\* A slip: the key is created under its verkey only.
KeyWithoutKid(r) ==
  /\ pc[r] = "key"
  /\ Goto(r, IF req[r].url # None THEN "store" ELSE "put")
  /\ UNCHANGED <<kids, dids, docs, req, put>>

\* wallet.create_key, which does not ask whether the kid is taken.
CreateKey(r) ==
  /\ pc[r] = "key"
  /\ kids' = kids \cup {<<r, Kid(Did(r))>>}
  /\ Goto(r, IF req[r].url # None THEN "store" ELSE "put")
  /\ UNCHANGED <<dids, docs, req, put>>

\* client.put_did sends the document.
SendDocument(r) ==
  /\ pc[r] = "put"
  /\ put' = [put EXCEPT ![r] = "sent"]
  /\ Goto(r, "sent")
  /\ UNCHANGED <<kids, dids, docs, req>>

\* A slip: the DID in the document is the URL of the name as it was given.
DocumentOfUrl(r) == [did |-> <<Base, Slash>> \o req[r].name, key |-> r]

Document(r) == [did |-> Did(r), key |-> r]

\* The server's route takes one part of a path.
Routable(n) == \A i \in 1..Len(n) : n[i] # Slash

\* The server's put_did, whether or not the client still waits.
ServerStores(r) ==
  /\ put[r] = "sent"
  /\ Routable(req[r].name)
  /\ docs' = [docs EXCEPT ![req[r].name] = Document(r)]
  /\ put' = [put EXCEPT ![r] = "done"]
  /\ UNCHANGED <<kids, dids, pc, req>>

\* The document is lost, or the server has no route for the name.
ServerDrops(r) ==
  /\ put[r] = "sent"
  /\ put' = [put EXCEPT ![r] = "dropped"]
  /\ UNCHANGED <<kids, dids, docs, pc, req>>

\* Anything but a good answer raises DidWebServerClientError (Fails).
ServerAnswers(r) ==
  /\ pc[r] = "sent"
  /\ put[r] = "done"
  /\ Goto(r, "store")
  /\ UNCHANGED <<kids, dids, docs, req, put>>

Known(did) == \E d \in dids : d.did = did

\* A slip: a DID that the wallet has is replaced.
StoreDidAgain(r) ==
  /\ pc[r] = "store"
  /\ dids' = {d \in dids : d.did # Did(r)} \cup {[did |-> Did(r), key |-> r]}
  /\ Goto(r, "ok")
  /\ UNCHANGED <<kids, docs, req, put>>

\* store_did raises if the wallet has the DID (Fails).
StoreDid(r) ==
  /\ pc[r] = "store"
  /\ ~Known(Did(r))
  /\ dids' = dids \cup {[did |-> Did(r), key |-> r]}
  /\ Goto(r, "ok")
  /\ UNCHANGED <<kids, docs, req, put>>

\* Any awaited call may raise; without DID_WEB_SERVER_URL there is no client to
\* begin with.  Nothing that was done is undone.
Fails(r) ==
  /\ pc[r] \in {"idle", "key", "put", "sent", "store"}
  /\ Goto(r, "e500")
  /\ UNCHANGED <<kids, dids, docs, req, put>>

AgentRestart ==
  /\ pc' = [r \in Requests |->
              IF pc[r] \in {"key", "put", "sent", "store"} THEN "lost" ELSE pc[r]]
  /\ UNCHANGED <<kids, dids, docs, req, put>>

\* The server's storage is a dict of its process.
ServerRestart ==
  /\ docs' = [n \in Names |-> None]
  /\ UNCHANGED <<kids, dids, pc, req, put>>

Handle(r) ==
  \/ Refuse(r)
  \/ Receive(r)
  \/ CreateKey(r)
  \/ SendDocument(r)
  \/ ServerStores(r)
  \/ ServerDrops(r)
  \/ ServerAnswers(r)
  \/ StoreDid(r)
  \/ Fails(r)

Next ==
  \/ \E r \in Requests : Handle(r)
  \/ AgentRestart
  \/ ServerRestart

Spec == Init /\ [][Next]_vars

-----------------------------------------------------------------------------
(* Properties                                                              *)

\* Type invariant of the wallet, the server and the handlers.
TypeOK ==
  /\ kids \subseteq Requests \X {Kid(did) : did \in Dids}
  /\ dids \subseteq [did: Dids, key: Requests]
  /\ docs \in [Names -> Docs \cup {None}]
  /\ pc \in [Requests -> {"idle", "key", "put", "sent", "store", "ok", "e400",
                          "e500", "lost"}]
  /\ req \in [Requests -> Request \cup {None}]
  /\ put \in [Requests -> {"none", "sent", "done", "dropped"}]

\* Whatever fails, comes late or is overwritten, the key in a document that the
\* server shows is in the wallet, under the kid by which the document names it
\* (create_did_web makes the key before it puts the document).
ServedKeyIsOurs ==
  \A n \in Names : docs[n] # None => <<docs[n].key, Kid(docs[n].did)>> \in kids

\* A DID created by name is resolved, by the rule of the did:web method, to
\* where the server shows the document of that name, and of no other.  Names
\* that begin with "did.json", of which that is cut off, and names with a ":",
\* which is taken for a "/", are the exceptions (url_to_did_web).
ResolvesToItsName ==
  \A r \in Requests :
    LET name == req[r].name
    IN  /\ pc[r] = "ok" /\ req[r].url = None
        /\ name[1] # Json /\ \A i \in 1..Len(name) : name[i] # Colon
        => \A n \in Names : Location(Did(r)) = ServedAt(n) <=> n = name

\* The path of a document, or of its directory: "/did.json" stands only at its
\* end, and not alone, ".well-known" with it only at the host, no part is empty
\* and none has a ":".
Plain(path) ==
  /\ path # << >> => path[1] = Slash
  /\ \A i \in 1..Len(path) :
       /\ path[i] # Colon
       /\ path[i] = Slash => Len(path) = 1 \/ (i < Len(path) /\ path[i + 1] # Slash)
       /\ Occurs(SlashJson, path, i) => 1 < i /\ i = Len(path) - 1
       /\ Occurs(WellKnownJson, path, i) => i = 2

\* A DID created from a URL is resolved to that URL, with the document's name
\* added where the URL does not have it (url_to_did_web).
UrlIsLocation ==
  \A r \in Requests : pc[r] = "ok" /\ req[r].url # None =>
    LET path == req[r].url.path
    IN  Plain(path) =>
          Location(Did(r)) =
            <<req[r].url.host>> \o
              (IF path = << >> \/ path = <<Slash>> THEN <<Slash, WellKnown, Slash, Json>>
               ELSE IF Occurs(SlashJson, path, Len(path) - 1) THEN path
               ELSE path \o SlashJson)

\* The server shows no document of a stored DID's own key.
Diverged(n) ==
  \E d \in dids :
    /\ d.did = DidOfName[n]
    /\ \E r \in Requests : put[r] = "done" /\ req[r].name = n /\ d.key = r
    /\ docs[n] = None \/ docs[n].key # d.key

\* There is no way back: once the server has lost the document of a stored DID,
\* or has another request's in its place, no request ever brings it back.  Each
\* one makes a key of its own, replaces the document, and stops at the DID.
DivergedForever == [][\A n \in Names : Diverged(n) => Diverged(n)']_vars

=============================================================================
