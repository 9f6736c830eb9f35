------------------------------ MODULE MCDidWeb ------------------------------
(* Instances of DidWeb for TLC.                                             *)
EXTENDS DidWeb, TLC

MCBase == "server"
MCPieces ==
  {"/", ":", ".well-known", "did.json", "a", "b", "x", "ld", "abc", "alice", "org",
   "httpbin.org", "example.com", "", MCBase}
MCOneChar == {"/", ":", "a", "b", "x"}

\* A plain name, names of which "did.json" is cut off, one with a ":",
\* and one the server has no route for.
MCNames == {<<"alice">>, <<"did.json">>, <<"did.json", "abc">>, <<"a", ":", "b">>,
            <<"org", "/", "alice">>}

\* The forms a path may take: none, the host's own, plain ones, and those of
\* which more or less is cut off than the document's name.
MCPaths ==
  {<< >>, <<"/">>, <<"/", ".well-known", "/", "did.json">>, <<"/", ".well-known">>,
   <<"/", "a">>, <<"/", "a", "/", "b", "/", "did.json">>, <<"/", "a", "did.json">>,
   <<"/", "did.json">>, <<"/", "did.json", "x">>, <<"/", "a", "/", "did.json", "ld">>,
   <<"/", "a", "/", "did.json", "/", "b">>, <<"/", "/", "did.json">>, <<"/", "a", "/">>,
   <<"/", "a", ".well-known", "/", "did.json">>, <<"/", "a", ":", "b">>}

\* Also the server's own address, and one without a scheme that begins with
\* "http", which urlparse takes for a path.
MCUrls ==
  [host: {"example.com"}, path: MCPaths]
    \cup [host: {MCBase}, path: {<<"/", "alice">>}]
    \cup [host: {""}, path: {<<"httpbin.org", "/", "a">>}]

MCSymmetry == Permutations(Requests)
=============================================================================
