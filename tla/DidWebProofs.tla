---------------------------- MODULE DidWebProofs ----------------------------
(* Proofs about DidWeb, for any requests, URLs and names.                   *)
EXTENDS DidWeb, SequenceTheorems, WellFoundedInduction, TLAPS

-----------------------------------------------------------------------------
(* Texts                                                                   *)

\* A non-empty set of numbers has a least element.
LEMMA LeastNumber ==
  ASSUME NEW T, T \subseteq Nat, T # {}
  PROVE  \E n \in T : \A m \in T : ~(m < n)
<1>1. \E x \in T : \A y \in T : ~(<<y, x>> \in OpToRel(<, Nat))
  BY NatLessThanWellFounded, WFMin
<1> QED
  BY <1>1 DEF OpToRel

\* Where the places of word in a text fill it from some point on, the text up to
\* there is what is left.
LEMMA WithoutTheEnd ==
  ASSUME NEW S, NEW text \in Seq(S), NEW word, NEW m \in 0..Len(text),
         \A i \in 1..Len(text) : Within(word, text, i) <=> m < i
  PROVE  Without(word, text) = [x \in 1..m |-> text[x]]
<1> DEFINE N == Len(text)
           Equation(g) == g = [k \in 0..N |->
                                 IF k = 0 THEN << >>
                                 ELSE IF Within(word, text, k) THEN g[k - 1]
                                 ELSE Append(g[k - 1], text[k])]
           left == CHOOSE g : Equation(g)
           first(n) == [x \in 1..n |-> text[x]]
           closed == [k \in 0..N |-> IF m < k THEN first(m) ELSE first(k)]
<1>1. N \in Nat /\ m \in 0..N /\ \A x \in 1..N : text[x] \in S
  OBVIOUS
<1>2. first(0) = << >>
  OBVIOUS
<1>3. ASSUME NEW k \in 1..N PROVE first(k) = Append(first(k - 1), text[k])
  <2>1. first(k - 1) \in Seq(S) /\ Len(first(k - 1)) = k - 1
    BY <1>1
  <2>2. first(k) \in Seq(S) /\ Len(first(k)) = k
    BY <1>1
  <2> QED
    BY <1>1, <2>1, <2>2, AppendProperties
<1> HIDE DEF first
<1>4. Equation(closed)
  <2>1. ASSUME NEW k \in 1..N
        PROVE  closed[k] = IF Within(word, text, k) THEN closed[k - 1]
                           ELSE Append(closed[k - 1], text[k])
    <3>1. /\ k - 1 \in 0..N /\ k \in 0..N
          /\ m < k /\ ~(m < k - 1) => k - 1 = m
          /\ m < k - 1 => m < k
      BY <1>1
    <3>2. /\ closed[k - 1] = IF m < k - 1 THEN first(m) ELSE first(k - 1)
          /\ closed[k] = IF m < k THEN first(m) ELSE first(k)
      BY <3>1
    <3> HIDE DEF closed
    <3>3. CASE m < k
      BY <3>1, <3>2, <3>3
    <3>4. CASE ~(m < k)
      BY <1>3, <3>1, <3>2, <3>4
    <3> QED
      BY <3>3, <3>4
  <2>2. closed[0] = << >>
    BY <1>1, <1>2
  <2> HIDE DEF closed
  <2>3. closed = [k \in 0..N |-> closed[k]]
    BY DEF closed
  <2>4. \A k \in 0..N : k = 0 \/ k \in 1..N
    BY <1>1
  <2>5. \A k \in 0..N : closed[k] = IF k = 0 THEN << >>
                                    ELSE IF Within(word, text, k) THEN closed[k - 1]
                                    ELSE Append(closed[k - 1], text[k])
    BY <2>1, <2>2, <2>4
  <2> QED
    BY <2>3, <2>5
<1>5. Equation(left)
  BY <1>4
<1> HIDE DEF closed, left
<1>6. left = closed
  <2> SUFFICES \A k \in 0..N : left[k] = closed[k]
    BY <1>4, <1>5
  <2> SUFFICES ASSUME \E k \in 0..N : left[k] # closed[k] PROVE FALSE
    OBVIOUS
  <2> DEFINE T == {k \in 0..N : left[k] # closed[k]}
  <2>1. PICK k \in T : \A j \in T : ~(j < k)
    <3>1. T \subseteq Nat /\ T # {}
      BY <1>1
    <3> HIDE DEF T
    <3> QED
      BY <3>1, LeastNumber
  <2>2. CASE k = 0
    BY <1>1, <1>4, <1>5, <2>1, <2>2
  <2>3. CASE k # 0
    <3>1. k - 1 \in 0..N /\ k - 1 < k /\ k \in 0..N
      BY <1>1, <2>1, <2>3
    <3>2. left[k - 1] = closed[k - 1]
      BY <2>1, <3>1
    <3>3. left[k] = closed[k]
      BY <1>4, <1>5, <2>3, <3>1, <3>2
    <3> QED
      BY <2>1, <3>3
  <2> QED
    BY <2>2, <2>3
<1>7. Without(word, text) = left[N]
  BY DEF Without, left
<1>8. left[N] = first(m)
  BY <1>1, <1>6 DEF closed
<1> QED
  BY <1>7, <1>8 DEF first

\* A word that does not occur in a text leaves it as it is.
LEMMA WithoutNothing ==
  ASSUME NEW S, NEW text \in Seq(S), NEW word,
         \A k \in 1..Len(text) : ~Occurs(word, text, k)
  PROVE  Without(word, text) = text
<1>1. Len(text) \in 0..Len(text) /\ text = [x \in 1..Len(text) |-> text[x]]
  OBVIOUS
<1>2. \A i \in 1..Len(text) : Within(word, text, i) <=> Len(text) < i
  BY DEF Within
<1> QED
  BY <1>1, <1>2, WithoutTheEnd

\* A word that occurs only at the end of a text is cut off.
LEMMA WithoutEnd ==
  ASSUME NEW S, NEW text \in Seq(S), NEW T, NEW word \in Seq(T), Len(word) > 0,
         NEW k \in 1..Len(text), k + Len(word) - 1 = Len(text), Occurs(word, text, k),
         \A j \in 1..Len(text) : Occurs(word, text, j) => j = k
  PROVE  Without(word, text) = [x \in 1..(k - 1) |-> text[x]]
<1>1. Len(text) \in Nat /\ Len(word) \in Nat /\ k - 1 \in 0..Len(text)
  OBVIOUS
<1>2. \A i \in 1..Len(text) : Within(word, text, i) <=> k - 1 < i
  BY <1>1 DEF Within
<1> QED
  BY <1>1, <1>2, WithoutTheEnd

-----------------------------------------------------------------------------
(* Paths                                                                   *)

LEMMA Words ==
  /\ SlashJson \in Seq(Pieces) /\ Len(SlashJson) = 2
  /\ SlashJson[1] = Slash /\ SlashJson[2] = Json
  /\ WellKnownJson \in Seq(Pieces) /\ Len(WellKnownJson) = 3
  /\ WellKnownJson[1] = WellKnown /\ WellKnownJson[2] = Slash /\ WellKnownJson[3] = Json
  /\ {Slash, Colon, WellKnown, Json} \subseteq Pieces
BY TextAssumption DEF TextAssumption, SlashJson, WellKnownJson

LEMMA PiecesDiffer ==
  /\ Slash # Colon /\ Slash # WellKnown /\ Slash # Json
  /\ Colon # WellKnown /\ Colon # Json /\ WellKnown # Json
BY Zenon DEF Slash, Colon, WellKnown, Json

\* Texts of no, one and two pieces.
LEMMA ShortTexts ==
  ASSUME NEW text \in Seq(Pieces), NEW a \in Pieces, NEW b \in Pieces
  PROVE  /\ text = << >> <=> Len(text) = 0
         /\ text = <<a>> <=> Len(text) = 1 /\ text[1] = a
         /\ <<a>> \o <<b>> = <<a, b>>
<1>1. <<a>> \in Seq(Pieces) /\ Len(<<a>>) = 1 /\ <<a>>[1] = a
  OBVIOUS
<1>2. <<b>> \in Seq(Pieces) /\ Len(<<b>>) = 1 /\ <<b>>[1] = b
  OBVIOUS
<1>3. <<a, b>> \in Seq(Pieces) /\ Len(<<a, b>>) = 2 /\ <<a, b>>[1] = a /\ <<a, b>>[2] = b
  OBVIOUS
<1>4. text = <<a>> <=> Len(text) = 1 /\ text[1] = a
  <2>1. ASSUME Len(text) = 1, text[1] = a PROVE text = <<a>>
    BY <1>1, <2>1, SeqEqual
  <2> QED
    BY <1>1, <2>1
<1>5. <<a>> \o <<b>> = <<a, b>>
  <2> DEFINE t == <<a>> \o <<b>>
  <2>1. /\ t \in Seq(Pieces) /\ Len(t) = 1 + 1
        /\ \A i \in 1..(1 + 1) : t[i] = IF i <= 1 THEN <<a>>[i] ELSE <<b>>[i - 1]
    BY <1>1, <1>2, ConcatProperties
  <2> HIDE DEF t
  <2>2. t[1] = a
    BY <1>1, <2>1
  <2>3. t[2] = b
    <3>1. 2 \in 1..(1 + 1) /\ ~(2 <= 1) /\ 2 - 1 = 1
      OBVIOUS
    <3> QED
      BY <1>2, <2>1, <3>1
  <2>4. \A i \in 1..Len(t) : i = 1 \/ i = 2
    BY <2>1
  <2>5. \A i \in 1..Len(t) : t[i] = <<a, b>>[i]
    BY <1>3, <2>2, <2>3, <2>4
  <2>6. t = <<a, b>>
    BY <1>3, <2>1, <2>5, SeqEqual
  <2> QED
    BY <2>6 DEF t
<1> QED
  BY <1>4, <1>5

LEMMA OccursThere ==
  ASSUME NEW text \in Seq(Pieces), NEW k \in Nat
  PROVE  /\ Occurs(SlashJson, text, k) <=>
              k + 1 <= Len(text) /\ text[k] = Slash /\ text[k + 1] = Json
         /\ Occurs(WellKnownJson, text, k) <=>
              k + 2 <= Len(text) /\ text[k] = WellKnown /\ text[k + 1] = Slash
                                 /\ text[k + 2] = Json
<1>1. Len(text) \in Nat
  OBVIOUS
<1>2. Occurs(SlashJson, text, k) <=>
        k + 2 - 1 <= Len(text) /\ text[k + 1 - 1] = Slash /\ text[k + 2 - 1] = Json
  <2>1. \A j : j \in 1..2 <=> j = 1 \/ j = 2
    OBVIOUS
  <2> QED
    BY <2>1, Words DEF Occurs
<1>3. Occurs(WellKnownJson, text, k) <=>
        k + 3 - 1 <= Len(text) /\ text[k + 1 - 1] = WellKnown /\ text[k + 2 - 1] = Slash
                               /\ text[k + 3 - 1] = Json
  <2>1. \A j : j \in 1..3 <=> j = 1 \/ j = 2 \/ j = 3
    OBVIOUS
  <2> QED
    BY <2>1, Words DEF Occurs
<1>4. k + 1 - 1 = k /\ k + 2 - 1 = k + 1 /\ k + 3 - 1 = k + 2
  OBVIOUS
<1> QED
  BY <1>1, <1>2, <1>3, <1>4

\* What was cut off a text, put back.
LEMMA WithEnd ==
  ASSUME NEW text \in Seq(Pieces), NEW left \in Seq(Pieces), NEW m \in Nat,
         Len(left) = m, Len(text) = m + 2, \A x \in 1..m : left[x] = text[x],
         text[m + 1] = Slash, text[m + 2] = Json
  PROVE  left \o SlashJson = text
<1> DEFINE t == left \o SlashJson
<1>1. /\ t \in Seq(Pieces) /\ Len(t) = m + 2
      /\ \A i \in 1..(m + 2) : t[i] = IF i <= m THEN left[i] ELSE SlashJson[i - m]
  <2>1. SlashJson \in Seq(Pieces) /\ Len(SlashJson) = 2
    BY Words
  <2>2. /\ t \in Seq(Pieces) /\ Len(t) = Len(left) + Len(SlashJson)
        /\ \A i \in 1..(Len(left) + Len(SlashJson)) :
             t[i] = IF i <= Len(left) THEN left[i] ELSE SlashJson[i - Len(left)]
    BY <2>1, ConcatProperties
  <2> HIDE DEF t
  <2> QED
    BY <2>1, <2>2
<1> HIDE DEF t
<1>2. ASSUME NEW i \in 1..(m + 2) PROVE t[i] = text[i]
  <2>1. CASE i <= m
    BY <1>1, <2>1
  <2>2. CASE i = m + 1
    <3>1. ~(i <= m) /\ i - m = 1
      BY <2>2
    <3> QED
      BY <1>1, <2>2, <3>1, Words
  <2>3. CASE i = m + 2
    <3>1. ~(i <= m) /\ i - m = 2
      BY <2>3
    <3> QED
      BY <1>1, <2>3, <3>1, Words
  <2>4. i <= m \/ i = m + 1 \/ i = m + 2
    OBVIOUS
  <2> QED
    BY <2>1, <2>2, <2>3, <2>4
<1>3. t = text
  BY <1>1, <1>2, SeqEqual
<1> QED
  BY <1>3 DEF t

\* A path without ".well-known/did.json" from which "/did.json" is cut at its end,
\* or nothing.
LEMMA CutPath ==
  ASSUME NEW path \in Seq(Pieces),
         \A k \in 1..Len(path) : ~Occurs(WellKnownJson, path, k),
         \A k \in 1..Len(path) : Occurs(SlashJson, path, k) => k = Len(path) - 1
  PROVE  Cut(path) = IF Occurs(SlashJson, path, Len(path) - 1) /\ Len(path) > 1
                       THEN [x \in 1..(Len(path) - 2) |-> path[x]]
                       ELSE path
<1>1. Without(WellKnownJson, path) = path
  BY WithoutNothing
<1>2. Cut(path) = Without(SlashJson, path)
  BY <1>1 DEF Cut
<1>3. CASE Occurs(SlashJson, path, Len(path) - 1) /\ Len(path) > 1
  <2> DEFINE k == Len(path) - 1
  <2>1. /\ k \in 1..Len(path) /\ k + Len(SlashJson) - 1 = Len(path)
        /\ k - 1 = Len(path) - 2 /\ Len(SlashJson) > 0
    BY <1>3, Words
  <2>2. Without(SlashJson, path) = [x \in 1..(k - 1) |-> path[x]]
    BY <1>3, <2>1, Words, WithoutEnd
  <2> QED
    BY <1>2, <1>3, <2>1, <2>2
<1>4. CASE ~(Occurs(SlashJson, path, Len(path) - 1) /\ Len(path) > 1)
  <2>1. \A k \in 1..Len(path) : ~Occurs(SlashJson, path, k)
    BY <1>4
  <2>2. Without(SlashJson, path) = path
    BY <2>1, WithoutNothing
  <2> QED
    BY <1>2, <1>4, <2>2
<1> QED
  BY <1>3, <1>4

-----------------------------------------------------------------------------
(* Where DIDs lead                                                         *)

HostDoc == <<Slash, WellKnown, Slash, Json>>

\* ":" for "/" and back again leaves a text without ":" as it was.
LEMMA ThereAndBack ==
  ASSUME NEW host \in Pieces \ {Slash, Colon}, NEW path \in Seq(Pieces),
         \A x \in 1..Len(path) : path[x] # Colon
  PROVE  LET did == <<host>> \o Replaced(path, Slash, Colon)
         IN  /\ Replaced(did, Colon, Slash) = <<host>> \o path
             /\ Len(did) = Len(path) + 1
             /\ \A x \in 1..Len(path) : path[x] = Slash => did[x + 1] = Colon
<1> DEFINE p == Replaced(path, Slash, Colon)
           did == <<host>> \o p
           back == Replaced(did, Colon, Slash)
           there == <<host>> \o path
           n == Len(path)
<1>1. n \in Nat /\ (\A x \in 1..n : path[x] \in Pieces) /\ Colon \in Pieces /\ Slash \in Pieces
  BY Words
<1>2. /\ p \in Seq(Pieces) /\ Len(p) = n
      /\ \A x \in 1..n : p[x] = IF path[x] = Slash THEN Colon ELSE path[x]
  BY <1>1 DEF Replaced
<1>3. <<host>> \in Seq(Pieces) /\ Len(<<host>>) = 1 /\ <<host>>[1] = host
  OBVIOUS
<1> HIDE DEF p
<1>4. /\ did \in Seq(Pieces) /\ Len(did) = n + 1 /\ did[1] = host
      /\ \A x \in 1..n : did[x + 1] = p[x]
  <2>1. /\ did \in Seq(Pieces) /\ Len(did) = 1 + n
        /\ \A i \in 1..(1 + n) : did[i] = IF i <= 1 THEN <<host>>[i] ELSE p[i - 1]
    BY <1>2, <1>3, ConcatProperties
  <2>2. \A x \in 1..n : x + 1 \in 1..(1 + n) /\ ~(x + 1 <= 1) /\ x + 1 - 1 = x
    BY <1>1
  <2>3. 1 \in 1..(1 + n)
    BY <1>1
  <2> HIDE DEF did
  <2>4. did[1] = host
    BY <1>3, <2>1, <2>3
  <2>5. \A x \in 1..n : did[x + 1] = p[x]
    BY <2>1, <2>2
  <2> QED
    BY <1>1, <2>1, <2>4, <2>5
<1>5. /\ there \in Seq(Pieces) /\ Len(there) = n + 1 /\ there[1] = host
      /\ \A x \in 1..n : there[x + 1] = path[x]
  <2>1. /\ there \in Seq(Pieces) /\ Len(there) = 1 + n
        /\ \A i \in 1..(1 + n) : there[i] = IF i <= 1 THEN <<host>>[i] ELSE path[i - 1]
    BY <1>3, ConcatProperties
  <2>2. \A x \in 1..n : x + 1 \in 1..(1 + n) /\ ~(x + 1 <= 1) /\ x + 1 - 1 = x
    BY <1>1
  <2>3. 1 \in 1..(1 + n)
    BY <1>1
  <2> HIDE DEF there
  <2> QED
    BY <1>1, <1>3, <2>1, <2>2, <2>3
<1> HIDE DEF did, there
<1>6. /\ back \in Seq(Pieces) /\ Len(back) = n + 1
      /\ \A i \in 1..(n + 1) : back[i] = IF did[i] = Colon THEN Slash ELSE did[i]
  <2>1. \A i \in 1..(n + 1) : did[i] \in Pieces
    BY <1>4
  <2> QED
    BY <1>1, <1>4, <2>1 DEF Replaced
<1> HIDE DEF back
<1>7. \A i \in 1..(n + 1) : back[i] = there[i]
  <2> SUFFICES ASSUME NEW i \in 1..(n + 1) PROVE back[i] = there[i]
    OBVIOUS
  <2>1. CASE i = 1
    BY <1>4, <1>5, <1>6, <2>1
  <2>2. CASE i # 1
    <3>1. PICK x \in 1..n : i = x + 1
      <4>1. i - 1 \in 1..n /\ i = i - 1 + 1
        BY <1>1, <2>2
      <4> QED
        BY <4>1
    <3>2. p[x] = IF path[x] = Slash THEN Colon ELSE path[x]
      BY <1>2
    <3>3. path[x] # Colon /\ did[i] = p[x] /\ there[i] = path[x]
      BY <1>4, <1>5, <3>1
    <3>4. back[i] = IF p[x] = Colon THEN Slash ELSE p[x]
      BY <1>6, <3>3
    <3> QED
      BY <3>2, <3>3, <3>4, PiecesDiffer
  <2> QED
    BY <2>1, <2>2
<1>8. back = there
  BY <1>5, <1>6, <1>7, SeqEqual
<1>9. \A x \in 1..n : path[x] = Slash => did[x + 1] = Colon
  BY <1>2, <1>4
<1> QED
  BY <1>4, <1>8, <1>9 DEF back, there, did, p

\* The document of a DID whose path, after the cuts, begins with "/" and has no
\* ":".
LEMMA LocationOfDid ==
  ASSUME NEW url, url.host \in Pieces \ {Slash, Colon}, Cut(url.path) \in Seq(Pieces),
         \A x \in 1..Len(Cut(url.path)) : Cut(url.path)[x] # Colon,
         Cut(url.path) # << >> => Cut(url.path)[1] = Slash
  PROVE  Location(DidOf(url)) =
           <<url.host>> \o (IF Cut(url.path) = << >> \/ Cut(url.path) = <<Slash>>
                              THEN HostDoc ELSE Cut(url.path) \o SlashJson)
<1> DEFINE host == url.host
           path == Cut(url.path)
           did == <<host>> \o Replaced(path, Slash, Colon)
<1>1. path \in Seq(Pieces) /\ Len(path) \in Nat /\ Slash \in OneChar
  BY TextAssumption DEF TextAssumption
<1>2. path = << >> <=> Len(path) = 0
  BY <1>1
<1>3. path = <<Slash>> <=> Len(path) = 1 /\ path[1] = Slash
  BY <1>1
<1>4. CASE path = << >> \/ path = <<Slash>>
  <2>1. DidOf(url) = <<host>>
    BY <1>1, <1>3, <1>4 DEF DidOf
  <2>2. \A x \in 1..Len(<<host>>) : <<host>>[x] # Colon
    OBVIOUS
  <2>3. Location(<<host>>) = <<host>> \o HostDoc
    BY <2>2 DEF Location, HostDoc
  <2> QED
    BY <1>4, <2>1, <2>3
<1>5. CASE ~(path = << >> \/ path = <<Slash>>)
  <2>1. Len(path) > 1 /\ path[1] = Slash
    BY <1>1, <1>2, <1>3, <1>5
  <2>2. DidOf(url) = did
    BY <1>5, <2>1 DEF DidOf
  <2>3. /\ Replaced(did, Colon, Slash) = <<host>> \o path
        /\ Len(did) = Len(path) + 1
        /\ did[1 + 1] = Colon
    <3>1. 1 \in 1..Len(path)
      BY <1>1, <2>1
    <3> QED
      BY <2>1, <3>1, ThereAndBack
  <2> HIDE DEF did
  <2>4. ~\A i \in 1..Len(did) : did[i] # Colon
    <3>1. 1 + 1 \in 1..Len(did)
      BY <1>1, <2>1, <2>3
    <3> QED
      BY <2>3, <3>1
  <2>5. Location(did) = (<<host>> \o path) \o SlashJson
    BY <2>3, <2>4 DEF Location
  <2>6. <<host>> \in Seq(Pieces) /\ SlashJson \in Seq(Pieces)
    BY Words
  <2>7. (<<host>> \o path) \o SlashJson = <<host>> \o (path \o SlashJson)
    BY <1>1, <2>6, ConcatAssociative
  <2> QED
    BY <1>5, <2>2, <2>5, <2>7
<1> QED
  BY <1>4, <1>5

\* Where the document of a plain URL is.
Expected(path) ==
  IF path = << >> \/ path = <<Slash>> THEN HostDoc
  ELSE IF Occurs(SlashJson, path, Len(path) - 1) THEN path
  ELSE path \o SlashJson

\* The rule of the did:web method leads from a plain URL's DID back to the URL.
LEMMA PlainLocation ==
  ASSUME NEW url, url.host \in Pieces \ {Slash, Colon}, url.path \in Seq(Pieces),
         Plain(url.path)
  PROVE  Location(DidOf(url)) = <<url.host>> \o Expected(url.path)
<1> DEFINE path == url.path
           n == Len(path)
           first(m) == [x \in 1..m |-> path[x]]
<1>1. /\ n \in Nat /\ (\A x \in 1..n : path[x] \in Pieces /\ path[x] # Colon)
      /\ n > 0 => path[1] = Slash
      /\ \A i \in 1..n : path[i] = Slash => n = 1 \/ (i < n /\ path[i + 1] # Slash)
      /\ \A i \in 1..n : Occurs(SlashJson, path, i) => 1 < i /\ i = n - 1
      /\ \A i \in 1..n : Occurs(WellKnownJson, path, i) => i = 2
      /\ path = << >> <=> n = 0
      /\ path = <<Slash>> <=> n = 1 /\ path[1] = Slash
  <2>1. n \in Nat /\ \A x \in 1..n : path[x] \in Pieces
    OBVIOUS
  <2>2. path = << >> <=> n = 0
    OBVIOUS
  <2>3. path = <<Slash>> <=> n = 1 /\ path[1] = Slash
    BY Words, ShortTexts
  <2>4. n > 0 => path[1] = Slash
    BY <2>2 DEF Plain
  <2> QED
    BY <2>1, <2>2, <2>3, <2>4 DEF Plain
<1>2. \A m \in 0..n : first(m) \in Seq(Pieces) /\ Len(first(m)) = m
                      /\ (\A x \in 1..m : first(m)[x] = path[x])
  BY <1>1
<1>3. CASE \E i \in 1..n : Occurs(WellKnownJson, path, i)
  <2>1. Occurs(WellKnownJson, path, 2) /\ 2 \in 1..n
    BY <1>1, <1>3
  <2>2. 4 <= n /\ path[2] = WellKnown /\ path[3] = Slash /\ path[4] = Json
    BY <2>1, OccursThere
  <2>3. Occurs(SlashJson, path, 3)
    BY <2>2, OccursThere
  <2>4. n = 4 /\ path[1] = Slash
    <3>1. 3 \in 1..n
      BY <1>1, <2>2
    <3>2. 3 = n - 1
      BY <1>1, <2>3, <3>1
    <3> QED
      BY <1>1, <3>2
  <2>5. Without(WellKnownJson, path) = first(1)
    <3>1. 2 + Len(WellKnownJson) - 1 = n /\ Len(WellKnownJson) > 0 /\ 2 - 1 = 1
      BY <2>4, Words
    <3>2. WellKnownJson \in Seq(Pieces)
      BY Words
    <3>3. \A j \in 1..n : Occurs(WellKnownJson, path, j) => j = 2
      BY <1>1
    <3>4. Without(WellKnownJson, path) = [x \in 1..(2 - 1) |-> path[x]]
      BY <2>1, <3>1, <3>2, <3>3, WithoutEnd
    <3> QED
      BY <3>1, <3>4
  <2>6. first(1) = <<Slash>>
    BY <2>4
  <2>7. Cut(path) = <<Slash>>
    <3>1. <<Slash>> \in Seq(Pieces) /\ Len(<<Slash>>) = 1
      BY Words
    <3>2. \A k \in 1..Len(<<Slash>>) : ~Occurs(SlashJson, <<Slash>>, k)
      <4> SUFFICES ASSUME NEW k \in 1..1, Occurs(SlashJson, <<Slash>>, k) PROVE FALSE
        BY <3>1
      <4>1. k \in Nat /\ ~(k + 1 <= 1)
        OBVIOUS
      <4> QED
        BY <3>1, <4>1, OccursThere
    <3>3. Without(SlashJson, <<Slash>>) = <<Slash>>
      BY <3>1, <3>2, WithoutNothing
    <3> QED
      BY <2>5, <2>6, <3>3 DEF Cut
  <2>8. Location(DidOf(url)) = <<url.host>> \o HostDoc
    <3>1. /\ <<Slash>> \in Seq(Pieces) /\ <<Slash>>[1] = Slash
          /\ \A x \in 1..Len(<<Slash>>) : <<Slash>>[x] # Colon
      BY Words, PiecesDiffer
    <3> QED
      BY <2>7, <3>1, LocationOfDid
  <2>9. path = HostDoc
    <3>1. HostDoc \in Seq(Pieces) /\ Len(HostDoc) = 4
          /\ HostDoc[1] = Slash /\ HostDoc[2] = WellKnown /\ HostDoc[3] = Slash
          /\ HostDoc[4] = Json
      BY Words DEF HostDoc
    <3>2. \A i \in 1..4 : i = 1 \/ i = 2 \/ i = 3 \/ i = 4
      OBVIOUS
    <3>3. \A i \in 1..4 : path[i] = HostDoc[i]
      BY <2>2, <2>4, <3>1, <3>2
    <3> QED
      BY <2>4, <3>1, <3>3, SeqEqual
  <2>10. Expected(path) = path
    BY <1>1, <2>3, <2>4 DEF Expected
  <2> QED
    BY <2>8, <2>9, <2>10
<1>4. CASE ~\E i \in 1..n : Occurs(WellKnownJson, path, i)
  <2>1. Cut(path) = IF Occurs(SlashJson, path, n - 1) /\ n > 1 THEN first(n - 2) ELSE path
    BY <1>1, <1>4, CutPath
  <2>2. CASE Occurs(SlashJson, path, n - 1) /\ n > 1
    <3>1. /\ n - 1 \in 1..n /\ n - 1 \in Nat /\ n - 1 + 1 = n
          /\ path[n - 1] = Slash /\ path[n] = Json /\ n > 2
      <4>1. n - 1 \in 1..n /\ n - 1 \in Nat /\ n - 1 + 1 = n
        BY <1>1, <2>2
      <4>2. n - 1 > 1
        BY <1>1, <2>2, <4>1
      <4> QED
        BY <1>1, <2>2, <4>1, <4>2, OccursThere
    <3>2. Cut(path) = first(n - 2) /\ n - 2 \in 0..n /\ n - 2 >= 1
      BY <1>1, <2>1, <2>2, <3>1
    <3>3. /\ first(n - 2) \in Seq(Pieces) /\ Len(first(n - 2)) = n - 2
          /\ \A x \in 1..(n - 2) : first(n - 2)[x] = path[x]
      BY <1>2, <3>2
    <3> HIDE DEF first
    <3>4. first(n - 2) # << >> /\ first(n - 2)[1] = Slash
      BY <1>1, <3>1, <3>2, <3>3
    <3>5. first(n - 2) # <<Slash>>
      <4> SUFFICES ASSUME first(n - 2) = <<Slash>> PROVE FALSE
        OBVIOUS
      <4>1. Len(first(n - 2)) = 1
        <5>1. first(n - 2) \in Seq(Pieces) /\ Slash \in Pieces
          BY <3>3, Words
        <5> QED
          BY <5>1, ShortTexts
      <4>2. n = 3
        <5>1. n - 2 = 1
          BY <3>3, <4>1, Zenon
        <5> QED
          BY <1>1, <5>1
      <4>3. path[1] = Slash /\ path[2] = Slash /\ 1 \in 1..n /\ 1 + 1 = 2
        BY <1>1, <3>1, <4>2
      <4> QED
        BY <1>1, <4>2, <4>3
    <3>6. \A x \in 1..Len(first(n - 2)) : first(n - 2)[x] # Colon
      BY <1>1, <3>2, <3>3
    <3>7. Location(DidOf(url)) = <<url.host>> \o (first(n - 2) \o SlashJson)
      BY <3>2, <3>3, <3>4, <3>5, <3>6, LocationOfDid
    <3>8. first(n - 2) \o SlashJson = path
      <4>1. /\ n - 2 \in Nat /\ n = (n - 2) + 2
            /\ (n - 2) + 1 = n - 1 /\ (n - 2) + 2 = n
        BY <1>1, <3>1
      <4> QED
        BY <3>1, <3>3, <4>1, WithEnd
    <3>9. Expected(path) = path
      BY <1>1, <2>2, <3>1 DEF Expected
    <3> QED
      BY <3>7, <3>8, <3>9
  <2>3. CASE ~(Occurs(SlashJson, path, n - 1) /\ n > 1)
    <3>1. Cut(path) = path
      BY <2>1, <2>3
    <3>2. path # << >> => path[1] = Slash
      BY <1>1
    <3>3. Location(DidOf(url)) =
            <<url.host>> \o (IF path = << >> \/ path = <<Slash>> THEN HostDoc
                             ELSE path \o SlashJson)
      BY <1>1, <3>1, <3>2, LocationOfDid
    <3>4. n > 1 \/ path = << >> \/ path = <<Slash>>
      BY <1>1
    <3> QED
      BY <2>3, <3>3, <3>4 DEF Expected
  <2> QED
    BY <2>2, <2>3
<1> QED
  BY <1>3, <1>4

\* A name that the server has a route for leads to where the server has its
\* document, if it does not begin with "did.json" and has no ":".
LEMMA NameLocation ==
  ASSUME NEW name \in Seq(Pieces), name # << >>, Routable(name), name[1] # Json,
         \A x \in 1..Len(name) : name[x] # Colon
  PROVE  Location(DidOf(NameUrl(name))) = ServedAt(name)
<1> DEFINE path == <<Slash>> \o name
           n == Len(name)
<1>1. n \in Nat /\ n >= 1 /\ \A x \in 1..n : name[x] # Slash /\ name[x] # Colon
  BY EmptySeq DEF Routable
<1>2. <<Slash>> \in Seq(Pieces) /\ Len(<<Slash>>) = 1 /\ <<Slash>>[1] = Slash
  BY Words
<1>3. /\ path \in Seq(Pieces) /\ Len(path) = n + 1 /\ path[1] = Slash
      /\ \A x \in 1..(n + 1) : x # 1 => path[x] = name[x - 1] /\ x - 1 \in 1..n
  <2>1. /\ path \in Seq(Pieces) /\ Len(path) = 1 + n
        /\ \A i \in 1..(1 + n) : path[i] = IF i <= 1 THEN <<Slash>>[i] ELSE name[i - 1]
    BY <1>2, ConcatProperties
  <2> HIDE DEF path
  <2> QED
    BY <1>1, <1>2, <2>1
<1> HIDE DEF path
<1>4. \A x \in 1..(n + 1) : x # 1 => path[x] # Slash /\ path[x] # Colon
  BY <1>1, <1>3
<1>5. ASSUME NEW k \in 1..Len(path)
      PROVE  ~Occurs(WellKnownJson, path, k) /\ ~Occurs(SlashJson, path, k)
  <2>1. ASSUME Occurs(WellKnownJson, path, k) PROVE FALSE
    <3>1. k + 2 <= n + 1 /\ path[k + 1] = Slash
      BY <1>1, <1>3, <2>1, OccursThere
    <3>2. k + 1 \in 1..(n + 1) /\ k + 1 # 1
      BY <1>1, <1>3, <3>1
    <3> QED
      BY <1>4, <3>1, <3>2
  <2>2. ASSUME Occurs(SlashJson, path, k) PROVE FALSE
    <3>1. k + 1 <= n + 1 /\ path[k] = Slash /\ path[k + 1] = Json
      BY <1>1, <1>3, <2>2, OccursThere
    <3>2. k = 1
      BY <1>3, <1>4, <3>1
    <3>3. path[2] = name[1]
      BY <1>1, <1>3
    <3> QED
      BY <3>1, <3>2, <3>3
  <2> QED
    BY <2>1, <2>2
<1>6. Cut(path) = path
  <2>1. Without(WellKnownJson, path) = path
    BY <1>3, <1>5, WithoutNothing
  <2>2. Without(SlashJson, path) = path
    BY <1>3, <1>5, WithoutNothing
  <2> QED
    BY <2>1, <2>2 DEF Cut
<1>7. path # << >> /\ path # <<Slash>>
  BY <1>1, <1>3
<1>8. \A x \in 1..Len(path) : path[x] # Colon
  BY <1>3, <1>4, PiecesDiffer
<1>9. NameUrl(name).host = Base /\ NameUrl(name).path = path
  BY DEF NameUrl, path
<1>10. Location(DidOf(NameUrl(name))) = <<Base>> \o (path \o SlashJson)
  <2>1. Base \in Pieces \ {Slash, Colon}
    BY TextAssumption DEF TextAssumption
  <2> QED
    BY <1>3, <1>6, <1>7, <1>8, <1>9, <2>1, LocationOfDid
<1>11. <<Base>> \o (path \o SlashJson) = (<<Base, Slash>> \o name) \o SlashJson
  <2>1. /\ <<Base>> \in Seq(Pieces) /\ <<Base, Slash>> \in Seq(Pieces)
        /\ SlashJson \in Seq(Pieces)
    BY TextAssumption, Words DEF TextAssumption
  <2>2. <<Base>> \o (path \o SlashJson) = (<<Base>> \o path) \o SlashJson
    BY <1>3, <2>1, ConcatAssociative
  <2>3. <<Base>> \o (<<Slash>> \o name) = (<<Base>> \o <<Slash>>) \o name
    BY <1>2, <2>1, ConcatAssociative
  <2>4. <<Base>> \o <<Slash>> = <<Base, Slash>>
    BY <1>3, TextAssumption, Words, ShortTexts DEF TextAssumption
  <2> QED
    BY <2>2, <2>3, <2>4 DEF path
<1> QED
  BY <1>10, <1>11 DEF ServedAt

\* No two names are served at one place.
LEMMA ServedApart ==
  ASSUME NEW n \in Seq(Pieces), NEW m \in Seq(Pieces), ServedAt(n) = ServedAt(m)
  PROVE  n = m
<1>1. <<Base, Slash>> \in Seq(Pieces) /\ SlashJson \in Seq(Pieces)
  BY TextAssumption, Words DEF TextAssumption
<1>2. <<Base, Slash>> \o n \in Seq(Pieces) /\ <<Base, Slash>> \o m \in Seq(Pieces)
  BY <1>1, ConcatProperties
<1>3. <<Base, Slash>> \o n = <<Base, Slash>> \o m
  BY <1>1, <1>2, ConcatSimplifications DEF ServedAt
<1> QED
  BY <1>1, <1>3, ConcatSimplifications

-----------------------------------------------------------------------------
(* The inductive invariant                                                 *)

Live == {"key", "put", "sent", "store"}

\* What the arguments of r are where its handler stands, and once it has sent
\* its document.
Handler(r) ==
  /\ pc[r] = "idle" => req[r] = None /\ put[r] = "none"
  /\ (pc[r] \in Live \/ put[r] # "none") => req[r] \in Request
  /\ (pc[r] \in {"put", "sent"} \/ put[r] # "none") => req[r].url = None
  /\ pc[r] \in {"key", "put"} => put[r] = "none"

\* A request past making its key, and its document even when the handler is
\* gone, has that key in the wallet.
Keyed(r) ==
  (pc[r] \in {"put", "sent", "store"} \/ put[r] # "none") =>
    <<r, Kid(Did(r))>> \in kids

IInv == TypeOK /\ ServedKeyIsOurs /\ \A r \in Requests : Handler(r) /\ Keyed(r)

\* What a request asks for.
LEMMA RequestTypes ==
  ASSUME NEW r \in Requests, req[r] \in Request
  PROVE  /\ req[r] # None
         /\ Did(r) \in Dids
         /\ req[r].url = None => req[r].name \in Names
<1>1. req[r] # None
  BY NoneAssumption DEF NoneAssumption
<1>2. CASE req[r].url = None
  <2>1. req[r].name \in Names
    BY <1>2, NoneAssumption DEF Request, NoneAssumption
  <2> QED
    BY <1>1, <1>2, <2>1 DEF Did, Dids
<1>3. CASE req[r].url # None
  <2>1. req[r].url \in Urls
    BY <1>3 DEF Request
  <2> QED
    BY <1>1, <1>3, <2>1 DEF Did, Dids
<1> QED
  BY <1>2, <1>3

LEMMA InitIInv == Init => IInv
BY DEF Init, IInv, TypeOK, ServedKeyIsOurs, Handler, Keyed, Live

\* The steps that move one handler on and change nothing else.
LEMMA MoveStep ==
  ASSUME IInv, NEW r \in Requests,
         Refuse(r) \/ ServerAnswers(r) \/ Fails(r)
  PROVE  IInv'
<1>1. /\ UNCHANGED <<kids, dids, docs, req, put>>
      /\ \E label \in {"e400", "store", "e500"} :
           /\ pc' = [pc EXCEPT ![r] = label]
           /\ label = "store" => pc[r] = "sent"
  BY DEF Refuse, ServerAnswers, Fails, Goto
<1>2. TypeOK' /\ ServedKeyIsOurs'
  BY <1>1 DEF IInv, TypeOK, ServedKeyIsOurs
<1>3. ASSUME NEW q \in Requests PROVE Handler(q)' /\ Keyed(q)'
  <2>1. Did(q)' = Did(q)
    BY <1>1 DEF Did
  <2> QED
    BY <1>1, <2>1 DEF IInv, TypeOK, Handler, Keyed, Live
<1> QED
  BY <1>2, <1>3 DEF IInv

LEMMA ReceiveStep ==
  ASSUME IInv, NEW r \in Requests, Receive(r)
  PROVE  IInv'
<1>1. PICK a \in Request : req' = [req EXCEPT ![r] = a]
  BY DEF Receive
<1>2. /\ pc[r] = "idle" /\ put[r] = "none"
      /\ pc' = [pc EXCEPT ![r] = "key"]
      /\ UNCHANGED <<kids, dids, docs, put>>
  BY DEF Receive, Goto, IInv, Handler
<1>3. TypeOK' /\ ServedKeyIsOurs'
  BY <1>1, <1>2 DEF IInv, TypeOK, ServedKeyIsOurs
<1>4. Handler(r)' /\ Keyed(r)'
  BY <1>1, <1>2 DEF IInv, TypeOK, Handler, Keyed, Live
<1>5. ASSUME NEW q \in Requests, q # r PROVE Handler(q)' /\ Keyed(q)'
  <2>1. req'[q] = req[q] /\ pc'[q] = pc[q] /\ Did(q)' = Did(q)
    BY <1>1, <1>2, <1>5 DEF IInv, TypeOK, Did
  <2> QED
    BY <1>2, <2>1 DEF IInv, Handler, Keyed
<1> QED
  BY <1>3, <1>4, <1>5 DEF IInv

LEMMA CreateKeyStep ==
  ASSUME IInv, NEW r \in Requests, CreateKey(r)
  PROVE  IInv'
<1>1. /\ pc[r] = "key"
      /\ kids' = kids \cup {<<r, Kid(Did(r))>>}
      /\ pc' = [pc EXCEPT ![r] = IF req[r].url # None THEN "store" ELSE "put"]
      /\ UNCHANGED <<dids, docs, req, put>>
  BY DEF CreateKey, Goto
<1>2. req[r] \in Request /\ Did(r) \in Dids
  BY <1>1, RequestTypes DEF IInv, Handler, Live
<1>3. TypeOK'
  BY <1>1, <1>2 DEF IInv, TypeOK
<1>4. ServedKeyIsOurs'
  BY <1>1 DEF IInv, ServedKeyIsOurs
<1>5. ASSUME NEW q \in Requests PROVE Handler(q)' /\ Keyed(q)'
  <2>1. Did(q)' = Did(q)
    BY <1>1 DEF Did
  <2> QED
    BY <1>1, <1>2, <2>1 DEF IInv, TypeOK, Handler, Keyed, Live
<1> QED
  BY <1>3, <1>4, <1>5 DEF IInv

\* A document leaves, or is lost: wallet and server stay as they are.
LEMMA PutStep ==
  ASSUME IInv, NEW r \in Requests, SendDocument(r) \/ ServerDrops(r)
  PROVE  IInv'
<1>1. /\ UNCHANGED <<kids, dids, docs, req>>
      /\ \/ /\ pc[r] = "put" /\ pc' = [pc EXCEPT ![r] = "sent"]
            /\ put' = [put EXCEPT ![r] = "sent"]
         \/ /\ put[r] = "sent" /\ UNCHANGED pc
            /\ put' = [put EXCEPT ![r] = "dropped"]
  BY DEF SendDocument, ServerDrops, Goto
<1>2. TypeOK' /\ ServedKeyIsOurs'
  BY <1>1 DEF IInv, TypeOK, ServedKeyIsOurs
<1>3. ASSUME NEW q \in Requests PROVE Handler(q)' /\ Keyed(q)'
  <2>1. Did(q)' = Did(q)
    BY <1>1 DEF Did
  <2>2. Handler(q)'
    BY <1>1 DEF IInv, TypeOK, Handler, Live
  <2>3. Keyed(q)'
    BY <1>1, <2>1 DEF IInv, TypeOK, Keyed
  <2> QED
    BY <2>2, <2>3
<1> QED
  BY <1>2, <1>3 DEF IInv

LEMMA ServerStoresStep ==
  ASSUME IInv, NEW r \in Requests, ServerStores(r)
  PROVE  IInv'
<1>1. /\ put[r] = "sent"
      /\ docs' = [docs EXCEPT ![req[r].name] = Document(r)]
      /\ put' = [put EXCEPT ![r] = "done"]
      /\ UNCHANGED <<kids, dids, pc, req>>
  BY DEF ServerStores
<1>2. Did(r) \in Dids /\ req[r].name \in Names /\ <<r, Kid(Did(r))>> \in kids
  BY <1>1, RequestTypes DEF IInv, Handler, Keyed
<1>3. TypeOK'
  <2>1. Document(r) \in Docs
    BY <1>2 DEF Document, Docs
  <2> QED
    BY <1>1, <1>2, <2>1 DEF IInv, TypeOK
<1>4. ServedKeyIsOurs'
  BY <1>1, <1>2 DEF IInv, TypeOK, ServedKeyIsOurs, Document
<1>5. ASSUME NEW q \in Requests PROVE Handler(q)' /\ Keyed(q)'
  <2>1. Did(q)' = Did(q)
    BY <1>1 DEF Did
  <2>2. Handler(q)'
    BY <1>1 DEF IInv, TypeOK, Handler, Live
  <2>3. Keyed(q)'
    BY <1>1, <2>1 DEF IInv, TypeOK, Keyed
  <2> QED
    BY <2>2, <2>3
<1> QED
  BY <1>3, <1>4, <1>5 DEF IInv

LEMMA StoreDidStep ==
  ASSUME IInv, NEW r \in Requests, StoreDid(r)
  PROVE  IInv'
<1>1. /\ pc[r] = "store"
      /\ dids' = dids \cup {[did |-> Did(r), key |-> r]}
      /\ pc' = [pc EXCEPT ![r] = "ok"]
      /\ UNCHANGED <<kids, docs, req, put>>
  BY DEF StoreDid, Goto
<1>2. Did(r) \in Dids
  BY <1>1, RequestTypes DEF IInv, Handler, Live
<1>3. TypeOK' /\ ServedKeyIsOurs'
  BY <1>1, <1>2 DEF IInv, TypeOK, ServedKeyIsOurs
<1>4. ASSUME NEW q \in Requests PROVE Handler(q)' /\ Keyed(q)'
  <2>1. Did(q)' = Did(q)
    BY <1>1 DEF Did
  <2> QED
    BY <1>1, <2>1 DEF IInv, TypeOK, Handler, Keyed, Live
<1> QED
  BY <1>3, <1>4 DEF IInv

LEMMA RestartStep ==
  ASSUME IInv, AgentRestart \/ ServerRestart
  PROVE  IInv'
<1>1. /\ UNCHANGED <<kids, dids, req, put>>
      /\ docs' = docs \/ docs' = [n \in Names |-> None]
      /\ \A q \in Requests : pc'[q] = pc[q] \/ pc'[q] = "lost"
      /\ pc' = [q \in Requests |-> pc'[q]]
  BY DEF AgentRestart, ServerRestart, IInv, TypeOK
<1>2. TypeOK' /\ ServedKeyIsOurs'
  BY <1>1 DEF IInv, TypeOK, ServedKeyIsOurs
<1>3. ASSUME NEW q \in Requests PROVE Handler(q)' /\ Keyed(q)'
  <2>1. Did(q)' = Did(q)
    BY <1>1 DEF Did
  <2> QED
    BY <1>1, <2>1 DEF IInv, Handler, Keyed, Live
<1> QED
  BY <1>2, <1>3 DEF IInv

LEMMA NextIInv == IInv /\ [Next]_vars => IInv'
<1> SUFFICES ASSUME IInv, [Next]_vars PROVE IInv'
  OBVIOUS
<1>1. ASSUME NEW r \in Requests, Handle(r) PROVE IInv'
  BY <1>1, MoveStep, ReceiveStep, CreateKeyStep, PutStep, ServerStoresStep,
     StoreDidStep DEF Handle
<1>2. CASE AgentRestart \/ ServerRestart
  BY <1>2, RestartStep
<1>3. CASE UNCHANGED vars
  BY <1>3 DEF vars, IInv, TypeOK, ServedKeyIsOurs, Handler, Keyed, Did
<1> QED
  BY <1>1, <1>2, <1>3 DEF Next

-----------------------------------------------------------------------------
(* Which names reach the wallet                                            *)

\* A document that the server has taken, and so a DID that is stored for one, is
\* of a name that the server has a route for.
Routed(r) ==
  /\ pc[r] = "ok" => req[r] \in Request
  /\ put[r] = "done" => Routable(req[r].name)
  /\ pc[r] \in {"store", "ok"} /\ req[r].url = None => Routable(req[r].name)

LEMMA NextRouted ==
  ASSUME IInv, \A r \in Requests : Routed(r), [Next]_vars, NEW q \in Requests
  PROVE  Routed(q)'
<1>1. ASSUME NEW r \in Requests, Refuse(r) \/ Fails(r) PROVE Routed(q)'
  BY <1>1 DEF Refuse, Fails, Goto, Routed, IInv, TypeOK
<1>2. ASSUME NEW r \in Requests, Receive(r) PROVE Routed(q)'
  <2>1. PICK a \in Request : req' = [req EXCEPT ![r] = a]
    BY <1>2 DEF Receive
  <2>2. put[r] = "none" /\ pc' = [pc EXCEPT ![r] = "key"] /\ UNCHANGED put
    BY <1>2 DEF Receive, Goto, IInv, Handler
  <2> QED
    BY <2>1, <2>2 DEF Routed, IInv, TypeOK
<1>3. ASSUME NEW r \in Requests, CreateKey(r) PROVE Routed(q)'
  <2>1. /\ pc' = [pc EXCEPT ![r] = IF req[r].url # None THEN "store" ELSE "put"]
        /\ UNCHANGED <<req, put>>
    BY <1>3 DEF CreateKey, Goto
  <2> QED
    BY <2>1 DEF Routed, IInv, TypeOK
<1>4. ASSUME NEW r \in Requests, SendDocument(r) \/ ServerDrops(r) PROVE Routed(q)'
  BY <1>4 DEF SendDocument, ServerDrops, Goto, Routed, IInv, TypeOK
<1>5. ASSUME NEW r \in Requests, ServerStores(r) PROVE Routed(q)'
  BY <1>5 DEF ServerStores, Routed, IInv, TypeOK
<1>6. ASSUME NEW r \in Requests, ServerAnswers(r) PROVE Routed(q)'
  BY <1>6 DEF ServerAnswers, Goto, Routed, IInv, TypeOK
<1>7. ASSUME NEW r \in Requests, StoreDid(r) PROVE Routed(q)'
  <2>1. req[r] \in Request
    BY <1>7 DEF StoreDid, IInv, Handler, Live
  <2> QED
    BY <1>7, <2>1 DEF StoreDid, Goto, Routed, IInv, TypeOK
<1>8. CASE AgentRestart \/ ServerRestart \/ UNCHANGED vars
  <2>1. UNCHANGED <<req, put>> /\ (pc'[q] = pc[q] \/ pc'[q] = "lost")
    BY <1>8 DEF AgentRestart, ServerRestart, vars
  <2> QED
    BY <2>1 DEF Routed
<1> QED
  BY <1>1, <1>2, <1>3, <1>4, <1>5, <1>6, <1>7, <1>8 DEF Next, Handle

LEMMA InitRouted == Init => \A r \in Requests : Routed(r)
BY DEF Init, Routed

LEMMA RoutedAlways == Spec => [](IInv /\ \A r \in Requests : Routed(r))
<1>1. Init => IInv /\ \A r \in Requests : Routed(r)
  BY InitIInv, InitRouted
<1>2. IInv /\ (\A r \in Requests : Routed(r)) /\ [Next]_vars
        => IInv' /\ (\A r \in Requests : Routed(r))'
  BY NextIInv, NextRouted
<1> QED
  BY <1>1, <1>2, PTL DEF Spec

-----------------------------------------------------------------------------
(* Results                                                                 *)

\* The wallet, the server and the handlers always have their types.
THEOREM WebTypeCorrect == Spec => []TypeOK
<1>1. Init => IInv
  BY InitIInv
<1>2. IInv /\ [Next]_vars => IInv'
  BY NextIInv
<1>3. IInv => TypeOK
  BY DEF IInv
<1> QED
  BY <1>1, <1>2, <1>3, PTL DEF Spec

\* The wallet has the key of every document the server shows, however late or
\* often documents were put.
THEOREM ServedKeys == Spec => []ServedKeyIsOurs
<1>1. Init => IInv
  BY InitIInv
<1>2. IInv /\ [Next]_vars => IInv'
  BY NextIInv
<1>3. IInv => ServedKeyIsOurs
  BY DEF IInv
<1> QED
  BY <1>1, <1>2, <1>3, PTL DEF Spec

\* A DID whose document the server has lost or replaced never gets it back: what
\* is put later has the key of the request that puts it.
THEOREM NoWayBack == Spec => DivergedForever
<1>1. Init => IInv
  BY InitIInv
<1>2. IInv /\ [Next]_vars => IInv'
  BY NextIInv
<1>3. ASSUME IInv, [Next]_vars, NEW n \in Names, Diverged(n)
      PROVE  Diverged(n)'
  <2>1. PICK d \in dids :
          /\ d.did = DidOfName[n]
          /\ \E r \in Requests : put[r] = "done" /\ req[r].name = n /\ d.key = r
          /\ docs[n] = None \/ docs[n].key # d.key
    BY <1>3 DEF Diverged
  <2>2. PICK r \in Requests : put[r] = "done" /\ req[r].name = n /\ d.key = r
    BY <2>1
  <2>3. d \in dids'
    BY <1>3
    DEF Next, Handle, Refuse, Receive, CreateKey, SendDocument, ServerStores,
        ServerDrops, ServerAnswers, StoreDid, Fails, AgentRestart,
        ServerRestart, vars
  <2>4. put'[r] = "done"
    BY <1>3, <2>2
    DEF Next, Handle, Refuse, Receive, CreateKey, SendDocument, ServerStores,
        ServerDrops, ServerAnswers, StoreDid, Fails, AgentRestart,
        ServerRestart, vars, IInv, TypeOK, Handler
  <2>5. req'[r] = req[r]
    BY <1>3, <2>2
    DEF Next, Handle, Refuse, Receive, CreateKey, SendDocument, ServerStores,
        ServerDrops, ServerAnswers, StoreDid, Fails, AgentRestart,
        ServerRestart, vars, IInv, TypeOK, Handler
  <2>6. docs'[n] = None \/ docs'[n].key # r
    <3>1. ASSUME NEW q \in Requests, ServerStores(q)
          PROVE  docs'[n] = docs[n] \/ docs'[n].key # r
      <4>1. q # r /\ docs' = [docs EXCEPT ![req[q].name] = Document(q)]
        BY <2>2, <3>1 DEF ServerStores
      <4>2. Document(q).key = q
        BY DEF Document
      <4> QED
        BY <1>3, <4>1, <4>2 DEF IInv, TypeOK
    <3>2. \/ \E q \in Requests : ServerStores(q)
          \/ docs'[n] = docs[n]
          \/ docs'[n] = None
      BY <1>3
      DEF Next, Handle, Refuse, Receive, CreateKey, SendDocument, ServerDrops,
          ServerAnswers, StoreDid, Fails, AgentRestart, ServerRestart, vars
    <3> QED
      BY <2>1, <2>2, <3>1, <3>2
  <2> QED
    BY <2>1, <2>2, <2>3, <2>4, <2>5, <2>6 DEF Diverged
<1>4. IInv /\ [Next]_vars => [\A n \in Names : Diverged(n) => Diverged(n)']_vars
  BY <1>3
<1> QED
  BY <1>1, <1>2, <1>4, PTL DEF Spec, DivergedForever

\* Of any name but those that begin with "did.json" or have a ":", the DID that
\* was stored for it is resolved to where the server shows its document, and to
\* no other name's.
THEOREM NamesResolve == Spec => []ResolvesToItsName
<1>1. ASSUME IInv, \A r \in Requests : Routed(r) PROVE ResolvesToItsName
  <2> SUFFICES ASSUME NEW r \in Requests, NEW n \in Names,
                      pc[r] = "ok", req[r].url = None, req[r].name[1] # Json,
                      \A i \in 1..Len(req[r].name) : req[r].name[i] # Colon
               PROVE  Location(Did(r)) = ServedAt(n) <=> n = req[r].name
    BY DEF ResolvesToItsName
  <2>1. /\ req[r].name \in Names /\ Routable(req[r].name)
        /\ Did(r) = DidOf(NameUrl(req[r].name))
    BY <1>1, RequestTypes DEF Routed, Did, DidOfName
  <2>2. n \in Seq(Pieces) /\ req[r].name \in Seq(Pieces) /\ req[r].name # << >>
    BY <2>1, TextAssumption DEF TextAssumption
  <2>3. Location(Did(r)) = ServedAt(req[r].name)
    BY <2>1, <2>2, NameLocation
  <2> QED
    BY <2>2, <2>3, ServedApart
<1> QED
  BY <1>1, RoutedAlways, PTL

\* Whatever the URL, as long as it is that of a document or a directory, the DID
\* is resolved to it.
THEOREM UrlsResolve == Spec => []UrlIsLocation
<1>1. ASSUME IInv, \A r \in Requests : Routed(r) PROVE UrlIsLocation
  <2> SUFFICES ASSUME NEW r \in Requests, pc[r] = "ok", req[r].url # None,
                      Plain(req[r].url.path)
               PROVE  Location(Did(r)) =
                        <<req[r].url.host>> \o Expected(req[r].url.path)
    BY DEF UrlIsLocation, Expected, HostDoc
  <2>1. req[r].url \in Urls /\ Did(r) = DidOf(req[r].url)
    BY <1>1 DEF Routed, Did, DidOfUrl, Request
  <2>2. req[r].url.path \in Seq(Pieces) /\ req[r].url.host \in Pieces \ {Slash, Colon}
    BY <2>1, TextAssumption DEF TextAssumption
  <2> QED
    BY <2>1, <2>2, PlainLocation
<1> QED
  BY <1>1, RoutedAlways, PTL

=============================================================================
