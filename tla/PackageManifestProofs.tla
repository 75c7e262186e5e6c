------------------------ MODULE PackageManifestProofs ------------------------
(* Theorems about PackageManifest: a manifest is whole, a folder and the zip *)
(* packed from it have the same hash, and each promise settles once.         *)
EXTENDS PackageManifest, FiniteSetTheorems, TLAPS

(***************************************************************************)
(* The first k entries of the zip                                          *)
(***************************************************************************)

\* Entries that count, and those of one name among them.
CountsTo(k) == {i \in 1..k : ~isIgnored(normalizePath(zip[i].name))}
NamedTo(k, n) == {i \in CountsTo(k) : normalizePath(zip[i].name) = n}

DigestTo(k) ==
    [n \in {normalizePath(zip[i].name) : i \in CountsTo(k)} |->
        zip[CHOOSE i \in NamedTo(k, n) : \A j \in NamedTo(k, n) : j <= i].content]

Shapes ==
    /\ files \in Trees
    /\ zip \in Seq(Entry)
    /\ packed /\ ~touched => zip \in Packed(files)
    /\ map = [s \in Source |-> map[s]]
    /\ result = [s \in Source |-> result[s]]
    /\ pc["zip"] = "hashing" => next <= Len(zip) /\ ~isIgnored(EntryName)

\* The map of a zip is what the entries before the next one say, and a manifest
\* is made of it only when there is none left.
ZipInv ==
    /\ map["zip"] = DigestTo(next - 1)
    /\ result["zip"] # <<>> /\ result["zip"][1].kind = "manifest" => next > Len(zip)

\* What TypeOK says of one of the two functions.
OfSource(s) ==
    /\ pc[s] \in {"start", "reading", "hashing", "settled"}
    /\ DOMAIN map[s] \subseteq Normalized
    /\ \A n \in DOMAIN map[s] : map[s][n] \in Content
    /\ result[s] \in {<<>>, <<Null>>, <<Rejected>>, <<Manifest(map[s])>>}
    /\ pc[s] # "settled" <=> result[s] = <<>>

Globals ==
    /\ DOMAIN files \subseteq Name
    /\ touched \in BOOLEAN /\ packed \in BOOLEAN /\ zipOpen \in BOOLEAN
    /\ next \in 1..(Len(zip) + 1)
    /\ todo \subseteq Name
    /\ pc = [s \in Source |-> pc[s]]
    /\ pc["zip"] \in {"reading", "hashing"} => zipOpen

IInv == Globals /\ (\A s \in Source : OfSource(s)) /\ Shapes /\ ZipInv

-----------------------------------------------------------------------------
LEMMA TypeOKParts == TypeOK <=> Globals /\ \A s \in Source : OfSource(s)
<1>1. TypeOK => Globals /\ \A s \in Source : OfSource(s)
  BY DEF TypeOK, Globals, OfSource
<1>2. ASSUME Globals, \A s \in Source : OfSource(s) PROVE TypeOK
  <2>1. pc \in [Source -> {"start", "reading", "hashing", "settled"}]
    BY <1>2 DEF Globals, OfSource
  <2> QED BY <1>2, <2>1 DEF TypeOK, Globals, OfSource
<1> QED BY <1>1, <1>2

LEMMA EntryOf ==
    ASSUME NEW z \in Seq(Entry), NEW i \in 1..Len(z)
    PROVE  z[i].name \in Name /\ z[i].content \in Content
<1>1. z[i] \in Entry
  OBVIOUS
<1> QED BY <1>1 DEF Entry

LEMMA PackedTyped ==
    ASSUME NEW t \in Trees, NEW z \in Packed(t)
    PROVE  z \in Seq(Entry)
<1>1. IsFiniteSet(DOMAIN t) /\ DOMAIN t \subseteq Name /\ t \in [DOMAIN t -> Content]
  BY ManifestAssumption
<1>2. Cardinality(DOMAIN t) \in Nat
  BY <1>1, FS_CardinalityType
<1>3. PICK order \in [1..Cardinality(DOMAIN t) -> DOMAIN t] :
          z = [i \in DOMAIN order |-> [name |-> slash(order[i]), content |-> t[order[i]]]]
  BY DEF Packed
<1>4. DOMAIN order = 1..Cardinality(DOMAIN t)
  BY <1>3
<1>5. \A i \in 1..Cardinality(DOMAIN t) :
          [name |-> slash(order[i]), content |-> t[order[i]]] \in Entry
  BY <1>1, <1>3, NamesAssumption DEF Entry
<1>6. z \in [1..Cardinality(DOMAIN t) -> Entry]
  BY <1>3, <1>4, <1>5
<1> QED BY <1>2, <1>6

LEMMA InitOK == Init => IInv
<1> SUFFICES ASSUME Init PROVE IInv
  OBVIOUS
<1>1. zip \in Seq(Entry)
  BY PackedTyped, ManifestAssumption DEF Init
<1>2. DOMAIN files \subseteq Name
  BY ManifestAssumption DEF Init
<1>3. Len(zip) \in Nat
  BY <1>1
<1>4. TypeOK
  <2>1. next \in 1..(Len(zip) + 1)
    BY <1>3 DEF Init
  <2>2. ASSUME NEW s \in Source
        PROVE  map[s] = EmptyMap /\ result[s] = <<>> /\ pc[s] = "start"
    BY DEF Init
  <2>3. DOMAIN EmptyMap = {}
    BY DEF EmptyMap
  <2> QED BY <1>2, <2>1, <2>2, <2>3 DEF Init, TypeOK, Source
<1>5. Shapes
  BY <1>1 DEF Init, Shapes, Source
<1>6. DigestTo(0) = EmptyMap
  <2>1. CountsTo(0) = {}
    BY DEF CountsTo
  <2> QED BY <2>1 DEF DigestTo, EmptyMap
<1>7. ZipInv
  BY <1>6 DEF Init, ZipInv, Source
<1> QED BY <1>4, <1>5, <1>7, TypeOKParts DEF IInv

-----------------------------------------------------------------------------
(* The map of a zip grows by one entry at a time.                          *)

LEMMA PassedOver ==
    ASSUME NEW k \in Nat, isIgnored(normalizePath(zip[k + 1].name))
    PROVE  DigestTo(k + 1) = DigestTo(k)
<1> DEFINE Last(C, n) ==
               CHOOSE i \in {c \in C : normalizePath(zip[c].name) = n} :
                   \A j \in {c \in C : normalizePath(zip[c].name) = n} : j <= i
           Digests(C) == [n \in {normalizePath(zip[i].name) : i \in C} |-> zip[Last(C, n)].content]
<1>1. CountsTo(k + 1) = CountsTo(k)
  BY DEF CountsTo
<1>2. DigestTo(k + 1) = Digests(CountsTo(k + 1)) /\ DigestTo(k) = Digests(CountsTo(k))
  BY DEF DigestTo, NamedTo
<1> HIDE DEF Digests
<1> QED BY <1>1, <1>2

LEMMA HashedNext ==
    ASSUME NEW k \in Nat, ~isIgnored(normalizePath(zip[k + 1].name))
    PROVE  DigestTo(k + 1) =
               Set(DigestTo(k), normalizePath(zip[k + 1].name), zip[k + 1].content)
<1> DEFINE name == normalizePath(zip[k + 1].name)
           Last(K, n) == CHOOSE i \in NamedTo(K, n) : \A j \in NamedTo(K, n) : j <= i
           Names(K) == {normalizePath(zip[i].name) : i \in CountsTo(K)}
<1>1. CountsTo(k + 1) = CountsTo(k) \cup {k + 1}
  BY DEF CountsTo
<1>2. Names(k + 1) = Names(k) \cup {name}
  BY <1>1
<1>3. \A K : DigestTo(K) = [n \in Names(K) |-> zip[Last(K, n)].content]
  BY DEF DigestTo
<1>4. \A n : n # name => NamedTo(k + 1, n) = NamedTo(k, n)
  BY <1>1 DEF NamedTo
<1>5. \A n : n # name => Last(k + 1, n) = Last(k, n)
  BY <1>4
<1>6. Last(k + 1, name) = k + 1
  <2>1. k + 1 \in NamedTo(k + 1, name)
    BY <1>1 DEF NamedTo
  <2>2. \A j \in NamedTo(k + 1, name) : j \in Nat /\ j <= k + 1
    BY DEF NamedTo, CountsTo
  <2> QED BY <2>1, <2>2
<1> HIDE DEF Last, name, Names
<1>7. DOMAIN DigestTo(k) = Names(k)
  BY <1>3
<1>8. ASSUME NEW n \in Names(k + 1)
      PROVE  zip[Last(k + 1, n)].content =
                 IF n = name THEN zip[k + 1].content ELSE DigestTo(k)[n]
  <2>1. CASE n = name
    BY <1>6, <2>1
  <2>2. CASE n # name
    BY <1>2, <1>3, <1>5, <2>2
  <2> QED BY <2>1, <2>2
<1>9. DigestTo(k + 1) =
          [n \in Names(k) \cup {name} |->
              IF n = name THEN zip[k + 1].content ELSE DigestTo(k)[n]]
  BY <1>2, <1>3, <1>8
<1> QED BY <1>7, <1>9 DEF Set, name

-----------------------------------------------------------------------------
(* Steps                                                                   *)

LEMMA Untouched ==
    ASSUME NEW s \in Source, OfSource(s),
           pc'[s] = pc[s], map'[s] = map[s], result'[s] = result[s]
    PROVE  OfSource(s)'
BY DEF OfSource

LEMMA Settles ==
    ASSUME NEW s \in Source, OfSource(s), pc[s] # "settled",
           NEW r \in {Null, Rejected, Manifest(map[s])}, Settle(s, r),
           pc = [q \in Source |-> pc[q]], result = [q \in Source |-> result[q]],
           map'[s] = map[s]
    PROVE  /\ OfSource(s)'
           /\ pc' = [pc EXCEPT ![s] = "settled"] /\ pc'[s] = "settled"
           /\ result' = [result EXCEPT ![s] = <<r>>] /\ result'[s] = <<r>>
           /\ \A q \in Source \ {s} : pc'[q] = pc[q] /\ result'[q] = result[q]
<1>1. result[s] = <<>>
  BY DEF OfSource
<1>2. result' = [result EXCEPT ![s] = <<r>>] /\ pc' = [pc EXCEPT ![s] = "settled"]
  BY <1>1 DEF Settle
<1>3. result'[s] = <<r>> /\ pc'[s] = "settled"
  BY <1>2
<1>4. OfSource(s)'
  BY <1>3 DEF OfSource
<1> QED BY <1>2, <1>3, <1>4

LEMMA GoesOn ==
    ASSUME NEW s \in Source, OfSource(s), pc[s] # "settled",
           NEW l \in {"start", "reading", "hashing"}, GoTo(s, l),
           pc = [q \in Source |-> pc[q]],
           DOMAIN map'[s] \subseteq Normalized, \A n \in DOMAIN map'[s] : map'[s][n] \in Content
    PROVE  /\ OfSource(s)'
           /\ pc' = [pc EXCEPT ![s] = l] /\ pc'[s] = l
           /\ result' = result
           /\ \A q \in Source \ {s} : pc'[q] = pc[q]
<1>1. pc' = [pc EXCEPT ![s] = l] /\ pc'[s] = l /\ result' = result
  BY DEF GoTo
<1>2. OfSource(s)'
  BY <1>1 DEF OfSource
<1> QED BY <1>1, <1>2

\* Zip and next as they were: so is what the entries before the next one say.
LEMMA SameDigest ==
    ASSUME UNCHANGED <<zip, next>>
    PROVE  DigestTo(next - 1)' = DigestTo(next - 1)
BY DEF DigestTo, CountsTo, NamedTo

LEMMA NextDigest ==
    ASSUME next \in Nat, next' = next + 1, zip' = zip
    PROVE  DigestTo(next - 1)' = DigestTo(next)
<1>1. next' - 1 = next
  OBVIOUS
<1>2. \A k : DigestTo(k)' = DigestTo(k)
  BY DEF DigestTo, CountsTo, NamedTo
<1> QED BY <1>1, <1>2

\* A promise is settled, and nothing else happens but the closing of the zip.
LEMMA SettleStep ==
    ASSUME IInv, NEW s \in Source, pc[s] # "settled",
           NEW r \in {Null, Rejected, Manifest(map[s])}, Settle(s, r),
           UNCHANGED <<world, next, map>>, todo' \subseteq Name,
           zipOpen' \in BOOLEAN, s # "zip" => zipOpen' = zipOpen,
           s = "zip" /\ r.kind = "manifest" => next > Len(zip)
    PROVE  IInv'
<1>1. /\ UNCHANGED <<files, touched, zip, packed, next, map>> /\ "zip" \in Source
      /\ Globals /\ Shapes /\ \A q \in Source : OfSource(q)
  BY DEF world, IInv, Source
<1>2. /\ OfSource(s)' /\ pc' = [pc EXCEPT ![s] = "settled"]
      /\ result' = [result EXCEPT ![s] = <<r>>] /\ result'[s] = <<r>>
      /\ pc'[s] = "settled"
      /\ \A q \in Source \ {s} : pc'[q] = pc[q] /\ result'[q] = result[q]
  BY <1>1, Settles DEF Globals, Shapes
<1>3. \A q \in Source : OfSource(q)'
  BY <1>1, <1>2, Untouched
<1>4. Globals'
  BY <1>1, <1>2 DEF Globals
<1>5. Shapes'
  BY <1>1, <1>2 DEF Shapes, EntryName
<1>6. ZipInv'
  BY <1>1, <1>2, SameDigest DEF IInv, ZipInv
<1> QED BY <1>3, <1>4, <1>5, <1>6 DEF IInv

\* One of the functions goes on, with its map as it was.
LEMMA GoStep ==
    ASSUME IInv, NEW s \in Source, pc[s] # "settled",
           NEW l \in {"reading", "hashing"}, GoTo(s, l),
           UNCHANGED <<world, next, map>>, todo' \subseteq Name,
           zipOpen' \in BOOLEAN,
           IF s = "zip" THEN zipOpen' ELSE zipOpen' = zipOpen,
           s = "zip" /\ l = "hashing" => next <= Len(zip) /\ ~isIgnored(EntryName)
    PROVE  IInv'
<1>1. /\ UNCHANGED <<files, touched, zip, packed, next, map>> /\ "zip" \in Source
      /\ Globals /\ Shapes /\ \A q \in Source : OfSource(q)
  BY DEF world, IInv, Source
<1>2. /\ OfSource(s)' /\ pc' = [pc EXCEPT ![s] = l]
      /\ pc'[s] = l /\ result' = result
      /\ \A q \in Source \ {s} : pc'[q] = pc[q]
  BY <1>1, GoesOn DEF Globals, OfSource
<1>3. \A q \in Source : OfSource(q)'
  BY <1>1, <1>2, Untouched
<1>4. Globals'
  BY <1>1, <1>2 DEF Globals
<1>5. Shapes'
  BY <1>1, <1>2 DEF Shapes, EntryName
<1>6. ZipInv'
  BY <1>1, <1>2, SameDigest DEF IInv, ZipInv
<1> QED BY <1>3, <1>4, <1>5, <1>6 DEF IInv

LEMMA OpenOK == IInv /\ Open => IInv'
<1> SUFFICES ASSUME IInv, Open PROVE IInv'
  OBVIOUS
<1>1. /\ "zip" \in Source /\ pc["zip"] # "settled"
      /\ UNCHANGED <<world, next, map>> /\ todo' \subseteq Name
  BY DEF Open, Source, IInv, Globals
<1>2. CASE Settle("zip", Null) /\ UNCHANGED zipOpen
  BY <1>1, <1>2, SettleStep DEF Null, IInv, Globals
<1>3. CASE GoTo("zip", "reading") /\ zipOpen' = TRUE
  BY <1>1, <1>3, GoStep
<1> QED BY <1>2, <1>3 DEF Open

\* The next entry is passed over, without a change of anything else.
LEMMA PassOverOK ==
    ASSUME IInv, pc["zip"] = "reading", next <= Len(zip), isIgnored(EntryName),
           next' = next + 1, UNCHANGED <<world, zipOpen, todo, pc, map, result>>
    PROVE  IInv'
<1>1. /\ UNCHANGED <<files, touched, zip, packed>>
      /\ Globals /\ Shapes /\ \A q \in Source : OfSource(q)
      /\ Len(zip) \in Nat /\ next \in Nat \ {0}
  BY DEF world, IInv, Globals, Shapes
<1>2. \A q \in Source : OfSource(q)'
  BY <1>1, Untouched
<1>3. Globals'
  BY <1>1 DEF Globals
<1>4. Shapes'
  BY <1>1 DEF Shapes
<1>5. DigestTo(next) = DigestTo(next - 1)
  <2>1. next - 1 \in Nat /\ (next - 1) + 1 = next
    BY <1>1
  <2> QED BY <2>1, PassedOver DEF EntryName
<1>6. DigestTo(next - 1)' = DigestTo(next)
  BY <1>1, NextDigest
<1>7. result'["zip"] = result["zip"] /\ result["zip"] = <<>>
  BY <1>1 DEF OfSource, Source
<1>8. ZipInv'
  BY <1>5, <1>6, <1>7 DEF IInv, ZipInv
<1> QED BY <1>2, <1>3, <1>4, <1>8 DEF IInv

LEMMA ReadEntryOK == IInv /\ ReadEntry => IInv'
<1> SUFFICES ASSUME IInv, ReadEntry PROVE IInv'
  OBVIOUS
<1>1. /\ "zip" \in Source /\ pc["zip"] = "reading" /\ next <= Len(zip)
      /\ UNCHANGED <<world, zipOpen, todo, map>>
      /\ todo' \subseteq Name /\ zipOpen
  BY DEF ReadEntry, Source, IInv, Globals
<1>2. CASE isIgnored(EntryName)
  BY <1>1, <1>2, PassOverOK DEF ReadEntry
<1>3. CASE ~isIgnored(EntryName)
  <2>1. next' = next /\ (GoTo("zip", "hashing") \/ Settle("zip", Rejected))
    BY <1>3 DEF ReadEntry
  <2>2. zipOpen' \in BOOLEAN /\ Rejected.kind # "manifest"
    BY <1>1 DEF IInv, Globals, Rejected
  <2>3. CASE GoTo("zip", "hashing")
    BY <1>1, <1>3, <2>1, <2>2, <2>3, GoStep
  <2>4. CASE Settle("zip", Rejected)
    BY <1>1, <2>1, <2>2, <2>4, SettleStep
  <2> QED BY <2>1, <2>3, <2>4
<1> QED BY <1>2, <1>3

LEMMA HashedOK == IInv /\ Hashed => IInv'
<1> SUFFICES ASSUME IInv, Hashed PROVE IInv'
  OBVIOUS
<1>1. /\ UNCHANGED <<files, touched, zip, packed, zipOpen, todo>> /\ "zip" \in Source
      /\ Globals /\ Shapes /\ \A q \in Source : OfSource(q)
      /\ Len(zip) \in Nat /\ next \in Nat \ {0} /\ next' = next + 1
      /\ pc["zip"] = "hashing" /\ next <= Len(zip) /\ ~isIgnored(EntryName)
  BY DEF Hashed, world, IInv, Globals, Shapes, Source
<1>2. EntryName \in Normalized /\ zip[next].content \in Content
  BY <1>1, EntryOf DEF Shapes, EntryName, Normalized
<1>3. /\ map' = [map EXCEPT !["zip"] = Set(map["zip"], EntryName, zip[next].content)]
      /\ map'["zip"] = Set(map["zip"], EntryName, zip[next].content)
  BY <1>1 DEF Hashed, Shapes
<1>4. /\ DOMAIN map'["zip"] \subseteq Normalized
      /\ \A n \in DOMAIN map'["zip"] : map'["zip"][n] \in Content
  BY <1>1, <1>2, <1>3 DEF Set, OfSource
<1>5. /\ OfSource("zip")' /\ pc' = [pc EXCEPT !["zip"] = "reading"]
      /\ pc'["zip"] = "reading" /\ result' = result
      /\ \A q \in Source \ {"zip"} : pc'[q] = pc[q]
  BY <1>1, <1>4, GoesOn DEF Globals, OfSource, Hashed
<1>6. \A q \in Source : OfSource(q)'
  BY <1>1, <1>3, <1>5, Untouched DEF Shapes
<1>7. Globals'
  BY <1>1, <1>5 DEF Globals
<1>8. Shapes'
  BY <1>1, <1>3, <1>5 DEF Shapes
<1>9. DigestTo(next) = map'["zip"]
  <2>1. next - 1 \in Nat /\ (next - 1) + 1 = next
    BY <1>1
  <2>2. DigestTo(next) =
            Set(DigestTo(next - 1), normalizePath(zip[next].name), zip[next].content)
    BY <1>1, <2>1, HashedNext DEF EntryName
  <2> QED BY <1>3, <2>2 DEF IInv, ZipInv, EntryName
<1>10. DigestTo(next - 1)' = DigestTo(next)
  BY <1>1, NextDigest
<1>11. result'["zip"] = <<>>
  BY <1>1, <1>5 DEF OfSource
<1>12. ZipInv'
  BY <1>9, <1>10, <1>11 DEF ZipInv
<1> QED BY <1>6, <1>7, <1>8, <1>12 DEF IInv

LEMMA ZipEndsOK == IInv /\ (HashFailed \/ ReadingEnds \/ Close) => IInv'
<1> SUFFICES ASSUME IInv, HashFailed \/ ReadingEnds \/ Close PROVE IInv'
  OBVIOUS
<1>1. /\ "zip" \in Source /\ UNCHANGED <<world, next, todo, map>>
      /\ todo' \subseteq Name /\ zipOpen' \in BOOLEAN
      /\ Rejected.kind # "manifest"
  BY DEF HashFailed, ReadingEnds, Close, IInv, Globals, Source, Rejected
<1>2. CASE HashFailed
  BY <1>1, <1>2, SettleStep DEF HashFailed
<1>3. CASE ReadingEnds
  <2>1. pc["zip"] = "reading"
    BY <1>3 DEF ReadingEnds
  <2>2. CASE Settle("zip", Rejected)
    BY <1>1, <2>1, <2>2, SettleStep
  <2>3. CASE next > Len(zip) /\ Settle("zip", Manifest(map["zip"]))
    BY <1>1, <2>1, <2>3, SettleStep
  <2> QED BY <1>3, <2>2, <2>3 DEF ReadingEnds
<1>4. CASE Close
  <2>1. UNCHANGED <<files, touched, zip, packed, pc, result, next, todo, map>>
    BY <1>4 DEF Close, world
  <2>2. \A q \in Source : OfSource(q)'
    BY <2>1, Untouched DEF IInv
  <2>3. Globals'
    BY <1>1, <1>4, <2>1 DEF IInv, Globals, Close
  <2>4. Shapes'
    BY <2>1 DEF IInv, Shapes, EntryName
  <2>5. ZipInv'
    BY <2>1, SameDigest DEF IInv, ZipInv
  <2> QED BY <2>2, <2>3, <2>4, <2>5 DEF IInv
<1> QED BY <1>2, <1>3, <1>4

LEMMA ListOK == IInv /\ List => IInv'
<1> SUFFICES ASSUME IInv, List PROVE IInv'
  OBVIOUS
<1>1. /\ "directory" \in Source /\ pc["directory"] # "settled"
      /\ UNCHANGED <<world, zipOpen, next, map>> /\ zipOpen' \in BOOLEAN
      /\ todo' \subseteq Name
  BY DEF List, Source, IInv, Globals
<1>2. CASE Settle("directory", Rejected)
  BY <1>1, <1>2, SettleStep
<1>3. CASE GoTo("directory", "hashing")
  BY <1>1, <1>3, GoStep
<1> QED BY <1>2, <1>3 DEF List

LEMMA HashFileOK == ASSUME IInv, NEW n \in todo, HashFile(n) PROVE IInv'
<1> DEFINE d == "directory"
<1>1. /\ d \in Source /\ pc[d] = "hashing" /\ "zip" # d
      /\ UNCHANGED <<files, touched, zip, packed, zipOpen, next>>
      /\ todo' \subseteq Name /\ zipOpen' \in BOOLEAN /\ n \in Name
      /\ Globals /\ Shapes /\ \A q \in Source : OfSource(q)
  BY DEF HashFile, world, Source, IInv, Globals
<1>2. CASE Settle(d, Rejected) /\ map' = map
  BY <1>1, <1>2, SettleStep DEF world
<1>3. ASSUME UNCHANGED <<pc, result>>, map' = [map EXCEPT ![d] = map'[d]],
             DOMAIN map'[d] \subseteq Normalized,
             \A m \in DOMAIN map'[d] : map'[d][m] \in Content
      PROVE  IInv'
  <2>1. OfSource(d)'
    BY <1>1, <1>3 DEF OfSource
  <2>2. map'["zip"] = map["zip"] /\ map' = [s \in Source |-> map'[s]]
    BY <1>1, <1>3 DEF Shapes, Source
  <2>3. \A q \in Source : OfSource(q)'
    BY <1>1, <1>3, <2>1, <2>2, Untouched DEF Source
  <2>4. Globals'
    BY <1>1, <1>3 DEF Globals
  <2>5. Shapes'
    BY <1>1, <1>3, <2>2 DEF Shapes, EntryName
  <2>6. ZipInv'
    BY <1>1, <1>3, <2>2, SameDigest DEF IInv, ZipInv
  <2> QED BY <2>3, <2>4, <2>5, <2>6 DEF IInv
<1>4. CASE UNCHANGED <<pc, map, result>>
  BY <1>1, <1>3, <1>4 DEF Shapes, OfSource
<1>5. CASE /\ n \in DOMAIN files
           /\ map' = [map EXCEPT ![d] = Set(@, normalizePath(n), files[n])]
           /\ UNCHANGED <<pc, result>>
  <2>1. normalizePath(n) \in Normalized /\ files[n] \in Content
    BY <1>1, <1>5, ManifestAssumption DEF Normalized, Shapes
  <2>2. map'[d] = Set(map[d], normalizePath(n), files[n])
    BY <1>1, <1>5 DEF Shapes
  <2>3. /\ DOMAIN map'[d] \subseteq Normalized
        /\ \A m \in DOMAIN map'[d] : map'[d][m] \in Content
    BY <1>1, <2>1, <2>2 DEF Set, OfSource
  <2>4. map' = [map EXCEPT ![d] = map'[d]]
    BY <1>5, <2>2
  <2> QED BY <1>3, <1>5, <2>3, <2>4
<1> QED BY <1>2, <1>4, <1>5 DEF HashFile

LEMMA ListedOK == IInv /\ Listed => IInv'
<1> SUFFICES ASSUME IInv, Listed PROVE IInv'
  OBVIOUS
<1>1. /\ "directory" \in Source /\ pc["directory"] # "settled"
      /\ UNCHANGED <<world, zipOpen, next, map>> /\ zipOpen' \in BOOLEAN
      /\ todo' \subseteq Name
  BY DEF Listed, Source, IInv, Globals
<1> QED BY <1>1, SettleStep DEF Listed

LEMMA TouchOK == IInv /\ (Touch \/ UNCHANGED vars) => IInv'
<1> SUFFICES ASSUME IInv, Touch \/ UNCHANGED vars PROVE IInv'
  OBVIOUS
<1>1. /\ UNCHANGED <<zip, packed, zipOpen, next, todo, pc, map, result>>
      /\ \/ UNCHANGED <<files, touched>>
         \/ files' \in Trees /\ touched' = TRUE
  BY DEF Touch, vars
<1>2. \A q \in Source : OfSource(q)'
  BY <1>1, Untouched DEF IInv
<1>3. Globals'
  BY <1>1, ManifestAssumption DEF IInv, Globals
<1>4. Shapes'
  BY <1>1 DEF IInv, Shapes, EntryName, Packed
<1>5. ZipInv'
  BY <1>1, SameDigest DEF IInv, ZipInv
<1> QED BY <1>2, <1>3, <1>4, <1>5 DEF IInv

LEMMA NextOK == IInv /\ [Next]_vars => IInv'
BY OpenOK, ReadEntryOK, HashedOK, ZipEndsOK, ListOK, HashFileOK, ListedOK, TouchOK
   DEF Next, ZipStep, DirectoryStep

LEMMA Invariant == Spec => []IInv
BY InitOK, NextOK, PTL DEF Spec

-----------------------------------------------------------------------------
(* Theorems                                                                *)

\* The variables keep their types; entries are read and hashed only while the
\* zip is open (TypeOK).
THEOREM TypeCorrect == Spec => []TypeOK
<1>1. IInv => TypeOK
  BY TypeOKParts DEF IInv
<1> QED BY <1>1, Invariant, PTL

-----------------------------------------------------------------------------
(* Settlement                                                              *)

\* One function moves on: its promise is begun, settled or left alone.
LEMMA MoveIsPromise ==
    ASSUME IInv, NEW s \in Source,
           pc[s] # "settled", pc'[s] # "start",
           \A q \in Source \ {s} : pc'[q] = pc[q],
           \/ result' = result
           \/ \E r \in {Null, Rejected, Manifest(map[s])} :
                 result' = [result EXCEPT ![s] = <<r>>]
    PROVE  [Promise!Next]_(Promise!vars)
<1> DEFINE B == {q \in Source : pc[q] # "start"}
           K == [q \in Source |-> [i \in DOMAIN result[q] |-> result[q][i].kind]]
<1>1. B' = B \cup {s}
  OBVIOUS
<1>2. /\ result[s] = <<>> /\ \A q \in Source : OfSource(q)
      /\ result = [q \in Source |-> result[q]]
  BY DEF IInv, OfSource, Shapes
<1>3. K[s] = <<>>
  BY <1>2
<1>4. \/ K' = K
      \/ \E k \in {<<"manifest">>, <<"null">>, <<"rejected">>} : K' = [K EXCEPT ![s] = k]
  <2>1. CASE result' = result
    BY <2>1
  <2>2. ASSUME NEW r \in {Null, Rejected, Manifest(map[s])},
               result' = [result EXCEPT ![s] = <<r>>]
        PROVE  \E k \in {<<"manifest">>, <<"null">>, <<"rejected">>} :
                  K' = [K EXCEPT ![s] = k]
    <3>1. <<r.kind>> \in {<<"manifest">>, <<"null">>, <<"rejected">>}
      BY DEF Null, Rejected, Manifest
    <3>2. result'[s] = <<r>> /\ \A q \in Source \ {s} : result'[q] = result[q]
      BY <1>2, <2>2
    <3>3. [i \in DOMAIN result'[s] |-> result'[s][i].kind] = <<r.kind>>
      <4>1. DOMAIN result'[s] = {1} /\ result'[s][1] = r
        BY <3>2
      <4>2. DOMAIN <<r.kind>> = {1} /\ <<r.kind>>[1] = r.kind
        OBVIOUS
      <4> QED BY <4>1, <4>2
    <3>4. K' = [K EXCEPT ![s] = <<r.kind>>]
      BY <3>2, <3>3
    <3> QED BY <3>1, <3>4
  <2> QED BY <2>1, <2>2
<1>5. CASE pc[s] = "start"
  <2>1. Promise!Begin(s)
    BY <1>1, <1>4, <1>5 DEF Promise!Begin
  <2> QED BY <2>1 DEF Promise!Next
<1>6. CASE pc[s] # "start"
  <2>1. B' = B /\ s \in B
    BY <1>1, <1>6
  <2>2. UNCHANGED Promise!vars \/ Promise!Answer(s)
    BY <1>3, <1>4, <2>1 DEF Promise!vars, Promise!Answer
  <2> QED BY <2>2 DEF Promise!Next
<1> QED BY <1>5, <1>6

LEMMA SettleIsMove ==
    ASSUME IInv, NEW s \in Source, pc[s] # "settled",
           NEW r \in {Null, Rejected, Manifest(map[s])}, Settle(s, r)
    PROVE  [Promise!Next]_(Promise!vars)
<1>1. result[s] = <<>> /\ pc = [q \in Source |-> pc[q]]
  BY DEF IInv, OfSource, Globals
<1>2. /\ result' = [result EXCEPT ![s] = <<r>>]
      /\ pc'[s] = "settled" /\ \A q \in Source \ {s} : pc'[q] = pc[q]
  BY <1>1 DEF Settle
<1> QED BY <1>2, MoveIsPromise

LEMMA GoIsMove ==
    ASSUME IInv, NEW s \in Source, pc[s] # "settled",
           NEW l \in {"reading", "hashing"}, GoTo(s, l)
    PROVE  [Promise!Next]_(Promise!vars)
<1>1. pc = [q \in Source |-> pc[q]]
  BY DEF IInv, Globals
<1>2. /\ result' = result
      /\ pc'[s] = l /\ \A q \in Source \ {s} : pc'[q] = pc[q]
  BY <1>1 DEF GoTo
<1> QED BY <1>2, MoveIsPromise

\* Every step of either function is a step of AsyncCall or leaves it alone: no
\* promise is settled twice (SettledOnce, without its liveness).
THEOREM SettledAtMostOnce == Spec => Promise!Safe
<1>1. Init => Promise!Init
  <2> SUFFICES ASSUME Init PROVE Promise!Init
    OBVIOUS
  <2>1. \A s \in Source : result[s] = <<>> /\ pc[s] = "start"
    BY DEF Init
  <2>2. \A s \in Source : [i \in DOMAIN result[s] |-> result[s][i].kind] = <<>>
    BY <2>1
  <2> QED BY <2>1, <2>2 DEF Promise!Init
<1>2. IInv /\ [Next]_vars => [Promise!Next]_(Promise!vars)
  <2> SUFFICES ASSUME IInv, [Next]_vars PROVE [Promise!Next]_(Promise!vars)
    OBVIOUS
  <2>1. CASE UNCHANGED <<pc, result>>
    BY <2>1 DEF Promise!vars
  <2>2. "zip" \in Source /\ "directory" \in Source
    BY DEF Source
  <2>3. CASE ZipStep
    BY <2>1, <2>2, <2>3, SettleIsMove, GoIsMove
       DEF ZipStep, Open, ReadEntry, Hashed, HashFailed, ReadingEnds
  <2>4. CASE DirectoryStep
    BY <2>1, <2>2, <2>4, SettleIsMove, GoIsMove
       DEF DirectoryStep, List, HashFile, Listed
  <2>5. CASE Close \/ Touch \/ UNCHANGED vars
    BY <2>1, <2>5 DEF Close, Touch, vars
  <2> QED BY <2>3, <2>4, <2>5 DEF Next
<1> QED BY <1>1, <1>2, Invariant, PTL DEF Spec, Promise!Safe

-----------------------------------------------------------------------------
(* Hashes                                                                  *)

HasManifest(s) == result[s] # <<>> /\ result[s][1].kind = "manifest"

\* The map of a folder is what the files hold that have been hashed.
MapIs(m, done) ==
    /\ m = [k \in DOMAIN m |-> m[k]]
    /\ DOMAIN m = {normalizePath(n) : n \in done}
    /\ \A n \in done : m[normalizePath(n)] = files[n]

Hashable(names) == {n \in names : ~isIgnored(normalizePath(n))}

DirInv ==
    ~touched /\ Distinct(DOMAIN files) =>
        /\ pc["directory"] = "start" => map["directory"] = EmptyMap
        /\ pc["directory"] = "hashing" \/ HasManifest("directory") =>
              /\ todo \subseteq DOMAIN files
              /\ MapIs(map["directory"], Hashable(DOMAIN files \ todo))
        /\ HasManifest("directory") => todo = {}

\* A portable name is spelled alike by both functions.
LEMMA PortableName ==
    ASSUME NEW n \in Name, Cardinality({i \in DOMAIN n : n[i] = "\\"}) <= 1
    PROVE  normalizePath(slash(n)) = slash(n) /\ normalizePath(n) = slash(n)
<1> DEFINE S == {i \in DOMAIN n : n[i] = "\\"}
<1>1. n \in Seq(STRING) /\ DOMAIN n = 1..Len(n) /\ Len(n) \in Nat
  BY ManifestAssumption
<1>2. IsFiniteSet(S)
  <2>1. IsFiniteSet(1..Len(n))
    BY <1>1, FS_Interval
  <2>2. S \in SUBSET (1..Len(n))
    BY <1>1
  <2> QED BY <2>1, <2>2, FS_Subset
<1>3. \A i, j \in S : i = j
  <2> SUFFICES ASSUME NEW i \in S, NEW j \in S, i # j PROVE FALSE
    OBVIOUS
  <2>1. IsFiniteSet({i}) /\ Cardinality({i}) = 1
    BY FS_Singleton
  <2>2. Cardinality({i} \cup {j}) = 2
    BY <2>1, FS_AddElement
  <2>3. Cardinality({i} \cup {j}) <= Cardinality(S)
    BY <1>2, FS_Subset
  <2>4. Cardinality(S) \in Nat
    BY <1>2, FS_CardinalityType
  <2> QED BY <2>2, <2>3, <2>4
<1>4. DOMAIN slash(n) = DOMAIN n
  BY DEF slash
<1>5. \A i \in DOMAIN n : slash(n)[i] # "\\"
  BY DEF slash
<1>6. normalizePath(slash(n)) = slash(n)
  BY <1>4, <1>5 DEF normalizePath, slash
<1>7. \A i \in DOMAIN n : n[i] = "\\" => \A j \in 1..(i - 1) : n[j] # "\\"
  BY <1>1, <1>3
<1>8. normalizePath(n) = slash(n)
  BY <1>7 DEF normalizePath, slash
<1> QED BY <1>6, <1>8

\* The zip that was packed from a folder has a file of it at each place, and
\* each file at one.
LEMMA PackedOrder ==
    ASSUME NEW t \in Trees, NEW z \in Packed(t), Portable(DOMAIN t)
    PROVE  \E order \in [DOMAIN z -> DOMAIN t] :
              /\ \A i \in DOMAIN z : /\ normalizePath(z[i].name) = normalizePath(order[i])
                                     /\ z[i].content = t[order[i]]
              /\ \A i, j \in DOMAIN z : order[i] = order[j] => i = j
              /\ \A n \in DOMAIN t : \E i \in DOMAIN z : order[i] = n
<1> DEFINE c == Cardinality(DOMAIN t)
<1>1. IsFiniteSet(DOMAIN t) /\ DOMAIN t \subseteq Name
  BY ManifestAssumption
<1>2. c \in Nat
  BY <1>1, FS_CardinalityType
<1>3. PICK order \in [1..c -> DOMAIN t] :
          /\ \A i, j \in DOMAIN order : order[i] = order[j] => i = j
          /\ z = [i \in DOMAIN order |-> [name |-> slash(order[i]), content |-> t[order[i]]]]
  BY DEF Packed
<1>4. DOMAIN order = 1..c /\ DOMAIN z = 1..c
  BY <1>3
<1>5. order \in Injection(1..c, DOMAIN t)
  BY <1>3, <1>4 DEF Injection, IsInjective
<1>6. Cardinality(1..c) = c
  BY <1>2, FS_Interval
<1>7. order \in Surjection(1..c, DOMAIN t)
  BY <1>1, <1>5, <1>6, FS_Injection
<1>8. \A n \in DOMAIN t : \E i \in DOMAIN z : order[i] = n
  BY <1>4, <1>7 DEF Surjection
<1>9. \A i \in DOMAIN z : /\ normalizePath(z[i].name) = normalizePath(order[i])
                          /\ z[i].content = t[order[i]]
  <2> SUFFICES ASSUME NEW i \in DOMAIN z
               PROVE  /\ normalizePath(z[i].name) = normalizePath(order[i])
                      /\ z[i].content = t[order[i]]
    OBVIOUS
  <2>1. z[i] = [name |-> slash(order[i]), content |-> t[order[i]]]
    BY <1>3, <1>4
  <2>2. order[i] \in DOMAIN t
    BY <1>4
  <2>3. normalizePath(slash(order[i])) = normalizePath(order[i])
    BY <1>1, <2>2, PortableName DEF Portable
  <2> QED BY <2>1, <2>3
<1>10. \A i, j \in DOMAIN z : order[i] = order[j] => i = j
  BY <1>3, <1>4
<1>11. order \in [DOMAIN z -> DOMAIN t]
  BY <1>4
<1> QED BY <1>8, <1>9, <1>10, <1>11

\* What a packed zip says is what the folder holds.
LEMMA PackedDigest ==
    ASSUME NEW t \in Trees, files = t, NEW z \in Packed(t), Portable(DOMAIN t)
    PROVE  MapIs(Digest(z), Hashable(DOMAIN t))
<1>1. PICK order \in [DOMAIN z -> DOMAIN t] :
          /\ \A i \in DOMAIN z : /\ normalizePath(z[i].name) = normalizePath(order[i])
                                 /\ z[i].content = t[order[i]]
          /\ \A i, j \in DOMAIN z : order[i] = order[j] => i = j
          /\ \A n \in DOMAIN t : \E i \in DOMAIN z : order[i] = n
  BY PackedOrder
<1> DEFINE Counts == {i \in DOMAIN z : ~isIgnored(normalizePath(z[i].name))}
           Named(n) == {i \in Counts : normalizePath(z[i].name) = n}
           Last(n) == CHOOSE i \in Named(n) : \A j \in Named(n) : j <= i
           Names == {normalizePath(z[i].name) : i \in Counts}
<1>2. Digest(z) = [n \in Names |-> z[Last(n)].content]
  BY DEF Digest
<1>3. Names = {normalizePath(n) : n \in Hashable(DOMAIN t)}
  BY <1>1 DEF Hashable
<1>4. ASSUME NEW n \in Hashable(DOMAIN t)
      PROVE  z[Last(normalizePath(n))].content = t[n]
  <2>1. PICK i \in DOMAIN z : order[i] = n
    BY <1>1, <1>4 DEF Hashable
  <2>2. i \in Named(normalizePath(n))
    BY <1>1, <1>4, <2>1 DEF Hashable
  <2>3. \A j \in Named(normalizePath(n)) : j = i
    <3> SUFFICES ASSUME NEW j \in Named(normalizePath(n)) PROVE j = i
      OBVIOUS
    <3>1. j \in DOMAIN z /\ normalizePath(order[j]) = normalizePath(order[i])
      BY <1>1, <2>1
    <3>2. order[j] = order[i]
      BY <1>1, <3>1 DEF Portable, Distinct
    <3> QED BY <1>1, <3>1, <3>2
  <2>4. Named(normalizePath(n)) = {i}
    BY <2>2, <2>3
  <2>5. i <= i
    <3>1. z \in Seq(Entry)
      BY PackedTyped
    <3> QED BY <3>1
  <2>6. Last(normalizePath(n)) = i
    BY <2>4, <2>5
  <2> QED BY <1>1, <2>1, <2>6
<1> HIDE DEF Last, Names
<1> QED BY <1>2, <1>3, <1>4 DEF MapIs

\* Two maps of the same files have the same hash.
LEMMA HashOfMap ==
    ASSUME NEW done, NEW m1, NEW m2, MapIs(m1, done), MapIs(m2, done)
    PROVE  PackageHash(m1) = PackageHash(m2)
<1>1. \A k \in DOMAIN m1 : m1[k] = m2[k]
  BY DEF MapIs
<1>2. DOMAIN m1 = DOMAIN m2
  BY DEF MapIs
<1> QED BY <1>1, <1>2 DEF PackageHash

LEMMA HashFileDir ==
    ASSUME IInv, DirInv, NEW n \in todo, HashFile(n),
           ~touched, Distinct(DOMAIN files)
    PROVE  DirInv'
<1> DEFINE d == "directory"
<1>1. /\ pc[d] = "hashing" /\ todo' = todo \ {n}
      /\ UNCHANGED <<files, touched>>
      /\ d \in Source /\ result[d] = <<>>
      /\ pc = [q \in Source |-> pc[q]] /\ result = [q \in Source |-> result[q]]
      /\ map = [q \in Source |-> map[q]]
  BY DEF HashFile, world, IInv, Globals, OfSource, Shapes, Source
<1>2. /\ todo \subseteq DOMAIN files /\ n \in DOMAIN files
      /\ MapIs(map[d], Hashable(DOMAIN files \ todo))
  BY <1>1 DEF DirInv
<1>3. CASE Settle(d, Rejected)
  <2>1. result'[d] = Append(result[d], Rejected) /\ pc'[d] = "settled"
    <3> HIDE DEF d
    <3> QED BY <1>1, <1>3 DEF Settle
  <2>2. Append(<<>>, Rejected) = <<Rejected>>
    OBVIOUS
  <2>3. result'[d] = <<Rejected>>
    BY <1>1, <2>1, <2>2, Zenon
  <2> QED BY <2>1, <2>3 DEF DirInv, HasManifest, Rejected
<1>4. ASSUME UNCHANGED <<pc, result>>,
             MapIs(map'[d], Hashable(DOMAIN files \ todo'))
      PROVE  DirInv'
  <2>1. MapIs(map[d], Hashable(DOMAIN files \ todo))'
    BY <1>1, <1>4 DEF MapIs, Hashable
  <2>2. pc'[d] = "hashing" /\ result'[d] = <<>> /\ todo' \subseteq DOMAIN files'
    BY <1>1, <1>2, <1>4
  <2> QED BY <2>1, <2>2 DEF DirInv, HasManifest
<1>5. CASE isIgnored(normalizePath(n)) /\ UNCHANGED <<pc, map, result>>
  <2>1. Hashable(DOMAIN files \ todo') = Hashable(DOMAIN files \ todo)
    BY <1>1, <1>5 DEF Hashable
  <2> QED BY <1>2, <1>4, <1>5, <2>1
<1>6. CASE /\ ~isIgnored(normalizePath(n))
           /\ map' = [map EXCEPT ![d] = Set(@, normalizePath(n), files[n])]
           /\ UNCHANGED <<pc, result>>
  <2>1. Hashable(DOMAIN files \ todo') = Hashable(DOMAIN files \ todo) \cup {n}
    BY <1>1, <1>2, <1>6 DEF Hashable
  <2>2. map'[d] = Set(map[d], normalizePath(n), files[n])
    BY <1>1, <1>6
  <2>3. ASSUME NEW m \in Hashable(DOMAIN files \ todo) \cup {n}
        PROVE  map'[d][normalizePath(m)] = files[m]
    <3>1. normalizePath(m) = normalizePath(n) => m = n
      BY <1>2 DEF Hashable, Distinct
    <3>2. CASE m = n
      BY <2>2, <3>2 DEF Set
    <3>3. CASE m # n
      BY <1>2, <2>2, <3>1, <3>3 DEF Set, MapIs
    <3> QED BY <3>2, <3>3
  <2>4. DOMAIN map'[d] =
            {normalizePath(m) : m \in Hashable(DOMAIN files \ todo) \cup {n}}
    BY <1>2, <2>2 DEF Set, MapIs
  <2>5. map'[d] = [k \in DOMAIN map'[d] |-> map'[d][k]]
    BY <2>2 DEF Set
  <2>6. MapIs(map'[d], Hashable(DOMAIN files \ todo'))
    BY <2>1, <2>3, <2>4, <2>5 DEF MapIs
  <2> QED BY <1>4, <1>6, <2>6
<1> QED BY <1>3, <1>5, <1>6 DEF HashFile

LEMMA DirNext == IInv /\ DirInv /\ [Next]_vars => DirInv'
<1> SUFFICES ASSUME IInv, DirInv, [Next]_vars, ~touched', Distinct(DOMAIN files)'
             PROVE  DirInv'
  BY DEF DirInv
<1> DEFINE d == "directory"
<1>1. ~Touch /\ UNCHANGED <<files, touched>>
  BY DEF Next, ZipStep, DirectoryStep, Open, ReadEntry, Hashed, HashFailed, ReadingEnds,
         Close, List, HashFile, Listed, Touch, vars, world
<1>2. ~touched /\ Distinct(DOMAIN files)
  BY <1>1 DEF Distinct
<1>3. /\ d \in Source /\ d # "zip" /\ OfSource(d)
      /\ pc = [q \in Source |-> pc[q]] /\ result = [q \in Source |-> result[q]]
      /\ map = [q \in Source |-> map[q]]
  BY DEF IInv, Globals, Shapes, Source
<1>4. ASSUME UNCHANGED todo, pc'[d] = pc[d], map'[d] = map[d], result'[d] = result[d]
      PROVE  DirInv'
  BY <1>1, <1>4 DEF DirInv, HasManifest, MapIs, Hashable, Distinct
<1>5. CASE ZipStep
  <2>1. UNCHANGED todo /\ map'[d] = map[d]
    BY <1>3, <1>5 DEF ZipStep, Open, ReadEntry, Hashed, HashFailed, ReadingEnds
  <2>2. pc'[d] = pc[d] /\ result'[d] = result[d]
    BY <1>3, <1>5
       DEF ZipStep, Open, ReadEntry, Hashed, HashFailed, ReadingEnds, Settle, GoTo
  <2> QED BY <1>4, <2>1, <2>2
<1>6. CASE Close \/ UNCHANGED vars
  BY <1>4, <1>6 DEF Close, vars
<1>7. CASE List
  <2>1. pc[d] = "start" /\ result[d] = <<>> /\ map' = map
    BY <1>3, <1>7 DEF List, OfSource
  <2>2. CASE Settle(d, Rejected)
    <3>1. pc'[d] = "settled" /\ result'[d] = <<Rejected>>
      BY <1>3, <2>1, <2>2 DEF Settle
    <3> QED BY <3>1 DEF DirInv, HasManifest, Rejected
  <2>3. CASE GoTo(d, "hashing") /\ todo' = DOMAIN files
    <3>1. pc'[d] = "hashing" /\ result'[d] = <<>>
      BY <1>3, <2>1, <2>3 DEF GoTo
    <3>2. map'[d] = EmptyMap
      BY <1>2, <2>1 DEF DirInv
    <3>3. Hashable(DOMAIN files \ todo)' = {}
      BY <1>1, <2>3 DEF Hashable
    <3>4. MapIs(map[d], Hashable(DOMAIN files \ todo))'
      BY <3>2, <3>3 DEF MapIs, EmptyMap
    <3> QED BY <1>1, <2>3, <3>1, <3>4 DEF DirInv, HasManifest
  <2> QED BY <1>7, <2>2, <2>3 DEF List
<1>8. ASSUME NEW n \in todo, HashFile(n) PROVE DirInv'
  BY <1>2, <1>8, HashFileDir
<1>9. CASE Listed
  <2>1. pc[d] = "hashing" /\ todo = {} /\ UNCHANGED <<todo, map>> /\ pc'[d] = "settled"
    BY <1>3, <1>9 DEF Listed, Settle
  <2>2. MapIs(map[d], Hashable(DOMAIN files \ todo))
    BY <1>2, <2>1 DEF DirInv
  <2>3. MapIs(map[d], Hashable(DOMAIN files \ todo))'
    BY <1>1, <2>1, <2>2 DEF MapIs, Hashable
  <2> QED BY <2>1, <2>3 DEF DirInv
<1> QED BY <1>1, <1>5, <1>6, <1>7, <1>8, <1>9 DEF Next, DirectoryStep

\* A manifest of the folder is the map of all of its files.
LEMMA FolderManifest ==
    ASSUME IInv, DirInv, HasManifest("directory"), ~touched, Distinct(DOMAIN files)
    PROVE  /\ result["directory"][1].map = map["directory"]
           /\ MapIs(map["directory"], Hashable(DOMAIN files))
<1>1. todo = {} /\ MapIs(map["directory"], Hashable(DOMAIN files \ todo))
  BY DEF DirInv
<1>2. DOMAIN files \ todo = DOMAIN files
  BY <1>1
<1>3. result["directory"] \in
         {<<>>, <<Null>>, <<Rejected>>, <<Manifest(map["directory"])>>}
  BY DEF IInv, OfSource, Source
<1>4. result["directory"] = <<Manifest(map["directory"])>>
  BY <1>3 DEF HasManifest, Null, Rejected
<1> QED BY <1>1, <1>2, <1>4 DEF Manifest

LEMMA ZipWhole ==
    ASSUME IInv, HasManifest("zip")
    PROVE  result["zip"][1].map = Digest(zip)
<1>1. result["zip"] \in {<<>>, <<Null>>, <<Rejected>>, <<Manifest(map["zip"])>>}
  BY DEF IInv, OfSource, Source
<1>2. result["zip"] = <<Manifest(map["zip"])>>
  BY <1>1 DEF HasManifest, Null, Rejected
<1>3. next - 1 = Len(zip) /\ DOMAIN zip = 1..Len(zip)
  BY DEF HasManifest, IInv, ZipInv, Globals, Shapes
<1>4. Digest(zip) = DigestTo(Len(zip))
  BY <1>3 DEF Digest, DigestTo, CountsTo, NamedTo
<1> QED BY <1>2, <1>3, <1>4 DEF IInv, ZipInv, Manifest

LEMMA FolderWhole ==
    ASSUME IInv, DirInv, HasManifest("directory"), ~touched, Distinct(DOMAIN files)
    PROVE  result["directory"][1].map = FolderDigest(files)
<1> DEFINE counts == Hashable(DOMAIN files)
           m == map["directory"]
           names == {normalizePath(n) : n \in counts}
           of(k) == CHOOSE n \in counts : normalizePath(n) = k
<1>1. result["directory"][1].map = m /\ MapIs(m, counts)
  BY FolderManifest
<1>2. FolderDigest(files) = [k \in names |-> files[of(k)]]
  BY DEF FolderDigest, Hashable
<1>3. DOMAIN m = names /\ m = [k \in DOMAIN m |-> m[k]]
  BY <1>1 DEF MapIs
<1>4. ASSUME NEW k \in names PROVE m[k] = files[of(k)]
  <2>1. PICK n \in counts : normalizePath(n) = k
    BY <1>4
  <2>2. of(k) \in counts /\ normalizePath(of(k)) = k
    BY <2>1
  <2> HIDE DEF of
  <2> QED BY <1>1, <2>2 DEF MapIs
<1> HIDE DEF counts, m, of, names
<1> QED BY <1>1, <1>2, <1>3, <1>4

DirInvariant == IInv /\ DirInv

LEMMA DirInvariantHolds == Spec => []DirInvariant
<1>1. Init => DirInv
  BY DEF Init, DirInv, HasManifest, Source
<1> QED BY <1>1, DirNext, Invariant, PTL DEF Spec, DirInvariant

\* Whatever fails in whatever order, for a zip or a folder of any size: there is
\* no manifest or one of all entries, or of all files (ManifestIsWhole).
THEOREM WholeOrNone == Spec => []ManifestIsWhole
<1>1. DirInvariant => ManifestIsWhole
  BY ZipWhole, FolderWhole DEF DirInvariant, ManifestIsWhole, HasManifest
<1> QED BY <1>1, DirInvariantHolds, PTL

\* A folder of any size that nobody touched and the zip packed from it have the
\* same package hash, for portable names (SameHash).
THEOREM FolderAndZipAgree == Spec => []SameHash
<1>1. DirInvariant => SameHash
  <2> SUFFICES ASSUME IInv, DirInv, packed, ~touched, Portable(DOMAIN files),
                      \A s \in Source : HasManifest(s)
               PROVE  PackageHash(result["zip"][1].map)
                          = PackageHash(result["directory"][1].map)
    BY DEF SameHash, HasManifest, DirInvariant
  <2>1. HasManifest("zip") /\ HasManifest("directory")
    BY DEF Source
  <2>2. files \in Trees /\ zip \in Packed(files)
    BY DEF IInv, Shapes
  <2>3. MapIs(Digest(zip), Hashable(DOMAIN files))
    BY <2>2, PackedDigest
  <2>4. result["zip"][1].map = Digest(zip)
    BY <2>1, ZipWhole
  <2>5. /\ result["directory"][1].map = map["directory"]
        /\ MapIs(map["directory"], Hashable(DOMAIN files))
    BY <2>1, FolderManifest DEF Portable
  <2> QED BY <2>3, <2>4, <2>5, HashOfMap
<1> QED BY <1>1, DirInvariantHolds, PTL
=============================================================================
