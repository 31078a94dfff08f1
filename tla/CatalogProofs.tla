--------------------------- MODULE CatalogProofs ----------------------------
(***************************************************************************)
(* For any records, any files and any edits of them: a lookup finds the    *)
(* record that describes a device, if there is one, and a snapshot never   *)
(* says anything else than the build of a device the build knows.  A load  *)
(* loses no record of any file, whatever the files are called.             *)
(*                                                                         *)
(* A lookup stops at the first record of a later device, so its exactness  *)
(* needs the order of the whole catalog, of which Sorted only compares     *)
(* neighbours: ScanReaches carries it along, by the least index at which   *)
(* it would fail.                                                          *)
(*                                                                         *)
(* The merge of a directory is a sort and a loop over the sorted records.  *)
(* SortedAre says what the sort comes to, by the ranks of the places the   *)
(* records are taken from, and MergeAccepts what the loop has come to      *)
(* after every round, by the first round of which it would not hold.  Both *)
(* depend on what is in the files and not on their order, and so does the  *)
(* merge.                                                                  *)
(***************************************************************************)
EXTENDS CatalogLoad, FiniteSetTheorems, WellFoundedInduction, TLAPS

\* A non-empty set of indices has a least one, so First is one of them.
LEMMA FirstIsOne ==
  ASSUME NEW T, T \subseteq Nat, T # {}
  PROVE  First(T) \in T /\ \A j \in T : First(T) <= j
<1>1. \E x \in T : \A y \in T : ~(<<y, x>> \in OpToRel(<, Nat))
  BY WFMin, NatLessThanWellFounded, Zenon
<1>2. PICK x \in T : \A y \in T : ~(<<y, x>> \in OpToRel(<, Nat))
  BY <1>1
<1>3. \A y \in T : ~(y < x)
  BY <1>2, Zenon DEF OpToRel
<1>4. \A y \in T : x <= y
  BY <1>3
<1> QED
  BY <1>4 DEF First

\* Two records that match the same device overlap, so validation, which keeps
\* records from overlapping, keeps the answer to a lookup unique.
LEMMA MatchesOverlap ==
  ASSUME NEW e, NEW f, NEW id, Matches(e, id), Matches(f, id)
  PROVE  Overlaps(e, f)
BY DEF Matches, Overlaps

\* What a lookup answers is what a record that matches says.
LEMMA AnswerIsAMatch ==
  ASSUME NEW records \in Seq(Entry), NEW id, LookupIn(records, id) # Absent
  PROVE  \E i \in DOMAIN records :
           Matches(records[i], id) /\ LookupIn(records, id) = records[i].properties
<1>1. Hits(records, id) # {}
  BY DEF LookupIn
<1>2. Hits(records, id) \subseteq DOMAIN records
  BY DEF Hits, Reached
<1>3. Hits(records, id) \subseteq Nat
  BY <1>2
<1>4. First(Hits(records, id)) \in Hits(records, id)
  BY <1>1, <1>3, FirstIsOne
<1> QED
  BY <1>1, <1>2, <1>4 DEF LookupIn, Hits

\* One step of the order: behind a record of a later device, so is the next.
LEMMA LaterStaysLater ==
  ASSUME NEW id \in Identity, NEW e \in Entry, NEW f \in Entry,
         DeviceLess(id, e), KeyLess(e, f)
  PROVE  DeviceLess(id, f)
BY DEF Identity, Entry, DeviceLess, KeyLess

\* A scan of sorted records does not stop before a record that matches.
LEMMA ScanReaches ==
  ASSUME NEW records \in Seq(Entry), Sorted(records), NEW id \in Identity,
         NEW i \in DOMAIN records, Matches(records[i], id)
  PROVE  i \in Reached(records, id)
<1> SUFFICES ASSUME NEW j \in 1 .. i, DeviceLess(id, records[j])
             PROVE  FALSE
  BY DEF Reached
<1> DEFINE Before == {k \in j .. i : ~DeviceLess(id, records[k])}
<1>1. ~DeviceLess(id, records[i])
  BY DEF Matches, DeviceLess, Identity
<1>2. i \in Before
  BY <1>1
<1>3. Before \subseteq Nat
  OBVIOUS
<1> DEFINE k == First(Before)
<1>4. k \in Before /\ \A m \in Before : k <= m
  BY <1>2, <1>3, FirstIsOne
<1>5. k # j
  BY <1>4
<1>6. k - 1 \in j .. i /\ k - 1 \notin Before
  BY <1>4, <1>5
<1>7. DeviceLess(id, records[k - 1])
  BY <1>6
<1>8. /\ k \in 2 .. Len(records)
      /\ records[k - 1] \in Entry /\ records[k] \in Entry
  BY <1>4, <1>5, <1>6
<1>9. KeyLess(records[k - 1], records[k])
  BY <1>8 DEF Sorted
<1>10. DeviceLess(id, records[k])
  BY <1>7, <1>8, <1>9, LaterStaysLater
<1> QED
  BY <1>4, <1>10

\* In valid records a lookup answers what the record that matches says.
LEMMA LookupFinds ==
  ASSUME NEW records, Valid(records), NEW id \in Identity,
         NEW i \in DOMAIN records, Matches(records[i], id)
  PROVE  LookupIn(records, id) = records[i].properties
<1>1. records \in Seq(Entry) /\ Sorted(records) /\ Disjoint(records)
  BY DEF Valid
<1>2. i \in Hits(records, id)
  BY <1>1, ScanReaches DEF Hits
<1>3. Hits(records, id) \subseteq DOMAIN records /\ DOMAIN records \subseteq Nat
  BY <1>1 DEF Hits, Reached
<1> DEFINE k == First(Hits(records, id))
<1>4. k \in Hits(records, id) /\ k <= i
  BY <1>2, <1>3, FirstIsOne
<1>5. Overlaps(records[i], records[k])
  BY <1>4, MatchesOverlap DEF Hits
<1>6. k \in DOMAIN records
  BY <1>3, <1>4
<1>7. ~(k < i)
  BY <1>5, <1>6, <1>1 DEF Disjoint
<1>8. k = i
  BY <1>3, <1>4, <1>6, <1>7
<1> QED
  BY <1>2, <1>8 DEF LookupIn

-----------------------------------------------------------------------------
(* The snapshot in use has passed the checks of the load that made it.     *)

Sound ==
  /\ TypeOK
  /\ Valid(builtin) /\ Valid(snapshot)
  /\ Agrees(snapshot, builtin)

\* Initially the snapshot is empty, and the build's records are valid.
LEMMA SoundInit == Init => Sound
<1> SUFFICES ASSUME Init PROVE Sound
  OBVIOUS
<1>1. Valid(builtin)
  BY LoadAssumption DEF Init
<1>2. snapshot \in Seq(Entry) /\ sources \in Seq(Seq(Entry))
  BY DEF Init
<1>3. todo \subseteq Files
  BY DEF Init
<1>4. TypeOK
  BY <1>2, <1>3 DEF Init, TypeOK
<1>5. Valid(snapshot)
  BY <1>2, CatalogAssumption DEF Init, Valid, Sorted, Disjoint
<1>6. Agrees(snapshot, builtin)
  BY DEF Init, Agrees
<1> QED
  BY <1>1, <1>4, <1>5, <1>6 DEF Sound

\* A load keeps its files until it ends, and takes a snapshot only when it has
\* passed the checks; every other step leaves snapshot and build alone.
LEMMA SoundStep == Sound /\ [Next]_vars => Sound'
<1> SUFFICES ASSUME Sound, [Next]_vars PROVE Sound'
  OBVIOUS
<1> USE DEF Sound, TypeOK
<1>1. CASE ReadDirectory
  <2>1. <<>> \in Seq(Seq(Entry)) /\ {f \in Files : disk[f] # NoFile} \subseteq Files
    OBVIOUS
  <2> QED
    BY <1>1, <2>1 DEF ReadDirectory
<1>2. ASSUME NEW f \in Files, ReadOneFile(f) PROVE Sound'
  <2>1. <<>> \in Seq(Seq(Entry)) /\ {f} \subseteq Files
    OBVIOUS
  <2> QED
    BY <1>2, <2>1 DEF ReadOneFile
<1>3. CASE ReadFile
  <2> DEFINE text == disk[First(todo)]
  <2>1. UNCHANGED <<builtin, disk, whole, snapshot>>
    BY <1>3 DEF ReadFile
  <2>2. CASE ~text.malformed /\ Valid(text.records)
    <3>1. /\ sources' = Append(sources, text.records)
          /\ todo' = todo \ {First(todo)}
          /\ UNCHANGED <<pc, outcome>>
      BY <1>3, <2>2 DEF ReadFile
    <3>2. text.records \in Seq(Entry)
      BY <2>2 DEF Valid
    <3>3. sources' \in Seq(Seq(Entry))
      BY <3>1, <3>2
    <3> QED
      BY <2>1, <3>1, <3>3
  <2>3. CASE ~(~text.malformed /\ Valid(text.records))
    <3>1. Return("failed") /\ UNCHANGED <<sources, todo>>
      BY <1>3, <2>3 DEF ReadFile
    <3> QED
      BY <2>1, <3>1 DEF Return
  <2> QED
    BY <2>2, <2>3
<1>4. CASE ReadFileFails
  BY <1>4 DEF ReadFileFails, Return
<1>5. CASE Parse
  <2> DEFINE merged == IF whole THEN Merge(sources)
                       ELSE [ok |-> TRUE, records |-> sources[1]]
  <2>1. UNCHANGED <<builtin, disk, whole, todo, sources>>
    BY <1>5 DEF Parse
  <2>2. CASE merged.ok /\ Valid(merged.records) /\ Agrees(merged.records, builtin)
    <3>1. Return("loaded") /\ snapshot' = merged.records
      BY <1>5, <2>2 DEF Parse
    <3>2. Valid(snapshot') /\ Agrees(snapshot', builtin)
      BY <2>2, <3>1
    <3>3. snapshot' \in Seq(Entry)
      BY <3>2 DEF Valid
    <3> QED
      BY <2>1, <3>1, <3>2, <3>3 DEF Return
  <2>3. CASE ~(merged.ok /\ Valid(merged.records) /\ Agrees(merged.records, builtin))
    <3>1. Return("failed") /\ UNCHANGED snapshot
      BY <1>5, <2>3 DEF Parse
    <3> QED
      BY <2>1, <3>1 DEF Return
  <2> QED
    BY <2>2, <2>3
<1>6. ASSUME NEW f \in Files, NEW t \in Texts \cup {NoFile}, Edit(f, t) PROVE Sound'
  BY <1>6 DEF Edit
<1>7. CASE UNCHANGED vars
  BY <1>7 DEF vars
<1> QED
  BY <1>1, <1>2, <1>3, <1>4, <1>5, <1>6, <1>7 DEF Next

\* The snapshot in use is always one that passed the checks.
THEOREM AlwaysSound == Spec => []Sound
  BY SoundInit, SoundStep, PTL DEF Spec

-----------------------------------------------------------------------------
(* What follows of a sound snapshot.                                       *)

LEMMA IdentityOfDevice == Devices \subseteq Identity
  BY LoadAssumption DEF Devices, Identity

\* A device the build knows matches one of its records; a record of the
\* snapshot that matches it too overlaps that one, and so agrees with it.
LEMMA SoundDoesNotContradict == Sound => NoContradiction
<1> SUFFICES ASSUME Sound, NEW id \in Devices, LookupIn(builtin, id) # Absent,
                    LookupIn(snapshot, id) # Absent
             PROVE  LookupIn(snapshot, id) = LookupIn(builtin, id)
  BY DEF NoContradiction, Asked, Lookup
<1>1. builtin \in Seq(Entry) /\ snapshot \in Seq(Entry)
  BY DEF Sound, Valid
<1>2. PICK i \in DOMAIN builtin :
        /\ Matches(builtin[i], id)
        /\ LookupIn(builtin, id) = builtin[i].properties
  BY <1>1, AnswerIsAMatch
<1>3. PICK j \in DOMAIN snapshot :
        /\ Matches(snapshot[j], id)
        /\ LookupIn(snapshot, id) = snapshot[j].properties
  BY <1>1, AnswerIsAMatch
<1>4. Overlaps(snapshot[j], builtin[i])
  BY <1>2, <1>3, MatchesOverlap
<1> QED
  BY <1>2, <1>3, <1>4 DEF Sound, Agrees

\* A record that matches is the one the scan finds first.
LEMMA SoundLookupsAreExact == Sound => LookupsAreExact
<1> SUFFICES ASSUME Sound, NEW id \in Devices, NEW i \in DOMAIN snapshot,
                    Matches(snapshot[i], id)
             PROVE  Asked(id) = snapshot[i].properties
  BY DEF LookupsAreExact
<1>1. LookupIn(snapshot, id) = snapshot[i].properties
  BY LookupFinds, IdentityOfDevice DEF Sound
<1>2. snapshot[i] \in Entry
  BY DEF Sound, Valid
<1>3. snapshot[i].properties # Absent
  BY <1>2, CatalogAssumption DEF Entry
<1> QED
  BY <1>1, <1>3 DEF Asked, Lookup

\* The record that makes a lookup answer coherent is one of its device.
LEMMA SoundIsConservative == Sound => CoherentIsConservative
<1> SUFFICES ASSUME Sound, NEW id \in Devices, Asked(id) \in Coherent
             PROVE  MayBeCoherent(snapshot, builtin, id.vendor, id.device)
  BY DEF CoherentIsConservative
<1>1. builtin \in Seq(Entry) /\ snapshot \in Seq(Entry)
  BY DEF Sound, Valid
<1>2. Asked(id) # Absent
  BY CatalogAssumption
<1>3. ASSUME NEW records \in Seq(Entry), LookupIn(records, id) = Asked(id)
      PROVE  CoherentIn(records, id.vendor, id.device)
  <2>1. PICK i \in DOMAIN records :
          /\ Matches(records[i], id)
          /\ LookupIn(records, id) = records[i].properties
    BY <1>2, <1>3, AnswerIsAMatch
  <2> QED
    BY <1>3, <2>1 DEF CoherentIn, Matches
<1>4. LookupIn(snapshot, id) = Asked(id) \/ LookupIn(builtin, id) = Asked(id)
  BY DEF Asked, Lookup
<1> QED
  BY <1>1, <1>3, <1>4 DEF MayBeCoherent

-----------------------------------------------------------------------------

\* Every variable keeps its type.
THEOREM TypeCorrect == Spec => []TypeOK
<1>1. Sound => TypeOK
  BY DEF Sound
<1> QED
  BY <1>1, AlwaysSound, PTL

\* No extension, read from files that change or not, says of a device anything
\* else than the build does.
THEOREM ExtensionsNeverContradict == Spec => []NoContradiction
  BY AlwaysSound, SoundDoesNotContradict, PTL

\* A lookup, which stops early and at the first match, is exact.
THEOREM LookupsAlwaysExact == Spec => []LookupsAreExact
  BY AlwaysSound, SoundLookupsAreExact, PTL

\* The query by device alone says yes whenever a full lookup says coherent.
THEOREM DeviceQueryConservative == Spec => []CoherentIsConservative
  BY AlwaysSound, SoundIsConservative, PTL

-----------------------------------------------------------------------------
(* The merge of a directory's files.                                       *)

\* KeyLess is a strict order, and total on the keys: two records that it does
\* not order have the same key, and overlap.
LEMMA KeysAreOrdered ==
  ASSUME NEW e \in Entry, NEW f \in Entry
  PROVE  /\ ~KeyLess(e, e) /\ ~(KeyLess(e, f) /\ KeyLess(f, e))
         /\ Overlaps(e, e) /\ (Overlaps(e, f) => Overlaps(f, e))
         /\ ~KeyLess(e, f) /\ ~KeyLess(f, e) => Overlaps(e, f)
         /\ \A g \in Entry : /\ KeyLess(e, f) /\ KeyLess(f, g) => KeyLess(e, g)
                             /\ KeyLess(e, f) => KeyLess(e, g) \/ KeyLess(g, f)
<1>1. /\ e.vendor \in Nat /\ e.device \in Nat /\ e.subvendor \in Int /\ e.subdevice \in Int
      /\ f.vendor \in Nat /\ f.device \in Nat /\ f.subvendor \in Int /\ f.subdevice \in Int
  BY DEF Entry, Wildcard
<1>2. \A g \in Entry : /\ g.vendor \in Nat /\ g.device \in Nat
                       /\ g.subvendor \in Int /\ g.subdevice \in Int
  BY DEF Entry, Wildcard
<1>3. /\ ~KeyLess(e, e) /\ ~(KeyLess(e, f) /\ KeyLess(f, e))
  BY <1>1 DEF KeyLess, DeviceLess
<1>4. Overlaps(e, e) /\ (Overlaps(e, f) => Overlaps(f, e))
  BY DEF Overlaps
<1>5. ~KeyLess(e, f) /\ ~KeyLess(f, e) => Overlaps(e, f)
  BY <1>1 DEF KeyLess, DeviceLess, Overlaps
<1>6. ASSUME NEW g \in Entry
      PROVE  /\ KeyLess(e, f) /\ KeyLess(f, g) => KeyLess(e, g)
             /\ KeyLess(e, f) => KeyLess(e, g) \/ KeyLess(g, f)
  BY <1>1, <1>2 DEF KeyLess, DeviceLess
<1> QED BY <1>3, <1>4, <1>5, <1>6

\* The places of a directory's records: finitely many, each with a record.
Directory == Seq(Seq(Entry))

LEMMA PlacesAre ==
  ASSUME NEW texts \in Directory
  PROVE  /\ IsFiniteSet(Places(texts))
         /\ \A p \in Places(texts) : /\ p = <<p[1], p[2]>>
                                     /\ p[1] \in DOMAIN texts /\ p[2] \in DOMAIN texts[p[1]]
                                     /\ p[1] \in Nat /\ p[2] \in Nat
                                     /\ RecordAt(texts, p) \in Entry
         /\ \A f \in DOMAIN texts : \A i \in DOMAIN texts[f] :
              <<f, i>> \in Places(texts) /\ RecordAt(texts, <<f, i>>) = texts[f][i]
<1> DEFINE column == [f \in DOMAIN texts |-> {f} \X DOMAIN texts[f]]
           columns == {{f} \X DOMAIN texts[f] : f \in DOMAIN texts}
<1>1. /\ DOMAIN texts = 1 .. Len(texts) /\ Len(texts) \in Nat
      /\ \A f \in DOMAIN texts : /\ texts[f] \in Seq(Entry)
                                 /\ DOMAIN texts[f] = 1 .. Len(texts[f]) /\ Len(texts[f]) \in Nat
  BY DEF Directory
<1>2. ASSUME NEW f \in DOMAIN texts
      PROVE  IsFiniteSet({f} \X DOMAIN texts[f])
  <2>1. IsFiniteSet(DOMAIN texts[f])
    BY <1>1, <1>2, FS_Interval
  <2>2. IsFiniteSet({f})
    BY FS_Singleton, Zenon
  <2> QED BY <2>1, <2>2, FS_Product
<1>3. column \in Surjection(DOMAIN texts, columns)
  BY DEF Surjection
<1>4. IsFiniteSet(DOMAIN texts)
  BY <1>1, FS_Interval
<1>5. IsFiniteSet(columns)
  <2> HIDE DEF column, columns
  <2> QED BY <1>3, <1>4, FS_Surjection
<1>6. IsFiniteSet(UNION columns)
  <2>1. \A T \in columns : IsFiniteSet(T)
    BY <1>2
  <2> HIDE DEF columns
  <2> QED BY <1>5, <2>1, FS_UNION
<1>7. ASSUME NEW p \in Places(texts)
      PROVE  /\ p = <<p[1], p[2]>>
             /\ p[1] \in DOMAIN texts /\ p[2] \in DOMAIN texts[p[1]]
  <2>1. PICK f \in DOMAIN texts : p \in {f} \X DOMAIN texts[f]
    BY DEF Places
  <2> QED BY <2>1
<1>8. ASSUME NEW f \in DOMAIN texts, NEW i \in DOMAIN texts[f]
      PROVE  <<f, i>> \in Places(texts) /\ RecordAt(texts, <<f, i>>) = texts[f][i]
  <2>1. <<f, i>> \in {f} \X DOMAIN texts[f]
    OBVIOUS
  <2> QED BY <2>1 DEF Places, RecordAt
<1> QED BY <1>1, <1>6, <1>7, <1>8 DEF Places, RecordAt

\* Precedes orders the places strictly and totally.
LEMMA PlacesAreOrdered ==
  ASSUME NEW texts \in Directory, NEW p \in Places(texts), NEW q \in Places(texts)
  PROVE  /\ ~Precedes(texts, p, p)
         /\ p # q => Precedes(texts, p, q) \/ Precedes(texts, q, p)
         /\ \A r \in Places(texts) :
              Precedes(texts, p, q) /\ Precedes(texts, q, r) => Precedes(texts, p, r)
<1> DEFINE R(x) == RecordAt(texts, x)
<1>1. \A x \in Places(texts) : /\ x = <<x[1], x[2]>> /\ x[1] \in Nat /\ x[2] \in Nat
                               /\ R(x) \in Entry
  BY PlacesAre
<1>2. /\ ~Earlier(p, p) /\ (p # q => Earlier(p, q) \/ Earlier(q, p))
      /\ \A r \in Places(texts) : Earlier(p, q) /\ Earlier(q, r) => Earlier(p, r)
  BY <1>1 DEF Earlier
<1>3. ~KeyLess(R(p), R(p))
  BY <1>1, KeysAreOrdered
<1>4. ~(KeyLess(R(p), R(q)) /\ KeyLess(R(q), R(p)))
  BY <1>1, KeysAreOrdered
<1>5. ASSUME NEW r \in Places(texts), Precedes(texts, p, q), Precedes(texts, q, r)
      PROVE  Precedes(texts, p, r)
  <2>1. /\ R(p) \in Entry /\ R(q) \in Entry /\ R(r) \in Entry
    BY <1>1
  <2>2. /\ KeyLess(R(p), R(q)) /\ KeyLess(R(q), R(r)) => KeyLess(R(p), R(r))
        /\ KeyLess(R(p), R(q)) => KeyLess(R(p), R(r)) \/ KeyLess(R(r), R(q))
        /\ KeyLess(R(q), R(r)) => KeyLess(R(q), R(p)) \/ KeyLess(R(p), R(r))
        /\ KeyLess(R(r), R(p)) => KeyLess(R(r), R(q)) \/ KeyLess(R(q), R(p))
        /\ ~(KeyLess(R(r), R(q)) /\ KeyLess(R(q), R(r)))
    BY <2>1, KeysAreOrdered
  <2> HIDE DEF R
  <2>3. \A x, y : Precedes(texts, x, y) <=>
                    KeyLess(R(x), R(y)) \/ (~KeyLess(R(y), R(x)) /\ Earlier(x, y))
    BY DEF Precedes, R
  <2> QED BY <1>2, <1>5, <2>2, <2>3
<1> QED BY <1>2, <1>3, <1>4, <1>5 DEF Precedes

\* How many records come before that at q.
Rank(texts, q) == Cardinality({p \in Places(texts) : Precedes(texts, p, q)})

\* The ranks number the places from 0 on, in their order.
LEMMA RanksAre ==
  ASSUME NEW texts \in Directory
  PROVE  /\ Cardinality(Places(texts)) \in Nat
         /\ \A q \in Places(texts) : Rank(texts, q) \in 0 .. Cardinality(Places(texts)) - 1
         /\ \A q, r \in Places(texts) :
              /\ Precedes(texts, q, r) => Rank(texts, q) < Rank(texts, r)
              /\ Rank(texts, q) = Rank(texts, r) => q = r
         /\ \A k \in 0 .. Cardinality(Places(texts)) - 1 :
              \E q \in Places(texts) : Rank(texts, q) = k
<1> DEFINE S == Places(texts)
           n == Cardinality(S)
           Below(q) == {p \in S : Precedes(texts, p, q)}
<1>1. IsFiniteSet(S) /\ n \in Nat
  BY PlacesAre, FS_CardinalityType
<1>2. ASSUME NEW q \in S
      PROVE  IsFiniteSet(Below(q)) /\ Cardinality(Below(q)) \in Nat
  <2>1. Below(q) \in SUBSET S
    OBVIOUS
  <2> HIDE DEF S, Below
  <2> QED BY <1>1, <2>1, FS_Subset, FS_CardinalityType
<1>3. ASSUME NEW q \in S
      PROVE  Cardinality(Below(q)) \in 0 .. n - 1
  <2>1. Below(q) \in SUBSET S /\ Below(q) # S
    BY PlacesAreOrdered
  <2>2. Cardinality(Below(q)) <= n /\ Cardinality(Below(q)) # n
    <3> HIDE DEF S, Below
    <3> QED BY <1>1, <2>1, FS_Subset
  <2> HIDE DEF S, Below, n
  <2> QED BY <1>1, <1>2, <2>2
<1>4. ASSUME NEW q \in S, NEW r \in S, Precedes(texts, q, r)
      PROVE  Cardinality(Below(q)) < Cardinality(Below(r))
  <2>1. Below(q) \in SUBSET Below(r) /\ Below(q) # Below(r)
    BY <1>4, PlacesAreOrdered
  <2>2. /\ Cardinality(Below(q)) <= Cardinality(Below(r))
        /\ Cardinality(Below(q)) # Cardinality(Below(r))
    <3> HIDE DEF S, Below
    <3> QED BY <1>2, <2>1, FS_Subset
  <2> HIDE DEF S, Below
  <2> QED BY <1>2, <2>2
<1>5. ASSUME NEW q \in S, NEW r \in S, Cardinality(Below(q)) = Cardinality(Below(r))
      PROVE  q = r
  <2>1. ~Precedes(texts, q, r) /\ ~Precedes(texts, r, q)
    <3> HIDE DEF S, Below
    <3> QED BY <1>2, <1>4, <1>5
  <2> QED BY <2>1, PlacesAreOrdered
<1> DEFINE rank == [q \in S |-> Cardinality(Below(q))]
<1>6. rank \in Injection(S, 0 .. n - 1)
  <2>1. rank \in [S -> 0 .. n - 1]
    <3> HIDE DEF S, Below, n
    <3> QED BY <1>3
  <2>2. IsInjective(rank)
    <3> HIDE DEF S, Below
    <3> QED BY <1>5 DEF IsInjective
  <2> HIDE DEF S, rank, n
  <2> QED BY <2>1, <2>2 DEF Injection
<1>7. IsFiniteSet(0 .. n - 1) /\ Cardinality(0 .. n - 1) = n
  <2> HIDE DEF n
  <2> QED BY <1>1, FS_Interval
<1>8. rank \in Surjection(S, 0 .. n - 1)
  <2> HIDE DEF rank, S
  <2> QED BY <1>6, <1>7, FS_Injection
<1>9. \A k \in 0 .. n - 1 : \E q \in S : rank[q] = k
  <2> HIDE DEF rank, S, n
  <2> QED BY <1>8 DEF Surjection
<1> HIDE DEF n
<1> QED BY <1>1, <1>3, <1>4, <1>5, <1>9 DEF Rank, n

\* The sorted records are those of the files, in the order of their keys.
LEMMA SortedAre ==
  ASSUME NEW texts \in Directory
  PROVE  /\ SortedRecords(texts) \in Seq(Entry)
         /\ Len(SortedRecords(texts)) = Cardinality(Places(texts))
         /\ \A f \in DOMAIN texts : \A i \in DOMAIN texts[f] :
              \E k \in DOMAIN SortedRecords(texts) : SortedRecords(texts)[k] = texts[f][i]
         /\ \A k \in DOMAIN SortedRecords(texts) :
              \E f \in DOMAIN texts : \E i \in DOMAIN texts[f] :
                SortedRecords(texts)[k] = texts[f][i]
         /\ \A j, k \in DOMAIN SortedRecords(texts) :
              j < k => ~KeyLess(SortedRecords(texts)[k], SortedRecords(texts)[j])
<1> DEFINE S == Places(texts)
           place(k) == CHOOSE q \in S : Rank(texts, q) = k - 1
<1>0. PICK n \in Nat : n = Cardinality(S)
  BY RanksAre
<1>1. PICK all : all = SortedRecords(texts)
  OBVIOUS
<1>2. all = [k \in 1 .. n |-> RecordAt(texts, place(k))]
  BY <1>0, <1>1, Zenon DEF SortedRecords, Rank
<1>3. ASSUME NEW k \in 1 .. n
      PROVE  /\ place(k) \in S /\ Rank(texts, place(k)) = k - 1
             /\ all[k] = RecordAt(texts, place(k)) /\ all[k] \in Entry
  <2>1. \E q \in S : Rank(texts, q) = k - 1
    BY <1>0, RanksAre
  <2>2. place(k) \in S /\ Rank(texts, place(k)) = k - 1
    BY <2>1
  <2> HIDE DEF place
  <2> QED BY <1>2, <2>2, PlacesAre
<1> HIDE DEF place
<1>4. DOMAIN all = 1 .. n /\ all \in Seq(Entry) /\ Len(all) = n
  BY <1>2, <1>3
<1>5. ASSUME NEW f \in DOMAIN texts, NEW i \in DOMAIN texts[f]
      PROVE  \E k \in 1 .. n : all[k] = texts[f][i]
  <2>1. PICK q \in S : q = <<f, i>> /\ RecordAt(texts, q) = texts[f][i]
    BY PlacesAre
  <2>2. Rank(texts, q) \in 0 .. n - 1
    BY <1>0, RanksAre
  <2>3. PICK k \in 1 .. n : Rank(texts, q) = k - 1
    BY <2>2
  <2>4. place(k) = q
    BY <1>3, <2>3, RanksAre
  <2> QED BY <1>3, <2>1, <2>4
<1>6. ASSUME NEW k \in 1 .. n
      PROVE  \E f \in DOMAIN texts : \E i \in DOMAIN texts[f] : all[k] = texts[f][i]
  BY <1>3, PlacesAre DEF RecordAt
<1>7. ASSUME NEW j \in 1 .. n, NEW k \in 1 .. n, j < k
      PROVE  ~KeyLess(all[k], all[j])
  <2>1. /\ place(j) \in S /\ place(k) \in S
        /\ Rank(texts, place(j)) = j - 1 /\ Rank(texts, place(k)) = k - 1
    BY <1>3
  <2>2. ~Precedes(texts, place(k), place(j)) /\ place(k) # place(j)
    BY <1>7, <2>1, RanksAre
  <2> QED BY <1>3, <2>1, <2>2, PlacesAreOrdered DEF Precedes
<1> QED BY <1>0, <1>1, <1>4, <1>5, <1>6, <1>7

\* The loop's rounds: the recursion of MergeAll has a solution.
Rounds(m, n, all) ==
  m = [k \in 0 .. n |-> IF k = 0 THEN [ok |-> Len(all) <= MaxEntries, records |-> <<>>]
                        ELSE MergeInto(m[k - 1], all[k])]

LEMMA MergeAllUnfolds ==
  ASSUME NEW all \in Seq(Entry)
  PROVE  \E m : Rounds(m, Len(all), all) /\ MergeAll(all) = m[Len(all)]
<1> DEFINE start == [ok |-> Len(all) <= MaxEntries, records |-> <<>>]
           T == {n \in 0 .. Len(all) : ~\E m : Rounds(m, n, all)}
<1>0. Len(all) \in Nat
  OBVIOUS
<1>1. \E m : Rounds(m, Len(all), all)
  <2> SUFFICES ASSUME T # {} PROVE FALSE
    BY <1>0
  <2>1. T \subseteq Nat
    OBVIOUS
  <2>2. First(T) \in T /\ \A n \in T : First(T) <= n
    <3> HIDE DEF T
    <3> QED BY <2>1, FirstIsOne
  <2>3. PICK n \in 0 .. Len(all) : /\ ~\E m : Rounds(m, n, all)
                                  /\ \A k \in T : n <= k
    BY <2>2
  <2>4. CASE n = 0
    <3> DEFINE m == [k \in 0 .. 0 |-> start]
    <3>1. Rounds(m, 0, all)
      BY DEF Rounds
    <3> QED BY <2>3, <2>4, <3>1
  <2>5. CASE n # 0
    <3>1. n - 1 \in 0 .. Len(all) /\ n - 1 \notin T
      BY <1>0, <2>3, <2>5
    <3>2. PICK m : Rounds(m, n - 1, all)
      BY <3>1
    <3> DEFINE more == [k \in 0 .. n |-> IF k = n THEN MergeInto(m[n - 1], all[n]) ELSE m[k]]
    <3>3. \A k \in 0 .. n - 1 : m[k] = IF k = 0 THEN start ELSE MergeInto(m[k - 1], all[k])
      BY <3>2 DEF Rounds
    <3>4. \A k \in 0 .. n : more[k] = IF k = 0 THEN start ELSE MergeInto(more[k - 1], all[k])
      <4> SUFFICES ASSUME NEW k \in 0 .. n
                   PROVE  more[k] = IF k = 0 THEN start ELSE MergeInto(more[k - 1], all[k])
        OBVIOUS
      <4>1. CASE k = n
        <5>1. more[k - 1] = m[n - 1] /\ more[k] = MergeInto(m[n - 1], all[n])
          BY <2>5, <4>1
        <5> HIDE DEF more
        <5> QED BY <2>5, <4>1, <5>1
      <4>2. CASE k # n
        <5>1. k \in 0 .. n - 1 /\ (k # 0 => k - 1 \in 0 .. n - 1)
          BY <4>2
        <5>2. more[k] = m[k] /\ (k # 0 => more[k - 1] = m[k - 1])
          BY <5>1
        <5> HIDE DEF more
        <5> QED BY <3>3, <5>1, <5>2
      <4> QED BY <4>1, <4>2
    <3>5. Rounds(more, n, all)
      <4>1. more = [k \in 0 .. n |-> more[k]]
        OBVIOUS
      <4> HIDE DEF more
      <4> QED BY <3>4, <4>1 DEF Rounds
    <3> QED BY <2>3, <3>5
  <2> QED BY <2>4, <2>5
<1> DEFINE merged == CHOOSE m : Rounds(m, Len(all), all)
<1>2. MergeAll(all) = merged[Len(all)]
  BY Zenon DEF MergeAll, Rounds
<1>3. Rounds(merged, Len(all), all)
  BY <1>1
<1> QED BY <1>2, <1>3

\* What the merge has come to after the first k records: it goes on as long as
\* records only overlap that are the same, and holds them once, in order.
Increasing(records) ==
  \A i, j \in DOMAIN records : i < j => KeyLess(records[i], records[j])

Harmless(all, k) == \A i, j \in 1 .. k : Overlaps(all[i], all[j]) => all[i] = all[j]

Accepted(merged, all, k) ==
  /\ merged \in [ok : BOOLEAN, records : Seq(Entry)]
  /\ merged.ok <=> Len(all) <= MaxEntries /\ Harmless(all, k)
  /\ merged.ok => /\ \A i \in DOMAIN merged.records :
                       \E j \in 1 .. k : merged.records[i] = all[j]
                  /\ \A j \in 1 .. k :
                       \E i \in DOMAIN merged.records : merged.records[i] = all[j]
                  /\ Increasing(merged.records)

LEMMA RoundAccepts ==
  ASSUME NEW all \in Seq(Entry),
         \A i, j \in DOMAIN all : i < j => ~KeyLess(all[j], all[i]),
         NEW k \in 1 .. Len(all), NEW merged, Accepted(merged, all, k - 1)
  PROVE  Accepted(MergeInto(merged, all[k]), all, k)
<1> DEFINE e == all[k]
           old == merged.records
           met == {i \in DOMAIN old : Overlaps(e, old[i])}
           new == MergeInto(merged, e)
<1>0. /\ merged \in [ok : BOOLEAN, records : Seq(Entry)]
      /\ old \in Seq(Entry) /\ merged.ok \in BOOLEAN
      /\ merged = [ok |-> merged.ok, records |-> old]
      /\ e \in Entry /\ Len(all) \in Nat
      /\ \A i \in 1 .. k : i \in DOMAIN all /\ all[i] \in Entry /\ (i = k \/ i \in 1 .. k - 1)
      /\ \A i \in 1 .. k - 1 : i \in 1 .. k /\ i < k
      /\ \A i \in DOMAIN old : old[i] \in Entry
      /\ k \in 1 .. k
  BY DEF Accepted
<1>1. CASE ~merged.ok
  <2>1. new = merged
    BY <1>1 DEF MergeInto
  <2>2. ~(Len(all) <= MaxEntries /\ Harmless(all, k - 1))
    BY <1>1 DEF Accepted
  <2>3. ~(Len(all) <= MaxEntries /\ Harmless(all, k))
    BY <1>0, <2>2 DEF Harmless
  <2>4. Accepted(merged, all, k)
    BY <1>0, <1>1, <2>3 DEF Accepted
  <2> QED BY <2>1, <2>4
<1>2. CASE merged.ok /\ met = {}
  <2>1. new = [ok |-> TRUE, records |-> Append(old, e)]
    <3>1. new = [merged EXCEPT !.records = Append(old, e)]
      BY <1>2 DEF MergeInto
    <3> HIDE DEF new, e, old
    <3> QED BY <1>0, <1>2, <3>1
  <2> DEFINE more == Append(old, e)
  <2>2. /\ more \in Seq(Entry) /\ DOMAIN more = 1 .. Len(old) + 1 /\ Len(old) \in Nat
        /\ DOMAIN old = 1 .. Len(old)
        /\ \A i \in DOMAIN old : i \in DOMAIN more /\ more[i] = old[i]
        /\ more[Len(old) + 1] = e /\ Len(old) + 1 \in DOMAIN more
        /\ \A i \in DOMAIN more : i \in DOMAIN old \/ i = Len(old) + 1
    <3> HIDE DEF old, e
    <3> QED BY <1>0
  <2>3. /\ \A i \in DOMAIN old : \E j \in 1 .. k - 1 : old[i] = all[j]
        /\ \A j \in 1 .. k - 1 : \E i \in DOMAIN old : old[i] = all[j]
        /\ Increasing(old) /\ Len(all) <= MaxEntries /\ Harmless(all, k - 1)
    BY <1>2 DEF Accepted
  <2>4. \A j \in 1 .. k - 1 : ~Overlaps(e, all[j]) /\ ~Overlaps(all[j], e)
    <3>1. ASSUME NEW j \in 1 .. k - 1 PROVE ~Overlaps(e, all[j]) /\ ~Overlaps(all[j], e)
      <4>1. ~Overlaps(e, all[j])
        BY <1>2, <2>3
      <4>2. all[j] \in Entry
        BY <1>0
      <4> HIDE DEF e
      <4> QED BY <1>0, <4>1, <4>2, KeysAreOrdered
    <3> QED BY <3>1
  <2> HIDE DEF more, old, new, e, met
  <2>5. Harmless(all, k)
    BY <1>0, <2>3, <2>4 DEF Harmless, e
  <2>6. \A i \in DOMAIN old : KeyLess(old[i], e)
    <3> SUFFICES ASSUME NEW i \in DOMAIN old PROVE KeyLess(old[i], e)
      OBVIOUS
    <3>1. PICK j \in 1 .. k - 1 : old[i] = all[j]
      BY <2>3
    <3>2. ~KeyLess(e, all[j])
      BY <1>0 DEF e
    <3> QED BY <1>0, <2>4, <3>1, <3>2, KeysAreOrdered
  <2>7. Increasing(more)
    <3> SUFFICES ASSUME NEW i \in DOMAIN more, NEW j \in DOMAIN more, i < j
                 PROVE  KeyLess(more[i], more[j])
      BY DEF Increasing
    <3>1. i \in DOMAIN old
      BY <2>2
    <3> QED BY <2>2, <2>3, <2>6, <3>1 DEF Increasing
  <2>8. /\ \A i \in DOMAIN more : \E j \in 1 .. k : more[i] = all[j]
        /\ \A j \in 1 .. k : \E i \in DOMAIN more : more[i] = all[j]
    <3>1. ASSUME NEW i \in DOMAIN more PROVE \E j \in 1 .. k : more[i] = all[j]
      <4>1. CASE i \in DOMAIN old
        BY <1>0, <2>2, <2>3, <4>1
      <4>2. CASE i = Len(old) + 1
        BY <1>0, <2>2, <4>2 DEF e
      <4> QED BY <2>2, <4>1, <4>2
    <3>2. ASSUME NEW j \in 1 .. k PROVE \E i \in DOMAIN more : more[i] = all[j]
      <4>1. CASE j \in 1 .. k - 1
        BY <2>2, <2>3, <4>1
      <4>2. CASE j = k
        BY <2>2, <4>2 DEF e
      <4> QED BY <1>0, <4>1, <4>2
    <3> QED BY <3>1, <3>2
  <2>9. new.ok = TRUE /\ new.records = more /\ new \in [ok : BOOLEAN, records : Seq(Entry)]
    BY <2>1, <2>2 DEF more
  <2>10. Accepted(new, all, k)
    BY <2>3, <2>5, <2>7, <2>8, <2>9 DEF Accepted
  <2> QED BY <2>10 DEF new, e
<1>3. CASE merged.ok /\ met # {}
  <2>1. PICK m : m = First(met)
    OBVIOUS
  <2>2. new = [ok |-> e = old[m], records |-> old]
    <3>1. new = [merged EXCEPT !.ok = e = old[m]]
      BY <1>3, <2>1 DEF MergeInto
    <3> HIDE DEF new, e, old
    <3> QED BY <1>0, <3>1
  <2>3. m \in met
    <3>1. met \subseteq Nat
      BY <1>0
    <3> HIDE DEF met
    <3> QED BY <1>3, <2>1, <3>1, FirstIsOne
  <2>4. m \in DOMAIN old /\ Overlaps(e, old[m])
    BY <2>3
  <2>5. /\ \A i \in DOMAIN old : \E j \in 1 .. k - 1 : old[i] = all[j]
        /\ \A j \in 1 .. k - 1 : \E i \in DOMAIN old : old[i] = all[j]
        /\ Increasing(old) /\ Len(all) <= MaxEntries /\ Harmless(all, k - 1)
    BY <1>3 DEF Accepted
  <2>6. PICK h \in 1 .. k - 1 : old[m] = all[h]
    BY <2>4, <2>5
  <2> HIDE DEF old, new, e, met
  <2>7. new.ok = (e = all[h]) /\ new.records = old
        /\ new \in [ok : BOOLEAN, records : Seq(Entry)]
    BY <1>0, <2>2, <2>6
  <2>8. CASE e = all[h]
    <3>1. Harmless(all, k)
      <4> SUFFICES ASSUME NEW i \in 1 .. k, NEW j \in 1 .. k, Overlaps(all[i], all[j])
                   PROVE  all[i] = all[j]
        BY DEF Harmless
      <4>1. PICK x \in 1 .. k - 1 : all[x] = all[i]
        BY <1>0, <2>8 DEF e
      <4>2. PICK y \in 1 .. k - 1 : all[y] = all[j]
        BY <1>0, <2>8 DEF e
      <4> QED BY <2>5, <4>1, <4>2 DEF Harmless
    <3>2. /\ \A i \in DOMAIN old : \E j \in 1 .. k : old[i] = all[j]
          /\ \A j \in 1 .. k : \E i \in DOMAIN old : old[i] = all[j]
      BY <1>0, <2>5, <2>8 DEF e
    <3>3. Accepted(new, all, k)
      BY <2>5, <2>7, <2>8, <3>1, <3>2 DEF Accepted
    <3> QED BY <3>3 DEF new, e
  <2>9. CASE e # all[h]
    <3>1. ~Harmless(all, k)
      BY <1>0, <2>4, <2>6, <2>9 DEF Harmless, e
    <3>2. Accepted(new, all, k)
      BY <2>7, <2>9, <3>1 DEF Accepted
    <3> QED BY <3>2 DEF new, e
  <2> QED BY <2>8, <2>9
<1> QED BY <1>0, <1>1, <1>2, <1>3

LEMMA MergeAccepts ==
  ASSUME NEW all \in Seq(Entry),
         \A i, j \in DOMAIN all : i < j => ~KeyLess(all[j], all[i])
  PROVE  Accepted(MergeAll(all), all, Len(all))
<1>0. Len(all) \in Nat
  OBVIOUS
<1>1. PICK m : Rounds(m, Len(all), all) /\ MergeAll(all) = m[Len(all)]
  BY MergeAllUnfolds
<1> DEFINE T == {k \in 0 .. Len(all) : ~Accepted(m[k], all, k)}
<1>2. SUFFICES ASSUME T # {} PROVE FALSE
  BY <1>0, <1>1
<1>3. First(T) \in T /\ \A k \in T : First(T) <= k
  <2>1. T \subseteq Nat
    OBVIOUS
  <2> HIDE DEF T
  <2> QED BY <1>2, <2>1, FirstIsOne
<1>4. PICK k \in 0 .. Len(all) : ~Accepted(m[k], all, k) /\ \A j \in T : k <= j
  BY <1>3
<1>5. m[k] = IF k = 0 THEN [ok |-> Len(all) <= MaxEntries, records |-> <<>>]
             ELSE MergeInto(m[k - 1], all[k])
  BY <1>1 DEF Rounds
<1>6. CASE k = 0
  <2>1. <<>> \in Seq(Entry) /\ DOMAIN <<>> = {} /\ (Len(all) <= MaxEntries) \in BOOLEAN
    OBVIOUS
  <2>a. m[0] = [ok |-> Len(all) <= MaxEntries, records |-> <<>>]
    BY <1>5, <1>6
  <2>2. /\ m[0].ok = (Len(all) <= MaxEntries) /\ m[0].records = <<>>
        /\ m[0] \in [ok : BOOLEAN, records : Seq(Entry)]
    BY <2>1, <2>a
  <2>3. Accepted(m[0], all, 0)
    BY <2>1, <2>2 DEF Accepted, Harmless, Increasing
  <2> QED BY <1>4, <1>6, <2>3
<1>7. CASE k # 0
  <2>1. k - 1 \in 0 .. Len(all) /\ k - 1 \notin T /\ k \in 1 .. Len(all)
    BY <1>0, <1>4, <1>7
  <2>2. Accepted(m[k - 1], all, k - 1)
    BY <2>1
  <2>3. Accepted(MergeInto(m[k - 1], all[k]), all, k)
    BY <2>1, <2>2, RoundAccepts
  <2> QED BY <1>4, <1>5, <1>7, <2>3
<1> QED BY <1>6, <1>7

\* What a merge of files comes to: it holds every record of every file, once
\* and in the order of the keys, unless there are too many of them or two that
\* overlap and differ.
Compatible(texts) ==
  \A f, g \in DOMAIN texts : \A i \in DOMAIN texts[f], j \in DOMAIN texts[g] :
    Overlaps(texts[f][i], texts[g][j]) => texts[f][i] = texts[g][j]

Holds(records, texts) ==
  \A f \in DOMAIN texts : \A i \in DOMAIN texts[f] :
    \E k \in DOMAIN records : records[k] = texts[f][i]

HoldsOnly(records, texts) ==
  \A k \in DOMAIN records :
    \E f \in DOMAIN texts : \E i \in DOMAIN texts[f] : records[k] = texts[f][i]

LEMMA MergeIs ==
  ASSUME NEW texts \in Directory
  PROVE  /\ Merge(texts) \in [ok : BOOLEAN, records : Seq(Entry)]
         /\ Merge(texts).ok <=>
              Cardinality(Places(texts)) <= MaxEntries /\ Compatible(texts)
         /\ Merge(texts).ok => /\ Increasing(Merge(texts).records)
                               /\ Holds(Merge(texts).records, texts)
                               /\ HoldsOnly(Merge(texts).records, texts)
<1>1. PICK all : all = SortedRecords(texts)
  OBVIOUS
<1>2. /\ all \in Seq(Entry)
      /\ Len(all) = Cardinality(Places(texts))
      /\ Holds(all, texts) /\ HoldsOnly(all, texts)
      /\ \A j, k \in DOMAIN all : j < k => ~KeyLess(all[k], all[j])
  BY <1>1, SortedAre DEF Holds, HoldsOnly
<1>3. DOMAIN all = 1 .. Len(all)
  BY <1>2
<1>4. PICK merged : merged = Merge(texts) /\ Accepted(merged, all, Len(all))
  BY <1>1, <1>2, MergeAccepts DEF Merge
<1>5. Harmless(all, Len(all)) <=> Compatible(texts)
  <2>1. ASSUME Compatible(texts), NEW j \in DOMAIN all, NEW k \in DOMAIN all,
               Overlaps(all[j], all[k])
        PROVE  all[j] = all[k]
    <3>1. PICK f \in DOMAIN texts : \E i \in DOMAIN texts[f] : all[j] = texts[f][i]
      BY <1>2 DEF HoldsOnly
    <3>2. PICK g \in DOMAIN texts : \E i \in DOMAIN texts[g] : all[k] = texts[g][i]
      BY <1>2 DEF HoldsOnly
    <3> QED BY <2>1, <3>1, <3>2 DEF Compatible
  <2>2. ASSUME Harmless(all, Len(all)), NEW f \in DOMAIN texts, NEW g \in DOMAIN texts,
               NEW i \in DOMAIN texts[f], NEW j \in DOMAIN texts[g],
               Overlaps(texts[f][i], texts[g][j])
        PROVE  texts[f][i] = texts[g][j]
    <3>1. PICK h \in DOMAIN all : all[h] = texts[f][i]
      BY <1>2 DEF Holds
    <3>2. PICK k \in DOMAIN all : all[k] = texts[g][j]
      BY <1>2 DEF Holds
    <3> QED BY <1>3, <2>2, <3>1, <3>2 DEF Harmless
  <2> QED BY <1>3, <2>1, <2>2 DEF Harmless, Compatible
<1>6. ASSUME merged.ok
      PROVE  Holds(merged.records, texts) /\ HoldsOnly(merged.records, texts)
  <2>1. /\ \A i \in DOMAIN merged.records : \E j \in DOMAIN all : merged.records[i] = all[j]
        /\ \A j \in DOMAIN all : \E i \in DOMAIN merged.records : merged.records[i] = all[j]
    BY <1>3, <1>4, <1>6 DEF Accepted
  <2>2. Holds(merged.records, texts)
    BY <1>2, <2>1 DEF Holds
  <2>3. HoldsOnly(merged.records, texts)
    BY <1>2, <2>1 DEF HoldsOnly
  <2> QED BY <2>2, <2>3
<1> QED BY <1>2, <1>4, <1>5, <1>6 DEF Accepted

\* Records in the order of their keys are determined by what they are: at the
\* first place where two such sequences differ, each would have to be the later.
LEMMA NeverAhead ==
  ASSUME NEW a \in Seq(Entry), NEW b \in Seq(Entry), Increasing(a), Increasing(b),
         NEW k \in DOMAIN a, \E h \in DOMAIN b : a[k] = b[h],
         \A j \in 1 .. k - 1 : j \in DOMAIN a /\ j \in DOMAIN b /\ a[j] = b[j]
  PROVE  k \in DOMAIN b /\ (a[k] = b[k] \/ KeyLess(b[k], a[k]))
<1>1. PICK h \in DOMAIN b : a[k] = b[h]
  OBVIOUS
<1>2. h \in Nat /\ k \in Nat /\ 1 <= h /\ 1 <= k /\ h <= Len(b) /\ Len(b) \in Nat
  OBVIOUS
<1>3. ~(h < k)
  <2> SUFFICES ASSUME h < k PROVE FALSE
    OBVIOUS
  <2>1. h \in DOMAIN a /\ a[h] = a[k]
    BY <1>1, <1>2
  <2>2. KeyLess(a[h], a[k]) /\ a[k] \in Entry
    BY <2>1 DEF Increasing
  <2> QED BY <2>1, <2>2, KeysAreOrdered
<1>4. k \in DOMAIN b
  BY <1>2, <1>3
<1> QED BY <1>1, <1>2, <1>3, <1>4 DEF Increasing

LEMMA SameRecords ==
  ASSUME NEW a \in Seq(Entry), NEW b \in Seq(Entry), Increasing(a), Increasing(b),
         \A k \in DOMAIN a : \E h \in DOMAIN b : a[k] = b[h],
         \A k \in DOMAIN b : \E h \in DOMAIN a : b[k] = a[h]
  PROVE  a = b
<1> DEFINE T == {k \in DOMAIN a \cup DOMAIN b :
                   ~(k \in DOMAIN a /\ k \in DOMAIN b /\ a[k] = b[k])}
<1>0. /\ DOMAIN a = 1 .. Len(a) /\ Len(a) \in Nat
      /\ DOMAIN b = 1 .. Len(b) /\ Len(b) \in Nat
  OBVIOUS
<1>1. CASE T = {}
  <2>1. \A k \in DOMAIN a \cup DOMAIN b : k \in DOMAIN a /\ k \in DOMAIN b /\ a[k] = b[k]
    BY <1>1
  <2>2. DOMAIN a = DOMAIN b
    BY <2>1
  <2> QED BY <1>0, <2>1, <2>2
<1>2. CASE T # {}
  <2>1. First(T) \in T /\ \A k \in T : First(T) <= k
    <3>1. T \subseteq Nat
      OBVIOUS
    <3> HIDE DEF T
    <3> QED BY <1>2, <3>1, FirstIsOne
  <2>2. PICK k \in T : \A j \in T : k <= j
    BY <2>1
  <2>3. k \in DOMAIN a \cup DOMAIN b /\ k \in Nat
    BY <1>0
  <2>4. \A j \in 1 .. k - 1 : j \in DOMAIN a /\ j \in DOMAIN b /\ a[j] = b[j]
    <3> SUFFICES ASSUME NEW j \in 1 .. k - 1
                 PROVE  j \in DOMAIN a /\ j \in DOMAIN b /\ a[j] = b[j]
      OBVIOUS
    <3>1. j \in DOMAIN a \cup DOMAIN b /\ ~(k <= j)
      BY <1>0, <2>3
    <3>2. j \notin T
      BY <2>2, <3>1
    <3> QED BY <3>1, <3>2
  <2>5. k \in DOMAIN a => k \in DOMAIN b /\ (a[k] = b[k] \/ KeyLess(b[k], a[k]))
    BY <2>4, NeverAhead
  <2>6. k \in DOMAIN b => k \in DOMAIN a /\ (b[k] = a[k] \/ KeyLess(a[k], b[k]))
    BY <2>4, NeverAhead
  <2>7. k \in DOMAIN a /\ k \in DOMAIN b /\ a[k] \in Entry /\ b[k] \in Entry
    BY <2>3, <2>5, <2>6
  <2>8. a[k] = b[k]
    BY <2>5, <2>6, <2>7, KeysAreOrdered
  <2> QED BY <2>2, <2>7, <2>8
<1> QED BY <1>1, <1>2

\* Files under other names: each of them keeps its records, and there are as
\* many of them.
LEMMA ReverseIs ==
  ASSUME NEW texts \in Directory
  PROVE  /\ Reverse(texts) \in Directory
         /\ Len(Reverse(texts)) = Len(texts)
         /\ \A f \in DOMAIN texts : /\ Len(texts) - f + 1 \in DOMAIN Reverse(texts)
                                    /\ Reverse(texts)[Len(texts) - f + 1] = texts[f]
         /\ \A f \in DOMAIN Reverse(texts) : /\ Len(texts) - f + 1 \in DOMAIN texts
                                             /\ texts[Len(texts) - f + 1] = Reverse(texts)[f]
<1>0. texts \in Seq(Seq(Entry)) /\ Len(texts) \in Nat /\ DOMAIN texts = 1 .. Len(texts)
  BY DEF Directory
<1>1. Reverse(texts) = [i \in 1 .. Len(texts) |-> texts[Len(texts) - i + 1]]
  BY <1>0 DEF Reverse
<1>2. \A i \in 1 .. Len(texts) : /\ Len(texts) - i + 1 \in 1 .. Len(texts)
                                 /\ Len(texts) - (Len(texts) - i + 1) + 1 = i
                                 /\ texts[i] \in Seq(Entry)
  BY <1>0
<1>3. PICK other : other = Reverse(texts)
  OBVIOUS
<1>4. /\ other \in Seq(Seq(Entry)) /\ Len(other) = Len(texts)
      /\ DOMAIN other = 1 .. Len(texts)
      /\ \A i \in 1 .. Len(texts) : other[i] = texts[Len(texts) - i + 1]
  BY <1>0, <1>1, <1>2, <1>3
<1>5. ASSUME NEW f \in DOMAIN texts
      PROVE  Len(texts) - f + 1 \in DOMAIN other /\ other[Len(texts) - f + 1] = texts[f]
  BY <1>0, <1>2, <1>4
<1>6. ASSUME NEW f \in DOMAIN other
      PROVE  Len(texts) - f + 1 \in DOMAIN texts /\ texts[Len(texts) - f + 1] = other[f]
  BY <1>0, <1>2, <1>4
<1> QED BY <1>3, <1>4, <1>5, <1>6, Zenon DEF Directory

LEMMA RenamedPlaces ==
  ASSUME NEW texts \in Directory
  PROVE  Cardinality(Places(Reverse(texts))) = Cardinality(Places(texts))
<1> DEFINE other == Reverse(texts)
           S == Places(texts)
           R == Places(other)
           moved == [p \in S |-> <<Len(texts) - p[1] + 1, p[2]>>]
<1>1. /\ other \in Directory /\ Len(texts) \in Nat /\ DOMAIN texts = 1 .. Len(texts)
      /\ \A f \in DOMAIN texts : /\ Len(texts) - f + 1 \in DOMAIN other
                                 /\ other[Len(texts) - f + 1] = texts[f]
      /\ \A f \in DOMAIN other : /\ Len(texts) - f + 1 \in DOMAIN texts
                                 /\ texts[Len(texts) - f + 1] = other[f]
  BY ReverseIs DEF Directory
<1> HIDE DEF other
<1>2. /\ IsFiniteSet(S)
      /\ \A p \in S : /\ p = <<p[1], p[2]>> /\ p[1] \in Nat
                      /\ p[1] \in DOMAIN texts /\ p[2] \in DOMAIN texts[p[1]]
      /\ \A f \in DOMAIN texts : \A i \in DOMAIN texts[f] : <<f, i>> \in S
  BY PlacesAre
<1>3. /\ \A p \in R : /\ p = <<p[1], p[2]>> /\ p[1] \in Nat
                      /\ p[1] \in DOMAIN other /\ p[2] \in DOMAIN other[p[1]]
      /\ \A f \in DOMAIN other : \A i \in DOMAIN other[f] : <<f, i>> \in R
  BY <1>1, PlacesAre
<1> HIDE DEF S, R
<1>4. \A p \in S : moved[p] = <<Len(texts) - p[1] + 1, p[2]>> /\ moved[p] \in R
  BY <1>1, <1>2, <1>3
<1>5. ASSUME NEW p \in S, NEW q \in S, moved[p] = moved[q] PROVE p = q
  <2>1. Len(texts) - p[1] + 1 = Len(texts) - q[1] + 1 /\ p[2] = q[2]
    BY <1>4, <1>5
  <2>2. p[1] = q[1]
    BY <1>1, <1>2, <2>1
  <2> QED BY <1>2, <2>1, <2>2
<1>6. ASSUME NEW r \in R PROVE \E p \in S : moved[p] = r
  <2>1. PICK f : f = Len(texts) - r[1] + 1
    OBVIOUS
  <2>2. f \in DOMAIN texts /\ r[2] \in DOMAIN texts[f] /\ Len(texts) - f + 1 = r[1]
    BY <1>1, <1>3, <2>1
  <2>3. PICK p \in S : p = <<f, r[2]>>
    BY <1>2, <2>2
  <2>4. p[1] = f /\ p[2] = r[2]
    BY <2>3
  <2> QED BY <1>3, <1>4, <2>2, <2>4
<1>7. moved \in Bijection(S, R)
  <2>1. moved \in [S -> R] /\ DOMAIN moved = S
    BY <1>4
  <2> HIDE DEF moved
  <2>2. moved \in Injection(S, R)
    BY <1>5, <2>1 DEF Injection, IsInjective
  <2>3. moved \in Surjection(S, R)
    BY <1>6, <2>1 DEF Surjection
  <2> QED BY <2>2, <2>3 DEF Bijection
<1>8. Cardinality(S) = Cardinality(R)
  <2> HIDE DEF moved
  <2> QED BY <1>2, <1>7, FS_Bijection DEF ExistsBijection
<1> QED BY <1>8 DEF S, R, other

LEMMA NamesOnly ==
  ASSUME NEW texts \in Directory
  PROVE  IF Merge(texts).ok THEN Merge(Reverse(texts)) = Merge(texts)
                            ELSE ~Merge(Reverse(texts)).ok
<1>1. PICK other : other = Reverse(texts)
  OBVIOUS
<1>2. /\ other \in Directory
      /\ Cardinality(Places(other)) = Cardinality(Places(texts))
      /\ \A f \in DOMAIN texts : \E g \in DOMAIN other : other[g] = texts[f]
      /\ \A g \in DOMAIN other : \E f \in DOMAIN texts : other[g] = texts[f]
  BY <1>1, ReverseIs, RenamedPlaces
<1>3. ASSUME NEW a \in Directory, NEW b \in Directory, Compatible(a),
             \A g \in DOMAIN b : \E f \in DOMAIN a : b[g] = a[f]
      PROVE  Compatible(b)
  <2> SUFFICES ASSUME NEW f \in DOMAIN b, NEW g \in DOMAIN b,
                      NEW i \in DOMAIN b[f], NEW j \in DOMAIN b[g],
                      Overlaps(b[f][i], b[g][j])
               PROVE  b[f][i] = b[g][j]
    BY DEF Compatible
  <2>1. PICK x \in DOMAIN a : b[f] = a[x]
    BY <1>3
  <2>2. PICK y \in DOMAIN a : b[g] = a[y]
    BY <1>3
  <2> QED BY <1>3, <2>1, <2>2 DEF Compatible
<1>4. Merge(other).ok <=> Merge(texts).ok
  <2>1. Compatible(texts) <=> Compatible(other)
    BY <1>2, <1>3
  <2> QED BY <1>2, <2>1, MergeIs
<1>5. ASSUME Merge(texts).ok PROVE Merge(other) = Merge(texts)
  <2>1. PICK m : m = Merge(texts)
    OBVIOUS
  <2>2. PICK n : n = Merge(other)
    OBVIOUS
  <2>3. /\ m \in [ok : BOOLEAN, records : Seq(Entry)] /\ m.ok
        /\ Increasing(m.records) /\ Holds(m.records, texts) /\ HoldsOnly(m.records, texts)
    BY <1>5, <2>1, MergeIs
  <2>4. /\ n \in [ok : BOOLEAN, records : Seq(Entry)] /\ n.ok
        /\ Increasing(n.records) /\ Holds(n.records, other) /\ HoldsOnly(n.records, other)
    BY <1>2, <1>4, <1>5, <2>2, MergeIs
  <2>5. ASSUME NEW k \in DOMAIN m.records
        PROVE  \E h \in DOMAIN n.records : m.records[k] = n.records[h]
    <3>1. PICK f \in DOMAIN texts : \E i \in DOMAIN texts[f] : m.records[k] = texts[f][i]
      BY <2>3 DEF HoldsOnly
    <3>2. PICK i \in DOMAIN texts[f] : m.records[k] = texts[f][i]
      BY <3>1
    <3>3. PICK g \in DOMAIN other : other[g] = texts[f]
      BY <1>2
    <3> QED BY <2>4, <3>2, <3>3 DEF Holds
  <2>6. ASSUME NEW k \in DOMAIN n.records
        PROVE  \E h \in DOMAIN m.records : n.records[k] = m.records[h]
    <3>1. PICK g \in DOMAIN other : \E i \in DOMAIN other[g] : n.records[k] = other[g][i]
      BY <2>4 DEF HoldsOnly
    <3>2. PICK i \in DOMAIN other[g] : n.records[k] = other[g][i]
      BY <3>1
    <3>3. PICK f \in DOMAIN texts : other[g] = texts[f]
      BY <1>2
    <3> QED BY <2>3, <3>2, <3>3 DEF Holds
  <2>7. m.records = n.records
    <3>1. m.records \in Seq(Entry) /\ n.records \in Seq(Entry)
      BY <2>3, <2>4
    <3> QED BY <2>3, <2>4, <2>5, <2>6, <3>1, SameRecords
  <2>8. m = n
    BY <2>3, <2>4, <2>7
  <2> QED BY <2>1, <2>2, <2>8
<1> QED BY <1>1, <1>4, <1>5

-----------------------------------------------------------------------------
(* What was loaded is in the snapshot.                                     *)

\* A load that is under way has an outcome yet to come, and one of a single
\* file reads that file; after a load every record it read is in the snapshot.
LoadInv ==
  /\ pc = "read" => outcome = "none"
  /\ pc = "read" /\ ~whole => \/ sources = <<>> /\ \E f \in Files : todo = {f}
                              \/ Len(sources) = 1 /\ todo = {}
  /\ outcome = "loaded" => Holds(snapshot, sources)

LEMMA LoadStep == Sound /\ LoadInv /\ [Next]_vars => LoadInv'
<1> SUFFICES ASSUME Sound, LoadInv, [Next]_vars PROVE LoadInv'
  OBVIOUS
<1>0. sources \in Directory /\ snapshot \in Seq(Entry) /\ todo \subseteq Files
  BY DEF Sound, TypeOK, Directory
<1>1. CASE ReadDirectory
  BY <1>1 DEF ReadDirectory, LoadInv
<1>2. ASSUME NEW f \in Files, ReadOneFile(f) PROVE LoadInv'
  BY <1>2 DEF ReadOneFile, LoadInv
<1>3. CASE ReadFile
  <2> DEFINE text == disk[First(todo)]
  <2>0. pc = "read" /\ todo # {} /\ UNCHANGED <<builtin, disk, whole, snapshot>>
    BY <1>3 DEF ReadFile
  <2>1. CASE ~text.malformed /\ Valid(text.records)
    <3>1. /\ sources' = Append(sources, text.records)
          /\ todo' = todo \ {First(todo)}
          /\ UNCHANGED <<pc, outcome>>
      BY <1>3, <2>1 DEF ReadFile
    <3>2. outcome' = "none"
      BY <2>0, <3>1 DEF LoadInv
    <3>3. ASSUME ~whole PROVE Len(sources') = 1 /\ todo' = {}
      <4>1. PICK f \in Files : sources = <<>> /\ todo = {f}
        BY <2>0, <3>3 DEF LoadInv
      <4>2. First(todo) = f
        <5>1. todo \subseteq Nat
          BY <4>1 DEF Files
        <5>2. First(todo) \in todo
          BY <2>0, <5>1, FirstIsOne
        <5> QED BY <4>1, <5>2
      <4> QED BY <3>1, <4>1, <4>2
    <3> QED BY <2>0, <3>1, <3>2, <3>3 DEF LoadInv
  <2>2. CASE ~(~text.malformed /\ Valid(text.records))
    <3>1. Return("failed")
      BY <1>3, <2>2 DEF ReadFile
    <3> QED BY <3>1 DEF Return, LoadInv
  <2> QED BY <2>1, <2>2
<1>4. CASE ReadFileFails
  BY <1>4 DEF ReadFileFails, Return, LoadInv
<1>5. CASE Parse
  <2> DEFINE merged == IF whole THEN Merge(sources)
                       ELSE [ok |-> TRUE, records |-> sources[1]]
  <2>1. pc = "read" /\ todo = {} /\ UNCHANGED <<builtin, disk, whole, todo, sources>>
    BY <1>5 DEF Parse
  <2>2. CASE merged.ok /\ Valid(merged.records) /\ Agrees(merged.records, builtin)
    <3>1. Return("loaded") /\ snapshot' = merged.records
      BY <1>5, <2>2 DEF Parse
    <3>2. CASE whole
      <4>1. merged = Merge(sources)
        BY <3>2
      <4>2. Holds(Merge(sources).records, sources)
        BY <1>0, <2>2, <4>1, MergeIs
      <4>3. Holds(snapshot', sources')
        BY <2>1, <3>1, <4>1, <4>2
      <4> QED BY <3>1, <4>3 DEF Return, LoadInv
    <3>3. CASE ~whole
      <4>1. merged.records = sources[1] /\ Len(sources) = 1
        BY <2>1, <3>3 DEF LoadInv
      <4>2. DOMAIN sources = {1}
        BY <1>0, <4>1 DEF Directory
      <4>3. Holds(snapshot', sources')
        BY <2>1, <3>1, <4>1, <4>2 DEF Holds
      <4> QED BY <3>1, <4>3 DEF Return, LoadInv
    <3> QED BY <3>2, <3>3
  <2>3. CASE ~(merged.ok /\ Valid(merged.records) /\ Agrees(merged.records, builtin))
    <3>1. Return("failed")
      BY <1>5, <2>3 DEF Parse
    <3> QED BY <3>1 DEF Return, LoadInv
  <2> QED BY <2>2, <2>3
<1>6. ASSUME NEW f \in Files, NEW t \in Texts \cup {NoFile}, Edit(f, t) PROVE LoadInv'
  BY <1>6 DEF Edit, LoadInv
<1>7. CASE UNCHANGED vars
  BY <1>7 DEF vars, LoadInv
<1> QED
  BY <1>1, <1>2, <1>3, <1>4, <1>5, <1>6, <1>7 DEF Next

\* Whatever a load read is in the snapshot it made.
THEOREM AlwaysLoaded == Spec => []LoadInv
<1>1. Init => LoadInv
  BY DEF Init, LoadInv
<1> QED BY <1>1, LoadStep, AlwaysSound, PTL DEF Spec

\* A lookup that finds every record of the snapshot finds every record loaded.
LEMMA SoundLosesNothing == Sound /\ LoadInv => NothingLost
<1> SUFFICES ASSUME Sound, LoadInv, outcome = "loaded",
                    NEW id \in Devices, NEW s \in DOMAIN sources,
                    NEW i \in DOMAIN sources[s], Matches(sources[s][i], id)
             PROVE  Asked(id) = sources[s][i].properties
  BY DEF NothingLost
<1>1. PICK k \in DOMAIN snapshot : snapshot[k] = sources[s][i]
  BY DEF LoadInv, Holds
<1> QED BY <1>1, SoundLookupsAreExact DEF LookupsAreExact

\* A successful load of any files loses none of their records.
THEOREM NothingIsEverLost == Spec => []NothingLost
  BY AlwaysSound, AlwaysLoaded, SoundLosesNothing, PTL

\* A directory means the same whatever its files are called.
THEOREM NamesNeverMatter == Spec => []NamesDoNotMatter
<1>1. Sound => NamesDoNotMatter
  BY NamesOnly DEF Sound, TypeOK, Directory, NamesDoNotMatter
<1> QED BY <1>1, AlwaysSound, PTL
=============================================================================
