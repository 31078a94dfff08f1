---------------------------- MODULE CatalogLoad -----------------------------
(***************************************************************************)
(* CatalogFile::read (src/src/catalog/file.rs, src/src/catalog/input.rs):  *)
(* a file, or the catalog files of a directory, become a snapshot that     *)
(* extends the built-in records.  The files are read one after the other   *)
(* and may change, appear and disappear meanwhile; the snapshot of an      *)
(* earlier load stays in use until a load succeeds.                        *)
(*                                                                         *)
(* A file whose text cannot be read, or is longer than the byte limit, is  *)
(* one that fails.                                                         *)
(***************************************************************************)
EXTENDS CatalogRecords, SequencesExt, FiniteSets

CONSTANTS
  NFiles,   \* the names a catalog file may have, in order, are 1 .. NFiles
  Texts,    \* what a file may hold: [records, malformed]
  Bundles,  \* the records a build may contain
  Ids       \* the ids lookups are asked for

Files == 1 .. NFiles
NoFile == [records |-> <<>>, malformed |-> TRUE]

ASSUME LoadAssumption ==
  /\ NFiles \in Nat
  /\ Texts \subseteq [records : Seq(Entry), malformed : BOOLEAN]
  /\ NoFile \notin Texts
  /\ \A b \in Bundles : Valid(b)
  /\ Ids \subseteq Nat

VARIABLES
  builtin,   \* the records in the build; never change
  disk,      \* what each file holds; NoFile when there is none
  pc,
  whole,     \* TRUE: a directory is read; FALSE: a single file
  todo,      \* the files still to be read
  sources,   \* the records of the files read by the last load, in order
  snapshot,  \* the extension in use
  outcome    \* of the last load

vars == <<builtin, disk, pc, whole, todo, sources, snapshot, outcome>>

Init ==
  /\ builtin \in Bundles
  /\ disk \in [Files -> Texts \cup {NoFile}]
  /\ pc = "idle" /\ whole = FALSE
  /\ todo = {} /\ sources = <<>> /\ snapshot = <<>>
  /\ outcome = "none"

-----------------------------------------------------------------------------

\* Mutant: a record repeats any with its identity.
MergeByKey(merged, e) ==
  LET met == {i \in DOMAIN merged.records : Overlaps(e, merged.records[i])} IN
    IF ~merged.ok THEN merged
    ELSE IF met = {} THEN [merged EXCEPT !.records = Append(@, e)]
    ELSE [merged EXCEPT !.ok = ~KeyLess(merged.records[First(met)], e)]

\* One round of the merge: a record that an accepted one repeats is dropped,
\* one that overlaps another is an error.
MergeInto(merged, e) ==
  LET met == {i \in DOMAIN merged.records : Overlaps(e, merged.records[i])} IN
    IF ~merged.ok THEN merged
    ELSE IF met = {} THEN [merged EXCEPT !.records = Append(@, e)]
    ELSE [merged EXCEPT !.ok = e = merged.records[First(met)]]

\* Where the records of the files are: which file, and where in it.
Places(texts) == UNION {{f} \X DOMAIN texts[f] : f \in DOMAIN texts}
RecordAt(texts, p) == texts[p[1]][p[2]]

Earlier(p, q) == p[1] < q[1] \/ (p[1] = q[1] /\ p[2] < q[2])

\* Mutant: the records stay in the order of the files.
EarlierOnly(texts, p, q) == Earlier(p, q)

\* The order of the keys.  The sort is stable: it leaves records of one key,
\* which may be different ones, in the order of the files.
Precedes(texts, p, q) ==
  \/ KeyLess(RecordAt(texts, p), RecordAt(texts, q))
  \/ ~KeyLess(RecordAt(texts, q), RecordAt(texts, p)) /\ Earlier(p, q)

SortedRecords(texts) ==
  LET places == Places(texts)
      Rank(q) == Cardinality({p \in places : Precedes(texts, p, q)})
  IN [n \in 1 .. Cardinality(places) |->
        RecordAt(texts, CHOOSE q \in places : Rank(q) = n - 1)]

\* The limit counts the records before repeated ones are dropped.
MergeAll(all) ==
  LET merged[n \in 0 .. Len(all)] ==
        IF n = 0 THEN [ok |-> Len(all) <= MaxEntries, records |-> <<>>]
        ELSE MergeInto(merged[n - 1], all[n])
  IN merged[Len(all)]

Merge(texts) == MergeAll(SortedRecords(texts))

-----------------------------------------------------------------------------

Return(r) == pc' = "idle" /\ outcome' = r

\* The directory's listing; the files are read in the order of their names.
ReadDirectory ==
  /\ pc = "idle"
  /\ pc' = "read" /\ whole' = TRUE
  /\ todo' = {f \in Files : disk[f] # NoFile}
  /\ sources' = <<>> /\ outcome' = "none"
  /\ UNCHANGED <<builtin, disk, snapshot>>

\* Mutant: names are counted from zero.
ReadOneFileZero(f) ==
  /\ pc = "idle"
  /\ pc' = "read" /\ whole' = FALSE
  /\ todo' = {f - 1}
  /\ sources' = <<>> /\ outcome' = "none"
  /\ UNCHANGED <<builtin, disk, snapshot>>

ReadOneFile(f) ==
  /\ pc = "idle"
  /\ pc' = "read" /\ whole' = FALSE
  /\ todo' = {f}
  /\ sources' = <<>> /\ outcome' = "none"
  /\ UNCHANGED <<builtin, disk, snapshot>>

\* Every file must be valid by itself.
ReadFile ==
  /\ pc = "read" /\ todo # {}
  /\ LET text == disk[First(todo)]
     IN  IF ~text.malformed /\ Valid(text.records)
         THEN /\ sources' = Append(sources, text.records)
              /\ todo' = todo \ {First(todo)}
              /\ UNCHANGED <<pc, outcome>>
         ELSE Return("failed") /\ UNCHANGED <<sources, todo>>
  /\ UNCHANGED <<builtin, disk, whole, snapshot>>

ReadFileFails ==
  /\ pc = "read" /\ todo # {}
  /\ Return("failed")
  /\ UNCHANGED <<builtin, disk, whole, todo, sources, snapshot>>

\* merge, for a directory, and Catalog::parse.
Parse ==
  /\ pc = "read" /\ todo = {}
  /\ LET merged == IF whole THEN Merge(sources)
                   ELSE [ok |-> TRUE, records |-> sources[1]]
     IN  IF merged.ok /\ Valid(merged.records) /\ Agrees(merged.records, builtin)
         THEN Return("loaded") /\ snapshot' = merged.records
         ELSE Return("failed") /\ UNCHANGED snapshot
  /\ UNCHANGED <<builtin, disk, whole, todo, sources>>

\* An administrator edits the files.
Edit(f, text) ==
  /\ disk' = [disk EXCEPT ![f] = text]
  /\ UNCHANGED <<builtin, pc, whole, todo, sources, snapshot, outcome>>

Next ==
  \/ ReadDirectory \/ ReadFile \/ ReadFileFails \/ Parse
  \/ \E f \in Files : ReadOneFile(f) \/ \E t \in Texts \cup {NoFile} : Edit(f, t)

Spec == Init /\ [][Next]_vars

-----------------------------------------------------------------------------

Devices == [vendor : Ids, device : Ids, subvendor : Ids, subdevice : Ids]

Asked(id) == Lookup(snapshot, builtin, id)

\* Every variable keeps its type.
TypeOK ==
  /\ builtin \in Bundles
  /\ disk \in [Files -> Texts \cup {NoFile}]
  /\ pc \in {"idle", "read"} /\ whole \in BOOLEAN
  /\ todo \subseteq Files
  /\ sources \in Seq(Seq(Entry)) /\ snapshot \in Seq(Entry)
  /\ outcome \in {"none", "loaded", "failed"}

\* "Extensions cannot contradict bundled identities" (src/src/catalog.rs:12):
\* whatever was loaded, from files that changed meanwhile or not, a device the
\* build knows is what the build says.
NoContradiction ==
  \A id \in Devices :
    LookupIn(builtin, id) # Absent => Asked(id) = LookupIn(builtin, id)

\* The scan of a lookup stops early and takes the first match: it finds every
\* record that describes the device, of which there is never a second one.
LookupsAreExact ==
  \A id \in Devices, i \in DOMAIN snapshot :
    Matches(snapshot[i], id) => Asked(id) = snapshot[i].properties

\* "Identical records across files are accepted; conflicts are errors"
\* (src/src/catalog/file.rs:15): what a successful load read from any file is
\* what lookups answer; no record gives way to another one.
NothingLost ==
  outcome = "loaded" =>
    \A id \in Devices, s \in DOMAIN sources : \A i \in DOMAIN sources[s] :
      Matches(sources[s][i], id) => Asked(id) = sources[s][i].properties

\* A directory means the same whatever its files are called.
NamesDoNotMatter ==
  LET merged == Merge(sources) renamed == Merge(Reverse(sources))
  IN  IF merged.ok THEN renamed = merged ELSE ~renamed.ok

\* "Conservative device-only query" (src/src/catalog.rs:76): it says yes to
\* every device a lookup with the whole identity calls coherent.
CoherentIsConservative ==
  \A id \in Devices :
    Asked(id) \in Coherent
      => MayBeCoherent(snapshot, builtin, id.vendor, id.device)
=============================================================================
