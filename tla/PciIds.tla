------------------------------- MODULE PciIds -------------------------------
(***************************************************************************)
(* The PCI ID database: the build script reads pci.ids line by line        *)
(* (src/build_support.rs) into the tables that src/src/pci_ids.rs looks    *)
(* vendors, devices, classes and subclasses up in.  The file has two trees *)
(* of three levels, told apart by the shape of their lines:                *)
(*                                                                         *)
(*      vendors:  vendor - device   - subsystem                            *)
(*      classes:  class  - subclass - programming interface                *)
(*                                                                         *)
(* A line does not name its parents: they are the last lines above it.  An *)
(* entry's name is the number of its line, which tells entries apart that  *)
(* have the same ID.  Lines are chosen as they are read.                   *)
(***************************************************************************)
EXTENDS Naturals, Sequences, FiniteSets

CONSTANTS
  Ids,       \* the IDs that occur, on any level
  MaxLines   \* bound: the length of the file

ASSUME PciIdsAssumption == MaxLines \in Nat

VARIABLES
  lines,    \* the lines read
  curr,     \* curr_vendor and curr_class: the entry being read, or NoEntry
  currId,   \* curr_device_id and curr_subclass_id
  entries,  \* what VENDORS and CLASSES are built from
  phase     \* "read", "build", "built", or "panicked"

idsVars == <<lines, curr, currId, entries, phase>>

-----------------------------------------------------------------------------

Tree == {"vendors", "classes"}

\* What the parsers tell apart; no line is accepted by two of them.
Line == [tree : Tree, level : 1 .. 3, id : Ids]

NoEntry == [id |-> 0, name |-> 0, subs |-> <<>>]

Entry(id, name) == [id |-> id, name |-> name, subs |-> <<>>]
Sub(id, name) == [id |-> id, name |-> name, parent |-> 0, leaves |-> {}]

\* `find`: the place of the first of subs with that ID, 0 if there is none.
FirstWith(subs, id) ==
  IF \E i \in DOMAIN subs : subs[i].id = id
  THEN CHOOSE i \in DOMAIN subs : subs[i].id = id /\ \A j \in 1 .. i - 1 : subs[j].id # id
  ELSE 0

\* to_tokens tells each device its vendor, and each subclass its class.
Quoted(e) == [e EXCEPT !.subs = [i \in DOMAIN e.subs |-> [e.subs[i] EXCEPT !.parent = e.id]]]

IdsInit ==
  /\ lines = <<>>
  /\ curr = [t \in Tree |-> NoEntry]
  /\ currId = [t \in Tree |-> 0]
  /\ entries = [t \in Tree |-> <<>>]
  /\ phase = "read"

-----------------------------------------------------------------------------
(* The loop of generate(): one line a step.                                *)

\* There is no pci.ids: the submodule was not checked out.
NoPciIds ==
  /\ phase = "read" /\ lines = <<>>
  /\ phase' = "panicked"
  /\ UNCHANGED <<lines, curr, currId, entries>>

Number == Len(lines) + 1

Read(t, level, id) ==
  /\ phase = "read" /\ Len(lines) < MaxLines
  /\ lines' = Append(lines, [tree |-> t, level |-> level, id |-> id])

\* `take` and `entry`: the entry that is complete goes to the table.
Flushed(t) ==
  IF curr[t] = NoEntry THEN entries[t] ELSE Append(entries[t], Quoted(curr[t]))

ReadTop(t, id) ==
  /\ Read(t, 1, id)
  /\ entries' = [entries EXCEPT ![t] = Flushed(t)]
  /\ curr' = [curr EXCEPT ![t] = Entry(id, Number)]
  /\ UNCHANGED <<currId, phase>>

ReadSub(t, id) ==
  /\ Read(t, 2, id)
  /\ IF curr[t] = NoEntry
     THEN phase' = "panicked" /\ UNCHANGED <<curr, currId>>
     ELSE /\ curr' = [curr EXCEPT ![t].subs = Append(curr[t].subs, Sub(id, Number))]
          /\ currId' = [currId EXCEPT ![t] = id]
          /\ UNCHANGED phase
  /\ UNCHANGED entries

\* Mutant: a leaf goes to the first sub there is.
ReadLeafToFirst(t, id) ==
  /\ Read(t, 3, id)
  /\ IF curr[t].subs = <<>>
     THEN phase' = "panicked" /\ UNCHANGED curr
     ELSE /\ curr' = [curr EXCEPT ![t].subs[1].leaves = @ \cup {Number}]
          /\ UNCHANGED phase
  /\ UNCHANGED <<currId, entries>>

\* A leaf goes to the first sub with the ID of the last one read.
ReadLeaf(t, id) ==
  /\ Read(t, 3, id)
  /\ LET at == FirstWith(curr[t].subs, currId[t]) IN
       IF at = 0
       THEN phase' = "panicked" /\ UNCHANGED curr
       ELSE /\ curr' = [curr EXCEPT ![t].subs[at].leaves = @ \cup {Number}]
            /\ UNCHANGED phase
  /\ UNCHANGED <<currId, entries>>

ReadVendor == \E id \in Ids : ReadTop("vendors", id)
ReadDevice == \E id \in Ids : ReadSub("vendors", id)
ReadSubsystem == \E id \in Ids : ReadLeaf("vendors", id)
ReadClass == \E id \in Ids : ReadTop("classes", id)
ReadSubclass == \E id \in Ids : ReadSub("classes", id)
ReadProgIf == \E id \in Ids : ReadLeaf("classes", id)

\* The end of the file, or of what the parsers can make sense of: whatever
\* comes after a line that none of them accepts is not read.
Stop ==
  /\ phase = "read"
  /\ phase' = "build"
  /\ UNCHANGED <<lines, curr, currId, entries>>

\* A phf map does not take a key twice.
Unique(es) == \A i, j \in DOMAIN es : es[i].id = es[j].id => i = j

\* Mutant: only the vendor that is left over is flushed.
BuildWithoutLastClass ==
  /\ phase = "build"
  /\ entries' = [entries EXCEPT !["vendors"] = Flushed("vendors")]
  /\ phase' = IF \A t \in Tree : Unique(entries'[t]) THEN "built" ELSE "panicked"
  /\ UNCHANGED <<lines, curr, currId>>

Build ==
  /\ phase = "build"
  /\ entries' = [t \in Tree |-> Flushed(t)]
  /\ phase' = IF \A t \in Tree : Unique(entries'[t]) THEN "built" ELSE "panicked"
  /\ UNCHANGED <<lines, curr, currId>>

IdsNext ==
  \/ ReadVendor \/ ReadDevice \/ ReadSubsystem
  \/ ReadClass \/ ReadSubclass \/ ReadProgIf
  \/ NoPciIds \/ Stop \/ Build

IdsSpec == IdsInit /\ [][IdsNext]_idsVars

-----------------------------------------------------------------------------
(* The lookups of pci_ids.rs.                                              *)

\* Vendor::from_id and Class::from_id.
FromId(t, id) ==
  LET at == FirstWith(entries[t], id) IN
    IF at = 0 THEN NoEntry ELSE entries[t][at]

NoSub == Sub(0, 0)

Found(subs, id) == IF FirstWith(subs, id) = 0 THEN NoSub ELSE subs[FirstWith(subs, id)]

FromVidPid(vid, pid) == Found(FromId("vendors", vid).subs, pid)
FromCidSid(cid, sid) == Found(FromId("classes", cid).subs, sid)

\* Device::vendor and Subclass::class.
VendorOf(device) == FromId("vendors", device.parent)
ClassOf(subclass) == FromId("classes", subclass.parent)

Subsystems(device) == device.leaves
ProgIfs(subclass) == subclass.leaves

-----------------------------------------------------------------------------

\* The line above line i that it belongs to.
IsParent(j, i) ==
  /\ j < i
  /\ lines[j].tree = lines[i].tree /\ lines[j].level = lines[i].level - 1
  /\ \A k \in j + 1 .. i - 1 :
       lines[k].tree = lines[i].tree => lines[k].level >= lines[i].level

\* Every line read is found where it belongs by those who ask the database
\* for it, also among entries with the same ID; a device leads back to its
\* vendor, and a subclass to its class, so that no lookup panics.
NothingLost ==
  phase = "built" =>
    /\ \A i \in DOMAIN lines :
         lines[i].level = 1 => FromId(lines[i].tree, lines[i].id).name = i
    /\ \A i, j \in DOMAIN lines :
         lines[i].level = 2 /\ IsParent(j, i) =>
           \E n \in DOMAIN FromId(lines[j].tree, lines[j].id).subs :
             LET sub == FromId(lines[j].tree, lines[j].id).subs[n] IN
               /\ sub.name = i /\ sub.id = lines[i].id
               /\ lines[i].tree = "vendors" => VendorOf(sub).name = j
               /\ lines[i].tree = "classes" => ClassOf(sub).name = j
    /\ \A i, j, k \in DOMAIN lines :
         lines[i].level = 3 /\ IsParent(j, i) /\ IsParent(k, j) =>
           i \in IF lines[i].tree = "vendors"
                 THEN Subsystems(FromVidPid(lines[k].id, lines[j].id))
                 ELSE ProgIfs(FromCidSid(lines[k].id, lines[j].id))

\* And nowhere else: an entry of the database is a line of its level, with its
\* ID, that belongs to a line with the ID of the entry above it.
NothingMisfiled ==
  phase = "built" =>
    \A t \in Tree : \A n \in DOMAIN entries[t] :
      LET e == entries[t][n] IN
        /\ lines[e.name] = [tree |-> t, level |-> 1, id |-> e.id]
        /\ \A m \in DOMAIN e.subs :
             /\ lines[e.subs[m].name] = [tree |-> t, level |-> 2, id |-> e.subs[m].id]
             /\ IsParent(e.name, e.subs[m].name)
             /\ \A i \in e.subs[m].leaves :
                  /\ lines[i].tree = t /\ lines[i].level = 3
                  /\ \E j \in DOMAIN lines :
                       IsParent(j, i) /\ IsParent(e.name, j) /\ lines[j].id = e.subs[m].id
=============================================================================
