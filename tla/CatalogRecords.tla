--------------------------- MODULE CatalogRecords ---------------------------
(***************************************************************************)
(* The PCI catalog's records and what is done with a sequence of them      *)
(* (src/src/catalog.rs, src/src/catalog/records.rs): the order and the     *)
(* disjointness a catalog must have, and the lookups, which depend on it.  *)
(*                                                                         *)
(* A record is an identity pattern and the properties of the devices it    *)
(* describes.  A subsystem field may be a wildcard, which sorts before every id.  *)
(* The text of a record is its parsed form, and a file with a line that    *)
(* does not parse is one that is malformed.                                *)
(***************************************************************************)
EXTENDS Integers, Sequences

CONSTANTS
  Properties,   \* kinds, profiles and attachments of devices
  Coherent,     \* the properties whose attachment is coherent
  Absent,       \* a lookup's answer for a device it does not know
  MaxEntries

ASSUME CatalogAssumption ==
  /\ Coherent \subseteq Properties /\ Absent \notin Properties
  /\ MaxEntries \in Nat \ {0}

Wildcard == -1

Identity == [vendor : Nat, device : Nat, subvendor : Nat, subdevice : Nat]
Entry == [vendor : Nat, device : Nat, subvendor : Nat \cup {Wildcard},
          subdevice : Nat \cup {Wildcard}, properties : Properties]

Matches(e, id) ==
  /\ e.vendor = id.vendor /\ e.device = id.device
  /\ e.subvendor \in {Wildcard, id.subvendor}
  /\ e.subdevice \in {Wildcard, id.subdevice}

Overlaps(e, f) ==
  /\ e.vendor = f.vendor /\ e.device = f.device
  /\ Wildcard \in {e.subvendor, f.subvendor} \/ e.subvendor = f.subvendor
  /\ Wildcard \in {e.subdevice, f.subdevice} \/ e.subdevice = f.subdevice

\* The order of <<vendor, device>>, and of all four columns.
DeviceLess(e, f) ==
  \/ e.vendor < f.vendor
  \/ e.vendor = f.vendor /\ e.device < f.device

KeyLess(e, f) ==
  \/ DeviceLess(e, f)
  \/ /\ e.vendor = f.vendor /\ e.device = f.device
     /\ \/ e.subvendor < f.subvendor
        \/ e.subvendor = f.subvendor /\ e.subdevice < f.subdevice

Sorted(records) ==
  \A i \in 2 .. Len(records) : KeyLess(records[i - 1], records[i])

\* No two records describe the same device.
Disjoint(records) ==
  \A i, j \in DOMAIN records : i < j => ~Overlaps(records[j], records[i])

\* Every line parses, and the records are such that lookups can scan them.
Valid(records) ==
  /\ records \in Seq(Entry) /\ Len(records) <= MaxEntries
  /\ Sorted(records) /\ Disjoint(records)

\* Mutant: a record is compared with the built-in one of the same identity only.
AgreesOnKeys(records, builtin) ==
  \A i \in DOMAIN records, j \in DOMAIN builtin :
    Overlaps(records[i], builtin[j])
      /\ ~KeyLess(records[i], builtin[j]) /\ ~KeyLess(builtin[j], records[i])
      => records[i].properties = builtin[j].properties

Agrees(records, builtin) ==
  \A i \in DOMAIN records, j \in DOMAIN builtin :
    Overlaps(records[i], builtin[j])
      => records[i].properties = builtin[j].properties

-----------------------------------------------------------------------------
(* Lookups.                                                                *)

\* Mutant: the scan stops at the device itself.
ReachedShort(records, id) ==
  {i \in DOMAIN records : \A j \in 1 .. i : DeviceLess(records[j], id)}

\* The scan stops at the first record of a later device.
Reached(records, id) ==
  {i \in DOMAIN records : \A j \in 1 .. i : ~DeviceLess(id, records[j])}

Hits(records, id) == {i \in Reached(records, id) : Matches(records[i], id)}

First(indices) == CHOOSE i \in indices : \A j \in indices : i <= j

LookupIn(records, id) ==
  IF Hits(records, id) = {} THEN Absent
  ELSE records[First(Hits(records, id))].properties

\* An extension is asked first, then the built-in records.
Lookup(extension, builtin, id) ==
  LET own == LookupIn(extension, id)
  IN  IF own = Absent THEN LookupIn(builtin, id) ELSE own

CoherentIn(records, vendor, device) ==
  \E i \in DOMAIN records :
    /\ records[i].vendor = vendor /\ records[i].device = device
    /\ records[i].properties \in Coherent

\* Mutant: the built-in records are not asked.
MayBeCoherentAlone(extension, builtin, vendor, device) ==
  CoherentIn(extension, vendor, device)

MayBeCoherent(extension, builtin, vendor, device) ==
  CoherentIn(extension, vendor, device) \/ CoherentIn(builtin, vendor, device)
=============================================================================
