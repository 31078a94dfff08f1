---------------------------- MODULE PciInventory ----------------------------
(***************************************************************************)
(* The readers that make lists of what is on the PCI bus, while functions  *)
(* come and go:                                                            *)
(*   "list", "lookup"   PCIDeviceManager::get_all_devices and              *)
(*                      get_device_by_pci_bus_id (src/src/pci_manager.rs)  *)
(*   "catalog"          catalog::discover (src/src/catalog/linux.rs)       *)
(*   "cc"               cc::discover (src/src/cc/mod.rs)                   *)
(*   "iommufd"          enumerate_iommufd (src/src/iommufd.rs); with one   *)
(*                      address it is lookup_iommufd_dev                   *)
(* Each reads the attributes of a function one by one, from files named by *)
(* the address: two of them may be those of different functions.  They     *)
(* differ in what an attribute, or a directory, that cannot be read means. *)
(* An attribute is represented by the function it was read from.           *)
(***************************************************************************)
EXTENDS Naturals, Sequences, SequencesExt

CONSTANTS
  Addresses,   \* of PCI functions; a vfio device has the place of its function
  Functions,   \* what may be found there: [vendor, capable]
  NoFunction,  \* nothing there
  NoAddress,
  MaxChanges   \* bound: how often the bus changes while one cache is used

\* capable: its device ID is that of a CC-capable GPU.
ASSUME InventoryAssumption ==
  /\ \A f \in Functions : f.vendor \in {"nvidia", "other"} /\ f.capable \in BOOLEAN
  /\ NoFunction \notin Functions /\ NoAddress \notin Addresses
  /\ MaxChanges \in Nat

VARIABLES
  bus,      \* the function at each address, or NoFunction
  cache,    \* the caller's cache: address to record, <<>> for none
  op,       \* the reader that runs
  filter,   \* the vendor it was asked for, or "any"
  todo,     \* the addresses it has still to read
  at, got,  \* the one it reads, and the attributes read of it so far
  records,  \* the records it made: address to attributes, <<>> for none
  outcome,  \* "none", "ok" or "failed"
  hit,      \* history: the answer came from the cache
  failed,   \* history: the addresses whose directory entry, or an attribute, was
            \* not read
  steady,   \* history: unchanged since the call began
  trusted,  \* history: unchanged since the read of what the cache holds began
  changes   \* history: how often the bus changed since the cache was made

call == <<op, filter, todo, at, got, records, outcome>>
inventoryVars == <<bus, cache, call, hit, failed, steady, trusted, changes>>

Reader == {"list", "lookup", "catalog", "cc", "iommufd"}
Managed == {"list", "lookup"}

\* What each reads of a function, in this order; "links" are the driver, the
\* IOMMU group and the NUMA node, which a function need not have.
OfPCIDevice == <<"vendor", "class", "device", "links">>
OfCatalogDevice == <<"vendor", "device", "subsystem_vendor", "subsystem_device", "class">>
OfCcGpu == <<"vendor", "device">>
OfIommufdDev == <<"vendor", "device", "class">>

Attributes ==
  [list |-> OfPCIDevice, lookup |-> OfPCIDevice, catalog |-> OfCatalogDevice,
   cc |-> OfCcGpu, iommufd |-> OfIommufdDev]

Present == {a \in Addresses : bus[a] # NoFunction}
NoRecords == [a \in Addresses |-> <<>>]

InventoryInit ==
  /\ bus \in [Addresses -> Functions \cup {NoFunction}]
  /\ cache = NoRecords /\ records = NoRecords
  /\ op = "none" /\ filter = "any" /\ todo = {} /\ at = NoAddress /\ got = <<>>
  /\ outcome = "none" /\ hit = FALSE
  /\ failed = {} /\ steady = {} /\ trusted = {} /\ changes = 0

-----------------------------------------------------------------------------

Idle == op = "none" \/ outcome # "none"

Call(o, v) ==
  /\ op' = o /\ filter' = v
  /\ at' = NoAddress /\ got' = <<>>
  /\ steady' = Addresses

\* read_dir: what is there now is what is read.  enumerate_iommufd takes a
\* directory that cannot be read for an empty one, and an entry for none.
List(o, v) ==
  /\ Idle
  /\ o \in Managed \/ v = "any"
  /\ Call(o, v)
  /\ \E unlisted \in SUBSET Present :
       /\ o # "iommufd" => unlisted = {}
       /\ todo' = Present \ unlisted /\ failed' = unlisted
  /\ records' = NoRecords /\ outcome' = "none" /\ hit' = FALSE
  /\ UNCHANGED <<bus, cache, trusted, changes>>

\* For the others the directory, or the next entry of it, is an error.
ListFails ==
  /\ ~Idle /\ at = NoAddress /\ op \in {"list", "catalog", "cc"}
  /\ outcome' = "failed" /\ todo' = {}
  /\ UNCHANGED <<bus, cache, op, filter, at, got, records, hit, failed, steady, trusted, changes>>

\* Mutant: an address in the cache is read again, over what is returned.
LookupPastCache(a, v) ==
  /\ Idle
  /\ Call("lookup", v)
  /\ hit' = FALSE /\ failed' = {}
  /\ todo' = {a} /\ records' = cache /\ outcome' = "none"
  /\ trusted' = trusted \cup {a}
  /\ UNCHANGED <<bus, cache, changes>>

\* An address in the cache is answered from it, whatever vendor is asked for.
Lookup(a, v) ==
  /\ Idle
  /\ Call("lookup", v)
  /\ hit' = (cache[a] # <<>>) /\ failed' = {}
  /\ IF cache[a] # <<>>
     THEN /\ records' = [NoRecords EXCEPT ![a] = cache[a]] /\ outcome' = "ok"
          /\ todo' = {}
          /\ UNCHANGED trusted
     ELSE /\ records' = NoRecords /\ outcome' = "none"
          /\ todo' = {a}
          /\ trusted' = trusted \cup {a}
  /\ UNCHANGED <<bus, cache, changes>>

\* The caller starts with a new cache.
DropCache ==
  /\ Idle /\ cache # NoRecords
  /\ cache' = NoRecords /\ trusted' = {} /\ changes' = 0
  /\ op' = "none" /\ outcome' = "none" /\ records' = NoRecords /\ hit' = FALSE
  /\ UNCHANGED <<bus, filter, todo, at, got, failed, steady>>

Enter(a) ==
  /\ ~Idle /\ at = NoAddress /\ a \in todo
  /\ at' = a /\ got' = <<>> /\ todo' = todo \ {a}
  /\ UNCHANGED <<bus, cache, op, filter, records, outcome, hit, failed, steady, trusted, changes>>

Attribute == Attributes[op][Len(got) + 1]

\* The manager turns away a function of another vendor as soon as it knows.
TurnedAway(f) == op \in Managed /\ Attribute = "vendor" /\ filter \notin {"any", f.vendor}

\* With the last attribute there is a record; cc::discover keeps the address
\* if vendor and device are those of a CC-capable GPU.
Wanted(attributes) ==
  op = "cc" => attributes[1] \in Functions /\ attributes[1].vendor = "nvidia"
               /\ attributes[2] \in Functions /\ attributes[2].capable

Take(attributes) ==
  IF Len(attributes) < Len(Attributes[op])
  THEN got' = attributes /\ UNCHANGED <<at, records, cache>>
  ELSE /\ at' = NoAddress /\ got' = attributes
       /\ records' = IF Wanted(attributes) THEN [records EXCEPT ![at] = attributes] ELSE records
       /\ cache' = IF op = "lookup" THEN [cache EXCEPT ![at] = attributes] ELSE cache

ReadAttribute ==
  /\ at # NoAddress
  /\ bus[at] # NoFunction
  /\ IF TurnedAway(bus[at])
     THEN at' = NoAddress /\ UNCHANGED <<got, records, cache>>
     ELSE Take(Append(got, bus[at]))
  /\ UNCHANGED <<bus, op, filter, todo, outcome, hit, failed, steady, trusted, changes>>

\* Mutant: the first function that cannot be read ends the list.
FailEndsList ==
  /\ at # NoAddress
  /\ failed' = failed \cup {at}
  /\ IF Attribute = "links" \/ op = "cc"
     THEN Take(Append(got, NoFunction)) /\ UNCHANGED <<outcome, todo>>
     ELSE /\ at' = NoAddress /\ todo' = {}
          /\ outcome' = IF op \in {"catalog", "lookup"} THEN "failed" ELSE outcome
          /\ UNCHANGED <<got, records, cache>>
  /\ UNCHANGED <<bus, op, filter, hit, steady, trusted, changes>>

\* An attribute cannot be read, or the function is gone: the link attributes
\* have a default, and cc::discover takes 0 for the attribute; the lists of the
\* manager and of the vfio devices leave the function out; the catalog's list
\* and a single lookup fail.
ReadFails ==
  /\ at # NoAddress
  /\ failed' = failed \cup {at}
  /\ IF Attribute = "links" \/ op = "cc"
     THEN Take(Append(got, NoFunction)) /\ UNCHANGED <<outcome, todo>>
     ELSE /\ at' = NoAddress
          /\ IF op \in {"catalog", "lookup"}
             THEN outcome' = "failed" /\ todo' = {}
             ELSE UNCHANGED <<outcome, todo>>
          /\ UNCHANGED <<got, records, cache>>
  /\ UNCHANGED <<bus, op, filter, hit, steady, trusted, changes>>

Finish ==
  /\ ~Idle /\ at = NoAddress /\ todo = {}
  /\ outcome' = "ok"
  /\ UNCHANGED <<bus, cache, op, filter, todo, at, got, records,
                 hit, failed, steady, trusted, changes>>

\* A function is added, removed or replaced.
Change(a, f) ==
  /\ changes < MaxChanges /\ f # bus[a]
  /\ bus' = [bus EXCEPT ![a] = f]
  /\ steady' = steady \ {a} /\ trusted' = trusted \ {a}
  /\ changes' = changes + 1
  /\ UNCHANGED <<cache, call, hit, failed>>

InventoryNext ==
  \/ \E v \in {"any", "nvidia"} :
       \/ \E o \in Reader \ {"lookup"} : List(o, v)
       \/ \E a \in Addresses : Lookup(a, v)
  \/ DropCache
  \/ \E a \in Addresses :
       Enter(a) \/ \E f \in Functions \cup {NoFunction} : Change(a, f)
  \/ ListFails \/ ReadAttribute \/ ReadFails \/ Finish

InventorySpec == InventoryInit /\ [][InventoryNext]_inventoryVars

-----------------------------------------------------------------------------

Ok == op # "none" /\ outcome = "ok"

\* What a record says is so: it is all of one function, but for links and IDs
\* that could not be read.
True(record, f) == \A i \in DOMAIN record : record[i] \in {f, NoFunction}

\* A record that is returned is that of the function at the address, never put
\* together from two or left over from the one before, unless the function
\* changed during the call; and it is of the vendor that was asked for.  The
\* cache keeps both promises only as of when it was filled: what it holds is
\* true of a function that has not changed since.
RecordsAreTrue ==
  \A a \in Addresses :
    /\ Ok /\ ~hit /\ records[a] # <<>> =>
         /\ a \in steady => True(records[a], bus[a])
         /\ filter # "any" => records[a][1].vendor = filter
    /\ cache[a] # <<>> /\ a \in trusted => True(cache[a], bus[a])

\* A function that was there all along is left out of a list only by the readers
\* that may do so: by those of the manager, of the CC-capable GPUs and of the vfio
\* devices if an attribute of it could not be read, by the last of them too if the
\* directory or its entry there could not (src/src/iommufd.rs:119), and never by
\* the catalog's: "Unknown vendors remain visible" and "unreadable identities are
\* errors" (src/src/catalog/linux.rs:8).
NothingOverlooked ==
  Ok /\ ~hit =>
    \A a \in steady \cap Present :
      \/ records[a] # <<>>
      \/ op = "lookup"
      \/ op \in {"list", "cc", "iommufd"} /\ a \in failed
      \/ op = "list" /\ filter \notin {"any", bus[a].vendor}
      \/ op = "cc" /\ ~(bus[a].vendor = "nvidia" /\ bus[a].capable)
=============================================================================
