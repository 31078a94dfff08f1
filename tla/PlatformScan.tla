---------------------------- MODULE PlatformScan ----------------------------
(***************************************************************************)
(* The discovery of a platform (src/src/platform/linux.rs,                 *)
(* src/src/nvlink.rs) and its classification (src/src/platform.rs) while   *)
(* PCI functions come and go.  The bus is read in up to three passes: the  *)
(* vendor and class of every function listed, the VPD of the Mellanox      *)
(* ones, and the identity of the GPUs or the ports of the RDMA devices.    *)
(* Each reads whatever is at the address by then, and any read may fail.   *)
(*                                                                         *)
(* A function is a record:                                                 *)
(*   vendor  "nvidia", "mellanox" or "other"                               *)
(*   class   "display" (VGA or 3D), "bridge" or "other"                    *)
(*   chip    of a GPU, what the catalog says of its identity               *)
(*   vf      it is an SR-IOV virtual function                              *)
(*   marked  its VPD has the SW_MNG marker                                 *)
(*   port    the port of its RDMA device, if a driver has registered one:  *)
(*           whether it is InfiniBand, whether its subnet manager is       *)
(*           disabled, and its GUID                                        *)
(* The attributes that one pass takes from a function are read at once.    *)
(***************************************************************************)
EXTENDS Integers

CONSTANTS
  Addresses,  \* the addresses of PCI functions
  Slot,       \* the bus slot of each
  Devices,    \* the functions that may be found there
  MaxChanges  \* how often the bus changes during a scan

Family == {"hopper", "blackwell", "rubin"}
Attachment == {"pcie", "sxm", "coherent"}
Chip == [family : Family, attachment : Attachment]
Unknown == [family |-> "unknown", attachment |-> "unknown"]

\* No RDMA device, and no function at an address.
NoPort == [infiniband |-> FALSE, smDisabled |-> TRUE, guid |-> 0]
Empty == [vendor |-> "none", class |-> "none", chip |-> Unknown, vf |-> FALSE,
          marked |-> FALSE, port |-> NoPort]

ASSUME ScanAssumption ==
  /\ \A d \in Devices :
       /\ d.vendor \in {"nvidia", "mellanox", "other"}
       /\ d.class \in {"display", "bridge", "other"}
       /\ d.chip \in Chip \cup {Unknown}
       /\ {d.vf, d.marked} \subseteq BOOLEAN
       /\ d.port \in [infiniband : BOOLEAN, smDisabled : BOOLEAN, guid : Nat]
  /\ MaxChanges \in Nat /\ Addresses \subseteq Nat

VARIABLES
  bus,       \* the function at each address, or Empty
  op,        \* what was called: "functions" (discover_gpus, discover_switches),
             \* "topology", "ports" (discover_management_ports) or "platform"
  pc,        \* the pass that is running
  todo,      \* the addresses it has still to read
  gpus, switches,
  mellanox,  \* PFs, and those of them that are marked
  marked,
  chips,     \* the identities read of the GPUs
  ports,     \* the management ports, [function, guid]
  result,    \* [status, kind]
  steady,    \* history: the addresses that have not changed since the call
  changes    \* history: how often the bus did

found == <<gpus, switches, mellanox, marked, chips, ports>>
vars == <<bus, op, pc, todo, found, result, steady, changes>>

Present == {a \in Addresses : bus[a] # Empty}

\* What vendor and class make of a function.
IsGpu(f) == f.class = "display"
IsSwitch(f) == f.vendor = "nvidia" /\ f.class = "bridge"
IsMellanox(f) == f.vendor = "mellanox" /\ ~IsSwitch(f)

Kind(platform, family) == [platform |-> platform, family |-> family]
NoKind == Kind("unknown", "unknown")
NoResult == [status |-> "none", kind |-> NoKind]

Init ==
  /\ bus \in [Addresses -> Devices \cup {Empty}]
  /\ op = "none" /\ pc = "idle" /\ todo = {}
  /\ gpus = {} /\ switches = {} /\ mellanox = {} /\ marked = {} /\ chips = {} /\ ports = {}
  /\ result = NoResult
  /\ steady = {} /\ changes = 0

-----------------------------------------------------------------------------
(* The results.                                                            *)

Management == {a \in mellanox : \E b \in marked : Slot[b] = Slot[a]}

FabricInterface ==
  CASE switches = {} /\ Management = {} -> "none"
    [] switches # {} /\ Management = {} -> "nvswitch"
    [] switches = {} /\ Management # {} -> "connectx"
    [] switches # {} /\ Management # {} -> "mixed"

\* What the fabric of each generation is attached through.
HgxFabric == [hopper |-> "nvswitch", blackwell |-> "connectx", rubin |-> "connectx"]

KindOf(chip) ==
  IF chip.attachment # "sxm" THEN Kind(chip.attachment, chip.family)
  ELSE IF HgxFabric[chip.family] = FabricInterface THEN Kind("hgx", chip.family)
  ELSE NoKind

Known == chips \ {Unknown}
Mixed == FabricInterface = "mixed" \/ \E c, d \in Known : c # d

\* Mutant: the GPUs the catalog does not know are passed over.
ClassifyKnown ==
  IF Mixed THEN Kind("mixed", "unknown")
  ELSE IF Known = {} THEN NoKind ELSE KindOf(CHOOSE c \in Known : TRUE)

\* Two known identities are enough for a mixed platform; a kind takes the
\* identities of all GPUs, and SXM ones the fabric of their generation.
Classify ==
  IF Mixed THEN Kind("mixed", "unknown")
  ELSE IF Known = {} \/ Unknown \in chips THEN NoKind
  ELSE KindOf(CHOOSE c \in Known : TRUE)

-----------------------------------------------------------------------------

Return(status, kind) ==
  pc' = "idle" /\ result' = [status |-> status, kind |-> kind]

Begin(o) ==
  /\ pc = "idle"
  /\ op' = o /\ pc' = "functions" /\ todo' = Present
  /\ gpus' = {} /\ switches' = {} /\ mellanox' = {} /\ marked' = {}
  /\ chips' = {} /\ ports' = {}
  /\ result' = NoResult
  /\ steady' = Addresses /\ changes' = 0
  /\ UNCHANGED bus

\* Mutant: a function that cannot be read is left out.
ReadFailsSkipped ==
  /\ \E a \in todo : todo' = todo \ {a}
  /\ UNCHANGED <<bus, op, pc, found, result, steady, changes>>

\* An attribute cannot be read, or makes no sense.
ReadFails ==
  /\ todo # {}
  /\ Return("failed", NoKind)
  /\ todo' = {}
  /\ UNCHANGED <<bus, op, found, steady, changes>>

\* pci_functions; the directory lists them in any order.
ReadFunction(a) ==
  /\ pc = "functions" /\ a \in todo /\ bus[a] # Empty
  /\ todo' = todo \ {a}
  /\ gpus' = gpus \cup {b \in {a} : IsGpu(bus[b])}
  /\ switches' = switches \cup {b \in {a} : IsSwitch(bus[b])}
  /\ mellanox' = mellanox \cup {b \in {a} : IsMellanox(bus[b])}
  /\ UNCHANGED <<bus, op, pc, marked, chips, ports, result, steady, changes>>

\* A function that was listed is gone.
FunctionGone(a) ==
  /\ pc \in {"functions", "identity"} /\ a \in todo /\ bus[a] = Empty
  /\ Return("failed", NoKind)
  /\ todo' = {}
  /\ UNCHANGED <<bus, op, found, steady, changes>>

EndFunctions ==
  /\ pc = "functions" /\ todo = {}
  /\ IF op = "functions" THEN Return("ok", NoKind) /\ UNCHANGED todo
     ELSE pc' = "vpd" /\ todo' = mellanox /\ UNCHANGED result
  /\ UNCHANGED <<bus, op, found, steady, changes>>

\* Mutant: a VF that shares a slot is a management function like its PF.
ReadVpdOfVfs(a) ==
  /\ pc = "vpd" /\ a \in todo /\ \A b \in todo : a <= b
  /\ todo' = todo \ {a}
  /\ marked' = marked \cup {b \in {a} : bus[b].marked}
  /\ UNCHANGED <<bus, op, pc, gpus, switches, mellanox, chips, ports, result,
                 steady, changes>>

\* read_sw_mng: a VF is passed over; a function without a VPD, and one that is
\* gone, has no marker.
ReadVpd(a) ==
  /\ pc = "vpd" /\ a \in todo /\ \A b \in todo : a <= b
  /\ todo' = todo \ {a}
  /\ mellanox' = mellanox \ {b \in {a} : bus[b].vf}
  /\ marked' = marked \cup
                 {b \in {a} : ~bus[b].vf /\ bus[b].marked}
  /\ UNCHANGED <<bus, op, pc, gpus, switches, chips, ports, result, steady, changes>>

EndVpd ==
  /\ pc = "vpd" /\ todo = {}
  /\ \/ op = "topology" /\ Return("ok", NoKind) /\ UNCHANGED todo
     \/ /\ op = "ports" /\ pc' = "ports" /\ UNCHANGED result
        /\ todo' = {a \in Addresses : bus[a].port # NoPort}
     \/ op = "platform" /\ pc' = "identity" /\ todo' = gpus /\ UNCHANGED result
  /\ UNCHANGED <<bus, op, found, steady, changes>>

\* management_guid: a port that could manage the fabric, by its GUID.
Fit(port) == port.infiniband /\ ~port.smDisabled

\* The RDMA device of a function: one that is gone is passed over, as are those
\* of other functions.  A fit port without a GUID is an error.
ReadPort(a) ==
  /\ pc = "ports" /\ a \in todo
  /\ todo' = todo \ {a}
  /\ IF a \in Management /\ Fit(bus[a].port)
     THEN /\ bus[a].port.guid # 0
          /\ ports' = ports \cup {[function |-> a, guid |-> bus[a].port.guid]}
     ELSE UNCHANGED ports
  /\ UNCHANGED <<bus, op, pc, gpus, switches, mellanox, marked, chips, result,
                 steady, changes>>

EndPorts ==
  /\ pc = "ports" /\ todo = {}
  /\ Return("ok", NoKind)
  /\ UNCHANGED <<bus, op, todo, found, steady, changes>>

ReadIdentity(a) ==
  /\ pc = "identity" /\ a \in todo /\ \A b \in todo : a <= b /\ bus[a] # Empty
  /\ todo' = todo \ {a}
  /\ chips' = chips \cup {bus[a].chip}
  /\ UNCHANGED <<bus, op, pc, gpus, switches, mellanox, marked, ports, result,
                 steady, changes>>

EndIdentity ==
  /\ pc = "identity" /\ todo = {}
  /\ Return("ok", Classify)
  /\ UNCHANGED <<bus, op, todo, found, steady, changes>>

\* A function is added, removed or replaced while a scan runs.
Change(a, d) ==
  /\ pc # "idle" /\ changes < MaxChanges /\ d # bus[a]
  /\ bus' = [bus EXCEPT ![a] = d]
  /\ steady' = steady \ {a}
  /\ changes' = changes + 1
  /\ UNCHANGED <<op, pc, todo, found, result>>

Next ==
  \/ \E o \in {"functions", "topology", "ports", "platform"} : Begin(o)
  \/ \E a \in Addresses :
       \/ ReadFunction(a) \/ FunctionGone(a) \/ ReadVpd(a) \/ ReadPort(a)
       \/ ReadIdentity(a)
       \/ \E d \in Devices \cup {Empty} : Change(a, d)
  \/ EndFunctions \/ EndVpd \/ EndPorts \/ EndIdentity \/ ReadFails

Spec == Init /\ [][Next]_vars

-----------------------------------------------------------------------------

Ok == result.status = "ok"
Steady(Is(_)) == {a \in steady : Is(bus[a])}

\* Every variable keeps its type.
TypeOK ==
  /\ bus \in [Addresses -> Devices \cup {Empty}]
  /\ op \in {"none", "functions", "topology", "ports", "platform"}
  /\ pc \in {"idle", "functions", "vpd", "ports", "identity"}
  /\ \A s \in {todo, gpus, switches, mellanox, marked, steady} : s \subseteq Addresses
  /\ ports \subseteq [function : Addresses, guid : Nat]
  /\ chips \subseteq Chip \cup {Unknown}
  /\ result.status \in {"none", "ok", "failed"}
  /\ result.kind.platform \in {"unknown", "pcie", "coherent", "hgx", "mixed"}
  /\ result.kind.family \in Family \cup {"unknown"}
  /\ changes \in 0 .. MaxChanges

\* "Identity errors propagate so a failed scan cannot select CPU-only mode"
\* (src/src/platform/linux.rs:123): whatever fails or changes meanwhile, a scan
\* that returns Ok has found every GPU and switch that was there all along,
\* and every management PF whose slot had a marked one, with its port.
NothingOverlooked ==
  Ok =>
    /\ Steady(IsGpu) \subseteq gpus /\ Steady(IsSwitch) \subseteq switches
    /\ op # "functions" =>
         \A a, b \in Steady(IsMellanox) :
           ~bus[a].vf /\ ~bus[b].vf /\ bus[b].marked /\ Slot[a] = Slot[b]
             => /\ a \in Management
                /\ op = "ports" /\ Fit(bus[a].port)
                     => [function |-> a, guid |-> bus[a].port.guid] \in ports

\* "A shared slot does not make an SR-IOV VF a management PF"
\* (src/src/nvlink.rs:89), nor does a NIC become one without a marked function
\* in its slot: what makes it one has been there, or has changed meanwhile.  A
\* port that is chosen is fit, is that of such a function and has its GUID.
RolesAreEarned ==
  Ok /\ op # "functions" =>
    /\ \A a \in (Management \cup {p.function : p \in ports}) \cap steady :
         /\ IsMellanox(bus[a]) /\ ~bus[a].vf
         /\ \E b \in Addresses :
              /\ Slot[b] = Slot[a]
              /\ \/ b \notin steady
                 \/ IsMellanox(bus[b]) /\ bus[b].marked
    /\ \A p \in ports :
         p.function \in steady =>
           LET port == bus[p.function].port IN Fit(port) /\ p.guid = port.guid /\ p.guid # 0

\* "A missing/unknown GPU identity cannot prove Bx00 versus Rx00"
\* (src/src/platform.rs:60): a platform is only given a kind that no GPU which
\* was there all along contradicts or leaves open.
KindIsProved ==
  Ok /\ result.kind.family # "unknown" =>
    \A a \in Steady(IsGpu) :
      /\ bus[a].chip.family = result.kind.family
      /\ bus[a].chip.attachment =
           IF result.kind.platform = "hgx" THEN "sxm" ELSE result.kind.platform
=============================================================================
