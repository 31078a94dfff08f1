# A verification project for pcilibs-rs

TLA+ models of the parts of this crate that keep state, talk to hardware, run
beside each other or parse what others wrote, with the TLC runs that check them
and TLAPS proofs of the properties that matter most. Paths are relative to the
directory above this one; `src/src/` is the crate's source.

## The system

The crate provisions NVIDIA GPUs and NVSwitches for confidential workloads: it
finds the devices under sysfs, opens them, sets the confidential-computing (CC)
or Protected PCIe (PPCIE) mode in their FSP (a security processor on the
device), resets them so that the mode takes effect, and binds them to vfio.

| Component | State | Operations | What is hard | What makes it correct |
|---|---|---|---|---|
| CC/PPCIE provisioning (`cc/mod.rs`, `gpu/chips.rs`) | knobs in the FSP, the mode the device runs with | `set_cc_mode`, `set_ppcie_mode`, `reset`, queries | a call is up to 7 RPCs, any of which may fail or take effect later; the order of the writes; a booting device reads all-ones | no CCD-only state, no CC beside what excludes it, Ok means stored, a query answers what runs |
| Opening of GPUs and switches (`cc/mod.rs`, `gpu.rs`) | what was read of the device so far | `Gpu::open_in`, `open_in_with_catalog`, `NvSwitch::open_in` | the card may be replaced between identification, open and use; errors after the claim | an open one is driven by the protocol of the card that is there; nothing unidentified is woken |
| FSP RPC, EMEM (`cc/fsp.rs`) | two queues, a shared window, the FSP | `emem`, `knob_read`, `knob_write` | clients that die between two register writes, late answers, a doorbell among the registers | nothing stale after opening; commands whole, once, in order, and their own answers |
| FSP RPC, MNOC (`cc/fsp.rs`) | two mailboxes, the FSP | `mnoc`, `knob_read`, `knob_write` | answers left behind, which nothing drains and nothing names | as above, where it holds |
| PCI device handle (`pci_dev.rs`) | the set `OPEN`, policy and decoding bit of each device | open, drop | threads, error paths half-way, the order of undoing, the wake-up's timeout | one holder, an open device answers, a closed one is as found |
| vfio binding (`vfio.rs`) | a device's driver and override, in sysfs | `bind`, `unbind`, `verify_bound`, `module_for`, `driver_for` | probing is asynchronous; a write fails or the caller dies in between; modules come and go | a failed bind leaves no override; a device taken back stays so; the driver named is made for the device |
| PCI catalog (`catalog.rs`, `catalog/`) | the built-in records, the extension loaded last | parse, read a file or a directory, validate, merge, look up | wildcards on two axes, lookups that stop early, files that change while they are read | lookups are exact and never contradict the build |
| Bus inventories (`pci_manager.rs`, `catalog/linux.rs`, `iommufd.rs`, `cc::discover`) | a cache of devices, kept by the caller | five readers of the bus | attributes of a function are read one by one by address; each reader has its own idea of what an unreadable one means | a record is of one function; only the readers that may leave one out do |
| Platform detection (`platform.rs`, `platform/linux.rs`) and NVLink discovery (`nvlink.rs`) | what a scan has found so far | `discover_gpus`, `discover_topology`, `discover`, `discover_fabric`, `discover_management_ports` | several passes over a bus that changes; any read may fail; a VPD may hold anything | an Ok overlooks nothing that was there; roles and kinds are earned; the parser stays in its data |
| PCI ID database (`pci_ids.rs`, `build_support.rs`) | the tables, while they are built | the build script's loop, the lookups | a line does not name its parents; the last entry of each kind | each line is found where it belongs, and nowhere else |
| PCI addresses (`linux.rs`) | none | `normalize_bdf` | spellings | one address, one claim |

How they interact: `Gpu` and `NvSwitch` own a `PciDev`, and so the only handle
on their device in the process; they send knob commands through `FspRpc`, by
EMEM on Hopper and the switches and by MNOC on Blackwell and Rubin; the
channels read and write the device's registers through the `PciDev`. Discovery
asks the catalog what a GPU's identity means, and opening a GPU does so again.
Discovery and vfio binding only use sysfs.

The hazards of each part are listed, at their lines and with the properties
that are about them, under "hazards" in PROJECT.json.

## The modules

**CcPlans** holds the calls and the ordered knob values each establishes
(`set_cc_mode`'s plan, `ppcie_knob_plan`), and which calls a device refuses.

**CcControl** is one device and the call in progress on it. A knob RPC is a
step: `Probe`, `ReadKnob`, `SkipAbsentKnob`, `WriteKnob` are the successful
ones in the order of the code, `RpcFails` any error or the death of the
process, and a write that failed at the library may still reach the FSP
(`LateWrite`) or not (`DropLate`). `BeginReset`, `Boot`, `EndReset` are
`reset` and the device's boot, `Query` the two queries with what the state
register may read. It stands on what the layers below show. One call at a time
has the device (PciDevHandle). Over EMEM a command's success means that it was
carried out, before any later one, and that its answer is its own (KnobRpc).
Over MNOC an acknowledged write has taken place too, but once a failed call may
have left an answer in the mailbox (`astray`), a read may be answered with what
the other CC knob holds (`ReadAnswers`, after `AnswersAreUsable` of
MnocMailbox).

**ModeLadder** is the abstract specification of provisioning: the stored mode
moves along PPCIE - off - CC on - CC devtools, one rung at a time towards the
mode asked for. A call that returns Ok has reached its mode, or is
one rung short of it if an earlier call misled it (`misled`, which is `astray`).
CcControl is shown to implement it.

**KnobRpc** is the abstract specification of an RPC channel: commands are
carried out at most once, in order, and succeed only with their own answer.
That is until the FSP overruns the wait for a command whose caller gave up
(`Overrun`); from then on (`Disordered`) an answer may be that of another
command and half a command may be taken up, but still none twice or after a
later one.

**EmemChannel** is the EMEM channel, one register access of the client (or one
group of reads that nothing can come between) per step, on the FSP as the
repository's fake of it behaves, except that it takes its time and may stop
anywhere, also during the wait of a reset. It is shown to implement KnobRpc.

**MnocMailbox** is the MNOC mailbox with `set_cc_mode` on top of it, because
what a stray answer does shows only in what the caller makes of it. What an
answer that passes the checks is good for, `AnswersAreUsable`, is what CcControl
takes an answer for.

**PciDevHandle** is a process whose threads open and drop handles, one sysfs
access per step, each of which may fail. A policy that cannot be read is taken
for none (`ReadPolicy`), as by `wake`: such a device is opened asleep or not.

**GpuOpen** extends PciDevHandle with what the three ways to open a GPU or a
switch put around a handle: the identification by device ID, by the catalog
before the device is touched, or by BOOT_0; the choice of the protocol
(`properties`, `chip_for`, `is_c2c`, `switch_for`); the check of the identity
behind the open handle, the BAR0 firewall, and the drop after each error. The
card at an address may be replaced at any time until its BAR is mapped, also
after the open has claimed it and read its vendor and device ID. **PciAddress** is `normalize_bdf`, through which
callers' addresses reach the claim.

**VfioBind** is one function whose driver a caller changes, one access to sysfs
per step, beside the kernel's probes and modules that are loaded and unloaded;
`ModuleFor` and `DriverFor` are the lookups by which callers pick the driver.
A probe may come at any time, and reading which driver holds the device may
fail, which the code takes for there being none (`CurrentDriver`). The history
variables `raced` and `missed` record that a probe bound the device in the
middle of a call, and that a call did not see its driver.

**CatalogRecords** is the pure part of the catalog: identities and patterns,
the order and the disjointness validation asks for (`Valid`), the check against
the build (`Agrees`), and the lookups, which stop at the first record of a
later device and take the first match, as the code does. What a lookup ought to
answer is nowhere in it: the properties of CatalogLoad say that.

**CatalogText** is the parser of a catalog's lines: which lines are records,
which fields may be wildcards, and what is malformed.

**CatalogLoad** is `CatalogFile::read` and the parse that follows, one file per
step, while an administrator edits the files; the extension in use changes only
when all of it succeeds. `Merge` is the sort and the fold of `input.rs`.

**PciInventory** is the five readers that list the bus outside of a platform
scan, attribute by attribute, while functions are exchanged and reads fail -
those of a directory and its entries, which `enumerate_iommufd` takes for empty
and the others for an error, as well as those of attributes -
with the caller's cache of `get_device_by_pci_bus_id`. An attribute is
represented by the function it was read from, so that a record put together
from two functions shows.

**PlatformScan** is a scan of the bus in up to three passes, one function per
step, while functions are added, removed and replaced, followed by the choice
of the management ports or by the classification. What one pass takes from a
function it takes at once, and the GPU's identity comes with what the catalog
says of it.

**VpdParser** is `read_sw_mng` and `vpd_sw_mng` over bytes, one resource or one
keyword per step.

**PciIds** is the loop of the build script over the lines of pci.ids, and the
lookups in the tables it makes. A line is chosen as it is read, so that a run
goes through every file.

`MC*` modules give the constants their values for TLC; `*Proofs` modules hold
the theorems. Operators whose comment begins with "Mutant:" are deliberate
mistakes: each run's properties are also shown to fail when one of them
replaces the definition that follows it.

## The runs

| Run | Question | Bounds, and why they are enough |
|---|---|---|
| cc_control | do all safety properties hold from every knob setting - over MNOC those about what Ok means while no answer is astray - and does CcControl implement ModeLadder (`LadderSpec`) | every kind of device (family, C2C, with and without the PPCIE knob); every combination of the knob values the calls write (knobs 2 and 4 equal, they are handled alike); calls are unbounded |
| emem | is a newly opened channel fresh until a reset is overrun, does the channel implement KnobRpc (`RpcSpec`), do opening and sending end whatever the FSP does | 4 commands in all, any number of openings: a client may die in each of three commands before the last; the queues hold at most one command, so more commands repeat these states |
| mnoc | what holds with clients that die or give up anywhere: in every state (what an answer is good for, no CCD-only state), and as long as no answer was left behind (history variable `astray`); do calls end | none: the state is finite |
| mnoc_stale | expected violation, see Findings | none |
| gpu_open | one holder; usable, awake if its policy could be read; restored; the right protocol for a card not replaced after its IDs were read; nothing unidentified touched; do opens and drops end | 2 threads that want one address, which is all that threads share (the proofs are for any number of both); 5 cards: a device ID inside and one outside the ranges, each on two boards, and a switch; 6 spellings of the address, legal and not |
| vfio | is nothing left behind that binds a device unasked, does a device taken back stay so (both with their exceptions, see VfioBind below), is the driver named made for it | 2 drivers to ask for and the native one, 4 modules, one of them without a PCI driver; alias tables of up to two lines, in which a line for the device, for another and for any meet in either order; probes at any time |
| vfio_race | expected violation, see Findings | the same |
| catalog | what lookups answer from files that change while they are read | 2 files of up to 2 records, overlapping on either axis, repeated, conflicting, unsorted or malformed in each way the parser tells apart; 3 builds; 3 records in all, so that the limit is met; ids 1 and 2 on all four columns |
| platform_scan | what scans report of a bus that changes | 3 addresses, two of them in one slot, 10 kinds of function; 1 change per scan, which falls before, between and after the reads of each pass |
| vpd | does the parser answer right, stay in its data and end | files of up to 20 bytes made of one resource of each kind with up to two keywords, each of them cut off anywhere and with any of its first bytes changed; `MAX_VPD` 17, so that some are too long |
| pci_ids | is each line found by the lookups where it belongs, and nowhere else | every file of up to six lines over two IDs: a tree of all three levels twice, or both trees, with repeated IDs |
| pci_inventory | are records true, is nothing left out that may not be | 2 addresses, 3 kinds of function, 1 change for as long as a cache is kept, which falls between any two attributes |

Deadlock is checked except in vpd and pci_ids, whose programs end.

**Fairness.** Only the client's own steps are weakly fair: a thread that runs
keeps running, and each of its polls has a deadline (`poll` in pci_dev.rs), so
that either the wait's condition or its timeout is enabled. In gpu_open this is
said of each thread's open or drop, which nothing of another thread blocks: a
device that is open is refused, not waited for. No step of the FSP or
the device is fair: either may stop for ever, at any step.

**Assumptions about the hardware and the kernel.** The FSP is known only by how
the code uses it and by the repository's fake of it. EMEM: a doorbell on an
empty queue is none; a command is shown as consumed only after it is answered,
which is what `emem_reset_queues` goes by when it returns at once from two
empty queues. The fake (src/src/cc/fsp.rs:543) consumes first, but answers
before the client takes another step, and so decides nothing about an FSP that
takes its time; with one that consumes first a newly opened channel would not be
safe, which is listed as a hazard. How long the FSP takes is not assumed: what
it may do by overrunning the 5 s of a reset is in EmemChannel, where the history
variable `overrun` ends FreshOpen and the strong half of KnobRpc. CcControl
stands on that half, so its claims about devices on EMEM are for an FSP that is
done with a command within these 5 s. MNOC: the FSP takes the next command only
when it is done with the last, and holds one answer, a new one replacing one
nobody pulled. vfio: a probe binds an unbound device to the driver its override
names, or without an override to the one that matches it, if that is loaded and
accepts; a module with a bound device cannot be unloaded. GpuOpen: a card is
not replaced while its BAR is mapped; and (`TablesAssumption`) no range and no
record is false of a card, the built-in catalog has every coherent NVIDIA board,
and if it has one board of a device ID outside the ranges it has them all, as
`chip_for` takes it to.

## Findings

*mnoc_stale.* Nothing drains the MNOC mailbox when it is opened, and an answer
is only checked for being an answer to a PRC command. After a client died with
a read outstanding, every command of the next client may get the answer to the
one before it; `set_cc_mode` can then find both knobs at the values it wants,
write nothing and return Ok. Over EMEM the queues are reset for this reason.

*vfio_race.* `unbind` reads the driver once, takes it off if there is one, and
clears the override. The kernel's binding is asynchronous, as `bind`'s own doc
says, so the probe of an earlier `bind` may run between the read and the
clearing: `unbind` returns Ok and the device is bound to the vfio driver. Run
vfio shows when a device taken back does stay so: when no probe binds it in the
middle of that `unbind`, and `unbind` could read which driver holds it.

The latter is a second way to the same end: `current_driver`
(src/src/vfio.rs:44-49) takes any error in reading the driver link for there
being no driver, and `unbind` then takes none off. TakenBack sets that case
aside, so that vfio_race is about the probe. A third case is a bind that fails:
a probe between the writing of the override and a failed write to
`drivers_probe` binds the device, `bind` forgets the override and returns an
error, and the driver stays. NothingUnasked claims that the override goes in
every such case, and nothing of the driver.

Two more things the code lets happen are set aside in properties, each by name,
and listed as hazards: a device whose `power/control` cannot be read is opened
without being woken (`PolicyKnown` in Usable), and a card that is replaced after
its vendor and device ID were read, before its BAR is mapped, is driven as the
one that was there (`same` in HandleFits).

Not a finding, but worth knowing: turning PPCIE off on a Hopper GPU writes BAR0
decoupler 0. A test is named `disabling_ppcie_leaves_the_cc_knobs_alone`
(src/src/cc/mod.rs:770), and CCM and CCD are; but the decoupler is one of the
knobs CC on stores (2), so CC on followed by PPCIE off leaves CC on without it.
`StoredHolds` therefore promises a CC mode's decoupler only until the next call,
and ModeLadder does not speak of it.

## The proofs

All theorems are for every value of the constants that satisfies the named
assumptions, in particular for any number of threads, devices, files, records,
addresses and changes. Each rests on an inductive invariant `Inv` (or a name
like it) with `Init => Inv` and `Inv /\ [Next]_vars => Inv'`, one case per
action; each was checked by TLC before it was proved.

**CcControlProofs**: type correctness and all the safety properties of run
cc_control. `Inv` adds to the types what a call in progress has already
established: the steps of its plan before `at` hold in the knobs (later steps
of a plan never touch an earlier step's knob), a late write exists only while
no later command has been served, and a history variable's mode still holds in
the knobs or in the latched bits. Over MNOC the first and the last are said
while no answer is `astray`. Afterwards a step taken for done may not be so, but
then it is the first of two, with CCM already on, or the device was found with
CCD alone (`Prepared`), which is why NeverCcdOnly and NoNewConflict need no such
condition. The lemmas about plans state, for each kind of device and call, which
knobs a plan writes, that it writes none twice, and which value the last write
of each leaves. `ClimbsTheLadder` is the refinement:
CcControl implements ModeLadder. `PlanStepMoves` says of every step of every
plan which rung it leads to from the rung the steps before it allow, and
`StepOnLadder` maps each action; besides `Inv` it takes that a device without
PPCIE holds nothing in that knob (`PpcieInv`), for otherwise CC on would take a
Blackwell GPU off the ladder.

**MnocMailboxProofs**: type correctness and the three invariants of run mnoc:
`AnswersCanBeUsed` is the fact CcControl stands on.
That stray answers never lead to the CCD-only state takes two facts: a value in
the mailbox is always younger than the last write, because the answer to a
write replaces it (`ValuesAreCurrent`), and a value of either knob that equals
the first step's shows that step to hold, because CCD implies CCM
(`PlausibleStepHolds`). That the acknowledgement of a write is its own, even
then, is `WritesAreAcknowledged`. `AllIsOurs` is what holds besides while
nothing is astray.

**EmemChannelProofs**: FreshOpen, the refinement of KnobRpc (`CarriesCommands`)
and what it means for the knobs (`CarriesOutInOrder`): only commands that were
sent are carried out, each at most once and in order, however many clients die
in the middle. None of them assumes anything of how long the FSP takes: the
first and the last are claimed until it overruns a reset's wait, and the
refinement says what is left after that.

FreshOpen alone is not inductive. The invariant follows the last command
wherever its client has got to: an FSP at work has that command, still in the
queue and not answered (`FspInv`); a client that opens has seen or made the
queues empty up to the register it is at (`OpenInv`); a command is whole in the
window before its tail is written, and nobody else's is there (`SendInv`); and
an answer that is waited for, in the window or already read, is that to the
command sent (`ReceiveInv`). In the refinement the pending command is the one
the client is in a call for, the late one what the FSP still has when the
client gave up. All of this is said while no reset is overrun.

What holds also afterwards is `NeverGoesBack`, on which the refinement's steps
after an overrun rest: the FSP may find its command gone, or half of the next one in its place, but it carries out none
twice, nor after a later one. For this a command that the FSP may still take
must be newer than all it has carried out (`QueuedIsNew`), and the client's
next one must be nowhere before it is whole and announced (`NextIsNew`).

**GpuOpenProofs**, first part, on PciDevHandle: type correctness, OneHolder,
Usable and Restored. OneHolder is inductive with the types; the other two are
not: the invariant adds, for each step of an open or a drop (`Phase`), how the
device may differ from what it is to be put back to - while it is kept awake,
the policy it had is in `saved`; from the moment decoding was turned on,
`switched` says so - and that a device without runtime PM never sleeps. Of an
open that could not read the policy it says nothing about sleep. The
steps of one thread are proved once to leave the others' phases alone
(`OthersKeepPhase`, `HolderStep`), because no two have the same device.

**GpuOpenProofs**, second part: GpuOpen implements PciDevHandle
(`OpensAreHandles`), step by step, so that the theorems above hold of every GPU
and switch; and HandleFits and UnvettedUntouched. The invariant is
PciDevHandle's with, for each call, where its handle is at each step
(`Linked`), what was read before the claim and is still so of a card that has
not been replaced since (`IdentifiedBy`, `VettedBy`), which IDs the open read
and that they are still the card's if that was not replaced after (`IdsRead`),
and what was checked of them behind the open handle (`Checked`).

**SysfsProofs**, on VfioBind: type correctness; MadeForIt whenever probes run,
from the lookups naming only what the table lists and a module registers
(`LookupsListed`), the driver that holds the device being that of a loaded
module (`Backed`), and no driver having two modules; NothingUnasked and
TakenBackUndisturbed whenever probes run and whatever cannot be read, from what
the override may be at each step of a bind (`Binding`) and between calls
(`Asked`, `Unbound`), and from what a call that saw the driver and was not
disturbed has made of it (`Undisturbed`). Without `~raced` the latter is
TakenBack, of which vfio_race is the counterexample.

**SysfsProofs**, on PciInventory: RecordsAreTrue and NothingOverlooked. The
invariant says of the function a reader is at which of its attributes were read
from the function that is there, unless that was exchanged during the call
(`ReadingInv`), and of every function that was there all along that it has a
record, is still to be read, or was left out for a reason that reader has
(`AccountInv`); an entry of the cache stays true of what has not changed since
it was made, whatever calls come in between (`RecordsInv`).

**CatalogProofs**: type correctness, NoContradiction, LookupsAreExact and
CoherentIsConservative. The inductive invariant `Sound` says that the snapshot
is `Valid` and `Agrees` with the build, and that the records read so far have
their type; a load that fails leaves the snapshot alone, and one that succeeds
has checked both. That a valid snapshot is looked up exactly is the lemma that
the early stop loses nothing: were a record before the one that matches of a
later device, the order of the records would put the matching one before it.
NothingLost and NamesDoNotMatter are about the merge of a directory, a stable
sort and a loop that drops repeated records and refuses overlapping ones. The
lemmas: the ranks of the places records come from are distinct and have no gaps
(`RanksAre`), so that the sort keeps every record and orders the keys
(`SortedAre`); after each round the loop has accepted every record so far once,
in the order of the keys, or there are two that overlap and differ
(`MergeAccepts`, by the first round of which this would fail); so what the
merge comes to depends only on what is in the files (`MergeIs`), and records in
order are determined by what they are (`SameRecords`). What is inductive is
`LoadInv`: what the last load read is in the snapshot if it succeeded.

**PlatformScanProofs**: type correctness, NothingOverlooked, RolesAreEarned and
KindIsProved. For each pass the invariant says that a function that was there
all along is among what the pass found or has still to read (`SeenFunctions`,
`SeenMarkers`, `SeenPorts`, `SeenChips`), and that what is in a role belongs
there or has changed (`Earned`, `Chosen`); what `Classify` makes of known
identities is a lemma.

**ParserProofs**, on VpdParser: InBounds, so that no slice the parser takes can
panic, whatever the file; that each step but the first and the last lowers a
measure that is never negative (`LessToDo`), which is the argument for its
termination; and AnswerIsRight, for files of any bytes and any length.
AnswerIsRight compares the parser with a definition of what a VPD is: the
positions reached from the first when each resource leads to the next, and
likewise for the keywords of a resource. `AnswerInv` says that the resources of
the VPD are those still to come and those passed over without an error, that
the same holds for the keywords of the open resource, and that the marker was
found exactly if it is in what was passed over.

**ParserProofs**, on PciIds: NothingMisfiled and NothingLost, for files of any
length over any IDs. The inductive invariant: the entry and the sub being read
are those of the last lines that make one (`LastInv`), everything in an entry
is a line that belongs there (`FiledInv`), every line read is in an entry that
is in the table or will be flushed into it (`ShownInv`), and the built table
has one entry for each ID.

Induction over data, by the library's theorems, is out of these provers' reach.
Where an argument goes along a sequence - the scan of a lookup, the rounds of
the merge, the positions of a VPD - it takes the first counterexample there
would be and refutes it, from the fact that a non-empty set of numbers has a
least one (`FirstIsOne`, `LeastOne`).

Model-checked only: liveness, which is beyond the prover - CallReturns of
EmemChannel, MnocMailbox and GpuOpen, and Terminates of VpdParser. Every safety
property and refinement that a run checks is also proved. What the
catalog's lines mean (CatalogText) and the spellings of an address (PciAddress)
are definitions of the models, which the runs evaluate; no theorem is about
them alone.

## Not modelled

- Of PciDev: how BAR0 is mapped, which reset method the kernel takes, and a
  change of COMMAND by the kernel between `set_memory_decoding`'s read and its
  write.
- Of the bus inventories: reads of config space and of the resource table, the
  panic on an attribute of the manager's that is not a number (a malformed
  sysfs), the names a class is given for display, and the class predicates.
- Of platform detection: the count of GPUs and `discover_gpus_for`'s filter.
- Of `linux.rs`: the one-line summary of InfiniBand devices for logs, the list
  of vfio device types and `is_pcie_device`; `sysfs.rs` (joining of paths).
- Two processes that provision one device: `OPEN` is of one process and
  `vfio.rs` leaves its callers' exclusion to them; what `verify_bound` is for is
  modelled as a call, not as a race.
- `testfs.rs`, the tests and the example are fixtures; `lib.rs` lists modules.
- The layout of packets, logging, wording of errors and the characters of names
  are left out everywhere.

## What could come next

A second provisioner in VfioBind, whose override wins for both, and a second
process beside the one of PciDevHandle, which take each other's settings for
what they found; both are among the hazards that no property covers yet.
