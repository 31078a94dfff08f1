------------------------------ MODULE GpuOpen ------------------------------
(***************************************************************************)
(* How a PCI function becomes a Gpu or an NvSwitch (src/src/cc/mod.rs),    *)
(* with the register protocol that src/src/gpu.rs picks for it.  A handle  *)
(* of PciDevHandle is opened, and kept only if it proves to be what was    *)
(* asked for.  Three ways to open one:                                     *)
(*   "gpu"      Gpu::open_in: the function is woken first, then identified *)
(*   "catalog"  Gpu::open_in_with_catalog: it is identified first, and the *)
(*              subsystem is part of its identity                          *)
(*   "switch"   NvSwitch::open_in: only BOOT_0 says which one it is        *)
(* The card behind an address may be replaced until its BAR is mapped:     *)
(* after it was identified, too, and after the open has read its IDs.      *)
(***************************************************************************)
EXTENDS PciDevHandle

Pci == INSTANCE PciAddress

CONSTANTS
  Spellings, \* what callers pass for an address
  Cards,     \* [vendor, gpu, device, subsystem, chip, coherent]: gpu is a class
             \* of 0x0300 or 0x0302, chip and coherent are what it really is
  Chips,     \* CHIPS, the names of the GPUs there is register support for
  Hopper,    \* the one of them without a boot firewall
  Switches,  \* SWITCHES, those NvSwitch supports
  Range,     \* chip_for_range: device ID to chip, or NoChip
  Builtin,   \* the catalog's NVIDIA records, [device, subsystem, gpu, profile,
  Given,     \* attachment]: the built-in ones, and all that were given
  NoChip,
  NoCard

Fits(e, c) == c.vendor = "nvidia" /\ e.device = c.device /\ e.subsystem = c.subsystem

\* The tables say nothing false of any card; the built-in catalog has every
\* coherent board, and every board of a device ID without a range if it has one.
ASSUME TablesAssumption ==
  /\ NoChip \notin Chips \cup Switches /\ Hopper \in Chips
  /\ NoCard \notin Cards
  /\ Builtin \subseteq Given
  /\ \A c \in Cards :
       /\ Range[c.device] \in Chips \cup {NoChip}
       /\ c.vendor = "nvidia" /\ Range[c.device] # NoChip => c.chip = Range[c.device]
       /\ \A e \in Given :
            Fits(e, c) /\ e.gpu /\ e.profile \in Chips =>
              e.profile = c.chip /\ (e.attachment = "coherent" <=> c.coherent)
       /\ c.vendor = "nvidia" /\ c.coherent => \E e \in Builtin : Fits(e, c) /\ e.attachment = "coherent"
       /\ \A e \in Builtin :
            c.vendor = "nvidia" /\ e.device = c.device /\ Range[c.device] = NoChip
              => \E f \in Builtin : Fits(f, c)

VARIABLES
  card,  \* the card at each address
  gpu    \* the open or drop each thread is in: where it is (step), which of the
         \* three it runs (how), the address it was given (aim), the device ID it
         \* read before the open (seen), the IDs the open read (vendor, device),
         \* the protocol it picked (chip), what it takes the attachment for (c2c);
         \* and, history, whether the card at aim is still the one that was there
         \* when the call began (steady) and when the open read its IDs (same)

gpuVars == <<vars, card, gpu>>

NoCall == [step |-> "idle", how |-> "gpu", aim |-> NoDevice, seen |-> NoCard,
           vendor |-> NoCard, device |-> NoCard, chip |-> NoChip, c2c |-> FALSE,
           steady |-> FALSE, same |-> FALSE]

Becomes(t, g) == gpu' = [gpu EXCEPT ![t] = g]
Step(t, s) == Becomes(t, [gpu[t] EXCEPT !.step = s])
Return(t) == Becomes(t, NoCall)

-----------------------------------------------------------------------------
(* src/src/gpu.rs: which protocol.                                         *)

\* properties: the chip a record stands for, if it is supported.  A record
\* cannot overrule a range.
Supported(e) ==
  /\ e.gpu /\ e.attachment # "unknown" /\ e.profile \in Chips
  /\ Range[e.device] \in {NoChip, e.profile}

\* chip_for: by range, or by the built-in records of the device ID, if all of
\* them are supported and name one chip.
ChipFor(device) ==
  LET records == {e \in Builtin : e.device = device}
      named   == {e.profile : e \in records}
  IN IF Range[device] # NoChip THEN Range[device]
     ELSE IF (\A e \in records : Supported(e)) /\ \E c \in Chips : named = {c}
     THEN CHOOSE c \in Chips : named = {c}
     ELSE NoChip

\* is_c2c: some board with the device ID is coherent.
MayBeCoherent(device) ==
  \E e \in Builtin : e.device = device /\ e.attachment = "coherent"

\* switch_for: every generation has a BOOT_0 of its own.
SwitchFor(boot0) == IF boot0 \in Switches THEN boot0 ELSE NoChip

-----------------------------------------------------------------------------
(* The opens.                                                              *)

GpuInit ==
  /\ Init
  /\ card \in [Devices -> Cards]
  /\ gpu = [t \in Threads |-> NoCall]

Begin(t, d, h, s) ==
  /\ gpu[t].step = "idle"
  /\ Becomes(t, [NoCall EXCEPT !.step = s, !.how = h, !.aim = d, !.steady = TRUE])
  /\ UNCHANGED card

\* Gpu::open_in and NvSwitch::open_in.  A device that is open is refused.
OpenFirst(t, d) ==
  /\ Begin(t, d, "gpu", "opening") \/ Begin(t, d, "switch", "opening")
  /\ Claim(t, d)

\* Gpu::open_in_with_catalog.
IdentifyFirst(t, d) ==
  /\ Begin(t, d, "catalog", "identify")
  /\ UNCHANGED vars

\* vendor, class and device; any of them may be unreadable.
ReadIdentity(t) ==
  /\ gpu[t].step = "identify"
  /\ LET c == card[gpu[t].aim]
     IN \/ /\ c.vendor = "nvidia" /\ c.gpu
           /\ Becomes(t, [gpu[t] EXCEPT !.step = "subsystem", !.seen = c.device])
        \/ Return(t)
  /\ UNCHANGED <<vars, card>>

\* The catalog's records of a device ID and the subsystem of a card.
RecordsOf(device, c) == {e \in Given : e.device = device /\ e.subsystem = c.subsystem}

\* Mutant: a board that is not in the catalog has the profile of its device ID.
ReadSubsystemOrDevice(t) ==
  /\ gpu[t].step = "subsystem"
  /\ LET device  == gpu[t].seen
         records == RecordsOf(device, card[gpu[t].aim])
     IN \/ \E e \in records :
             /\ Supported(e)
             /\ Becomes(t, [gpu[t] EXCEPT !.step = "vetted", !.chip = e.profile,
                                          !.c2c = (e.attachment = "coherent")])
        \/ /\ records = {} /\ ChipFor(device) # NoChip
           /\ Becomes(t, [gpu[t] EXCEPT !.step = "vetted", !.chip = ChipFor(device),
                                        !.c2c = MayBeCoherent(device)])
        \/ Return(t)
  /\ UNCHANGED <<vars, card>>

\* The subsystem's two IDs, the lookup and properties.
ReadSubsystem(t) ==
  /\ gpu[t].step = "subsystem"
  /\ \/ \E e \in RecordsOf(gpu[t].seen, card[gpu[t].aim]) :
          /\ Supported(e)
          /\ Becomes(t, [gpu[t] EXCEPT !.step = "vetted", !.chip = e.profile,
                                       !.c2c = (e.attachment = "coherent")])
     \/ Return(t)
  /\ UNCHANGED <<vars, card>>

OpenVetted(t) ==
  /\ gpu[t].step = "vetted"
  /\ IF gpu[t].aim \in OPEN
     THEN Return(t) /\ UNCHANGED vars
     ELSE Step(t, "opening") /\ Claim(t, gpu[t].aim)
  /\ UNCHANGED card

\* A caller's address, normalized.  One that spells none, or that of a function
\* that is not there, is an error.
OpenAt(t, d) == d \in Devices /\ (OpenFirst(t, d) \/ IdentifyFirst(t, d))

\* PciDev::open_in at work; what it reads of the vendor and device ID is kept.
Opening(t) ==
  /\ gpu[t].step = "opening"
  /\ Run(t)
  /\ LET c == card[gpu[t].aim]
     IN \/ /\ pc'[t] = "readDevice"
           /\ Becomes(t, [gpu[t] EXCEPT !.vendor = c.vendor, !.same = TRUE])
        \/ pc'[t] = "map" /\ Becomes(t, [gpu[t] EXCEPT !.device = c.device])
        \/ pc'[t] = "open" /\ Step(t, "check")
        \/ pc'[t] = "none" /\ Return(t)
        \/ pc'[t] \notin {"readDevice", "map", "open", "none"} /\ UNCHANGED gpu
  /\ UNCHANGED card

\* Mutant: what was read before the open is relied on.
IdentifiedOnce(t) ==
  LET g == gpu[t]
  IN g.how # "catalog" => g.vendor = "nvidia" /\ (g.how = "gpu" => ChipFor(g.device) # NoChip)

\* The checks on the vendor and device ID that the open has read.
Identified(t) ==
  LET g == gpu[t]
  IN /\ g.vendor = "nvidia"
     /\ g.how = "gpu" => ChipFor(g.device) # NoChip
     /\ g.how = "catalog" => g.device = g.seen

CheckIdentity(t) ==
  /\ gpu[t].step = "check" /\ Identified(t)
  /\ LET device == gpu[t].device
     IN \/ /\ gpu[t].how = "gpu"
           /\ Becomes(t, [gpu[t] EXCEPT !.step = "firewall", !.chip = ChipFor(device),
                                        !.c2c = MayBeCoherent(device)])
        \/ gpu[t].how = "catalog" /\ Step(t, "firewall")
        \/ gpu[t].how = "switch" /\ Step(t, "boot0")
  /\ UNCHANGED <<vars, card>>

\* wait_for_bar0: on a Hopper not at all, on the others until BOOT_0 reads.
WaitForBar0(t) ==
  /\ gpu[t].step = "firewall"
  /\ Step(t, "boot0")
  /\ UNCHANGED <<vars, card>>

\* BOOT_0 reads as neither all-ones nor a security fault.  A GPU is then taken
\* for what its device ID says; a switch for what BOOT_0 says.
ReadBoot0(t) ==
  /\ gpu[t].step = "boot0"
  /\ LET switch == SwitchFor(card[dev[t]].chip)
     IN \/ gpu[t].how # "switch" /\ Step(t, "ready")
        \/ /\ gpu[t].how = "switch" /\ switch # NoChip
           /\ Becomes(t, [gpu[t] EXCEPT !.step = "ready", !.chip = switch])
  /\ UNCHANGED <<vars, card>>

\* A check fails, the wait ends after 15 s, or BOOT_0 does not read: the error
\* drops the handle.
Refuse(t) ==
  /\ \/ gpu[t].step = "check" /\ ~Identified(t)
     \/ gpu[t].step = "firewall" /\ gpu[t].chip # Hopper
     \/ gpu[t].step = "boot0"
  /\ Drop(t)
  /\ Step(t, "closing")
  /\ UNCHANGED card

Close(t) ==
  /\ gpu[t].step = "ready"
  /\ Drop(t)
  /\ Step(t, "closing")
  /\ UNCHANGED card

\* Drop for PciDev at work.
Closing(t) ==
  /\ gpu[t].step = "closing"
  /\ Run(t)
  /\ IF pc'[t] = "none" THEN Return(t) ELSE UNCHANGED gpu
  /\ UNCHANGED card

-----------------------------------------------------------------------------

\* The card is replaced, if nobody here has its BAR mapped.  What its settings
\* are then, Configure says.
Swap(d, c) ==
  /\ \A t \in Threads : dev[t] = d => pc[t] \in Unread \ {"readPolicy"}
  /\ card' = [card EXCEPT ![d] = c]
  /\ LET stays(t) == gpu[t].aim = d => c = card[d]
     IN gpu' = [t \in Threads |-> [gpu[t] EXCEPT !.steady = @ /\ stays(t),
                                                 !.same = @ /\ stays(t)]]
  /\ UNCHANGED vars

Platform ==
  /\ \E d \in Devices : Resume(d) \/ Suspend(d) \/ \E s \in Setting : Configure(d, s)
  /\ UNCHANGED <<card, gpu>>

Die ==
  /\ Crash
  /\ gpu' = [t \in Threads |-> NoCall]
  /\ UNCHANGED card

\* The steps of a call that has begun.
RunGpu(t) ==
  \/ ReadIdentity(t) \/ ReadSubsystem(t) \/ OpenVetted(t) \/ Opening(t)
  \/ CheckIdentity(t) \/ WaitForBar0(t) \/ ReadBoot0(t) \/ Refuse(t) \/ Closing(t)

GpuNext ==
  \/ \E t \in Threads :
       \/ \E spelling \in Spellings : OpenAt(t, Pci!NormalizeBdf(spelling))
       \/ RunGpu(t) \/ Close(t)
  \/ \E d \in Devices, c \in Cards : Swap(d, c)
  \/ Platform
  \/ Die

GpuSpec == GpuInit /\ [][GpuNext]_gpuVars

\* A thread that runs keeps running; nothing is assumed of the device, which
\* may never wake and never lower its firewall.
FairGpuSpec == GpuSpec /\ \A t \in Threads : WF_gpuVars(RunGpu(t))

-----------------------------------------------------------------------------

\* The protocol of an open Gpu or NvSwitch is that of the card behind its BAR,
\* and a coherent board is never taken for another, which set_cc_mode would
\* then touch.  A switch says what it is after the BAR is mapped.  A GPU is known
\* by IDs that were read before, and nobody reads them again: this is said of one
\* that was not replaced since.  One that was replaced after the catalog was
\* asked, by another before the open read its IDs, is still driven as what it is
\* if its device ID is in a range; the subsystem of any other nobody reads.
HandleFits ==
  \A t \in Threads :
    gpu[t].step = "ready" =>
      LET g    == gpu[t]
          c    == card[dev[t]]
          sure == CASE g.how = "switch"  -> TRUE
                    [] g.how = "gpu"     -> g.same
                    [] g.how = "catalog" -> g.steady
      IN /\ sure \/ (g.same /\ Range[c.device] # NoChip) => g.chip = c.chip
         /\ sure /\ c.coherent /\ g.how # "switch" => g.c2c

\* "Catalog identities must be validated before BAR access or a runtime-PM
\* wake-up" (src/src/cc/mod.rs:230): open_in_with_catalog claims only a card
\* that is an NVIDIA GPU of a supported record, unless it was replaced.
UnvettedUntouched ==
  \A t \in Threads :
    pc[t] # "none" /\ gpu[t].how = "catalog" /\ gpu[t].steady =>
      LET c == card[dev[t]]
      IN c.vendor = "nvidia" /\ c.gpu /\ \E e \in RecordsOf(c.device, c) : Supported(e)

\* An open and a drop come to an end, also if the device never wakes, never
\* lowers its firewall or is not what was asked for.
CallReturns ==
  \A t \in Threads : gpu[t].step \notin {"idle", "ready"} ~> gpu[t].step \in {"idle", "ready"}
=============================================================================
