------------------------------ MODULE VfioBind ------------------------------
(***************************************************************************)
(* One PCI function whose driver is changed through src/src/vfio.rs.       *)
(* Everything goes through the device's driver_override: `bind` sets it    *)
(* and has the kernel probe the device, `unbind` takes the driver off and  *)
(* clears it.  A step is one access to sysfs, and each may fail; the       *)
(* caller may die between two.  An error in reading which driver holds the *)
(* device is taken for there being none (current_driver).                  *)
(*                                                                         *)
(* Which driver to ask for is looked up first: `module_for` finds the      *)
(* module the kernel's alias table names for the device, `driver_for` what *)
(* that module registers once it is loaded.                                *)
(*                                                                         *)
(* The kernel is external: a probe binds an unbound device to the driver   *)
(* its override names, or to the one that matches it without an override,  *)
(* if that driver's module is loaded and it accepts the device.  "Binding  *)
(* is asynchronous" (src/src/vfio.rs:54), and others in the system cause   *)
(* probes too: one may come at any time, also in the middle of a call.     *)
(***************************************************************************)
EXTENDS Integers, Sequences

CONSTANTS
  Drivers,       \* the drivers a caller may ask for
  Native,        \* the driver that matches the device without an override
  None,
  Modules,       \* the kernel modules
  Registers,     \* the PCI drivers each of them registers
  Tables         \* what modules.alias may hold: lines [names, module], names
                 \* one of "this" device, an "other" one, and "any" (catch-all)

ASSUME VfioAssumption ==
  /\ Native \notin Drivers /\ None \notin Drivers /\ Native # None
  /\ None \notin Modules
  /\ Registers \in [Modules -> SUBSET (Drivers \cup {Native})]
  /\ \A m, n \in Modules : m # n => Registers[m] \cap Registers[n] = {}
  /\ Tables \subseteq Seq([names : {"this", "other", "any"},
                          module : {m \in Modules : Native \notin Registers[m]}])

VARIABLES
  driver,    \* the driver the device is bound to
  override,  \* its driver_override
  loaded,    \* the modules that are loaded
  aliases,   \* modules.alias; never changes
  module,    \* what module_for last returned, None for an error
  named,     \* what driver_for last returned, None for an error
  pc,        \* the step the caller is at
  want,      \* the driver it asks for
  result,    \* what its last call returned
  promise,   \* history: the driver the device was last said to be given
  excused,   \* history: a caller died, or its clean-up failed
  raced,     \* history: a probe that no call waited for bound the device to its
             \* driver in the middle of a call
  missed     \* history: a call took the device for unbound, as it could not
             \* read which driver holds it

lookup == <<aliases, module, named>>
caller == <<pc, want, result, promise, excused>>
noted == <<raced, missed>>
vars == <<driver, override, loaded, lookup, caller, noted>>

Init ==
  /\ driver = None /\ override = None
  /\ loaded \in SUBSET Modules
  /\ aliases \in Tables /\ module = None /\ named = None
  /\ pc = "idle" /\ want = None /\ result = "none"
  /\ promise = None /\ excused = FALSE /\ raced = FALSE /\ missed = FALSE

Return(r) == pc' = "idle" /\ result' = r

-----------------------------------------------------------------------------
(* The kernel.                                                             *)

Matching ==
  {IF override # None THEN override ELSE Native} \cap UNION {Registers[m] : m \in loaded}

\* The driver binds, or refuses the device.
Probed == driver' \in IF driver = None THEN Matching \cup {None} ELSE {driver}

Probe ==
  /\ Probed
  /\ raced' = IF driver' = driver THEN raced ELSE pc # "idle"
  /\ UNCHANGED <<override, loaded, lookup, caller, missed>>

\* modprobe, and rmmod of a module whose drivers hold no device.
Load(m) ==
  /\ loaded' = loaded \cup {m}
  /\ UNCHANGED <<driver, override, lookup, caller, noted>>

Unload(m) ==
  /\ driver \notin Registers[m]
  /\ loaded' = loaded \ {m}
  /\ UNCHANGED <<driver, override, lookup, caller, noted>>

-----------------------------------------------------------------------------
(* module_for and driver_for.                                              *)

\* Mutant: a line that matches the device in any way will do.
OwnLinesOrAny(table) == {i \in DOMAIN table : table[i].names # "other"}

\* The lines with the device's own vendor and device ID.
OwnLines(table) == {i \in DOMAIN table : table[i].names = "this"}

\* The last word of the first such line; no line, or no table, is an error.
ModuleFor ==
  /\ pc = "idle"
  /\ \/ \E i \in OwnLines(aliases) :
          /\ \A j \in OwnLines(aliases) : i <= j
          /\ module' = aliases[i].module
     \/ module' = None
  /\ UNCHANGED <<driver, override, loaded, aliases, named, caller, noted>>

\* The first PCI driver in the module's directory, which is in no order.
DriverFor ==
  /\ pc = "idle" /\ module # None
  /\ \/ module \in loaded /\ named' \in Registers[module]
     \/ named' = None
  /\ UNCHANGED <<driver, override, loaded, aliases, module, caller, noted>>

-----------------------------------------------------------------------------
(* bind.                                                                   *)

\* current_driver: what holds the device, or None if that cannot be read.
CurrentDriver == {driver, None}

Bind(d) ==
  /\ pc = "idle"
  /\ want' = d /\ pc' = "bind" /\ result' = "none"
  /\ UNCHANGED <<driver, override, loaded, lookup, promise, excused, noted>>

\* A device that is seen to have a driver already is left to it.
CheckDriver ==
  /\ pc = "bind"
  /\ \E seen \in CurrentDriver :
       /\ \/ seen = want /\ Return("already")
          \/ seen = None /\ pc' = "override" /\ UNCHANGED result
          \/ seen \notin {want, None} /\ Return("busy")
       /\ missed' = (missed \/ seen # driver)
  /\ UNCHANGED <<driver, override, loaded, lookup, want, promise, excused, raced>>

SetOverride ==
  /\ pc = "override"
  /\ override' = want
  /\ pc' = "probe"
  /\ UNCHANGED <<driver, loaded, lookup, want, result, promise, excused, noted>>

SetOverrideFails ==
  /\ pc = "override"
  /\ Return("failed")
  /\ UNCHANGED <<driver, override, loaded, lookup, want, promise, excused, noted>>

\* The probe that is asked for runs now, or some time later (Probe).
TriggerProbe ==
  /\ pc = "probe"
  /\ Probed
  /\ Return("now")
  /\ promise' = want
  /\ UNCHANGED <<override, loaded, lookup, want, excused, noted>>

\* Mutant: the error is returned with the override in place.
TriggerProbeFailsAsIs ==
  /\ pc = "probe"
  /\ Return("failed")
  /\ UNCHANGED <<driver, override, loaded, lookup, want, promise, excused, noted>>

TriggerProbeFails ==
  /\ pc = "probe"
  /\ pc' = "forget"
  /\ UNCHANGED <<driver, override, loaded, lookup, want, result, promise, excused, noted>>

\* The error of a failed clean-up is ignored.
Forget ==
  /\ pc = "forget"
  /\ \/ override' = None /\ UNCHANGED excused
     \/ excused' = TRUE /\ UNCHANGED override
  /\ Return("failed")
  /\ promise' = None
  /\ UNCHANGED <<driver, loaded, lookup, want, noted>>

-----------------------------------------------------------------------------
(* unbind and verify_bound.                                                *)

Unbind ==
  /\ pc = "idle"
  /\ want' = None /\ result' = "none"
  /\ \E seen \in CurrentDriver :
       /\ pc' = IF seen # None THEN "takeOff" ELSE "clear"
       /\ missed' = (missed \/ seen # driver)
  /\ UNCHANGED <<driver, override, loaded, lookup, promise, excused, raced>>

TakeOff ==
  /\ pc = "takeOff"
  /\ driver' = None /\ raced' = FALSE /\ missed' = FALSE
  /\ pc' = "clear"
  /\ UNCHANGED <<override, loaded, lookup, want, result, promise, excused>>

\* The override stays with a driver that could not be taken off.
TakeOffFails ==
  /\ pc = "takeOff"
  /\ Return("failed")
  /\ UNCHANGED <<driver, override, loaded, lookup, want, promise, excused, noted>>

\* Mutant: only the driver is taken off.
ClearNot ==
  /\ pc = "clear"
  /\ Return("unbound")
  /\ promise' = None /\ excused' = FALSE
  /\ UNCHANGED <<driver, override, loaded, lookup, want, noted>>

Clear ==
  /\ pc = "clear"
  /\ override' = None
  /\ Return("unbound")
  /\ promise' = None /\ excused' = FALSE
  /\ UNCHANGED <<driver, loaded, lookup, want, noted>>

ClearFails ==
  /\ pc = "clear"
  /\ Return("failed")
  /\ UNCHANGED <<driver, override, loaded, lookup, want, promise, excused, noted>>

Verify(d) ==
  /\ pc = "idle"
  /\ want' = d
  /\ \E seen \in CurrentDriver : result' = IF seen = d THEN "verified" ELSE "failed"
  /\ UNCHANGED <<driver, override, loaded, lookup, pc, promise, excused, noted>>

Crash ==
  /\ pc # "idle"
  /\ Return("died")
  /\ excused' = TRUE
  /\ UNCHANGED <<driver, override, loaded, lookup, want, promise, noted>>

Next ==
  \/ \E d \in Drivers : Bind(d) \/ Verify(d)
  \/ CheckDriver \/ SetOverride \/ SetOverrideFails
  \/ TriggerProbe \/ TriggerProbeFails \/ Forget
  \/ Unbind \/ TakeOff \/ TakeOffFails \/ Clear \/ ClearFails
  \/ ModuleFor \/ DriverFor
  \/ Probe \/ \E m \in Modules : Load(m) \/ Unload(m)
  \/ Crash

Spec == Init /\ [][Next]_vars

-----------------------------------------------------------------------------

\* Every variable keeps its type.
TypeOK ==
  /\ driver \in Drivers \cup {Native, None}
  /\ override \in Drivers \cup {None}
  /\ loaded \subseteq Modules
  /\ aliases \in Tables /\ module \in Modules \cup {None}
  /\ named \in Drivers \cup {Native, None}
  /\ pc \in {"idle", "bind", "override", "probe", "forget", "takeOff", "clear"}
  /\ {want, promise} \subseteq Drivers \cup {None}
  /\ result \in {"none", "already", "busy", "now", "failed", "unbound", "verified", "died"}
  /\ {excused, raced, missed} \subseteq BOOLEAN

\* "An override left behind outlives the failure" (src/src/vfio.rs:79): an
\* override in place between two calls is that of the last bind that said the
\* device would get it, unless a caller died half-way or the clean-up itself
\* failed, and so whenever probes run and whatever could not be read.  The driver
\* that holds the device is then that one too, or the host's.  This is not said
\* of a device that a probe bound in the middle of a call (that call may then
\* fail, and has nothing that takes the driver off again), nor of one that a call
\* took for unbound as it could not read which driver holds it.
NothingUnasked ==
  pc = "idle" /\ ~excused =>
    /\ override \in {None, promise}
    /\ raced \/ missed \/ driver \in {None, Native, promise}

\* "Binding a PCI function to a vfio driver, and taking it back"
\* (src/src/vfio.rs:6): after an unbind that could read which driver holds the
\* device returned Ok, the device has none that it was once given.
TakenBack == result = "unbound" /\ ~missed => driver \in {None, Native}

\* TakenBack, if no probe bound the device in the middle of that unbind: whatever
\* earlier callers left behind, and whatever probes bound while they ran, no
\* later probe binds it to a driver it was once given until it is given one again.
TakenBackUndisturbed ==
  result = "unbound" /\ ~missed /\ ~raced => driver \in {None, Native}

\* "Generic VFIO's catch-all cannot establish compatibility"
\* (src/src/vfio.rs:126): a device that has the driver which the lookups named,
\* as bind or verify_bound then say, is bound to a driver of a loaded module
\* that the kernel lists for this device, whatever is loaded and unloaded
\* between the lookups and the bind.
MadeForIt ==
  result \in {"already", "verified"} /\ want = named =>
    \E m \in loaded :
      /\ driver = named /\ driver \in Registers[m]
      /\ \E i \in DOMAIN aliases : aliases[i] = [names |-> "this", module |-> m]
=============================================================================
