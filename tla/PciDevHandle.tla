---------------------------- MODULE PciDevHandle ----------------------------
(***************************************************************************)
(* The handles of src/src/pci_dev.rs.  The threads of a process open PCI   *)
(* functions to reach their registers: opening one wakes it and turns its  *)
(* memory decoding on, dropping the handle puts both back.  The runtime-PM *)
(* policy and the decoding bit belong to the device, so OPEN, a set of the *)
(* whole process, lets one handle at a time have a device.                 *)
(*                                                                         *)
(* A step is one access to sysfs, and each may fail.  The process may die, *)
(* and another be started.                                                 *)
(***************************************************************************)

CONSTANTS Threads, Devices, NoDevice

ASSUME DeviceAssumption == NoDevice \notin Devices

VARIABLES
  OPEN,      \* the devices this process holds open
  pc,        \* where each thread is in an open or a drop
  dev,       \* the device it is opening or has open
  saved,     \* power_control: the policy it found there, "none" for no policy
  switched,  \* decoding_enabled: it turned memory decoding on
  policy,    \* power/control of each device, "none" if it has no such attribute
  active,    \* the device is in D0
  decoding,  \* the memory bit of the device's COMMAND register
  rest       \* history: what it is to be put back to

thread == <<pc, dev, saved, switched>>
vars == <<OPEN, thread, policy, active, decoding, rest>>

Setting == [policy : {"auto", "on", "none"}, decoding : BOOLEAN]
Now(d) == [policy |-> policy[d], decoding |-> decoding[d]]

Init ==
  /\ OPEN = {}
  /\ pc = [t \in Threads |-> "none"]
  /\ dev = [t \in Threads |-> NoDevice]
  /\ saved = [t \in Threads |-> "none"]
  /\ switched = [t \in Threads |-> FALSE]
  /\ rest \in [Devices -> Setting]
  /\ policy = [d \in Devices |-> rest[d].policy]
  /\ decoding = [d \in Devices |-> rest[d].decoding]
  /\ active \in {a \in [Devices -> BOOLEAN] : \A d \in Devices : policy[d] # "auto" => a[d]}

GoTo(t, p) == pc' = [pc EXCEPT ![t] = p]

\* The thread has no handle any more, nor what was kept in it.
Forget(t) ==
  /\ GoTo(t, "none")
  /\ dev' = [dev EXCEPT ![t] = NoDevice]
  /\ saved' = [saved EXCEPT ![t] = "none"]
  /\ switched' = [switched EXCEPT ![t] = FALSE]

-----------------------------------------------------------------------------
(* open_in and claimed.                                                    *)

\* A device that is open already is refused (ResourceBusy).
Claim(t, d) ==
  /\ pc[t] = "none"
  /\ d \notin OPEN
  /\ OPEN' = OPEN \cup {d}
  /\ dev' = [dev EXCEPT ![t] = d]
  /\ GoTo(t, "readVendor")
  /\ UNCHANGED <<saved, switched, policy, active, decoding, rest>>

\* vendor, device and the mapping of resource0: each may fail.
ReadVendor(t) ==
  /\ pc[t] = "readVendor"
  /\ GoTo(t, "readDevice") \/ GoTo(t, "unclaim")
  /\ UNCHANGED <<OPEN, dev, saved, switched, policy, active, decoding, rest>>

ReadDevice(t) ==
  /\ pc[t] = "readDevice"
  /\ GoTo(t, "map") \/ GoTo(t, "unclaim")
  /\ UNCHANGED <<OPEN, dev, saved, switched, policy, active, decoding, rest>>

\* Mutant: the error returns without giving the claim back.
MapForgetsClaim(t) ==
  /\ pc[t] = "map"
  /\ GoTo(t, "readPolicy") \/ GoTo(t, "none")
  /\ UNCHANGED <<OPEN, dev, saved, switched, policy, active, decoding, rest>>

Map(t) ==
  /\ pc[t] = "map"
  /\ GoTo(t, "readPolicy") \/ GoTo(t, "unclaim")
  /\ UNCHANGED <<OPEN, dev, saved, switched, policy, active, decoding, rest>>

\* A policy that cannot be read is taken for none at all.
ReadPolicy(t) ==
  /\ pc[t] = "readPolicy"
  /\ \E read \in {policy[dev[t]], "none"} :
       /\ saved' = [saved EXCEPT ![t] = read]
       /\ GoTo(t, IF read = "none" THEN "readCommand" ELSE "writeOn")
  /\ UNCHANGED <<OPEN, dev, switched, policy, active, decoding, rest>>

WriteOn(t) ==
  /\ pc[t] = "writeOn"
  /\ policy' = [policy EXCEPT ![dev[t]] = "on"]
  /\ GoTo(t, "pollActive")
  /\ UNCHANGED <<OPEN, dev, saved, switched, active, decoding, rest>>

WriteOnFails(t) ==
  /\ pc[t] = "writeOn"
  /\ GoTo(t, "unclaim")
  /\ UNCHANGED <<OPEN, dev, saved, switched, policy, active, decoding, rest>>

Awake(t) ==
  /\ pc[t] = "pollActive"
  /\ active[dev[t]]
  /\ GoTo(t, "readCommand")
  /\ UNCHANGED <<OPEN, dev, saved, switched, policy, active, decoding, rest>>

\* Mutant: no deadline.
WakeForever(t) == FALSE /\ t \in Threads /\ UNCHANGED vars

\* The policy is put back, and the claim given up.
WakeTimeout(t) ==
  /\ pc[t] = "pollActive"
  /\ ~active[dev[t]]
  /\ GoTo(t, "undoPower")
  /\ UNCHANGED <<OPEN, dev, saved, switched, policy, active, decoding, rest>>

ReadCommand(t) ==
  /\ pc[t] = "readCommand"
  /\ \/ GoTo(t, IF decoding[dev[t]] THEN "open" ELSE "writeCommand")
     \/ GoTo(t, "undoPower")
  /\ UNCHANGED <<OPEN, dev, saved, switched, policy, active, decoding, rest>>

WriteCommand(t) ==
  /\ pc[t] = "writeCommand"
  /\ decoding' = [decoding EXCEPT ![dev[t]] = TRUE]
  /\ switched' = [switched EXCEPT ![t] = TRUE]
  /\ GoTo(t, "open")
  /\ UNCHANGED <<OPEN, dev, saved, policy, active, rest>>

\* Mutant: the error path leaves the device powered.
WriteCommandFailsPowered(t) ==
  /\ pc[t] = "writeCommand"
  /\ GoTo(t, "unclaim")
  /\ UNCHANGED <<OPEN, dev, saved, switched, policy, active, decoding, rest>>

WriteCommandFails(t) ==
  /\ pc[t] = "writeCommand"
  /\ GoTo(t, "undoPower")
  /\ UNCHANGED <<OPEN, dev, saved, switched, policy, active, decoding, rest>>

-----------------------------------------------------------------------------
(* Drop, and the restore_power it shares with a failed open.               *)

\* Mutant: the claim is given up first.
DropUnclaimFirst(t) ==
  /\ pc[t] = "open"
  /\ OPEN' = OPEN \ {dev[t]}
  /\ GoTo(t, IF switched[t] THEN "dropDecoding" ELSE "undoPower")
  /\ UNCHANGED <<dev, saved, switched, policy, active, decoding, rest>>

Drop(t) ==
  /\ pc[t] = "open"
  /\ GoTo(t, IF switched[t] THEN "dropDecoding" ELSE "undoPower")
  /\ UNCHANGED <<OPEN, dev, saved, switched, policy, active, decoding, rest>>

\* A write that fails is ignored: the device stays as it is.
DropDecoding(t) ==
  /\ pc[t] = "dropDecoding"
  /\ \/ decoding' = [decoding EXCEPT ![dev[t]] = FALSE] /\ UNCHANGED rest
     \/ rest' = [rest EXCEPT ![dev[t]].decoding = TRUE] /\ UNCHANGED decoding
  /\ GoTo(t, "undoPower")
  /\ UNCHANGED <<OPEN, dev, saved, switched, policy, active>>

UndoPower(t) ==
  /\ pc[t] = "undoPower"
  /\ IF saved[t] = "none"
     THEN UNCHANGED <<policy, rest>>
     ELSE \/ policy' = [policy EXCEPT ![dev[t]] = saved[t]] /\ UNCHANGED rest
          \/ rest' = [rest EXCEPT ![dev[t]].policy = "on"] /\ UNCHANGED policy
  /\ GoTo(t, "unclaim")
  /\ UNCHANGED <<OPEN, dev, saved, switched, active, decoding>>

\* Mutant: the claim is kept.
UnclaimNot(t) ==
  /\ pc[t] = "unclaim"
  /\ Forget(t)
  /\ UNCHANGED <<OPEN, policy, active, decoding, rest>>

Unclaim(t) ==
  /\ pc[t] = "unclaim"
  /\ OPEN' = OPEN \ {dev[t]}
  /\ Forget(t)
  /\ UNCHANGED <<policy, active, decoding, rest>>

-----------------------------------------------------------------------------
(* The kernel, the administrator and the death of the process.             *)

Resume(d) ==
  /\ ~active[d]
  /\ active' = [active EXCEPT ![d] = TRUE]
  /\ UNCHANGED <<OPEN, thread, policy, decoding, rest>>

Suspend(d) ==
  /\ policy[d] = "auto"
  /\ active[d]
  /\ active' = [active EXCEPT ![d] = FALSE]
  /\ UNCHANGED <<OPEN, thread, policy, decoding, rest>>

\* The steps of an open before it reads a setting of the device.
Unread == {"readVendor", "readDevice", "map", "readPolicy"}

\* Until somebody here reads what the device is to be put back to, its settings
\* are somebody else's.
Configure(d, s) ==
  /\ \A t \in Threads : dev[t] = d => pc[t] \in Unread
  /\ policy[d] = "none" <=> s.policy = "none"
  /\ policy' = [policy EXCEPT ![d] = s.policy]
  /\ decoding' = [decoding EXCEPT ![d] = s.decoding]
  /\ rest' = [rest EXCEPT ![d] = s]
  /\ UNCHANGED <<OPEN, thread, active>>

\* What the process left behind is what the next one finds.
Crash ==
  /\ OPEN' = {}
  /\ pc' = [t \in Threads |-> "none"]
  /\ dev' = [t \in Threads |-> NoDevice]
  /\ saved' = [t \in Threads |-> "none"]
  /\ switched' = [t \in Threads |-> FALSE]
  /\ rest' = [d \in Devices |-> Now(d)]
  /\ UNCHANGED <<policy, active, decoding>>

\* The steps of a call that has begun: an open, or a drop.
Run(t) ==
  \/ ReadVendor(t) \/ ReadDevice(t) \/ Map(t) \/ ReadPolicy(t)
  \/ WriteOn(t) \/ WriteOnFails(t) \/ Awake(t) \/ WakeTimeout(t)
  \/ ReadCommand(t) \/ WriteCommand(t) \/ WriteCommandFails(t)
  \/ DropDecoding(t) \/ UndoPower(t) \/ Unclaim(t)

Next ==
  \/ \E t \in Threads : (\E d \in Devices : Claim(t, d)) \/ Run(t) \/ Drop(t)
  \/ \E d \in Devices : Resume(d) \/ Suspend(d) \/ \E s \in Setting : Configure(d, s)
  \/ Crash

Spec == Init /\ [][Next]_vars

-----------------------------------------------------------------------------

\* Every variable keeps its type, a thread has a device exactly as long as it is
\* in a call or has a handle, and nothing is kept of a handle that is gone.
TypeOK ==
  /\ OPEN \subseteq Devices
  /\ pc \in [Threads -> {"none", "readVendor", "readDevice", "map", "readPolicy",
                         "writeOn", "pollActive", "readCommand", "writeCommand",
                         "open", "dropDecoding", "undoPower", "unclaim"}]
  /\ dev \in [Threads -> Devices \cup {NoDevice}]
  /\ \A t \in Threads : dev[t] = NoDevice <=> pc[t] = "none"
  /\ saved \in [Threads -> {"auto", "on", "none"}]
  /\ switched \in [Threads -> BOOLEAN]
  /\ \A t \in Threads : pc[t] = "none" => saved[t] = "none" /\ ~switched[t]
  /\ policy \in [Devices -> {"auto", "on", "none"}]
  /\ active \in [Devices -> BOOLEAN]
  /\ decoding \in [Devices -> BOOLEAN]
  /\ rest \in [Devices -> Setting]

\* A device is claimed exactly as long as one thread opens, has or drops it:
\* no claim leaks through an error path, and no two handles share a device.
OneHolder ==
  \A d \in Devices :
    /\ d \in OPEN <=> \E t \in Threads : pc[t] # "none" /\ dev[t] = d
    /\ \A t, u \in Threads : pc[t] # "none" /\ pc[u] # "none" /\ dev[t] = d /\ dev[u] = d
                             => t = u

\* The open read the device's policy, or the device has none.
PolicyKnown(t) == saved[t] # "none" \/ policy[dev[t]] = "none"

\* A device somebody has open answers: it decodes memory cycles, is in D0 and may
\* not be suspended, whatever other threads open and drop meanwhile.  The last
\* two do not hold of one whose policy could not be read: wake() takes any error
\* for a device without runtime PM, and opens it asleep or not.
Usable ==
  \A t \in Threads :
    pc[t] = "open" => /\ decoding[dev[t]]
                      /\ PolicyKnown(t) => active[dev[t]] /\ policy[dev[t]] # "auto"

\* A device nobody has open is as it was found, after any number of opens,
\* failed opens and drops, apart from a restore that itself failed.
Restored == \A d \in Devices \ OPEN : Now(d) = rest[d]
=============================================================================
