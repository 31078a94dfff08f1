--------------------------- MODULE GpuOpenProofs ----------------------------
(***************************************************************************)
(* Proofs about the opening of a device, for any number of threads and     *)
(* addresses, any cards, chip table and catalog.  First PciDevHandle, whose*)
(* inductive invariant says, for each step of an open or a drop, how the   *)
(* device differs from what it is to be put back to.  Then GpuOpen: its    *)
(* opens and drops are those of PciDevHandle, whose theorems then hold of  *)
(* it, and a handle that is kept is driven by the protocol of the card     *)
(* behind it.                                                              *)
(***************************************************************************)
EXTENDS GpuOpen, TLAPS

(* PciDevHandle.                                                           *)

\* Decoding is as it is to be put back.
DecodingAsFound(t) == decoding[dev[t]] = rest[dev[t]].decoding

\* The policy is as it is to be put back.
PolicyAsFound(t) == policy[dev[t]] = rest[dev[t]].policy

\* The device is kept awake, and what it is to be put back to is remembered; or
\* its policy was not touched.
KeptAwake(t) ==
  \/ saved[t] = "none" /\ policy[dev[t]] = rest[dev[t]].policy
  \/ saved[t] # "none" /\ policy[dev[t]] = "on" /\ rest[dev[t]].policy = saved[t]

Phase(t) ==
  /\ pc[t] \in Unread \cup {"writeOn", "unclaim"} =>
       DecodingAsFound(t) /\ PolicyAsFound(t)
  /\ pc[t] \in Unread \cup {"writeOn", "pollActive", "readCommand", "writeCommand"} =>
       ~switched[t] /\ DecodingAsFound(t)
  /\ pc[t] \in {"writeOn", "pollActive"} => saved[t] # "none"
  /\ pc[t] = "writeOn" => saved[t] = policy[dev[t]]
  /\ pc[t] \in {"pollActive", "readCommand", "writeCommand", "open", "dropDecoding",
                "undoPower"} => KeptAwake(t)
  /\ pc[t] \in {"readCommand", "writeCommand", "open"} /\ PolicyKnown(t) => active[dev[t]]
  /\ pc[t] = "writeCommand" => ~decoding[dev[t]]
  /\ pc[t] \in {"open", "dropDecoding"} =>
       decoding[dev[t]] /\ (switched[t] <=> ~rest[dev[t]].decoding)
  /\ pc[t] = "dropDecoding" => switched[t]
  /\ pc[t] = "undoPower" => DecodingAsFound(t)

Phases == \A t \in Threads : pc[t] # "none" => Phase(t)

\* A device without runtime PM does not sleep.
NeverAsleep == \A d \in Devices : policy[d] = "none" => active[d]

\* Restored, field by field.
AsFound ==
  \A d \in Devices \ OPEN : policy[d] = rest[d].policy /\ decoding[d] = rest[d].decoding

Inv == TypeOK /\ OneHolder /\ Phases /\ NeverAsleep /\ AsFound

-----------------------------------------------------------------------------

\* What the invariant says in the words of the properties.
LEMMA InvImplies == Inv => TypeOK /\ OneHolder /\ Usable /\ Restored
<1> SUFFICES ASSUME Inv PROVE Usable /\ Restored
  BY DEF Inv
<1>1. Usable
  BY DEF Inv, Phases, Phase, KeptAwake, PolicyKnown, Usable
<1>2. Restored
  <2> SUFFICES ASSUME NEW d \in Devices \ OPEN PROVE Now(d) = rest[d]
    BY DEF Restored
  <2>1. policy[d] = rest[d].policy /\ decoding[d] = rest[d].decoding
    BY DEF Inv, AsFound
  <2>2. rest[d] \in Setting
    BY DEF Inv, TypeOK
  <2> QED
    BY <2>1, <2>2 DEF Now, Setting
<1> QED
  BY <1>1, <1>2

\* A process starts without handles.
LEMMA InvInit == Init => Inv
<1> SUFFICES ASSUME Init PROVE Inv
  OBVIOUS
<1>1. TypeOK
  BY DeviceAssumption DEF Init, TypeOK, Setting
<1>2. OneHolder /\ Phases
  BY DEF Init, OneHolder, Phases
<1>3. NeverAsleep
  BY DEF Init, NeverAsleep
<1>4. AsFound
  BY DEF Init, AsFound
<1> QED
  BY <1>1, <1>2, <1>3, <1>4 DEF Inv

-----------------------------------------------------------------------------

\* A step of one thread that leaves every other thread and every device but
\* its own alone.
Alone(t) ==
  \A u \in Threads \ {t} :
    /\ pc'[u] = pc[u] /\ dev'[u] = dev[u] /\ saved'[u] = saved[u] /\ switched'[u] = switched[u]
    /\ pc[u] # "none" =>
         /\ policy'[dev[u]] = policy[dev[u]] /\ active'[dev[u]] = active[dev[u]]
         /\ decoding'[dev[u]] = decoding[dev[u]] /\ rest'[dev[u]] = rest[dev[u]]

\* Then the other threads are where they were.
LEMMA OthersKeepPhase ==
  ASSUME Inv, NEW t \in Threads, Alone(t), pc'[t] # "none" => Phase(t)'
  PROVE  Phases'
<1> SUFFICES ASSUME NEW u \in Threads, pc'[u] # "none" PROVE Phase(u)'
  BY DEF Phases
<1>1. CASE u = t
  BY <1>1
<1>2. CASE u # t
  <2>1. Phase(u) /\ pc[u] # "none"
    BY <1>2 DEF Inv, Phases, Alone
  <2> QED
    BY <1>2, <2>1 DEF Alone, Phase, KeptAwake, PolicyKnown, Unread, DecodingAsFound, PolicyAsFound
<1> QED
  BY <1>1, <1>2

\* The step of a thread that has a device, keeps it, and does not change who
\* has which: what is left to show is what the step does to its own phase.
StaysHolder(t) ==
  /\ pc[t] # "none"
  /\ \E p : p # "none" /\ pc' = [pc EXCEPT ![t] = p]
  /\ UNCHANGED <<OPEN, dev>>
  /\ \A d \in Devices \ {dev[t]} :
       /\ policy'[d] = policy[d] /\ active'[d] = active[d]
       /\ decoding'[d] = decoding[d] /\ rest'[d] = rest[d]
  /\ \A u \in Threads \ {t} : saved'[u] = saved[u] /\ switched'[u] = switched[u]

\* Such a step preserves the invariant.
LEMMA HolderStep ==
  ASSUME Inv, NEW t \in Threads, StaysHolder(t), TypeOK', Phase(t)', NeverAsleep'
  PROVE  Inv'
<1>1. dev[t] \in OPEN /\ dev[t] \in Devices
  BY DEF Inv, TypeOK, OneHolder, StaysHolder
<1>2. OneHolder'
  BY DEF Inv, TypeOK, OneHolder, StaysHolder
<1>3. Phases'
  <2>1. \A u \in Threads \ {t} : pc[u] # "none" => dev[u] # dev[t] /\ dev[u] \in Devices
    BY <1>1 DEF Inv, TypeOK, OneHolder, StaysHolder
  <2>2. Alone(t)
    BY <2>1 DEF Inv, TypeOK, Alone, StaysHolder
  <2> QED
    BY <2>2, OthersKeepPhase
<1>4. AsFound'
  BY <1>1 DEF Inv, AsFound, StaysHolder
<1> QED
  BY <1>2, <1>3, <1>4 DEF Inv

\* An open, a failed open and a drop, step by step.
LEMMA HolderSteps ==
  ASSUME Inv, NEW t \in Threads, Run(t) \/ Drop(t), ~Unclaim(t)
  PROVE  Inv'
<1>0. TypeOK /\ Phases /\ NeverAsleep
  BY DEF Inv
<1>h. ASSUME pc[t] # "none" PROVE dev[t] \in Devices /\ rest[dev[t]] \in Setting /\ Phase(t)
  BY <1>0, <1>h DEF TypeOK, Phases
<1>1. CASE ReadVendor(t) \/ ReadDevice(t) \/ Map(t)
  <2>1. StaysHolder(t)
    BY <1>1, <1>0 DEF ReadVendor, ReadDevice, Map, GoTo, StaysHolder, TypeOK
  <2>2. TypeOK'
    BY <1>1, <1>0, <1>h DEF ReadVendor, ReadDevice, Map, GoTo, TypeOK, Setting
  <2>3. Phase(t)'
    BY <1>1, <1>0, <1>h
       DEF ReadVendor, ReadDevice, Map, GoTo, TypeOK, Phase, KeptAwake, PolicyKnown, Unread, DecodingAsFound, PolicyAsFound, Setting, NeverAsleep
  <2>4. NeverAsleep'
    BY <1>1, <1>0, <1>h DEF ReadVendor, ReadDevice, Map, GoTo, TypeOK, NeverAsleep, Phase, KeptAwake
  <2> QED
    BY <2>1, <2>2, <2>3, <2>4, HolderStep
<1>2. CASE ReadPolicy(t)
  <2>1. StaysHolder(t)
    BY <1>2, <1>0 DEF ReadPolicy, GoTo, StaysHolder, TypeOK
  <2>2. TypeOK'
    BY <1>2, <1>0, <1>h DEF ReadPolicy, GoTo, TypeOK, Setting
  <2>3. Phase(t)'
    BY <1>2, <1>0, <1>h
       DEF ReadPolicy, GoTo, TypeOK, Phase, KeptAwake, PolicyKnown, Unread, DecodingAsFound, PolicyAsFound,
           Setting, NeverAsleep
  <2>4. NeverAsleep'
    BY <1>2, <1>0, <1>h DEF ReadPolicy, GoTo, TypeOK, NeverAsleep, Phase, KeptAwake
  <2> QED
    BY <2>1, <2>2, <2>3, <2>4, HolderStep
<1>3. CASE WriteOn(t)
  <2>1. StaysHolder(t)
    BY <1>3, <1>0 DEF WriteOn, GoTo, StaysHolder, TypeOK
  <2>2. TypeOK'
    BY <1>3, <1>0, <1>h DEF WriteOn, GoTo, TypeOK, Setting
  <2>3. Phase(t)'
    BY <1>3, <1>0, <1>h
       DEF WriteOn, GoTo, TypeOK, Phase, KeptAwake, PolicyKnown, Unread, DecodingAsFound, PolicyAsFound, Setting,
           NeverAsleep
  <2>4. NeverAsleep'
    BY <1>3, <1>0, <1>h DEF WriteOn, GoTo, TypeOK, NeverAsleep, Phase, KeptAwake
  <2> QED
    BY <2>1, <2>2, <2>3, <2>4, HolderStep
<1>4. CASE WriteOnFails(t)
  <2>1. StaysHolder(t)
    BY <1>4, <1>0 DEF WriteOnFails, GoTo, StaysHolder, TypeOK
  <2>2. TypeOK'
    BY <1>4, <1>0, <1>h DEF WriteOnFails, GoTo, TypeOK, Setting
  <2>3. Phase(t)'
    BY <1>4, <1>0, <1>h
       DEF WriteOnFails, GoTo, TypeOK, Phase, KeptAwake, PolicyKnown, Unread, DecodingAsFound, PolicyAsFound,
           Setting, NeverAsleep
  <2>4. NeverAsleep'
    BY <1>4, <1>0, <1>h DEF WriteOnFails, GoTo, TypeOK, NeverAsleep, Phase, KeptAwake
  <2> QED
    BY <2>1, <2>2, <2>3, <2>4, HolderStep
<1>5. CASE Awake(t)
  <2>1. StaysHolder(t)
    BY <1>5, <1>0 DEF Awake, GoTo, StaysHolder, TypeOK
  <2>2. TypeOK'
    BY <1>5, <1>0, <1>h DEF Awake, GoTo, TypeOK, Setting
  <2>3. Phase(t)'
    BY <1>5, <1>0, <1>h
       DEF Awake, GoTo, TypeOK, Phase, KeptAwake, PolicyKnown, Unread, DecodingAsFound, PolicyAsFound, Setting,
           NeverAsleep
  <2>4. NeverAsleep'
    BY <1>5, <1>0, <1>h DEF Awake, GoTo, TypeOK, NeverAsleep, Phase, KeptAwake
  <2> QED
    BY <2>1, <2>2, <2>3, <2>4, HolderStep
<1>6. CASE WakeTimeout(t)
  <2>1. StaysHolder(t)
    BY <1>6, <1>0 DEF WakeTimeout, GoTo, StaysHolder, TypeOK
  <2>2. TypeOK'
    BY <1>6, <1>0, <1>h DEF WakeTimeout, GoTo, TypeOK, Setting
  <2>3. Phase(t)'
    BY <1>6, <1>0, <1>h
       DEF WakeTimeout, GoTo, TypeOK, Phase, KeptAwake, PolicyKnown, Unread, DecodingAsFound, PolicyAsFound,
           Setting, NeverAsleep
  <2>4. NeverAsleep'
    BY <1>6, <1>0, <1>h DEF WakeTimeout, GoTo, TypeOK, NeverAsleep, Phase, KeptAwake
  <2> QED
    BY <2>1, <2>2, <2>3, <2>4, HolderStep
<1>7. CASE ReadCommand(t)
  <2>1. StaysHolder(t)
    BY <1>7, <1>0 DEF ReadCommand, GoTo, StaysHolder, TypeOK
  <2>2. TypeOK'
    BY <1>7, <1>0, <1>h DEF ReadCommand, GoTo, TypeOK, Setting
  <2>3. Phase(t)'
    BY <1>7, <1>0, <1>h
       DEF ReadCommand, GoTo, TypeOK, Phase, KeptAwake, PolicyKnown, Unread, DecodingAsFound, PolicyAsFound,
           Setting, NeverAsleep
  <2>4. NeverAsleep'
    BY <1>7, <1>0, <1>h DEF ReadCommand, GoTo, TypeOK, NeverAsleep, Phase, KeptAwake
  <2> QED
    BY <2>1, <2>2, <2>3, <2>4, HolderStep
<1>8. CASE WriteCommand(t)
  <2>1. StaysHolder(t)
    BY <1>8, <1>0 DEF WriteCommand, GoTo, StaysHolder, TypeOK
  <2>2. TypeOK'
    BY <1>8, <1>0, <1>h DEF WriteCommand, GoTo, TypeOK, Setting
  <2>3. Phase(t)'
    BY <1>8, <1>0, <1>h
       DEF WriteCommand, GoTo, TypeOK, Phase, KeptAwake, PolicyKnown, Unread, DecodingAsFound, PolicyAsFound,
           Setting, NeverAsleep
  <2>4. NeverAsleep'
    BY <1>8, <1>0, <1>h DEF WriteCommand, GoTo, TypeOK, NeverAsleep, Phase, KeptAwake
  <2> QED
    BY <2>1, <2>2, <2>3, <2>4, HolderStep
<1>9. CASE WriteCommandFails(t)
  <2>1. StaysHolder(t)
    BY <1>9, <1>0 DEF WriteCommandFails, GoTo, StaysHolder, TypeOK
  <2>2. TypeOK'
    BY <1>9, <1>0, <1>h DEF WriteCommandFails, GoTo, TypeOK, Setting
  <2>3. Phase(t)'
    BY <1>9, <1>0, <1>h
       DEF WriteCommandFails, GoTo, TypeOK, Phase, KeptAwake, PolicyKnown, Unread, DecodingAsFound, PolicyAsFound,
           Setting, NeverAsleep
  <2>4. NeverAsleep'
    BY <1>9, <1>0, <1>h DEF WriteCommandFails, GoTo, TypeOK, NeverAsleep, Phase, KeptAwake
  <2> QED
    BY <2>1, <2>2, <2>3, <2>4, HolderStep
<1>10. CASE Drop(t)
  <2>1. StaysHolder(t)
    BY <1>10, <1>0 DEF Drop, GoTo, StaysHolder, TypeOK
  <2>2. TypeOK'
    BY <1>10, <1>0, <1>h DEF Drop, GoTo, TypeOK, Setting
  <2>3. Phase(t)'
    BY <1>10, <1>0, <1>h
       DEF Drop, GoTo, TypeOK, Phase, KeptAwake, PolicyKnown, Unread, DecodingAsFound, PolicyAsFound, Setting,
           NeverAsleep
  <2>4. NeverAsleep'
    BY <1>10, <1>0, <1>h DEF Drop, GoTo, TypeOK, NeverAsleep, Phase, KeptAwake
  <2> QED
    BY <2>1, <2>2, <2>3, <2>4, HolderStep
<1>11. CASE DropDecoding(t)
  <2>0. /\ pc[t] = "dropDecoding" /\ dev[t] \in Devices
        /\ rest[dev[t]] \in Setting /\ Phase(t)
    BY <1>11, <1>h DEF DropDecoding
  <2>1. [rest[dev[t]] EXCEPT !.decoding = TRUE] \in Setting
    BY <2>0 DEF Setting
  <2>2. /\ rest'[dev[t]].policy = rest[dev[t]].policy
        /\ decoding'[dev[t]] = rest'[dev[t]].decoding
    <3>1. CASE decoding' = [decoding EXCEPT ![dev[t]] = FALSE] /\ UNCHANGED rest
      BY <3>1, <1>0, <2>0 DEF TypeOK, Phase, Setting
    <3>2. CASE rest' = [rest EXCEPT ![dev[t]].decoding = TRUE] /\ UNCHANGED decoding
      <4>1. rest'[dev[t]] = [rest[dev[t]] EXCEPT !.decoding = TRUE]
        BY <3>2, <1>0, <2>0 DEF TypeOK
      <4>2. rest'[dev[t]].decoding = TRUE /\ rest'[dev[t]].policy = rest[dev[t]].policy
        BY <4>1, <2>0 DEF Setting
      <4> QED
        BY <3>2, <4>2, <1>0, <2>0 DEF TypeOK, Phase
    <3> QED
      BY <3>1, <3>2, <1>11 DEF DropDecoding
  <2>3. StaysHolder(t)
    BY <1>11, <1>0, <2>0 DEF DropDecoding, GoTo, StaysHolder, TypeOK
  <2>4. TypeOK'
    BY <1>11, <1>0, <2>0, <2>1 DEF DropDecoding, GoTo, TypeOK
  <2>5. Phase(t)'
    BY <1>11, <1>0, <2>0, <2>2
       DEF DropDecoding, GoTo, TypeOK, Phase, KeptAwake, Unread, DecodingAsFound
  <2>6. NeverAsleep'
    BY <1>11, <1>0 DEF DropDecoding, NeverAsleep
  <2> QED
    BY <2>3, <2>4, <2>5, <2>6, HolderStep
<1>12. CASE UndoPower(t)
  <2>0. /\ pc[t] = "undoPower" /\ dev[t] \in Devices
        /\ rest[dev[t]] \in Setting /\ Phase(t)
    BY <1>12, <1>h DEF UndoPower
  <2>1. [rest[dev[t]] EXCEPT !.policy = "on"] \in Setting
    BY <2>0 DEF Setting
  <2>2. /\ rest'[dev[t]].decoding = rest[dev[t]].decoding
        /\ policy'[dev[t]] = rest'[dev[t]].policy
    <3>1. CASE saved[t] = "none" /\ UNCHANGED <<policy, rest>>
      BY <3>1, <2>0 DEF Phase, KeptAwake
    <3>2. CASE saved[t] # "none" /\ policy' = [policy EXCEPT ![dev[t]] = saved[t]] /\ UNCHANGED rest
      BY <3>2, <1>0, <2>0 DEF TypeOK, Phase, KeptAwake
    <3>3. CASE /\ saved[t] # "none"
               /\ rest' = [rest EXCEPT ![dev[t]].policy = "on"] /\ UNCHANGED policy
      <4>1. rest'[dev[t]] = [rest[dev[t]] EXCEPT !.policy = "on"]
        BY <3>3, <1>0, <2>0 DEF TypeOK
      <4>2. rest'[dev[t]].policy = "on" /\ rest'[dev[t]].decoding = rest[dev[t]].decoding
        BY <4>1, <2>0 DEF Setting
      <4> QED
        BY <3>3, <4>2, <2>0 DEF Phase, KeptAwake
    <3> QED
      BY <3>1, <3>2, <3>3, <1>12 DEF UndoPower
  <2>3. StaysHolder(t)
    BY <1>12, <1>0, <2>0 DEF UndoPower, GoTo, StaysHolder, TypeOK
  <2>4. TypeOK'
    BY <1>12, <1>0, <2>0, <2>1 DEF UndoPower, GoTo, TypeOK
  <2>5. Phase(t)'
    BY <1>12, <1>0, <2>0, <2>2
       DEF UndoPower, GoTo, TypeOK, Phase, Unread, DecodingAsFound, PolicyAsFound
  <2>6. NeverAsleep'
    BY <1>12, <1>0, <2>0 DEF UndoPower, TypeOK, NeverAsleep, Phase, KeptAwake
  <2> QED
    BY <2>3, <2>4, <2>5, <2>6, HolderStep
<1> QED
  BY <1>1, <1>2, <1>3, <1>4, <1>5, <1>6, <1>7, <1>8, <1>9, <1>10, <1>11, <1>12 DEF Run

\* A device is claimed by nobody, or by the one thread that opens it.
LEMMA ClaimStep ==
  ASSUME Inv, NEW t \in Threads, NEW d \in Devices, Claim(t, d)
  PROVE  Inv'
<1>0. TypeOK /\ OneHolder /\ Phases /\ NeverAsleep /\ AsFound
  BY DEF Inv
<1>1. TypeOK'
  BY <1>0, DeviceAssumption DEF Claim, GoTo, TypeOK
<1>2. OneHolder'
  BY <1>0 DEF Claim, GoTo, TypeOK, OneHolder
<1>3. Phases'
  <2>1. Alone(t)
    BY <1>0 DEF Claim, GoTo, TypeOK, Alone
  <2>2. Phase(t)'
    BY <1>0 DEF Claim, GoTo, TypeOK, AsFound, Phase, KeptAwake, PolicyKnown, Unread, DecodingAsFound, PolicyAsFound
  <2> QED
    BY <2>1, <2>2, OthersKeepPhase
<1>4. NeverAsleep' /\ AsFound'
  BY <1>0 DEF Claim, NeverAsleep, AsFound
<1> QED
  BY <1>1, <1>2, <1>3, <1>4 DEF Inv

\* A claim is given up when the device is as it is to be put back.
LEMMA UnclaimStep ==
  ASSUME Inv, NEW t \in Threads, Unclaim(t)
  PROVE  Inv'
<1>0. TypeOK /\ OneHolder /\ Phases /\ NeverAsleep /\ AsFound
  BY DEF Inv
<1>1. TypeOK'
  BY <1>0, DeviceAssumption DEF Unclaim, Forget, GoTo, TypeOK
<1>2. OneHolder'
  BY <1>0 DEF Unclaim, Forget, GoTo, TypeOK, OneHolder
<1>3. Phases'
  <2>1. Alone(t)
    BY <1>0 DEF Unclaim, Forget, GoTo, TypeOK, Alone
  <2>2. pc'[t] = "none"
    BY <1>0 DEF Unclaim, Forget, GoTo, TypeOK
  <2> QED
    BY <2>1, <2>2, OthersKeepPhase
<1>4. AsFound'
  BY <1>0 DEF Unclaim, TypeOK, AsFound, Phases, Phase, DecodingAsFound, PolicyAsFound
<1>5. NeverAsleep'
  BY <1>0 DEF Unclaim, NeverAsleep
<1> QED
  BY <1>1, <1>2, <1>3, <1>4, <1>5 DEF Inv

\* The kernel may suspend only what nobody keeps awake, and an administrator
\* changes only what nobody has open.
LEMMA OutsideSteps ==
  ASSUME Inv,
         \/ \E d \in Devices : Resume(d) \/ Suspend(d) \/ \E s \in Setting : Configure(d, s)
         \/ Crash
  PROVE  Inv'
<1>0. TypeOK /\ OneHolder /\ Phases /\ NeverAsleep /\ AsFound
  BY DEF Inv
<1>1. ASSUME NEW d \in Devices, Resume(d) \/ Suspend(d) PROVE Inv'
  <2>1. TypeOK'
    BY <1>0, <1>1 DEF Resume, Suspend, thread, TypeOK
  <2>4. OneHolder' /\ AsFound'
    BY <1>0, <1>1 DEF Resume, Suspend, thread, OneHolder, AsFound
  <2>2. NeverAsleep'
    BY <1>0, <1>1 DEF Resume, Suspend, thread, TypeOK, NeverAsleep
  <2>3. Phases'
    <3> SUFFICES ASSUME NEW t \in Threads, pc[t] # "none" PROVE Phase(t)'
      BY <1>1 DEF Phases, Resume, Suspend, thread
    <3>1. Phase(t) /\ dev[t] \in Devices
      BY <1>0 DEF Phases, TypeOK
    <3>2. pc[t] \in {"readCommand", "writeCommand", "open"} /\ PolicyKnown(t) => active'[dev[t]]
      BY <1>0, <1>1, <3>1 DEF Phase, KeptAwake, PolicyKnown, Resume, Suspend, TypeOK
    <3> QED
      BY <1>1, <3>1, <3>2
         DEF Phase, KeptAwake, PolicyKnown, Unread, DecodingAsFound, PolicyAsFound, Resume, Suspend, thread
  <2> QED
    BY <2>1, <2>2, <2>3, <2>4 DEF Inv
<1>2. ASSUME NEW d \in Devices, NEW s \in Setting, Configure(d, s) PROVE Inv'
  <2>1. TypeOK' /\ OneHolder'
    BY <1>0, <1>2 DEF Configure, thread, TypeOK, OneHolder, Setting
  <2>2. NeverAsleep' /\ AsFound'
    BY <1>0, <1>2 DEF Configure, thread, TypeOK, NeverAsleep, AsFound
  <2>3. Phases'
    <3> SUFFICES ASSUME NEW t \in Threads, pc[t] # "none" PROVE Phase(t)'
      BY <1>2 DEF Phases, Configure, thread
    <3>1. Phase(t) /\ dev[t] \in Devices /\ (dev[t] = d => pc[t] \in Unread)
      BY <1>0, <1>2 DEF Phases, TypeOK, Configure
    <3> QED
      BY <1>0, <1>2, <3>1
         DEF Phase, KeptAwake, PolicyKnown, Unread, DecodingAsFound, PolicyAsFound, Configure, thread, TypeOK
  <2> QED
    BY <2>1, <2>2, <2>3 DEF Inv
<1>3. CASE Crash
  <2>1. TypeOK'
    BY <1>0, <1>3, DeviceAssumption DEF Crash, TypeOK, Now, Setting
  <2>2. OneHolder' /\ Phases' /\ NeverAsleep'
    BY <1>0, <1>3 DEF Crash, OneHolder, Phases, NeverAsleep
  <2>3. AsFound'
    BY <1>3 DEF Crash, AsFound, Now
  <2> QED
    BY <2>1, <2>2, <2>3 DEF Inv
<1> QED
  BY <1>1, <1>2, <1>3

\* Every step preserves the invariant.
LEMMA InvStep == Inv /\ [Next]_vars => Inv'
<1> SUFFICES ASSUME Inv, [Next]_vars PROVE Inv'
  OBVIOUS
<1>1. ASSUME NEW t \in Threads, Run(t) \/ Drop(t) PROVE Inv'
  BY <1>1, HolderSteps, UnclaimStep
<1>2. ASSUME NEW t \in Threads, NEW d \in Devices, Claim(t, d) PROVE Inv'
  BY <1>2, ClaimStep
<1>3. CASE UNCHANGED vars
  BY <1>3 DEF vars, thread, Inv, TypeOK, OneHolder, Phases, Phase, KeptAwake, PolicyKnown,
              DecodingAsFound, PolicyAsFound, NeverAsleep, AsFound
<1> QED
  BY <1>1, <1>2, <1>3, OutsideSteps DEF Next

-----------------------------------------------------------------------------

\* The invariant holds of every open, failed open, drop and crash.
THEOREM AlwaysInv == Spec => []Inv
  BY InvInit, InvStep, PTL DEF Spec

\* A thread has a device exactly as long as it is in a call or has a handle.
THEOREM TypeCorrect == Spec => []TypeOK
  BY AlwaysInv, InvImplies, PTL

\* OPEN holds exactly the devices some thread has, and none has two of them:
\* no error path of open_in and no drop leaks a claim or gives it up early.
THEOREM AlwaysOneHolder == Spec => []OneHolder
  BY AlwaysInv, InvImplies, PTL

\* A device that is open answers, whatever other threads do.
THEOREM OpenDevicesAreUsable == Spec => []Usable
  BY AlwaysInv, InvImplies, PTL

\* A device that nobody has open is as it was found.
THEOREM ClosedDevicesAreRestored == Spec => []Restored
  BY AlwaysInv, InvImplies, PTL

-----------------------------------------------------------------------------
(* GpuOpen.                                                                *)

Call == [step : {"idle", "identify", "subsystem", "vetted", "opening", "check", "firewall",
                 "boot0", "ready", "closing"},
         how : {"gpu", "catalog", "switch"},
         aim : Devices \cup {NoDevice},
         seen : {c.device : c \in Cards} \cup {NoCard},
         vendor : {c.vendor : c \in Cards} \cup {NoCard},
         device : {c.device : c \in Cards} \cup {NoCard},
         chip : Chips \cup Switches \cup {NoChip},
         c2c : BOOLEAN, steady : BOOLEAN, same : BOOLEAN]

GpuTypeOK == card \in [Devices -> Cards] /\ gpu \in [Threads -> Call]

\* Where a call is, and where its handle then is.
Linked(t) ==
  /\ gpu[t].step # "idle" => gpu[t].aim \in Devices
  /\ pc[t] # "none" => dev[t] = gpu[t].aim
  /\ gpu[t].step \in {"idle", "identify", "subsystem", "vetted"} => pc[t] = "none"
  /\ gpu[t].step = "opening" => pc[t] # "none"
  /\ gpu[t].step \in {"check", "firewall", "boot0", "ready"} => pc[t] = "open"
  /\ gpu[t].step = "closing" => pc[t] \in {"dropDecoding", "undoPower", "unclaim"}
  /\ gpu[t].step \in {"identify", "subsystem", "vetted"} => gpu[t].how = "catalog"

\* A card that has not been replaced is the one that was identified.
IdentifiedBy(t) ==
  gpu[t].step = "subsystem" /\ gpu[t].steady =>
    LET c == card[gpu[t].aim]
    IN c.vendor = "nvidia" /\ c.gpu /\ c.device = gpu[t].seen

\* What the catalog said of the device ID that was read, and of the card if it
\* has not been replaced.
VettedBy(t) ==
  gpu[t].how = "catalog" /\ gpu[t].step \notin {"idle", "identify", "subsystem"} =>
    \E e \in Given :
      /\ e.device = gpu[t].seen /\ Supported(e)
      /\ gpu[t].chip = e.profile /\ gpu[t].c2c = (e.attachment = "coherent")
      /\ gpu[t].steady => card[gpu[t].aim].gpu /\ Fits(e, card[gpu[t].aim])

\* Where an open has read the device ID, and the vendor.
DeviceRead == {"map", "readPolicy", "writeOn", "pollActive", "readCommand",
               "writeCommand", "open"}
VendorRead == DeviceRead \cup {"readDevice"}

\* The IDs an open has read are those of the card, if it was not replaced since.
IdsRead(t) ==
  LET g == gpu[t]
      c == card[g.aim]
  IN /\ pc[t] \in VendorRead => (g.steady => g.same) /\ (g.same => g.vendor = c.vendor)
     /\ pc[t] \in DeviceRead => /\ g.same => g.device = c.device
                                /\ g.device \in {k.device : k \in Cards}

\* What was checked of the IDs that were read, and of the card if it is still the
\* one they were read of.
Checked(t) ==
  LET g == gpu[t]
      c == card[g.aim]
  IN g.step \in {"firewall", "boot0", "ready"} =>
       /\ g.how = "catalog" => g.vendor = "nvidia" /\ g.device = g.seen
       /\ g.how = "gpu" /\ g.same => g.chip = c.chip /\ (c.coherent => g.c2c)
       /\ g.how = "switch" /\ g.step = "ready" => g.chip = c.chip

CallInv(t) == Linked(t) /\ IdentifiedBy(t) /\ VettedBy(t) /\ IdsRead(t) /\ Checked(t)

GpuInv == Inv /\ GpuTypeOK /\ \A t \in Threads : CallInv(t)

-----------------------------------------------------------------------------
(* The tables.                                                             *)

\* What the tables say of a card.
LEMMA TablesOf ==
  ASSUME NEW c \in Cards
  PROVE  /\ Range[c.device] \in Chips \cup {NoChip}
         /\ c.vendor = "nvidia" /\ Range[c.device] # NoChip => c.chip = Range[c.device]
         /\ \A e \in Given :
              Fits(e, c) /\ e.gpu /\ e.profile \in Chips =>
                e.profile = c.chip /\ (e.attachment = "coherent" <=> c.coherent)
         /\ c.vendor = "nvidia" /\ c.coherent =>
              \E e \in Builtin : Fits(e, c) /\ e.attachment = "coherent"
         /\ \A e \in Builtin :
              c.vendor = "nvidia" /\ e.device = c.device /\ Range[c.device] = NoChip
                => \E f \in Builtin : Fits(f, c)
BY TablesAssumption

\* chip_for answers a chip there is support for, or none.
LEMMA ChipForType ==
  ASSUME NEW c \in Cards
  PROVE  ChipFor(c.device) \in Chips \cup {NoChip}
<1> DEFINE records == {e \in Builtin : e.device = c.device}
           named == {e.profile : e \in records}
           x == CHOOSE chip \in Chips : named = {chip}
<1>1. (\E chip \in Chips : named = {chip}) => x \in Chips
  OBVIOUS
<1>2. ChipFor(c.device) = Range[c.device] \/ ChipFor(c.device) = NoChip
        \/ (ChipFor(c.device) = x /\ \E chip \in Chips : named = {chip})
  <2> HIDE DEF x
  <2> QED
    BY DEF ChipFor, x
<1> HIDE DEF x, named
<1> QED
  BY <1>1, <1>2, TablesOf

\* The chip of an NVIDIA card's device ID is that of the card.
LEMMA ChipForFits ==
  ASSUME NEW c \in Cards, c.vendor = "nvidia", ChipFor(c.device) # NoChip
  PROVE  ChipFor(c.device) = c.chip
<1>1. CASE Range[c.device] # NoChip
  BY <1>1, TablesOf DEF ChipFor
<1>2. CASE Range[c.device] = NoChip
  <2> DEFINE records == {e \in Builtin : e.device = c.device}
             named == {e.profile : e \in records}
             x == CHOOSE chip \in Chips : named = {chip}
  <2>1. /\ \A e \in records : Supported(e)
        /\ \E chip \in Chips : named = {chip}
        /\ ChipFor(c.device) = x
    BY <1>2 DEF ChipFor
  <2>2. named = {x}
    BY <2>1
  <2> HIDE DEF x
  <2>3. PICK e \in Builtin : e.device = c.device
    BY <2>2
  <2>4. PICK f \in Builtin : Fits(f, c)
    BY <1>2, <2>3, TablesOf
  <2>5. f \in records
    BY <2>4 DEF Fits
  <2>6. f.profile = x
    BY <2>2, <2>5
  <2>7. f \in Given /\ f.gpu /\ f.profile \in Chips
    BY <2>1, <2>5, TablesAssumption DEF Supported
  <2> QED
    BY <2>1, <2>4, <2>6, <2>7, TablesOf
<1> QED
  BY <1>1, <1>2

\* A coherent board's device ID may be that of one.
LEMMA CoherentMayBe ==
  ASSUME NEW c \in Cards, c.vendor = "nvidia", c.coherent
  PROVE  MayBeCoherent(c.device)
BY TablesOf DEF MayBeCoherent, Fits

-----------------------------------------------------------------------------
(* The invariant.                                                          *)

LEMMA GpuInitInv == GpuInit => GpuInv
<1> SUFFICES ASSUME GpuInit
             PROVE  GpuInv
  OBVIOUS
<1>1. Inv
  BY InvInit DEF GpuInit
<1>2. NoCall \in Call
  BY DEF NoCall, Call
<1>3. GpuTypeOK
  BY <1>2 DEF GpuInit, GpuTypeOK
<1>4. ASSUME NEW t \in Threads
      PROVE  CallInv(t)
  BY <1>4
     DEF GpuInit, Init, NoCall, CallInv, Linked, IdentifiedBy, VettedBy, IdsRead, VendorRead,
         DeviceRead, Checked
<1> QED
  BY <1>1, <1>3, <1>4 DEF GpuInv

\* Every step of an open or a drop is one of the handle's, or none of them.
LEMMA HandleStep ==
  ASSUME GpuInv, [GpuNext]_gpuVars
  PROVE  [Next]_vars
<1>1. ASSUME NEW t \in Threads, NEW d, OpenAt(t, d)
      PROVE  [Next]_vars
  BY <1>1 DEF OpenAt, OpenFirst, IdentifyFirst, Next
<1>2. ASSUME NEW t \in Threads, RunGpu(t) \/ Close(t)
      PROVE  [Next]_vars
  <2>1. CASE OpenVetted(t)
    <3>1. gpu[t].aim \in Devices
      BY <2>1 DEF OpenVetted, GpuInv, CallInv, Linked
    <3> QED
      BY <2>1, <3>1 DEF OpenVetted, Next
  <2>2. CASE Opening(t) \/ Refuse(t) \/ Closing(t) \/ Close(t)
    BY <2>2 DEF Opening, Refuse, Closing, Close, Next
  <2>3. CASE ReadIdentity(t) \/ ReadSubsystem(t) \/ CheckIdentity(t) \/ WaitForBar0(t)
               \/ ReadBoot0(t)
    <3>1. ReadIdentity(t) => UNCHANGED vars
      BY Zenon DEF ReadIdentity
    <3>2. ReadSubsystem(t) => UNCHANGED vars
      BY Zenon DEF ReadSubsystem
    <3>3. CheckIdentity(t) \/ WaitForBar0(t) \/ ReadBoot0(t) => UNCHANGED vars
      BY Zenon DEF CheckIdentity, WaitForBar0, ReadBoot0
    <3> QED
      BY <2>3, <3>1, <3>2, <3>3
  <2> QED
    BY <1>2, <2>1, <2>2, <2>3 DEF RunGpu
<1>3. CASE (\E d \in Devices, c \in Cards : Swap(d, c)) \/ UNCHANGED gpuVars
  BY <1>3, Zenon DEF Swap, gpuVars
<1>4. CASE Platform \/ Die
  BY <1>4 DEF Platform, Die, Next
<1> QED
  BY <1>1, <1>2, <1>3, <1>4 DEF GpuNext

\* What a step of a handle does to where its thread, and every other, is.
LEMMA RunKeeps ==
  ASSUME TypeOK, NEW t \in Threads, Run(t)
  PROVE  /\ \A u \in Threads \ {t} : pc'[u] = pc[u] /\ dev'[u] = dev[u]
         /\ pc'[t] = "none" \/ dev'[t] = dev[t]
         /\ pc[t] \in {"dropDecoding", "undoPower", "unclaim"} =>
              pc'[t] \in {"undoPower", "unclaim", "none"}
         /\ pc'[t] = "readDevice" => pc[t] = "readVendor"
         /\ pc'[t] = "map" => pc[t] = "readDevice"
         /\ pc'[t] \in DeviceRead \ {"map"} => pc[t] \in DeviceRead
BY DEF DeviceRead, Run, ReadVendor, ReadDevice, Map, ReadPolicy, WriteOn, WriteOnFails, Awake, WakeTimeout, ReadCommand,
       WriteCommand, WriteCommandFails, DropDecoding, UndoPower, Unclaim, Forget, GoTo, TypeOK

LEMMA ClaimKeeps ==
  ASSUME TypeOK, NEW t \in Threads, NEW d \in Devices, Claim(t, d)
  PROVE  /\ \A u \in Threads \ {t} : pc'[u] = pc[u] /\ dev'[u] = dev[u]
         /\ pc'[t] = "readVendor" /\ dev'[t] = d
BY DEF Claim, GoTo, TypeOK

LEMMA DropKeeps ==
  ASSUME TypeOK, NEW t \in Threads, Drop(t)
  PROVE  /\ \A u \in Threads \ {t} : pc'[u] = pc[u] /\ dev'[u] = dev[u]
         /\ pc'[t] \in {"dropDecoding", "undoPower"} /\ dev'[t] = dev[t]
BY DEF Drop, GoTo, TypeOK

\* A step of one thread that keeps its own part of the invariant keeps that of
\* the others.
LEMMA OthersKeep ==
  ASSUME GpuInv, NEW t \in Threads, NEW g \in Call, Becomes(t, g), card' = card,
         \A u \in Threads \ {t} : pc'[u] = pc[u] /\ dev'[u] = dev[u],
         CallInv(t)'
  PROVE  GpuTypeOK' /\ \A u \in Threads : CallInv(u)'
<1>1. GpuTypeOK'
  BY DEF GpuInv, GpuTypeOK, Becomes
<1>2. ASSUME NEW u \in Threads \ {t}
      PROVE  CallInv(u)'
  <2>1. gpu'[u] = gpu[u] /\ pc'[u] = pc[u] /\ dev'[u] = dev[u]
    BY DEF GpuInv, GpuTypeOK, Becomes
  <2>2. CallInv(u)
    BY DEF GpuInv
  <2> QED
    BY <2>1, <2>2
       DEF CallInv, Linked, IdentifiedBy, VettedBy, IdsRead, VendorRead,
           DeviceRead, Checked, Supported
<1> QED
  BY <1>1, <1>2

\* A call that begins, returns, or claims its device.
LEMMA BeginInv ==
  ASSUME GpuInv, NEW t \in Threads, NEW d, OpenAt(t, d)
  PROVE  GpuTypeOK' /\ \A u \in Threads : CallInv(u)'
<1>1. PICK h \in {"gpu", "switch", "catalog"}, s \in {"opening", "identify"} :
        /\ Begin(t, d, h, s)
        /\ \/ h # "catalog" /\ s = "opening" /\ Claim(t, d)
           \/ h = "catalog" /\ s = "identify" /\ UNCHANGED vars
  BY DEF OpenAt, OpenFirst, IdentifyFirst
<1> DEFINE g == [NoCall EXCEPT !.step = s, !.how = h, !.aim = d, !.steady = TRUE]
<1>2. /\ d \in Devices /\ g \in Call
      /\ g.step = s /\ g.how = h /\ g.aim = d
  BY DEF OpenAt, Call, NoCall
<1>3. Becomes(t, g) /\ card' = card /\ gpu[t].step = "idle"
  BY <1>1 DEF Begin
<1> HIDE DEF g
<1>4. gpu'[t] = g
  BY <1>3 DEF Becomes, GpuInv, GpuTypeOK
<1>5. pc[t] = "none" /\ TypeOK
  BY <1>3 DEF GpuInv, Inv, CallInv, Linked
<1>6. \A u \in Threads \ {t} : pc'[u] = pc[u] /\ dev'[u] = dev[u]
  BY <1>1, <1>2, <1>5, ClaimKeeps DEF vars, thread
<1>7. CallInv(t)'
  <2>1. CASE h # "catalog" /\ s = "opening" /\ Claim(t, d)
    <3>1. pc'[t] = "readVendor" /\ dev'[t] = d
      BY <1>2, <1>5, <2>1, ClaimKeeps
    <3> QED
      BY <1>2, <1>4, <2>1, <3>1
         DEF CallInv, Linked, IdentifiedBy, VettedBy, IdsRead, VendorRead,
             DeviceRead, Checked
  <2>2. CASE h = "catalog" /\ s = "identify" /\ UNCHANGED vars
    <3>1. pc'[t] = "none"
      BY <1>5, <2>2 DEF vars, thread
    <3> QED
      BY <1>2, <1>4, <2>2, <3>1
         DEF CallInv, Linked, IdentifiedBy, VettedBy, IdsRead, VendorRead,
             DeviceRead, Checked
  <2> QED
    BY <1>1, <2>1, <2>2
<1> QED
  BY <1>2, <1>3, <1>6, <1>7, OthersKeep

\* A call that is over.
LEMMA ReturnInv ==
  ASSUME GpuInv, NEW t \in Threads, Return(t), card' = card, pc'[t] = "none",
         \A u \in Threads \ {t} : pc'[u] = pc[u] /\ dev'[u] = dev[u]
  PROVE  GpuTypeOK' /\ \A u \in Threads : CallInv(u)'
<1>1. NoCall \in Call
  BY DEF NoCall, Call
<1>2. gpu'[t] = NoCall
  BY DEF Return, Becomes, GpuInv, GpuTypeOK
<1>3. CallInv(t)'
  BY <1>2
     DEF NoCall, CallInv, Linked, IdentifiedBy, VettedBy, IdsRead, VendorRead,
         DeviceRead, Checked
<1> QED
  BY <1>1, <1>3, OthersKeep DEF Return

\* What the identification by the catalog rests on.
LEMMA IdentifyInv ==
  ASSUME GpuInv, NEW t \in Threads, ReadIdentity(t) \/ ReadSubsystem(t)
  PROVE  GpuTypeOK' /\ \A u \in Threads : CallInv(u)'
<1>1. /\ gpu[t].step \in {"identify", "subsystem"} /\ gpu[t] \in Call
      /\ CallInv(t) /\ pc[t] = "none" /\ gpu[t].aim \in Devices /\ gpu[t].how = "catalog"
      /\ card[gpu[t].aim] \in Cards
  <2>1. gpu[t].step \in {"identify", "subsystem"}
    BY Zenon DEF ReadIdentity, ReadSubsystem
  <2> QED
    BY <2>1 DEF GpuInv, GpuTypeOK, CallInv, Linked
<1>2. /\ card' = card /\ pc'[t] = "none"
      /\ \A u \in Threads : pc'[u] = pc[u] /\ dev'[u] = dev[u]
  <2>1. card' = card /\ UNCHANGED vars
    BY Zenon DEF ReadIdentity, ReadSubsystem
  <2> QED
    BY <1>1, <2>1 DEF vars, thread
<1>3. CASE Return(t)
  BY <1>2, <1>3, ReturnInv
<1> DEFINE c == card[gpu[t].aim]
<1>4. CASE /\ gpu[t].step = "identify" /\ c.vendor = "nvidia" /\ c.gpu
           /\ Becomes(t, [gpu[t] EXCEPT !.step = "subsystem", !.seen = c.device])
  <2> DEFINE g == [gpu[t] EXCEPT !.step = "subsystem", !.seen = c.device]
  <2>1. /\ g \in Call /\ g.step = "subsystem" /\ g.how = "catalog"
        /\ g.aim = gpu[t].aim /\ g.seen = c.device
    BY <1>1 DEF Call
  <2>2. Becomes(t, g)
    BY <1>4
  <2> HIDE DEF g
  <2>3. gpu'[t] = g
    BY <2>2 DEF Becomes, GpuInv, GpuTypeOK
  <2>4. CallInv(t)'
    BY <1>1, <1>2, <1>4, <2>1, <2>3
       DEF CallInv, Linked, IdentifiedBy, VettedBy, IdsRead, VendorRead,
           DeviceRead, Checked
  <2> QED
    BY <1>2, <2>1, <2>2, <2>4, OthersKeep
<1>5. ASSUME gpu[t].step = "subsystem", NEW e \in RecordsOf(gpu[t].seen, c), Supported(e),
             Becomes(t, [gpu[t] EXCEPT !.step = "vetted", !.chip = e.profile,
                                       !.c2c = (e.attachment = "coherent")])
      PROVE  GpuTypeOK' /\ \A u \in Threads : CallInv(u)'
  <2> DEFINE g == [gpu[t] EXCEPT !.step = "vetted", !.chip = e.profile,
                                 !.c2c = (e.attachment = "coherent")]
  <2>1. /\ e \in Given /\ e.device = gpu[t].seen /\ e.subsystem = c.subsystem
        /\ e.profile \in Chips
    BY <1>5 DEF RecordsOf, Supported
  <2>2. /\ g \in Call /\ g.step = "vetted" /\ g.how = "catalog"
        /\ g.aim = gpu[t].aim /\ g.seen = gpu[t].seen /\ g.steady = gpu[t].steady
        /\ g.chip = e.profile /\ g.c2c = (e.attachment = "coherent")
    BY <1>1, <2>1 DEF Call
  <2>3. Becomes(t, g)
    BY <1>5
  <2> HIDE DEF g
  <2>4. gpu'[t] = g
    BY <2>3 DEF Becomes, GpuInv, GpuTypeOK
  <2>5. gpu[t].steady => c.gpu /\ Fits(e, c)
    BY <1>1, <1>5, <2>1 DEF CallInv, IdentifiedBy, Fits
  <2>6. VettedBy(t)'
    BY <1>2, <1>5, <2>1, <2>2, <2>4, <2>5 DEF VettedBy, Supported
  <2>7. CallInv(t)'
    BY <1>1, <1>2, <2>2, <2>4, <2>6
       DEF CallInv, Linked, IdentifiedBy, IdsRead, VendorRead,
           DeviceRead, Checked
  <2> QED
    BY <1>2, <2>2, <2>3, <2>7, OthersKeep
<1>6. CASE ReadIdentity(t)
  <2>1. \/ /\ gpu[t].step = "identify" /\ c.vendor = "nvidia" /\ c.gpu
           /\ Becomes(t, [gpu[t] EXCEPT !.step = "subsystem", !.seen = c.device])
        \/ Return(t)
    BY <1>6, Zenon DEF ReadIdentity
  <2> HIDE DEF c
  <2> QED
    BY <1>3, <1>4, <2>1, Zenon
<1>7. CASE ReadSubsystem(t)
  <2>1. \/ \E e \in RecordsOf(gpu[t].seen, c) :
             /\ gpu[t].step = "subsystem" /\ Supported(e)
             /\ Becomes(t, [gpu[t] EXCEPT !.step = "vetted", !.chip = e.profile,
                                          !.c2c = (e.attachment = "coherent")])
        \/ Return(t)
    BY <1>7, Zenon DEF ReadSubsystem
  <2> HIDE DEF c
  <2> QED
    BY <1>3, <1>5, <2>1, Zenon
<1> QED
  BY <1>6, <1>7

\* A call goes on to another step, with its handle where that step has it.
LEMMA MoveInv ==
  ASSUME GpuInv, NEW t \in Threads, gpu[t].step # "idle",
         NEW s \in {"opening", "check", "firewall", "boot0", "ready", "closing"},
         Step(t, s), card' = card, dev'[t] = gpu[t].aim,
         \A u \in Threads \ {t} : pc'[u] = pc[u] /\ dev'[u] = dev[u],
         s = "opening" => pc'[t] # "none",
         s \in {"check", "firewall", "boot0", "ready"} => pc'[t] = "open",
         s = "closing" => pc'[t] \in {"dropDecoding", "undoPower", "unclaim"},
         pc'[t] \in VendorRead => pc[t] \in DeviceRead,
         gpu[t].step \notin {"identify", "subsystem"},
         s \in {"firewall", "boot0", "ready"} /\ gpu[t].step \notin {"firewall", "boot0"} =>
           /\ gpu[t].how # "gpu" /\ s # "ready"
           /\ gpu[t].how = "catalog" =>
                gpu[t].vendor = "nvidia" /\ gpu[t].device = gpu[t].seen,
         s = "ready" => gpu[t].how # "switch"
  PROVE  GpuTypeOK' /\ \A u \in Threads : CallInv(u)'
<1> DEFINE g == [gpu[t] EXCEPT !.step = s]
<1>1. gpu[t] \in Call /\ CallInv(t)
  BY DEF GpuInv, GpuTypeOK
<1>2. /\ g \in Call /\ g.step = s /\ g.how = gpu[t].how /\ g.aim = gpu[t].aim
      /\ g.seen = gpu[t].seen /\ g.chip = gpu[t].chip /\ g.c2c = gpu[t].c2c
      /\ g.vendor = gpu[t].vendor /\ g.device = gpu[t].device
      /\ g.steady = gpu[t].steady /\ g.same = gpu[t].same
  BY <1>1 DEF Call
<1>3. Becomes(t, g)
  BY DEF Step
<1> HIDE DEF g
<1>4. gpu'[t] = g
  BY <1>3 DEF Becomes, GpuInv, GpuTypeOK
<1>5. Linked(t)'
  BY <1>1, <1>2, <1>4 DEF CallInv, Linked
<1>6. VettedBy(t)'
  BY <1>1, <1>2, <1>4 DEF CallInv, VettedBy, Supported
<1>7. IdentifiedBy(t)' /\ Checked(t)'
  BY <1>1, <1>2, <1>4 DEF CallInv, IdentifiedBy, Checked
<1>i. IdsRead(t)'
  BY <1>1, <1>2, <1>4 DEF CallInv, IdsRead, VendorRead
<1>8. CallInv(t)'
  BY <1>5, <1>6, <1>7, <1>i DEF CallInv
<1> QED
  BY <1>2, <1>3, <1>8, OthersKeep

\* What an open handle is taken for.
LEMMA CheckInv ==
  ASSUME GpuInv, NEW t \in Threads, CheckIdentity(t) \/ WaitForBar0(t) \/ ReadBoot0(t)
  PROVE  GpuTypeOK' /\ \A u \in Threads : CallInv(u)'
<1>1. /\ gpu[t].step \in {"check", "firewall", "boot0"} /\ gpu[t] \in Call /\ CallInv(t)
      /\ pc[t] = "open" /\ dev[t] = gpu[t].aim /\ gpu[t].aim \in Devices
      /\ card[gpu[t].aim] \in Cards
  <2>1. gpu[t].step \in {"check", "firewall", "boot0"}
    BY Zenon DEF CheckIdentity, WaitForBar0, ReadBoot0
  <2> QED
    BY <2>1 DEF GpuInv, GpuTypeOK, CallInv, Linked
<1>2. /\ card' = card /\ \A u \in Threads : pc'[u] = pc[u] /\ dev'[u] = dev[u]
  <2>1. card' = card /\ UNCHANGED vars
    BY Zenon DEF CheckIdentity, WaitForBar0, ReadBoot0
  <2> QED
    BY <2>1 DEF vars, thread
<1>3. pc'[t] = "open" /\ dev'[t] = gpu[t].aim
      /\ (pc'[t] \in VendorRead => pc[t] \in DeviceRead)
  BY <1>1, <1>2 DEF DeviceRead
<1> DEFINE c == card[gpu[t].aim]
           id == gpu[t].device
<1>d. /\ gpu[t].same => gpu[t].vendor = c.vendor /\ id = c.device
      /\ gpu[t].steady => gpu[t].same
      /\ id \in {k.device : k \in Cards}
  BY <1>1 DEF CallInv, IdsRead, VendorRead, DeviceRead
<1>4. CASE CheckIdentity(t)
  <2>1. gpu[t].step = "check" /\ gpu[t].vendor = "nvidia"
        /\ (gpu[t].how = "gpu" => ChipFor(id) # NoChip)
        /\ (gpu[t].how = "catalog" => id = gpu[t].seen)
    BY <1>4, Zenon DEF CheckIdentity, Identified
  <2>c. \/ /\ gpu[t].how = "gpu"
           /\ Becomes(t, [gpu[t] EXCEPT !.step = "firewall", !.chip = ChipFor(id),
                                        !.c2c = MayBeCoherent(id)])
        \/ gpu[t].how = "catalog" /\ Step(t, "firewall")
        \/ gpu[t].how = "switch" /\ Step(t, "boot0")
    BY <1>4, Zenon DEF CheckIdentity
  <2>2. CASE /\ gpu[t].how = "gpu"
             /\ Becomes(t, [gpu[t] EXCEPT !.step = "firewall", !.chip = ChipFor(id),
                                          !.c2c = MayBeCoherent(id)])
    <3> DEFINE g == [gpu[t] EXCEPT !.step = "firewall", !.chip = ChipFor(id),
                                   !.c2c = MayBeCoherent(id)]
    <3>1. MayBeCoherent(id) \in BOOLEAN
      BY DEF MayBeCoherent
    <3>2. ChipFor(id) \in Chips \cup {NoChip}
      <4>1. PICK k \in Cards : id = k.device
        BY <1>d
      <4> HIDE DEF id
      <4> QED
        BY <4>1, ChipForType
    <3>3. /\ g \in Call /\ g.step = "firewall" /\ g.how = "gpu" /\ g.aim = gpu[t].aim
          /\ g.chip = ChipFor(id) /\ g.c2c = MayBeCoherent(id)
          /\ g.vendor = gpu[t].vendor /\ g.device = id
          /\ g.steady = gpu[t].steady /\ g.same = gpu[t].same
      BY <1>1, <2>2, <3>1, <3>2 DEF Call
    <3>4. Becomes(t, g)
      BY <2>2
    <3> HIDE DEF g
    <3>5. gpu'[t] = g
      BY <3>4 DEF Becomes, GpuInv, GpuTypeOK
    <3>6. g.same => g.chip = c.chip /\ (c.coherent => g.c2c)
      BY <1>1, <1>d, <2>1, <2>2, <3>3, ChipForFits, CoherentMayBe
    <3>7. IdsRead(t)'
      BY <1>d, <1>2, <3>3, <3>5 DEF IdsRead
    <3>8. CallInv(t)'
      BY <1>1, <1>2, <1>3, <3>3, <3>5, <3>6, <3>7
         DEF CallInv, Linked, IdentifiedBy, VettedBy, Checked
    <3> QED
      BY <1>2, <3>3, <3>4, <3>8, OthersKeep
  <2>3. CASE gpu[t].how = "catalog" /\ Step(t, "firewall")
    BY <1>1, <1>2, <1>3, <2>1, <2>3, MoveInv
  <2>4. CASE gpu[t].how = "switch" /\ Step(t, "boot0")
    BY <1>1, <1>2, <1>3, <2>1, <2>4, MoveInv
  <2> QED
    BY <2>c, <2>2, <2>3, <2>4
<1>5. CASE WaitForBar0(t)
  BY <1>1, <1>2, <1>3, <1>5, MoveInv DEF WaitForBar0
<1>6. CASE ReadBoot0(t)
  <2>1. CASE gpu[t].how # "switch" /\ Step(t, "ready")
    BY <1>1, <1>2, <1>3, <1>6, <2>1, MoveInv DEF ReadBoot0
  <2>2. CASE /\ gpu[t].how = "switch" /\ SwitchFor(c.chip) # NoChip
             /\ Becomes(t, [gpu[t] EXCEPT !.step = "ready", !.chip = SwitchFor(c.chip)])
    <3> DEFINE g == [gpu[t] EXCEPT !.step = "ready", !.chip = SwitchFor(c.chip)]
    <3>1. SwitchFor(c.chip) = c.chip /\ c.chip \in Switches
      BY <2>2 DEF SwitchFor
    <3>2. /\ g \in Call /\ g.step = "ready" /\ g.how = "switch" /\ g.aim = gpu[t].aim
          /\ g.chip = c.chip /\ g.vendor = gpu[t].vendor /\ g.device = id
          /\ g.steady = gpu[t].steady /\ g.same = gpu[t].same
      BY <1>1, <2>2, <3>1 DEF Call
    <3>3. Becomes(t, g)
      BY <2>2
    <3> HIDE DEF g
    <3>4. gpu'[t] = g
      BY <3>3 DEF Becomes, GpuInv, GpuTypeOK
    <3>5. IdsRead(t)'
      BY <1>d, <1>2, <3>2, <3>4 DEF IdsRead
    <3>6. CallInv(t)'
      BY <1>1, <1>2, <1>3, <3>2, <3>4, <3>5 DEF CallInv, Linked, IdentifiedBy, VettedBy, Checked
    <3> QED
      BY <1>2, <3>2, <3>3, <3>6, OthersKeep
  <2> QED
    BY <1>1, <1>6, <2>1, <2>2 DEF ReadBoot0
<1> QED
  BY <1>4, <1>5, <1>6

\* The steps that take, move and give up a handle.
LEMMA HandleInv ==
  ASSUME GpuInv, NEW t \in Threads,
         OpenVetted(t) \/ Opening(t) \/ Refuse(t) \/ Close(t) \/ Closing(t)
  PROVE  GpuTypeOK' /\ \A u \in Threads : CallInv(u)'
<1>1. /\ CallInv(t) /\ gpu[t] \in Call /\ TypeOK
      /\ gpu[t].step \notin {"idle", "identify", "subsystem"}
      /\ gpu[t].aim \in Devices /\ (pc[t] # "none" => dev[t] = gpu[t].aim)
  BY DEF OpenVetted, Opening, Refuse, Close, Closing, GpuInv, GpuTypeOK, Inv, CallInv, Linked
<1>2. CASE OpenVetted(t)
  <2>1. pc[t] = "none" /\ card' = card
    BY <1>1, <1>2 DEF OpenVetted, CallInv, Linked
  <2>2. CASE Return(t) /\ UNCHANGED vars
    BY <2>1, <2>2, ReturnInv DEF vars, thread
  <2>3. CASE Step(t, "opening") /\ Claim(t, gpu[t].aim)
    <3>1. /\ \A u \in Threads \ {t} : pc'[u] = pc[u] /\ dev'[u] = dev[u]
          /\ pc'[t] = "readVendor" /\ dev'[t] = gpu[t].aim
      BY <1>1, <2>3, ClaimKeeps
    <3> QED
      BY <1>1, <2>1, <2>3, <3>1, MoveInv DEF VendorRead, DeviceRead
  <2> QED
    BY <1>2, <2>2, <2>3 DEF OpenVetted
<1>3. CASE Opening(t)
  <2> DEFINE c == card[gpu[t].aim]
             Read == [gpu[t] EXCEPT !.vendor = c.vendor, !.same = TRUE]
             ReadToo == [gpu[t] EXCEPT !.device = c.device]
  <2>0. /\ gpu[t].step = "opening" /\ card' = card /\ Run(t)
        /\ \/ pc'[t] = "readDevice" /\ Becomes(t, Read)
           \/ pc'[t] = "map" /\ Becomes(t, ReadToo)
           \/ pc'[t] = "open" /\ Step(t, "check")
           \/ pc'[t] = "none" /\ Return(t)
           \/ pc'[t] \notin {"readDevice", "map", "open", "none"} /\ UNCHANGED gpu
    BY <1>3, Zenon DEF Opening
  <2>1. /\ pc[t] # "none" /\ c \in Cards
        /\ \A u \in Threads \ {t} : pc'[u] = pc[u] /\ dev'[u] = dev[u]
        /\ pc'[t] = "none" \/ dev'[t] = gpu[t].aim
        /\ pc'[t] = "map" => pc[t] = "readDevice"
        /\ pc'[t] \in DeviceRead \ {"map"} => pc[t] \in DeviceRead
    BY <1>1, <2>0, RunKeeps DEF CallInv, Linked, GpuInv, GpuTypeOK
  <2>2. CASE pc'[t] = "open" /\ Step(t, "check")
    BY <1>1, <2>0, <2>1, <2>2, MoveInv DEF DeviceRead
  <2>3. CASE pc'[t] = "none" /\ Return(t)
    BY <2>0, <2>1, <2>3, ReturnInv
  <2>4. CASE pc'[t] \notin {"readDevice", "map", "open", "none"} /\ UNCHANGED gpu
    <3>1. Becomes(t, gpu[t])
      BY <2>4 DEF Becomes, GpuInv, GpuTypeOK
    <3>2. Linked(t)'
      BY <1>1, <2>0, <2>1, <2>4 DEF CallInv, Linked
    <3>3. IdentifiedBy(t)' /\ VettedBy(t)' /\ Checked(t)'
      BY <1>1, <2>0, <2>4 DEF CallInv, IdentifiedBy, VettedBy, Checked, Supported
    <3>4. IdsRead(t)'
      BY <1>1, <2>0, <2>1, <2>4 DEF CallInv, IdsRead, VendorRead
    <3>5. CallInv(t)'
      BY <3>2, <3>3, <3>4 DEF CallInv
    <3> QED
      BY <1>1, <2>0, <2>1, <3>1, <3>5, OthersKeep
  <2>5. ASSUME NEW g \in Call, Becomes(t, g), pc'[t] \in {"readDevice", "map"},
               g.step = "opening", g.how = gpu[t].how, g.aim = gpu[t].aim,
               g.seen = gpu[t].seen, g.chip = gpu[t].chip, g.c2c = gpu[t].c2c,
               g.steady = gpu[t].steady,
               g.steady => g.same,
               g.same => g.vendor = c.vendor,
               pc'[t] = "map" => g.device = c.device
        PROVE  GpuTypeOK' /\ \A u \in Threads : CallInv(u)'
    <3>1. gpu'[t] = g
      BY <2>5 DEF Becomes, GpuInv, GpuTypeOK
    <3>2. Linked(t)'
      BY <1>1, <2>1, <2>5, <3>1 DEF CallInv, Linked
    <3>3. IdentifiedBy(t)' /\ VettedBy(t)' /\ Checked(t)'
      BY <1>1, <2>0, <2>5, <3>1 DEF CallInv, IdentifiedBy, VettedBy, Checked, Supported
    <3>4. IdsRead(t)'
      BY <2>0, <2>1, <2>5, <3>1 DEF IdsRead, DeviceRead
    <3>5. CallInv(t)'
      BY <3>2, <3>3, <3>4 DEF CallInv
    <3> QED
      BY <2>0, <2>1, <2>5, <3>5, OthersKeep
  <2>6. CASE pc'[t] = "readDevice" /\ Becomes(t, Read)
    <3>1. /\ Read \in Call /\ Read.step = "opening" /\ Read.how = gpu[t].how
          /\ Read.aim = gpu[t].aim /\ Read.seen = gpu[t].seen /\ Read.chip = gpu[t].chip
          /\ Read.c2c = gpu[t].c2c /\ Read.steady = gpu[t].steady
          /\ Read.same = TRUE /\ Read.vendor = c.vendor
      BY <1>1, <2>0, <2>1 DEF Call
    <3> HIDE DEF Read
    <3> QED
      BY <2>5, <2>6, <3>1
  <2>7. CASE pc'[t] = "map" /\ Becomes(t, ReadToo)
    <3>1. /\ ReadToo \in Call /\ ReadToo.step = "opening" /\ ReadToo.how = gpu[t].how
          /\ ReadToo.aim = gpu[t].aim /\ ReadToo.seen = gpu[t].seen
          /\ ReadToo.chip = gpu[t].chip /\ ReadToo.c2c = gpu[t].c2c
          /\ ReadToo.steady = gpu[t].steady /\ ReadToo.same = gpu[t].same
          /\ ReadToo.vendor = gpu[t].vendor /\ ReadToo.device = c.device
      BY <1>1, <2>0, <2>1 DEF Call
    <3>2. (gpu[t].steady => gpu[t].same) /\ (gpu[t].same => gpu[t].vendor = c.vendor)
      BY <1>1, <2>1, <2>7 DEF CallInv, IdsRead, VendorRead
    <3> HIDE DEF ReadToo
    <3> QED
      BY <2>5, <2>7, <3>1, <3>2
  <2> HIDE DEF Read, ReadToo
  <2> QED
    BY <2>0, <2>2, <2>3, <2>4, <2>6, <2>7
<1>4. CASE Refuse(t) \/ Close(t)
  <2>1. Drop(t) /\ Step(t, "closing") /\ card' = card
    BY <1>4 DEF Refuse, Close
  <2>2. pc[t] = "open"
    BY <2>1 DEF Drop
  <2>3. /\ \A u \in Threads \ {t} : pc'[u] = pc[u] /\ dev'[u] = dev[u]
        /\ pc'[t] \in {"dropDecoding", "undoPower"} /\ dev'[t] = gpu[t].aim
    BY <1>1, <2>1, <2>2, DropKeeps
  <2> QED
    BY <1>1, <2>1, <2>3, MoveInv DEF VendorRead, DeviceRead
<1>5. CASE Closing(t)
  <2>1. /\ gpu[t].step = "closing" /\ card' = card /\ pc[t] # "none"
        /\ \A u \in Threads \ {t} : pc'[u] = pc[u] /\ dev'[u] = dev[u]
        /\ pc'[t] = "none" \/ dev'[t] = gpu[t].aim
        /\ pc'[t] \in {"undoPower", "unclaim", "none"}
    BY <1>1, <1>5, RunKeeps DEF Closing, CallInv, Linked
  <2>2. CASE pc'[t] = "none" /\ Return(t)
    BY <2>1, <2>2, ReturnInv
  <2>3. CASE pc'[t] # "none" /\ UNCHANGED gpu
    <3>1. Becomes(t, gpu[t])
      BY <2>3 DEF Becomes, GpuInv, GpuTypeOK
    <3>2. Linked(t)'
      BY <1>1, <2>1, <2>3 DEF CallInv, Linked
    <3>3. IdentifiedBy(t)' /\ VettedBy(t)' /\ Checked(t)'
      BY <1>1, <2>1, <2>3 DEF CallInv, IdentifiedBy, VettedBy, Checked, Supported
    <3>i. IdsRead(t)'
      BY <2>1, <2>3 DEF IdsRead, VendorRead, DeviceRead
    <3>4. CallInv(t)'
      BY <3>2, <3>3, <3>i DEF CallInv
    <3> QED
      BY <1>1, <2>1, <3>1, <3>4, OthersKeep
  <2> QED
    BY <1>5, <2>2, <2>3 DEF Closing
<1> QED
  BY <1>2, <1>3, <1>4, <1>5

\* A card whose BAR is mapped is not replaced, and of one that is, the calls are
\* known not to be steady.
LEMMA SwapInv ==
  ASSUME GpuInv, NEW d \in Devices, NEW c \in Cards, Swap(d, c)
  PROVE  GpuTypeOK' /\ \A u \in Threads : CallInv(u)'
<1> DEFINE stays(u) == gpu[u].aim = d => c = card[d]
           g(u) == [gpu[u] EXCEPT !.steady = @ /\ stays(u), !.same = @ /\ stays(u)]
<1>0. /\ UNCHANGED vars
      /\ gpu' = [u \in Threads |-> g(u)]
      /\ \A u \in Threads : dev[u] = d => pc[u] \in Unread \ {"readPolicy"}
  BY Zenon DEF Swap
<1>1. /\ card' \in [Devices -> Cards] /\ card'[d] = c
      /\ \A a \in Devices \ {d} : card'[a] = card[a]
  <2>1. card' = [card EXCEPT ![d] = c]
    BY Zenon DEF Swap
  <2>2. card \in [Devices -> Cards]
    BY DEF GpuInv, GpuTypeOK
  <2> QED
    BY <2>1, <2>2
<1>3. ASSUME NEW u \in Threads
      PROVE  /\ g(u) \in Call /\ g(u).step = gpu[u].step /\ g(u).how = gpu[u].how
             /\ g(u).aim = gpu[u].aim /\ g(u).seen = gpu[u].seen /\ g(u).chip = gpu[u].chip
             /\ g(u).vendor = gpu[u].vendor /\ g(u).device = gpu[u].device
             /\ g(u).c2c = gpu[u].c2c
             /\ g(u).steady = (gpu[u].steady /\ stays(u))
             /\ g(u).same = (gpu[u].same /\ stays(u))
  <2> DEFINE a == gpu[u].steady /\ stays(u)
             b == gpu[u].same /\ stays(u)
  <2>1. gpu[u] \in Call
    BY DEF GpuInv, GpuTypeOK
  <2>2. a \in BOOLEAN /\ b \in BOOLEAN
    BY <2>1 DEF Call
  <2>3. g(u) = [gpu[u] EXCEPT !.steady = a, !.same = b]
    BY Zenon
  <2> HIDE DEF a, b, g
  <2>4. LET r == [gpu[u] EXCEPT !.steady = a, !.same = b]
        IN /\ r \in Call /\ r.step = gpu[u].step /\ r.how = gpu[u].how /\ r.aim = gpu[u].aim
           /\ r.seen = gpu[u].seen /\ r.chip = gpu[u].chip /\ r.vendor = gpu[u].vendor
           /\ r.device = gpu[u].device /\ r.c2c = gpu[u].c2c /\ r.steady = a /\ r.same = b
    BY <2>1, <2>2 DEF Call
  <2>5. g(u) \in Call /\ g(u).step = gpu[u].step /\ g(u).how = gpu[u].how
        /\ g(u).aim = gpu[u].aim /\ g(u).seen = gpu[u].seen /\ g(u).chip = gpu[u].chip
        /\ g(u).vendor = gpu[u].vendor /\ g(u).device = gpu[u].device
        /\ g(u).c2c = gpu[u].c2c /\ g(u).steady = a /\ g(u).same = b
    BY <2>3, <2>4
  <2> QED
    BY <2>5 DEF a, b
<1> HIDE DEF g
<1>4. gpu' \in [Threads -> Call] /\ \A u \in Threads : gpu'[u] = g(u)
  BY <1>0, <1>3
<1>5. ASSUME NEW u \in Threads
      PROVE  CallInv(u)'
  <2>0. /\ gpu'[u].step = gpu[u].step /\ gpu'[u].how = gpu[u].how
        /\ gpu'[u].aim = gpu[u].aim /\ gpu'[u].seen = gpu[u].seen /\ gpu'[u].chip = gpu[u].chip
        /\ gpu'[u].vendor = gpu[u].vendor /\ gpu'[u].device = gpu[u].device
        /\ gpu'[u].c2c = gpu[u].c2c
        /\ gpu'[u].steady = (gpu[u].steady /\ stays(u))
        /\ gpu'[u].same = (gpu[u].same /\ stays(u))
    BY <1>3, <1>4
  <2>1. CallInv(u) /\ pc'[u] = pc[u] /\ dev'[u] = dev[u]
    BY <1>0 DEF GpuInv, vars, thread
  <2>2. Linked(u)'
    BY <2>0, <2>1 DEF CallInv, Linked
  <2>3. /\ gpu[u].step # "idle" /\ stays(u) => card'[gpu[u].aim] = card[gpu[u].aim]
        /\ gpu'[u].steady => gpu[u].steady /\ stays(u)
        /\ gpu'[u].same => gpu[u].same /\ stays(u)
    BY <1>1, <2>0, <2>1 DEF CallInv, Linked
  <2>4. gpu[u].step \in {"firewall", "boot0", "ready"} => card'[gpu[u].aim] = card[gpu[u].aim]
    <3>1. pc[u] = "open" => dev[u] # d
      BY <1>0 DEF Unread
    <3> QED
      BY <1>1, <2>1, <3>1 DEF CallInv, Linked
  <2> HIDE DEF stays
  <2>5. IdentifiedBy(u)'
    <3>1. gpu'[u].step = "subsystem" /\ gpu'[u].steady =>
            IdentifiedBy(u) /\ card'[gpu'[u].aim] = card[gpu[u].aim]
      BY <2>0, <2>1, <2>3 DEF CallInv
    <3> QED
      BY <2>0, <2>3, <3>1 DEF IdentifiedBy
  <2>6. VettedBy(u)'
    <3> SUFFICES ASSUME gpu[u].how = "catalog",
                        gpu[u].step \notin {"idle", "identify", "subsystem"}
                 PROVE  VettedBy(u)'
      BY <2>0 DEF VettedBy
    <3>1. PICK e \in Given :
            /\ e.device = gpu[u].seen /\ Supported(e)
            /\ gpu[u].chip = e.profile /\ gpu[u].c2c = (e.attachment = "coherent")
            /\ gpu[u].steady => card[gpu[u].aim].gpu /\ Fits(e, card[gpu[u].aim])
      BY <2>1 DEF CallInv, VettedBy
    <3>2. gpu'[u].steady => card'[gpu'[u].aim].gpu /\ Fits(e, card'[gpu'[u].aim])
      BY <2>0, <2>3, <3>1 DEF Fits
    <3> QED
      BY <2>0, <3>1, <3>2 DEF VettedBy, Supported, Fits
  <2>7. Checked(u)'
    BY <2>0, <2>1, <2>3, <2>4 DEF CallInv, Checked
  <2>8. IdsRead(u)'
    <3>1. pc[u] \in VendorRead => gpu[u].step # "idle"
      BY <2>1 DEF CallInv, Linked, VendorRead, DeviceRead
    <3>2. pc[u] \in DeviceRead => pc[u] \in VendorRead
      BY DEF VendorRead
    <3>3. gpu'[u].same /\ gpu[u].step # "idle" =>
            gpu[u].same /\ card'[gpu'[u].aim] = card[gpu[u].aim]
      BY <2>0, <2>3
    <3>4. IdsRead(u)
      BY <2>1 DEF CallInv
    <3>5. pc[u] \in VendorRead =>
            (gpu'[u].steady => gpu'[u].same)
            /\ (gpu'[u].same => gpu'[u].vendor = card'[gpu'[u].aim].vendor)
      BY <2>0, <2>3, <3>1, <3>3, <3>4 DEF IdsRead
    <3>6. pc[u] \in DeviceRead =>
            (gpu'[u].same => gpu'[u].device = card'[gpu'[u].aim].device)
            /\ gpu'[u].device \in {k.device : k \in Cards}
      BY <2>0, <3>1, <3>2, <3>3, <3>4 DEF IdsRead
    <3> QED
      BY <2>1, <3>5, <3>6 DEF IdsRead
  <2> QED
    BY <2>2, <2>5, <2>6, <2>7, <2>8 DEF CallInv
<1> QED
  BY <1>1, <1>4, <1>5 DEF GpuTypeOK

\* What is around the process, and its death.
LEMMA AroundInv ==
  ASSUME GpuInv, Platform \/ Die \/ UNCHANGED gpuVars
  PROVE  GpuTypeOK' /\ \A u \in Threads : CallInv(u)'
<1>1. CASE Platform \/ UNCHANGED gpuVars
  <2>1. UNCHANGED <<card, gpu, pc, dev>>
    BY <1>1 DEF Platform, Resume, Suspend, Configure, gpuVars, vars, thread
  <2> QED
    BY <2>1
       DEF GpuInv, GpuTypeOK, CallInv, Linked, IdentifiedBy, VettedBy, IdsRead, VendorRead,
           DeviceRead, Checked, Supported
<1>2. CASE Die
  <2>1. NoCall \in Call
    BY DEF NoCall, Call
  <2>2. GpuTypeOK'
    BY <1>2, <2>1 DEF Die, GpuInv, GpuTypeOK
  <2>3. ASSUME NEW u \in Threads
        PROVE  CallInv(u)'
    BY <1>2
       DEF Die, Crash, NoCall, CallInv, Linked, IdentifiedBy, VettedBy, IdsRead, VendorRead,
           DeviceRead, Checked
  <2> QED
    BY <2>2, <2>3
<1> QED
  BY <1>1, <1>2

\* Every step preserves the invariant.
LEMMA GpuStepInv == GpuInv /\ [GpuNext]_gpuVars => GpuInv'
<1> SUFFICES ASSUME GpuInv, [GpuNext]_gpuVars
             PROVE  GpuInv'
  OBVIOUS
<1>1. Inv'
  BY HandleStep, InvStep DEF GpuInv
<1>2. ASSUME NEW t \in Threads, NEW d, OpenAt(t, d)
      PROVE  GpuInv'
  BY <1>1, <1>2, BeginInv DEF GpuInv
<1>3. ASSUME NEW t \in Threads, RunGpu(t) \/ Close(t)
      PROVE  GpuInv'
  <2>1. CASE ReadIdentity(t) \/ ReadSubsystem(t)
    BY <1>1, <2>1, IdentifyInv DEF GpuInv
  <2>2. CASE CheckIdentity(t) \/ WaitForBar0(t) \/ ReadBoot0(t)
    BY <1>1, <2>2, CheckInv DEF GpuInv
  <2>3. CASE OpenVetted(t) \/ Opening(t) \/ Refuse(t) \/ Close(t) \/ Closing(t)
    BY <1>1, <2>3, HandleInv DEF GpuInv
  <2> QED
    BY <1>3, <2>1, <2>2, <2>3 DEF RunGpu
<1>4. ASSUME NEW d \in Devices, NEW c \in Cards, Swap(d, c)
      PROVE  GpuInv'
  BY <1>1, <1>4, SwapInv DEF GpuInv
<1>5. CASE Platform \/ Die \/ UNCHANGED gpuVars
  BY <1>1, <1>5, AroundInv DEF GpuInv
<1> QED
  BY <1>2, <1>3, <1>4, <1>5 DEF GpuNext

LEMMA GpuAlwaysInv == GpuSpec => []GpuInv
BY GpuInitInv, GpuStepInv, PTL DEF GpuSpec

-----------------------------------------------------------------------------

\* Every open and drop of a GPU or a switch is one of PciDevHandle's handles:
\* what is proved of those holds of these.
THEOREM OpensAreHandles == GpuSpec => Spec
<1>1. GpuInit => Init
  BY DEF GpuInit
<1>2. GpuInv /\ [GpuNext]_gpuVars => [Next]_vars
  BY HandleStep
<1> QED
  BY <1>1, <1>2, GpuAlwaysInv, PTL DEF GpuSpec, Spec

\* The chip a handle that is kept is driven as is that of the card behind it,
\* and a coherent board is known to be one, if it is the card whose IDs were read:
\* for any chip table and catalog that TablesAssumption holds of.
THEOREM HandlesFit == GpuSpec => []HandleFits
<1>1. GpuInv => HandleFits
  <2> SUFFICES ASSUME GpuInv, NEW t \in Threads, gpu[t].step = "ready",
                      NEW c, c = card[dev[t]],
                      NEW sure, sure = (CASE gpu[t].how = "switch"  -> TRUE
                                          [] gpu[t].how = "gpu"     -> gpu[t].same
                                          [] gpu[t].how = "catalog" -> gpu[t].steady)
               PROVE  /\ sure \/ (gpu[t].same /\ Range[c.device] # NoChip) => gpu[t].chip = c.chip
                      /\ sure /\ c.coherent /\ gpu[t].how # "switch" => gpu[t].c2c
    BY Zenon DEF HandleFits
  <2>1. /\ CallInv(t) /\ gpu[t] \in Call /\ dev[t] = gpu[t].aim /\ c \in Cards
        /\ c = card[gpu[t].aim] /\ pc[t] = "open"
    BY DEF GpuInv, GpuTypeOK, CallInv, Linked
  <2>2. CASE gpu[t].how \in {"gpu", "switch"}
    BY <2>1, <2>2 DEF CallInv, Checked
  <2>3. CASE gpu[t].how = "catalog"
    <3>0. sure <=> gpu[t].steady
      BY <2>3
    <3>1. /\ gpu[t].same => c.vendor = "nvidia" /\ c.device = gpu[t].seen
          /\ gpu[t].steady => gpu[t].same
      BY <2>1, <2>3 DEF CallInv, Checked, IdsRead, VendorRead, DeviceRead
    <3>2. PICK e \in Given :
            /\ e.device = gpu[t].seen /\ Supported(e)
            /\ gpu[t].chip = e.profile /\ gpu[t].c2c = (e.attachment = "coherent")
            /\ gpu[t].steady => Fits(e, c)
      BY <2>1, <2>3 DEF CallInv, VettedBy
    <3>3. e.gpu /\ e.profile \in Chips /\ Range[e.device] \in {NoChip, e.profile}
      BY <3>2 DEF Supported
    <3>4. gpu[t].same /\ Range[c.device] # NoChip => gpu[t].chip = c.chip
      BY <2>1, <3>1, <3>2, <3>3, TablesOf
    <3>5. gpu[t].steady => gpu[t].chip = c.chip /\ (c.coherent => gpu[t].c2c)
      BY <2>1, <3>2, <3>3, TablesOf
    <3> QED
      BY <3>0, <3>4, <3>5
  <2> QED
    BY <2>1, <2>2, <2>3 DEF Call
<1> QED
  BY <1>1, GpuAlwaysInv, PTL

\* A device is claimed, and so woken and mapped, for the catalog only after the
\* card was identified.
THEOREM UnvettedStayUntouched == GpuSpec => []UnvettedUntouched
<1>1. GpuInv => UnvettedUntouched
  <2> SUFFICES ASSUME GpuInv, NEW t \in Threads, pc[t] # "none",
                      gpu[t].how = "catalog", gpu[t].steady,
                      NEW c, c = card[dev[t]]
               PROVE  /\ c.vendor = "nvidia" /\ c.gpu
                      /\ \E e \in RecordsOf(c.device, c) : Supported(e)
    BY DEF UnvettedUntouched
  <2>1. /\ CallInv(t) /\ gpu[t].step \notin {"idle", "identify", "subsystem"}
        /\ dev[t] = gpu[t].aim
    BY DEF GpuInv, CallInv, Linked
  <2>2. PICK e \in Given : Supported(e) /\ c.gpu /\ Fits(e, c)
    BY <2>1 DEF CallInv, VettedBy
  <2> QED
    BY <2>2 DEF Fits, RecordsOf
<1> QED
  BY <1>1, GpuAlwaysInv, PTL
=============================================================================
