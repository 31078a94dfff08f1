---------------------------- MODULE SysfsProofs -----------------------------
(***************************************************************************)
(* Proofs about what reads and writes sysfs while it changes.  VfioBind,   *)
(* for any drivers, modules and alias tables and whenever probes run: what *)
(* the lookups name is made for the device, and a failed or undone bind    *)
(* leaves nothing behind but what a probe in its middle bound, or an       *)
(* unreadable driver link hid.  PciInventory, for any addresses and        *)
(* functions and however often the bus changes: the lists of what is on it *)
(* say what is so and leave out nothing but what their readers may.        *)
(***************************************************************************)
EXTENDS VfioBind, PciInventory, SequenceTheorems, TLAPS

(* VfioBind.                                                               *)

\* The kernel lists module m for this device.
Listed(m) == \E i \in DOMAIN aliases : aliases[i] = [names |-> "this", module |-> m]

\* The lookups only name what the table lists and a module registers.
LookupsListed ==
  /\ module # None => module \in Modules /\ Listed(module)
  /\ named # None => \E m \in Modules : named \in Registers[m] /\ Listed(m)

\* A driver that holds the device is that of a loaded module.
Backed == driver # None => \E m \in loaded : driver \in Registers[m]

\* A bind asks for a driver, and what a call said of one holds until the next.
SaidHolds ==
  /\ pc \in {"bind", "override", "probe"} => want \in Drivers
  /\ pc # "idle" => result = "none"
  /\ result \in {"already", "verified"} => want \in Drivers /\ driver = want

MadeInv == TypeOK /\ LookupsListed /\ Backed /\ SaidHolds

-----------------------------------------------------------------------------

\* A line of a table is a record of a module that registers no native driver.
LEMMA LineType ==
  ASSUME NEW table \in Tables, NEW i \in DOMAIN table
  PROVE  /\ table[i].module \in Modules
         /\ table[i] = [names |-> table[i].names, module |-> table[i].module]
<1> DEFINE Line == [names : {"this", "other", "any"},
                    module : {m \in Modules : Native \notin Registers[m]}]
<1>1. table \in Seq(Line)
  BY VfioAssumption
<1> HIDE DEF Line
<1>2. table[i] \in Line
  BY <1>1
<1> QED
  BY <1>2 DEF Line

\* A driver that a probe may bind is a driver, and has a module that is loaded.
LEMMA MatchingType ==
  ASSUME TypeOK, NEW d \in Matching
  PROVE  /\ d \in Drivers \cup {Native} /\ d # None
         /\ d = IF override # None THEN override ELSE Native
         /\ \E m \in loaded : d \in Registers[m]
BY VfioAssumption DEF Matching, TypeOK

\* A probe keeps the type of the driver, and backs the one it binds.
LEMMA ProbedBacked ==
  ASSUME TypeOK, Backed, Probed
  PROVE  /\ driver' \in Drivers \cup {Native, None}
         /\ driver # None => driver' = driver
         /\ driver' # None => \E m \in loaded : driver' \in Registers[m]
<1>1. CASE driver = None
  <2>1. driver' = None \/ driver' \in Matching
    BY <1>1 DEF Probed
  <2> QED
    BY <1>1, <2>1, MatchingType
<1>2. CASE driver # None
  BY <1>2 DEF Probed, Backed, TypeOK
<1> QED
  BY <1>1, <1>2

LEMMA MadeInit == Init => MadeInv
BY VfioAssumption DEF Init, MadeInv, TypeOK, LookupsListed, Backed, SaidHolds

\* Every step preserves it: one case per action.
LEMMA MadeStep == MadeInv /\ [Next]_vars => MadeInv'
<1> SUFFICES ASSUME MadeInv, [Next]_vars
             PROVE  MadeInv'
  OBVIOUS
<1> USE DEF MadeInv, LookupsListed, Listed, Backed, SaidHolds
<1>1. CASE Probe
  <2>1. /\ driver' \in Drivers \cup {Native, None}
        /\ driver # None => driver' = driver
        /\ driver' # None => \E m \in loaded : driver' \in Registers[m]
    BY <1>1, ProbedBacked DEF Probe
  <2>2. /\ UNCHANGED <<override, loaded, aliases, module, named, pc, want, result, promise,
                       excused, missed>>
        /\ raced' \in BOOLEAN
    BY <1>1 DEF Probe, lookup, caller, TypeOK
  <2>3. want \in Drivers => want # None
    BY VfioAssumption
  <2> QED
    BY <2>1, <2>2, <2>3 DEF TypeOK
<1>2. ASSUME NEW m \in Modules, Load(m)
      PROVE  MadeInv'
  BY <1>2 DEF Load, TypeOK, lookup, caller, noted
<1>3. ASSUME NEW m \in Modules, Unload(m)
      PROVE  MadeInv'
  BY <1>3 DEF Unload, TypeOK, lookup, caller, noted
<1>4. CASE ModuleFor
  <2>1. UNCHANGED <<driver, override, loaded, aliases, named, pc, want, result, promise, excused,
                    raced, missed>>
    BY <1>4 DEF ModuleFor, caller, noted
  <2>2. module' # None => module' \in Modules /\ Listed(module')
    <3> SUFFICES ASSUME module' # None
                 PROVE  module' \in Modules /\ Listed(module')
      OBVIOUS
    <3>1. PICK i \in OwnLines(aliases) : module' = aliases[i].module
      BY <1>4 DEF ModuleFor
    <3>2. i \in DOMAIN aliases /\ aliases[i].names = "this" /\ aliases \in Tables
      BY <3>1 DEF OwnLines, TypeOK
    <3> QED
      BY <3>1, <3>2, LineType
  <2> QED
    BY <2>1, <2>2 DEF TypeOK
<1>5. CASE DriverFor
  <2>1. UNCHANGED <<driver, override, loaded, aliases, module, pc, want, result, promise, excused,
                    raced, missed>>
    BY <1>5 DEF DriverFor, caller, noted
  <2>2. named' = None \/ (module \in Modules /\ named' \in Registers[module] /\ Listed(module))
    BY <1>5 DEF DriverFor
  <2>3. named' \in Drivers \cup {Native, None}
    BY <2>2, VfioAssumption
  <2> QED
    BY <2>1, <2>2, <2>3 DEF TypeOK
<1>6. ASSUME NEW d \in Drivers, Bind(d)
      PROVE  MadeInv'
  BY <1>6 DEF Bind, TypeOK, lookup, noted
<1>7. ASSUME NEW d \in Drivers, Verify(d)
      PROVE  MadeInv'
  BY <1>7, VfioAssumption DEF Verify, CurrentDriver, TypeOK, lookup, noted
<1>8. CASE CheckDriver
  BY <1>8, VfioAssumption DEF CheckDriver, CurrentDriver, Return, TypeOK, lookup, noted
<1>9. CASE SetOverride \/ SetOverrideFails
  BY <1>9 DEF SetOverride, SetOverrideFails, Return, TypeOK, lookup, noted
<1>10. CASE TriggerProbe
  <2>1. Probed \/ UNCHANGED driver
    BY <1>10 DEF TriggerProbe
  <2>2. /\ driver' \in Drivers \cup {Native, None}
        /\ driver' # None => \E m \in loaded : driver' \in Registers[m]
    BY <2>1, ProbedBacked DEF TypeOK
  <2> QED
    BY <1>10, <2>2 DEF TriggerProbe, Return, TypeOK, lookup, noted
<1>11. CASE TriggerProbeFails \/ Forget
  BY <1>11 DEF TriggerProbeFails, Forget, Return, TypeOK, lookup, noted
<1>12. CASE Unbind \/ TakeOff \/ TakeOffFails
  BY <1>12 DEF Unbind, CurrentDriver, TakeOff, TakeOffFails, Return, TypeOK, lookup, noted
<1>13. CASE Clear \/ ClearFails \/ Crash
  BY <1>13 DEF Clear, ClearFails, Crash, Return, TypeOK, lookup, noted
<1>14. CASE UNCHANGED vars
  BY <1>14 DEF vars, lookup, caller, noted, TypeOK
<1> QED
  BY <1>1, <1>2, <1>3, <1>4, <1>5, <1>6, <1>7, <1>8, <1>9, <1>10, <1>11, <1>12, <1>13, <1>14
  DEF Next

LEMMA MadeAlways == Spec => []MadeInv
BY MadeInit, MadeStep, PTL DEF Spec

\* Every variable of VfioBind keeps its type.
THEOREM TypeCorrect == Spec => []TypeOK
BY MadeAlways, PTL DEF MadeInv

\* A device that has the driver the lookups named has one that is made for it:
\* no driver belongs to two modules, so the one that holds the device is that
\* of the module the table names.
LEMMA MadeFollows == MadeInv => MadeForIt
<1> SUFFICES ASSUME MadeInv, result \in {"already", "verified"}, want = named
             PROVE  \E m \in loaded :
                      /\ driver = named /\ driver \in Registers[m]
                      /\ Listed(m)
  BY DEF MadeForIt, Listed
<1>1. driver = want /\ want \in Drivers /\ want # None
  BY VfioAssumption DEF MadeInv, SaidHolds
<1>2. PICK m \in loaded : driver \in Registers[m]
  BY <1>1 DEF MadeInv, Backed
<1>3. PICK n \in Modules : named \in Registers[n] /\ Listed(n)
  BY <1>1 DEF MadeInv, LookupsListed
<1>4. m = n
  BY <1>1, <1>2, <1>3, VfioAssumption DEF MadeInv, TypeOK
<1> QED
  BY <1>1, <1>2, <1>3, <1>4

\* Whatever is loaded and unloaded, and whenever probes run, a device that was
\* found with the driver the lookups named is bound to one made for it.
THEOREM NamedDriverIsMadeForIt == Spec => []MadeForIt
BY MadeAlways, MadeFollows, PTL

-----------------------------------------------------------------------------
(* Nothing left behind.                                                    *)

\* No probe bound the device in the middle of a call, and none missed it.
Undisturbed == ~raced /\ ~missed

\* Between its check of the driver and its probe a bind has the device for
\* itself, and what it probes with is the override it wrote.
Binding ==
  /\ pc \in {"override", "probe", "forget", "clear"} => driver = None \/ ~Undisturbed
  /\ pc = "probe" => override = want

\* NothingUnasked, with no regard to the override of a bind that is running.
Asked ==
  ~excused =>
    /\ pc \notin {"probe", "forget"} => override \in {None, promise}
    /\ Undisturbed => driver \in {None, Native, promise}

Unbound ==
  result = "unbound" =>
    /\ pc = "idle" /\ override = None
    /\ Undisturbed => driver \in {None, Native}

LeftInv == MadeInv /\ Binding /\ Asked /\ Unbound

LEMMA LeftInit == Init => LeftInv
<1> SUFFICES ASSUME Init
             PROVE  LeftInv
  OBVIOUS
<1>1. MadeInv
  BY MadeInit
<1> QED
  BY <1>1 DEF Init, LeftInv, Binding, Asked, Unbound

\* Every step preserves it: one case per action that changes what it names.
LEMMA LeftStep == LeftInv /\ [Next]_vars => LeftInv'
<1> SUFFICES ASSUME LeftInv, [Next]_vars
             PROVE  LeftInv'
  OBVIOUS
<1>m. MadeInv'
  BY MadeStep DEF LeftInv
<1>t. TypeOK
  BY DEF LeftInv, MadeInv
<1> USE DEF LeftInv, Binding, Asked, Unbound, Undisturbed
<1>1. CASE Probe
  <2>1. /\ UNCHANGED <<override, pc, want, result, promise, excused, missed>>
        /\ raced' = IF driver' = driver THEN raced ELSE pc # "idle"
    BY <1>1 DEF Probe, caller
  <2>2. driver' = driver \/ driver' = None
          \/ driver' = IF override # None THEN override ELSE Native
    BY <1>1, <1>t, MatchingType DEF Probe, Probed
  <2>3. CASE driver' = driver
    BY <1>m, <2>1, <2>3
  <2>4. CASE driver' # driver /\ pc # "idle"
    <3>1. raced' = (pc # "idle")
      BY <2>4, <1>1, Zenon DEF Probe
    <3>2. raced'
      BY <2>4, <3>1, Zenon
    <3> QED
      BY <1>m, <2>1, <2>4, <3>2
  <2>5. CASE driver' # driver /\ pc = "idle"
    BY <1>m, <2>1, <2>2, <2>5
  <2> QED
    BY <2>3, <2>4, <2>5
<1>2. CASE \/ \E m \in Modules : Load(m) \/ Unload(m)
           \/ ModuleFor \/ DriverFor
  BY <1>m, <1>2 DEF Load, Unload, ModuleFor, DriverFor, caller, noted
<1>3. CASE \E d \in Drivers : Bind(d) \/ Verify(d)
  <2>1. UNCHANGED <<driver, override, promise, excused, raced, missed>> /\ result' # "unbound"
        /\ pc' \in {"idle", "bind"} /\ pc = "idle"
    BY <1>3 DEF Bind, Verify, noted
  <2> QED
    BY <1>m, <2>1
<1>4. CASE CheckDriver
  <2>1. /\ UNCHANGED <<driver, override, promise, excused, raced>>
        /\ missed => missed'
        /\ pc = "bind" /\ result' # "unbound" /\ pc' \in {"idle", "override"}
        /\ pc' = "override" => driver = None \/ missed'
    BY <1>4 DEF CheckDriver, Return, MadeInv, SaidHolds
  <2> QED
    BY <1>m, <2>1
<1>5. CASE SetOverride
  BY <1>m, <1>5 DEF SetOverride, noted
<1>6. CASE SetOverrideFails
  BY <1>m, <1>6 DEF SetOverrideFails, Return, noted
<1>7. CASE TriggerProbe
  <2>1. /\ driver = None \/ ~Undisturbed
        /\ override = want /\ want \in Drivers /\ want # None
    BY <1>7, VfioAssumption DEF TriggerProbe, MadeInv, SaidHolds
  <2>2. driver = None => driver' = None \/ driver' = want
    BY <1>7, <1>t, <2>1, MatchingType DEF TriggerProbe, Probed
  <2> QED
    BY <1>m, <1>7, <2>1, <2>2 DEF TriggerProbe, Return, noted
<1>8. CASE TriggerProbeFails \/ Forget
  BY <1>m, <1>8 DEF TriggerProbeFails, Forget, Return, noted
<1>9. CASE Unbind
  <2>1. /\ UNCHANGED <<driver, override, promise, excused, raced>>
        /\ missed => missed'
        /\ pc = "idle" /\ result' # "unbound" /\ pc' \in {"takeOff", "clear"}
        /\ pc' = "clear" => driver = None \/ missed'
    <3>1. PICK seen \in CurrentDriver :
            /\ pc' = IF seen # None THEN "takeOff" ELSE "clear"
            /\ missed' = (missed \/ seen # driver)
      BY <1>9 DEF Unbind
    <3> QED
      BY <1>9, <3>1 DEF Unbind
  <2> QED
    BY <1>m, <2>1
<1>10. CASE TakeOff \/ TakeOffFails
  BY <1>m, <1>10 DEF TakeOff, TakeOffFails, Return, noted
<1>11. CASE Clear \/ ClearFails
  BY <1>m, <1>11 DEF Clear, ClearFails, Return, noted
<1>12. CASE Crash
  BY <1>m, <1>12 DEF Crash, Return, noted
<1>13. CASE UNCHANGED vars
  BY <1>m, <1>13 DEF vars, caller, noted
<1> QED
  BY <1>1, <1>2, <1>3, <1>4, <1>5, <1>6, <1>7, <1>8, <1>9, <1>10, <1>11, <1>12, <1>13 DEF Next

LEMMA LeftAlways == Spec => []LeftInv
BY LeftInit, LeftStep, PTL DEF Spec

\* Neither a bind that failed nor one whose device the driver refused leaves an
\* override to bind the device with, and none leaves it to a driver it was not
\* said to be given, but for one that a probe bound in the middle of a call or
\* that a call did not see.
THEOREM NothingIsUnasked == Spec => []NothingUnasked
<1>1. LeftInv => NothingUnasked
  BY DEF LeftInv, Asked, Undisturbed, NothingUnasked
<1> QED
  BY LeftAlways, <1>1, PTL

\* After an unbind that returned Ok no probe gives the device a driver it was
\* once given, whatever earlier callers left behind, unless one did so in the
\* middle of that unbind or the unbind did not see the driver.
THEOREM AlwaysTakenBack == Spec => []TakenBackUndisturbed
<1>1. LeftInv => TakenBackUndisturbed
  BY DEF LeftInv, Unbound, Undisturbed, TakenBackUndisturbed
<1> QED
  BY LeftAlways, <1>1, PTL

-----------------------------------------------------------------------------
(* PciInventory.                                                           *)

\* What a read of an attribute gives.
Readable == Functions \cup {NoFunction}

\* Every variable has its type.
InventoryTypeOK ==
  /\ bus \in [Addresses -> Readable]
  /\ cache \in [Addresses -> Seq(Readable)]
  /\ records \in [Addresses -> Seq(Readable)]
  /\ op \in Reader \cup {"none"} /\ filter \in {"any", "nvidia"}
  /\ todo \subseteq Addresses /\ at \in Addresses \cup {NoAddress} /\ got \in Seq(Readable)
  /\ outcome \in {"none", "ok", "failed"} /\ hit \in BOOLEAN
  /\ failed \subseteq Addresses /\ steady \subseteq Addresses /\ trusted \subseteq steady

OfVendor(record) == record # <<>> /\ filter # "any" => record[1].vendor = filter

\* A reader that is at a function has read some of its attributes, all from the
\* function at the address unless that changed; what could not be read is known.
ReadingInv ==
  /\ filter # "any" => op \in Managed \cup {"none"}
  /\ hit => Idle
  /\ at # NoAddress =>
       /\ ~Idle /\ ~hit
       /\ Len(got) < Len(Attributes[op])
       /\ at \in steady => True(got, bus[at])
       /\ at \notin failed => \A i \in DOMAIN got : got[i] # NoFunction
       /\ OfVendor(got)

\* RecordsAreTrue, whatever the reader has come to.
RecordsInv ==
  /\ ~hit => \A a \in Addresses :
               /\ a \in steady => True(records[a], bus[a])
               /\ OfVendor(records[a])
  /\ \A a \in trusted : True(cache[a], bus[a])

\* NothingOverlooked, but for what the reader has still to look at.
Accounted(a) ==
  \/ records[a] # <<>>
  \/ op = "lookup"
  \/ op \in {"list", "cc", "iommufd"} /\ a \in failed
  \/ op = "list" /\ filter \notin {"any", bus[a].vendor}
  \/ op = "cc" /\ ~(bus[a].vendor = "nvidia" /\ bus[a].capable)

AccountInv ==
  op # "none" /\ ~hit =>
    /\ outcome # "failed" =>
         \A a \in steady \cap Present : a \in todo \/ a = at \/ Accounted(a)
    /\ outcome = "ok" => todo = {} /\ at = NoAddress

InventoryInv == InventoryTypeOK /\ ReadingInv /\ RecordsInv /\ AccountInv

-----------------------------------------------------------------------------
(* Lemmas.                                                                 *)

\* Every reader reads more than one attribute, and the manager the vendor first.
LEMMA AttributesOf ==
  \A o \in Reader :
    /\ Len(Attributes[o]) \in Nat /\ Len(Attributes[o]) >= 2
    /\ o \in Managed => Attributes[o][1] = "vendor"
  <1> SUFFICES ASSUME NEW o \in Reader
               PROVE  /\ Len(Attributes[o]) \in Nat /\ Len(Attributes[o]) >= 2
                      /\ o \in Managed => Attributes[o][1] = "vendor"
    OBVIOUS
  <1>2. o \in Managed => Attributes[o] = OfPCIDevice
    BY DEF Attributes, Managed
  <1>3. o = "catalog" => Attributes[o] = OfCatalogDevice
    BY DEF Attributes
  <1>4. o = "cc" => Attributes[o] = OfCcGpu
    BY DEF Attributes
  <1>5. o = "iommufd" => Attributes[o] = OfIommufdDev
    BY DEF Attributes
  <1>6. /\ Len(OfPCIDevice) = 4 /\ OfPCIDevice[1] = "vendor"
        /\ Len(OfCatalogDevice) = 5 /\ Len(OfCcGpu) = 2 /\ Len(OfIommufdDev) = 3
    BY DEF OfPCIDevice, OfCatalogDevice, OfCcGpu, OfIommufdDev
  <1>7. o \in Managed \/ o = "catalog" \/ o = "cc" \/ o = "iommufd"
    BY DEF Reader, Managed
  <1>8. "catalog" \notin Managed /\ "cc" \notin Managed /\ "iommufd" \notin Managed
    BY DEF Managed
  <1>9. CASE o \in Managed
    BY <1>2, <1>6, <1>9
  <1> QED BY <1>3, <1>4, <1>5, <1>6, <1>7, <1>8, <1>9

\* One attribute more says what those before it said, and what it says.
LEMMA OneMore ==
  ASSUME NEW s \in Seq(Readable), NEW x \in Readable
  PROVE  /\ Append(s, x) \in Seq(Readable) /\ Append(s, x) # <<>>
         /\ Len(Append(s, x)) = Len(s) + 1
         /\ DOMAIN s = 1 .. Len(s) /\ DOMAIN Append(s, x) = 1 .. Len(s) + 1
         /\ \A i \in 1 .. Len(s) : Append(s, x)[i] = s[i]
         /\ Append(s, x)[Len(s) + 1] = x
         /\ s # <<>> => Len(s) >= 1
  OBVIOUS

\* Nothing says nothing untrue.
LEMMA EmptyIsTrue == \A f : True(<<>>, f) /\ OfVendor(<<>>)
  BY DEF True, OfVendor

\* Nobody has a record of anything in an empty table.
LEMMA NoneOf == \A a \in Addresses : NoRecords[a] = <<>>
  BY DEF NoRecords

\* A reader that took up one more attribute of the function it is at.
LEMMA TakeInv ==
  ASSUME InventoryInv, at # NoAddress, NEW x \in {bus[at], NoFunction}, Take(Append(got, x)),
         x = NoFunction => at \in failed',
         failed \subseteq failed', failed' \subseteq failed \cup {at},
         OfVendor(<<x>>) \/ got # <<>>,
         UNCHANGED <<bus, op, filter, todo, outcome, hit, steady, trusted>>
  PROVE  InventoryInv'
  <1> DEFINE now == Append(got, x)
  <1>0. /\ at \in Addresses /\ op \in Reader /\ outcome = "none" /\ ~Idle /\ ~hit
        /\ got \in Seq(Readable) /\ x \in Readable /\ bus[at] \in Readable
    BY InventoryAssumption DEF InventoryInv, InventoryTypeOK, ReadingInv, Idle, Readable
  <1>1. /\ now \in Seq(Readable) /\ now # <<>> /\ Len(now) = Len(got) + 1
        /\ Len(got) \in Nat /\ Len(Attributes[op]) \in Nat
    BY <1>0, OneMore, AttributesOf
  <1>2. at \in steady => True(now, bus[at])
    BY <1>0, OneMore DEF InventoryInv, ReadingInv, True
  <1>3. at \notin failed' => \A i \in DOMAIN now : now[i] # NoFunction
    BY <1>0, OneMore DEF InventoryInv, ReadingInv
  <1>4. OfVendor(now)
    <2>1. CASE got = <<>>
      BY <1>0, <2>1, OneMore DEF OfVendor
    <2>2. CASE got # <<>>
      BY <1>0, <2>2, OneMore DEF OfVendor, InventoryInv, ReadingInv
    <2> QED BY <2>1, <2>2
  <1> HIDE DEF now
  <1>5. CASE Len(now) < Len(Attributes[op])
    <2>1. got' = now /\ UNCHANGED <<at, records, cache>>
      BY <1>5 DEF Take, now
    <2>2. InventoryTypeOK'
      BY <1>0, <1>1, <2>1 DEF InventoryInv, InventoryTypeOK
    <2>3. ReadingInv'
      BY <1>0, <1>2, <1>3, <1>4, <1>5, <2>1
         DEF InventoryInv, ReadingInv, Idle, True, OfVendor
    <2>4. RecordsInv'
      BY <2>1 DEF InventoryInv, RecordsInv, True, OfVendor
    <2>5. AccountInv'
      BY <2>1 DEF InventoryInv, AccountInv, Accounted, Present
    <2> QED BY <2>2, <2>3, <2>4, <2>5 DEF InventoryInv
  <1>6. CASE ~(Len(now) < Len(Attributes[op]))
    <2>1. /\ at' = NoAddress /\ got' = now
          /\ records' = IF Wanted(now) THEN [records EXCEPT ![at] = now] ELSE records
          /\ cache' = IF op = "lookup" THEN [cache EXCEPT ![at] = now] ELSE cache
      BY <1>6 DEF Take, now
    <2>2. InventoryTypeOK'
      BY <1>0, <1>1, <2>1 DEF InventoryInv, InventoryTypeOK
    <2>3. ReadingInv'
      BY <2>1 DEF InventoryInv, ReadingInv
    <2>4. RecordsInv'
      <3>1. \A a \in Addresses : records'[a] = records[a] \/ (a = at /\ records'[a] = now)
        BY <2>1 DEF InventoryInv, InventoryTypeOK
      <3>2. \A a \in Addresses : cache'[a] = cache[a] \/ (a = at /\ cache'[a] = now)
        BY <2>1 DEF InventoryInv, InventoryTypeOK
      <3>3. ASSUME NEW a \in Addresses
            PROVE  /\ a \in steady => True(records'[a], bus[a])
                   /\ OfVendor(records'[a])
        BY <1>0, <1>2, <1>4, <3>1 DEF InventoryInv, RecordsInv
      <3>4. ASSUME NEW a \in trusted PROVE True(cache'[a], bus[a])
        BY <1>2, <3>2 DEF InventoryInv, RecordsInv, InventoryTypeOK
      <3> QED BY <3>3, <3>4 DEF RecordsInv, OfVendor, True
    <2>5. AccountInv'
      <3> SUFFICES ASSUME NEW a \in steady \cap Present
                   PROVE  a \in todo \/ Accounted(a)'
        BY <1>0, <2>1 DEF AccountInv, Present
      <3>0. a \in Addresses
        BY DEF Present
      <3>1. CASE a # at
        BY <1>0, <2>1, <3>0, <3>1 DEF Reader, InventoryInv, AccountInv, Accounted, InventoryTypeOK
      <3>2. CASE a = at /\ Wanted(now)
        <4>1. records'[a] # <<>>
          BY <1>1, <2>1, <3>0, <3>2 DEF InventoryInv, InventoryTypeOK
        <4> QED BY <4>1 DEF Accounted
      <3>3. CASE a = at /\ ~Wanted(now) /\ at \in failed'
        BY <1>0, <3>3 DEF Accounted, Wanted
      <3>4. CASE a = at /\ ~Wanted(now) /\ at \notin failed'
        <4>1. DOMAIN now = 1 .. Len(now) /\ Len(now) >= 2
          BY <1>0, <1>1, <1>6, AttributesOf
        <4>2. now[1] = bus[at] /\ now[2] = bus[at]
          BY <1>2, <1>3, <3>4, <4>1 DEF True
        <4>3. bus[at] \in Functions
          BY <1>0, <3>4 DEF Present, Readable
        <4> QED BY <3>4, <4>2, <4>3 DEF Accounted, Wanted
      <3> QED BY <3>1, <3>2, <3>3, <3>4
    <2> QED BY <2>2, <2>3, <2>4, <2>5 DEF InventoryInv
  <1> QED BY <1>5, <1>6

-----------------------------------------------------------------------------
(* The invariant.                                                          *)

LEMMA InventoryInitInv == InventoryInit => InventoryInv
  <1> SUFFICES ASSUME InventoryInit PROVE InventoryInv
    OBVIOUS
  <1>1. NoRecords \in [Addresses -> Seq(Readable)] /\ <<>> \in Seq(Readable)
    BY DEF NoRecords
  <1> QED BY <1>1, NoneOf, EmptyIsTrue
          DEF InventoryInit, InventoryInv, InventoryTypeOK, Readable, ReadingInv, RecordsInv,
              AccountInv

LEMMA InventoryStepInv == InventoryInv /\ [InventoryNext]_inventoryVars => InventoryInv'
  <1> SUFFICES ASSUME InventoryInv, [InventoryNext]_inventoryVars PROVE InventoryInv'
    OBVIOUS
  <1>0. InventoryTypeOK /\ ReadingInv /\ RecordsInv /\ AccountInv
    BY DEF InventoryInv
  <1>n. NoRecords \in [Addresses -> Seq(Readable)] /\ <<>> \in Seq(Readable)
    BY DEF NoRecords
  <1>1. ASSUME NEW v \in {"any", "nvidia"}, NEW o \in Reader \ {"lookup"}, List(o, v)
        PROVE  InventoryInv'
    <2>1. /\ at' = NoAddress /\ got' = <<>> /\ op' = o /\ filter' = v
          /\ records' = NoRecords /\ outcome' = "none" /\ ~hit'
          /\ steady' = Addresses
          /\ v # "any" => o \in Managed
          /\ hit' = FALSE /\ UNCHANGED <<bus, cache, trusted>>
      BY <1>1 DEF List, Call
    <2>u. PICK unlisted \in SUBSET Present :
            /\ o # "iommufd" => unlisted = {}
            /\ todo' = Present \ unlisted /\ failed' = unlisted
      BY <1>1 DEF List
    <2>2. InventoryTypeOK'
      BY <1>0, <1>n, <2>1, <2>u DEF InventoryTypeOK, Present
    <2>3. ReadingInv'
      BY <2>1 DEF ReadingInv
    <2>4. RecordsInv'
      BY <1>0, <2>1, NoneOf, EmptyIsTrue DEF RecordsInv, True, OfVendor
    <2>5. AccountInv'
      BY <2>1, <2>u DEF AccountInv, Accounted, Present
    <2> QED BY <2>2, <2>3, <2>4, <2>5 DEF InventoryInv
  <1>2. ASSUME NEW v \in {"any", "nvidia"}, NEW a \in Addresses, Lookup(a, v)
        PROVE  InventoryInv'
    <2>1. /\ at' = NoAddress /\ got' = <<>> /\ op' = "lookup" /\ filter' = v
          /\ failed' = {} /\ steady' = Addresses
          /\ UNCHANGED <<bus, cache>>
      BY <1>2 DEF Lookup, Call
    <2>2. CASE cache[a] # <<>>
      <3>1. /\ hit' /\ hit' = TRUE /\ outcome' = "ok"
            /\ records' = [NoRecords EXCEPT ![a] = cache[a]]
            /\ todo' = {} /\ trusted' = trusted
        BY <1>2, <2>2 DEF Lookup
      <3>2. InventoryTypeOK'
        BY <1>0, <1>n, <2>1, <3>1 DEF InventoryTypeOK, Reader
      <3> QED BY <1>0, <2>1, <3>1, <3>2
              DEF InventoryInv, ReadingInv, Managed, RecordsInv, AccountInv, True, Idle
    <2>3. CASE cache[a] = <<>>
      <3>1. /\ ~hit' /\ hit' = FALSE /\ records' = NoRecords /\ outcome' = "none"
            /\ todo' = {a} /\ trusted' = trusted \cup {a}
        BY <1>2, <2>3 DEF Lookup
      <3>2. InventoryTypeOK'
        BY <1>0, <1>n, <2>1, <3>1 DEF InventoryTypeOK, Reader
      <3>3. RecordsInv'
        BY <1>0, <2>1, <2>3, <3>1, NoneOf, EmptyIsTrue DEF RecordsInv, True, OfVendor
      <3> QED BY <2>1, <3>1, <3>2, <3>3
              DEF InventoryInv, ReadingInv, Managed, AccountInv, Accounted
    <2> QED BY <2>2, <2>3
  <1>3. CASE DropCache
    <2>1. /\ op' = "none" /\ records' = NoRecords /\ outcome' = "none" /\ hit' = FALSE
          /\ cache' = NoRecords /\ trusted' = {} /\ at = NoAddress
          /\ UNCHANGED <<bus, filter, todo, at, got, failed, steady>>
      BY <1>0, <1>3 DEF DropCache, ReadingInv
    <2>2. InventoryTypeOK'
      BY <1>0, <1>n, <2>1 DEF InventoryTypeOK
    <2>3. RecordsInv'
      BY <1>0, <2>1, NoneOf, EmptyIsTrue DEF RecordsInv, True, OfVendor
    <2> QED BY <1>0, <2>1, <2>2, <2>3 DEF InventoryInv, ReadingInv, AccountInv
  <1>4. ASSUME NEW a \in Addresses, Enter(a) PROVE InventoryInv'
    <2>1. /\ ~Idle /\ at = NoAddress /\ a \in todo /\ a # NoAddress
          /\ at' = a /\ got' = <<>> /\ todo' = todo \ {a}
          /\ UNCHANGED <<bus, cache, op, filter, records, outcome, hit, failed, steady, trusted>>
      BY <1>4, InventoryAssumption DEF Enter
    <2>2. InventoryTypeOK'
      BY <1>0, <2>1 DEF InventoryTypeOK
    <2>3. ReadingInv'
      <3>1. ~hit /\ op \in Reader
        BY <1>0, <2>1 DEF Idle, InventoryTypeOK, ReadingInv
      <3> QED BY <1>0, <2>1, <3>1, EmptyIsTrue, AttributesOf DEF ReadingInv, Idle, True, OfVendor
    <2>4. RecordsInv'
      BY <1>0, <2>1 DEF RecordsInv, True, OfVendor
    <2>5. AccountInv'
      BY <1>0, <2>1, InventoryAssumption DEF AccountInv, Accounted, Present, Idle
    <2> QED BY <2>2, <2>3, <2>4, <2>5 DEF InventoryInv
  <1>5. ASSUME NEW a \in Addresses, NEW f \in Readable, Change(a, f) PROVE InventoryInv'
    <2>1. /\ bus' = [bus EXCEPT ![a] = f]
          /\ steady' = steady \ {a} /\ trusted' = trusted \ {a}
          /\ UNCHANGED <<cache, op, filter, todo, at, got, records, outcome, hit, failed>>
      BY <1>5 DEF Change, call
    <2>2. InventoryTypeOK'
      BY <1>0, <2>1 DEF InventoryTypeOK
    <2>3. \A b \in steady' : b \in Addresses /\ b \in steady /\ bus'[b] = bus[b]
      BY <1>0, <2>1 DEF InventoryTypeOK
    <2>4. ReadingInv'
      BY <1>0, <2>1, <2>3 DEF ReadingInv, Idle, True, OfVendor
    <2>5. RecordsInv'
      BY <1>0, <2>1, <2>3, <2>2 DEF RecordsInv, True, OfVendor, InventoryTypeOK
    <2>6. AccountInv'
      BY <1>0, <2>1, <2>3 DEF AccountInv, Accounted, Present
    <2> QED BY <2>2, <2>4, <2>5, <2>6 DEF InventoryInv
  <1>6. CASE ReadAttribute
    <2>1. CASE TurnedAway(bus[at])
      <3>1. /\ at # NoAddress /\ at' = NoAddress /\ op \in Managed
            /\ filter \notin {"any", bus[at].vendor}
            /\ UNCHANGED <<got, records, cache, bus, op, filter, todo, outcome, hit, failed,
                           steady, trusted>>
        BY <1>6, <2>1 DEF ReadAttribute, TurnedAway
      <3>2. InventoryTypeOK' /\ ReadingInv' /\ RecordsInv'
        BY <1>0, <3>1 DEF InventoryTypeOK, ReadingInv, RecordsInv, True, OfVendor
      <3>3. AccountInv'
        BY <1>0, <3>1 DEF AccountInv, Accounted, Present, Managed, ReadingInv, Idle
      <3> QED BY <3>2, <3>3 DEF InventoryInv
    <2>2. CASE ~TurnedAway(bus[at])
      <3>1. /\ at # NoAddress /\ bus[at] # NoFunction /\ Take(Append(got, bus[at]))
            /\ UNCHANGED <<bus, op, filter, todo, outcome, hit, failed, steady, trusted>>
        BY <1>6, <2>2 DEF ReadAttribute
      <3>2. OfVendor(<<bus[at]>>) \/ got # <<>>
        <4>1. CASE filter # "any" /\ got = <<>>
          <5>1. op \in Managed /\ op \in Reader /\ Len(got) + 1 = 1
            BY <1>0, <3>1, <4>1 DEF ReadingInv, Idle, InventoryTypeOK
          <5>2. Attribute = "vendor"
            BY <5>1, AttributesOf DEF Attribute
          <5> QED BY <2>2, <4>1, <5>1, <5>2 DEF TurnedAway, OfVendor
        <4>2. CASE filter = "any"
          BY <4>2 DEF OfVendor
        <4> QED BY <4>1, <4>2
      <3> QED BY <3>1, <3>2, TakeInv
    <2> QED BY <2>1, <2>2
  <1>7. CASE ReadFails
    <2>1. /\ at # NoAddress /\ failed' = failed \cup {at}
          /\ UNCHANGED <<bus, op, filter, hit, steady, trusted>>
          /\ at \in Addresses /\ op \in Reader /\ outcome = "none" /\ ~hit
          /\ got \in Seq(Readable)
      BY <1>0, <1>7 DEF ReadFails, ReadingInv, Idle, InventoryTypeOK
    <2>2. CASE Attribute = "links" \/ op = "cc"
      <3>1. Take(Append(got, NoFunction)) /\ UNCHANGED <<outcome, todo>>
        BY <1>7, <2>2 DEF ReadFails
      <3>2. OfVendor(<<NoFunction>>) \/ got # <<>>
        <4>1. CASE filter # "any" /\ got = <<>>
          <5>1. op \in Managed /\ Len(got) + 1 = 1
            BY <1>0, <2>1, <4>1 DEF ReadingInv, Idle, InventoryTypeOK
          <5>2. Attribute = "vendor"
            BY <2>1, <5>1, AttributesOf DEF Attribute
          <5> QED BY <2>2, <5>1, <5>2 DEF Managed
        <4>2. CASE filter = "any"
          BY <4>2 DEF OfVendor
        <4> QED BY <4>1, <4>2
      <3> QED BY <2>1, <3>1, <3>2, TakeInv
    <2>3. CASE ~(Attribute = "links" \/ op = "cc")
      <3>1. /\ at' = NoAddress /\ UNCHANGED <<got, records, cache>>
            /\ IF op \in {"catalog", "lookup"} THEN outcome' = "failed" /\ todo' = {}
                                               ELSE UNCHANGED <<outcome, todo>>
        BY <1>7, <2>3 DEF ReadFails
      <3>2. InventoryTypeOK'
        BY <1>0, <2>1, <3>1 DEF InventoryTypeOK
      <3>3. ReadingInv' /\ RecordsInv'
        BY <1>0, <2>1, <3>1 DEF ReadingInv, RecordsInv, True, OfVendor
      <3>4. AccountInv'
        <4>1. CASE op \in {"catalog", "lookup"}
          BY <2>1, <3>1, <4>1 DEF AccountInv
        <4>2. CASE op \notin {"catalog", "lookup"}
          <5>1. op \in {"list", "cc", "iommufd"}
            BY <2>1, <4>2 DEF Reader
          <5> QED BY <1>0, <2>1, <3>1, <4>2, <5>1 DEF AccountInv, Accounted, Present
        <4> QED BY <4>1, <4>2
      <3> QED BY <3>2, <3>3, <3>4 DEF InventoryInv
    <2> QED BY <2>2, <2>3
  <1>8. CASE Finish
    <2>1. /\ ~Idle /\ at = NoAddress /\ todo = {} /\ outcome' = "ok"
          /\ UNCHANGED <<bus, cache, op, filter, todo, at, got, records, hit, failed,
                         steady, trusted>>
      BY <1>8 DEF Finish
    <2>2. InventoryTypeOK' /\ ReadingInv' /\ RecordsInv'
      BY <1>0, <2>1 DEF InventoryTypeOK, ReadingInv, RecordsInv, True, OfVendor
    <2>3. AccountInv'
      BY <1>0, <2>1 DEF AccountInv, Accounted, Present, Idle
    <2> QED BY <2>2, <2>3 DEF InventoryInv
  <1>l. CASE ListFails
    <2>1. /\ ~Idle /\ at = NoAddress /\ outcome' = "failed" /\ todo' = {}
          /\ UNCHANGED <<bus, cache, op, filter, at, got, records, hit, failed, steady, trusted>>
      BY <1>l DEF ListFails
    <2>2. InventoryTypeOK' /\ ReadingInv' /\ RecordsInv' /\ AccountInv'
      BY <1>0, <2>1 DEF InventoryTypeOK, ReadingInv, RecordsInv, AccountInv, True, OfVendor, Idle
    <2> QED BY <2>2 DEF InventoryInv
  <1>9. CASE UNCHANGED inventoryVars
    BY <1>0, <1>9
       DEF inventoryVars, call, InventoryInv, InventoryTypeOK, ReadingInv, RecordsInv,
           AccountInv, Accounted,
                      Present, Idle, True, OfVendor
  <1> QED BY <1>1, <1>2, <1>3, <1>4, <1>5, <1>6, <1>7, <1>8, <1>l, <1>9
          DEF InventoryNext, Readable

LEMMA InventoryAlwaysInv == InventorySpec => []InventoryInv
  BY InventoryInitInv, InventoryStepInv, PTL DEF InventorySpec

\* Whatever changes on the bus while a list is made, a record is of one
\* function, the one at its address, and of the vendor asked for; and so it
\* stays in the cache for as long as that function stays.
THEOREM RecordsAreAlwaysTrue == InventorySpec => []RecordsAreTrue
  <1>1. InventoryInv => RecordsAreTrue
    BY DEF InventoryInv, RecordsInv, RecordsAreTrue, OfVendor
  <1> QED BY <1>1, InventoryAlwaysInv, PTL

\* No function is missing from a list but for the reasons its reader may leave
\* one out for.
THEOREM NothingIsOverlooked == InventorySpec => []NothingOverlooked
  <1>1. InventoryInv => NothingOverlooked
    BY InventoryAssumption
       DEF InventoryInv, InventoryTypeOK, AccountInv, Accounted, NothingOverlooked, Ok, Present
  <1> QED BY <1>1, InventoryAlwaysInv, PTL
=============================================================================
