------------------------- MODULE PlatformScanProofs -------------------------
(***************************************************************************)
(* Proofs about PlatformScan: what an Ok scan promises of the functions    *)
(* that were there all along, for any bus, any functions and any number of *)
(* changes.                                                                *)
(***************************************************************************)
EXTENDS PlatformScan, TLAPS

\* A scan runs, or has returned Ok.
Live == pc # "idle" \/ Ok

\* A pass that the call has, and no result before the scan returns.
Passes ==
  /\ pc # "idle" => op # "none" /\ result = NoResult
  /\ pc = "vpd" => op # "functions"
  /\ pc = "ports" => op = "ports"
  /\ pc = "identity" => op = "platform"
  /\ Ok /\ op # "platform" => result.kind = NoKind

\* What the pass over the functions has still to read.
Listed == IF pc = "functions" THEN todo ELSE {}

\* No function that was there all along is lost.
SeenFunctions ==
  Live =>
    \A a \in steady :
      /\ IsGpu(bus[a]) => a \in gpus \cup Listed
      /\ IsSwitch(bus[a]) => a \in switches \cup Listed
      /\ IsMellanox(bus[a]) /\ ~bus[a].vf => a \in mellanox \cup Listed

\* The VPD pass has read the marker of each of them.
Past(pass) == Live /\ pc \notin {"functions", pass} /\ op # "functions"

SeenMarkers ==
  /\ Live /\ pc = "vpd" => todo \subseteq mellanox
  /\ Live /\ pc # "functions" /\ op # "functions" =>
       \A a \in steady :
         IsMellanox(bus[a]) /\ ~bus[a].vf /\ bus[a].marked
           => a \in marked \/ (pc = "vpd" /\ a \in todo)

\* What is in a role has been there, or has changed.
Earned ==
  /\ Live => \A a \in mellanox \cap steady : IsMellanox(bus[a])
  /\ Live => \A a \in marked \cap steady : IsMellanox(bus[a]) /\ bus[a].marked
  /\ Past("vpd") => \A a \in mellanox \cap steady : ~bus[a].vf
  /\ pc = "vpd" => \A a \in (mellanox \ todo) \cap steady : ~bus[a].vf

\* The ports chosen, and those that are to be.
Chosen ==
  Live =>
    \A p \in ports :
      /\ p.function \in Management /\ pc \notin {"functions", "vpd"}
      /\ p.function \in steady =>
           LET port == bus[p.function].port
           IN Fit(port) /\ p.guid = port.guid /\ p.guid # 0

SeenPorts ==
  Past("vpd") /\ op = "ports" =>
    \A a \in Management \cap steady :
      Fit(bus[a].port) =>
        \/ [function |-> a, guid |-> bus[a].port.guid] \in ports
        \/ pc = "ports" /\ a \in todo

\* The identities read, and those that are to be.
SeenChips ==
  Past("vpd") /\ op = "platform" =>
    /\ \A a \in steady :
         IsGpu(bus[a]) => bus[a].chip \in chips \/ (pc = "identity" /\ a \in todo)
    /\ Ok /\ pc = "idle" => result.kind = Classify

Inv == TypeOK /\ Passes /\ SeenFunctions /\ SeenMarkers /\ Earned
         /\ Chosen /\ SeenPorts /\ SeenChips

-----------------------------------------------------------------------------

\* What is at an address has the fields of a function.
LEMMA BusType ==
  ASSUME TypeOK, NEW a \in Addresses
  PROVE  /\ bus[a].chip \in Chip \cup {Unknown}
         /\ bus[a].port.guid \in Nat
BY ScanAssumption DEF TypeOK, Empty, NoPort

\* An address without a function is in no role.
LEMMA EmptyHasNoRole == ~IsGpu(Empty) /\ ~IsSwitch(Empty) /\ ~IsMellanox(Empty)
BY DEF IsGpu, IsSwitch, IsMellanox, Empty

\* No port that is fit is left out of the pass over the ports.
LEMMA NoPortUnfit == ~Fit(NoPort)
BY DEF Fit, NoPort

LEMMA InitInv == Init => Inv
<1> SUFFICES ASSUME Init
             PROVE  Inv
  OBVIOUS
<1>1. TypeOK
  BY ScanAssumption DEF Init, TypeOK, NoResult, NoKind, Kind
<1>2. ~Live /\ result.kind = NoKind
  BY DEF Init, Live, Ok, NoResult
<1> QED
  BY <1>1, <1>2 DEF Init, Inv, Passes, SeenFunctions, SeenMarkers, Earned, Chosen, SeenPorts,
                    SeenChips, Past

\* What a set of known identities makes of the platform: if it has a family,
\* all identities are one that has it.
LEMMA ClassifyType ==
  ASSUME chips \subseteq Chip \cup {Unknown}
  PROVE  /\ Classify.platform \in {"unknown", "pcie", "coherent", "hgx", "mixed"}
         /\ Classify.family \in Family \cup {"unknown"}
         /\ Classify.family # "unknown" =>
              \A c \in chips :
                /\ c.family = Classify.family
                /\ c.attachment =
                     IF Classify.platform = "hgx" THEN "sxm" ELSE Classify.platform
<1>1. CASE Mixed
  BY <1>1 DEF Classify, Kind
<1>2. CASE ~Mixed /\ (Known = {} \/ Unknown \in chips)
  BY <1>2 DEF Classify, NoKind, Kind
<1>3. CASE ~Mixed /\ Known # {} /\ Unknown \notin chips
  <2> DEFINE c == CHOOSE k \in Known : TRUE
  <2>1. c \in Known
    BY <1>3
  <2> HIDE DEF c
  <2>2. c \in Chip /\ \A d \in chips : d = c
    BY <1>3, <2>1 DEF Known, Mixed
  <2>3. c.family \in Family /\ c.attachment \in Attachment
    BY <2>2 DEF Chip
  <2>4. Classify = KindOf(c)
    BY <1>3 DEF Classify, c
  <2>5. \/ c.attachment # "sxm" /\ Classify = Kind(c.attachment, c.family)
        \/ c.attachment = "sxm" /\ Classify = Kind("hgx", c.family)
        \/ Classify = NoKind
    BY <2>4 DEF KindOf
  <2> QED
    BY <2>2, <2>3, <2>5 DEF Kind, NoKind, Attachment
<1> QED
  BY <1>1, <1>2, <1>3

\* Every step keeps the types.
LEMMA TypeStep == TypeOK /\ [Next]_vars => TypeOK'
<1> SUFFICES ASSUME TypeOK, [Next]_vars
             PROVE  TypeOK'
  OBVIOUS
<1>k. NoKind.platform = "unknown" /\ NoKind.family = "unknown"
  BY DEF NoKind, Kind
<1>1. ASSUME NEW o \in {"functions", "topology", "ports", "platform"}, Begin(o)
      PROVE  TypeOK'
  BY <1>1, <1>k, ScanAssumption DEF Begin, TypeOK, Present, NoResult
<1>2. ASSUME NEW a \in Addresses, ReadFunction(a)
      PROVE  TypeOK'
  BY <1>2 DEF ReadFunction, TypeOK
<1>3. ASSUME NEW a \in Addresses, FunctionGone(a)
      PROVE  TypeOK'
  BY <1>3, <1>k DEF FunctionGone, Return, TypeOK, found
<1>4. ASSUME NEW a \in Addresses, ReadVpd(a)
      PROVE  TypeOK'
  BY <1>4 DEF ReadVpd, TypeOK
<1>5. ASSUME NEW a \in Addresses, ReadPort(a)
      PROVE  TypeOK'
  <2>1. ports' \subseteq [function : Addresses, guid : Nat]
    BY <1>5, BusType DEF ReadPort, TypeOK
  <2> QED
    BY <1>5, <2>1 DEF ReadPort, TypeOK
<1>6. ASSUME NEW a \in Addresses, ReadIdentity(a)
      PROVE  TypeOK'
  BY <1>6, BusType DEF ReadIdentity, TypeOK
<1>7. ASSUME NEW a \in Addresses, NEW d \in Devices \cup {Empty}, Change(a, d)
      PROVE  TypeOK'
  BY <1>7, ScanAssumption DEF Change, TypeOK, found
<1>8. CASE EndFunctions
  BY <1>8, <1>k DEF EndFunctions, Return, TypeOK, found
<1>9. CASE EndVpd
  BY <1>9, <1>k DEF EndVpd, Return, TypeOK, found
<1>10. CASE EndPorts
  BY <1>10, <1>k DEF EndPorts, Return, TypeOK, found
<1>11. CASE EndIdentity
  <2>1. /\ Classify.platform \in {"unknown", "pcie", "coherent", "hgx", "mixed"}
        /\ Classify.family \in Family \cup {"unknown"}
    BY ClassifyType DEF TypeOK
  <2> QED
    BY <1>11, <2>1 DEF EndIdentity, Return, TypeOK, found
<1>12. CASE ReadFails
  BY <1>12, <1>k DEF ReadFails, Return, TypeOK, found
<1>13. CASE UNCHANGED vars
  BY <1>13 DEF vars, found, TypeOK
<1> QED
  BY <1>1, <1>2, <1>3, <1>4, <1>5, <1>6, <1>7, <1>8, <1>9, <1>10, <1>11, <1>12, <1>13 DEF Next

\* Roles and kind depend on what was found, and on nothing else.
LEMMA RolesKept ==
  ASSUME UNCHANGED <<switches, mellanox, marked, chips>>
  PROVE  Management' = Management /\ Classify' = Classify
BY DEF Management, FabricInterface, Mixed, Known, KindOf, Classify

\* A scan that fails is no longer live.
LEMMA FailInv ==
  ASSUME Inv, TypeOK', pc' = "idle", result' = [status |-> "failed", kind |-> NoKind]
  PROVE  Inv'
BY DEF Inv, Passes, SeenFunctions, SeenMarkers, Earned, Chosen, SeenPorts, SeenChips, Past,
       Live, Ok

\* Every step preserves the invariant: one case per action.
LEMMA StepInv == Inv /\ [Next]_vars => Inv'
<1> SUFFICES ASSUME Inv, [Next]_vars
             PROVE  Inv'
  OBVIOUS
<1>t. TypeOK /\ TypeOK'
  BY TypeStep DEF Inv
<1> USE DEF Inv, Passes, SeenFunctions, SeenMarkers, Earned, Chosen, SeenPorts, SeenChips,
            Past, Live, Ok, Listed
<1>1. ASSUME NEW o \in {"functions", "topology", "ports", "platform"}, Begin(o)
      PROVE  Inv'
  BY <1>1, <1>t, EmptyHasNoRole DEF Begin, Present, NoResult, TypeOK
<1>2. ASSUME NEW a \in Addresses, ReadFunction(a)
      PROVE  Inv'
  BY <1>2, <1>t DEF ReadFunction, NoResult
<1>3. ASSUME NEW a \in Addresses, FunctionGone(a)
      PROVE  Inv'
  BY <1>3, <1>t, FailInv DEF FunctionGone, Return
<1>4. ASSUME NEW a \in Addresses, ReadVpd(a)
      PROVE  Inv'
  BY <1>4, <1>t DEF ReadVpd, NoResult
<1>5. ASSUME NEW a \in Addresses, ReadPort(a)
      PROVE  Inv'
  BY <1>5, <1>t, RolesKept DEF ReadPort, NoResult
<1>6. ASSUME NEW a \in Addresses, ReadIdentity(a)
      PROVE  Inv'
  BY <1>6, <1>t DEF ReadIdentity, NoResult, Management
<1>7. ASSUME NEW a \in Addresses, NEW d \in Devices \cup {Empty}, Change(a, d)
      PROVE  Inv'
  BY <1>7, <1>t, RolesKept DEF Change, found, NoResult, TypeOK
<1>8. CASE EndFunctions
  BY <1>8, <1>t, RolesKept DEF EndFunctions, Return, found, NoResult
<1>9. CASE EndVpd
  <2>1. pc = "vpd" /\ todo = {} /\ UNCHANGED <<bus, op, found, steady>>
    BY <1>9 DEF EndVpd
  <2>2. Management' = Management /\ Classify' = Classify
    BY <2>1, RolesKept DEF found
  <2>3. CASE op = "topology" /\ Return("ok", NoKind)
    BY <2>1, <2>2, <2>3, <1>t DEF Return, found
  <2>4. CASE /\ op = "ports" /\ pc' = "ports" /\ UNCHANGED result
             /\ todo' = {a \in Addresses : bus[a].port # NoPort}
    <3>1. \A a \in Management \cap steady : Fit(bus[a].port) => a \in todo'
      BY <2>4, <1>t, NoPortUnfit DEF TypeOK
    <3> QED
      BY <2>1, <2>2, <2>4, <3>1, <1>t DEF found, NoResult
  <2>5. CASE op = "platform" /\ pc' = "identity" /\ todo' = gpus /\ UNCHANGED result
    BY <2>1, <2>2, <2>5, <1>t DEF found, NoResult
  <2> QED
    BY <1>9, <2>3, <2>4, <2>5 DEF EndVpd
<1>10. CASE EndPorts
  BY <1>10, <1>t, RolesKept DEF EndPorts, Return, found, NoResult
<1>11. CASE EndIdentity
  BY <1>11, <1>t, RolesKept DEF EndIdentity, Return, found, NoResult
<1>12. CASE ReadFails
  BY <1>12, <1>t, FailInv DEF ReadFails, Return
<1>13. CASE UNCHANGED vars
  BY <1>13, <1>t, RolesKept DEF vars, found
<1> QED
  BY <1>1, <1>2, <1>3, <1>4, <1>5, <1>6, <1>7, <1>8, <1>9, <1>10, <1>11, <1>12, <1>13 DEF Next

LEMMA AlwaysInv == Spec => []Inv
BY InitInv, StepInv, PTL DEF Spec

\* Every variable of PlatformScan keeps its type.
THEOREM TypeCorrect == Spec => []TypeOK
BY AlwaysInv, PTL DEF Inv

\* An Ok scan has every GPU, switch and management port that was there all
\* along, however many functions come and go meanwhile.
THEOREM NothingIsOverlooked == Spec => []NothingOverlooked
<1>1. Inv => NothingOverlooked
  <2> SUFFICES ASSUME Inv, Ok
               PROVE  NothingOverlooked
    BY DEF NothingOverlooked
  <2>1. pc = "idle" /\ Live
    BY DEF Inv, Passes, Live, Ok, NoResult
  <2>2. Steady(IsGpu) \subseteq gpus /\ Steady(IsSwitch) \subseteq switches
    BY <2>1 DEF Inv, SeenFunctions, Listed, Steady
  <2>3. ASSUME op # "functions", NEW a \in Steady(IsMellanox), NEW b \in Steady(IsMellanox),
               ~bus[a].vf, ~bus[b].vf, bus[b].marked, Slot[a] = Slot[b]
        PROVE  /\ a \in Management
               /\ op = "ports" /\ Fit(bus[a].port)
                    => [function |-> a, guid |-> bus[a].port.guid] \in ports
    <3>1. a \in steady /\ a \in mellanox /\ b \in marked
      BY <2>1, <2>3 DEF Inv, SeenFunctions, SeenMarkers, Listed, Steady
    <3>2. a \in Management
      BY <2>3, <3>1 DEF Management
    <3> QED
      BY <2>1, <2>3, <3>1, <3>2 DEF Inv, SeenPorts, Past
  <2> QED
    BY <2>2, <2>3 DEF NothingOverlooked
<1> QED
  BY <1>1, AlwaysInv, PTL

\* No function has a role, and no port is chosen, that it has not earned.
THEOREM RolesAreAlwaysEarned == Spec => []RolesAreEarned
<1>1. Inv => RolesAreEarned
  BY DEF Inv, Passes, Earned, Chosen, Past, Live, Ok, RolesAreEarned, Management, TypeOK,
         NoResult
<1> QED
  BY <1>1, AlwaysInv, PTL

\* The kind of an Ok scan is that of every GPU that was there all along.
THEOREM KindIsAlwaysProved == Spec => []KindIsProved
<1>1. Inv => KindIsProved
  <2> SUFFICES ASSUME Inv, Ok, result.kind.family # "unknown",
                      NEW a \in steady, IsGpu(bus[a])
               PROVE  /\ bus[a].chip.family = result.kind.family
                      /\ bus[a].chip.attachment =
                           IF result.kind.platform = "hgx" THEN "sxm" ELSE result.kind.platform
    BY DEF KindIsProved, Steady
  <2>1. pc = "idle" /\ op = "platform"
    BY DEF Inv, Passes, Ok, NoResult, NoKind, Kind
  <2>2. bus[a].chip \in chips /\ result.kind = Classify
    BY <2>1 DEF Inv, SeenChips, Past, Live
  <2> QED
    BY <2>2, ClassifyType DEF Inv, TypeOK
<1> QED
  BY <1>1, AlwaysInv, PTL
=============================================================================
