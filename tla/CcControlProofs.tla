-------------------------- MODULE CcControlProofs --------------------------
(***************************************************************************)
(* Proofs about CcControl, for every set of device profiles and every set  *)
(* of knob settings a device may be found with.                            *)
(***************************************************************************)
EXTENDS CcControl, TLAPS

-----------------------------------------------------------------------------
(* The plans, step by step.                                                *)

\* set_cc_mode(On) and set_cc_mode(DevTools) on Hopper run seven steps.
LEMMA CcOnHopperPlan ==
  ASSUME NEW p, Hopper(p), NEW m \in {"on", "devtools"}
  PROVE  /\ Len(CcPlan(p, m)) = 7
         /\ CcPlan(p, m)[1] = Step("knob2", 0)
         /\ CcPlan(p, m)[2] = Step("knob4", 0)
         /\ CcPlan(p, m)[3] = Step("knob34", 0)
         /\ CcPlan(p, m)[4] = Step("ppcie", 0)
         /\ CcPlan(p, m)[5] = Step("decoupler", CcGoal(m).decoupler)
         /\ CcPlan(p, m)[6] = Step("ccm", 1)
         /\ CcPlan(p, m)[7] = Step("ccd", CcGoal(m).ccd)
  BY DEF CcPlan, ConflictSteps, DecouplerSteps, CcSteps, CcGoal, Step

\* set_cc_mode(Off) on Hopper runs three steps.
LEMMA CcOffHopperPlan ==
  ASSUME NEW p, Hopper(p)
  PROVE  /\ Len(CcPlan(p, "off")) = 3
         /\ CcPlan(p, "off")[1] = Step("decoupler", 0)
         /\ CcPlan(p, "off")[2] = Step("ccd", 0)
         /\ CcPlan(p, "off")[3] = Step("ccm", 0)
  BY DEF CcPlan, ConflictSteps, DecouplerSteps, CcSteps, CcGoal, Step

\* On the other GPUs set_cc_mode runs the two CC steps only.
LEMMA CcOtherPlan ==
  ASSUME NEW p, ~Hopper(p), NEW m \in CcMode
  PROVE  /\ Len(CcPlan(p, m)) = 2
         /\ m = "off" => /\ CcPlan(p, m)[1] = Step("ccd", 0)
                         /\ CcPlan(p, m)[2] = Step("ccm", 0)
         /\ m # "off" => /\ CcPlan(p, m)[1] = Step("ccm", 1)
                         /\ CcPlan(p, m)[2] = Step("ccd", CcGoal(m).ccd)
  BY DEF CcPlan, ConflictSteps, DecouplerSteps, CcSteps, CcGoal, Step, CcMode

\* set_ppcie_mode(On) runs seven steps, the PPCIE knob last.
LEMMA PpcieOnPlan ==
  ASSUME NEW p
  PROVE  /\ Len(PpciePlan(p, "on")) = 7
         /\ PpciePlan(p, "on")[1] = Step("knob2", 0)
         /\ PpciePlan(p, "on")[2] = Step("knob4", 0)
         /\ PpciePlan(p, "on")[3] = Step("ccd", 0)
         /\ PpciePlan(p, "on")[4] = Step("ccm", 0)
         /\ PpciePlan(p, "on")[5] = Step("knob34", 0)
         /\ PpciePlan(p, "on")[6] = Step("decoupler", IF Hopper(p) THEN 2 ELSE 0)
         /\ PpciePlan(p, "on")[7] = Step("ppcie", 1)
  BY DEF PpciePlan, Step

\* set_ppcie_mode(Off) runs two steps.
LEMMA PpcieOffPlan ==
  ASSUME NEW p
  PROVE  /\ Len(PpciePlan(p, "off")) = 2
         /\ PpciePlan(p, "off")[1] = Step("decoupler", 0)
         /\ PpciePlan(p, "off")[2] = Step("ppcie", 0)
  BY DEF PpciePlan, Step

KnobStep == [knob : Knob, value : Nat]

\* What a step is made of.
LEMMA StepFields ==
  ASSUME NEW k, NEW v
  PROVE  /\ Step(k, v).knob = k
         /\ Step(k, v).value = v
         /\ k \in Knob /\ v \in Nat => Step(k, v) \in KnobStep
  BY DEF Step, KnobStep

\* The three kinds of CC mode, the two kinds of PPCIE mode.
LEMMA SetCallCases ==
  ASSUME NEW c \in SetCall
  PROVE  \/ c.op = "cc" /\ c.mode = "off"
         \/ c.op = "cc" /\ c.mode \in {"on", "devtools"}
         \/ c.op = "ppcie" /\ c.mode = "on"
         \/ c.op = "ppcie" /\ c.mode = "off"
  BY DEF SetCall, CcCall, PpcieCall, CcMode, PpcieMode

\* Every step of a plan writes a natural number to a knob.
LEMMA PlanSteps ==
  ASSUME NEW p, NEW c \in SetCall
  PROVE  /\ Len(Plan(p, c)) \in Nat \ {0}
         /\ \A i \in 1..Len(Plan(p, c)) : Plan(p, c)[i] \in KnobStep
  <1> DEFINE q == Plan(p, c)
  <1>0. /\ \A k \in Knob : \A v \in Nat : Step(k, v) \in KnobStep
        /\ \A m : CcGoal(m).ccd \in Nat /\ CcGoal(m).decoupler \in Nat
    BY StepFields DEF CcGoal
  <1>1. CASE c.op = "cc" /\ Hopper(p) /\ c.mode \in {"on", "devtools"}
    <2>1. q = CcPlan(p, c.mode)
      BY <1>1 DEF Plan
    <2>2. Len(q) = 7 /\ \A i \in {1,2,3,4,5,6,7} : q[i] \in KnobStep
      BY <1>0, <1>1, <2>1, CcOnHopperPlan DEF Knob
    <2> QED BY <2>2
  <1>2. CASE c.op = "cc" /\ Hopper(p) /\ c.mode = "off"
    <2>1. q = CcPlan(p, "off")
      BY <1>2 DEF Plan
    <2>2. Len(q) = 3 /\ \A i \in {1,2,3} : q[i] \in KnobStep
      BY <1>0, <1>2, <2>1, CcOffHopperPlan DEF Knob
    <2> QED BY <2>2
  <1>3. CASE c.op = "cc" /\ ~Hopper(p)
    <2>1. q = CcPlan(p, c.mode) /\ c.mode \in CcMode
      BY <1>3, SetCallCases DEF Plan, CcMode
    <2>2. Len(q) = 2 /\ \A i \in {1,2} : q[i] \in KnobStep
      BY <1>0, <1>3, <2>1, CcOtherPlan DEF Knob
    <2> QED BY <2>2
  <1>4. CASE c.op = "ppcie" /\ c.mode = "on"
    <2>1. q = PpciePlan(p, "on")
      BY <1>4 DEF Plan
    <2>2. Len(q) = 7 /\ \A i \in {1,2,3,4,5,6,7} : q[i] \in KnobStep
      <3>1. (IF Hopper(p) THEN 2 ELSE 0) \in Nat
        OBVIOUS
      <3> QED BY <1>0, <2>1, <3>1, PpcieOnPlan DEF Knob
    <2> QED BY <2>2
  <1>5. CASE c.op = "ppcie" /\ c.mode = "off"
    <2>1. q = PpciePlan(p, "off")
      BY <1>5 DEF Plan
    <2>2. Len(q) = 2 /\ \A i \in {1,2} : q[i] \in KnobStep
      BY <1>0, <2>1, PpcieOffPlan DEF Knob
    <2> QED BY <2>2
  <1> QED BY <1>1, <1>2, <1>3, <1>4, <1>5, SetCallCases

\* No plan comes back to a knob it has already set.
LEMMA PlanKnobsDiffer ==
  ASSUME NEW p, NEW c \in SetCall,
         NEW i \in 1..Len(Plan(p, c)), NEW j \in 1..Len(Plan(p, c)), i # j
  PROVE  Plan(p, c)[i].knob # Plan(p, c)[j].knob
  <1> DEFINE q == Plan(p, c)
  <1>1. CASE c.op = "cc" /\ Hopper(p) /\ c.mode \in {"on", "devtools"}
    <2>1. q = CcPlan(p, c.mode)
      BY <1>1 DEF Plan
    <2>2. /\ Len(q) = 7
          /\ q[1].knob = "knob2" /\ q[2].knob = "knob4" /\ q[3].knob = "knob34"
          /\ q[4].knob = "ppcie" /\ q[5].knob = "decoupler"
          /\ q[6].knob = "ccm" /\ q[7].knob = "ccd"
      BY <1>1, <2>1, CcOnHopperPlan, StepFields
    <2> HIDE DEF q
    <2> QED BY <2>2 DEF q
  <1>2. CASE c.op = "cc" /\ Hopper(p) /\ c.mode = "off"
    <2>1. q = CcPlan(p, "off")
      BY <1>2 DEF Plan
    <2>2. /\ Len(q) = 3
          /\ q[1].knob = "decoupler" /\ q[2].knob = "ccd" /\ q[3].knob = "ccm"
      BY <1>2, <2>1, CcOffHopperPlan, StepFields
    <2> QED BY <2>2
  <1>3. CASE c.op = "cc" /\ ~Hopper(p)
    <2>1. q = CcPlan(p, c.mode) /\ c.mode \in CcMode
      BY <1>3, SetCallCases DEF Plan, CcMode
    <2>2. /\ Len(q) = 2
          /\ \/ q[1].knob = "ccd" /\ q[2].knob = "ccm"
             \/ q[1].knob = "ccm" /\ q[2].knob = "ccd"
      BY <1>3, <2>1, CcOtherPlan, StepFields
    <2> QED BY <2>2
  <1>4. CASE c.op = "ppcie" /\ c.mode = "on"
    <2>1. q = PpciePlan(p, "on")
      BY <1>4 DEF Plan
    <2>2. /\ Len(q) = 7
          /\ q[1].knob = "knob2" /\ q[2].knob = "knob4" /\ q[3].knob = "ccd"
          /\ q[4].knob = "ccm" /\ q[5].knob = "knob34"
          /\ q[6].knob = "decoupler" /\ q[7].knob = "ppcie"
      BY <2>1, PpcieOnPlan, StepFields
    <2> HIDE DEF q
    <2> QED BY <2>2 DEF q
  <1>5. CASE c.op = "ppcie" /\ c.mode = "off"
    <2>1. q = PpciePlan(p, "off")
      BY <1>5 DEF Plan
    <2>2. Len(q) = 2 /\ q[1].knob = "decoupler" /\ q[2].knob = "ppcie"
      BY <2>1, PpcieOffPlan, StepFields
    <2> QED BY <2>2
  <1> QED BY <1>1, <1>2, <1>3, <1>4, <1>5, SetCallCases

\* The first n steps of the plan of c hold in the knobs k of a device p.
DoneUpTo(p, k, c, n) ==
  \A i \in 1..n : k[Plan(p, c)[i].knob] = Plan(p, c)[i].value

\* A plan carried out to its end has stored what the mode means.
LEMMA WholePlanMeets ==
  ASSUME NEW p, NEW k, NEW c \in SetCall, DoneUpTo(p, k, c, Len(Plan(p, c)))
  PROVE  Meets(p, k, c)
  <1> DEFINE q == Plan(p, c)
  <1>1. CASE c.op = "cc" /\ Hopper(p) /\ c.mode \in {"on", "devtools"}
    <2>1. q = CcPlan(p, c.mode)
      BY <1>1 DEF Plan
    <2>2. \A i \in 1..7 : k[q[i].knob] = q[i].value
      BY <1>1, <2>1, CcOnHopperPlan DEF DoneUpTo
    <2>3. /\ k["knob2"] = 0 /\ k["knob4"] = 0 /\ k["knob34"] = 0 /\ k["ppcie"] = 0
          /\ k["decoupler"] = CcGoal(c.mode).decoupler
          /\ k["ccm"] = 1 /\ k["ccd"] = CcGoal(c.mode).ccd
      BY <1>1, <2>1, <2>2, CcOnHopperPlan, StepFields
    <2> QED BY <1>1, <2>3 DEF Meets, CcConflict, CcGoal
  <1>2. CASE c.op = "cc" /\ Hopper(p) /\ c.mode = "off"
    <2>1. q = CcPlan(p, "off")
      BY <1>2 DEF Plan
    <2>2. \A i \in 1..3 : k[q[i].knob] = q[i].value
      BY <1>2, <2>1, CcOffHopperPlan DEF DoneUpTo
    <2>3. k["decoupler"] = 0 /\ k["ccd"] = 0 /\ k["ccm"] = 0
      BY <1>2, <2>1, <2>2, CcOffHopperPlan, StepFields
    <2> QED BY <1>2, <2>3 DEF Meets, CcGoal
  <1>3. CASE c.op = "cc" /\ ~Hopper(p)
    <2>1. q = CcPlan(p, c.mode) /\ c.mode \in CcMode
      BY <1>3, SetCallCases DEF Plan, CcMode
    <2>2. \A i \in 1..2 : k[q[i].knob] = q[i].value
      BY <1>3, <2>1, CcOtherPlan DEF DoneUpTo
    <2>3. CASE c.mode = "off"
      <3>1. k["ccd"] = 0 /\ k["ccm"] = 0
        BY <1>3, <2>1, <2>2, <2>3, CcOtherPlan, StepFields
      <3> QED BY <1>3, <2>3, <3>1 DEF Meets, CcGoal
    <2>4. CASE c.mode # "off"
      <3>1. k["ccd"] = CcGoal(c.mode).ccd /\ k["ccm"] = 1
        BY <1>3, <2>1, <2>2, <2>4, CcOtherPlan, StepFields
      <3> QED BY <1>3, <2>4, <3>1 DEF Meets, CcGoal
    <2> QED BY <2>3, <2>4
  <1>4. CASE c.op = "ppcie" /\ c.mode = "on"
    <2>1. q = PpciePlan(p, "on")
      BY <1>4 DEF Plan
    <2>2. \A i \in 1..7 : k[q[i].knob] = q[i].value
      BY <2>1, PpcieOnPlan DEF DoneUpTo
    <2>3. /\ k["knob2"] = 0 /\ k["knob4"] = 0 /\ k["knob34"] = 0
          /\ k["ccd"] = 0 /\ k["ccm"] = 0 /\ k["ppcie"] = 1
          /\ k["decoupler"] = IF Hopper(p) THEN 2 ELSE 0
      BY <2>1, <2>2, PpcieOnPlan, StepFields
    <2> QED BY <1>4, <2>3 DEF Meets
  <1>5. CASE c.op = "ppcie" /\ c.mode = "off"
    <2>1. q = PpciePlan(p, "off")
      BY <1>5 DEF Plan
    <2>2. k["decoupler"] = 0 /\ k["ppcie"] = 0
      BY <2>1, PpcieOffPlan, StepFields DEF DoneUpTo
    <2> QED BY <1>5, <2>2 DEF Meets
  <1> QED BY <1>1, <1>2, <1>3, <1>4, <1>5, SetCallCases

-----------------------------------------------------------------------------
(* Which writes are safe, and that a plan only makes safe ones.            *)

\* Writing s over the knobs k of a device p makes neither a CCD-only state
\* nor a conflict with CC.
SafeWrite(p, k, s) ==
  /\ s.knob = "ccd" /\ s.value # 0 => k["ccm"] # 0
  /\ s.knob = "ccm" /\ s.value = 0 => k["ccd"] = 0
  /\ s.knob \in {"ccm", "ccd"} /\ s.value # 0 /\ SupportsPpcie(p) =>
       \A n \in CcConflict : k[n] = 0
  /\ s.knob \in CcConflict /\ s.value # 0 => k["ccm"] = 0 /\ k["ccd"] = 0

\* The step a plan has come to is safe when the steps before it hold.
LEMMA PlanWritesAreSafe ==
  ASSUME NEW p, NEW k, NEW c \in SetCall, Offers(p, c),
         NEW n \in 1..Len(Plan(p, c)), DoneUpTo(p, k, c, n - 1)
  PROVE  SafeWrite(p, k, Plan(p, c)[n])
  <1> DEFINE q == Plan(p, c)
  <1>1. CASE c.op = "cc" /\ Hopper(p) /\ c.mode \in {"on", "devtools"}
    <2>1. q = CcPlan(p, c.mode)
      BY <1>1 DEF Plan
    <2>2. /\ Len(q) = 7
          /\ q[1] = Step("knob2", 0) /\ q[2] = Step("knob4", 0)
          /\ q[3] = Step("knob34", 0) /\ q[4] = Step("ppcie", 0)
          /\ q[5].knob = "decoupler"
          /\ q[6] = Step("ccm", 1) /\ q[7].knob = "ccd"
      BY <1>1, <2>1, CcOnHopperPlan, StepFields
    <2>3. \A i \in 1..(n-1) : k[q[i].knob] = q[i].value
      BY DEF DoneUpTo
    <2>4. CASE n <= 5
      <3>1. \/ q[n].knob \in {"knob2", "knob4", "knob34", "ppcie"} /\ q[n].value = 0
            \/ q[n].knob = "decoupler"
        BY <2>2, <2>4, StepFields
      <3> QED BY <3>1 DEF SafeWrite, CcConflict
    <2>5. CASE n \in {6, 7}
      <3>1. k["knob2"] = 0 /\ k["knob4"] = 0 /\ k["knob34"] = 0 /\ k["ppcie"] = 0
        BY <2>2, <2>3, <2>5, StepFields
      <3>2. n = 7 => k["ccm"] = 1
        BY <2>2, <2>3, <2>5, StepFields
      <3>3. q[n].knob = (IF n = 6 THEN "ccm" ELSE "ccd") /\ (n = 6 => q[n].value = 1)
        BY <2>2, <2>5, StepFields
      <3> QED BY <2>5, <3>1, <3>2, <3>3 DEF SafeWrite, CcConflict
    <2> QED BY <2>2, <2>4, <2>5
  <1>2. CASE c.op = "cc" /\ Hopper(p) /\ c.mode = "off"
    <2>1. q = CcPlan(p, "off")
      BY <1>2 DEF Plan
    <2>2. /\ Len(q) = 3 /\ q[1].knob = "decoupler"
          /\ q[2] = Step("ccd", 0) /\ q[3] = Step("ccm", 0)
      BY <1>2, <2>1, CcOffHopperPlan, StepFields
    <2>3. n = 3 => k["ccd"] = 0
      BY <2>2, StepFields DEF DoneUpTo
    <2> QED BY <2>2, <2>3, StepFields DEF SafeWrite, CcConflict
  <1>3. CASE c.op = "cc" /\ ~Hopper(p)
    <2>0. ~SupportsPpcie(p)
      BY <1>3 DEF SupportsPpcie, Hopper, Offers
    <2>1. q = CcPlan(p, c.mode) /\ c.mode \in CcMode
      BY <1>3, SetCallCases DEF Plan, CcMode
    <2>2. /\ Len(q) = 2
          /\ \/ q[1] = Step("ccd", 0) /\ q[2] = Step("ccm", 0)
             \/ q[1] = Step("ccm", 1) /\ q[2].knob = "ccd"
      BY <1>3, <2>1, CcOtherPlan, StepFields
    <2>3. n = 2 => k[q[1].knob] = q[1].value
      BY <2>2 DEF DoneUpTo
    <2> QED BY <2>0, <2>2, <2>3, StepFields DEF SafeWrite, CcConflict
  <1>4. CASE c.op = "ppcie" /\ c.mode = "on"
    <2>1. q = PpciePlan(p, "on")
      BY <1>4 DEF Plan
    <2>2. /\ Len(q) = 7
          /\ q[1] = Step("knob2", 0) /\ q[2] = Step("knob4", 0)
          /\ q[3] = Step("ccd", 0) /\ q[4] = Step("ccm", 0)
          /\ q[5] = Step("knob34", 0) /\ q[6].knob = "decoupler"
          /\ q[7] = Step("ppcie", 1)
      BY <2>1, PpcieOnPlan, StepFields
    <2>3. /\ n > 3 => k["ccd"] = 0
          /\ n > 4 => k["ccm"] = 0
      BY <2>2, StepFields DEF DoneUpTo
    <2>4. /\ n \in {1, 2, 5} => q[n].knob \in CcConflict /\ q[n].value = 0
          /\ n = 3 => q[n].knob = "ccd" /\ q[n].value = 0
          /\ n = 4 => q[n].knob = "ccm" /\ q[n].value = 0
          /\ n = 6 => q[n].knob = "decoupler"
          /\ n = 7 => q[n].knob = "ppcie"
      BY <2>2, StepFields DEF CcConflict
    <2> QED BY <2>2, <2>3, <2>4 DEF SafeWrite, CcConflict
  <1>5. CASE c.op = "ppcie" /\ c.mode = "off"
    <2>1. q = PpciePlan(p, "off")
      BY <1>5 DEF Plan
    <2>2. Len(q) = 2 /\ q[1].knob = "decoupler" /\ q[2] = Step("ppcie", 0)
      BY <2>1, PpcieOffPlan, StepFields
    <2> QED BY <2>2, StepFields DEF SafeWrite, CcConflict
  <1> QED BY <1>1, <1>2, <1>3, <1>4, <1>5, SetCallCases

-----------------------------------------------------------------------------
(* Plans that go by the answers to earlier commands.                       *)

\* A device over MNOC in the state no call makes.
CcdOnlyAt(p, k) == OverMnoc(p) /\ k["ccm"] = 0 /\ k["ccd"] # 0

\* The plan of c was found ready for its step n + 1, perhaps by the answer of
\* the other knob: a step taken for done without being so is the first of
\* two, and CCM is then on already, or the device was found CCD-only.
Prepared(p, k, c, n) ==
  \/ DoneUpTo(p, k, c, n)
  \/ /\ OverMnoc(p) /\ c.op = "cc" /\ n = 1
     /\ CcdOnlyAt(p, k) \/ (c.mode # "off" /\ k["ccm"] # 0)

\* MNOC devices know neither PPCIE nor the other Hopper knobs.
LEMMA MnocHasNoPpcie ==
  ASSUME NEW p, OverMnoc(p)
  PROVE  ~SupportsPpcie(p) /\ ~Hopper(p)
  BY DEF OverMnoc, SupportsPpcie, Hopper

\* Such a plan makes no CCD-only state either: one it was found in may stay.
LEMMA PreparedWritesAreSafe ==
  ASSUME NEW p, NEW k, NEW c \in SetCall, Offers(p, c),
         NEW n \in 1..Len(Plan(p, c)), Prepared(p, k, c, n - 1)
  PROVE  SafeWrite(p, k, Plan(p, c)[n]) \/ CcdOnlyAt(p, k)
  <1>1. CASE DoneUpTo(p, k, c, n - 1)
    BY <1>1, PlanWritesAreSafe
  <1>2. CASE /\ OverMnoc(p) /\ c.op = "cc" /\ n - 1 = 1
             /\ c.mode # "off" /\ k["ccm"] # 0
    <2>1. Plan(p, c) = CcPlan(p, c.mode) /\ c.mode \in CcMode /\ n = 2
      BY <1>2, SetCallCases DEF Plan, CcMode
    <2>2. Plan(p, c)[n].knob = "ccd"
      BY <1>2, <2>1, CcOtherPlan, MnocHasNoPpcie, StepFields
    <2> QED BY <1>2, <2>2, MnocHasNoPpcie DEF SafeWrite, CcConflict
  <1> QED BY <1>1, <1>2 DEF Prepared

\* What a stray answer shows when it passes for that of step n: over MNOC both
\* steps are about the CC knobs, and it is the value of one of them.
LEMMA StrayAnswerPrepares ==
  ASSUME NEW p, NEW k, NEW c \in SetCall, OverMnoc(p), c.op = "cc",
         Plan(p, c)[1].value \in {k["ccm"], k["ccd"]}
  PROVE  Prepared(p, k, c, 1)
  <1>1. Plan(p, c) = CcPlan(p, c.mode) /\ c.mode \in CcMode /\ ~Hopper(p)
    BY SetCallCases, MnocHasNoPpcie DEF Plan, CcMode
  <1>2. CASE c.mode = "off"
    <2>1. Plan(p, c)[1].knob = "ccd" /\ Plan(p, c)[1].value = 0
      BY <1>1, <1>2, CcOtherPlan, StepFields
    <2>2. k["ccd"] = 0 => DoneUpTo(p, k, c, 1)
      BY <2>1 DEF DoneUpTo
    <2> QED BY <2>1, <2>2 DEF Prepared, CcdOnlyAt
  <1>3. CASE c.mode # "off"
    <2>1. Plan(p, c)[1].knob = "ccm" /\ Plan(p, c)[1].value = 1
      BY <1>1, <1>3, CcOtherPlan, StepFields
    <2>2. k["ccm"] # 0 \/ CcdOnlyAt(p, k)
      BY <2>1 DEF CcdOnlyAt
    <2> QED BY <1>3, <2>2 DEF Prepared
  <1> QED BY <1>2, <1>3

-----------------------------------------------------------------------------
(* The inductive invariant.                                                *)

\* The types alone.
Types ==
  /\ profile \in Profiles
  /\ knob \in [Knob -> Nat]
  /\ late \in [knob : Knob, value : Nat] \cup {NoStep}
  /\ astray \in BOOLEAN /\ (astray => OverMnoc(profile))
  /\ boot \in {"reset", "fsp", "ready"}
  /\ running \in [cc : 0..3, ppcie : 0..1]
  /\ call \in SetCall \cup {NoCall, ResetCall}
  /\ at \in Nat
  /\ phase \in {"idle", "probe", "read", "write", "boot"}
  /\ outcome \in {"none", "ok", "failed", "refused", "unsupported"}
  /\ answer \in [op : {"cc", "ppcie"}, mode : CcMode \cup {"failed"}] \cup {NoCall}
  /\ stored \in SetCall \cup {NoCall}
  /\ activated \in SetCall \cup {NoCall}

\* Knobs hold what the device was found with, or what its calls write.
KnobsAreSettings ==
  /\ \A k \in Knob : \/ \E found \in StartKnobs : knob[k] = found[k]
                     \/ Writes(k, knob[k])
  /\ late # NoStep => Writes(late.knob, late.value)

\* Firmware without the PPCIE knob never holds a value in it.
AbsentIsZero == ~HasKnob("ppcie") => knob["ppcie"] = 0

\* A set call in progress stands inside its plan, on a knob it may write, with
\* every step before it done, or found so by a stray answer, and no abandoned
\* write left behind it.
CallInv ==
  /\ call \in SetCall <=> phase \in {"probe", "read", "write"}
  /\ call \notin SetCall => at = 0
  /\ call \in SetCall =>
       /\ Offers(profile, call)
       /\ at \in 1..Len(Plan(profile, call))
       /\ at # 1 => late = NoStep
       /\ phase = "probe" => at = 1
       /\ ~astray => DoneUpTo(profile, knob, call, at - 1)
       /\ Prepared(profile, knob, call, at - 1)
       /\ OverMnoc(profile) => call.op = "cc"
       /\ phase = "write" => late = NoStep /\ HasKnob(Todo.knob)

\* An abandoned write is as safe as when the call came to it.
LateInv ==
  late # NoStep => /\ SafeWrite(profile, knob, late) \/ CcdOnlyAt(profile, knob)
                   /\ HasKnob(late.knob)

\* What is stored stays stored while no call runs.
StoredInv ==
  stored # NoCall => /\ call \notin SetCall
                     /\ late = NoStep
                     /\ ~astray => Meets(profile, knob, stored)

Inv == Types /\ AbsentIsZero /\ CallInv /\ LateInv /\ StoredInv

\* No set call is the absence of a call, or a reset.
LEMMA CallsDiffer == NoCall \notin SetCall /\ ResetCall \notin SetCall /\ NoCall # ResetCall
  BY DEF NoCall, ResetCall, SetCall, CcCall, PpcieCall

\* NoStep writes no knob.
LEMMA NoStepIsNone == NoStep \notin KnobStep
  BY DEF NoStep, Step, KnobStep, Knob

\* What the device latches is a mode register.
LEMMA LatchType == \A k : Latch(k) \in [cc : 0..3, ppcie : 0..1]
  BY DEF Latch

\* What a query answers.
LEMMA AnswerType ==
  ASSUME NEW op, NEW m \in Answers(op)
  PROVE  m \in CcMode \cup {"failed"}
  BY DEF Answers, DecodeCc, DecodePpcie, CcMode

\* Whatever knobs the device is found with, nothing is stored or in progress.
LEMMA InitInv == Init => Inv
  <1> SUFFICES ASSUME Init PROVE Inv
    OBVIOUS
  <1> USE CallsDiffer DEF Init
  <1>1. Types
    BY ConfigAssumption, LatchType DEF Types
  <1>2. AbsentIsZero
    BY DEF AbsentIsZero, HasKnob
  <1>3. CallInv /\ LateInv /\ StoredInv
    BY DEF CallInv, LateInv, StoredInv
  <1> QED BY <1>1, <1>2, <1>3 DEF Inv

\* Once the step the call is at holds, moving on keeps the call inside its
\* plan, or ends it with its mode stored.
LEMMA AdvanceInv ==
  ASSUME Inv, call \in SetCall, phase \in {"read", "write"}, FspServes, Advance,
         profile' = profile, late' = late, astray' = astray,
         knob' \in [Knob -> Nat],
         AbsentIsZero',
         ~astray => DoneUpTo(profile, knob', call, at),
         at # Len(Plan(profile, call)) => Prepared(profile, knob', call, at)
  PROVE  CallInv' /\ LateInv' /\ StoredInv' /\ call' \in SetCall \cup {NoCall}
         /\ at' \in Nat /\ phase' \in {"idle", "read"}
         /\ outcome' \in {"none", "ok", "failed", "refused", "unsupported"}
         /\ stored' \in SetCall \cup {NoCall}
  <1> USE CallsDiffer
  <1>1. late = NoStep
    BY DEF FspServes
  <1>2. at \in 1..Len(Plan(profile, call)) /\ Len(Plan(profile, call)) \in Nat
    BY PlanSteps DEF Inv, CallInv
  <1>3. CASE at = Len(Plan(profile, call))
    <2>1. call' = NoCall /\ at' = 0 /\ phase' = "idle" /\ outcome' = "ok"
          /\ stored' = call
      BY <1>3 DEF Advance, Return
    <2>2. ~astray => Meets(profile, knob', call)
      BY <1>3, WholePlanMeets
    <2> QED BY <1>1, <2>1, <2>2 DEF CallInv, LateInv, StoredInv
  <1>4. CASE at # Len(Plan(profile, call))
    <2>1. call' = call /\ at' = at + 1 /\ phase' = "read"
          /\ outcome' = outcome /\ stored' = stored
      BY <1>4 DEF Advance
    <2>2. CallInv'
      <3>1. Offers(profile, call)
        BY DEF Inv, CallInv
      <3>2. at' \in 1..Len(Plan(profile, call))
        BY <1>2, <1>4, <2>1
      <3>3. at' - 1 = at
        BY <1>2, <2>1
      <3>4. /\ ~astray' => DoneUpTo(profile', knob', call', at' - 1)
            /\ Prepared(profile', knob', call', at' - 1)
        BY <1>4, <2>1, <3>3
      <3>5. OverMnoc(profile') => call'.op = "cc"
        BY <2>1 DEF Inv, CallInv
      <3> QED BY <1>1, <2>1, <3>1, <3>2, <3>4, <3>5 DEF CallInv
    <2>3. LateInv' /\ StoredInv'
      BY <1>1, <2>1 DEF LateInv, StoredInv, Inv
    <2> QED BY <1>2, <2>1, <2>2, <2>3 DEF Inv, Types
  <1> QED BY <1>3, <1>4

\* A CC plan only ever clears the PPCIE knob.
LEMMA CcPpcieValue ==
  ASSUME NEW p, NEW c \in SetCall, c.op = "cc",
         NEW n \in 1..Len(Plan(p, c)), Plan(p, c)[n].knob = "ppcie"
  PROVE  Plan(p, c)[n].value = 0
  <1> DEFINE q == Plan(p, c)
  <1>0. c.mode \in CcMode /\ q = CcPlan(p, c.mode)
    BY SetCallCases DEF CcMode, Plan
  <1>1. CASE Hopper(p) /\ c.mode # "off"
    <2>1. /\ Len(q) = 7
          /\ q[1].knob = "knob2" /\ q[2].knob = "knob4" /\ q[3].knob = "knob34"
          /\ q[4].value = 0 /\ q[5].knob = "decoupler"
          /\ q[6].knob = "ccm" /\ q[7].knob = "ccd"
      BY <1>0, <1>1, CcOnHopperPlan, StepFields DEF CcMode
    <2> QED BY <2>1
  <1>2. CASE Hopper(p) /\ c.mode = "off"
    BY <1>0, <1>2, CcOffHopperPlan, StepFields
  <1>3. CASE ~Hopper(p)
    <2>1. /\ Len(q) = 2
          /\ q[1].knob \in {"ccm", "ccd"} /\ q[2].knob \in {"ccm", "ccd"}
      BY <1>0, <1>3, CcOtherPlan, StepFields
    <2> QED BY <2>1
  <1> QED BY <1>1, <1>2, <1>3

\* A read whose answer is the value of its step leaves the plan prepared.
LEMMA ReadOnPrepares ==
  ASSUME Inv, call \in SetCall, at # Len(Plan(profile, call)),
         Todo.value \in ReadAnswers(Todo.knob)
  PROVE  Prepared(profile, knob, call, at)
  <1>1. /\ at \in 1..Len(Plan(profile, call))
        /\ Prepared(profile, knob, call, at - 1)
        /\ OverMnoc(profile) => call.op = "cc"
        /\ astray => OverMnoc(profile)
    BY DEF Inv, CallInv, Types
  <1>2. CASE OverMnoc(profile)
    <2>1. Len(Plan(profile, call)) = 2
      BY <1>1, <1>2, SetCallCases, CcOtherPlan, MnocHasNoPpcie DEF Plan, CcMode
    <2>2. at = 1
      BY <1>1, <2>1
    <2>3. CASE knob[Todo.knob] = Todo.value
      BY <2>2, <2>3 DEF Prepared, DoneUpTo, Todo
    <2>4. CASE Todo.value \in {knob["ccm"], knob["ccd"]}
      BY <1>1, <1>2, <2>2, <2>4, StrayAnswerPrepares DEF Todo
    <2> QED BY <2>3, <2>4 DEF ReadAnswers
  <1>3. CASE ~OverMnoc(profile)
    <2>1. DoneUpTo(profile, knob, call, at - 1) /\ knob[Todo.knob] = Todo.value
      BY <1>1, <1>3 DEF Prepared, ReadAnswers
    <2> QED BY <1>1, <2>1 DEF Prepared, DoneUpTo, Todo
  <1> QED BY <1>2, <1>3

\* What it takes for a step that touches neither the knobs nor the call.
LEMMA InvKept ==
  ASSUME Inv, Types',
         UNCHANGED <<profile, knob, late, astray, call, at, phase, stored>>
  PROVE  Inv'
  <1>1. AbsentIsZero' /\ StoredInv'
    BY DEF Inv, AbsentIsZero, HasKnob, StoredInv
  <1>2. CallInv'
    BY DEF Inv, CallInv, HasKnob, Todo, Prepared, DoneUpTo, CcdOnlyAt, OverMnoc
  <1>3. LateInv'
    BY DEF Inv, LateInv, HasKnob, CcdOnlyAt, OverMnoc
  <1> QED BY <1>1, <1>2, <1>3 DEF Inv

\* Every step keeps the invariant.
LEMMA StepInv == Inv /\ [Next]_vars => Inv'
  <1> SUFFICES ASSUME Inv, [Next]_vars PROVE Inv'
    OBVIOUS
  <1> USE CallsDiffer DEF client, history
  <1>0. Types /\ AbsentIsZero /\ CallInv /\ LateInv /\ StoredInv
    BY DEF Inv
  <1>1. ASSUME NEW c \in SetCall, Refuse(c) PROVE Inv'
    BY <1>0, <1>1, InvKept DEF Refuse, Types
  <1>2. ASSUME NEW c \in SetCall, Begin(c) PROVE Inv'
    <2>1. Types'
      BY <1>0, <1>2 DEF Begin, Types
    <2>2. CallInv'
      <3>1. 1 \in 1..Len(Plan(profile, c))
        BY PlanSteps
      <3>2. DoneUpTo(profile, knob, c, 0) /\ Prepared(profile, knob, c, 0)
        BY DEF DoneUpTo, Prepared
      <3>3. OverMnoc(profile) => c.op = "cc"
        BY <1>2, SetCallCases, MnocHasNoPpcie DEF Begin, Refused
      <3> QED BY <1>2, <3>1, <3>2, <3>3 DEF Begin, CallInv
    <2>3. AbsentIsZero' /\ LateInv' /\ StoredInv'
      BY <1>0, <1>2 DEF Begin, AbsentIsZero, HasKnob, LateInv, StoredInv
    <2> QED BY <2>1, <2>2, <2>3 DEF Inv
  <1>3. CASE Probe
    <2>1. Types'
      BY <1>0, <1>3 DEF Probe, Return, Types, OverMnoc
    <2>2. AbsentIsZero' /\ LateInv' /\ StoredInv'
      BY <1>0, <1>3 DEF Probe, Return, AbsentIsZero, HasKnob, LateInv, StoredInv
    <2>3. CallInv'
      BY <1>0, <1>3 DEF Probe, Return, CallInv, DoneUpTo, Todo
    <2> QED BY <2>1, <2>2, <2>3 DEF Inv
  <1>4. CASE ReadKnob
    <2>1. call \in SetCall /\ phase = "read" /\ FspServes /\ HasKnob(Todo.knob)
      BY <1>0, <1>4 DEF ReadKnob, CallInv
    <2>2. UNCHANGED <<profile, knob, late, astray, boot, running, answer, activated>>
      BY <1>4 DEF ReadKnob
    <2>3. AbsentIsZero'
      BY <1>0, <2>2 DEF AbsentIsZero, HasKnob
    <2>4. CASE Advance /\ Todo.value \in ReadAnswers(Todo.knob)
      <3>1. ~astray => DoneUpTo(profile, knob', call, at)
        BY <1>0, <2>1, <2>2, <2>4 DEF CallInv, DoneUpTo, Todo, ReadAnswers
      <3>2. at # Len(Plan(profile, call)) => Prepared(profile, knob', call, at)
        BY <1>0, <2>1, <2>2, <2>4, ReadOnPrepares
      <3>3. knob' \in [Knob -> Nat]
        BY <1>0, <2>2 DEF Types
      <3>4. /\ CallInv' /\ LateInv' /\ StoredInv' /\ call' \in SetCall \cup {NoCall}
            /\ at' \in Nat /\ phase' \in {"idle", "read"}
            /\ outcome' \in {"none", "ok", "failed", "refused", "unsupported"}
            /\ stored' \in SetCall \cup {NoCall}
        BY <2>1, <2>2, <2>3, <2>4, <3>1, <3>2, <3>3, AdvanceInv
      <3> QED BY <1>0, <2>2, <2>3, <3>4 DEF Inv, Types
    <2>5. CASE phase' = "write" /\ UNCHANGED <<call, at, outcome, stored>>
      <3>1. CallInv'
        BY <1>0, <2>1, <2>2, <2>5 DEF CallInv, FspServes, HasKnob, Todo
      <3>2. Types'
        BY <1>0, <2>2, <2>5 DEF Types, OverMnoc
      <3>3. LateInv' /\ StoredInv'
        BY <1>0, <2>2, <2>5 DEF LateInv, StoredInv, HasKnob, CcdOnlyAt, OverMnoc
      <3> QED BY <2>3, <3>1, <3>2, <3>3 DEF Inv
    <2>6. \/ Advance /\ Todo.value \in ReadAnswers(Todo.knob)
          \/ phase' = "write" /\ UNCHANGED <<call, at, outcome, stored>>
      BY <1>4 DEF ReadKnob
    <2> QED BY <2>4, <2>5, <2>6
  <1>5. CASE SkipAbsentKnob
    <2>1. call \in SetCall /\ phase = "read" /\ FspServes /\ ~HasKnob(Todo.knob)
          /\ call.op = "cc" /\ Advance
      BY <1>0, <1>5 DEF SkipAbsentKnob, CallInv
    <2>2. UNCHANGED <<profile, knob, late, astray, boot, running, answer, activated>>
      BY <1>5 DEF SkipAbsentKnob
    <2>3. AbsentIsZero'
      BY <1>0, <2>2 DEF AbsentIsZero, HasKnob
    <2>4. Todo.knob = "ppcie" /\ knob["ppcie"] = 0
      BY <1>0, <2>1 DEF HasKnob, AbsentIsZero
    <2>5. Todo.value = 0
      BY <1>0, <2>1, <2>4, CcPpcieValue DEF CallInv, Todo
    <2>6. DoneUpTo(profile, knob', call, at) /\ Prepared(profile, knob', call, at)
      <3>1. ~OverMnoc(profile)
        BY <1>0, <2>1, <2>4, CcOtherPlan, SetCallCases, MnocHasNoPpcie, StepFields
        DEF CallInv, Todo, Plan, CcMode
      <3>2. DoneUpTo(profile, knob, call, at - 1)
        BY <1>0, <2>1, <3>1 DEF CallInv, Prepared
      <3> QED BY <1>0, <2>1, <2>2, <2>4, <2>5, <3>2 DEF CallInv, DoneUpTo, Todo, Prepared
    <2>7. knob' \in [Knob -> Nat]
      BY <1>0, <2>2 DEF Types
    <2>8. /\ CallInv' /\ LateInv' /\ StoredInv' /\ call' \in SetCall \cup {NoCall}
          /\ at' \in Nat /\ phase' \in {"idle", "read"}
          /\ outcome' \in {"none", "ok", "failed", "refused", "unsupported"}
          /\ stored' \in SetCall \cup {NoCall}
      BY <2>1, <2>2, <2>3, <2>6, <2>7, AdvanceInv
    <2> QED BY <1>0, <2>2, <2>3, <2>8 DEF Inv, Types
  <1>6. CASE WriteKnob
    <2>1. call \in SetCall /\ phase = "write" /\ FspServes /\ HasKnob(Todo.knob) /\ Advance
      BY <1>0, <1>6 DEF WriteKnob, CallInv
    <2>2. UNCHANGED <<profile, late, astray, boot, running, answer, activated>>
      BY <1>6 DEF WriteKnob
    <2>3. knob' = [knob EXCEPT ![Todo.knob] = Todo.value]
      BY <1>6 DEF WriteKnob
    <2>4. Todo.knob \in Knob /\ Todo.value \in Nat /\ at \in 1..Len(Plan(profile, call))
          /\ Len(Plan(profile, call)) \in Nat
      BY <1>0, <2>1, PlanSteps DEF CallInv, Todo, KnobStep
    <2>5. knob' \in [Knob -> Nat]
      BY <1>0, <2>3, <2>4 DEF Types
    <2>6. AbsentIsZero'
      BY <1>0, <2>1, <2>2, <2>3, <2>4 DEF AbsentIsZero, HasKnob, Types
    <2>7. DoneUpTo(profile, knob, call, at - 1) => DoneUpTo(profile, knob', call, at)
      <3> SUFFICES ASSUME DoneUpTo(profile, knob, call, at - 1), NEW i \in 1..at
                   PROVE  knob'[Plan(profile, call)[i].knob] = Plan(profile, call)[i].value
        BY DEF DoneUpTo
      <3>1. CASE i = at
        BY <1>0, <2>3, <2>4, <3>1 DEF Todo, Types
      <3>2. CASE i # at
        <4>1. i \in 1..(at - 1) /\ i \in 1..Len(Plan(profile, call))
          BY <2>4, <3>2
        <4>2. Plan(profile, call)[i].knob # Todo.knob
          BY <2>1, <2>4, <3>2, <4>1, PlanKnobsDiffer DEF Todo
        <4>3. knob[Plan(profile, call)[i].knob] = Plan(profile, call)[i].value
          BY <4>1 DEF DoneUpTo
        <4>4. Plan(profile, call)[i].knob \in Knob
          BY <2>1, <4>1, PlanSteps DEF KnobStep
        <4> QED BY <1>0, <2>3, <4>2, <4>3, <4>4 DEF Types
      <3> QED BY <3>1, <3>2
    <2>9. at # Len(Plan(profile, call)) => Prepared(profile, knob', call, at)
      <3>1. CASE DoneUpTo(profile, knob, call, at - 1)
        BY <2>7, <3>1 DEF Prepared
      <3>2. CASE OverMnoc(profile) /\ call.op = "cc" /\ at - 1 = 1
        BY <1>0, <2>1, <2>4, <3>2, SetCallCases, CcOtherPlan, MnocHasNoPpcie
        DEF CallInv, Plan, CcMode
      <3> QED BY <1>0, <2>1, <3>1, <3>2 DEF CallInv, Prepared
    <2>10. ~astray => DoneUpTo(profile, knob', call, at)
      BY <1>0, <2>1, <2>7 DEF CallInv
    <2>8. /\ CallInv' /\ LateInv' /\ StoredInv' /\ call' \in SetCall \cup {NoCall}
          /\ at' \in Nat /\ phase' \in {"idle", "read"}
          /\ outcome' \in {"none", "ok", "failed", "refused", "unsupported"}
          /\ stored' \in SetCall \cup {NoCall}
      BY <2>1, <2>2, <2>5, <2>6, <2>9, <2>10, AdvanceInv
    <2> QED BY <1>0, <2>2, <2>5, <2>6, <2>8 DEF Inv, Types
  <1>7. CASE RpcFails
    <2>1. /\ call' = NoCall /\ at' = 0 /\ phase' = "idle" /\ outcome' = "failed"
          /\ UNCHANGED <<profile, knob, boot, running, answer, stored, activated>>
          /\ phase \in {"probe", "read", "write"}
          /\ astray' \in {astray, OverMnoc(profile)}
      BY <1>7 DEF RpcFails, Return
    <2>2. call \in SetCall /\ at \in 1..Len(Plan(profile, call))
      BY <1>0, <2>1 DEF CallInv
    <2>3. late' = late \/ (phase = "write" /\ late' = NoStep)
                       \/ (phase = "write" /\ late' = Todo)
      BY <1>7 DEF RpcFails
    <2>4. phase = "write" =>
            /\ Todo \in KnobStep /\ HasKnob(Todo.knob)
            /\ SafeWrite(profile, knob, Todo) \/ CcdOnlyAt(profile, knob)
      BY <1>0, <2>2, PlanSteps, PreparedWritesAreSafe DEF CallInv, Todo
    <2>5. stored = NoCall
      BY <1>0, <2>2 DEF StoredInv
    <2>6. Types'
      <3>1. astray' \in BOOLEAN /\ (astray' => OverMnoc(profile'))
        <4>1. CASE astray' = astray
          BY <1>0, <2>1, <4>1 DEF Types
        <4>2. CASE astray' = OverMnoc(profile)
          <5>1. OverMnoc(profile) \in BOOLEAN
            BY DEF OverMnoc
          <5>2. OverMnoc(profile') = OverMnoc(profile)
            BY <2>1
          <5> QED BY <4>2, <5>1, <5>2
        <4> QED BY <2>1, <4>1, <4>2
      <3> QED BY <1>0, <2>1, <2>3, <2>4, <3>1 DEF Types, KnobStep
    <2>7. LateInv'
      BY <1>0, <2>1, <2>3, <2>4 DEF LateInv, HasKnob
    <2> QED BY <1>0, <2>1, <2>5, <2>6, <2>7 DEF Inv, AbsentIsZero, HasKnob, CallInv, StoredInv
  <1>8. CASE LateWrite
    <2>1. /\ late # NoStep /\ late \in KnobStep /\ late.knob \in Knob /\ late.value \in Nat
          /\ HasKnob(late.knob)
      BY <1>0, <1>8 DEF LateWrite, Types, KnobStep, LateInv
    <2>2. /\ knob' = [knob EXCEPT ![late.knob] = late.value] /\ late' = NoStep
          /\ UNCHANGED <<profile, astray, boot, running, call, at, phase, outcome, answer,
                         stored, activated>>
      BY <1>8 DEF LateWrite
    <2>3. Types'
      BY <1>0, <2>1, <2>2 DEF Types, OverMnoc
    <2>4. AbsentIsZero'
      BY <1>0, <2>1, <2>2 DEF AbsentIsZero, HasKnob, Types
    <2>5. CallInv'
      <3>1. at # 1 /\ call \in SetCall => FALSE
        BY <1>0, <2>1 DEF CallInv
      <3>2. call \in SetCall => /\ DoneUpTo(profile', knob', call', at' - 1)
                                /\ Prepared(profile', knob', call', at' - 1)
        BY <2>2, <3>1 DEF DoneUpTo, Prepared
      <3> QED BY <1>0, <2>1, <2>2, <3>2 DEF CallInv
    <2>6. LateInv' /\ StoredInv'
      BY <1>0, <2>1, <2>2 DEF LateInv, StoredInv
    <2> QED BY <2>3, <2>4, <2>5, <2>6 DEF Inv
  <1>9. CASE DropLate
    <2>1. Types' /\ AbsentIsZero' /\ LateInv' /\ StoredInv'
      BY <1>0, <1>9 DEF DropLate, Types, OverMnoc, AbsentIsZero, HasKnob, LateInv, StoredInv
    <2>2. CallInv'
      BY <1>0, <1>9 DEF DropLate, CallInv, HasKnob, Todo, Prepared, DoneUpTo, CcdOnlyAt,
                        OverMnoc
    <2> QED BY <2>1, <2>2 DEF Inv
  <1>10. CASE ResetRefused
    BY <1>0, <1>10, InvKept DEF ResetRefused, Types
  <1>11. CASE BeginReset
    <2>1. call \notin SetCall
      BY <1>0, <1>11 DEF BeginReset, CallInv
    <2> QED BY <1>0, <1>11, <2>1, LatchType
            DEF BeginReset, Inv, Types, AbsentIsZero, HasKnob, CallInv, LateInv, StoredInv
  <1>12. CASE Boot
    BY <1>0, <1>12, InvKept DEF Boot, Types, OverMnoc
  <1>13. CASE EndReset
    BY <1>0, <1>13 DEF EndReset, Return, Inv, Types, AbsentIsZero, HasKnob, CallInv, LateInv,
                       StoredInv
  <1>14. ASSUME NEW op \in {"cc", "ppcie"}, Query(op) PROVE Inv'
    <2>1. UNCHANGED <<profile, knob, late, astray, boot, running, call, at, phase, outcome,
                      stored, activated>>
      BY <1>14 DEF Query
    <2>2. answer' \in [op : {"cc", "ppcie"}, mode : CcMode \cup {"failed"}]
      BY <1>14, AnswerType DEF Query
    <2> QED BY <1>0, <2>1, <2>2, InvKept DEF Types, OverMnoc
  <1>15. CASE UNCHANGED vars
    BY <1>0, <1>15, InvKept DEF vars, Types, OverMnoc
  <1> QED BY <1>1, <1>2, <1>3, <1>4, <1>5, <1>6, <1>7, <1>8, <1>9, <1>10, <1>11, <1>12,
             <1>13, <1>14, <1>15 DEF Next

\* The invariant holds in every state of every execution.
THEOREM InvHolds == Spec => []Inv
  <1> QED BY InitInv, StepInv, PTL DEF Spec

-----------------------------------------------------------------------------
(* The theorems.                                                           *)

\* A set call that returned Ok has stored its mode, until the next one starts:
\* on a device over EMEM always, over MNOC as long as nothing went astray.
THEOREM StoredModeHolds == Spec => []StoredHolds
  <1>1. Inv => StoredHolds
    BY DEF Inv, StoredInv, StoredHolds
  <1> QED BY <1>1, InvHolds, PTL

\* A step changes at most one knob, and only by a safe write or one over the
\* state no call makes.
LEMMA KnobChange ==
  ASSUME Inv, [Next]_vars
  PROVE  /\ profile' = profile
         /\ \/ knob' = knob
            \/ \E s \in KnobStep : /\ SafeWrite(profile, knob, s) \/ CcdOnlyAt(profile, knob)
                                   /\ knob' = [knob EXCEPT ![s.knob] = s.value]
  <1> USE DEF client, history
  <1>1. CASE WriteKnob
    <2>1. call \in SetCall /\ at \in 1..Len(Plan(profile, call))
          /\ Offers(profile, call) /\ Prepared(profile, knob, call, at - 1)
      BY <1>1 DEF WriteKnob, Inv, CallInv
    <2>2. Todo \in KnobStep /\ (SafeWrite(profile, knob, Todo) \/ CcdOnlyAt(profile, knob))
      BY <2>1, PlanSteps, PreparedWritesAreSafe DEF Todo
    <2>3. profile' = profile /\ knob' = [knob EXCEPT ![Todo.knob] = Todo.value]
      BY <1>1 DEF WriteKnob
    <2> QED BY <2>2, <2>3
  <1>2. CASE LateWrite
    <2>1. late \in KnobStep /\ (SafeWrite(profile, knob, late) \/ CcdOnlyAt(profile, knob))
      BY <1>2 DEF LateWrite, Inv, LateInv, Types, KnobStep
    <2> QED BY <1>2, <2>1 DEF LateWrite
  <1>3. CASE \E c \in SetCall : Refuse(c) \/ Begin(c)
    BY <1>3 DEF Refuse, Begin
  <1>4. CASE Probe \/ ReadKnob \/ SkipAbsentKnob \/ RpcFails \/ DropLate
    BY <1>4 DEF Probe, ReadKnob, SkipAbsentKnob, RpcFails, DropLate
  <1>5. CASE ResetRefused \/ BeginReset \/ Boot \/ EndReset
    BY <1>5 DEF ResetRefused, BeginReset, Boot, EndReset
  <1>6. CASE \E op \in {"cc", "ppcie"} : Query(op)
    BY <1>6 DEF Query
  <1>7. CASE UNCHANGED vars
    BY <1>7 DEF vars
  <1> QED BY <1>1, <1>2, <1>3, <1>4, <1>5, <1>6, <1>7 DEF Next

\* A step's knobs are again settings the device was found with or its calls
\* write.
LEMMA StepSettings ==
  ASSUME Inv, KnobsAreSettings, [Next]_vars
  PROVE  KnobsAreSettings'
  <1> USE DEF client, history
  <1>0. profile' = profile
    BY KnobChange
  <1>1. call \in SetCall => Todo \in KnobStep /\ Writes(Todo.knob, Todo.value)
    <2> SUFFICES ASSUME call \in SetCall PROVE Todo \in KnobStep /\ Writes(Todo.knob, Todo.value)
      OBVIOUS
    <2>1. at \in 1..Len(Plan(profile, call)) /\ Todo \in KnobStep
      BY PlanSteps DEF Inv, CallInv, Todo
    <2>2. Todo = Step(Todo.knob, Todo.value)
      BY <2>1 DEF KnobStep, Step
    <2>3. at \in DOMAIN Plan(profile, call)
      BY <2>1 DEF Plan, CcPlan, PpciePlan, ConflictSteps, DecouplerSteps, CcSteps
    <2> QED BY <2>1, <2>2, <2>3 DEF Writes, Todo
  <1>2. \A k, v : Writes(k, v) => Writes(k, v)'
    BY <1>0 DEF Writes
  <1>3. ASSUME NEW s \in KnobStep, Writes(s.knob, s.value),
               knob' = [knob EXCEPT ![s.knob] = s.value], late' \in {late, NoStep}
        PROVE  KnobsAreSettings'
    <2>1. \A k \in Knob : knob'[k] = IF k = s.knob THEN s.value ELSE knob[k]
      BY <1>3 DEF Inv, Types
    <2> QED BY <1>2, <1>3, <2>1 DEF KnobsAreSettings
  <1>4. ASSUME knob' = knob,
               late' = late \/ late' = NoStep \/ (call \in SetCall /\ late' = Todo)
        PROVE  KnobsAreSettings'
    BY <1>1, <1>2, <1>4 DEF KnobsAreSettings
  <1>5. CASE WriteKnob
    BY <1>1, <1>3, <1>5 DEF WriteKnob, Inv, CallInv
  <1>6. CASE LateWrite
    <2>1. late \in KnobStep /\ Writes(late.knob, late.value)
      BY <1>6 DEF LateWrite, KnobsAreSettings, Inv, Types, KnobStep
    <2> QED BY <1>3, <1>6, <2>1 DEF LateWrite
  <1>7. CASE RpcFails
    <2>1. call \in SetCall
      BY <1>7 DEF RpcFails, Inv, CallInv
    <2> QED BY <1>4, <1>7, <2>1 DEF RpcFails
  <1>8. CASE \E c \in SetCall : Refuse(c) \/ Begin(c)
    BY <1>4, <1>8 DEF Refuse, Begin
  <1>9. CASE Probe \/ ReadKnob \/ SkipAbsentKnob \/ DropLate
    BY <1>4, <1>9 DEF Probe, ReadKnob, SkipAbsentKnob, DropLate
  <1>10. CASE ResetRefused \/ BeginReset \/ Boot \/ EndReset
    BY <1>4, <1>10 DEF ResetRefused, BeginReset, Boot, EndReset
  <1>11. CASE \E op \in {"cc", "ppcie"} : Query(op)
    BY <1>4, <1>11 DEF Query
  <1>12. CASE UNCHANGED vars
    BY <1>4, <1>12 DEF vars
  <1> QED BY <1>5, <1>6, <1>7, <1>8, <1>9, <1>10, <1>11, <1>12 DEF Next

\* Every variable keeps its type on every device the library is run on: the
\* knobs hold nothing but what was found or a call writes, and a call never
\* leaves its plan.
THEOREM TypeCorrect == Spec => []TypeOK
  <1>1. Inv /\ KnobsAreSettings => TypeOK
    BY DEF Inv, Types, CallInv, KnobsAreSettings, TypeOK
  <1>2. Init => KnobsAreSettings
    BY DEF Init, KnobsAreSettings
  <1> QED BY <1>1, <1>2, StepSettings, InvHolds, PTL DEF Spec

\* No step of a call, and no late write of a failed one, makes a CCD-only
\* state, on any device and from any knob setting.
THEOREM CcdOnlyNeverMade == Spec => NeverCcdOnly
  <1>1. Inv /\ [Next]_vars => [CcdOnly' => CcdOnly]_vars
    <2> SUFFICES ASSUME Inv, [Next]_vars, CcdOnly' PROVE CcdOnly
      OBVIOUS
    <2>1. CASE knob' = knob
      BY <2>1 DEF CcdOnly
    <2>2. ASSUME NEW s \in KnobStep, SafeWrite(profile, knob, s),
                 knob' = [knob EXCEPT ![s.knob] = s.value]
          PROVE  CcdOnly
      <3>1. knob \in [Knob -> Nat] /\ s.knob \in Knob
        BY DEF Inv, Types, KnobStep
      <3>2. CASE s.knob = "ccd"
        BY <2>2, <3>1, <3>2 DEF CcdOnly, SafeWrite, Knob
      <3>3. CASE s.knob = "ccm"
        BY <2>2, <3>1, <3>3 DEF CcdOnly, SafeWrite, Knob
      <3>4. CASE s.knob \notin {"ccd", "ccm"}
        BY <2>2, <3>1, <3>4 DEF CcdOnly, Knob
      <3> QED BY <3>2, <3>3, <3>4
    <2>3. CcdOnlyAt(profile, knob) => CcdOnly
      BY DEF CcdOnlyAt, CcdOnly
    <2> QED BY <2>1, <2>2, <2>3, KnobChange
  <1> QED BY <1>1, InvHolds, PTL DEF Spec, NeverCcdOnly

\* No step turns CC on over PPCIE or another conflicting knob, or one of
\* those on over CC, on any device and from any knob setting.
THEOREM ConflictNeverMade == Spec => NoNewConflict
  <1>1. Inv /\ [Next]_vars => [Conflicting' => Conflicting]_vars
    <2> SUFFICES ASSUME Inv, [Next]_vars, Conflicting' PROVE Conflicting
      OBVIOUS
    <2>0. SupportsPpcie(profile)
      BY KnobChange DEF Conflicting
    <2>1. CASE knob' = knob
      BY <2>0, <2>1 DEF Conflicting
    <2>2. ASSUME NEW s \in KnobStep, SafeWrite(profile, knob, s),
                 knob' = [knob EXCEPT ![s.knob] = s.value]
          PROVE  Conflicting
      <3>1. knob \in [Knob -> Nat] /\ s.knob \in Knob /\ CcConflict \subseteq Knob
            /\ "ccm" \in Knob /\ "ccd" \in Knob /\ "ccm" \notin CcConflict
            /\ "ccd" \notin CcConflict
        BY DEF Inv, Types, KnobStep, CcConflict, Knob
      <3>2. PICK n \in CcConflict : knob'[n] # 0
        BY DEF Conflicting
      <3>3. knob'["ccm"] # 0 \/ knob'["ccd"] # 0
        BY DEF Conflicting
      <3>4. CASE s.knob \in {"ccm", "ccd"}
        <4>1. knob[n] # 0
          BY <2>2, <3>1, <3>2, <3>4
        <4>2. s.value = 0
          BY <2>0, <2>2, <3>4, <4>1 DEF SafeWrite
        <4>3. knob["ccm"] # 0 \/ knob["ccd"] # 0
          BY <2>2, <3>1, <3>3, <3>4, <4>2
        <4> QED BY <2>0, <4>1, <4>3 DEF Conflicting
      <3>5. CASE s.knob \notin {"ccm", "ccd"}
        <4>1. knob["ccm"] # 0 \/ knob["ccd"] # 0
          BY <2>2, <3>1, <3>3, <3>5
        <4>2. s.knob = n => s.value = 0
          BY <2>2, <4>1 DEF SafeWrite
        <4>3. knob[n] # 0
          BY <2>2, <3>1, <3>2, <4>2
        <4> QED BY <2>0, <4>1, <4>3 DEF Conflicting
      <3> QED BY <3>4, <3>5
    <2>3. ~CcdOnlyAt(profile, knob)
      BY <2>0, MnocHasNoPpcie DEF CcdOnlyAt
    <2> QED BY <2>1, <2>2, <2>3, KnobChange
  <1> QED BY <1>1, InvHolds, PTL DEF Spec, NoNewConflict

\* What a stored mode means is what a reset latches.
LEMMA MeetsLatches ==
  ASSUME NEW p, NEW k \in [Knob -> Nat], NEW c \in SetCall, Meets(p, k, c)
  PROVE  IF c.op = "cc"
         THEN Latch(k).cc = CcGoal(c.mode).ccm + 2 * CcGoal(c.mode).ccd
         ELSE /\ Latch(k).ppcie = (IF c.mode = "on" THEN 1 ELSE 0)
              /\ c.mode = "on" => Latch(k).cc = 0
  BY SetCallCases DEF Meets, Latch, CcGoal

\* After a reset the device runs with the mode that was stored when it began,
\* also while later calls change the knobs.
THEOREM ActivatedModeRuns == Spec => []ActivatedRuns
  <1>1. Init => ActivatedRuns
    BY DEF Init, ActivatedRuns
  <1>2. Inv /\ ActivatedRuns /\ [Next]_vars => ActivatedRuns'
    <2> SUFFICES ASSUME Inv, ActivatedRuns, [Next]_vars PROVE ActivatedRuns'
      OBVIOUS
    <2>1. CASE BeginReset
      <3>1. /\ activated' = IF astray THEN NoCall ELSE stored
            /\ running' = Latch(knob)
        BY <2>1 DEF BeginReset
      <3>2. stored # NoCall /\ ~astray =>
              stored \in SetCall /\ Meets(profile, knob, stored) /\ knob \in [Knob -> Nat]
        BY DEF Inv, StoredInv, Types
      <3>3. CASE stored = NoCall \/ astray
        BY <3>1, <3>3 DEF ActivatedRuns
      <3>4. CASE stored # NoCall /\ ~astray
        BY <3>1, <3>2, <3>4, MeetsLatches DEF ActivatedRuns
      <3> QED BY <3>3, <3>4
    <2>2. CASE UNCHANGED <<activated, running>>
      BY <2>2 DEF ActivatedRuns
    <2> USE DEF client, history
    <2>3. CASE \E c \in SetCall : Refuse(c) \/ Begin(c)
      BY <2>2, <2>3 DEF Refuse, Begin
    <2>4. CASE Probe \/ ReadKnob \/ SkipAbsentKnob \/ WriteKnob \/ RpcFails
      BY <2>2, <2>4 DEF Probe, ReadKnob, SkipAbsentKnob, WriteKnob, RpcFails
    <2>5. CASE LateWrite \/ DropLate \/ ResetRefused \/ Boot \/ EndReset
      BY <2>2, <2>5 DEF LateWrite, DropLate, ResetRefused, Boot, EndReset
    <2>6. CASE \E op \in {"cc", "ppcie"} : Query(op)
      BY <2>2, <2>6 DEF Query
    <2>7. CASE UNCHANGED vars
      BY <2>2, <2>7 DEF vars
    <2> QED BY <2>1, <2>3, <2>4, <2>5, <2>6, <2>7 DEF Next
  <1> QED BY <1>1, <1>2, InvHolds, PTL DEF Spec

\* A query that answers with a mode answers with the one the device runs with.
THEOREM AnswersAreTrue == Spec => []AnswerIsRunning
  <1>1. Init => AnswerIsRunning
    BY DEF Init, AnswerIsRunning
  <1>2. AnswerIsRunning /\ [Next]_vars => AnswerIsRunning'
    <2> SUFFICES ASSUME AnswerIsRunning, [Next]_vars PROVE AnswerIsRunning'
      OBVIOUS
    <2>1. ASSUME NEW op \in {"cc", "ppcie"}, Query(op) PROVE AnswerIsRunning'
      <3>1. PICK m \in Answers(op) : answer' = [op |-> op, mode |-> m]
        BY <2>1 DEF Query
      <3>2. running' = running
        BY <2>1 DEF Query, history
      <3>3. m # "failed" => m = IF op = "cc" THEN DecodeCc(running)
                               ELSE IF running.ppcie = 1 THEN "on" ELSE "off"
        BY <3>1 DEF Answers, StateRegister, DecodeCc, DecodePpcie
      <3> QED BY <3>1, <3>2, <3>3 DEF AnswerIsRunning, DecodeCc, DecodePpcie
    <2>2. CASE UNCHANGED <<answer, running>>
      BY <2>2 DEF AnswerIsRunning, DecodeCc, DecodePpcie
    <2>3. CASE BeginReset
      BY <2>3 DEF BeginReset, AnswerIsRunning
    <2> USE DEF client, history
    <2>4. CASE \E c \in SetCall : Refuse(c) \/ Begin(c)
      BY <2>2, <2>4 DEF Refuse, Begin
    <2>5. CASE Probe \/ ReadKnob \/ SkipAbsentKnob \/ WriteKnob \/ RpcFails
      BY <2>2, <2>5 DEF Probe, ReadKnob, SkipAbsentKnob, WriteKnob, RpcFails
    <2>6. CASE LateWrite \/ DropLate \/ ResetRefused \/ Boot \/ EndReset
      BY <2>2, <2>6 DEF LateWrite, DropLate, ResetRefused, Boot, EndReset
    <2>7. CASE UNCHANGED vars
      BY <2>2, <2>7 DEF vars
    <2> QED BY <2>1, <2>3, <2>4, <2>5, <2>6, <2>7 DEF Next
  <1> QED BY <1>1, <1>2, PTL DEF Spec

-----------------------------------------------------------------------------
(* CcControl implements ModeLadder.                                        *)

RungAt(k) == RungOf(Latch(k))
Put(k, s) == [k EXCEPT ![s.knob] = s.value]

\* The rung that the three mode knobs make.
LEMMA RungOfKnobs ==
  ASSUME NEW k \in [Knob -> Nat]
  PROVE  /\ k["ppcie"] = 0 /\ k["ccm"] = 0 /\ k["ccd"] = 0 => RungAt(k) = 0
         /\ k["ppcie"] = 0 /\ k["ccm"] # 0 /\ k["ccd"] = 0 => RungAt(k) = 1
         /\ k["ppcie"] = 0 /\ k["ccm"] # 0 /\ k["ccd"] # 0 => RungAt(k) = 2
         /\ k["ppcie"] # 0 /\ k["ccm"] = 0 /\ k["ccd"] = 0 => RungAt(k) = -1
         /\ k["ccm"] = 0 /\ k["ccd"] # 0 => RungAt(k) = 9
         /\ k["ppcie"] # 0 /\ (k["ccm"] # 0 \/ k["ccd"] # 0) => RungAt(k) = 9
  <1>1. /\ Latch(k).ppcie = IF k["ppcie"] # 0 THEN 1 ELSE 0
        /\ Latch(k).cc = (IF k["ccm"] # 0 THEN 1 ELSE 0) + (IF k["ccd"] # 0 THEN 2 ELSE 0)
    BY DEF Latch
  <1> QED BY <1>1 DEF RungAt, RungOf

LEMMA RungType == \A l : RungOf(l) \in Ladder!Rung \cup {Ladder!OffLadder}
  BY DEF RungOf, Ladder!Rung, Ladder!OffLadder

\* Where each call is going.
LEMMA GoalOf ==
  ASSUME NEW c \in SetCall, NEW r
  PROVE  Ladder!Goal(c, r) =
           IF c.op = "cc"
           THEN IF c.mode = "on" THEN 1
                ELSE IF c.mode = "devtools" THEN 2
                ELSE IF r = -1 THEN -1 ELSE 0
           ELSE IF c.mode = "on" THEN -1
                ELSE IF r = -1 THEN 0 ELSE r
  <1>1. CASE c \in CcCall
    <2>1. c = [op |-> "cc", mode |-> c.mode] /\ c.mode \in CcMode
      BY <1>1 DEF CcCall
    <2> QED BY <2>1 DEF Ladder!Goal, CcMode
  <1>2. CASE c \in PpcieCall
    <2>1. c = [op |-> "ppcie", mode |-> c.mode] /\ c.mode \in PpcieMode
      BY <1>2 DEF PpcieCall
    <2> QED BY <2>1 DEF Ladder!Goal, PpcieMode
  <1> QED BY <1>1, <1>2 DEF SetCall

\* One write of call c takes a device from rung r to rung w; done: it was the
\* last one.
OneRung(c, r, w, done) ==
  /\ w \in {r} \cup Ladder!Moves(c, r)
  /\ done => w \in Ladder!Moves(c, r) /\ (r # 9 => w = Ladder!Goal(c, r))

\* From a setting that is no mode a write may lead anywhere.
LEMMA OffLadderMoves ==
  ASSUME NEW c, NEW k, NEW done
  PROVE  OneRung(c, 9, RungAt(k), done)
  BY RungType DEF OneRung, RungAt, Ladder!Moves, Ladder!OffLadder

\* On the ladder it is enough to know the rungs.
LEMMA RungMoves ==
  ASSUME NEW c \in SetCall, NEW r \in -1 .. 2, NEW w \in -1 .. 2, NEW done \in BOOLEAN,
         w = r \/ w = Ladder!Towards(r, Ladder!Goal(c, r)),
         done => w = Ladder!Goal(c, r)
  PROVE  OneRung(c, r, w, done)
  <1>1. Ladder!Goal(c, r) \in -1 .. 2
    BY GoalOf
  <1>2. Ladder!Moves(c, r) = {Ladder!Towards(r, Ladder!Goal(c, r))}
    BY DEF Ladder!Moves, Ladder!OffLadder
  <1>3. done => r = w \/ w = Ladder!Towards(r, Ladder!Goal(c, r))
    OBVIOUS
  <1>4. done /\ r = w => w = Ladder!Towards(r, Ladder!Goal(c, r))
    BY <1>1 DEF Ladder!Towards
  <1> QED BY <1>2, <1>3, <1>4 DEF OneRung

\* A write changes its knob and no other.
LEMMA PutKnobs ==
  ASSUME NEW k \in [Knob -> Nat], NEW s \in KnobStep
  PROVE  /\ Put(k, s) \in [Knob -> Nat]
         /\ \A n \in Knob : Put(k, s)[n] = IF n = s.knob THEN s.value ELSE k[n]
  BY DEF Put, KnobStep

\* The other knobs do not touch the rung.
LEMMA OtherKnobs ==
  ASSUME NEW k \in [Knob -> Nat], NEW s \in KnobStep,
         s.knob \notin {"ccm", "ccd", "ppcie"}
  PROVE  RungAt(Put(k, s)) = RungAt(k)
  <1>1. /\ Put(k, s)["ccm"] = k["ccm"]
        /\ Put(k, s)["ccd"] = k["ccd"]
        /\ Put(k, s)["ppcie"] = k["ppcie"]
    BY PutKnobs DEF Knob
  <1> QED BY <1>1 DEF RungAt, Latch

\* A rung is one of the ladder's, or none.
LEMMA RungAtType == \A k : RungAt(k) \in -1 .. 2 \/ RungAt(k) = 9
  BY RungType DEF RungAt, Ladder!Rung, Ladder!OffLadder

\* Writing the step a plan has come to, on knobs k where the steps before it
\* hold, moves the device one rung, and the last one reaches the goal.
LEMMA PlanStepMoves ==
  ASSUME NEW p, NEW k \in [Knob -> Nat], NEW c \in SetCall, Offers(p, c),
         ~SupportsPpcie(p) => k["ppcie"] = 0 /\ c.op = "cc",
         NEW n \in 1..Len(Plan(p, c)), DoneUpTo(p, k, c, n - 1)
  PROVE  OneRung(c, RungAt(k), RungAt(Put(k, Plan(p, c)[n])), n = Len(Plan(p, c)))
  <1> DEFINE q == Plan(p, c)
             w == Put(k, q[n])
             r == RungAt(k)
             done == n = Len(q)
  <1>0. q[n] \in KnobStep
    BY PlanSteps
  <1>1. CASE r = 9
    BY <1>1, OffLadderMoves
  <1>2. CASE r # 9
    <2>1. r \in -1 .. 2
      BY <1>2, RungAtType
    <2>2. /\ w \in [Knob -> Nat]
          /\ \A x \in Knob : w[x] = IF x = q[n].knob THEN q[n].value ELSE k[x]
      BY <1>0, PutKnobs
    <2>3. q[n].knob \notin {"ccm", "ccd", "ppcie"} => RungAt(w) = r
      BY <1>0, OtherKnobs
    <2>4. SUFFICES /\ RungAt(w) \in -1 .. 2
                   /\ RungAt(w) = r \/ RungAt(w) = Ladder!Towards(r, Ladder!Goal(c, r))
                   /\ done => RungAt(w) = Ladder!Goal(c, r)
      BY <2>1, RungMoves
    <2>5. \A i \in 1..(n-1) : k[q[i].knob] = q[i].value
      BY DEF DoneUpTo
    <2>6. CASE c.op = "cc" /\ Hopper(p) /\ c.mode \in {"on", "devtools"}
      <3>1. q = CcPlan(p, c.mode)
        BY <2>6 DEF Plan
      <3>2. /\ Len(q) = 7
            /\ q[1].knob = "knob2" /\ q[2].knob = "knob4" /\ q[3].knob = "knob34"
            /\ q[4].knob = "ppcie" /\ q[4].value = 0 /\ q[5].knob = "decoupler"
            /\ q[6].knob = "ccm" /\ q[6].value = 1
            /\ q[7].knob = "ccd" /\ q[7].value = IF c.mode = "on" THEN 0 ELSE 1
        BY <2>6, <3>1, CcOnHopperPlan, StepFields DEF CcGoal
      <3>3. CASE n \in {1, 2, 3, 5}
        BY <2>1, <2>3, <3>2, <3>3
      <3>4. CASE n = 4
        <4>1. w["ppcie"] = 0 /\ w["ccm"] = k["ccm"] /\ w["ccd"] = k["ccd"]
          BY <2>2, <3>2, <3>4 DEF Knob
        <4>2. RungAt(w) = IF r = -1 THEN 0 ELSE r
          BY <1>2, <2>2, <4>1, RungOfKnobs DEF Knob
        <4>3. Ladder!Goal(c, r) = IF c.mode = "on" THEN 1 ELSE 2
          BY <2>6, GoalOf
        <4>4. r = -1 => Ladder!Towards(r, Ladder!Goal(c, r)) = 0
          BY <4>3 DEF Ladder!Towards
        <4> QED BY <2>1, <3>2, <3>4, <4>2, <4>4
      <3>5. CASE n = 6
        <4>1. k["ppcie"] = 0
          BY <2>5, <3>2, <3>5
        <4>2. w["ppcie"] = 0 /\ w["ccm"] = 1 /\ w["ccd"] = k["ccd"]
          BY <2>2, <3>2, <3>5, <4>1 DEF Knob
        <4>3. RungAt(w) = IF r = 0 THEN 1 ELSE r
          BY <1>2, <2>2, <4>1, <4>2, RungOfKnobs DEF Knob
        <4> QED BY <2>1, <2>6, <3>2, <3>5, <4>3, GoalOf DEF Ladder!Towards
      <3>6. CASE n = 7
        <4>1. k["ppcie"] = 0 /\ k["ccm"] = 1
          BY <2>5, <3>2, <3>6
        <4>2. /\ w["ppcie"] = 0 /\ w["ccm"] = 1
              /\ w["ccd"] = IF c.mode = "on" THEN 0 ELSE 1
          BY <2>2, <3>2, <3>6, <4>1 DEF Knob
        <4>3. r \in {1, 2} /\ RungAt(w) = IF c.mode = "on" THEN 1 ELSE 2
          BY <1>2, <2>2, <4>1, <4>2, RungOfKnobs DEF Knob
        <4> QED BY <2>6, <3>2, <3>6, <4>3, GoalOf DEF Ladder!Towards
      <3> QED BY <3>2, <3>3, <3>4, <3>5, <3>6
    <2>7. CASE c.op = "cc" /\ c.mode = "off"
      <3>1. \/ /\ Len(q) = 3 /\ q[1].knob = "decoupler"
               /\ q[2].knob = "ccd" /\ q[2].value = 0
               /\ q[3].knob = "ccm" /\ q[3].value = 0
            \/ /\ Len(q) = 2
               /\ q[1].knob = "ccd" /\ q[1].value = 0
               /\ q[2].knob = "ccm" /\ q[2].value = 0
        <4>1. q = CcPlan(p, "off")
          BY <2>7 DEF Plan
        <4>2. CASE Hopper(p)
          BY <4>1, <4>2, CcOffHopperPlan, StepFields
        <4>3. CASE ~Hopper(p)
          BY <4>1, <4>3, CcOtherPlan, StepFields DEF CcMode
        <4> QED BY <4>2, <4>3
      <3>2. CASE q[n].knob = "decoupler"
        BY <2>1, <2>3, <3>1, <3>2
      <3>3. CASE q[n].knob = "ccd"
        <4>1. q[n].value = 0 /\ n # Len(q)
          BY <3>1, <3>3
        <4>2. w["ccd"] = 0 /\ w["ccm"] = k["ccm"] /\ w["ppcie"] = k["ppcie"]
          BY <2>2, <3>3, <4>1 DEF Knob
        <4>3. RungAt(w) = IF r = 2 THEN 1 ELSE r
          BY <1>2, <2>2, <4>2, RungOfKnobs DEF Knob
        <4> QED BY <2>1, <2>7, <4>1, <4>3, GoalOf DEF Ladder!Towards
      <3>4. CASE q[n].knob = "ccm"
        <4>1. k["ccd"] = 0 /\ q[n].value = 0
          BY <2>5, <3>1, <3>4
        <4>2. w["ccd"] = 0 /\ w["ccm"] = 0 /\ w["ppcie"] = k["ppcie"]
          BY <2>2, <3>4, <4>1 DEF Knob
        <4>3. r \in {-1, 0, 1} /\ RungAt(w) = IF r = 1 THEN 0 ELSE r
          BY <1>2, <2>2, <4>1, <4>2, RungOfKnobs DEF Knob
        <4> QED BY <2>7, <4>3, GoalOf DEF Ladder!Towards
      <3> QED BY <3>1, <3>2, <3>3, <3>4
    <2>8. CASE c.op = "cc" /\ ~Hopper(p) /\ c.mode \in {"on", "devtools"}
      <3>1. k["ppcie"] = 0
        BY <2>8 DEF Offers, SupportsPpcie, Hopper
      <3>2. q = CcPlan(p, c.mode)
        BY <2>8 DEF Plan
      <3>3. /\ Len(q) = 2
            /\ q[1].knob = "ccm" /\ q[1].value = 1
            /\ q[2].knob = "ccd" /\ q[2].value = IF c.mode = "on" THEN 0 ELSE 1
        BY <2>8, <3>2, CcOtherPlan, StepFields DEF CcGoal, CcMode
      <3>4. CASE n = 1
        <4>1. w["ppcie"] = 0 /\ w["ccm"] = 1 /\ w["ccd"] = k["ccd"]
          BY <2>2, <3>1, <3>3, <3>4 DEF Knob
        <4>2. r # -1 /\ RungAt(w) = IF r = 0 THEN 1 ELSE r
          BY <1>2, <2>2, <3>1, <4>1, RungOfKnobs DEF Knob
        <4>3. Ladder!Goal(c, r) = IF c.mode = "on" THEN 1 ELSE 2
          BY <2>8, GoalOf
        <4>4. r = 0 => Ladder!Towards(r, Ladder!Goal(c, r)) = 1
          BY <4>3 DEF Ladder!Towards
        <4> QED BY <2>1, <3>3, <3>4, <4>2, <4>4
      <3>5. CASE n = 2
        <4>1. k["ccm"] = 1
          BY <2>5, <3>3, <3>5
        <4>2. /\ w["ppcie"] = 0 /\ w["ccm"] = 1
              /\ w["ccd"] = IF c.mode = "on" THEN 0 ELSE 1
          BY <2>2, <3>1, <3>3, <3>5, <4>1 DEF Knob
        <4>3. r \in {1, 2} /\ RungAt(w) = IF c.mode = "on" THEN 1 ELSE 2
          BY <1>2, <2>2, <3>1, <4>1, <4>2, RungOfKnobs DEF Knob
        <4> QED BY <2>8, <3>3, <3>5, <4>3, GoalOf DEF Ladder!Towards
      <3> QED BY <3>3, <3>4, <3>5
    <2>9. CASE c.op = "ppcie" /\ c.mode = "on"
      <3>1. q = PpciePlan(p, "on")
        BY <2>9 DEF Plan
      <3>2. /\ Len(q) = 7
            /\ q[1].knob = "knob2" /\ q[2].knob = "knob4"
            /\ q[3].knob = "ccd" /\ q[3].value = 0
            /\ q[4].knob = "ccm" /\ q[4].value = 0
            /\ q[5].knob = "knob34" /\ q[6].knob = "decoupler"
            /\ q[7].knob = "ppcie" /\ q[7].value = 1
        BY <3>1, PpcieOnPlan, StepFields
      <3>3. CASE n \in {1, 2, 5, 6}
        BY <2>1, <2>3, <3>2, <3>3
      <3>4. CASE n = 3
        <4>1. w["ccd"] = 0 /\ w["ccm"] = k["ccm"] /\ w["ppcie"] = k["ppcie"]
          BY <2>2, <3>2, <3>4 DEF Knob
        <4>2. RungAt(w) = IF r = 2 THEN 1 ELSE r
          BY <1>2, <2>2, <4>1, RungOfKnobs DEF Knob
        <4> QED BY <2>1, <2>9, <3>2, <3>4, <4>2, GoalOf DEF Ladder!Towards
      <3>5. CASE n = 4
        <4>1. k["ccd"] = 0
          BY <2>5, <3>2, <3>5
        <4>2. w["ccd"] = 0 /\ w["ccm"] = 0 /\ w["ppcie"] = k["ppcie"]
          BY <2>2, <3>2, <3>5, <4>1 DEF Knob
        <4>3. r \in {-1, 0, 1} /\ RungAt(w) = IF r = 1 THEN 0 ELSE r
          BY <1>2, <2>2, <4>1, <4>2, RungOfKnobs DEF Knob
        <4> QED BY <2>9, <3>2, <3>5, <4>3, GoalOf DEF Ladder!Towards
      <3>6. CASE n = 7
        <4>1. k["ccd"] = 0 /\ k["ccm"] = 0
          BY <2>5, <3>2, <3>6
        <4>2. w["ccd"] = 0 /\ w["ccm"] = 0 /\ w["ppcie"] = 1
          BY <2>2, <3>2, <3>6, <4>1 DEF Knob
        <4>3. r \in {-1, 0} /\ RungAt(w) = -1
          BY <1>2, <2>2, <4>1, <4>2, RungOfKnobs DEF Knob
        <4> QED BY <2>9, <4>3, GoalOf DEF Ladder!Towards
      <3> QED BY <3>2, <3>3, <3>4, <3>5, <3>6
    <2>10. CASE c.op = "ppcie" /\ c.mode = "off"
      <3>1. q = PpciePlan(p, "off")
        BY <2>10 DEF Plan
      <3>2. Len(q) = 2 /\ q[1].knob = "decoupler" /\ q[2].knob = "ppcie" /\ q[2].value = 0
        BY <3>1, PpcieOffPlan, StepFields
      <3>3. CASE n = 1
        BY <2>1, <2>3, <3>2, <3>3
      <3>4. CASE n = 2
        <4>1. w["ccd"] = k["ccd"] /\ w["ccm"] = k["ccm"] /\ w["ppcie"] = 0
          BY <2>2, <3>2, <3>4 DEF Knob
        <4>2. RungAt(w) = IF r = -1 THEN 0 ELSE r
          BY <1>2, <2>2, <4>1, RungOfKnobs DEF Knob
        <4> QED BY <2>1, <2>10, <4>2, GoalOf DEF Ladder!Towards
      <3> QED BY <3>2, <3>3, <3>4
    <2> QED BY <2>6, <2>7, <2>8, <2>9, <2>10, SetCallCases
  <1> QED BY <1>1, <1>2

\* A device without PPCIE holds nothing in its knob, now or later.
PpcieInv ==
  ~SupportsPpcie(profile) =>
    /\ knob["ppcie"] = 0
    /\ call \in SetCall => call.op = "cc"
    /\ late # NoStep /\ late.knob = "ppcie" => late.value = 0

\* A step leaves the PPCIE knob of such a device alone.
LEMMA StepPpcieInv == Inv /\ PpcieInv /\ [Next]_vars => PpcieInv'
  <1> SUFFICES ASSUME Inv, PpcieInv, [Next]_vars, ~SupportsPpcie(profile) PROVE PpcieInv'
    BY KnobChange DEF PpcieInv
  <1> USE CallsDiffer DEF client, history
  <1>0. /\ knob \in [Knob -> Nat] /\ knob["ppcie"] = 0
        /\ call \in SetCall => call.op = "cc"
        /\ late # NoStep /\ late.knob = "ppcie" => late.value = 0
    BY DEF PpcieInv, Inv, Types
  <1>1. call \in SetCall /\ Todo.knob = "ppcie" => Todo.value = 0
    BY <1>0, CcPpcieValue DEF Todo, Inv, CallInv
  <1>2. phase \in {"probe", "read", "write"} <=> call \in SetCall
    BY DEF Inv, CallInv
  <1>3. ASSUME NEW c \in SetCall, Refuse(c) \/ Begin(c) PROVE PpcieInv'
    <2>1. c.op = "ppcie" => Refused(profile, c)
      BY DEF Refused
    <2>2. c.op \in {"cc", "ppcie"}
      BY SetCallCases
    <2> QED BY <1>0, <1>3, <2>1, <2>2 DEF Refuse, Begin, PpcieInv
  <1>4. CASE Probe
    BY <1>0, <1>4 DEF Probe, Return, PpcieInv
  <1>5. CASE ReadKnob \/ SkipAbsentKnob
    BY <1>0, <1>5 DEF ReadKnob, SkipAbsentKnob, Advance, Return, PpcieInv
  <1>6. CASE WriteKnob
    <2>1. call \in SetCall /\ Todo \in KnobStep
      BY <1>2, <1>6, PlanSteps DEF WriteKnob, Todo, Inv, CallInv
    <2>2. knob'["ppcie"] = 0
      BY <1>0, <1>1, <1>6, <2>1 DEF WriteKnob, KnobStep
    <2> QED BY <1>0, <1>6, <2>2 DEF WriteKnob, Advance, Return, PpcieInv
  <1>7. CASE RpcFails
    BY <1>0, <1>1, <1>2, <1>7 DEF RpcFails, Return, PpcieInv
  <1>8. CASE LateWrite \/ DropLate
    <2>1. \/ knob' = knob
          \/ late \in KnobStep /\ knob' = [knob EXCEPT ![late.knob] = late.value]
      BY <1>8 DEF LateWrite, DropLate, Inv, Types, KnobStep
    <2>2. late # NoStep
      BY <1>8 DEF LateWrite, DropLate
    <2>3. knob'["ppcie"] = 0
      BY <1>0, <2>1, <2>2 DEF KnobStep, Knob
    <2> QED BY <1>0, <1>8, <2>3 DEF LateWrite, DropLate, PpcieInv
  <1>9. CASE ResetRefused \/ BeginReset \/ Boot \/ EndReset
    BY <1>0, <1>9 DEF ResetRefused, BeginReset, Boot, EndReset, Return, PpcieInv
  <1>10. CASE \E op \in {"cc", "ppcie"} : Query(op)
    BY <1>0, <1>10 DEF Query, PpcieInv
  <1>11. CASE UNCHANGED vars
    BY <1>0, <1>11 DEF vars, PpcieInv
  <1> QED BY <1>3, <1>4, <1>5, <1>6, <1>7, <1>8, <1>9, <1>10, <1>11 DEF Next

\* The state ModeLadder sees.
Asked == IF call \in SetCall THEN call ELSE NoCall
Stray == RungAt(IF late = NoStep THEN knob ELSE Put(knob, late))
Seen == <<RungAt(knob), Asked, Stray, RungOf(running), astray>>

\* Nothing ModeLadder sees changes when these do not.
LEMMA SeesNothing ==
  ASSUME UNCHANGED <<knob, late, running, astray>>, Asked' = Asked
  PROVE  UNCHANGED Seen
  BY DEF Seen, Stray, RungAt

\* What each step of ModeLadder comes to here.
LEMMA StartSeen ==
  ASSUME Asked = NoCall, Asked' \in SetCall, UNCHANGED <<knob, late, running, astray>>
  PROVE  Ladder!Start
  <1>1. Ladder!Ask = SetCall
    BY DEF Ladder!Ask, SetCall, CcCall, PpcieCall, CcMode, PpcieMode
  <1> QED BY <1>1, CallsDiffer DEF Ladder!Start, Asked

LEMMA ClimbSeen ==
  ASSUME call \in SetCall, late = NoStep, late' = NoStep,
         RungAt(knob)' \in Ladder!Moves(call, RungAt(knob)),
         UNCHANGED <<call, running, astray>>
  PROVE  Ladder!Climb
  BY CallsDiffer DEF Ladder!Climb, RungAt

LEMMA SucceedSeen ==
  ASSUME call \in SetCall, late = NoStep, late' = NoStep,
         \/ RungAt(knob)' \in Ladder!Moves(call, RungAt(knob))
         \/ astray /\ RungAt(knob)' = RungAt(knob),
         RungAt(knob) # 9 =>
           Ladder!Reached(Ladder!Goal(call, RungAt(knob)), RungAt(knob)'),
         Asked' = NoCall, UNCHANGED <<running, astray>>
  PROVE  Ladder!Succeed
  BY CallsDiffer DEF Ladder!Succeed, Ladder!OffLadder, RungAt, Asked

LEMMA FailSeen ==
  ASSUME call \in SetCall, UNCHANGED <<knob, running>>, Asked' = NoCall,
         astray' = astray \/ astray' = TRUE,
         \/ late' = late
         \/ late = NoStep /\ Stray' \in {RungAt(knob)} \cup Ladder!Moves(call, RungAt(knob))
  PROVE  Ladder!Fail
  BY CallsDiffer DEF Ladder!Fail, RungAt, Asked, Stray, Put

LEMMA SettleSeen ==
  ASSUME RungAt(knob)' \in {RungAt(knob), Stray}, late' = NoStep,
         UNCHANGED <<call, running, astray>>
  PROVE  Ladder!Settle
  BY DEF Ladder!Settle, RungAt, Stray, Put

LEMMA ResetSeen ==
  ASSUME Asked = NoCall, Asked' = NoCall, running' = Latch(knob), UNCHANGED <<knob, late, astray>>
  PROVE  Ladder!Reset
  BY DEF Ladder!Reset, Asked

\* A plan that a stray answer has found prepared moves the device likewise.
LEMMA PreparedStepMoves ==
  ASSUME NEW p, NEW k \in [Knob -> Nat], NEW c \in SetCall, Offers(p, c),
         ~SupportsPpcie(p) => k["ppcie"] = 0 /\ c.op = "cc",
         NEW n \in 1..Len(Plan(p, c)), Prepared(p, k, c, n - 1)
  PROVE  OneRung(c, RungAt(k), RungAt(Put(k, Plan(p, c)[n])), n = Len(Plan(p, c)))
  <1>1. CASE DoneUpTo(p, k, c, n - 1)
    BY <1>1, PlanStepMoves
  <1>2. CASE CcdOnlyAt(p, k)
    BY <1>2, RungOfKnobs, OffLadderMoves DEF CcdOnlyAt
  <1>3. CASE OverMnoc(p) /\ c.op = "cc" /\ n - 1 = 1 /\ c.mode # "off" /\ k["ccm"] # 0
    <2> DEFINE w == Put(k, Plan(p, c)[n])
    <2>1. /\ Plan(p, c) = CcPlan(p, c.mode) /\ c.mode \in CcMode /\ n = 2
          /\ ~Hopper(p) /\ k["ppcie"] = 0
      BY <1>3, SetCallCases, MnocHasNoPpcie DEF Plan, CcMode
    <2>2. /\ Len(Plan(p, c)) = 2 /\ Plan(p, c)[n].knob = "ccd"
          /\ Plan(p, c)[n].value = IF c.mode = "on" THEN 0 ELSE 1
      BY <1>3, <2>1, CcOtherPlan, StepFields DEF CcGoal, CcMode
    <2>3. /\ w \in [Knob -> Nat]
          /\ w["ppcie"] = 0 /\ w["ccm"] # 0
          /\ w["ccd"] = IF c.mode = "on" THEN 0 ELSE 1
      <3>1. Plan(p, c)[n] \in KnobStep
        BY PlanSteps
      <3>2. w \in [Knob -> Nat]
        BY <3>1, PutKnobs
      <3>3. \A x \in Knob : w[x] = IF x = Plan(p, c)[n].knob THEN Plan(p, c)[n].value ELSE k[x]
        BY <3>1, PutKnobs
      <3> HIDE DEF w
      <3> QED BY <1>3, <2>1, <2>2, <3>2, <3>3 DEF Knob
    <2>4. RungAt(k) \in {1, 2} /\ RungAt(w) = IF c.mode = "on" THEN 1 ELSE 2
      BY <1>3, <2>1, <2>3, RungOfKnobs
    <2>5. Ladder!Goal(c, RungAt(k)) = RungAt(w)
      BY <1>3, <2>1, <2>4, GoalOf DEF CcMode
    <2>6. RungAt(w) = Ladder!Towards(RungAt(k), Ladder!Goal(c, RungAt(k)))
      BY <2>4, <2>5 DEF Ladder!Towards
    <2> HIDE DEF w
    <2>7. OneRung(c, RungAt(k), RungAt(w), n = Len(Plan(p, c)))
      <3>1. RungAt(k) \in -1 .. 2 /\ RungAt(w) \in -1 .. 2
        BY <2>4
      <3>2. (n = Len(Plan(p, c))) \in BOOLEAN
        OBVIOUS
      <3> QED BY <2>5, <2>6, <3>1, <3>2, RungMoves
    <2> QED BY <2>7 DEF w
  <1> QED BY <1>1, <1>2, <1>3 DEF Prepared

\* A write takes the device along the ladder whatever step the call is at.
LEMMA TodoMoves ==
  ASSUME Inv, PpcieInv, call \in SetCall
  PROVE  OneRung(call, RungAt(knob), RungAt(Put(knob, Todo)), at = Len(Plan(profile, call)))
  <1>1. /\ knob \in [Knob -> Nat]
        /\ Offers(profile, call)
        /\ at \in 1..Len(Plan(profile, call))
        /\ Prepared(profile, knob, call, at - 1)
    BY DEF Inv, Types, CallInv
  <1>2. ~SupportsPpcie(profile) => knob["ppcie"] = 0 /\ call.op = "cc"
    BY DEF PpcieInv
  <1> QED BY <1>1, <1>2, PreparedStepMoves DEF Todo

\* Once its step holds in the knobs, a call moving on climbs or succeeds.
LEMMA AdvanceSeen ==
  ASSUME Inv, PpcieInv, call \in SetCall, late = NoStep, late' = late, Advance,
         knob' = Put(knob, Todo), running' = running, astray' = astray
  PROVE  Ladder!Climb \/ Ladder!Succeed \/ UNCHANGED Seen
  <1>1. OneRung(call, RungAt(knob), RungAt(knob)', at = Len(Plan(profile, call)))
    BY TodoMoves DEF RungAt
  <1>2. CASE at = Len(Plan(profile, call))
    <2>1. Asked' = NoCall
      BY <1>2, CallsDiffer DEF Advance, Return, Asked
    <2>2. RungAt(knob) # 9 =>
            Ladder!Reached(Ladder!Goal(call, RungAt(knob)), RungAt(knob)')
      BY <1>1, <1>2 DEF OneRung, Ladder!Reached
    <2> QED BY <1>1, <1>2, <2>1, <2>2, SucceedSeen DEF OneRung
  <1>3. CASE at # Len(Plan(profile, call))
    <2>1. call' = call
      BY <1>3 DEF Advance
    <2>2. CASE RungAt(knob)' = RungAt(knob)
      BY <2>1, <2>2 DEF Seen, Stray, Asked, RungAt
    <2>3. CASE RungAt(knob)' \in Ladder!Moves(call, RungAt(knob))
      BY <2>1, <2>3, ClimbSeen
    <2> QED BY <1>1, <2>2, <2>3 DEF OneRung
  <1> QED BY <1>2, <1>3

\* A device over MNOC whose plan a stray answer ends is at most one rung short.
LEMMA StrayEndReaches ==
  ASSUME NEW p, NEW k \in [Knob -> Nat], NEW c \in SetCall,
         OverMnoc(p), c.op = "cc", k["ppcie"] = 0, astray,
         Prepared(p, k, c, Len(Plan(p, c)) - 1),
         Plan(p, c)[Len(Plan(p, c))].value \in {k["ccm"], k["ccd"]},
         RungAt(k) # 9
  PROVE  Ladder!Reached(Ladder!Goal(c, RungAt(k)), RungAt(k))
  <1>1. Plan(p, c) = CcPlan(p, c.mode) /\ c.mode \in CcMode /\ ~Hopper(p)
    BY SetCallCases, MnocHasNoPpcie DEF Plan, CcMode
  <1>2. Len(Plan(p, c)) = 2
    BY <1>1, CcOtherPlan
  <1>3. RungAt(k) = IF k["ccm"] = 0 THEN 0 ELSE IF k["ccd"] = 0 THEN 1 ELSE 2
    BY RungOfKnobs
  <1>4. CASE c.mode = "off"
    <2>1. Plan(p, c)[1].knob = "ccd" /\ Plan(p, c)[1].value = 0
      BY <1>1, <1>4, CcOtherPlan, StepFields
    <2>2. k["ccd"] = 0
      BY <1>2, <1>4, <2>1, RungOfKnobs DEF Prepared, DoneUpTo, CcdOnlyAt
    <2> QED BY <1>3, <1>4, <2>2, GoalOf DEF Ladder!Reached, Ladder!Towards
  <1>5. CASE c.mode # "off"
    <2>1. Plan(p, c)[1].knob = "ccm" /\ Plan(p, c)[1].value = 1
      BY <1>1, <1>5, CcOtherPlan, StepFields
    <2>2. k["ccm"] # 0
      BY <1>2, <1>5, <2>1, RungOfKnobs DEF Prepared, DoneUpTo, CcdOnlyAt
    <2> QED BY <1>1, <1>3, <1>5, <2>2, GoalOf DEF Ladder!Reached, Ladder!Towards, CcMode
  <1> QED BY <1>4, <1>5

\* A call that moves on by a stray answer leaves the device where it is.
LEMMA StrayAdvanceSeen ==
  ASSUME Inv, PpcieInv, call \in SetCall, late = NoStep, Advance, astray,
         Todo.value \in {knob["ccm"], knob["ccd"]},
         UNCHANGED <<knob, late, running, astray>>
  PROVE  Ladder!Succeed \/ UNCHANGED Seen
  <1>1. CASE at = Len(Plan(profile, call))
    <2>1. Asked' = NoCall
      BY <1>1, CallsDiffer DEF Advance, Return, Asked
    <2>2. OverMnoc(profile) /\ call.op = "cc" /\ knob \in [Knob -> Nat]
      BY DEF Inv, Types, CallInv
    <2>3. knob["ppcie"] = 0
      BY <2>2, MnocHasNoPpcie DEF PpcieInv
    <2>4. Prepared(profile, knob, call, at - 1)
      BY DEF Inv, CallInv
    <2>5. RungAt(knob)' = RungAt(knob)
      BY DEF RungAt
    <2>6. RungAt(knob) # 9 =>
            Ladder!Reached(Ladder!Goal(call, RungAt(knob)), RungAt(knob))
      BY <1>1, <2>2, <2>3, <2>4, StrayEndReaches DEF Todo
    <2> QED BY <2>1, <2>5, <2>6, SucceedSeen
  <1>2. CASE at # Len(Plan(profile, call))
    <2>1. call' = call
      BY <1>2 DEF Advance
    <2> QED BY <2>1, SeesNothing DEF Asked
  <1> QED BY <1>1, <1>2

\* Every step of the knobs is a step of the ladder, or none it sees.
LEMMA StepOnLadder ==
  ASSUME Inv, PpcieInv, [Next]_vars
  PROVE  Ladder!Next \/ UNCHANGED Seen
  <1> USE CallsDiffer DEF client, history
  <1>0. phase \in {"probe", "read", "write"} <=> call \in SetCall
    BY DEF Inv, CallInv
  <1>1. knob \in [Knob -> Nat]
    BY DEF Inv, Types
  <1>2. ASSUME NEW c \in SetCall, Begin(c) PROVE Ladder!Next
    <2>1. Asked = NoCall /\ Asked' \in SetCall /\ UNCHANGED <<knob, late, running, astray>>
      BY <1>0, <1>2 DEF Begin, Asked
    <2> QED BY <2>1, StartSeen DEF Ladder!Next
  <1>3. CASE Probe
    <2>1. call \in SetCall /\ UNCHANGED <<knob, late, running, astray>>
      BY <1>0, <1>3 DEF Probe
    <2>2. CASE HasKnob("ppcie")
      BY <1>3, <2>1, <2>2, SeesNothing DEF Probe, Asked
    <2>3. CASE ~HasKnob("ppcie")
      <3>1. Asked' = NoCall
        BY <1>3, <2>3 DEF Probe, Return, Asked
      <3> QED BY <2>1, <3>1, FailSeen DEF Ladder!Next
    <2> QED BY <2>2, <2>3
  <1>4. CASE ReadKnob
    <2>1. call \in SetCall /\ late = NoStep /\ UNCHANGED <<knob, late, running, astray>>
      BY <1>0, <1>4 DEF ReadKnob, FspServes
    <2>2. CASE Advance /\ knob[Todo.knob] = Todo.value
      <3>1. knob' = Put(knob, Todo)
        BY <1>1, <2>1, <2>2 DEF Put
      <3>2. late' = late /\ running' = running /\ astray' = astray
        BY <2>1
      <3>3. Advance /\ call \in SetCall /\ late = NoStep
        BY <2>1, <2>2
      <3>4. Ladder!Climb \/ Ladder!Succeed \/ UNCHANGED Seen
        BY <3>1, <3>2, <3>3, AdvanceSeen
      <3> QED BY <3>4 DEF Ladder!Next
    <2>3. CASE Advance /\ astray /\ Todo.value \in {knob["ccm"], knob["ccd"]}
      BY <2>1, <2>3, StrayAdvanceSeen DEF Ladder!Next
    <2>4. CASE call' = call
      BY <2>1, <2>4, SeesNothing DEF Asked
    <2>5. \/ Advance /\ Todo.value \in ReadAnswers(Todo.knob)
          \/ call' = call
      BY <1>4 DEF ReadKnob
    <2> QED BY <2>2, <2>3, <2>4, <2>5 DEF ReadAnswers
  <1>5. CASE SkipAbsentKnob
    <2>1. /\ call \in SetCall /\ late = NoStep /\ UNCHANGED <<knob, late, running, astray>>
          /\ Advance /\ call.op = "cc" /\ ~HasKnob(Todo.knob)
      BY <1>0, <1>5 DEF SkipAbsentKnob, FspServes
    <2>2. Todo.knob = "ppcie" /\ knob["ppcie"] = 0
      BY <2>1 DEF HasKnob, Inv, AbsentIsZero
    <2>3. Todo.value = 0
      BY <2>1, <2>2, CcPpcieValue DEF Inv, CallInv, Todo
    <2>4. knob' = Put(knob, Todo)
      BY <1>1, <2>1, <2>2, <2>3 DEF Put
    <2>5. late' = late /\ running' = running /\ astray' = astray
      BY <2>1
    <2>6. Advance /\ call \in SetCall /\ late = NoStep
      BY <2>1
    <2>7. Ladder!Climb \/ Ladder!Succeed \/ UNCHANGED Seen
      BY <2>4, <2>5, <2>6, AdvanceSeen
    <2> QED BY <2>7 DEF Ladder!Next
  <1>6. CASE WriteKnob
    <2>1. /\ call \in SetCall /\ late = NoStep /\ late' = late /\ UNCHANGED <<running, astray>>
          /\ Advance /\ knob' = Put(knob, Todo)
      BY <1>0, <1>6 DEF WriteKnob, FspServes, Put
    <2> QED BY <2>1, AdvanceSeen DEF Ladder!Next
  <1>7. CASE RpcFails
    <2>1. /\ call \in SetCall /\ UNCHANGED <<knob, running>> /\ call' = NoCall
          /\ astray' = astray \/ astray' = TRUE
      <3>1. astray' = astray \/ astray' = OverMnoc(profile)
        BY <1>7 DEF RpcFails
      <3>2. OverMnoc(profile) \in BOOLEAN /\ astray \in BOOLEAN
        BY DEF OverMnoc, Inv, Types
      <3>3. astray => astray'
        BY <1>7 DEF RpcFails
      <3>4. astray' = astray \/ astray' = TRUE
        BY <3>1, <3>2, <3>3
      <3> QED BY <1>0, <1>7, <3>4 DEF RpcFails, Return
    <2>2. Asked' = NoCall
      BY <2>1 DEF Asked
    <2>3. CASE late' = late
      BY <2>1, <2>2, <2>3, FailSeen DEF Ladder!Next
    <2>4. CASE late' # late
      <3>1. late = NoStep /\ late' \in {NoStep, Todo}
        BY <1>7, <2>4 DEF RpcFails, FspServes
      <3>2. Stray' \in {RungAt(knob), RungAt(Put(knob, Todo))}
        BY <2>1, <3>1 DEF Stray, RungAt, Put
      <3>3. Stray' \in {RungAt(knob)} \cup Ladder!Moves(call, RungAt(knob))
        BY <2>1, <3>2, TodoMoves DEF OneRung
      <3> QED BY <2>1, <2>2, <3>1, <3>3, FailSeen DEF Ladder!Next
    <2> QED BY <2>3, <2>4
  <1>8. CASE LateWrite \/ DropLate
    <2>1. late' = NoStep /\ UNCHANGED <<call, running, astray>>
      BY <1>8 DEF LateWrite, DropLate
    <2>2. RungAt(knob)' \in {RungAt(knob), Stray}
      BY <1>8 DEF LateWrite, DropLate, RungAt, Stray, Put
    <2> QED BY <2>1, <2>2, SettleSeen DEF Ladder!Next
  <1>9. CASE BeginReset
    <2>1. /\ Asked = NoCall /\ Asked' = NoCall
          /\ running' = Latch(knob) /\ UNCHANGED <<knob, late, astray>>
      BY <1>0, <1>9 DEF BeginReset, Asked
    <2> QED BY <2>1, ResetSeen DEF Ladder!Next
  <1>10. CASE EndReset
    <2>1. Asked' = Asked /\ UNCHANGED <<knob, late, running, astray>>
      BY <1>0, <1>10 DEF EndReset, Return, Asked
    <2> QED BY <2>1, SeesNothing
  <1>11. ASSUME UNCHANGED <<knob, late, running, astray, call>> PROVE UNCHANGED Seen
    BY <1>11, SeesNothing DEF Asked
  <1>12. CASE \E c \in SetCall : Refuse(c)
    BY <1>11, <1>12 DEF Refuse
  <1>13. CASE ResetRefused \/ Boot
    BY <1>11, <1>13 DEF ResetRefused, Boot
  <1>14. CASE \E op \in {"cc", "ppcie"} : Query(op)
    BY <1>11, <1>14 DEF Query
  <1>15. CASE UNCHANGED vars
    BY <1>11, <1>15 DEF vars
  <1> QED BY <1>2, <1>3, <1>4, <1>5, <1>6, <1>7, <1>8, <1>9, <1>10, <1>12, <1>13, <1>14,
             <1>15 DEF Next

\* Through failed calls, late writes and resets a device moves along the mode
\* ladder one rung at a time, towards the mode it was last asked for.
THEOREM ClimbsTheLadder == Spec => LadderSpec
  <1>1. Init => PpcieInv /\ Ladder!Init
    <2>1. Init => PpcieInv
      BY CallsDiffer DEF Init, PpcieInv
    <2>2. Init => Ladder!Init
      BY CallsDiffer, RungType DEF Init, Ladder!Init
    <2> QED BY <2>1, <2>2
  <1>2. Inv /\ PpcieInv /\ [Next]_vars => PpcieInv'
    BY StepPpcieInv
  <1>3. Inv /\ PpcieInv /\ [Next]_vars
          => [Ladder!Next]_<<RungOf(Latch(knob)), IF call \in SetCall THEN call ELSE NoCall,
                             RungOf(Latch(IF late = NoStep THEN knob
                                          ELSE [knob EXCEPT ![late.knob] = late.value])),
                             RungOf(running), astray>>
    BY StepOnLadder DEF Seen, Stray, Asked, RungAt, Put
  <1> QED BY <1>1, <1>2, <1>3, InvHolds, PTL DEF Spec, LadderSpec, Ladder!Spec
=============================================================================
