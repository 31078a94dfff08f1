------------------------------ MODULE CcPlans ------------------------------
(***************************************************************************)
(* The calls that provision a device's confidential-computing (CC) or      *)
(* Protected PCIe (PPCIE) mode, and the ordered FSP knob values each of    *)
(* them establishes (src/src/cc/mod.rs, src/src/gpu/chips.rs).             *)
(***************************************************************************)
EXTENDS Integers, Sequences

Knob == {"knob2", "knob4", "ccd", "ccm", "decoupler", "knob34", "ppcie"}

\* ppcieKnob: the firmware has the PPCIE knob (older firmware has not).
Profile == [family : {"hopper", "blackwell", "rubin", "switch"},
            c2c : BOOLEAN, ppcieKnob : BOOLEAN]

CcMode == {"off", "on", "devtools"}
PpcieMode == {"off", "on"}

CcCall == [op : {"cc"}, mode : CcMode]
PpcieCall == [op : {"ppcie"}, mode : PpcieMode]
SetCall == CcCall \cup PpcieCall
NoCall == [op |-> "none", mode |-> "none"]
ResetCall == [op |-> "reset", mode |-> "none"]

Step(k, v) == [knob |-> k, value |-> v]
NoStep == Step("none", 0)

Hopper(p) == p.family = "hopper"

\* NVSwitch gen3 speaks PPCIE over the same EMEM channel as Hopper.
SupportsPpcie(p) == p.family \in {"hopper", "switch"}

\* Blackwell and Rubin take their commands over MNOC, the others over EMEM.
OverMnoc(p) == p.family \in {"blackwell", "rubin"}

\* The values set_cc_mode gives the CC knobs for a mode.
CcGoal(m) ==
  [ccm       |-> IF m = "off" THEN 0 ELSE 1,
   ccd       |-> IF m = "devtools" THEN 1 ELSE 0,
   decoupler |-> IF m = "on" THEN 2 ELSE 0]

\* Mutant: the PPCIE knob is left out of what conflicts with CC.
ConflictStepsNoPpcie(p, m) ==
  IF Hopper(p) /\ CcGoal(m).ccm = 1
  THEN <<Step("knob2", 0), Step("knob4", 0), Step("knob34", 0)>>
  ELSE <<>>

\* Knobs that conflict with CC are cleared first, on Hopper only.
ConflictSteps(p, m) ==
  IF Hopper(p) /\ CcGoal(m).ccm = 1
  THEN <<Step("knob2", 0), Step("knob4", 0), Step("knob34", 0), Step("ppcie", 0)>>
  ELSE <<>>

DecouplerSteps(p, m) ==
  IF Hopper(p) THEN <<Step("decoupler", CcGoal(m).decoupler)>> ELSE <<>>

\* Mutant: CCM first in both directions.
CcStepsCcmFirst(m) == <<Step("ccm", CcGoal(m).ccm), Step("ccd", CcGoal(m).ccd)>>

\* CCM goes on first and off last.
CcSteps(m) ==
  LET ccm == Step("ccm", CcGoal(m).ccm)
      ccd == Step("ccd", CcGoal(m).ccd)
  IN  IF CcGoal(m).ccm = 1 THEN <<ccm, ccd>> ELSE <<ccd, ccm>>

CcPlan(p, m) == ConflictSteps(p, m) \o DecouplerSteps(p, m) \o CcSteps(m)

\* Mutant: PPCIE goes on before CC is cleared.
PpciePlanPpcieFirst(p, m) ==
  <<Step("decoupler", IF m = "on" /\ Hopper(p) THEN 2 ELSE 0),
    Step("ppcie", IF m = "on" THEN 1 ELSE 0)>>
  \o (IF m = "on" THEN <<Step("ccd", 0), Step("ccm", 0)>> ELSE <<>>)

PpciePlan(p, m) ==
  LET clear == IF m = "on"
               THEN <<Step("knob2", 0), Step("knob4", 0), Step("ccd", 0),
                      Step("ccm", 0), Step("knob34", 0)>>
               ELSE <<>>
  IN  clear \o <<Step("decoupler", IF m = "on" /\ Hopper(p) THEN 2 ELSE 0),
                 Step("ppcie", IF m = "on" THEN 1 ELSE 0)>>

Plan(p, c) == IF c.op = "cc" THEN CcPlan(p, c.mode) ELSE PpciePlan(p, c.mode)

\* `NvSwitch` has no set_cc_mode at all.
Offers(p, c) == c.op = "cc" => p.family # "switch"

Refused(p, c) ==
  \/ c.op = "cc" /\ p.c2c /\ p.family # "rubin" /\ c.mode # "off"
  \/ c.op = "ppcie" /\ ~SupportsPpcie(p)
=============================================================================
