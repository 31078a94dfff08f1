----------------------------- MODULE CcControl -----------------------------
(***************************************************************************)
(* One device whose confidential-computing (CC) or Protected PCIe (PPCIE)  *)
(* mode is provisioned through src/src/cc/mod.rs: the persistent FSP knobs,*)
(* the mode the device runs with since its last reset, and the call the    *)
(* library has in progress.  A call is a sequence of knob RPCs; each RPC   *)
(* is one step, may fail, and a write that failed at the library may still *)
(* reach the FSP later.  `Gpu` and `NvSwitch` hold the only handle on the  *)
(* device (PciDev is exclusive), so at most one call is in progress.       *)
(*                                                                         *)
(* The RPC channels are the subject of EmemChannel and MnocMailbox, and    *)
(* what an RPC that succeeds has done is what they show.  Over either, an  *)
(* acknowledged write has taken place.  A read over EMEM was answered for  *)
(* itself (EmemChannel, from an FSP that is done within a reset's wait).   *)
(* Over MNOC that is so until an answer is left behind by a call that      *)
(* failed; from then on a read may be answered for an earlier command,     *)
(* with a value that either CC knob has now (MnocMailbox).                 *)
(***************************************************************************)
EXTENDS CcPlans

CONSTANTS
  Profiles,    \* the kinds of device the library is run on
  StartKnobs   \* the knob settings such a device may be found with

ASSUME ConfigAssumption ==
  /\ Profiles \subseteq Profile
  /\ StartKnobs \subseteq [Knob -> Nat]

VARIABLES
  profile,    \* the device; never changes
  knob,       \* the knobs persisted in the FSP
  late,       \* a knob write the library gave up on and the FSP still has
  astray,     \* over MNOC: an answer was left behind for the next call
  boot,       \* how far the device has booted since its last reset
  running,    \* the mode bits the device latched at that reset
  call,       \* the set_cc_mode / set_ppcie_mode / reset in progress
  at,         \* the step of the plan it is at
  phase,      \* what it does there
  outcome,    \* how the last call returned
  answer,     \* what the last query returned since the last reset
  stored,     \* history: the last set call that returned Ok, until the next
  activated   \* history: what was stored at the last reset, if nothing was astray

vars == <<profile, knob, late, astray, boot, running, call, at, phase,
          outcome, answer, stored, activated>>

client == <<call, at, phase, outcome>>
history == <<stored, activated>>

-----------------------------------------------------------------------------
(* The device: what its registers read and what a reset latches.           *)

\* CCM and CCD become bits 0 and 1 of the CC state register.
Latch(k) == [cc    |-> (IF k["ccm"] # 0 THEN 1 ELSE 0)
                       + (IF k["ccd"] # 0 THEN 2 ELSE 0),
             ppcie |-> IF k["ppcie"] # 0 THEN 1 ELSE 0]

\* good: the upper half of the value is not 0xbadf, a failed fetch.
StateRegister ==
  LET failed == [good |-> FALSE, cc |-> 0, ppcie |-> 0]
      ones   == [good |-> TRUE, cc |-> 3, ppcie |-> 1]
      true   == [good |-> TRUE, cc |-> running.cc, ppcie |-> running.ppcie]
  IN  {failed} \cup (IF boot = "ready" THEN {true} ELSE {ones})

HasKnob(k) == k = "ppcie" => profile.ppcieKnob

\* The FSP serves commands in order: an abandoned write is applied or
\* dropped before a later command is served.
FspServes == boot # "reset" /\ late = NoStep

Init ==
  /\ profile \in Profiles
  /\ knob \in {k \in StartKnobs : k["ppcie"] # 0 =>
                                    SupportsPpcie(profile) /\ profile.ppcieKnob}
  /\ late = NoStep
  /\ astray = FALSE
  /\ boot \in {"reset", "fsp", "ready"}
  /\ running = Latch(knob)
  /\ call = NoCall
  /\ at = 0
  /\ phase = "idle"
  /\ outcome = "none"
  /\ answer = NoCall
  /\ stored = NoCall
  /\ activated = NoCall

-----------------------------------------------------------------------------
(* set_cc_mode and set_ppcie_mode.                                         *)

Return(o) ==
  /\ call' = NoCall
  /\ at' = 0
  /\ phase' = "idle"
  /\ outcome' = o

\* A call that is not supported returns before it touches the device.
Refuse(c) ==
  /\ phase = "idle"
  /\ Offers(profile, c)
  /\ Refused(profile, c)
  /\ outcome' = "refused"
  /\ UNCHANGED <<profile, knob, late, astray, boot, running, call, at, phase,
                 answer, history>>

\* The result of wait_for_boot is ignored, so a call may start in any boot
\* stage; its RPCs fail while the FSP does not answer.
Begin(c) ==
  /\ phase = "idle"
  /\ Offers(profile, c)
  /\ ~Refused(profile, c)
  /\ call' = c
  /\ at' = 1
  /\ phase' = IF c.op = "ppcie" THEN "probe" ELSE "read"
  /\ outcome' = "none"
  /\ stored' = NoCall
  /\ UNCHANGED <<profile, knob, late, astray, boot, running, answer, activated>>

Todo == Plan(profile, call)[at]

\* Mutant: the last step of the plan is never reached.
AdvanceOneShort ==
  IF at >= Len(Plan(profile, call)) - 1
  THEN /\ Return("ok")
       /\ stored' = call
  ELSE /\ at' = at + 1
       /\ phase' = "read"
       /\ UNCHANGED <<call, outcome, stored>>

\* Mutant: the plan is left one step late.
AdvanceOnePast ==
  IF at > Len(Plan(profile, call))
  THEN /\ Return("ok")
       /\ stored' = call
  ELSE /\ at' = at + 1
       /\ phase' = "read"
       /\ UNCHANGED <<call, outcome, stored>>

Advance ==
  IF at = Len(Plan(profile, call))
  THEN /\ Return("ok")
       /\ stored' = call
  ELSE /\ at' = at + 1
       /\ phase' = "read"
       /\ UNCHANGED <<call, outcome, stored>>

\* apply_ppcie_plan first reads the PPCIE knob, so that firmware without it
\* is reported before anything is written.
Probe ==
  /\ phase = "probe"
  /\ FspServes
  /\ IF HasKnob("ppcie")
     THEN phase' = "read" /\ UNCHANGED <<call, at, outcome>>
     ELSE Return("unsupported")
  /\ UNCHANGED <<profile, knob, late, astray, boot, running, answer, history>>

\* What the read of knob k is answered with.
ReadAnswers(k) == {knob[k]} \cup (IF astray THEN {knob["ccm"], knob["ccd"]} ELSE {})

ReadKnob ==
  /\ phase = "read"
  /\ FspServes
  /\ HasKnob(Todo.knob)
  /\ \E value \in ReadAnswers(Todo.knob) :
       IF value = Todo.value
       THEN Advance
       ELSE phase' = "write" /\ UNCHANGED <<call, at, outcome, stored>>
  /\ UNCHANGED <<profile, knob, late, astray, boot, running, answer, activated>>

\* set_cc_mode takes an invalid PPCIE knob for older firmware and goes on; a
\* PPCIE call has probed for the knob and never gets here without it.
SkipAbsentKnob ==
  /\ phase = "read"
  /\ FspServes
  /\ ~HasKnob(Todo.knob)
  /\ call.op = "cc"
  /\ Advance
  /\ UNCHANGED <<profile, knob, late, astray, boot, running, answer, activated>>

WriteKnob ==
  /\ phase = "write"
  /\ FspServes
  /\ knob' = [knob EXCEPT ![Todo.knob] = Todo.value]
  /\ Advance
  /\ UNCHANGED <<profile, late, astray, boot, running, answer, activated>>

\* Mutant: the result of a failed RPC is ignored and the plan goes on.
RpcFailureIgnored ==
  /\ phase \in {"read", "write"}
  /\ Advance
  /\ UNCHANGED <<profile, knob, late, astray, boot, running, answer, activated>>

\* An RPC times out or reports an error, or the process dies: the rest of the
\* plan is not run.  A write already handed to the FSP stays there, and over
\* MNOC so does an answer nobody took: EMEM is reset when it is next opened.
RpcFails ==
  /\ phase \in {"probe", "read", "write"}
  /\ late' \in IF phase = "write" /\ FspServes THEN {NoStep, Todo} ELSE {late}
  /\ astray' \in {astray, OverMnoc(profile)}
  /\ astray => astray'
  /\ Return("failed")
  /\ UNCHANGED <<profile, knob, boot, running, answer, history>>

\* The FSP gets to the abandoned write.
LateWrite ==
  /\ late # NoStep
  /\ knob' = [knob EXCEPT ![late.knob] = late.value]
  /\ late' = NoStep
  /\ UNCHANGED <<profile, astray, boot, running, client, answer, history>>

\* The abandoned write never takes place.
DropLate ==
  /\ late # NoStep
  /\ late' = NoStep
  /\ UNCHANGED <<profile, knob, astray, boot, running, client, answer, history>>

-----------------------------------------------------------------------------
(* reset, boot and the queries.                                            *)

\* The write to the sysfs reset attribute fails.
ResetRefused ==
  /\ phase = "idle"
  /\ outcome' = "failed"
  /\ UNCHANGED <<profile, knob, late, astray, boot, running, call, at, phase,
                 answer, history>>

\* The device takes up the knobs it finds at the reset.
BeginReset ==
  /\ phase = "idle"
  /\ call' = ResetCall
  /\ phase' = "boot"
  /\ outcome' = "none"
  /\ boot' = "reset"
  /\ running' = Latch(knob)
  /\ answer' = NoCall
  /\ activated' = IF astray THEN NoCall ELSE stored
  /\ UNCHANGED <<profile, knob, late, astray, at, stored>>

\* The FSP answers before the boot-complete scratch reads 0xff.
Boot ==
  /\ boot # "ready"
  /\ boot' = IF boot = "reset" THEN "fsp" ELSE "ready"
  /\ UNCHANGED <<profile, knob, late, astray, running, client, answer, history>>

\* wait_for_boot ends, one way or the other.
EndReset ==
  /\ phase = "boot"
  /\ Return(IF boot = "ready" THEN "ok" ELSE "failed")
  /\ UNCHANGED <<profile, knob, late, astray, boot, running, answer, history>>

DecodeCc(r) ==
  CASE r.cc = 0 -> "off" [] r.cc = 1 -> "on" [] r.cc = 3 -> "devtools"
    [] OTHER -> "failed"

DecodePpcie(r) == IF r.ppcie = 1 THEN "on" ELSE "off"

\* Mutant: the register is decoded without waiting for the boot.
AnswersNoWait(op) ==
  {IF ~r.good THEN "failed"
   ELSE IF op = "cc" THEN DecodeCc(r) ELSE DecodePpcie(r) : r \in StateRegister}

Answers(op) ==
  IF boot # "ready" THEN {"failed"}
  ELSE {IF ~r.good THEN "failed"
        ELSE IF op = "cc" THEN DecodeCc(r) ELSE DecodePpcie(r) : r \in StateRegister}

\* query_cc_mode and query_ppcie_mode.
Query(op) ==
  /\ phase = "idle"
  /\ IF op = "cc" THEN profile.family # "switch" ELSE SupportsPpcie(profile)
  /\ \E m \in Answers(op) : answer' = [op |-> op, mode |-> m]
  /\ UNCHANGED <<profile, knob, late, astray, boot, running, client, history>>

Next ==
  \/ \E c \in SetCall : Refuse(c) \/ Begin(c)
  \/ Probe \/ ReadKnob \/ SkipAbsentKnob \/ WriteKnob \/ RpcFails
  \/ LateWrite \/ DropLate
  \/ ResetRefused \/ BeginReset \/ Boot \/ EndReset
  \/ \E op \in {"cc", "ppcie"} : Query(op)

Spec == Init /\ [][Next]_vars

-----------------------------------------------------------------------------
(* Correctness.                                                            *)

\* Some call of the device writes value v to knob k.
Writes(k, v) == \E c \in SetCall : \E i \in DOMAIN Plan(profile, c) :
                  Plan(profile, c)[i] = Step(k, v)

\* Every variable keeps its type: a knob holds what it was found with or what
\* a call of this device writes to it, an abandoned write is a step of such a
\* call, and `at` stands inside the plan of the call in progress.  Only over
\* MNOC does an answer go astray.
TypeOK ==
  /\ profile \in Profiles
  /\ knob \in [Knob -> Nat]
  /\ \A k \in Knob : \/ \E found \in StartKnobs : knob[k] = found[k]
                     \/ Writes(k, knob[k])
  /\ late \in [knob : Knob, value : Nat] \cup {NoStep}
  /\ late # NoStep => Writes(late.knob, late.value)
  /\ astray \in BOOLEAN /\ (astray => OverMnoc(profile))
  /\ boot \in {"reset", "fsp", "ready"}
  /\ running \in [cc : 0..3, ppcie : 0..1]
  /\ call \in SetCall \cup {NoCall, ResetCall}
  /\ at \in IF call \in SetCall THEN 1 .. Len(Plan(profile, call)) ELSE {0}
  /\ phase \in {"idle", "probe", "read", "write", "boot"}
  /\ outcome \in {"none", "ok", "failed", "refused", "unsupported"}
  /\ answer \in [op : {"cc", "ppcie"}, mode : CcMode \cup {"failed"}] \cup {NoCall}
  /\ stored \in SetCall \cup {NoCall}
  /\ activated \in SetCall \cup {NoCall}

CcdOnly == knob["ccd"] # 0 /\ knob["ccm"] = 0

\* "CCM goes on first and off last so a CCD-only state (invalid) never
\* exists" (src/src/cc/mod.rs:385): no step of any call, and no late write of
\* a failed one, leads from a settable state to CCD without CCM, not even when
\* the plan takes the answers to earlier commands for those to its own.
NeverCcdOnly == [][CcdOnly' => CcdOnly]_vars

CcConflict == {"knob2", "knob4", "knob34", "ppcie"}

Conflicting ==
  /\ SupportsPpcie(profile)
  /\ knob["ccm"] # 0 \/ knob["ccd"] # 0
  /\ \E k \in CcConflict : knob[k] # 0

\* PPCIE and the three older Hopper knobs "are mutually exclusive with it in
\* the firmware" (src/src/cc/mod.rs:1070): no step turns CC on over one of
\* them, or one of them on over CC, whichever mode the device comes from.
NoNewConflict == [][Conflicting' => Conflicting]_vars

\* What the mode a call asks for means in the knobs k of a device p.
Meets(p, k, c) ==
  IF c.op = "cc"
  THEN /\ k["ccm"] = CcGoal(c.mode).ccm
       /\ k["ccd"] = CcGoal(c.mode).ccd
       /\ Hopper(p) => k["decoupler"] = CcGoal(c.mode).decoupler
       /\ Hopper(p) /\ c.mode # "off" => \A n \in CcConflict : k[n] = 0
  ELSE IF c.mode = "on"
  THEN /\ k["ppcie"] = 1
       /\ \A n \in {"ccm", "ccd", "knob2", "knob4", "knob34"} : k[n] = 0
       /\ k["decoupler"] = IF Hopper(p) THEN 2 ELSE 0
  ELSE k["ppcie"] = 0 /\ k["decoupler"] = 0

\* A set call that returned Ok has stored its mode, and the mode stays stored
\* until the next set call starts: over EMEM whatever the device was found
\* with and whatever earlier calls left behind, over MNOC as long as no failed
\* call may have left an answer behind (OkMeansStored of MnocMailbox has what
\* happens otherwise).
StoredHolds == stored # NoCall /\ ~astray => Meets(profile, knob, stored)

\* "It takes effect on the next GPU reset": the device runs with a mode that
\* was stored at its last reset, also while a later call changes the knobs;
\* over MNOC, if no answer had been left behind by then.
ActivatedRuns ==
  activated # NoCall =>
    IF activated.op = "cc"
    THEN running.cc = CcGoal(activated.mode).ccm + 2 * CcGoal(activated.mode).ccd
    ELSE /\ running.ppcie = (IF activated.mode = "on" THEN 1 ELSE 0)
         /\ activated.mode = "on" => running.cc = 0

\* A query never takes the all-ones of a booting device, or a failed read,
\* for a mode: what it answers is what the device runs with.
AnswerIsRunning ==
  answer # NoCall /\ answer.mode # "failed" =>
    IF answer.op = "cc" THEN answer.mode = DecodeCc(running)
    ELSE answer.mode = IF running.ppcie = 1 THEN "on" ELSE "off"

-----------------------------------------------------------------------------
(* Every call moves a device along the mode ladder.                        *)

RungOf(l) ==
  CASE l.ppcie = 0 /\ l.cc = 0 -> 0
    [] l.ppcie = 0 /\ l.cc = 1 -> 1
    [] l.ppcie = 0 /\ l.cc = 3 -> 2
    [] l.ppcie = 1 /\ l.cc = 0 -> -1
    [] OTHER -> 9

Ladder == INSTANCE ModeLadder WITH
  rung   <- RungOf(Latch(knob)),
  asked  <- IF call \in SetCall THEN call ELSE NoCall,
  stray  <- RungOf(Latch(IF late = NoStep THEN knob
                         ELSE [knob EXCEPT ![late.knob] = late.value])),
  active <- RungOf(running),
  misled <- astray

\* A device found in a mode is only ever taken one rung at a time towards the
\* mode asked for, through failures, late writes and resets; one found with a
\* setting that is none is never taken back to such a setting.  A call that
\* returns Ok has reached its mode; over MNOC, once an answer was left behind,
\* it may be one rung short of it.
LadderSpec == Ladder!Spec
=============================================================================
