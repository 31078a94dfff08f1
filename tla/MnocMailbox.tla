---------------------------- MODULE MnocMailbox ----------------------------
(***************************************************************************)
(* The MNOC mailbox of src/src/cc/fsp.rs, by which Blackwell and Rubin     *)
(* GPUs are sent knob commands, with set_cc_mode on top of it.  Commands   *)
(* are pushed through one mailbox and answers pulled from another; unlike  *)
(* EMEM there is nothing to reset when a client opens it, and an answer    *)
(* does not say which command it is to: a client tells the answer of a     *)
(* read from that of a write by its length, and otherwise takes what comes.*)
(*                                                                         *)
(* The FSP is external: as the repository's fake of it, it starts on a     *)
(* command when the last word arrives, discards a half-sent one at the     *)
(* next NEW_MSG, and holds one answer at a time; it differs in taking its  *)
(* time, and in being ready for the next command only when done with one.  *)
(***************************************************************************)
EXTENDS CcPlans

VARIABLES
  knob,     \* CCM and CCD, as persisted in the FSP
  call,     \* the CC mode being set
  at, op,   \* the step of its plan, and the knob command there
  pc,       \* where the client is in that command
  job,      \* the command the FSP is at work on
  outbox,   \* the answer nobody has pulled yet
  reply,    \* the answer the client pulled
  stored,   \* history: the last mode set_cc_mode returned Ok for
  astray    \* history: an answer that a client waited for was left behind

vars == <<knob, call, at, op, pc, job, outbox, reply, stored, astray>>

client == <<call, at, op, pc, reply, stored, astray>>

-----------------------------------------------------------------------------

Answer(shape, value) == [shape |-> shape, value |-> value]
Nothing == Answer("nothing", 0)

\* A read is answered with one dword and a write with none; otherwise a
\* completion code, a malformed answer or one too large for the mailbox.
Shape == {"value", "empty", "error", "malformed", "oversized"}

NoJob == [op |-> "none", step |-> NoStep]

Init ==
  /\ knob \in {k \in [{"ccm", "ccd"} -> 0 .. 1] : k["ccd"] # 0 => k["ccm"] # 0}
  /\ call = "none" /\ at = 0 /\ op = "read" /\ pc = "idle"
  /\ job = NoJob
  /\ outbox = Nothing /\ reply = Nothing
  /\ stored = "none" /\ astray = FALSE

Todo == CcSteps(call)[at]

-----------------------------------------------------------------------------
(* set_cc_mode, from one command to the next.                              *)

Begin(m) ==
  /\ pc = "idle"
  /\ call' = m
  /\ at' = 1 /\ op' = "read" /\ pc' = "sendWait"
  /\ stored' = "none"
  /\ UNCHANGED <<knob, job, outbox, reply, astray>>

Return(result) ==
  /\ call' = "none" /\ at' = 0 /\ op' = "read" /\ pc' = "idle"
  /\ reply' = Nothing
  /\ stored' = result

\* The answer the client waits for is still to come, or to be pulled.
Outstanding == pc = "receiveWait" /\ (job # NoJob \/ outbox # Nothing)

\* An RPC error ends the call.
Fails == Return("none") /\ astray' = (astray \/ Outstanding)

\* Mutant: an error answer to a write passes.
AcceptedAnyWrite == op = "write" \/ reply.shape = "value"

\* The answer is what its command asked for.
Accepted == reply.shape = IF op = "read" THEN "value" ELSE "empty"

PlanEnds == at = Len(CcSteps(call))

\* knob_read and knob_write judge the answer, knob_check_and_write compares
\* the value, and the plan goes on.
Judge ==
  /\ pc = "judge"
  /\ IF ~Accepted THEN Fails
     ELSE IF op = "read" /\ reply.value # Todo.value
     THEN op' = "write" /\ pc' = "sendWait" /\ UNCHANGED <<call, at, reply, stored, astray>>
     ELSE IF PlanEnds
     THEN Return(call) /\ UNCHANGED astray
     ELSE /\ at' = at + 1 /\ op' = "read" /\ pc' = "sendWait"
          /\ UNCHANGED <<call, reply, stored, astray>>
  /\ UNCHANGED <<knob, job, outbox>>

-----------------------------------------------------------------------------
(* mnoc_send.                                                              *)

SendWait ==
  /\ pc = "sendWait"
  /\ job = NoJob
  /\ pc' = "words"
  /\ UNCHANGED <<knob, call, at, op, job, outbox, reply, stored, astray>>

SendTimeout ==
  /\ pc = "sendWait"
  /\ job # NoJob
  /\ Fails
  /\ UNCHANGED <<knob, job, outbox>>

\* No credits within a second, or the error bit after the last word.
SendRefused ==
  /\ pc = "words"
  /\ Fails
  /\ UNCHANGED <<knob, job, outbox>>

\* NEW_MSG has been written; with the last word the FSP has the command.
SendWords ==
  /\ pc = "words"
  /\ job' = [op |-> op, step |-> Todo]
  /\ reply' = Nothing
  /\ pc' = "receiveWait"
  /\ UNCHANGED <<knob, call, at, op, outbox, stored, astray>>

-----------------------------------------------------------------------------
(* mnoc_receive.                                                           *)

\* Mutant: no deadline.
ReceiveForever == FALSE /\ UNCHANGED vars

ReceiveTimeout ==
  /\ pc = "receiveWait"
  /\ outbox.shape = "nothing"
  /\ Fails
  /\ UNCHANGED <<knob, job, outbox>>

\* An answer that is too large is left where it is.
ReceiveTooLarge ==
  /\ pc = "receiveWait"
  /\ outbox.shape = "oversized"
  /\ Fails
  /\ UNCHANGED <<knob, job, outbox>>

\* Mutant: the answer stays in the mailbox.
ReceiveNotPulled ==
  /\ pc = "receiveWait"
  /\ outbox.shape \notin {"nothing", "oversized"}
  /\ reply' = outbox
  /\ pc' = "judge"
  /\ UNCHANGED <<knob, call, at, op, job, outbox, stored, astray>>

Receive ==
  /\ pc = "receiveWait"
  /\ outbox.shape \notin {"nothing", "oversized"}
  /\ reply' = outbox
  /\ outbox' = Nothing
  /\ pc' = "judge"
  /\ UNCHANGED <<knob, call, at, op, job, stored, astray>>

\* The client's process dies, before or after the FSP has its command.
Crash ==
  /\ pc # "idle"
  /\ Fails
  /\ UNCHANGED <<knob, job, outbox>>

-----------------------------------------------------------------------------
(* The FSP.                                                                *)

FspExecute ==
  /\ job # NoJob
  /\ job' = NoJob
  /\ knob' = IF job.op = "write" THEN [knob EXCEPT ![job.step.knob] = job.step.value]
             ELSE knob
  /\ outbox' = IF job.op = "write" THEN Answer("empty", 0)
               ELSE Answer("value", knob[job.step.knob])
  /\ UNCHANGED client

\* It answers with an error, having carried out a write or not.
FspError(shape) ==
  /\ job # NoJob
  /\ shape \in {"error", "malformed", "oversized"}
  /\ job' = NoJob
  /\ knob' \in {knob} \cup
       (IF job.op = "write" THEN {[knob EXCEPT ![job.step.knob] = job.step.value]} ELSE {})
  /\ outbox' = Answer(shape, 0)
  /\ UNCHANGED client

FspDrop ==
  /\ job # NoJob
  /\ job' = NoJob
  /\ UNCHANGED <<knob, outbox, client>>

-----------------------------------------------------------------------------

Client ==
  \/ SendWait \/ SendTimeout \/ SendRefused \/ SendWords
  \/ ReceiveTimeout \/ ReceiveTooLarge \/ Receive \/ Judge

Next ==
  \/ (\E m \in CcMode : Begin(m)) \/ Crash
  \/ Client
  \/ FspExecute \/ (\E shape \in Shape : FspError(shape)) \/ FspDrop

Spec == Init /\ [][Next]_vars

\* A thread that runs keeps running; nothing is assumed of the FSP.
FairSpec == Spec /\ WF_vars(Client)

-----------------------------------------------------------------------------

\* What an answer that passes the checks of knob_read and knob_write is good
\* for, and all that CcControl takes it for: no write is on its way any more,
\* an acknowledged write has taken place, and a read has the value that one of
\* the knobs has now, its own as long as no answer was left behind by a client
\* that waited for it.
AnswersAreUsable ==
  pc = "judge" /\ Accepted =>
    /\ job.op # "write"
    /\ op = "write" => knob[Todo.knob] = Todo.value
    /\ op = "read" => reply.value \in {knob["ccm"], knob["ccd"]}
    /\ op = "read" /\ ~astray => reply.value = knob[Todo.knob]

\* set_cc_mode is to "persist a new CC mode in the FSP" (src/src/cc/mod.rs:343):
\* a mode it returned Ok for is in the knobs until the next call.
OkMeansStored ==
  stored # "none" => /\ knob["ccm"] = CcGoal(stored).ccm
                     /\ knob["ccd"] = CcGoal(stored).ccd

\* And it is, whatever fails on the way, as long as no answer was left behind.
OkMeansStoredUndisturbed == ~astray => OkMeansStored

\* "CCM goes on first and off last so a CCD-only state (invalid) never
\* exists" (src/src/cc/mod.rs:385): not even when the answers a call acts on
\* are those to some other command.
NeverCcdOnly == knob["ccd"] # 0 => knob["ccm"] # 0

\* set_cc_mode returns, whatever the FSP does.
CallReturns == pc # "idle" ~> pc = "idle"
=============================================================================
