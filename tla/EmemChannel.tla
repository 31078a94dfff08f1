---------------------------- MODULE EmemChannel ----------------------------
(***************************************************************************)
(* The EMEM channel of src/src/cc/fsp.rs, by which Hopper GPUs and         *)
(* NVSwitches are sent knob commands.  A command is written into a window  *)
(* of the FSP's memory and announced by the command queue's registers; the *)
(* answer comes back in the same window, announced by the message queue's. *)
(* Clients open the channel one after the other (a PciDev is exclusive),   *)
(* and each may die at any register access.                                *)
(*                                                                         *)
(* Both queues' heads only ever hold the channel's base, so `queue` and    *)
(* `msgq` are the tails, and 0 (tail = head) is an empty queue; a write of *)
(* QUEUE_HEAD remains a step of its own, because it is the doorbell.       *)
(* The FSP is external.  As in the repository's fake of it, a doorbell on  *)
(* an empty queue is none and one answer takes up the whole command; it    *)
(* differs in taking its time.  The fake consumes a command and answers it *)
(* in one step; here it is shown as consumed only after it was answered or *)
(* dropped.  That is an assumption: it is what makes a command in flight   *)
(* visible to emem_reset_queues, which returns when both queues are empty. *)
(***************************************************************************)
EXTENDS Naturals, Sequences

CONSTANT
  MaxCommands   \* bound: how many commands are sent in a behaviour

ASSUME ChannelAssumption == MaxCommands \in Nat \ {0}

VARIABLES
  pc,       \* where the client is; "closed": there is none
  at,       \* the step of its sequence of register writes
  kind,     \* the command it sends: a knob read or a knob write
  issued,   \* the number of that command
  queue, msgq,
  window,   \* what the EMEM window holds
  read,     \* what the client read of it
  fsp,      \* what the FSP does
  taken,    \* the command it took from the window, 0 for junk or none
  log,      \* history: the commands it carried out
  answer,   \* history: the command whose answer the last success was
  overrun   \* history: a reset's wait ended with the FSP still at a command

vars == <<pc, at, kind, issued, queue, msgq, window, read, fsp, taken, log, answer, overrun>>

clientVars == <<pc, at, kind, issued, read, answer, overrun>>

-----------------------------------------------------------------------------

\* The offset of the last dword of a command: two headers, the knob, and the
\* value if it is a write.
LastDword(k) == IF k = "read" THEN 2 ELSE 3

Command(k, n, whole) == [holds |-> IF whole THEN "command" ELSE "part",
                         last |-> LastDword(k), of |-> n]
Answer(n, verdict) == [holds |-> verdict, last |-> 0, of |-> n]
Nothing == Answer(0, "nothing")

\* An answer is a success, a completion code, a malformed response, or one
\* whose length the channel cannot carry.
Verdict == {"ok", "error", "malformed", "oversized"}

\* The register writes of emem_send, after the queue was seen empty.
SendOrder == <<"windowStart", "windowRest", "queueTail", "queueHead">>

\* Mutant: heads before tails.
ResetOrderHeadFirst == <<"queueHead", "queueTail", "msgqHead", "msgqTail">>

\* The register writes of emem_reset_queues.
ResetOrder == <<"queueTail", "queueHead", "msgqTail", "msgqHead">>

Init ==
  /\ pc = "closed" /\ at = 0 /\ kind = "read" /\ issued = 0
  /\ queue = 0 /\ msgq = 0
  /\ window = Nothing /\ read = Nothing
  /\ fsp = "idle" /\ taken = 0
  /\ log = <<>> /\ answer = 0 /\ overrun = FALSE

GoTo(p) == pc' = p /\ at' = IF p \in {"send", "reset"} THEN 1 ELSE 0

-----------------------------------------------------------------------------
(* Opening the channel: emem() and emem_reset_queues.                      *)

Open ==
  /\ pc = "closed"
  /\ GoTo("checkQueue")
  /\ UNCHANGED <<kind, issued, queue, msgq, window, read, fsp, taken, log, answer, overrun>>

\* Mutant: the message queue is not looked at.
CheckQueueOnly ==
  /\ pc = "checkQueue"
  /\ GoTo(IF queue = 0 THEN "ready" ELSE "drain")
  /\ UNCHANGED <<kind, issued, queue, msgq, window, read, fsp, taken, log, answer, overrun>>

CheckQueue ==
  /\ pc = "checkQueue"
  /\ GoTo(IF queue = 0 THEN "checkMsgq" ELSE "drain")
  /\ UNCHANGED <<kind, issued, queue, msgq, window, read, fsp, taken, log, answer, overrun>>

CheckMsgq ==
  /\ pc = "checkMsgq"
  /\ GoTo(IF msgq = 0 THEN "ready" ELSE "drain")
  /\ UNCHANGED <<kind, issued, queue, msgq, window, read, fsp, taken, log, answer, overrun>>

\* The command in flight, if there is one, is given time to be answered; the
\* wait ends with an answer or after 5 s, whatever the FSP is at then.
Drain ==
  /\ pc = "drain"
  /\ GoTo("reset")
  /\ overrun' = (overrun \/ (msgq = 0 /\ fsp # "idle"))
  /\ UNCHANGED <<kind, issued, queue, msgq, window, read, fsp, taken, log, answer>>

\* Writing the head is the doorbell: the FSP looks whether there is a command.
RingDoorbell ==
  fsp' = IF queue # 0 /\ fsp = "idle" THEN "rung" ELSE fsp

Reset ==
  /\ pc = "reset"
  /\ LET r == ResetOrder[at] IN
       /\ queue' = IF r = "queueTail" THEN 0 ELSE queue
       /\ msgq' = IF r = "msgqTail" THEN 0 ELSE msgq
       /\ IF r = "queueHead" THEN RingDoorbell ELSE UNCHANGED fsp
  /\ IF at = Len(ResetOrder) THEN GoTo("ready") ELSE at' = at + 1 /\ UNCHANGED pc
  /\ UNCHANGED <<kind, issued, window, read, taken, log, answer, overrun>>

-----------------------------------------------------------------------------
(* A command: prc_cmd, that is emem_send and emem_receive.                 *)

Call(k) ==
  /\ pc = "ready"
  /\ issued < MaxCommands
  /\ GoTo("sendWait")
  /\ kind' = k
  /\ issued' = issued + 1
  /\ read' = Nothing
  /\ answer' = 0
  /\ UNCHANGED <<queue, msgq, window, fsp, taken, log, overrun>>

SendWait ==
  /\ pc = "sendWait"
  /\ queue = 0
  /\ GoTo("send")
  /\ UNCHANGED <<kind, issued, queue, msgq, window, read, fsp, taken, log, answer, overrun>>

\* An error ends the mode change, and the channel with it.
SendTimeout ==
  /\ pc = "sendWait"
  /\ queue # 0
  /\ GoTo("closed")
  /\ UNCHANGED <<kind, issued, queue, msgq, window, read, fsp, taken, log, answer, overrun>>

Send ==
  /\ pc = "send"
  /\ LET s == SendOrder[at] IN
       /\ window' = CASE s = "windowStart" -> Command(kind, issued, FALSE)
                      [] s = "windowRest"  -> Command(kind, issued, TRUE)
                      [] OTHER             -> window
       /\ queue' = IF s = "queueTail" THEN LastDword(kind) ELSE queue
       /\ IF s = "queueHead" THEN RingDoorbell ELSE UNCHANGED fsp
  /\ IF at = Len(SendOrder) THEN GoTo("receiveWait") ELSE at' = at + 1 /\ UNCHANGED pc
  /\ UNCHANGED <<kind, issued, msgq, read, taken, log, answer, overrun>>

\* An answer longer than the channel is refused before it is acknowledged.
ReceiveWait ==
  /\ pc = "receiveWait"
  /\ msgq # 0
  /\ GoTo(IF msgq = 256 THEN "closed" ELSE "readWindow")
  /\ UNCHANGED <<kind, issued, queue, msgq, window, read, fsp, taken, log, answer, overrun>>

\* Mutant: the response is waited for without a deadline.
ReceiveForever == FALSE /\ UNCHANGED vars

ReceiveTimeout ==
  /\ pc = "receiveWait"
  /\ msgq = 0
  /\ GoTo("closed")
  /\ UNCHANGED <<kind, issued, queue, msgq, window, read, fsp, taken, log, answer, overrun>>

ReadWindow ==
  /\ pc = "readWindow"
  /\ read' = window
  /\ GoTo("ack")
  /\ UNCHANGED <<kind, issued, queue, msgq, window, fsp, taken, log, answer, overrun>>

\* The caller's checks on the response: a malformed one ends the mode change;
\* a completion code may only mean that the firmware has no such knob.
Judge ==
  IF read.holds = "ok"
  THEN GoTo("ready") /\ answer' = read.of
  ELSE /\ \E p \in {"closed"} \cup (IF read.holds = "error" THEN {"ready"} ELSE {}) : GoTo(p)
       /\ UNCHANGED answer

Ack ==
  /\ pc = "ack"
  /\ msgq' = 0
  /\ Judge
  /\ UNCHANGED <<kind, issued, queue, window, read, fsp, taken, log, overrun>>

\* The mode change is done.
Close ==
  /\ pc = "ready"
  /\ GoTo("closed")
  /\ UNCHANGED <<kind, issued, queue, msgq, window, read, fsp, taken, log, answer, overrun>>

\* The client's process dies.
Crash ==
  /\ pc \notin {"closed", "ready"}
  /\ GoTo("closed")
  /\ UNCHANGED <<kind, issued, queue, msgq, window, read, fsp, taken, log, answer, overrun>>

-----------------------------------------------------------------------------
(* The FSP.                                                                *)

FspTake ==
  /\ fsp = "rung"
  /\ taken' = IF window.holds = "command" /\ window.last = queue THEN window.of ELSE 0
  /\ fsp' = "working"
  /\ UNCHANGED <<clientVars, queue, msgq, window, log>>

FspExecute ==
  /\ fsp = "working"
  /\ log' = Append(log, taken)
  /\ fsp' = "done"
  /\ UNCHANGED <<clientVars, queue, msgq, window, taken>>

FspAnswer(v) ==
  /\ fsp \in {"working", "done"}
  /\ v = "ok" => fsp = "done"
  /\ window' = Answer(taken, v)
  /\ msgq' = IF v = "oversized" THEN 256 ELSE 4
  /\ fsp' = "answered"
  /\ taken' = 0
  /\ UNCHANGED <<clientVars, queue, log>>

\* The tail is set to the head, whatever a client has made of it by then.
FspConsume ==
  /\ fsp = "answered"
  /\ queue' = 0
  /\ fsp' = "idle"
  /\ UNCHANGED <<clientVars, msgq, window, taken, log>>

\* It never answers.
FspDrop ==
  /\ fsp \in {"rung", "working", "done"}
  /\ queue' = 0
  /\ fsp' = "idle"
  /\ taken' = 0
  /\ UNCHANGED <<clientVars, msgq, window, log>>

-----------------------------------------------------------------------------

\* What the client does of its own accord, and need not do.
Choice == Open \/ (\E k \in {"read", "write"} : Call(k)) \/ Close \/ Crash

\* The steps of emem(), emem_send and emem_receive.
Client ==
  \/ CheckQueue \/ CheckMsgq \/ Drain \/ Reset
  \/ SendWait \/ SendTimeout \/ Send
  \/ ReceiveWait \/ ReceiveTimeout \/ ReadWindow \/ Ack

Fsp == FspTake \/ FspExecute \/ (\E v \in Verdict : FspAnswer(v)) \/ FspConsume \/ FspDrop

Next == Choice \/ Client \/ Fsp

Spec == Init /\ [][Next]_vars

\* A thread that runs keeps running.  Nothing is assumed of the FSP, which may
\* stop anywhere.
FairSpec == Spec /\ WF_vars(Client)

-----------------------------------------------------------------------------

\* The queues are empty and the FSP is at rest, but that it may have to mark an
\* answered command as consumed.
Fresh == /\ msgq = 0
         /\ fsp \in {"idle", "answered"}
         /\ fsp = "idle" => queue = 0

\* emem() "resets stale queue state left behind by a crashed client before
\* first use" (src/src/cc/fsp.rs:99): whenever the channel is ready for a
\* command no answer waits to be read and none is still to come, wherever an
\* earlier client died or gave up.  An FSP that takes longer than the 5 s a
\* reset waits for it may be at its command still, and is what ends the claim.
FreshOpen == pc = "ready" /\ ~overrun => Fresh

\* Opening the channel and sending a command both come to an end, wherever the
\* FSP stops: every wait has its deadline, a reset's too.
CallReturns == pc \notin {"closed", "ready"} ~> pc \in {"closed", "ready"}

\* The channel carries commands as KnobRpc says, on any FSP: whole, once, in
\* order and with their own answers until a reset is overrun, and never
\* backwards, whatever happens.
InCall == pc \in {"sendWait", "send", "receiveWait", "readWindow", "ack"}

Rpc == INSTANCE KnobRpc WITH
  pending <- IF InCall THEN issued ELSE 0,
  late    <- IF fsp \in {"rung", "working"} /\ ~InCall THEN issued ELSE 0

RpcSpec == Rpc!Spec
=============================================================================
