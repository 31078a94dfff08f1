------------------------- MODULE EmemChannelProofs -------------------------
(***************************************************************************)
(* Proofs about EmemChannel, for any number of commands, clients and       *)
(* deaths of clients, and for any FSP: until a reset's wait is overrun, a  *)
(* channel that was opened is fresh; the channel carries commands as       *)
(* KnobRpc says; and none is carried out again or too late.                *)
(***************************************************************************)
EXTENDS EmemChannel, TLAPS

-----------------------------------------------------------------------------
(* The inductive invariant, kept until a reset is overrun.                 *)

\* Every variable has its type.
TypeOK ==
  /\ pc \in {"closed", "checkQueue", "checkMsgq", "drain", "reset", "ready",
             "sendWait", "send", "receiveWait", "readWindow", "ack"}
  /\ at \in Nat
  /\ kind \in {"read", "write"}
  /\ issued \in Nat
  /\ queue \in {0, 2, 3}
  /\ msgq \in {0, 4, 256}
  /\ fsp \in {"idle", "rung", "working", "done", "answered"}
  /\ log \in Seq(Nat)
  /\ overrun \in BOOLEAN

\* No command is with the FSP, though it may have to mark one as consumed.
Quiet == fsp \in {"idle", "answered"}

CarriedOut(c) == \E i \in 1 .. Len(log) : log[i] = c

\* What was carried out was sent, and a command the FSP has not taken up was
\* not carried out before.
LogInv == \A i \in 1 .. Len(log) : log[i] \in 1 .. issued

\* An FSP at work has the last command, which is still in the queue and not
\* answered, wherever its client has got to.
FspInv ==
  ~Quiet =>
    /\ issued # 0 /\ queue # 0 /\ msgq = 0
    /\ fsp = "rung" => window = Command(kind, issued, TRUE) /\ queue = LastDword(kind)
    /\ fsp \in {"working", "done"} => taken = issued
    /\ fsp = "done" <=> CarriedOut(issued)

\* A client that opens the channel has seen, or made, the queues empty up to
\* the step it is at.
OpenInv ==
  /\ pc = "checkMsgq" => queue = 0
  /\ pc = "reset" => /\ at \in 1 .. 4 /\ Quiet
                     /\ at > 1 => queue = 0
                     /\ at > 3 => msgq = 0

\* A command on its way out is whole before its tail is written, and nothing
\* else is with the FSP.
SendInv ==
  pc \in {"sendWait", "send"} =>
    /\ issued # 0 /\ Quiet /\ msgq = 0 /\ ~CarriedOut(issued)
    /\ pc = "send" =>
         /\ at \in 1 .. 4
         /\ at < 4 => queue = 0
         /\ at > 2 => window = Command(kind, issued, TRUE)
         /\ at = 4 => queue \in {0, LastDword(kind)}

\* An answer in the window or read from it is that to the command sent.
OwnAnswer(w) == w.of = issued /\ (w.holds = "ok" => CarriedOut(issued))

\* A client that waits for an answer, or reads one, gets its own.
ReceiveInv ==
  pc \in {"receiveWait", "readWindow", "ack"} =>
    /\ issued # 0
    /\ fsp = "idle" => queue = 0
    /\ pc = "ack" => OwnAnswer(read)
    /\ pc # "ack" /\ msgq # 0 => OwnAnswer(window)
    /\ pc # "receiveWait" => msgq # 0

\* A channel that is ready for a command holds nothing of an earlier one.
ReadyInv == pc = "ready" => Fresh

Inv == TypeOK /\ LogInv /\ FspInv /\ OpenInv /\ SendInv /\ ReceiveInv /\ ReadyInv

\* What a command to the FSP holds.
LEMMA CommandFields ==
  \A k \in {"read", "write"}, n \in Nat :
    /\ LastDword(k) \in {2, 3}
    /\ Command(k, n, TRUE).holds = "command"
    /\ Command(k, n, TRUE).last = LastDword(k)
    /\ Command(k, n, TRUE).of = n
  BY DEF LastDword, Command

\* Carrying out a command adds it to what was carried out.
LEMMA LogGrows ==
  ASSUME NEW n \in Nat, log \in Seq(Nat), log' = Append(log, n)
  PROVE  /\ log' \in Seq(Nat)
         /\ Len(log') = Len(log) + 1
         /\ \A i \in 1 .. Len(log') : log'[i] = IF i <= Len(log) THEN log[i] ELSE n
         /\ \A c : CarriedOut(c)' <=> CarriedOut(c) \/ c = n
  <1>1. /\ log' \in Seq(Nat)
        /\ Len(log') = Len(log) + 1
        /\ \A i \in 1 .. Len(log') : log'[i] = IF i <= Len(log) THEN log[i] ELSE n
    OBVIOUS
  <1>2. ASSUME NEW c PROVE CarriedOut(c)' <=> CarriedOut(c) \/ c = n
    <2>1. CarriedOut(c)' <=> \E i \in 1 .. Len(log) + 1 : log'[i] = c
      BY <1>1 DEF CarriedOut
    <2>2. Len(log) \in Nat /\ log'[Len(log) + 1] = n
      BY <1>1
    <2>3. \A i \in 1 .. Len(log) : log'[i] = log[i]
      BY <1>1
    <2> QED BY <2>1, <2>2, <2>3 DEF CarriedOut
  <1> QED BY <1>1, <1>2

\* The doorbell rings only for a command that is in the queue.
LEMMA BellRings ==
  ASSUME RingDoorbell, fsp \in {"idle", "rung", "working", "done", "answered"}
  PROVE  \/ fsp' = fsp /\ (fsp = "idle" => queue = 0)
         \/ fsp' = "rung" /\ fsp = "idle" /\ queue # 0
  BY DEF RingDoorbell

\* A channel nobody has opened yet.
LEMMA InitInv == Init => Inv
  <1>1. Init => overrun \in BOOLEAN
    BY Zenon DEF Init
  <1> QED BY <1>1 DEF Init, Inv, TypeOK, LogInv, FspInv, OpenInv, SendInv, ReceiveInv,
                      ReadyInv, Quiet

\* Every step keeps the invariant, unless it overruns a reset.
LEMMA StepInv == Inv /\ ~overrun' /\ [Next]_vars => Inv'
  <1> SUFFICES ASSUME Inv, ~overrun', [Next]_vars PROVE Inv'
    OBVIOUS
  <1> USE DEF GoTo, LastDword, Command, Fresh
  <1>0. TypeOK /\ LogInv /\ FspInv /\ OpenInv /\ SendInv /\ ReceiveInv /\ ReadyInv
    BY DEF Inv
  <1>a. ASSUME NEW p \in {"closed", "checkQueue", "drain"}, GoTo(p),
               UNCHANGED <<kind, issued, queue, msgq, window, fsp, taken, log, overrun>>
        PROVE  Inv'
    BY <1>0, <1>a DEF Inv, TypeOK, LogInv, FspInv, OpenInv, SendInv, ReceiveInv,
                      ReadyInv, Quiet, CarriedOut
  <1>1. CASE Open
    BY <1>1, <1>a DEF Open
  <1>2. CASE CheckQueue
    <2>1. CASE queue = 0
      BY <1>0, <1>2, <2>1 DEF CheckQueue, Inv, TypeOK, LogInv, FspInv, OpenInv, SendInv,
                              ReceiveInv, ReadyInv, Quiet, CarriedOut
    <2>2. CASE queue # 0
      BY <1>2, <1>a, <2>2 DEF CheckQueue
    <2> QED BY <2>1, <2>2
  <1>3. CASE CheckMsgq
    <2>1. CASE msgq = 0
      <3>1. queue = 0 /\ Quiet
        BY <1>0, <1>3 DEF CheckMsgq, OpenInv, FspInv
      <3> QED BY <1>0, <1>3, <2>1, <3>1
              DEF CheckMsgq, Inv, TypeOK, LogInv, FspInv, OpenInv, SendInv, ReceiveInv,
                  ReadyInv, Quiet, CarriedOut
    <2>2. CASE msgq # 0
      BY <1>3, <1>a, <2>2 DEF CheckMsgq
    <2> QED BY <2>1, <2>2
  <1>4. CASE Drain
    <2>1. Quiet
      BY <1>0, <1>4 DEF Drain, FspInv, Quiet
    <2> QED BY <1>0, <1>4, <2>1
            DEF Drain, Inv, TypeOK, LogInv, FspInv, OpenInv, SendInv, ReceiveInv,
                ReadyInv, Quiet, CarriedOut
  <1>5. CASE Reset
    <2> DEFINE r == ResetOrder[at]
    <2>1. /\ at \in 1 .. 4 /\ Quiet
          /\ at > 1 => queue = 0
          /\ at > 3 => msgq = 0
      BY <1>0, <1>5 DEF Reset, OpenInv
    <2>2. /\ Len(ResetOrder) = 4
          /\ r = CASE at = 1 -> "queueTail" [] at = 2 -> "queueHead"
                   [] at = 3 -> "msgqTail" [] at = 4 -> "msgqHead"
      BY <2>1 DEF ResetOrder
    <2>3. fsp' = fsp
      BY <1>5, <2>1, <2>2 DEF Reset, RingDoorbell
    <2>4. /\ queue' = 0
          /\ msgq' = IF at = 3 THEN 0 ELSE msgq
      BY <1>5, <2>1, <2>2 DEF Reset
    <2>5. UNCHANGED <<kind, issued, window, read, taken, log, answer, overrun>>
      BY <1>5 DEF Reset
    <2>6. IF at = 4 THEN pc' = "ready" /\ at' = 0 ELSE at' = at + 1 /\ pc' = "reset"
      BY <1>5, <2>2 DEF Reset
    <2> QED BY <1>0, <2>1, <2>3, <2>4, <2>5, <2>6
            DEF Inv, TypeOK, LogInv, FspInv, OpenInv, SendInv, ReceiveInv,
                ReadyInv, Quiet, CarriedOut
  <1>6. ASSUME NEW k \in {"read", "write"}, Call(k) PROVE Inv'
    <2>1. ~CarriedOut(issued + 1) /\ Quiet /\ msgq = 0
      BY <1>0, <1>6 DEF Call, LogInv, CarriedOut, TypeOK, ReadyInv, Quiet
    <2>2. LogInv'
      BY <1>0, <1>6 DEF Call, LogInv, TypeOK
    <2> QED BY <1>0, <1>6, <2>1, <2>2
            DEF Call, Inv, TypeOK, FspInv, OpenInv, SendInv, ReceiveInv,
                ReadyInv, Quiet, CarriedOut
  <1>7. CASE SendWait
    BY <1>0, <1>7 DEF SendWait, Inv, TypeOK, LogInv, FspInv, OpenInv, SendInv, ReceiveInv,
                      ReadyInv, Quiet, CarriedOut
  <1>8. CASE SendTimeout \/ ReceiveTimeout \/ Close \/ Crash
    BY <1>8, <1>a DEF SendTimeout, ReceiveTimeout, Close, Crash
  <1>9. CASE Send
    <2> DEFINE s == SendOrder[at]
    <2>1. /\ at \in 1 .. 4 /\ issued # 0 /\ Quiet /\ msgq = 0 /\ ~CarriedOut(issued)
          /\ at < 4 => queue = 0
          /\ at > 2 => window = Command(kind, issued, TRUE)
          /\ at = 4 => queue \in {0, LastDword(kind)}
          /\ pc = "send"
      BY <1>0, <1>9 DEF Send, SendInv
    <2>2. /\ Len(SendOrder) = 4
          /\ s = CASE at = 1 -> "windowStart" [] at = 2 -> "windowRest"
                   [] at = 3 -> "queueTail" [] at = 4 -> "queueHead"
      BY <2>1 DEF SendOrder
    <2>3. UNCHANGED <<kind, issued, msgq, read, taken, log, answer, overrun>>
      BY <1>9 DEF Send
    <2>4. LastDword(kind) \in {2, 3}
      BY <1>0, CommandFields DEF TypeOK
    <2>5. CASE at # 4
      <3>1. at' = at + 1 /\ pc' = "send" /\ fsp' = fsp
        BY <1>9, <2>1, <2>2, <2>5 DEF Send
      <3>2. /\ queue' = IF at = 3 THEN LastDword(kind) ELSE queue
            /\ at = 2 => window' = Command(kind, issued, TRUE)
            /\ at = 3 => window' = window
        BY <1>9, <2>1, <2>2, <2>5 DEF Send
      <3> QED BY <1>0, <2>1, <2>3, <2>4, <2>5, <3>1, <3>2
              DEF Inv, TypeOK, LogInv, FspInv, OpenInv, SendInv, ReceiveInv,
                  ReadyInv, Quiet, CarriedOut
    <2>6. CASE at = 4
      <3>1. pc' = "receiveWait" /\ at' = 0 /\ queue' = queue /\ window' = window
            /\ RingDoorbell
        BY <1>9, <2>2, <2>6 DEF Send
      <3>2. \/ fsp' = fsp /\ (fsp = "idle" => queue = 0)
            \/ fsp' = "rung" /\ queue # 0
        BY <1>0, <3>1, BellRings DEF TypeOK
      <3> QED BY <1>0, <2>1, <2>3, <2>4, <2>6, <3>1, <3>2
              DEF Inv, TypeOK, LogInv, FspInv, OpenInv, SendInv, ReceiveInv,
                  ReadyInv, Quiet, CarriedOut
    <2> QED BY <2>5, <2>6
  <1>10. CASE ReceiveWait
    BY <1>0, <1>10 DEF ReceiveWait, Inv, TypeOK, LogInv, FspInv, OpenInv, SendInv, ReceiveInv,
                       ReadyInv, Quiet, CarriedOut, OwnAnswer
  <1>11. CASE ReadWindow
    BY <1>0, <1>11 DEF ReadWindow, Inv, TypeOK, LogInv, FspInv, OpenInv, SendInv, ReceiveInv,
                       ReadyInv, Quiet, CarriedOut, OwnAnswer
  <1>12. CASE Ack
    <2>1. /\ pc' \in {"ready", "closed"} /\ at' = 0 /\ msgq' = 0
          /\ UNCHANGED <<kind, issued, queue, window, read, fsp, taken, log, overrun>>
      BY <1>12 DEF Ack, Judge
    <2>2. Quiet /\ (fsp = "idle" => queue = 0)
      BY <1>0, <1>12 DEF Ack, ReceiveInv, FspInv
    <2> QED BY <1>0, <2>1, <2>2 DEF Inv, TypeOK, LogInv, FspInv, OpenInv, SendInv, ReceiveInv,
                                   ReadyInv, Quiet, CarriedOut
  <1> USE DEF clientVars
  <1>13. CASE FspTake
    <2>1. window = Command(kind, issued, TRUE) /\ queue = LastDword(kind)
      BY <1>0, <1>13 DEF FspTake, FspInv, Quiet
    <2>2. taken' = issued
      BY <1>0, <1>13, <2>1, CommandFields DEF FspTake, TypeOK
    <2> QED BY <1>0, <1>13, <2>2 DEF FspTake, Inv, TypeOK, LogInv, FspInv, OpenInv, SendInv,
                                    ReceiveInv, ReadyInv, Quiet, CarriedOut, OwnAnswer
  <1>14. CASE FspExecute
    <2>1. /\ log' = Append(log, issued) /\ fsp' = "done" /\ fsp = "working"
          /\ taken = issued /\ issued # 0 /\ ~Quiet /\ issued \in Nat
          /\ UNCHANGED <<pc, at, kind, issued, read, answer, overrun, queue, msgq, window, taken>>
      BY <1>0, <1>14 DEF FspExecute, FspInv, Quiet, TypeOK
    <2>2. /\ log' \in Seq(Nat)
          /\ Len(log') = Len(log) + 1
          /\ \A i \in 1 .. Len(log') : log'[i] = IF i <= Len(log) THEN log[i] ELSE issued
          /\ \A c : CarriedOut(c)' <=> CarriedOut(c) \/ c = issued
      BY <1>0, <2>1, LogGrows DEF TypeOK
    <2>3. LogInv'
      BY <1>0, <2>1, <2>2 DEF LogInv, TypeOK
    <2>4. CarriedOut(issued)'
      BY <2>1, <2>2
    <2>5. TypeOK' /\ FspInv' /\ OpenInv' /\ SendInv' /\ ReadyInv'
      BY <1>0, <2>1, <2>2, <2>4 DEF TypeOK, FspInv, OpenInv, SendInv, ReadyInv, Quiet
    <2>6. ReceiveInv'
      BY <1>0, <2>1, <2>4 DEF ReceiveInv, OwnAnswer
    <2> QED BY <2>3, <2>5, <2>6 DEF Inv
  <1>15. ASSUME NEW v \in Verdict, FspAnswer(v) PROVE Inv'
    <2>1. OwnAnswer(window')
      BY <1>0, <1>15 DEF FspAnswer, FspInv, Quiet, OwnAnswer, Answer
    <2>2. /\ msgq' \in {4, 256} /\ fsp' = "answered" /\ ~Quiet
          /\ UNCHANGED <<pc, at, kind, issued, read, answer, overrun, queue, log>>
      BY <1>15 DEF FspAnswer, Quiet
    <2> QED BY <1>0, <2>1, <2>2 DEF Inv, TypeOK, LogInv, FspInv, OpenInv, SendInv,
                                   ReceiveInv, ReadyInv, Quiet, CarriedOut, OwnAnswer
  <1>16. CASE FspConsume \/ FspDrop
    BY <1>0, <1>16 DEF FspConsume, FspDrop, Inv, TypeOK, LogInv, FspInv, OpenInv, SendInv,
                       ReceiveInv, ReadyInv, Quiet, CarriedOut, OwnAnswer
  <1>17. CASE UNCHANGED vars
    BY <1>0, <1>17 DEF vars, Inv, TypeOK, LogInv, FspInv, OpenInv, SendInv,
                       ReceiveInv, ReadyInv, Quiet, CarriedOut, OwnAnswer
  <1> QED BY <1>1, <1>2, <1>3, <1>4, <1>5, <1>6, <1>7, <1>8, <1>9, <1>10, <1>11, <1>12,
             <1>13, <1>14, <1>15, <1>16, <1>17 DEF Next, Choice, Client, Fsp

\* A reset that was overrun is not forgotten.
LEMMA OverrunStays == overrun /\ [Next]_vars => overrun'
  BY DEF Next, Choice, Client, Fsp, vars, clientVars, Open, Call, Close, Crash, CheckQueue,
         CheckMsgq, Drain, Reset, SendWait, SendTimeout, Send, ReceiveWait, ReceiveTimeout,
         ReadWindow, Ack, FspTake, FspExecute, FspAnswer, FspConsume, FspDrop

\* However many clients died before, and wherever: a channel that is ready for
\* a command has nothing of an earlier one in it, until a reset is overrun.
THEOREM OpenIsFresh == Spec => []FreshOpen
  <1>1. (overrun \/ Inv) /\ [Next]_vars => (overrun \/ Inv)'
    BY StepInv, OverrunStays
  <1>2. overrun \/ Inv => FreshOpen
    BY DEF Inv, ReadyInv, FreshOpen
  <1> QED BY <1>1, <1>2, InitInv, PTL DEF Spec

-----------------------------------------------------------------------------
(* An FSP that takes longer than every wait.                               *)

\* Resetting the queues does not stop an FSP that takes longer than every wait:
\* it may find its command gone, or half of the next one in its place.  But no
\* command is carried out twice, nor after a later one, so that no mode that was
\* given up on comes back.
NeverBackwards ==
  \A i, j \in DOMAIN log : i < j /\ log[i] # 0 /\ log[j] # 0 => log[i] < log[j]

SlowTypeOK ==
  /\ at \in Nat /\ kind \in {"read", "write"} /\ issued \in Nat
  /\ queue \in {0, 2, 3}
  /\ fsp \in {"idle", "rung", "working", "done", "answered"}
  /\ taken \in 0 .. issued /\ window.of \in 0 .. issued
  /\ log \in Seq(Nat) /\ \A i \in DOMAIN log : log[i] <= issued
  /\ window.holds = "command" => window.last \in {2, 3}

\* Whatever was carried out was sent before command c.
OlderThan(c) == \A i \in DOMAIN log : log[i] < c

\* A command that the FSP may still take, or has taken, was not carried out.
QueuedIsNew ==
  queue # 0 /\ window.holds = "command" /\ fsp \in {"idle", "rung"} => OlderThan(window.of)

TakenIsNew == fsp = "working" /\ taken # 0 => OlderThan(taken)

\* The client's next command is nowhere before it is whole in the window, and
\* announced after that.
NextIsNew ==
  /\ pc = "sendWait" \/ (pc = "send" /\ at <= 3) =>
       /\ issued # 0 /\ taken # issued /\ OlderThan(issued)
       /\ pc = "sendWait" \/ at = 1 => window.of # issued
       /\ pc = "send" => queue = 0
  /\ pc = "send" => /\ at \in 1 .. 4
                    /\ at = 2 => window.holds # "command"
                    /\ at = 3 /\ window.holds = "command" => window.of = issued

SlowInv == SlowTypeOK /\ QueuedIsNew /\ TakenIsNew /\ NextIsNew /\ NeverBackwards

\* Every answer is to a command that was sent, or to none.
AnswersSent ==
  /\ read.of \in 0 .. issued /\ answer \in 0 .. issued
  /\ overrun \in BOOLEAN

LEMMA SlowInit == Init => SlowInv
  BY DEF Init, SlowInv, SlowTypeOK, QueuedIsNew, TakenIsNew, NextIsNew, NeverBackwards,
         Nothing, Answer, OlderThan

LEMMA SlowStep == SlowInv /\ [Next]_vars => SlowInv'
  <1> SUFFICES ASSUME SlowInv, [Next]_vars PROVE SlowInv'
    OBVIOUS
  <1>0. SlowTypeOK /\ QueuedIsNew /\ TakenIsNew /\ NextIsNew /\ NeverBackwards
    BY DEF SlowInv
  <1>k. ASSUME UNCHANGED <<issued, queue, window, fsp, taken, log>>,
               at' \in Nat /\ kind' \in {"read", "write"},
               pc' \notin {"sendWait", "send"}
        PROVE  SlowInv'
    BY <1>0, <1>k DEF SlowInv, SlowTypeOK, QueuedIsNew, TakenIsNew, NextIsNew, NeverBackwards,
                      OlderThan
  <1>1. CASE Open \/ CheckQueue \/ CheckMsgq \/ Drain \/ SendTimeout \/ ReceiveWait
             \/ ReceiveTimeout \/ ReadWindow \/ Ack \/ Close \/ Crash
    <2>1. /\ UNCHANGED <<issued, queue, window, fsp, taken, log, kind>>
          /\ at' \in Nat /\ pc' \notin {"sendWait", "send"}
      BY <1>1 DEF Open, CheckQueue, CheckMsgq, Drain, SendTimeout, ReceiveWait,
                  ReceiveTimeout, ReadWindow, Ack, Judge, Close, Crash, GoTo
    <2> QED BY <1>0, <1>k, <2>1 DEF SlowTypeOK
  <1>2. CASE Reset
    <2>1. /\ UNCHANGED <<issued, kind, window, taken, log>>
          /\ at' \in Nat /\ pc' \notin {"sendWait", "send"}
          /\ queue' \in {0, queue}
          /\ fsp' = fsp \/ (fsp = "idle" /\ fsp' = "rung")
      BY <1>0, <1>2 DEF Reset, GoTo, RingDoorbell, SlowTypeOK, ResetOrder
    <2> QED BY <1>0, <2>1 DEF SlowInv, SlowTypeOK, QueuedIsNew, TakenIsNew, NextIsNew,
                             NeverBackwards, OlderThan
  <1>3. ASSUME NEW k \in {"read", "write"}, Call(k) PROVE SlowInv'
    <2>1. /\ issued' = issued + 1 /\ kind' = k /\ pc' = "sendWait" /\ at' = 0
          /\ UNCHANGED <<queue, window, fsp, taken, log>>
      BY <1>3 DEF Call, GoTo
    <2>2. SlowTypeOK'
      BY <1>0, <2>1 DEF SlowTypeOK
    <2>3. NextIsNew'
      BY <1>0, <2>1 DEF SlowTypeOK, NextIsNew, OlderThan
    <2> QED BY <1>0, <2>1, <2>2, <2>3
            DEF SlowInv, QueuedIsNew, TakenIsNew, NeverBackwards, OlderThan
  <1>4. CASE SendWait
    <2>1. /\ pc = "sendWait" /\ queue = 0 /\ pc' = "send" /\ at' = 1
          /\ UNCHANGED <<kind, issued, queue, window, fsp, taken, log>>
      BY <1>4 DEF SendWait, GoTo
    <2> QED BY <1>0, <2>1 DEF SlowInv, SlowTypeOK, QueuedIsNew, TakenIsNew, NextIsNew,
                             NeverBackwards, OlderThan
  <1>5. CASE Send
    <2>0. pc = "send" /\ at \in 1 .. 4 /\ UNCHANGED <<kind, issued, taken, log>>
      BY <1>0, <1>5 DEF Send, NextIsNew
    <2>1. CASE at = 1
      <3>1. /\ window' = Command(kind, issued, FALSE) /\ UNCHANGED <<queue, fsp>>
            /\ pc' = "send" /\ at' = 2
        BY <1>5, <2>1 DEF Send, SendOrder
      <3> QED BY <1>0, <2>0, <2>1, <3>1
              DEF SlowInv, SlowTypeOK, QueuedIsNew, TakenIsNew, NextIsNew, NeverBackwards,
                  OlderThan, Command
    <2>2. CASE at = 2
      <3>1. UNCHANGED <<queue, fsp>> /\ pc' = "send" /\ at' = 3
        BY <1>5, <2>2 DEF Send, SendOrder
      <3>2. window'.holds = "command" /\ window'.last \in {2, 3} /\ window'.of = issued
        <4>1. window' = Command(kind, issued, TRUE)
          BY <1>5, <2>2 DEF Send, SendOrder
        <4> QED BY <1>0, <4>1, CommandFields DEF SlowTypeOK
      <3>3. queue = 0 /\ queue' = 0 /\ issued # 0 /\ taken # issued /\ OlderThan(issued)
        BY <1>0, <2>0, <2>2, <3>1 DEF NextIsNew
      <3>4. SlowTypeOK'
        BY <1>0, <2>0, <3>1, <3>2 DEF SlowTypeOK
      <3>5. NextIsNew'
        BY <2>0, <3>1, <3>2, <3>3 DEF NextIsNew, OlderThan
      <3> QED BY <1>0, <2>0, <3>1, <3>3, <3>4, <3>5
              DEF SlowInv, QueuedIsNew, TakenIsNew, NeverBackwards, OlderThan
    <2>3. CASE at = 3
      <3>1. /\ queue' = LastDword(kind) /\ UNCHANGED <<window, fsp>>
            /\ pc' = "send" /\ at' = 4
        BY <1>5, <2>3 DEF Send, SendOrder
      <3>2. queue' \in {2, 3}
        BY <1>0, <3>1, CommandFields DEF SlowTypeOK
      <3> QED BY <1>0, <2>0, <2>3, <3>1, <3>2
              DEF SlowInv, SlowTypeOK, QueuedIsNew, TakenIsNew, NextIsNew, NeverBackwards,
                  OlderThan
    <2>4. CASE at = 4
      <3>1. /\ UNCHANGED <<queue, window>> /\ RingDoorbell
            /\ pc' = "receiveWait" /\ at' = 0
        BY <1>5, <2>4 DEF Send, SendOrder, GoTo
      <3> QED BY <1>0, <2>0, <2>4, <3>1
              DEF SlowInv, SlowTypeOK, QueuedIsNew, TakenIsNew, NextIsNew, NeverBackwards,
                  OlderThan, RingDoorbell
    <2> QED BY <2>0, <2>1, <2>2, <2>3, <2>4
  <1>6. CASE FspTake
    <2>1. /\ fsp = "rung" /\ fsp' = "working"
          /\ taken' = IF window.holds = "command" /\ window.last = queue THEN window.of ELSE 0
          /\ UNCHANGED <<pc, at, kind, issued, queue, window, log>>
      BY <1>6 DEF FspTake, clientVars
    <2>2. taken' # 0 => OlderThan(taken')
      BY <1>0, <2>1 DEF SlowTypeOK, QueuedIsNew
    <2>3. NextIsNew'
      BY <1>0, <2>1 DEF SlowTypeOK, NextIsNew, OlderThan
    <2> QED BY <1>0, <2>1, <2>2, <2>3
            DEF SlowInv, SlowTypeOK, QueuedIsNew, TakenIsNew, NeverBackwards, OlderThan
  <1>7. CASE FspExecute
    <2>1. /\ fsp = "working" /\ fsp' = "done" /\ log' = Append(log, taken)
          /\ UNCHANGED <<pc, at, kind, issued, queue, window, taken>>
      BY <1>7 DEF FspExecute, clientVars
    <2>2. /\ log' \in Seq(Nat) /\ DOMAIN log' = 1 .. Len(log) + 1 /\ DOMAIN log = 1 .. Len(log)
          /\ Len(log) \in Nat
          /\ \A i \in DOMAIN log' : log'[i] = IF i \in DOMAIN log THEN log[i] ELSE taken
      BY <1>0, <2>1 DEF SlowTypeOK
    <2>3. SlowTypeOK'
      BY <1>0, <2>1, <2>2 DEF SlowTypeOK
    <2>4. NextIsNew'
      BY <1>0, <2>1, <2>2 DEF SlowTypeOK, NextIsNew, OlderThan
    <2>5. NeverBackwards'
      <3> SUFFICES ASSUME NEW i \in DOMAIN log', NEW j \in DOMAIN log', i < j,
                          log'[i] # 0, log'[j] # 0
                   PROVE  log'[i] < log'[j]
        BY DEF NeverBackwards
      <3>1. i \in DOMAIN log /\ log'[i] = log[i]
        BY <2>2
      <3>2. CASE j \in DOMAIN log
        BY <1>0, <2>2, <3>1, <3>2 DEF NeverBackwards
      <3>3. CASE j \notin DOMAIN log
        BY <1>0, <2>1, <2>2, <3>1, <3>3 DEF TakenIsNew, OlderThan
      <3> QED BY <3>2, <3>3
    <2> QED BY <2>1, <2>3, <2>4, <2>5 DEF SlowInv, QueuedIsNew, TakenIsNew
  <1>8. ASSUME NEW v \in Verdict, FspAnswer(v) PROVE SlowInv'
    <2>1. /\ window' = Answer(taken, v) /\ fsp' = "answered" /\ taken' = 0
          /\ UNCHANGED <<pc, at, kind, issued, queue, log>>
      BY <1>8 DEF FspAnswer, clientVars
    <2>2. window'.of = taken /\ window'.holds # "command"
      BY <1>8, <2>1 DEF Answer, Verdict
    <2> QED BY <1>0, <2>1, <2>2
            DEF SlowInv, SlowTypeOK, QueuedIsNew, TakenIsNew, NextIsNew, NeverBackwards, OlderThan
  <1>9. CASE FspConsume \/ FspDrop
    <2>1. /\ queue' = 0 /\ fsp' = "idle" /\ taken' \in {0, taken}
          /\ UNCHANGED <<pc, at, kind, issued, window, log>>
      BY <1>9 DEF FspConsume, FspDrop, clientVars
    <2> QED BY <1>0, <2>1
            DEF SlowInv, SlowTypeOK, QueuedIsNew, TakenIsNew, NextIsNew, NeverBackwards, OlderThan
  <1>10. CASE UNCHANGED vars
    BY <1>0, <1>10 DEF vars, SlowInv, SlowTypeOK, QueuedIsNew, TakenIsNew, NextIsNew,
                       NeverBackwards, OlderThan
  <1> QED BY <1>1, <1>2, <1>3, <1>4, <1>5, <1>6, <1>7, <1>8, <1>9, <1>10
          DEF Next, Choice, Client, Fsp

LEMMA AnswersSentInv ==
  /\ Init => AnswersSent
  /\ SlowInv /\ AnswersSent /\ [Next]_vars => AnswersSent'
  <1>1. Init => AnswersSent
    <2>1. Init => overrun \in BOOLEAN
      BY Zenon DEF Init
    <2> QED BY <2>1 DEF Init, AnswersSent, Nothing, Answer
  <1>2. ASSUME SlowInv, AnswersSent, [Next]_vars PROVE AnswersSent'
    <2> USE DEF AnswersSent, SlowInv, SlowTypeOK
    <2>1. CASE \E k \in {"read", "write"} : Call(k)
      BY <1>2, <2>1 DEF Call, Nothing, Answer
    <2>2. CASE Send
      <3>1. UNCHANGED <<issued, read, answer, overrun>>
        BY <2>2 DEF Send
      <3> QED BY <1>2, <3>1
    <2>3. CASE Reset
      <3>1. UNCHANGED <<issued, read, answer, overrun>>
        BY <2>3 DEF Reset
      <3> QED BY <1>2, <3>1
    <2>4. CASE ReadWindow \/ Ack \/ Drain
      BY <1>2, <2>4 DEF ReadWindow, Ack, Judge, Drain
    <2>5. CASE \/ Open \/ CheckQueue \/ CheckMsgq \/ SendWait \/ SendTimeout
               \/ ReceiveWait \/ ReceiveTimeout \/ Close \/ Crash \/ Fsp \/ UNCHANGED vars
      <3>1. UNCHANGED <<issued, read, answer, overrun>>
        BY <2>5 DEF Fsp, vars, clientVars, Open, Close, Crash, CheckQueue, CheckMsgq,
                    SendWait, SendTimeout, ReceiveWait, ReceiveTimeout, FspTake,
                    FspExecute, FspAnswer, FspConsume, FspDrop
      <3> QED BY <1>2, <3>1
    <2> QED BY <1>2, <2>1, <2>2, <2>3, <2>4, <2>5 DEF Next, Choice, Client
  <1> QED BY <1>1, <1>2

\* However slow the FSP, and wherever clients die or give up: no command is
\* carried out twice, and none after a later one.
THEOREM NeverGoesBack == Spec => []NeverBackwards
  <1>1. SlowInv => NeverBackwards
    BY DEF SlowInv
  <1> QED BY <1>1, SlowInit, SlowStep, PTL DEF Spec

-----------------------------------------------------------------------------
(* The channel is a KnobRpc.                                               *)

\* What KnobRpc sees of the channel: the command that is waited for, and one
\* that was given up on and is still with the FSP.
Pending == IF InCall THEN issued ELSE 0
Late == IF fsp \in {"rung", "working"} /\ ~InCall THEN issued ELSE 0

\* A client that gives up on its call, for whatever reason, leaves no more than
\* its own command behind, and that only while the FSP has yet to carry it out.
LEMMA GivesUp ==
  ASSUME Inv, InCall, ~InCall', UNCHANGED <<issued, fsp, log, answer, overrun>>
  PROVE  Rpc!Fail
  <1>1. issued \in Nat \ {0}
    BY DEF Inv, TypeOK, InCall, SendInv, ReceiveInv
  <1>2. Pending = issued /\ Late = 0 /\ Pending' = 0
    BY DEF Pending, Late
  <1>3. Late' = 0 \/ (Late' = issued /\ ~Rpc!Done(issued))
    BY DEF Inv, FspInv, Quiet, Late, CarriedOut, Rpc!Done
  <1> QED BY <1>1, <1>2, <1>3 DEF Rpc!Fail, Rpc!Done, Pending, Late

\* Until a reset is overrun, every step is one of KnobRpc, or none that it sees.
LEMMA StepInTime ==
  ASSUME Inv, [Next]_vars, ~overrun, ~overrun', overrun' \in BOOLEAN
  PROVE  [Rpc!Next]_<<issued, Pending, Late, log, answer, overrun>>
  <1> DEFINE Seen == <<issued, Pending, Late, log, answer, overrun>>
  <1>0. TypeOK /\ LogInv /\ FspInv /\ OpenInv /\ SendInv /\ ReceiveInv /\ ReadyInv
    BY DEF Inv
  <1>t. UNCHANGED overrun
    BY <1>0 DEF TypeOK
  <1> USE DEF GoTo, Pending, Late, InCall
  <1>1. CASE Open \/ CheckQueue \/ CheckMsgq \/ Drain \/ SendWait \/ ReadWindow \/ Close
    <2>1. UNCHANGED Seen
      BY <1>0, <1>t, <1>1 DEF Open, CheckQueue, CheckMsgq, Drain, SendWait, ReadWindow, Close,
                        ReadyInv, Fresh
    <2> QED BY <2>1
  <1>2. CASE Reset
    <2>1. fsp' = fsp
      <3>1. /\ at \in 1 .. 4
            /\ at > 1 => queue = 0
        BY <1>0, <1>2 DEF Reset, OpenInv
      <3>2. ResetOrder[at] = "queueHead" => at = 2
        BY <3>1 DEF ResetOrder
      <3> QED BY <1>2, <3>1, <3>2 DEF Reset, RingDoorbell
    <2>2. UNCHANGED <<issued, log, answer>> /\ pc = "reset" /\ pc' \in {"reset", "ready"}
      BY <1>2 DEF Reset
    <2>3. UNCHANGED Seen
      BY <1>t, <2>1, <2>2
    <2> QED BY <2>3
  <1>3. ASSUME NEW k \in {"read", "write"}, Call(k) PROVE Rpc!Call
    BY <1>0, <1>3 DEF Call, Rpc!Call, ReadyInv, Fresh
  <1>4. CASE Send
    <2>1. UNCHANGED <<issued, log, answer>> /\ pc = "send" /\ pc' \in {"send", "receiveWait"}
      BY <1>4 DEF Send
    <2>2. UNCHANGED Seen
      BY <1>t, <2>1
    <2> QED BY <2>2
  <1>5. CASE SendTimeout \/ ReceiveTimeout \/ (Crash /\ InCall)
    <2>1. InCall /\ ~InCall' /\ UNCHANGED <<issued, fsp, log, answer, overrun>>
      BY <1>5 DEF SendTimeout, ReceiveTimeout, Crash
    <2> QED BY <2>1, GivesUp DEF Rpc!Next
  <1>6. CASE Crash /\ ~InCall
    <2>1. UNCHANGED Seen
      BY <1>6 DEF Crash
    <2> QED BY <2>1
  <1>7. CASE ReceiveWait
    <2>1. CASE msgq = 256
      <3>1. InCall /\ ~InCall' /\ UNCHANGED <<issued, fsp, log, answer, overrun>>
        BY <1>7, <2>1 DEF ReceiveWait
      <3> QED BY <3>1, GivesUp DEF Rpc!Next
    <2>2. CASE msgq # 256
      <3>1. UNCHANGED Seen
        BY <1>7, <2>2 DEF ReceiveWait
      <3> QED BY <3>1
    <2> QED BY <2>1, <2>2
  <1>8. CASE Ack
    <2>1. /\ pc = "ack" /\ pc' \in {"ready", "closed"}
          /\ UNCHANGED <<issued, fsp, log, overrun>>
      BY <1>8 DEF Ack, Judge
    <2>2. CASE read.holds = "ok"
      <3>1. answer' = issued /\ Rpc!Done(issued)
        BY <1>0, <1>8, <2>2 DEF Ack, Judge, ReceiveInv, OwnAnswer, CarriedOut, Rpc!Done
      <3>2. issued # 0 /\ Late = 0 /\ Late' = 0
        BY <1>0, <2>1 DEF ReceiveInv, FspInv, Quiet
      <3>3. Rpc!Succeed
        BY <2>1, <3>1, <3>2 DEF Rpc!Succeed, Rpc!Done
      <3> QED BY <3>3 DEF Rpc!Next
    <2>3. CASE read.holds # "ok"
      <3>1. UNCHANGED answer
        BY <1>8, <2>3 DEF Ack, Judge
      <3> QED BY <2>1, <3>1, GivesUp DEF Rpc!Next
    <2> QED BY <2>2, <2>3
  <1> USE DEF clientVars
  <1>9. CASE FspTake \/ FspConsume
    <2>1. UNCHANGED Seen
      BY <1>9 DEF FspTake, FspConsume
    <2> QED BY <2>1
  <1>10. CASE FspExecute
    <2>1. /\ log' = Append(log, issued) /\ fsp = "working" /\ fsp' = "done"
          /\ issued # 0 /\ ~Rpc!Done(issued)
          /\ UNCHANGED <<pc, issued, answer, overrun>>
      BY <1>0, <1>10 DEF FspExecute, FspInv, Quiet, CarriedOut, Rpc!Done
    <2>2. CASE InCall
      <3>1. Rpc!Serve
        BY <2>1, <2>2 DEF Rpc!Serve, Rpc!Done
      <3> QED BY <3>1 DEF Rpc!Next
    <2>3. CASE ~InCall
      <3>1. Rpc!LateServe
        BY <2>1, <2>3 DEF Rpc!LateServe
      <3> QED BY <3>1 DEF Rpc!Next
    <2> QED BY <2>2, <2>3
  <1>11. CASE (\E v \in Verdict : FspAnswer(v)) \/ FspDrop
    <2>1. ~(fsp' \in {"rung", "working"}) /\ UNCHANGED <<pc, issued, log, answer, overrun>>
      BY <1>11 DEF FspAnswer, FspDrop
    <2>2. CASE Late = 0
      <3>1. UNCHANGED Seen
        BY <2>1, <2>2
      <3> QED BY <3>1
    <2>3. CASE Late # 0
      <3>1. Rpc!LateDrop
        BY <2>1, <2>3 DEF Rpc!LateDrop
      <3> QED BY <3>1 DEF Rpc!Next
    <2> QED BY <2>2, <2>3
  <1>12. CASE UNCHANGED vars
    <2>1. UNCHANGED Seen
      BY <1>12 DEF vars
    <2> QED BY <2>1
  <1> QED BY <1>1, <1>2, <1>3, <1>4, <1>5, <1>6, <1>7, <1>8, <1>9, <1>10, <1>11, <1>12
          DEF Next, Choice, Client, Fsp, Rpc!Next

\* A reset that is overrun leaves no more behind than a command given up on.
LEMMA OverrunsOutOfCall ==
  ASSUME [Next]_vars, ~overrun, overrun', overrun' \in BOOLEAN
  PROVE  Rpc!Overrun
  <1>1. Drain
    BY DEF Next, Choice, Client, Fsp, vars, clientVars, Open, Call, Close, Crash, CheckQueue,
           CheckMsgq, Reset, SendWait, SendTimeout, Send, ReceiveWait, ReceiveTimeout,
           ReadWindow, Ack, FspTake, FspExecute, FspAnswer, FspConsume, FspDrop
  <1>2. ~InCall /\ ~InCall' /\ UNCHANGED <<issued, fsp, log, answer>>
    BY <1>1 DEF Drain, GoTo, InCall
  <1> QED BY <1>2 DEF Rpc!Overrun

\* After it, commands are still sent one by one, and carried out forwards.
LEMMA StepAfterOverrun ==
  ASSUME SlowInv, AnswersSent, AnswersSent', SlowInv', [Next]_vars, overrun, overrun'
  PROVE  Rpc!Disordered
  <1>1. issued \in Nat /\ issued' \in {issued, issued + 1}
    <2>1. Send => issued' = issued
      BY DEF Send
    <2> QED BY <2>1 DEF SlowInv, SlowTypeOK,
           Next, Choice, Client, Fsp, vars, clientVars, Open, Call, Close, Crash, CheckQueue,
           CheckMsgq, Drain, Reset, SendWait, SendTimeout, ReceiveWait, ReceiveTimeout,
           ReadWindow, Ack, FspTake, FspExecute, FspAnswer, FspConsume, FspDrop
  <1>2. \/ UNCHANGED log
        \/ \E c \in 0 .. issued : Rpc!Newest(c) /\ log' = Append(log, c)
    <2>1. CASE FspExecute
      BY <2>1 DEF FspExecute, SlowInv, SlowTypeOK, TakenIsNew, OlderThan, Rpc!Newest
    <2>2. CASE ~FspExecute
      <3>1. Send => UNCHANGED log
        BY DEF Send
      <3> QED BY <2>2, <3>1
           DEF Next, Choice, Client, Fsp, vars, Open, Call, Close, Crash, CheckQueue,
               CheckMsgq, Drain, Reset, SendWait, SendTimeout, ReceiveWait,
               ReceiveTimeout, ReadWindow, Ack, FspTake, FspAnswer, FspConsume, FspDrop
    <2> QED BY <2>1, <2>2
  <1>3. /\ Pending' \in {0, issued'} /\ Late' \in {0, issued'}
        /\ answer' \in 0 .. issued'
    BY DEF Pending, Late, AnswersSent
  <1> QED BY <1>1, <1>2, <1>3 DEF Rpc!Disordered, Pending, Late

\* What CcControl relies on: a command is carried out at most once, in the order
\* sent, success is that of the command sent, and at most one command that was
\* given up on is still to come, before the next is sent; and what is left of
\* that once the FSP has overrun a reset.
THEOREM CarriesCommands == Spec => RpcSpec
  <1> DEFINE IInv == SlowInv /\ AnswersSent /\ (overrun \/ Inv)
  <1>1. Init => Rpc!Init /\ IInv
    BY InitInv, SlowInit, AnswersSentInv DEF Init, Rpc!Init, InCall
  <1>2. IInv /\ [Next]_vars => IInv'
    BY StepInv, OverrunStays, SlowStep, AnswersSentInv
  <1>3. IInv /\ [Next]_vars
          => [Rpc!Next]_<<issued, IF InCall THEN issued ELSE 0,
                          IF fsp \in {"rung", "working"} /\ ~InCall THEN issued ELSE 0,
                          log, answer, overrun>>
    <2> SUFFICES ASSUME IInv, [Next]_vars
                 PROVE  [Rpc!Next]_<<issued, Pending, Late, log, answer, overrun>>
      BY DEF Pending, Late
    <2>1. IInv'
      BY <1>2
    <2>2. CASE ~overrun'
      BY <2>1, <2>2, OverrunStays, StepInTime DEF AnswersSent
    <2>3. CASE overrun' /\ ~overrun
      BY <2>1, <2>3, OverrunsOutOfCall DEF AnswersSent, Rpc!Next
    <2>4. CASE overrun' /\ overrun
      BY <2>1, <2>4, StepAfterOverrun DEF Rpc!Next
    <2> QED BY <2>2, <2>3, <2>4
  <1> QED BY <1>1, <1>2, <1>3, PTL DEF Spec, RpcSpec, Rpc!Spec

\* No command is carried out twice, and none after a later one: the numbers of
\* those carried out, of commands sent, only grow.
InOrder ==
  \A i, j \in 1 .. Len(log) :
    /\ log[i] \in 1 .. issued
    /\ i < j => log[i] < log[j]

\* However often the client was changed and whatever was given up on, knobs are
\* set in the order in which their commands were sent, and each at most once:
\* a mode that was given up on is never applied over a later one.  After a reset
\* is overrun, NeverGoesBack is what remains of it.
THEOREM CarriesOutInOrder == Spec => [](~overrun => InOrder)
  <1>1. Init => InOrder
    BY DEF Init, InOrder
  <1>2. Inv /\ InOrder /\ ~overrun' /\ [Next]_vars => InOrder'
    <2> SUFFICES ASSUME Inv, InOrder, ~overrun', [Next]_vars PROVE InOrder'
      OBVIOUS
    <2>0. Send => UNCHANGED <<issued, log>>
      BY DEF Send
    <2>1. issued \in Nat /\ issued' \in Nat /\ issued' >= issued
      BY <2>0
         DEF Inv, TypeOK, Next, Choice, Client, Fsp, vars, clientVars, Open, Call, Close, Crash,
             CheckQueue, CheckMsgq, Drain, Reset, SendWait, SendTimeout, ReceiveWait,
             ReceiveTimeout, ReadWindow, Ack, FspTake, FspExecute, FspAnswer, FspConsume, FspDrop
    <2>2. CASE FspExecute
      <3>1. log' = Append(log, issued) /\ issued' = issued
        BY <2>2 DEF FspExecute, Inv, FspInv, Quiet, clientVars
      <3>2. \A i \in 1 .. Len(log) : log[i] \in 1 .. issued /\ log[i] # issued
        BY <2>2 DEF FspExecute, Inv, LogInv, FspInv, Quiet, CarriedOut
      <3>3. issued # 0
        BY <2>2 DEF FspExecute, Inv, FspInv, Quiet
      <3>4. /\ Len(log') = Len(log) + 1 /\ Len(log) \in Nat
            /\ \A i \in 1 .. Len(log') : log'[i] = IF i <= Len(log) THEN log[i] ELSE issued
        BY <2>1, <3>1, LogGrows DEF Inv, TypeOK
      <3>5. \A i \in 1 .. Len(log') : log'[i] \in 1 .. issued
        BY <2>1, <3>2, <3>3, <3>4
      <3>6. ASSUME NEW i \in 1 .. Len(log'), NEW j \in 1 .. Len(log'), i < j
            PROVE  log'[i] < log'[j]
        <4>1. i \in 1 .. Len(log) /\ log'[i] = log[i] /\ log[i] \in 1 .. issued /\ log[i] # issued
          BY <3>2, <3>4, <3>6
        <4>2. CASE j \in 1 .. Len(log)
          BY <3>4, <3>6, <4>1, <4>2 DEF InOrder
        <4>3. CASE j \notin 1 .. Len(log)
          BY <2>1, <3>4, <3>6, <4>1, <4>3
        <4> QED BY <4>2, <4>3
      <3> QED BY <3>1, <3>5, <3>6 DEF InOrder
    <2>3. CASE ~FspExecute
      <3>1. log' = log
        BY <2>0, <2>3
           DEF Next, Choice, Client, Fsp, vars, Open, Call, Close, Crash, CheckQueue,
                    CheckMsgq, Drain, Reset, SendWait, SendTimeout, ReceiveWait,
                    ReceiveTimeout, ReadWindow, Ack, FspTake, FspAnswer, FspConsume, FspDrop
      <3> QED BY <2>1, <3>1 DEF InOrder
    <2> QED BY <2>2, <2>3
  <1>3. (overrun \/ (Inv /\ InOrder)) /\ [Next]_vars => (overrun \/ (Inv /\ InOrder))'
    BY <1>2, StepInv, OverrunStays
  <1> QED BY <1>1, <1>3, InitInv, PTL DEF Spec
=============================================================================
