-------------------------- MODULE MnocMailboxProofs --------------------------
(***************************************************************************)
(* Proofs about MnocMailbox: whatever was left in the mailbox, no call     *)
(* makes the CCD-only state, answers are what CcControl takes them for,    *)
(* and a call no stray answer was left for returns Ok only with its mode   *)
(* stored.                                                                 *)
(***************************************************************************)
EXTENDS MnocMailbox, TLAPS

Knobs == {"ccm", "ccd"}
KnobSteps == [knob : Knobs, value : 0 .. 1]
Jobs == {NoJob} \cup [op : {"read", "write"}, step : KnobSteps]
Answers == [shape : Shape \cup {"nothing"}, value : 0 .. 1]

TypeOK ==
  /\ knob \in [Knobs -> 0 .. 1]
  /\ call \in CcMode \cup {"none"}
  /\ at \in 0 .. 2
  /\ op \in {"read", "write"}
  /\ pc \in {"idle", "sendWait", "words", "receiveWait", "judge"}
  /\ job \in Jobs
  /\ outbox \in Answers
  /\ reply \in Answers
  /\ stored \in CcMode \cup {"none"}
  /\ astray \in BOOLEAN
  /\ pc = "idle" <=> call = "none"
  /\ pc = "idle" <=> at = 0

Settled(s) == knob[s.knob] = s.value

\* A value that was read since the last write, of either knob.
Plausible(v) == /\ v = 0 => knob["ccd"] = 0
                /\ v = 1 => knob["ccm"] = 1

\* A value in the mailbox, or in the hand of a client that asked for one, is
\* younger than the last write: an answer to a write replaces older ones.
ValuesAreCurrent ==
  /\ outbox.shape = "value" => Plausible(outbox.value)
  /\ pc = "judge" /\ op = "read" /\ reply.shape = "value" => Plausible(reply.value)

\* What the FSP is at work on while a client is in a command: a command of
\* another client, or of an earlier step, is over when the next one is sent.
JobIsCurrent ==
  /\ pc = "words" => job = NoJob
  /\ pc \in {"receiveWait", "judge"} => job \in {NoJob, [op |-> op, step |-> Todo]}
  /\ pc = "sendWait" /\ (op = "write" \/ at = 2) => job.op # "write"

\* A write the FSP is at work on makes no CCD-only state.
WriteIsSafe ==
  job.op = "write" => /\ job.step = Step("ccd", 1) => knob["ccm"] = 1
                      /\ job.step = Step("ccm", 0) => knob["ccd"] = 0

\* The acknowledgement of a write is not to an older one: each write follows
\* a read, whose answer took the place of whatever was in the mailbox.
WritesAreAcknowledged ==
  /\ pc = "judge" /\ op = "read" => outbox.shape # "empty"
  /\ pc # "idle" /\ op = "write" /\ outbox.shape = "empty" /\ pc # "judge"
       => pc = "receiveWait" /\ job = NoJob /\ Settled(Todo)
  /\ pc = "judge" /\ op = "write" /\ reply.shape = "empty"
       => job = NoJob /\ Settled(Todo)

\* The second knob is only turned to once the first holds its value.
FirstStepHolds == at = 2 => Settled(CcSteps(call)[1])

\* As long as no answer went astray, all that is on its way is the client's.
AllIsOurs ==
  ~astray =>
    /\ pc # "receiveWait" => job = NoJob /\ outbox = Nothing
    /\ pc = "receiveWait" => \/ outbox = Nothing
                             \/ job = NoJob
    /\ pc = "receiveWait" /\ op = "read" /\ outbox.shape = "value"
         => outbox.value = knob[Todo.knob]
    /\ pc = "judge" /\ op = "read" /\ reply.shape = "value"
         => reply.value = knob[Todo.knob]

StoredHolds ==
  /\ stored # "none" => pc = "idle"
  /\ stored # "none" /\ ~astray => \A i \in 1 .. 2 : Settled(CcSteps(stored)[i])

Inv ==
  /\ TypeOK /\ NeverCcdOnly
  /\ ValuesAreCurrent /\ JobIsCurrent /\ WriteIsSafe
  /\ WritesAreAcknowledged /\ FirstStepHolds /\ AllIsOurs /\ StoredHolds

-----------------------------------------------------------------------------

\* The two steps of set_cc_mode's plan on the families that speak MNOC.
LEMMA PlanSteps ==
  ASSUME NEW m \in CcMode
  PROVE  /\ Len(CcSteps(m)) = 2
         /\ CcSteps(m)[1] \in KnobSteps /\ CcSteps(m)[2] \in KnobSteps
         /\ m = "off" => CcSteps(m)[1] = Step("ccd", 0) /\ CcSteps(m)[2] = Step("ccm", 0)
         /\ m # "off" => /\ CcSteps(m)[1] = Step("ccm", 1)
                         /\ CcSteps(m)[2].knob = "ccd"
BY DEF CcMode, CcSteps, CcGoal, Step, KnobSteps, Knobs

\* The step a call is at is one of the two.
LEMMA TodoStep ==
  ASSUME TypeOK, pc # "idle"
  PROVE  /\ Todo \in KnobSteps
         /\ call \in CcMode
         /\ at \in {1, 2}
         /\ Todo = CcSteps(call)[at]
         /\ PlanEnds <=> at = 2
<1>1. call \in CcMode /\ at \in {1, 2}
  BY DEF TypeOK
<1>2. CcSteps(call)[1] \in KnobSteps /\ CcSteps(call)[2] \in KnobSteps /\ Len(CcSteps(call)) = 2
  BY <1>1, PlanSteps
<1> QED
  BY <1>1, <1>2 DEF Todo, PlanEnds

\* A read that answers with a value the plan asks for shows that it holds,
\* even if it is the value of the other knob.
LEMMA PlausibleStepHolds ==
  ASSUME TypeOK, NEW m \in CcMode, Plausible(CcSteps(m)[1].value)
  PROVE  Settled(CcSteps(m)[1])
BY PlanSteps DEF TypeOK, Plausible, Settled, Step, Knobs

\* Writing a step's value is safe once the steps before it hold.
LEMMA TodoIsSafe ==
  ASSUME Inv, pc # "idle"
  PROVE  /\ Todo = Step("ccd", 1) => knob["ccm"] = 1
         /\ Todo = Step("ccm", 0) => knob["ccd"] = 0
<1>1. CASE at = 1
  BY <1>1, TodoStep, PlanSteps DEF Inv, Step
<1>2. CASE at = 2
  BY <1>2, TodoStep, PlanSteps DEF Inv, Step, FirstStepHolds, Settled, KnobSteps
<1> QED
  BY <1>1, <1>2, TodoStep DEF Inv

\* The two answers and the command that stand for none.
LEMMA Nones ==
  /\ NoJob \in Jobs /\ NoJob.op = "none"
  /\ Nothing \in Answers /\ Nothing.shape = "nothing"
BY DEF NoJob, Jobs, Nothing, Answer, Answers

LEMMA InitInv == Init => Inv
<1> SUFFICES ASSUME Init
             PROVE  Inv
  OBVIOUS
<1>0. NeverCcdOnly /\ knob \in [Knobs -> 0 .. 1]
  BY DEF Init, Knobs, NeverCcdOnly
<1>1. TypeOK
  <2>1. call \in CcMode \cup {"none"} /\ stored \in CcMode \cup {"none"} /\ astray \in BOOLEAN
    BY DEF Init
  <2>2. job \in Jobs /\ outbox \in Answers /\ reply \in Answers
    BY Nones DEF Init
  <2>3. at \in 0 .. 2 /\ op \in {"read", "write"} /\ pc = "idle" /\ call = "none" /\ at = 0
    BY DEF Init
  <2> QED
    BY <1>0, <2>1, <2>2, <2>3 DEF TypeOK
<1>2. ValuesAreCurrent /\ JobIsCurrent /\ WriteIsSafe /\ WritesAreAcknowledged
  BY Nones DEF Init, ValuesAreCurrent, JobIsCurrent, WriteIsSafe, WritesAreAcknowledged
<1>3. FirstStepHolds /\ AllIsOurs /\ StoredHolds
  BY Nones DEF Init, FirstStepHolds, AllIsOurs, StoredHolds
<1> QED
  BY <1>0, <1>1, <1>2, <1>3 DEF Inv

-----------------------------------------------------------------------------
(* The client's steps.                                                     *)

\* A call that ends leaves nothing in the client's hands.
LEMMA FailsInv ==
  ASSUME Inv, Fails, UNCHANGED <<knob, job, outbox>>
  PROVE  Inv'
<1> USE DEF Fails, Return, Inv
<1>1. TypeOK'
  BY Nones DEF TypeOK, Outstanding
<1>2. NeverCcdOnly' /\ ValuesAreCurrent' /\ JobIsCurrent' /\ WriteIsSafe'
  BY DEF NeverCcdOnly, ValuesAreCurrent, JobIsCurrent, WriteIsSafe, Plausible
<1>3. WritesAreAcknowledged' /\ FirstStepHolds' /\ StoredHolds'
  BY DEF WritesAreAcknowledged, FirstStepHolds, StoredHolds
<1>4. AllIsOurs'
  BY DEF AllIsOurs, Outstanding
<1> QED
  BY <1>1, <1>2, <1>3, <1>4

LEMMA BeginInv ==
  ASSUME Inv, NEW m \in CcMode, Begin(m)
  PROVE  Inv'
<1> USE DEF Begin, Inv
<1>1. TypeOK'
  BY DEF TypeOK, CcMode
<1>2. NeverCcdOnly' /\ ValuesAreCurrent' /\ JobIsCurrent' /\ WriteIsSafe'
  BY DEF NeverCcdOnly, ValuesAreCurrent, JobIsCurrent, WriteIsSafe, Plausible
<1>3. WritesAreAcknowledged' /\ FirstStepHolds' /\ StoredHolds'
  BY DEF WritesAreAcknowledged, FirstStepHolds, StoredHolds
<1>4. AllIsOurs'
  BY DEF AllIsOurs
<1> QED
  BY <1>1, <1>2, <1>3, <1>4

LEMMA SendWaitInv ==
  ASSUME Inv, SendWait
  PROVE  Inv'
<1> USE DEF SendWait, Inv
<1>1. TypeOK'
  BY DEF TypeOK
<1>2. NeverCcdOnly' /\ ValuesAreCurrent' /\ JobIsCurrent' /\ WriteIsSafe'
  BY DEF NeverCcdOnly, ValuesAreCurrent, JobIsCurrent, WriteIsSafe, Plausible
<1>3. WritesAreAcknowledged' /\ FirstStepHolds' /\ StoredHolds'
  BY DEF WritesAreAcknowledged, FirstStepHolds, StoredHolds, Settled
<1>4. AllIsOurs'
  BY DEF AllIsOurs
<1> QED
  BY <1>1, <1>2, <1>3, <1>4

LEMMA SendWordsInv ==
  ASSUME Inv, SendWords
  PROVE  Inv'
<1> USE DEF SendWords, Inv
<1>0. pc # "idle" /\ pc = "words"
  OBVIOUS
<1>1. job'.op = op /\ job'.step = Todo /\ job' # NoJob
  BY DEF NoJob, TypeOK
<1>2. outbox' = outbox
  OBVIOUS
<1>3. TypeOK'
  <2>1. job' \in Jobs
    BY <1>0, TodoStep DEF TypeOK, Jobs
  <2> QED
    BY <1>2, <2>1, Nones DEF TypeOK
<1>4. NeverCcdOnly' /\ ValuesAreCurrent' /\ JobIsCurrent'
  BY <1>1, <1>2 DEF NeverCcdOnly, ValuesAreCurrent, JobIsCurrent, Plausible, Todo
<1>5. WriteIsSafe'
  BY <1>0, <1>1, TodoIsSafe DEF WriteIsSafe
<1>6. WritesAreAcknowledged' /\ FirstStepHolds' /\ StoredHolds'
  BY <1>0, <1>1, <1>2 DEF WritesAreAcknowledged, FirstStepHolds, StoredHolds, Settled
<1>7. AllIsOurs'
  BY <1>0, <1>1, <1>2, Nones DEF AllIsOurs
<1> QED
  BY <1>3, <1>4, <1>5, <1>6, <1>7

LEMMA ReceiveInv ==
  ASSUME Inv, Receive
  PROVE  Inv'
<1> USE DEF Receive, Inv
<1>1. TypeOK'
  BY Nones DEF TypeOK
<1>2. NeverCcdOnly' /\ ValuesAreCurrent' /\ JobIsCurrent' /\ WriteIsSafe'
  BY Nones DEF NeverCcdOnly, ValuesAreCurrent, JobIsCurrent, WriteIsSafe, Plausible, Todo
<1>3. WritesAreAcknowledged' /\ FirstStepHolds' /\ StoredHolds'
  BY Nones DEF WritesAreAcknowledged, FirstStepHolds, StoredHolds, Settled, Todo
<1>4. AllIsOurs'
  BY Nones DEF AllIsOurs, Todo
<1> QED
  BY <1>1, <1>2, <1>3, <1>4

\* A call that goes on has what it asked for: a read a plausible value, and
\* a write the acknowledgement of its own.
LEMMA JudgeInv ==
  ASSUME Inv, Judge
  PROVE  Inv'
<1>1. CASE ~Accepted
  BY <1>1, FailsInv DEF Judge
<1>2. CASE Accepted /\ op = "read" /\ reply.value # Todo.value
  <2> USE <1>2 DEF Judge, Inv
  <2>1. TypeOK'
    BY DEF TypeOK
  <2>2. NeverCcdOnly' /\ ValuesAreCurrent' /\ JobIsCurrent' /\ WriteIsSafe'
    BY Nones DEF NeverCcdOnly, ValuesAreCurrent, JobIsCurrent, WriteIsSafe, Plausible
  <2>3. WritesAreAcknowledged' /\ FirstStepHolds' /\ StoredHolds'
    BY DEF WritesAreAcknowledged, FirstStepHolds, StoredHolds, Settled
  <2>4. AllIsOurs'
    BY DEF AllIsOurs
  <2> QED
    BY <2>1, <2>2, <2>3, <2>4
<1>3. CASE Accepted /\ ~(op = "read" /\ reply.value # Todo.value)
  <2> USE <1>3
  <2>0. pc = "judge" /\ UNCHANGED <<knob, job, outbox>>
    BY DEF Judge
  <2>1. op = "write" => job = NoJob /\ Settled(Todo)
    BY <2>0 DEF Inv, WritesAreAcknowledged, Accepted, TypeOK
  <2>2. op = "read" => job.op # "write" /\ Plausible(Todo.value)
    BY <2>0, Nones DEF Inv, ValuesAreCurrent, JobIsCurrent, Accepted
  <2>3. at = 1 => Settled(CcSteps(call)[1])
    BY <2>0, <2>1, <2>2, TodoStep, PlausibleStepHolds DEF Inv, TypeOK
  <2>4. ~astray => Settled(Todo)
    BY <2>0, <2>1 DEF Inv, AllIsOurs, Accepted, Settled, TypeOK
  <2>5. job.op # "write"
    BY <2>1, <2>2, Nones DEF Inv, TypeOK
  <2>6. CASE PlanEnds
    <3> USE <2>6
    <3>1. Return(call) /\ UNCHANGED astray /\ call \in CcMode /\ at = 2 /\ Todo = CcSteps(call)[2]
      BY <2>0, TodoStep DEF Judge, Inv
    <3>2. ~astray => Settled(CcSteps(call)[1]) /\ Settled(CcSteps(call)[2])
      BY <2>4, <3>1 DEF Inv, FirstStepHolds
    <3>3. TypeOK'
      BY <2>0, <3>1, Nones DEF Return, Inv, TypeOK
    <3>4. NeverCcdOnly' /\ ValuesAreCurrent' /\ JobIsCurrent' /\ WriteIsSafe'
      BY <2>0, <3>1
         DEF Return, Inv, NeverCcdOnly, ValuesAreCurrent, JobIsCurrent, WriteIsSafe, Plausible
    <3>5. WritesAreAcknowledged' /\ FirstStepHolds'
      BY <3>1 DEF Return, WritesAreAcknowledged, FirstStepHolds
    <3>6. StoredHolds'
      BY <2>0, <3>1, <3>2 DEF Return, StoredHolds, Settled
    <3>7. AllIsOurs'
      BY <2>0, <3>1 DEF Return, Inv, AllIsOurs
    <3> QED
      BY <3>3, <3>4, <3>5, <3>6, <3>7 DEF Inv
  <2>7. CASE ~PlanEnds
    <3> USE <2>7
    <3>1. /\ at = 1 /\ at' = 2 /\ op' = "read" /\ pc' = "sendWait"
          /\ UNCHANGED <<call, reply, stored, astray>>
      BY <2>0, TodoStep DEF Judge, Inv
    <3>2. TypeOK'
      BY <2>0, <3>1 DEF Inv, TypeOK
    <3>3. NeverCcdOnly' /\ ValuesAreCurrent' /\ JobIsCurrent' /\ WriteIsSafe'
      BY <2>0, <2>5, <3>1
         DEF Inv, NeverCcdOnly, ValuesAreCurrent, JobIsCurrent, WriteIsSafe, Plausible
    <3>4. WritesAreAcknowledged' /\ FirstStepHolds'
      BY <2>0, <2>3, <3>1 DEF WritesAreAcknowledged, FirstStepHolds, Settled
    <3>5. AllIsOurs' /\ StoredHolds'
      BY <2>0, <3>1 DEF Inv, AllIsOurs, StoredHolds
    <3> QED
      BY <3>2, <3>3, <3>4, <3>5 DEF Inv
  <2> QED
    BY <2>6, <2>7
<1> QED
  BY <1>1, <1>2, <1>3

-----------------------------------------------------------------------------
(* The FSP's steps.                                                        *)

\* The command at hand is the client's, if it waits for an answer.
LEMMA JobStep ==
  ASSUME Inv, job # NoJob
  PROVE  /\ job.op \in {"read", "write"} /\ job.step \in KnobSteps
         /\ pc # "words"
         /\ pc \in {"receiveWait", "judge"} => job.op = op /\ job.step = Todo
<1>1. job.op \in {"read", "write"} /\ job.step \in KnobSteps
  BY DEF Inv, TypeOK, Jobs
<1> QED
  BY <1>1 DEF Inv, JobIsCurrent

\* A write makes no CCD-only state, and undoes nothing of a call in progress.
LEMMA WriteJob ==
  ASSUME Inv, job # NoJob, job.op = "write",
         knob' = [knob EXCEPT ![job.step.knob] = job.step.value],
         UNCHANGED <<call, at, pc>>
  PROVE  /\ knob' \in [Knobs -> 0 .. 1]
         /\ knob'[job.step.knob] = job.step.value
         /\ NeverCcdOnly'
         /\ FirstStepHolds'
<1>1. job.step \in KnobSteps
  BY JobStep
<1>2. knob \in [Knobs -> 0 .. 1] /\ job.step.knob \in Knobs /\ job.step.value \in 0 .. 1
  BY <1>1 DEF Inv, TypeOK, KnobSteps
<1>3. /\ knob' \in [Knobs -> 0 .. 1]
      /\ knob'[job.step.knob] = job.step.value
      /\ \A k \in Knobs : k # job.step.knob => knob'[k] = knob[k]
  BY <1>2
<1>4. job.step = Step(job.step.knob, job.step.value)
  BY <1>1 DEF KnobSteps, Step
<1>5. NeverCcdOnly'
  <2>1. CASE job.step.knob = "ccd"
    BY <2>1, <1>2, <1>3, <1>4 DEF Inv, NeverCcdOnly, WriteIsSafe, Knobs
  <2>2. CASE job.step.knob = "ccm"
    BY <2>2, <1>2, <1>3, <1>4 DEF Inv, NeverCcdOnly, WriteIsSafe, Knobs
  <2> QED
    BY <2>1, <2>2, <1>2 DEF Knobs
<1>6. FirstStepHolds'
  <2> SUFFICES ASSUME at = 2
               PROVE  knob'[CcSteps(call)[1].knob] = CcSteps(call)[1].value
    BY DEF FirstStepHolds, Settled
  <2>1. pc \notin {"idle", "sendWait", "words"}
    BY JobStep DEF Inv, TypeOK, JobIsCurrent
  <2>2. job.step = CcSteps(call)[2] /\ call \in CcMode
    BY <2>1, JobStep, TodoStep DEF Inv, TypeOK
  <2>3. CcSteps(call)[1].knob # CcSteps(call)[2].knob /\ CcSteps(call)[1].knob \in Knobs
    BY <2>2, PlanSteps DEF Step, KnobSteps
  <2> QED
    BY <1>3, <2>2, <2>3 DEF Inv, FirstStepHolds, Settled
<1> QED
  BY <1>3, <1>5, <1>6

\* What any answer of the FSP, and none, leaves as it was.
LEMMA FspTypes ==
  ASSUME Inv, UNCHANGED client, job' = NoJob, knob' \in [Knobs -> 0 .. 1], outbox' \in Answers
  PROVE  /\ TypeOK' /\ JobIsCurrent' /\ WriteIsSafe'
BY Nones DEF Inv, client, TypeOK, JobIsCurrent, WriteIsSafe

\* What a step that carries out no write keeps.
LEMMA KeepsKnobs ==
  ASSUME Inv, UNCHANGED <<client, knob>>, job # NoJob, job' = NoJob,
         outbox'.shape = "empty" => outbox = outbox'
  PROVE  /\ NeverCcdOnly' /\ FirstStepHolds' /\ StoredHolds'
         /\ WritesAreAcknowledged'
BY DEF Inv, client, NeverCcdOnly, FirstStepHolds, StoredHolds, WritesAreAcknowledged, Settled

\* And what is true of one that does, whatever the answer: no client has
\* asked for a value since, and none was told of success.
LEMMA WriteOnTheWay ==
  ASSUME Inv, job # NoJob, job.op = "write"
  PROVE  /\ pc = "judge" => op = "write" /\ reply.shape # "empty"
         /\ ~astray => pc = "receiveWait" /\ stored = "none"
         /\ op = "write" => pc # "sendWait"
         /\ pc = "receiveWait" => op = "write" /\ job.step = Todo
BY JobStep DEF Inv, JobIsCurrent, WritesAreAcknowledged, AllIsOurs, StoredHolds, TypeOK

LEMMA FspDropInv ==
  ASSUME Inv, FspDrop
  PROVE  Inv'
<1> USE DEF FspDrop
<1>1. TypeOK' /\ JobIsCurrent' /\ WriteIsSafe'
  BY FspTypes DEF Inv, TypeOK
<1>2. NeverCcdOnly' /\ FirstStepHolds' /\ StoredHolds' /\ WritesAreAcknowledged'
  BY KeepsKnobs
<1>3. ValuesAreCurrent' /\ AllIsOurs'
  BY DEF Inv, client, ValuesAreCurrent, Plausible, AllIsOurs, Todo
<1> QED
  BY <1>1, <1>2, <1>3 DEF Inv

LEMMA FspExecuteInv ==
  ASSUME Inv, FspExecute
  PROVE  Inv'
<1>0. job # NoJob /\ job' = NoJob /\ UNCHANGED client
  BY DEF FspExecute
<1>1. CASE job.op = "write"
  <2> USE <1>0, <1>1
  <2>1. /\ knob' = [knob EXCEPT ![job.step.knob] = job.step.value]
        /\ outbox' = Answer("empty", 0)
    BY DEF FspExecute
  <2>2. /\ outbox' \in Answers /\ outbox'.shape = "empty"
    BY <2>1 DEF Answer, Answers, Shape
  <2>3. /\ knob' \in [Knobs -> 0 .. 1] /\ knob'[job.step.knob] = job.step.value
        /\ NeverCcdOnly' /\ FirstStepHolds'
    BY <2>1, WriteJob DEF client
  <2>4. TypeOK' /\ JobIsCurrent' /\ WriteIsSafe'
    BY <2>2, <2>3, FspTypes
  <2>5. ValuesAreCurrent' /\ StoredHolds'
    BY <2>2, WriteOnTheWay DEF Inv, client, ValuesAreCurrent, StoredHolds
  <2>6. WritesAreAcknowledged'
    BY <2>2, <2>3, WriteOnTheWay, JobStep
    DEF Inv, TypeOK, client, WritesAreAcknowledged, Settled, Todo
  <2>7. AllIsOurs'
    BY <2>2, WriteOnTheWay DEF client, AllIsOurs
  <2> QED
    BY <2>3, <2>4, <2>5, <2>6, <2>7 DEF Inv
<1>2. CASE job.op # "write"
  <2> USE <1>0, <1>2
  <2>1. /\ UNCHANGED knob
        /\ outbox' = Answer("value", knob[job.step.knob])
    BY DEF FspExecute
  <2>2. job.step.knob \in Knobs /\ knob[job.step.knob] \in 0 .. 1
    BY JobStep DEF KnobSteps, Inv, TypeOK
  <2>3. /\ outbox' \in Answers /\ outbox'.shape = "value"
        /\ outbox'.value = knob[job.step.knob]
    BY <2>1, <2>2 DEF Answer, Answers, Shape
  <2>4. TypeOK' /\ JobIsCurrent' /\ WriteIsSafe'
    BY <2>1, <2>3, FspTypes DEF Inv, TypeOK
  <2>5. NeverCcdOnly' /\ FirstStepHolds' /\ StoredHolds' /\ WritesAreAcknowledged'
    BY <2>1, <2>3, KeepsKnobs
  <2>6. ValuesAreCurrent'
    <3>1. Plausible(knob[job.step.knob])
      BY <2>2 DEF Inv, TypeOK, NeverCcdOnly, Plausible, Knobs
    <3> QED
      BY <2>1, <2>3, <3>1 DEF Inv, client, ValuesAreCurrent, Plausible
  <2>7. AllIsOurs'
    BY <2>1, <2>3, JobStep DEF Inv, client, AllIsOurs, Todo
  <2> QED
    BY <2>4, <2>5, <2>6, <2>7 DEF Inv
<1> QED
  BY <1>1, <1>2

LEMMA FspErrorInv ==
  ASSUME Inv, NEW shape, FspError(shape)
  PROVE  Inv'
<1>0. /\ job # NoJob /\ job' = NoJob /\ UNCHANGED client
      /\ shape \in {"error", "malformed", "oversized"}
      /\ outbox' = Answer(shape, 0)
      /\ \/ UNCHANGED knob
         \/ /\ job.op = "write"
            /\ knob' = [knob EXCEPT ![job.step.knob] = job.step.value]
  BY DEF FspError
<1>1. /\ outbox' \in Answers /\ outbox'.shape \notin {"value", "empty"}
  BY <1>0 DEF Answer, Answers, Shape
<1>2. CASE UNCHANGED knob
  <2> USE <1>0, <1>1, <1>2
  <2>1. TypeOK' /\ JobIsCurrent' /\ WriteIsSafe'
    BY FspTypes DEF Inv, TypeOK
  <2>2. NeverCcdOnly' /\ FirstStepHolds' /\ StoredHolds' /\ WritesAreAcknowledged'
    BY KeepsKnobs
  <2>3. ValuesAreCurrent' /\ AllIsOurs'
    BY DEF Inv, client, ValuesAreCurrent, Plausible, AllIsOurs, Todo
  <2> QED
    BY <2>1, <2>2, <2>3 DEF Inv
<1>3. CASE /\ job.op = "write"
           /\ knob' = [knob EXCEPT ![job.step.knob] = job.step.value]
  <2> USE <1>0, <1>1, <1>3
  <2>1. knob' \in [Knobs -> 0 .. 1] /\ NeverCcdOnly' /\ FirstStepHolds'
    BY WriteJob DEF client
  <2>2. TypeOK' /\ JobIsCurrent' /\ WriteIsSafe'
    BY <2>1, FspTypes
  <2>3. ValuesAreCurrent' /\ StoredHolds' /\ WritesAreAcknowledged'
    BY WriteOnTheWay
    DEF Inv, client, ValuesAreCurrent, StoredHolds, WritesAreAcknowledged
  <2>4. AllIsOurs'
    BY WriteOnTheWay DEF client, AllIsOurs
  <2> QED
    BY <2>1, <2>2, <2>3, <2>4 DEF Inv
<1> QED
  BY <1>0, <1>2, <1>3

-----------------------------------------------------------------------------

LEMMA NextInv == Inv /\ [Next]_vars => Inv'
<1> SUFFICES ASSUME Inv, [Next]_vars
             PROVE  Inv'
  OBVIOUS
<1>1. CASE \E m \in CcMode : Begin(m)
  BY <1>1, BeginInv
<1>2. CASE SendTimeout \/ SendRefused \/ ReceiveTimeout \/ ReceiveTooLarge \/ Crash
  BY <1>2, FailsInv DEF SendTimeout, SendRefused, ReceiveTimeout, ReceiveTooLarge, Crash
<1>3. CASE SendWait \/ SendWords
  BY <1>3, SendWaitInv, SendWordsInv
<1>4. CASE Receive \/ Judge
  BY <1>4, ReceiveInv, JudgeInv
<1>5. CASE FspExecute \/ FspDrop
  BY <1>5, FspExecuteInv, FspDropInv
<1>6. CASE \E shape \in Shape : FspError(shape)
  BY <1>6, FspErrorInv
<1>7. CASE UNCHANGED vars
  BY <1>7
  DEF vars, Inv, TypeOK, NeverCcdOnly, ValuesAreCurrent, Plausible, JobIsCurrent, Todo,
      WriteIsSafe, WritesAreAcknowledged, Settled, FirstStepHolds, AllIsOurs, StoredHolds
<1> QED
  BY <1>1, <1>2, <1>3, <1>4, <1>5, <1>6, <1>7 DEF Next, Client

LEMMA AlwaysInv == Spec => []Inv
BY InitInv, NextInv, PTL DEF Spec

\* The variables keep their types.
THEOREM TypeCorrect == Spec => []TypeOK
BY AlwaysInv, PTL DEF Inv

\* set_cc_mode never makes the state in which CCD is set without CCM,
\* whatever answers of other commands it acts on.
THEOREM CcdOnlyNeverMade == Spec => []NeverCcdOnly
BY AlwaysInv, PTL DEF Inv

\* An acknowledged write has taken place, and a read has a value of one of the
\* two knobs as they are now, its own as long as nothing was left behind: what
\* CcControl takes the RPCs over MNOC for.
THEOREM AnswersCanBeUsed == Spec => []AnswersAreUsable
<1>1. Inv => AnswersAreUsable
  <2> SUFFICES ASSUME Inv, pc = "judge", Accepted
               PROVE  /\ job.op # "write"
                      /\ op = "write" => knob[Todo.knob] = Todo.value
                      /\ op = "read" => reply.value \in {knob["ccm"], knob["ccd"]}
                      /\ op = "read" /\ ~astray => reply.value = knob[Todo.knob]
    BY DEF AnswersAreUsable
  <2>1. CASE op = "write"
    BY <2>1, Nones DEF Inv, WritesAreAcknowledged, Accepted, Settled
  <2>2. CASE op = "read"
    <3>1. job.op # "write" /\ reply.shape = "value"
      BY <2>2, Nones DEF Inv, JobIsCurrent, Accepted
    <3>2. Plausible(reply.value) /\ reply.value \in 0 .. 1
      BY <2>2, <3>1 DEF Inv, ValuesAreCurrent, TypeOK, Answers
    <3>3. reply.value \in {knob["ccm"], knob["ccd"]}
      BY <3>2 DEF Plausible
    <3>4. ~astray => reply.value = knob[Todo.knob]
      BY <2>2, <3>1 DEF Inv, AllIsOurs
    <3> QED
      BY <2>2, <3>1, <3>3, <3>4
  <2> QED
    BY <2>1, <2>2 DEF Inv, TypeOK
<1> QED
  BY <1>1, AlwaysInv, PTL

\* And then Ok means that the mode is in the knobs.
THEOREM OkMeansModeStored == Spec => []OkMeansStoredUndisturbed
<1>1. Inv => OkMeansStoredUndisturbed
  <2> SUFFICES ASSUME Inv, stored # "none", ~astray
               PROVE  knob["ccm"] = CcGoal(stored).ccm /\ knob["ccd"] = CcGoal(stored).ccd
    BY DEF OkMeansStoredUndisturbed, OkMeansStored
  <2>1. Settled(CcSteps(stored)[1]) /\ Settled(CcSteps(stored)[2])
    BY DEF Inv, StoredHolds
  <2>2. \/ /\ CcSteps(stored)[1] = Step("ccm", CcGoal(stored).ccm)
           /\ CcSteps(stored)[2] = Step("ccd", CcGoal(stored).ccd)
        \/ /\ CcSteps(stored)[2] = Step("ccm", CcGoal(stored).ccm)
           /\ CcSteps(stored)[1] = Step("ccd", CcGoal(stored).ccd)
    BY DEF CcSteps
  <2> QED
    BY <2>1, <2>2 DEF Settled, Step
<1> QED
  BY <1>1, AlwaysInv, PTL
=============================================================================
