------------------------------ MODULE KnobRpc ------------------------------
(***************************************************************************)
(* What CcControl relies on when it sends the FSP a knob command: one      *)
(* command at a time, each carried out at most once and in the order they  *)
(* were sent, and success reported only with the answer to that command.   *)
(* A command whose caller gave up may still be carried out, but never      *)
(* after a later one.  Commands are numbered as they are sent.             *)
(*                                                                         *)
(* Once the FSP has overrun the wait for such a command, much less is      *)
(* promised: answers may be those of other commands and the FSP may take   *)
(* up none or half of one, but still nothing twice, nor after a later one. *)
(***************************************************************************)
EXTENDS Naturals, Sequences

VARIABLES
  issued,   \* how many commands have been sent
  pending,  \* the command a caller waits for, 0 for none
  late,     \* a command given up on that may still be carried out, or 0
  log,      \* the commands carried out, in order
  answer,   \* the command whose answer was last taken for a success, or 0
  overrun   \* the FSP has overrun the wait for a command given up on

Done(c) == \E i \in 1 .. Len(log) : log[i] = c

Init ==
  /\ issued = 0 /\ pending = 0 /\ late = 0
  /\ log = <<>>
  /\ answer = 0
  /\ overrun = FALSE

\* What is carried out next: no command (0), or one newer than all before it.
Newest(c) == c # 0 => \A i \in 1 .. Len(log) : log[i] < c

Call ==
  /\ pending = 0
  /\ issued' = issued + 1
  /\ pending' = issued'
  /\ answer' = 0
  /\ UNCHANGED <<late, log, overrun>>

Serve ==
  /\ pending # 0 /\ late = 0
  /\ ~Done(pending)
  /\ log' = Append(log, pending)
  /\ UNCHANGED <<issued, pending, late, answer, overrun>>

Succeed ==
  /\ pending # 0
  /\ Done(pending)
  /\ answer' = pending
  /\ pending' = 0
  /\ UNCHANGED <<issued, late, log, overrun>>

Fail ==
  /\ pending # 0
  /\ pending' = 0
  /\ late' \in {late, 0} \cup (IF late = 0 /\ ~Done(pending) THEN {pending} ELSE {})
  /\ UNCHANGED <<issued, log, answer, overrun>>

LateServe ==
  /\ late # 0
  /\ log' = Append(log, late)
  /\ late' = 0
  /\ UNCHANGED <<issued, pending, answer, overrun>>

LateDrop ==
  /\ late # 0
  /\ late' = 0
  /\ UNCHANGED <<issued, pending, log, answer, overrun>>

Overrun ==
  /\ pending = 0
  /\ overrun' = TRUE
  /\ UNCHANGED <<issued, pending, late, log, answer>>

Disordered ==
  /\ overrun /\ overrun'
  /\ issued' \in {issued, issued + 1}
  /\ pending' \in {0, issued'} /\ late' \in {0, issued'}
  /\ answer' \in 0 .. issued'
  /\ \/ UNCHANGED log
     \/ \E c \in 0 .. issued : Newest(c) /\ log' = Append(log, c)

Next ==
  \/ Call \/ Serve \/ Succeed \/ Fail \/ LateServe \/ LateDrop
  \/ Overrun \/ Disordered

Spec == Init /\ [][Next]_<<issued, pending, late, log, answer, overrun>>
=============================================================================
