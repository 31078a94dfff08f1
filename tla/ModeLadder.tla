----------------------------- MODULE ModeLadder ----------------------------
(***************************************************************************)
(* What provisioning promises about the mode a device has stored, however  *)
(* the knob writes behind it are ordered, fail or arrive late.  The modes  *)
(* form a ladder                                                           *)
(*                                                                         *)
(*      PPCIE (-1)  --  off (0)  --  CC on (1)  --  CC devtools (2)        *)
(*                                                                         *)
(* and a call moves the stored mode one rung at a time towards the mode    *)
(* asked for, never past it and never the other way.  A call that fails    *)
(* leaves the device on a rung in between, at most one write from the next.*)
(* A device may be found with a setting that is no mode, off the ladder;   *)
(* calls may bring it onto any rung, and never take it off again.  The     *)
(* device runs with the rung it was last reset on.                         *)
(*                                                                         *)
(* A call that returns Ok has reached the mode asked for, unless a failed  *)
(* call has misled the ones after it: then Ok may come one rung short.     *)
(***************************************************************************)
EXTENDS Integers

CONSTANT NoCall   \* no mode is being set

VARIABLES
  rung,     \* the stored mode
  asked,    \* the call in progress
  stray,    \* where the write of a failed call would take the stored mode
  active,   \* the mode the device runs with
  misled    \* a failed call may mislead later ones about what is stored

Rung == -1 .. 2
OffLadder == 9

\* Setting CC off leaves PPCIE alone, and setting PPCIE off leaves CC alone.
Goal(c, r) ==
  CASE c = [op |-> "ppcie", mode |-> "on"]    -> -1
    [] c = [op |-> "ppcie", mode |-> "off"]   -> (IF r = -1 THEN 0 ELSE r)
    [] c = [op |-> "cc", mode |-> "off"]      -> (IF r = -1 THEN -1 ELSE 0)
    [] c = [op |-> "cc", mode |-> "on"]       -> 1
    [] c = [op |-> "cc", mode |-> "devtools"] -> 2

Towards(r, t) == IF r < t THEN r + 1 ELSE IF r > t THEN r - 1 ELSE r

\* Where one write of call c may take a device from rung r.
Moves(c, r) ==
  IF r = OffLadder THEN Rung \cup {OffLadder} ELSE {Towards(r, Goal(c, r))}

Ask == [op : {"cc"}, mode : {"off", "on", "devtools"}]
         \cup [op : {"ppcie"}, mode : {"off", "on"}]

Init ==
  /\ rung \in Rung \cup {OffLadder}
  /\ asked = NoCall
  /\ stray = rung
  /\ active = rung
  /\ misled = FALSE

Start ==
  /\ asked = NoCall
  /\ asked' \in Ask
  /\ UNCHANGED <<rung, stray, active, misled>>

Climb ==
  /\ asked # NoCall
  /\ stray = rung
  /\ rung' \in Moves(asked, rung)
  /\ stray' = rung'
  /\ UNCHANGED <<asked, active, misled>>

\* A call asked for goal may return Ok there or, if it was misled, one rung off.
Reached(goal, r) ==
  r = goal \/ (misled /\ Towards(r, goal) = goal)

\* A misled call may take its last write for one that is not needed.
Succeed ==
  /\ asked # NoCall
  /\ stray = rung
  /\ rung' \in Moves(asked, rung) \cup (IF misled THEN {rung} ELSE {})
  /\ rung # OffLadder => Reached(Goal(asked, rung), rung')
  /\ stray' = rung'
  /\ asked' = NoCall
  /\ UNCHANGED <<active, misled>>

Fail ==
  /\ asked # NoCall
  /\ stray' \in IF stray = rung THEN {rung} \cup Moves(asked, rung) ELSE {stray}
  /\ asked' = NoCall
  /\ misled' \in {misled, TRUE}
  /\ UNCHANGED <<rung, active>>

\* The write a failed call left behind takes place, or never does.
Settle ==
  /\ rung' \in {rung, stray}
  /\ stray' = rung'
  /\ UNCHANGED <<asked, active, misled>>

Reset ==
  /\ asked = NoCall
  /\ active' = rung
  /\ UNCHANGED <<rung, asked, stray, misled>>

Next == Start \/ Climb \/ Succeed \/ Fail \/ Settle \/ Reset

Spec == Init /\ [][Next]_<<rung, asked, stray, active, misled>>
=============================================================================
