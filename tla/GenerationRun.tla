--------------------------- MODULE GenerationRun ----------------------------
(***************************************************************************)
(* What one generation run promises, whatever the models answer: it works  *)
(* through the task slots in order, each slot ends as a task or as an item *)
(* for an admin to review and is never looked at again, and the run is     *)
(* done when every slot has ended.  A run may fail before that; what it    *)
(* resolved stays on record.                                               *)
(***************************************************************************)
EXTENDS Naturals, Sequences

CONSTANT Slots   \* how many task slots a simulation has

VARIABLES phase, outcome

runVars == <<phase, outcome>>

Init == phase = "running" /\ outcome = <<>>

Resolve(kind) ==
  /\ phase = "running" /\ Len(outcome) < Slots
  /\ outcome' = Append(outcome, kind)
  /\ phase' = IF Len(outcome') = Slots THEN "done" ELSE "running"

Fail == phase = "running" /\ phase' = "failed" /\ UNCHANGED outcome

Next == Fail \/ \E kind \in {"task", "review"} : Resolve(kind)

Spec == Init /\ [][Next]_runVars
=============================================================================
