------------------------ MODULE SubmissionLifecycle -------------------------
(***************************************************************************)
(* What the grading pipeline promises about a submission's status and      *)
(* result, whatever its queue, workers and sweeper do: it moves a          *)
(* submitted submission from PENDING to GRADING, records one result of a   *)
(* GRADING submission together with GRADED, or gives up; a status set by   *)
(* the candidate, the employer or an admin is only ever changed by them.   *)
(***************************************************************************)
CONSTANTS
  Submissions,
  Results,     \* what may be recorded
  NoResult

VARIABLES status, submitted, result

lifecycleVars == <<status, submitted, result>>

Init ==
  /\ status = [s \in Submissions |-> "PENDING"]
  /\ submitted = [s \in Submissions |-> FALSE]
  /\ result = [s \in Submissions |-> NoResult]

Becomes(s, new) == status' = [status EXCEPT ![s] = new]

Submit(s) == submitted' = [submitted EXCEPT ![s] = TRUE] /\ UNCHANGED <<status, result>>

StartGrading(s) ==
  /\ submitted[s] /\ status[s] = "PENDING"
  /\ Becomes(s, "GRADING") /\ UNCHANGED <<submitted, result>>

Record(s) ==
  /\ submitted[s] /\ status[s] = "GRADING"
  /\ Becomes(s, "GRADED")
  /\ \E marks \in Results : result' = [result EXCEPT ![s] = marks]
  /\ UNCHANGED submitted

GiveUp(s) ==
  /\ submitted[s] /\ status[s] \in {"PENDING", "GRADING"}
  /\ Becomes(s, "GRADING_FAILED") /\ UNCHANGED <<submitted, result>>

Withdraw(s) ==
  /\ status[s] \in {"PENDING", "GRADING", "GRADED", "GRADING_FAILED"}
  /\ Becomes(s, "WITHDRAWN") /\ UNCHANGED <<submitted, result>>

(* Select, deselect, uphold a flag, overturn it.                           *)
Decide(s) ==
  /\ \E new \in {"SELECTED", "GRADED", "DISQUALIFIED", "PENDING"} : Becomes(s, new)
  /\ UNCHANGED <<submitted, result>>

Next == \E s \in Submissions :
  Submit(s) \/ StartGrading(s) \/ Record(s) \/ GiveUp(s) \/ Withdraw(s) \/ Decide(s)

Spec == Init /\ [][Next]_lifecycleVars
=============================================================================
