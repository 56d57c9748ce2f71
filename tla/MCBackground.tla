---------------------------- MODULE MCBackground ----------------------------
(***************************************************************************)
(* Small instances of the parts of Background.  The bounds that are        *)
(* numbers are in the configuration.                                       *)
(***************************************************************************)
EXTENDS Background

CONSTANT e1

(* Payments: one purchase of one employer, and the submission it may       *)
(* unlock.                                                                 *)
OneOwner == [s \in Submissions |-> e1]
OneBuyer == [p \in Purchases |-> e1]
SingleCredit == [p \in Purchases |-> 1]

(* The board: who looks for what has not been applied to.                  *)
NotApplied == {[matching |-> Submissions, applied |-> "not-applied"]}

(* Recommendations: the job fits everybody.                                *)
FitsAll == Candidates \X Submissions
ThreePasses == 1 .. 3
=============================================================================
