------------------------------ MODULE MCGrading -----------------------------
(***************************************************************************)
(* Small instances of SubmissionGrading.  In the first version of the      *)
(* answers one task is left out; the second covers both.                   *)
(***************************************************************************)
EXTENDS SubmissionGrading, TLC

CONSTANTS t1, t2

WorkerSymmetry == Permutations(Workers)

(* Bound: queueGrading calls and failed events pending at a time.          *)
CONSTANT MaxPending

FewPending == Cardinality(calls) + Cardinality(failures) <= MaxPending

(* Bound: two mishaps, or one mishap and one decision; no decision once a  *)
(* lock was lost.                                                          *)
FewTroubles == decisions + mishaps <= 2 /\ (lockLost => decisions = 0)

FirstTaskFirst == [sv \in Submissions \X (1..MaxVersions) |-> IF sv[2] = 1 THEN {t1} ELSE {t1, t2}]
BothTasks == [sv \in Submissions \X (1..MaxVersions) |-> {t1, t2}]
OneTask == [sv \in Submissions \X (1..MaxVersions) |-> {t1}]
NothingFirst == [sv \in Submissions \X (1..MaxVersions) |-> IF sv[2] = 1 THEN {} ELSE {t1}]
=============================================================================
