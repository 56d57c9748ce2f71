------------------------- MODULE SubmissionGrading --------------------------
(***************************************************************************)
(* The life of a submission (src/modules/submissions) and the pipeline     *)
(* that grades it (src/modules/grading): the BullMQ job grade-<id>, the    *)
(* workers that run it, retries, stalls and their recovery, and the        *)
(* sweeper that re-queues what fell out of the queue.  A run awaits the    *)
(* database or an LLM between any two of its steps, so the candidate, the  *)
(* employer and the admins act in between, a process may die anywhere, and *)
(* a worker that loses its queue lock goes on running.                     *)
(***************************************************************************)
EXTENDS Integers, FiniteSets

CONSTANTS
  Submissions,
  Tasks,
  Gradable,            \* the tasks a version of the answers covers that have a question_bank row
  Workers,             \* slots for grading runs, over all processes
  NoWorker,            \* nobody holds the job's lock
  NoSubmission,        \* a slot without a run
  MaxAttempts,         \* gradingConfig.maxJobAttempts
  MaxStalledCount,     \* BullMQ: stalls before a job is given up
  MaxStallRecoveries,  \* gradingConfig.maxStallRecoveries
  MaxVersions,         \* bound: how often a candidate submits answers
  MaxDecisions,        \* bound: how often an employer or admin sets a status
  MaxMishaps,          \* bound: crashes, lost locks and lost calls
  LockLoss,            \* whether a live worker may lose its lock
  Stuck                \* whether a submission may stay untouched for stuckThresholdMs

ASSUME GradableAssumption == Gradable \in [Submissions \X (1..MaxVersions) -> SUBSET Tasks]
ASSUME NobodyAssumption == NoWorker \notin Workers /\ NoSubmission \notin Submissions
ASSUME BoundAssumption ==
  /\ MaxAttempts \in Nat \ {0}
  /\ MaxStalledCount \in Nat /\ MaxStallRecoveries \in Nat
  /\ MaxVersions \in Nat \ {0} /\ MaxDecisions \in Nat /\ MaxMishaps \in Nat
ASSUME SwitchAssumption == LockLoss \in BOOLEAN /\ Stuck \in BOOLEAN

VARIABLES
  status,      \* submissions.status
  answers,     \* which version of the answers is stored; 0: completed_at is NULL
  taskScores,  \* task_scores: pairs <<task, version of the answers scored>>
  result,      \* the task scores behind overall_score; {}: overall_score is NULL
  job,         \* the BullMQ job grade-<id> of each submission
  calls,       \* queueGrading calls in progress
  failures,    \* 'failed' events not handled yet
  run,         \* the gradeSubmission call of each worker slot
  decisions,
  mishaps,
  lockLost     \* whether a live worker has lost the lock of its job

bounds == <<decisions, mishaps, lockLost>>
rowVars == <<status, answers, taskScores, result>>
vars == <<rowVars, job, calls, failures, run, bounds>>

Ungraded == {"PENDING", "GRADING"}
Withdrawable == {"PENDING", "GRADING", "GRADED", "GRADING_FAILED"}

Mishap == mishaps < MaxMishaps /\ mishaps' = mishaps + 1

-----------------------------------------------------------------------------
(* queueGrading: look the job up, remove a finished one, add a new one.    *)

LiveJobStates == {"waiting", "active", "delayed"}

NoJob == [state |-> "none", attempts |-> 0, stalls |-> 0, recoveries |-> 0, owner |-> NoWorker]

NewJob(recoveries) == [NoJob EXCEPT !.state = "waiting", !.recoveries = recoveries]

Call(s, by, nth) == [sub |-> s, by |-> by, nth |-> nth, pc |-> "check"]

StallRecoveries(c) == IF c.by = "recover" THEN c.nth ELSE 0

Advance(c, pc) == calls' = (calls \ {c}) \cup {[c EXCEPT !.pc = pc]}
Return(c) == calls' = calls \ {c}

CallCheck(c) ==
  /\ c.pc = "check"
  /\ CASE job[c.sub].state \in LiveJobStates -> Return(c)
       [] job[c.sub].state = "none" -> Advance(c, "add")
       [] OTHER -> Advance(c, "remove")
  /\ UNCHANGED <<rowVars, job, failures, run, bounds>>

(* Mutant: removes the job from under the worker that holds its lock.      *)
CallRemoveLocked(c) ==
  /\ c.pc = "remove"
  /\ job' = [job EXCEPT ![c.sub] = NoJob]
  /\ Advance(c, "add")
  /\ UNCHANGED <<rowVars, failures, run, bounds>>

(* BullMQ refuses to remove a job that is locked; queueGrading then throws.*)
CallRemove(c) ==
  /\ c.pc = "remove"
  /\ IF job[c.sub].owner # NoWorker
     THEN Return(c) /\ UNCHANGED job
     ELSE Advance(c, "add") /\ job' = [job EXCEPT ![c.sub] = NoJob]
  /\ UNCHANGED <<rowVars, failures, run, bounds>>

(* add() is ignored while a job with the same id exists.                   *)
CallAdd(c) ==
  /\ c.pc = "add"
  /\ Return(c)
  /\ job' = IF job[c.sub].state = "none"
            THEN [job EXCEPT ![c.sub] = NewJob(StallRecoveries(c))] ELSE job
  /\ UNCHANGED <<rowVars, failures, run, bounds>>

(* The process dies, Redis is down, or (in submitAnswers) the step before  *)
(* queueGrading throws.                                                    *)
CallLost(c) ==
  /\ Mishap
  /\ Return(c)
  /\ UNCHANGED <<rowVars, job, failures, run, decisions, lockLost>>

CallStep(c) == CallCheck(c) \/ CallRemove(c) \/ CallAdd(c)

-----------------------------------------------------------------------------
(* Candidate, employer and admin.                                          *)

SetStatus(s, new) ==
  /\ status' = [status EXCEPT ![s] = new]
  /\ UNCHANGED <<answers, taskScores, result, job, calls, failures, run, mishaps, lockLost>>

(* submitAnswers looks at no status: answers may be replaced at any time.  *)
SubmitAnswers(s) ==
  /\ answers[s] < MaxVersions
  /\ answers' = [answers EXCEPT ![s] = @ + 1]
  /\ calls' = calls \cup {Call(s, "submit", answers[s] + 1)}
  /\ UNCHANGED <<status, taskScores, result, job, failures, run, bounds>>

Withdraw(s) ==
  status[s] \in Withdrawable /\ SetStatus(s, "WITHDRAWN") /\ UNCHANGED decisions

(* Neither of these two looks at the status it overwrites.                 *)
Decide(s, new) == decisions < MaxDecisions /\ decisions' = decisions + 1 /\ SetStatus(s, new)

UpdateSelectionStatus(s, selected) == Decide(s, IF selected THEN "SELECTED" ELSE "GRADED")

ReviewAntiCheatFlag(s, action) ==
  Decide(s, IF action = "UPHOLD" THEN "DISQUALIFIED" ELSE "PENDING")

-----------------------------------------------------------------------------
(* markGradingFailed: WHERE status IN ('PENDING', 'GRADING').              *)

MarkGradingFailed(s) ==
  IF status[s] \in Ungraded
  THEN /\ status' = [status EXCEPT ![s] = "GRADING_FAILED"]
            /\ UNCHANGED <<answers, taskScores, result>>
  ELSE UNCHANGED rowVars

-----------------------------------------------------------------------------
(* gradeSubmission.                                                        *)

IdleRun == [pc |-> "idle", sub |-> NoSubmission, version |-> 0, scores |-> {}]

GoTo(w, pc) == run' = [run EXCEPT ![w].pc = pc]

Scored(scores) == {pair[1] : pair \in scores}

(* BullMQ hands a waiting job to a worker and locks it.                    *)
JobStart(w, s) ==
  /\ run[w].pc = "idle"
  /\ job[s].state = "waiting"
  /\ job' = [job EXCEPT ![s].state = "active", ![s].owner = w]
  /\ run' = [run EXCEPT ![w] = [IdleRun EXCEPT !.pc = "start", !.sub = s]]
  /\ UNCHANGED <<rowVars, calls, failures, bounds>>

(* Mutant: every attempt starts over.                                      *)
RunReadFromScratch(w) ==
  LET s == run[w].sub IN
  /\ run[w].pc = "start"
  /\ run' = [run EXCEPT ![w] =
               [pc |-> IF status[s] = "WITHDRAWN" THEN "done" ELSE "read", sub |-> s,
                version |-> answers[s], scores |-> {}]]
  /\ UNCHANGED <<rowVars, job, calls, failures, bounds>>

(* Read the row once: answers and saved task scores are this snapshot's.   *)
RunRead(w) ==
  LET s == run[w].sub IN
  /\ run[w].pc = "start"
  /\ run' = [run EXCEPT ![w] =
               [pc |-> IF status[s] = "WITHDRAWN" THEN "done" ELSE "read", sub |-> s,
                version |-> answers[s], scores |-> taskScores[s]]]
  /\ UNCHANGED <<rowVars, job, calls, failures, bounds>>

(* Mutant: whatever the status has become since it was read.               *)
RunMarkUnguarded(w) ==
  LET s == run[w].sub IN
  /\ run[w].pc = "read"
  /\ GoTo(w, "grading")
  /\ status' = [status EXCEPT ![s] = "GRADING"]
  /\ UNCHANGED <<answers, taskScores, result, job, calls, failures, bounds>>

(* GRADING, if it is still PENDING or GRADING; the run goes on regardless. *)
RunMark(w) ==
  LET s == run[w].sub IN
  /\ run[w].pc = "read"
  /\ GoTo(w, "grading")
  /\ IF status[s] \in Ungraded
     THEN status' = [status EXCEPT ![s] = "GRADING"]
     ELSE UNCHANGED status
  /\ UNCHANGED <<answers, taskScores, result, job, calls, failures, bounds>>

(* One LLM call, then all of this run's scores are saved whatever the row  *)
(* has become.                                                             *)
RunTask(w, t) ==
  LET s == run[w].sub
      scores == run[w].scores \cup {<<t, run[w].version>>}
  IN
  /\ run[w].pc = "grading"
  /\ t \in Gradable[<<s, run[w].version>>] \ Scored(run[w].scores)
  /\ run' = [run EXCEPT ![w].scores = scores]
  /\ taskScores' = [taskScores EXCEPT ![s] = scores]
  /\ UNCHANGED <<status, answers, result, job, calls, failures, bounds>>

AllScored(w) == Gradable[<<run[w].sub, run[w].version>>] \subseteq Scored(run[w].scores)

RunNothing(w) ==
  /\ run[w].pc = "grading" /\ AllScored(w) /\ run[w].scores = {}
  /\ MarkGradingFailed(run[w].sub)
  /\ GoTo(w, "done")
  /\ UNCHANGED <<job, calls, failures, bounds>>

(* Mutant: rolls up as soon as one task is scored.                         *)
RunRecordEarly(w) ==
  LET s == run[w].sub IN
  /\ run[w].pc = "grading" /\ run[w].scores # {}
  /\ IF status[s] = "GRADING"
     THEN /\ status' = [status EXCEPT ![s] = "GRADED"]
          /\ taskScores' = [taskScores EXCEPT ![s] = run[w].scores]
          /\ result' = [result EXCEPT ![s] = run[w].scores]
          /\ GoTo(w, "publish")
     ELSE GoTo(w, "done") /\ UNCHANGED <<status, taskScores, result>>
  /\ UNCHANGED <<answers, job, calls, failures, bounds>>

(* GRADED with its scores, WHERE status = 'GRADING'; otherwise the result  *)
(* is discarded.  Capability scores and the email ("publish") come after.  *)
RunRecord(w) ==
  LET s == run[w].sub IN
  /\ run[w].pc = "grading" /\ AllScored(w) /\ run[w].scores # {}
  /\ IF status[s] = "GRADING"
     THEN /\ status' = [status EXCEPT ![s] = "GRADED"]
          /\ taskScores' = [taskScores EXCEPT ![s] = run[w].scores]
          /\ result' = [result EXCEPT ![s] = run[w].scores]
          /\ GoTo(w, "publish")
     ELSE GoTo(w, "done") /\ UNCHANGED <<status, taskScores, result>>
  /\ UNCHANGED <<answers, job, calls, failures, bounds>>

-----------------------------------------------------------------------------
(* BullMQ's side of a run's end.  A worker that has lost the job's lock    *)
(* can neither complete nor fail it.                                       *)

EndRun(w) == run' = [run EXCEPT ![w] = IdleRun]

Holds(w) == job[run[w].sub].owner = w

Failure(s) == [sub |-> s, attempts |-> job'[s].attempts, recoveries |-> job'[s].recoveries]

JobCompleted(w) ==
  /\ run[w].pc \in {"publish", "done"}
  /\ job' = IF Holds(w)
            THEN [job EXCEPT ![run[w].sub].state = "completed", ![run[w].sub].owner = NoWorker]
            ELSE job
  /\ EndRun(w)
  /\ UNCHANGED <<rowVars, calls, failures, bounds>>

(* Any await of a run may reject: the database, the LLM, Redis, a rate     *)
(* limit.  Retried after a backoff while attempts remain.                  *)
JobFailed(w) ==
  LET s == run[w].sub IN
  /\ run[w].pc \notin {"idle", "done"}
  /\ IF Holds(w)
     THEN /\ job' = [job EXCEPT
               ![s].state = IF job[s].attempts + 1 < MaxAttempts THEN "delayed" ELSE "failed",
               ![s].attempts = @ + 1,
               ![s].owner = NoWorker]
          /\ failures' = failures \cup {Failure(s)}
     ELSE UNCHANGED <<job, failures>>
  /\ EndRun(w)
  /\ UNCHANGED <<rowVars, calls, bounds>>

BackoffOver(s) ==
  /\ job[s].state = "delayed"
  /\ job' = [job EXCEPT ![s].state = "waiting"]
  /\ UNCHANGED <<rowVars, calls, failures, run, bounds>>

(* A worker dies, or (LockLoss) fails to renew its lock and goes on.       *)
Unlock(w) ==
  job' = IF Holds(w) THEN [job EXCEPT ![run[w].sub].owner = NoWorker] ELSE job

WorkerDies(w) ==
  /\ run[w].pc # "idle"
  /\ Mishap
  /\ Unlock(w)
  /\ EndRun(w)
  /\ UNCHANGED <<rowVars, calls, failures, decisions, lockLost>>

WorkerLosesLock(w) ==
  /\ LockLoss
  /\ run[w].pc # "idle" /\ Holds(w)
  /\ Mishap
  /\ Unlock(w)
  /\ lockLost' = TRUE
  /\ UNCHANGED <<rowVars, calls, failures, run, decisions>>

(* An active job without a lock is stalled: back to the queue, or failed   *)
(* without using an attempt once it has stalled too often.                 *)
JobStalled(s) ==
  /\ job[s].state = "active" /\ job[s].owner = NoWorker
  /\ IF job[s].stalls < MaxStalledCount
     THEN /\ job' = [job EXCEPT ![s].state = "waiting", ![s].stalls = @ + 1]
          /\ UNCHANGED failures
     ELSE /\ job' = [job EXCEPT ![s].state = "failed"]
          /\ failures' = failures \cup {Failure(s)}
  /\ UNCHANGED <<rowVars, calls, run, bounds>>

-----------------------------------------------------------------------------
(* GradingProcessor.onFailed and recoverStalledGrading.                    *)

GiveUp(s) == MarkGradingFailed(s) /\ UNCHANGED calls

(* Mutant: one recovery more than the bound.                               *)
RecoverOnceMore(s, recoveries) ==
  CASE status[s] \notin Ungraded -> UNCHANGED <<rowVars, calls>>
    [] status[s] \in Ungraded /\ recoveries > MaxStallRecoveries -> GiveUp(s)
    [] OTHER -> calls' = calls \cup {Call(s, "recover", recoveries + 1)} /\ UNCHANGED rowVars

Recover(s, recoveries) ==
  CASE status[s] \notin Ungraded -> UNCHANGED <<rowVars, calls>>
    [] status[s] \in Ungraded /\ recoveries >= MaxStallRecoveries -> GiveUp(s)
    [] OTHER -> calls' = calls \cup {Call(s, "recover", recoveries + 1)} /\ UNCHANGED rowVars

OnFailed(f) ==
  /\ CASE f.attempts >= MaxAttempts -> GiveUp(f.sub)
       [] f.attempts < MaxAttempts /\ job[f.sub].state = "failed" -> Recover(f.sub, f.recoveries)
       [] OTHER -> UNCHANGED <<rowVars, calls>>
  /\ failures' = failures \ {f}
  /\ UNCHANGED <<job, run, bounds>>

(* The process that would handle the event dies first, or the database     *)
(* refuses the update.                                                     *)
FailureLost(f) ==
  /\ Mishap
  /\ failures' = failures \ {f}
  /\ UNCHANGED <<rowVars, job, calls, run, decisions, lockLost>>

-----------------------------------------------------------------------------
(* GradingSweeperService.sweep, one at a time.  Time is left out: with     *)
(* Stuck, any waiting submission may have been untouched long enough.      *)

Waiting(s) == status[s] \in Ungraded /\ answers[s] > 0

Sweepable(s) == Stuck /\ ~\E c \in calls : c.sub = s /\ c.by = "sweep"

(* Mutant: only what was never started.                                    *)
SweepPendingOnly(s) ==
  /\ Sweepable(s) /\ Waiting(s) /\ status[s] = "PENDING"
  /\ calls' = calls \cup {Call(s, "sweep", 0)}
  /\ UNCHANGED <<rowVars, job, failures, run, bounds>>

Sweep(s) ==
  /\ Sweepable(s) /\ Waiting(s)
  /\ calls' = calls \cup {Call(s, "sweep", 0)}
  /\ UNCHANGED <<rowVars, job, failures, run, bounds>>

-----------------------------------------------------------------------------

Init ==
  /\ status = [s \in Submissions |-> "PENDING"]
  /\ answers = [s \in Submissions |-> 0]
  /\ taskScores = [s \in Submissions |-> {}]
  /\ result = [s \in Submissions |-> {}]
  /\ job = [s \in Submissions |-> NoJob]
  /\ calls = {}
  /\ failures = {}
  /\ run = [w \in Workers |-> IdleRun]
  /\ decisions = 0 /\ mishaps = 0 /\ lockLost = FALSE

RunStep(w) ==
  RunRead(w) \/ RunMark(w) \/ (\E t \in Tasks : RunTask(w, t)) \/ RunNothing(w) \/ RunRecord(w)

HumanStep(s) ==
  \/ SubmitAnswers(s)
  \/ Withdraw(s)
  \/ \E selected \in BOOLEAN : UpdateSelectionStatus(s, selected)
  \/ \E action \in {"UPHOLD", "OVERTURN"} : ReviewAntiCheatFlag(s, action)

Next ==
  \/ \E s \in Submissions :
       \/ HumanStep(s)
       \/ \E w \in Workers : JobStart(w, s)
       \/ BackoffOver(s) \/ JobStalled(s) \/ Sweep(s)
  \/ \E w \in Workers :
       RunStep(w) \/ JobCompleted(w) \/ JobFailed(w) \/ WorkerDies(w) \/ WorkerLosesLock(w)
  \/ \E c \in calls : CallStep(c) \/ CallLost(c)
  \/ \E f \in failures : OnFailed(f) \/ FailureLost(f)

Spec == Init /\ [][Next]_vars

(* Node and PostgreSQL finish what they started unless the process dies;   *)
(* BullMQ hands out waiting jobs, promotes delayed ones and looks for      *)
(* stalled ones; the sweep is on a schedule, and a submission is written   *)
(* only finitely often before it has been untouched long enough.  Nothing  *)
(* is assumed of the candidate, the employer, the admins, or of errors and *)
(* crashes.                                                                *)
Fairness ==
  /\ \A w \in Workers : WF_vars(RunStep(w)) /\ WF_vars(JobCompleted(w))
  /\ \A s \in Submissions :
       /\ WF_vars(\E w \in Workers : JobStart(w, s))
       /\ WF_vars(BackoffOver(s)) /\ WF_vars(JobStalled(s)) /\ WF_vars(Sweep(s))
       /\ \A n \in 0..MaxAttempts, r \in 0..MaxStallRecoveries :
            WF_vars(\E f \in failures :
                      f = [sub |-> s, attempts |-> n, recoveries |-> r] /\ OnFailed(f))
       /\ \A by \in {"submit", "recover", "sweep"} :
            \A nth \in 0..MaxVersions + MaxStallRecoveries :
              WF_vars(\E c \in calls : c.sub = s /\ c.by = by /\ c.nth = nth /\ CallStep(c))

FairSpec == Spec /\ Fairness

-----------------------------------------------------------------------------
(* Properties.                                                             *)

Versions == 1..MaxVersions
Scores == SUBSET (Tasks \X Versions)
Statuses == Withdrawable \cup {"WITHDRAWN", "SELECTED", "DISQUALIFIED", "GRADING_FAILED"}
JobStates == LiveJobStates \cup {"none", "completed", "failed"}
RunStates == {"idle", "start", "read", "grading", "publish", "done"}

(* Types, with the bounds the code sets itself: a job never has more       *)
(* attempts, stalls or recoveries than gradingConfig and BullMQ allow, and *)
(* grading only ever runs on answers that were submitted.                  *)
TypeOK ==
  /\ status \in [Submissions -> Statuses]
  /\ answers \in [Submissions -> 0..MaxVersions]
  /\ taskScores \in [Submissions -> Scores] /\ result \in [Submissions -> Scores]
  /\ job \in [Submissions ->
       [state : JobStates, attempts : 0..MaxAttempts, stalls : 0..MaxStalledCount,
        recoveries : 0..MaxStallRecoveries, owner : Workers \cup {NoWorker}]]
  /\ \A c \in calls :
       /\ c.sub \in Submissions /\ c.pc \in {"check", "remove", "add"}
       /\ \/ c.by = "submit" /\ c.nth \in Versions
          \/ c.by = "recover" /\ c.nth \in 1..MaxStallRecoveries
          \/ c.by = "sweep" /\ c.nth = 0
  /\ \A f \in failures :
       /\ f.sub \in Submissions
       /\ f.attempts \in 0..MaxAttempts /\ f.recoveries \in 0..MaxStallRecoveries
  /\ \A w \in Workers :
       IF run[w].pc = "idle" THEN run[w] = IdleRun
       ELSE /\ run[w].sub \in Submissions
            /\ run[w].pc \in RunStates \ {"idle"}
            /\ run[w].version \in IF run[w].pc = "start" THEN {0} ELSE Versions
            /\ run[w].scores \in Scores
  /\ decisions \in 0..MaxDecisions /\ mishaps \in 0..MaxMishaps /\ lockLost \in BOOLEAN

(* A recorded overall score rests on exactly one score for each task it    *)
(* covers, and on every gradable task of some version of the answers: no   *)
(* interleaving of retries, stalled runs, resubmissions and re-reviews     *)
(* records a score rolled up from part of the tasks (gradeSubmission).     *)
ResultIsComplete ==
  \A s \in Submissions : result[s] # {} =>
    /\ \A p, q \in result[s] : p[1] = q[1] => p = q
    /\ \E v \in 1..answers[s] : Gradable[<<s, v>>] \subseteq Scored(result[s])

(* As long as workers keep the locks of the jobs they run, no two runs grade    *)
(* one submission at a time, however many queueGrading calls of candidate, *)
(* recovery and sweeper meet between looking a job up and removing it.     *)
OneRunPerSubmission ==
  ~lockLost => \A w1, w2 \in Workers :
    run[w1].sub = run[w2].sub /\ run[w1].sub # NoSubmission => w1 = w2

(* The task scores an overall score was rolled up from stay on the row: a  *)
(* later run (after a resubmission or an overturned flag) only adds to     *)
(* them.  The employer's view shows both side by side.                     *)
ResultIsExplained == ~lockLost => \A s \in Submissions : result[s] \subseteq taskScores[s]

(* Every submitted submission that is PENDING or GRADING is at some time   *)
(* graded, failed, withdrawn or decided: retries, stall recovery and the   *)
(* sweeper together leave none behind, even when jobs, events and calls    *)
(* are lost.                                                               *)
SubmittedLeavesGrading == \A s \in Submissions : Waiting(s) ~> ~Waiting(s)

Lifecycle == INSTANCE SubmissionLifecycle WITH
  submitted <- [s \in Submissions |-> answers[s] > 0],
  Results <- Scores \ {{}},
  NoResult <- {}

(* The pipeline changes a status only from PENDING to GRADING, from        *)
(* GRADING to GRADED with a new result, or from these two to               *)
(* GRADING_FAILED, and a result never without its status; decisions and    *)
(* withdrawals that land between any two of its steps stand.               *)
ImplementsLifecycle == Lifecycle!Spec

-----------------------------------------------------------------------------
(* Statements of the repository's own comments, messages and documents     *)
(* that the code does not keep: each is refuted by TLC (README, "Known     *)
(* disagreements").                                                        *)

(* submissions.service.ts:593 on withdraw: "Permanent."                    *)
WithdrawnIsPermanent ==
  [][\A s \in Submissions : status[s] = "WITHDRAWN" => status'[s] = "WITHDRAWN"]_vars

(* docs/gainday-grading-pipeline.md:385: "`GRADING_FAILED` means every     *)
(* attempt was used up": it is set when no job of the submission will      *)
(* still run (or nothing could be graded).                                 *)
FailedMeansNoAttemptsLeft ==
  [][\A s \in Submissions :
       status[s] # "GRADING_FAILED" /\ status'[s] = "GRADING_FAILED" =>
         \/ job[s].state \notin LiveJobStates
         \/ \E v \in 1..answers[s] : Gradable[<<s, v>>] = {}]_vars
=============================================================================
