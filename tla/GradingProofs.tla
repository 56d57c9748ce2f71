--------------------------- MODULE GradingProofs ---------------------------
(***************************************************************************)
(* Theorems about SubmissionGrading, for any submissions, tasks, workers   *)
(* and bounds: types, one run per submission while locks are kept, the     *)
(* completeness of what is recorded, and the refinement of                 *)
(* SubmissionLifecycle, under every interleaving of runs, retries, stalls, *)
(* resubmissions and decisions.                                            *)
(***************************************************************************)
EXTENDS SubmissionGrading, TLAPS

-----------------------------------------------------------------------------
(* Types.                                                                  *)

CallStates == {"check", "remove", "add"}

CallType ==
  [sub : Submissions, by : {"submit"}, nth : Versions, pc : CallStates]
    \cup [sub : Submissions, by : {"recover"}, nth : 1..MaxStallRecoveries, pc : CallStates]
    \cup [sub : Submissions, by : {"sweep"}, nth : {0}, pc : CallStates]

FailureType == [sub : Submissions, attempts : 0..MaxAttempts, recoveries : 0..MaxStallRecoveries]

JobType ==
  [state : JobStates, attempts : 0..MaxAttempts, stalls : 0..MaxStalledCount,
   recoveries : 0..MaxStallRecoveries, owner : Workers \cup {NoWorker}]

RunType ==
  [pc : RunStates, sub : Submissions \cup {NoSubmission}, version : 0..MaxVersions, scores : Scores]

RowsTyped ==
  /\ status \in [Submissions -> Statuses]
  /\ answers \in [Submissions -> 0..MaxVersions]
  /\ taskScores \in [Submissions -> Scores] /\ result \in [Submissions -> Scores]

QueueTyped ==
  /\ job \in [Submissions -> JobType]
  /\ calls \subseteq CallType /\ failures \subseteq FailureType
  /\ run \in [Workers -> RunType]
  /\ decisions \in 0..MaxDecisions /\ mishaps \in 0..MaxMishaps /\ lockLost \in BOOLEAN

(* Nothing is queued, running or reported for a submission never submitted,*)
(* and a run works on a version that was.                                  *)
Submitted(s) == answers[s] > 0

OnlySubmitted ==
  /\ \A c \in calls : Submitted(c.sub)
  /\ \A f \in failures : Submitted(f.sub)
  /\ \A s \in Submissions : job[s].state # "none" => Submitted(s)
  /\ \A w \in Workers : run[w].pc # "idle" => Submitted(run[w].sub)

RunShape(w) ==
  IF run[w].pc = "idle" THEN run[w] = IdleRun
  ELSE /\ run[w].sub \in Submissions
       /\ IF run[w].pc = "start" THEN run[w].version = 0
          ELSE run[w].version \in Versions /\ run[w].version <= answers[run[w].sub]

(* The lock of a job: held while active, by a worker whose run is of it;   *)
(* a job that will run has an attempt left.                                *)
LocksMeanRuns ==
  /\ \A s \in Submissions : job[s].state \in LiveJobStates => job[s].attempts < MaxAttempts
  /\ \A s \in Submissions : job[s].owner # NoWorker => job[s].state = "active"
  /\ \A s \in Submissions, w \in Workers : job[s].owner = w => run[w].sub = s

RunsHoldLocks == ~lockLost => \A w \in Workers : run[w].pc # "idle" => job[run[w].sub].owner = w

QueueInv ==
  /\ RowsTyped /\ QueueTyped
  /\ OnlySubmitted /\ LocksMeanRuns /\ RunsHoldLocks
  /\ \A w \in Workers : RunShape(w)

-----------------------------------------------------------------------------
(* The scores: a set of them has one per task, and while a run holds the   *)
(* job's lock, what it has contains what the result was rolled up from.    *)

OnePerTask(scores) == \A p, q \in scores : p[1] = q[1] => p = q

ScoresInv ==
  /\ \A s \in Submissions : OnePerTask(taskScores[s])
  /\ \A w \in Workers : OnePerTask(run[w].scores)

RunKeepsResult ==
  ~lockLost =>
    /\ \A s \in Submissions : result[s] \subseteq taskScores[s]
    /\ \A w \in Workers :
         run[w].pc \in {"read", "grading"} => result[run[w].sub] \subseteq run[w].scores

-----------------------------------------------------------------------------
(* The steps.  First those of the candidate, the employer and the admins.  *)

LEMMA Constants ==
  /\ MaxVersions \in Nat \ {0} /\ MaxAttempts \in Nat \ {0} /\ MaxStalledCount \in Nat
  /\ MaxStallRecoveries \in Nat /\ MaxDecisions \in Nat /\ MaxMishaps \in Nat
  /\ NoWorker \notin Workers /\ NoSubmission \notin Submissions
BY BoundAssumption, NobodyAssumption

LEMMA StatusOnly ==
  ASSUME QueueInv, NEW s \in Submissions, NEW new \in Statuses,
         status' = [status EXCEPT ![s] = new],
         decisions' \in 0..MaxDecisions, mishaps' \in 0..MaxMishaps,
         UNCHANGED <<answers, taskScores, result, job, calls, failures, run, lockLost>>
  PROVE  QueueInv'
<1>1. RowsTyped' /\ QueueTyped'
  BY DEF QueueInv, RowsTyped, QueueTyped
<1>2. OnlySubmitted' /\ LocksMeanRuns' /\ RunsHoldLocks' /\ (\A w \in Workers : RunShape(w))'
  BY DEF QueueInv, OnlySubmitted, Submitted, LocksMeanRuns, RunsHoldLocks, RunShape
<1>. QED
  BY <1>1, <1>2 DEF QueueInv

LEMMA HumanQueue ==
  ASSUME QueueInv, NEW s \in Submissions, HumanStep(s)
  PROVE  QueueInv'
<1>1. CASE SubmitAnswers(s)
  <2>1. answers[s] + 1 \in Versions /\ answers[s] \in Nat
    BY <1>1, Constants DEF SubmitAnswers, QueueInv, RowsTyped, Versions
  <2>2. RowsTyped'
    BY <1>1, <2>1 DEF SubmitAnswers, QueueInv, RowsTyped, Versions
  <2>3. QueueTyped'
    <3>1. Call(s, "submit", answers[s] + 1) \in CallType
      BY <2>1 DEF Call, CallType, CallStates
    <3>. QED
      BY <1>1, <3>1 DEF SubmitAnswers, bounds, QueueInv, QueueTyped
  <2>4. \A r \in Submissions : answers[r] \in Nat /\ answers'[r] \in Nat /\ answers[r] <= answers'[r]
    BY <1>1, <2>1 DEF SubmitAnswers, QueueInv, RowsTyped
  <2>5. OnlySubmitted'
    <3>1. \A r \in Submissions : Submitted(r) => Submitted(r)'
      BY <2>4 DEF Submitted
    <3>2. \A c \in calls : c.sub \in Submissions
      BY DEF QueueInv, QueueTyped, CallType
    <3>3. \A f \in failures : f.sub \in Submissions
      BY DEF QueueInv, QueueTyped, FailureType
    <3>4. \A c \in calls' : c \in calls \/ c.sub = s
      BY <1>1 DEF SubmitAnswers, Call
    <3>5. Submitted(s)'
      BY <1>1, <2>1 DEF SubmitAnswers, QueueInv, RowsTyped, Submitted
    <3>6. \A w \in Workers : run[w].pc # "idle" => run[w].sub \in Submissions
      BY DEF QueueInv, RunShape
    <3>7. (\A c \in calls : Submitted(c.sub))'
      BY <3>1, <3>2, <3>4, <3>5 DEF QueueInv, OnlySubmitted, Submitted
    <3>. QED
      BY <1>1, <3>1, <3>3, <3>6, <3>7 DEF SubmitAnswers, QueueInv, OnlySubmitted, Submitted
  <2>6. (\A w \in Workers : RunShape(w))'
    <3>. SUFFICES ASSUME NEW w \in Workers, run[w].pc # "idle", run[w].pc # "start"
         PROVE  run[w].version <= answers'[run[w].sub]
      BY <1>1 DEF SubmitAnswers, QueueInv, RunShape
    <3>1. run[w].sub \in Submissions /\ run[w].version \in Versions /\ run[w].version <= answers[run[w].sub]
      BY DEF QueueInv, RunShape
    <3>. QED
      BY <3>1, <2>4 DEF Versions
  <2>7. LocksMeanRuns' /\ RunsHoldLocks'
    BY <1>1 DEF SubmitAnswers, bounds, QueueInv, LocksMeanRuns, RunsHoldLocks
  <2>. QED
    BY <2>2, <2>3, <2>5, <2>6, <2>7 DEF QueueInv
<1>2. CASE Withdraw(s)
  BY <1>2, StatusOnly DEF Withdraw, SetStatus, Statuses, QueueInv, QueueTyped
<1>3. ASSUME NEW new \in Statuses, Decide(s, new)
      PROVE  QueueInv'
  <2>1. decisions' \in 0..MaxDecisions
    BY <1>3, Constants DEF Decide, QueueInv, QueueTyped
  <2>. QED
    BY <1>3, <2>1, StatusOnly DEF Decide, SetStatus, QueueInv, QueueTyped
<1>. QED
  BY <1>1, <1>2, <1>3
  DEF HumanStep, UpdateSelectionStatus, ReviewAntiCheatFlag, Statuses, Withdrawable

(* The steps that leave the jobs alone: a run keeps working on what it     *)
(* took, whatever becomes of the row.                                      *)
LEMMA RunStepQueue ==
  ASSUME QueueInv, NEW w \in Workers, RunStep(w)
  PROVE  QueueInv'
<1>. DEFINE s == run[w].sub
<1>1. run[w].pc # "idle" /\ s \in Submissions /\ answers[s] \in Versions
  <2>1. run[w].pc # "idle" /\ s \in Submissions
    BY DEF RunStep, RunRead, RunMark, RunTask, RunNothing, RunRecord, QueueInv, RunShape
  <2>2. answers[s] \in 0..MaxVersions /\ answers[s] > 0
    BY <2>1 DEF QueueInv, RowsTyped, OnlySubmitted, Submitted
  <2>. QED
    BY <2>1, <2>2, Constants DEF Versions
<1>2. UNCHANGED <<answers, job, calls, failures, decisions, mishaps, lockLost>>
  BY DEF RunStep, RunRead, RunMark, RunTask, RunNothing, RunRecord, MarkGradingFailed, rowVars, bounds
<1>3. \E r \in RunType :
        /\ run' = [run EXCEPT ![w] = r]
        /\ r.sub = s /\ r.pc \notin {"idle", "start"}
        /\ r.version \in Versions /\ r.version <= answers[s]
  <2>1. run[w] \in RunType /\ run \in [Workers -> RunType]
    BY DEF QueueInv, QueueTyped
  <2>2. CASE RunRead(w)
    <3>. DEFINE pc == IF status[s] = "WITHDRAWN" THEN "done" ELSE "read"
                r == [pc |-> pc, sub |-> s, version |-> answers[s], scores |-> taskScores[s]]
    <3>1. pc \in RunStates \ {"idle", "start"}
      BY DEF RunStates
    <3>2. taskScores[s] \in Scores /\ answers[s] \in 0..MaxVersions
      BY <1>1, Constants DEF QueueInv, RowsTyped, Versions
    <3>3. r \in RunType
      <4>. HIDE DEF pc
      <4>. QED
        BY <1>1, <3>1, <3>2 DEF RunType
    <3>4. run' = [run EXCEPT ![w] = r]
      BY <2>2 DEF RunRead
    <3>5. r.version <= answers[s]
      BY <1>1, Constants DEF Versions
    <3>. QED
      BY <1>1, <3>1, <3>3, <3>4, <3>5
  <2>3. CASE RunMark(w) \/ RunNothing(w) \/ RunRecord(w)
    <3>1. PICK pc \in {"grading", "publish", "done"} : run' = [run EXCEPT ![w].pc = pc]
      BY <2>3 DEF RunMark, RunNothing, RunRecord, GoTo
    <3>2. run[w].pc # "start" /\ run[w].pc # "idle"
      BY <2>3 DEF RunMark, RunNothing, RunRecord
    <3>. DEFINE r == [run[w] EXCEPT !.pc = pc]
    <3>3. r \in RunType /\ r.sub = s /\ r.pc = pc /\ r.version = run[w].version
      BY <2>1 DEF RunType, RunStates
    <3>4. run' = [run EXCEPT ![w] = r]
      BY <3>1
    <3>5. run[w].version \in Versions /\ run[w].version <= answers[s]
      BY <3>2 DEF QueueInv, RunShape
    <3>. HIDE DEF r
    <3>. QED
      BY <3>3, <3>4, <3>5
  <2>4. ASSUME NEW t \in Tasks, RunTask(w, t)
        PROVE  \E r \in RunType :
                 /\ run' = [run EXCEPT ![w] = r]
                 /\ r.sub = s /\ r.pc \notin {"idle", "start"}
                 /\ r.version \in Versions /\ r.version <= answers[s]
    <3>. DEFINE scores == run[w].scores \cup {<<t, run[w].version>>}
                r == [run[w] EXCEPT !.scores = scores]
    <3>1. run[w].pc = "grading" /\ run[w].scores \in Scores
      BY <2>1, <2>4 DEF RunTask, RunType
    <3>2. run[w].version \in Versions /\ run[w].version <= answers[s]
      BY <3>1 DEF QueueInv, RunShape
    <3>3. scores \in Scores
      BY <3>1, <3>2 DEF Scores
    <3>4. run' = [run EXCEPT ![w] = r]
      BY <2>4 DEF RunTask
    <3>5. r \in RunType /\ r.sub = s /\ r.pc = run[w].pc /\ r.version = run[w].version
      <4>. HIDE DEF scores
      <4>. QED
        BY <2>1, <3>3 DEF RunType
    <3>. HIDE DEF r
    <3>. QED
      BY <3>1, <3>2, <3>4, <3>5
  <2>. QED
    BY <2>2, <2>3, <2>4 DEF RunStep
<1>4. RowsTyped'
  <2>1. CASE RunRead(w)
    BY <2>1 DEF RunRead, rowVars, QueueInv, RowsTyped
  <2>2. CASE RunMark(w) \/ RunNothing(w)
    BY <2>2, <1>1
    DEF RunMark, RunNothing, MarkGradingFailed, rowVars, QueueInv, RowsTyped, Statuses, Withdrawable
  <2>3. ASSUME NEW t \in Tasks, RunTask(w, t)
        PROVE  RowsTyped'
    <3>1. run[w].pc = "grading" /\ run[w].scores \in Scores /\ run[w].version \in Versions
      BY <2>3, <1>1 DEF RunTask, QueueInv, QueueTyped, RunShape, RunType
    <3>2. run[w].scores \cup {<<t, run[w].version>>} \in Scores
      BY <3>1 DEF Scores
    <3>. QED
      BY <2>3, <3>2, <1>1 DEF RunTask, QueueInv, RowsTyped
  <2>4. CASE RunRecord(w)
    <3>1. run[w].scores \in Scores
      BY DEF QueueInv, QueueTyped, RunType
    <3>. QED
      BY <2>4, <3>1, <1>1 DEF RunRecord, QueueInv, RowsTyped, Statuses, Withdrawable
  <2>. QED
    BY <2>1, <2>2, <2>3, <2>4 DEF RunStep
<1>5. PICK r \in RunType :
        /\ run' = [run EXCEPT ![w] = r]
        /\ r.sub = s /\ r.pc \notin {"idle", "start"}
        /\ r.version \in Versions /\ r.version <= answers[s]
  BY <1>3
<1>6. QueueTyped' /\ run'[w] = r /\ \A v \in Workers : v # w => run'[v] = run[v]
  BY <1>2, <1>5 DEF QueueInv, QueueTyped
<1>7. (\A v \in Workers : RunShape(v))'
  BY <1>1, <1>2, <1>5, <1>6 DEF QueueInv, RunShape
<1>8. OnlySubmitted' /\ LocksMeanRuns' /\ RunsHoldLocks'
  BY <1>1, <1>2, <1>5, <1>6 DEF QueueInv, OnlySubmitted, Submitted, LocksMeanRuns, RunsHoldLocks
<1>. QED
  BY <1>4, <1>6, <1>7, <1>8 DEF QueueInv

(* A step of the queue that leaves rows and runs alone: it writes at most  *)
(* one job, and never takes away or gives a lock.                          *)
LEMMA QueueOnly ==
  ASSUME QueueInv, NEW s \in Submissions, NEW j \in JobType,
         job' = [job EXCEPT ![s] = j],
         j.owner = job[s].owner,
         j.state # "none" => Submitted(s),
         j.state \in LiveJobStates => j.attempts < MaxAttempts,
         j.owner # NoWorker => j.state = "active",
         calls' \subseteq CallType, \A c \in calls' : Submitted(c.sub),
         failures' \subseteq FailureType, \A f \in failures' : Submitted(f.sub),
         mishaps' \in 0..MaxMishaps,
         UNCHANGED <<rowVars, run, decisions, lockLost>>
  PROVE  QueueInv'
<1>1. RowsTyped'
  BY DEF rowVars, QueueInv, RowsTyped
<1>2. QueueTyped'
  BY DEF QueueInv, QueueTyped
<1>3. /\ answers' = answers /\ run' = run /\ lockLost' = lockLost
      /\ job \in [Submissions -> JobType]
  BY DEF rowVars, QueueInv, QueueTyped
<1>4. OnlySubmitted'
  BY <1>3 DEF QueueInv, OnlySubmitted, Submitted
<1>5. (\A w \in Workers : RunShape(w))'
  BY <1>3 DEF QueueInv, RunShape
<1>6. LocksMeanRuns'
  BY <1>3 DEF QueueInv, LocksMeanRuns
<1>7. RunsHoldLocks'
  BY <1>3 DEF QueueInv, RunsHoldLocks, RunShape
<1>. QED
  BY <1>1, <1>2, <1>4, <1>5, <1>6, <1>7 DEF QueueInv

(* Facts about the jobs and what is pending, used by every step of them.   *)
LEMMA QueueFacts ==
  ASSUME QueueInv, NEW s \in Submissions
  PROVE  /\ job \in [Submissions -> JobType] /\ job[s] \in JobType
         /\ job = [job EXCEPT ![s] = job[s]]
         /\ job[s].state # "none" => Submitted(s)
         /\ job[s].state \in LiveJobStates => job[s].attempts < MaxAttempts
         /\ job[s].owner # NoWorker => job[s].state = "active"
         /\ calls \subseteq CallType /\ \A c \in calls : Submitted(c.sub)
         /\ failures \subseteq FailureType /\ \A f \in failures : Submitted(f.sub)
         /\ mishaps \in 0..MaxMishaps
BY DEF QueueInv, QueueTyped, OnlySubmitted, LocksMeanRuns

LEMMA NoJobTyped ==
  NoJob \in JobType /\ NoJob.owner = NoWorker /\ NoJob.state = "none" /\ NoJob.attempts = 0
BY Constants DEF NoJob, JobType, JobStates

LEMMA NewJobTyped ==
  ASSUME NEW r \in 0..MaxStallRecoveries
  PROVE  /\ NewJob(r) \in JobType /\ NewJob(r).owner = NoWorker
         /\ NewJob(r).state = "waiting" /\ NewJob(r).attempts < MaxAttempts
<1>1. PICK j \in JobType : j = NoJob
  BY NoJobTyped
<1>2. NewJob(r) = [j EXCEPT !.state = "waiting", !.recoveries = r]
  BY <1>1 DEF NewJob
<1>3. [j EXCEPT !.state = "waiting", !.recoveries = r] \in JobType
  BY DEF JobType, JobStates, LiveJobStates
<1>4. /\ [j EXCEPT !.state = "waiting", !.recoveries = r].owner = j.owner
      /\ [j EXCEPT !.state = "waiting", !.recoveries = r].state = "waiting"
      /\ [j EXCEPT !.state = "waiting", !.recoveries = r].attempts = j.attempts
  BY DEF JobType
<1>. QED
  BY <1>1, <1>2, <1>3, <1>4, NoJobTyped, Constants

LEMMA MishapTyped == QueueInv /\ Mishap => mishaps' \in 0..MaxMishaps
BY Constants DEF Mishap, QueueInv, QueueTyped

LEMMA CallQueue ==
  ASSUME QueueInv, NEW c \in calls, CallStep(c) \/ CallLost(c)
  PROVE  QueueInv'
<1>. DEFINE s == c.sub
<1>1. c \in CallType /\ s \in Submissions /\ Submitted(s)
  BY DEF QueueInv, QueueTyped, OnlySubmitted, CallType
<1>2. calls' \subseteq CallType /\ \A d \in calls' : Submitted(d.sub)
  <2>1. PICK pc \in CallStates : calls' \subseteq calls \cup {[c EXCEPT !.pc = pc]}
    BY DEF CallStep, CallCheck, CallRemove, CallAdd, CallLost, Advance, Return, CallStates
  <2>2. [c EXCEPT !.pc = pc] \in CallType /\ [c EXCEPT !.pc = pc].sub = s
    BY <1>1 DEF CallType
  <2>. QED
    BY <1>1, <2>1, <2>2 DEF QueueInv, QueueTyped, OnlySubmitted
<1>3. UNCHANGED <<rowVars, failures, run, decisions, lockLost>>
  BY DEF CallStep, CallCheck, CallRemove, CallAdd, CallLost, bounds
<1>4. mishaps' \in 0..MaxMishaps
  BY MishapTyped DEF CallStep, CallCheck, CallRemove, CallAdd, CallLost, bounds, QueueInv, QueueTyped
<1>5. failures' \subseteq FailureType /\ \A f \in failures' : f \in failures
  BY <1>3 DEF QueueInv, QueueTyped
<1>6. \A f \in failures' : Submitted(f.sub)
  BY <1>5 DEF QueueInv, OnlySubmitted
<1>7. \E j \in JobType :
        /\ job' = [job EXCEPT ![s] = j]
        /\ j.owner = job[s].owner
        /\ j.state # "none" => Submitted(s)
        /\ j.state \in LiveJobStates => j.attempts < MaxAttempts
        /\ j.owner # NoWorker => j.state = "active"
  <2>1. CASE job' = job
    BY <2>1, <1>1, QueueFacts
  <2>2. CASE job[s].owner = NoWorker /\ job' = [job EXCEPT ![s] = NoJob]
    <3>1. NoJob.state \notin LiveJobStates
      BY NoJobTyped DEF LiveJobStates
    <3>. QED
      BY <2>2, <3>1, <1>1, NoJobTyped
  <2>3. CASE job[s].state = "none" /\ \E r \in 0..MaxStallRecoveries : job' = [job EXCEPT ![s] = NewJob(r)]
    <3>1. PICK r \in 0..MaxStallRecoveries : job' = [job EXCEPT ![s] = NewJob(r)]
      BY <2>3
    <3>2. job[s].owner = NoWorker
      BY <1>1, <2>3, QueueFacts
    <3>. QED
      BY <1>1, <3>1, <3>2, NewJobTyped
  <2>4. CallAdd(c) /\ job' # job => job[s].state = "none" /\ job' = [job EXCEPT ![s] = NewJob(StallRecoveries(c))]
    BY DEF CallAdd
  <2>5. StallRecoveries(c) \in 0..MaxStallRecoveries
    BY <1>1, Constants DEF CallType, StallRecoveries
  <2>6. CallCheck(c) \/ CallLost(c) => job' = job
    BY DEF CallCheck, CallLost
  <2>7. CallRemove(c) => job' = job \/ (job[s].owner = NoWorker /\ job' = [job EXCEPT ![s] = NoJob])
    BY DEF CallRemove
  <2>. QED
    BY <2>1, <2>2, <2>3, <2>4, <2>5, <2>6, <2>7 DEF CallStep
<1>. QED
  BY <1>1, <1>2, <1>3, <1>4, <1>5, <1>6, <1>7, QueueOnly

(* A job's backoff, its stall and the sweep.                               *)
LEMMA TimerQueue ==
  ASSUME QueueInv, NEW s \in Submissions, BackoffOver(s) \/ JobStalled(s) \/ Sweep(s)
  PROVE  QueueInv'
<1>1. /\ job[s] \in JobType /\ job = [job EXCEPT ![s] = job[s]] /\ mishaps \in 0..MaxMishaps
      /\ job[s].state \in LiveJobStates => Submitted(s) /\ job[s].attempts < MaxAttempts
      /\ calls \subseteq CallType /\ \A c \in calls : Submitted(c.sub)
      /\ failures \subseteq FailureType /\ \A f \in failures : Submitted(f.sub)
  BY QueueFacts DEF LiveJobStates
<1>2. CASE BackoffOver(s)
  <2>. DEFINE j == [job[s] EXCEPT !.state = "waiting"]
  <2>1. j \in JobType /\ j.state = "waiting" /\ j.attempts = job[s].attempts /\ j.owner = job[s].owner
    BY <1>1 DEF JobType, JobStates, LiveJobStates
  <2>2. job[s].state = "delayed" /\ job' = [job EXCEPT ![s] = j]
    BY <1>2 DEF BackoffOver
  <2>3. job[s].owner = NoWorker
    BY <2>2, QueueFacts
  <2>. HIDE DEF j
  <2>4. UNCHANGED <<rowVars, calls, failures, run, decisions, mishaps, lockLost>>
    BY <1>2 DEF BackoffOver, bounds
  <2>. QED
    BY <1>1, <2>1, <2>2, <2>3, <2>4, QueueOnly DEF LiveJobStates
<1>3. CASE JobStalled(s)
  <2>1. /\ job[s].state = "active" /\ job[s].owner = NoWorker
        /\ UNCHANGED <<rowVars, calls, run, decisions, mishaps, lockLost>>
    BY <1>3 DEF JobStalled, bounds
  <2>2. Submitted(s) /\ job[s].attempts < MaxAttempts
    BY <1>1, <2>1 DEF LiveJobStates
  <2>3. CASE job[s].stalls < MaxStalledCount
    <3>. DEFINE j == [job[s] EXCEPT !.state = "waiting", !.stalls = @ + 1]
    <3>0. job[s].stalls + 1 \in 0..MaxStalledCount
      BY <1>1, <2>3, Constants DEF JobType
    <3>1. /\ j \in JobType /\ j.state = "waiting"
          /\ j.attempts = job[s].attempts /\ j.owner = job[s].owner
      BY <1>1, <3>0 DEF JobType, JobStates, LiveJobStates
    <3>2. job' = [job EXCEPT ![s] = j] /\ failures' = failures
      BY <1>3, <2>3 DEF JobStalled
    <3>. HIDE DEF j
    <3>. QED
      BY <1>1, <2>1, <2>2, <3>1, <3>2, QueueOnly
  <2>4. CASE ~(job[s].stalls < MaxStalledCount)
    <3>. DEFINE j == [job[s] EXCEPT !.state = "failed"]
    <3>1. /\ j \in JobType /\ j.state = "failed" /\ j.attempts = job[s].attempts
          /\ j.recoveries = job[s].recoveries /\ j.owner = job[s].owner
      BY <1>1 DEF JobType, JobStates
    <3>2. job' = [job EXCEPT ![s] = j] /\ failures' = failures \cup {Failure(s)}
      BY <1>3, <2>4 DEF JobStalled
    <3>3. job'[s] = j
      BY <3>2, QueueFacts
    <3>4. Failure(s) \in FailureType /\ Failure(s).sub = s
      BY <1>1, <3>1, <3>3 DEF Failure, FailureType, JobType
    <3>5. failures' \subseteq FailureType /\ \A f \in failures' : Submitted(f.sub)
      BY <1>1, <2>2, <3>2, <3>4
    <3>6. j.state \notin LiveJobStates
      BY <3>1 DEF LiveJobStates
    <3>. HIDE DEF j
    <3>. QED
      BY <1>1, <2>1, <2>2, <3>1, <3>2, <3>5, <3>6, QueueOnly
  <2>. QED
    BY <2>3, <2>4
<1>4. CASE Sweep(s)
  <2>1. Call(s, "sweep", 0) \in CallType /\ Call(s, "sweep", 0).sub = s
    BY DEF Call, CallType, CallStates
  <2>2. calls' = calls \cup {Call(s, "sweep", 0)} /\ Submitted(s)
    BY <1>4 DEF Sweep, Waiting, Submitted
  <2>3. UNCHANGED <<rowVars, job, failures, run, decisions, mishaps, lockLost>>
    BY <1>4 DEF Sweep, bounds
  <2>4. calls' \subseteq CallType /\ \A c \in calls' : Submitted(c.sub)
    BY <1>1, <2>1, <2>2
  <2>. QED
    BY <1>1, <2>3, <2>4, QueueFacts, QueueOnly
<1>. QED
  BY <1>2, <1>3, <1>4

LEMMA IdleTyped == IdleRun \in RunType /\ IdleRun.pc = "idle" /\ IdleRun.sub = NoSubmission /\ IdleRun.scores = {}
<1>1. {} \in Scores /\ 0 \in 0..MaxVersions
  BY Constants DEF Scores
<1>. HIDE DEF Scores
<1>. QED
  BY <1>1 DEF IdleRun, RunType, RunStates

(* A worker takes a job, which nobody holds, and its lock.                 *)
LEMMA StartQueue ==
  ASSUME QueueInv, NEW w \in Workers, NEW s \in Submissions, JobStart(w, s)
  PROVE  QueueInv'
<1>. DEFINE j == [job[s] EXCEPT !.state = "active", !.owner = w]
            r == [IdleRun EXCEPT !.pc = "start", !.sub = s]
<1>1. /\ job[s] \in JobType /\ job \in [Submissions -> JobType] /\ run \in [Workers -> RunType]
      /\ job[s].state = "waiting" /\ run[w].pc = "idle"
      /\ UNCHANGED <<rowVars, calls, failures, decisions, mishaps, lockLost>>
  BY QueueFacts DEF JobStart, bounds, QueueInv, QueueTyped
<1>2. Submitted(s) /\ job[s].attempts < MaxAttempts /\ job[s].owner = NoWorker
  BY <1>1, QueueFacts DEF LiveJobStates
<1>3. run[w].sub = NoSubmission
  BY <1>1, IdleTyped DEF QueueInv, RunShape
<1>4. j \in JobType /\ j.state = "active" /\ j.owner = w /\ j.attempts = job[s].attempts
  BY <1>1 DEF JobType, JobStates, LiveJobStates
<1>5. r \in RunType /\ r.pc = "start" /\ r.sub = s /\ r.version = 0
  <2>1. PICK i \in RunType : i = IdleRun
    BY IdleTyped
  <2>2. i.version = 0 /\ r = [i EXCEPT !.pc = "start", !.sub = s]
    BY <2>1 DEF IdleRun
  <2>. QED
    BY <2>2 DEF RunType, RunStates
<1>6. run' = [run EXCEPT ![w] = r]
  BY DEF JobStart
<1>7. job' = [job EXCEPT ![s] = j]
  <2>. HIDE DEF r
  <2>. QED
    BY DEF JobStart
<1>. HIDE DEF j, r
<1>8. RowsTyped' /\ QueueTyped'
  BY <1>1, <1>4, <1>5, <1>6, <1>7 DEF QueueInv, RowsTyped, QueueTyped, rowVars
<1>9. /\ answers' = answers /\ lockLost' = lockLost
      /\ job'[s] = j /\ \A o \in Submissions : o # s => job'[o] = job[o]
      /\ run'[w] = r /\ \A v \in Workers : v # w => run'[v] = run[v]
  BY <1>1, <1>6, <1>7 DEF rowVars
<1>10. OnlySubmitted'
  BY <1>1, <1>2, <1>5, <1>9 DEF QueueInv, OnlySubmitted, Submitted
<1>11. (\A v \in Workers : RunShape(v))'
  BY <1>5, <1>9 DEF QueueInv, RunShape
<1>12. LocksMeanRuns'
  <2>1. \A o \in Submissions : job[o].owner # w
    BY <1>3, Constants DEF QueueInv, LocksMeanRuns
  <2>. QED
    BY <2>1, <1>2, <1>4, <1>5, <1>9, Constants DEF QueueInv, LocksMeanRuns
<1>13. RunsHoldLocks'
  <2>. SUFFICES ASSUME ~lockLost, NEW v \in Workers, run'[v].pc # "idle"
       PROVE  job'[run'[v].sub].owner = v
    BY <1>9 DEF RunsHoldLocks
  <2>1. CASE v = w
    BY <2>1, <1>4, <1>5, <1>9
  <2>2. CASE v # w
    <3>1. run'[v] = run[v] /\ run[v].sub \in Submissions /\ job[run[v].sub].owner = v
      BY <2>2, <1>9 DEF QueueInv, RunsHoldLocks, RunShape
    <3>2. run[v].sub # s
      BY <3>1, <1>2, Constants
    <3>. QED
      BY <3>1, <3>2, <1>9
  <2>. QED
    BY <2>1, <2>2
<1>. QED
  BY <1>8, <1>10, <1>11, <1>12, <1>13 DEF QueueInv

(* A run ends, or only loses its lock: the job, if it was still held, is   *)
(* left without an owner.                                                  *)
LEMMA ReleaseQueue ==
  ASSUME QueueInv, NEW w \in Workers, run[w].pc # "idle",
         NEW j \in JobType, j.owner = NoWorker,
         Holds(w) => job[run[w].sub].state # "none",
         j.state \in LiveJobStates => j.attempts < MaxAttempts,
         job' = IF Holds(w) THEN [job EXCEPT ![run[w].sub] = j] ELSE job,
         run' = [run EXCEPT ![w] = IdleRun] \/ (run' = run /\ lockLost'),
         lockLost' \in BOOLEAN, lockLost => lockLost',
         failures' \subseteq FailureType, \A f \in failures' : Submitted(f.sub),
         mishaps' \in 0..MaxMishaps,
         UNCHANGED <<rowVars, calls, decisions>>
  PROVE  QueueInv'
<1>. DEFINE s == run[w].sub
<1>1. s \in Submissions /\ job \in [Submissions -> JobType] /\ run \in [Workers -> RunType]
  BY DEF QueueInv, QueueTyped, RunShape
<1>2. RowsTyped' /\ QueueTyped'
  BY <1>1, IdleTyped DEF QueueInv, RowsTyped, QueueTyped, rowVars
<1>3. /\ answers' = answers
      /\ \A o \in Submissions : job'[o] = job[o] \/ (o = s /\ Holds(w) /\ job'[o] = j)
      /\ \A v \in Workers : run'[v] = run[v] \/ (v = w /\ run'[v] = IdleRun)
  BY <1>1 DEF rowVars
<1>4. OnlySubmitted'
  <2>1. (\A c \in calls : Submitted(c.sub))' /\ (\A f \in failures : Submitted(f.sub))'
    BY <1>3 DEF QueueInv, OnlySubmitted, Submitted
  <2>2. (\A o \in Submissions : job[o].state # "none" => Submitted(o))'
    BY <1>3 DEF QueueInv, OnlySubmitted, Submitted
  <2>3. (\A v \in Workers : run[v].pc # "idle" => Submitted(run[v].sub))'
    BY <1>3, IdleTyped DEF QueueInv, OnlySubmitted, Submitted
  <2>. QED
    BY <2>1, <2>2, <2>3 DEF OnlySubmitted
<1>5. (\A v \in Workers : RunShape(v))'
  BY <1>3, IdleTyped DEF QueueInv, RunShape
<1>6. LocksMeanRuns'
  <2>1. (\A o \in Submissions : job[o].state \in LiveJobStates => job[o].attempts < MaxAttempts)'
    BY <1>3 DEF QueueInv, LocksMeanRuns
  <2>2. (\A o \in Submissions : job[o].owner # NoWorker => job[o].state = "active")'
    BY <1>3 DEF QueueInv, LocksMeanRuns
  <2>3. ASSUME NEW o \in Submissions, NEW v \in Workers, job'[o].owner = v
        PROVE  run'[v].sub = o
    <3>1. job'[o] = job[o] /\ job[o].owner = v /\ run[v].sub = o
      BY <2>3, <1>3, Constants DEF QueueInv, LocksMeanRuns
    <3>2. CASE v # w
      BY <3>1, <3>2, <1>3
    <3>3. CASE v = w
      <4>1. o = s /\ Holds(w)
        BY <3>1, <3>3 DEF Holds
      <4>2. job'[s] = j
        BY <4>1, <1>1
      <4>. QED
        BY <4>1, <4>2, <2>3, Constants
    <3>. QED
      BY <3>2, <3>3
  <2>. QED
    BY <2>1, <2>2, <2>3 DEF LocksMeanRuns
<1>7. RunsHoldLocks'
  <2>. SUFFICES ASSUME ~lockLost', NEW v \in Workers, run'[v].pc # "idle"
       PROVE  job'[run'[v].sub].owner = v
    BY DEF RunsHoldLocks
  <2>1. v # w /\ run'[v] = run[v]
    BY <1>1, <1>3, IdleTyped
  <2>2. run[v].sub \in Submissions /\ job[run[v].sub].owner = v
    BY <2>1 DEF QueueInv, RunsHoldLocks, RunShape
  <2>3. job'[run[v].sub] = job[run[v].sub]
    BY <2>1, <2>2, <1>3 DEF Holds
  <2>. QED
    BY <2>1, <2>2, <2>3
<1>. QED
  BY <1>2, <1>4, <1>5, <1>6, <1>7 DEF QueueInv

LEMMA WorkerQueue ==
  ASSUME QueueInv, NEW w \in Workers,
         JobCompleted(w) \/ JobFailed(w) \/ WorkerDies(w) \/ WorkerLosesLock(w)
  PROVE  QueueInv'
<1>. DEFINE s == run[w].sub
<1>1. run[w].pc # "idle"
  BY DEF JobCompleted, JobFailed, WorkerDies, WorkerLosesLock
<1>2. s \in Submissions /\ Submitted(s)
  BY <1>1 DEF QueueInv, RunShape, OnlySubmitted
<1>3. /\ job[s] \in JobType /\ job = [job EXCEPT ![s] = job[s]] /\ mishaps \in 0..MaxMishaps
      /\ failures \subseteq FailureType /\ \A f \in failures : Submitted(f.sub)
      /\ lockLost \in BOOLEAN
  BY <1>2, QueueFacts DEF QueueInv, QueueTyped
<1>4. Holds(w) => job[s].state = "active" /\ job[s].attempts < MaxAttempts
  <2>. SUFFICES ASSUME Holds(w) PROVE job[s].state = "active" /\ job[s].attempts < MaxAttempts
    OBVIOUS
  <2>1. job[s].owner # NoWorker
    BY Constants DEF Holds
  <2>2. job[s].state = "active"
    BY <1>2, <2>1, QueueFacts
  <2>. QED
    BY <1>2, <2>2, QueueFacts DEF LiveJobStates
<1>5. CASE JobCompleted(w)
  <2>1. \E j \in JobType :
          /\ j.state = "completed" /\ j.owner = NoWorker
          /\ [job[s] EXCEPT !.state = "completed", !.owner = NoWorker] = j
    BY <1>3 DEF JobType, JobStates
  <2>2. PICK j \in JobType :
          /\ j.state = "completed" /\ j.owner = NoWorker
          /\ [job[s] EXCEPT !.state = "completed", !.owner = NoWorker] = j
    BY <2>1
  <2>3. job' = IF Holds(w) THEN [job EXCEPT ![s] = j] ELSE job
    BY <1>5, <2>2 DEF JobCompleted
  <2>4. run' = [run EXCEPT ![w] = IdleRun] /\ UNCHANGED <<rowVars, calls, failures, decisions, mishaps, lockLost>>
    BY <1>5 DEF JobCompleted, EndRun, bounds
  <2>. QED
    BY <1>1, <1>3, <1>4, <2>2, <2>3, <2>4, ReleaseQueue DEF LiveJobStates
<1>6. CASE JobFailed(w)
  <2>1. UNCHANGED <<rowVars, calls, decisions, mishaps, lockLost>> /\ run' = [run EXCEPT ![w] = IdleRun]
    BY <1>6 DEF JobFailed, EndRun, bounds
  <2>2. CASE Holds(w)
    <3>. DEFINE state == IF job[s].attempts + 1 < MaxAttempts THEN "delayed" ELSE "failed"
                j == [job[s] EXCEPT !.state = state, !.attempts = @ + 1, !.owner = NoWorker]
    <3>1. job[s].attempts + 1 \in 0..MaxAttempts /\ (state = "delayed" => job[s].attempts + 1 < MaxAttempts)
      BY <1>3, <1>4, <2>2, Constants DEF JobType
    <3>2. state \in {"delayed", "failed"} /\ state \in JobStates
      BY DEF JobStates, LiveJobStates
    <3>. HIDE DEF state
    <3>3. /\ j \in JobType /\ j.state = state /\ j.attempts = job[s].attempts + 1
          /\ j.recoveries = job[s].recoveries /\ j.owner = NoWorker
      BY <1>3, <3>1, <3>2 DEF JobType
    <3>4. job' = [job EXCEPT ![s] = j] /\ failures' = failures \cup {Failure(s)}
      BY <1>6, <2>2 DEF JobFailed, state
    <3>5. job'[s] = j
      BY <1>2, <3>4, QueueFacts
    <3>6. Failure(s) \in FailureType /\ Failure(s).sub = s
      BY <1>2, <1>3, <3>3, <3>5 DEF Failure, FailureType, JobType
    <3>7. failures' \subseteq FailureType /\ \A f \in failures' : Submitted(f.sub)
      BY <1>2, <1>3, <3>4, <3>6
    <3>8. j.state \in LiveJobStates => j.attempts < MaxAttempts
      BY <3>1, <3>2, <3>3 DEF LiveJobStates
    <3>. HIDE DEF j
    <3>. QED
      BY <1>1, <1>3, <1>4, <2>1, <2>2, <3>3, <3>4, <3>7, <3>8, ReleaseQueue
  <2>3. CASE ~Holds(w)
    <3>1. job' = job /\ failures' = failures
      BY <1>6, <2>3 DEF JobFailed
    <3>. QED
      BY <1>1, <1>3, <2>1, <2>3, <3>1, NoJobTyped, ReleaseQueue DEF LiveJobStates
  <2>. QED
    BY <2>2, <2>3
<1>7. CASE WorkerDies(w) \/ WorkerLosesLock(w)
  <2>. DEFINE j == [job[s] EXCEPT !.owner = NoWorker]
  <2>1. j \in JobType /\ j.state = job[s].state /\ j.attempts = job[s].attempts /\ j.owner = NoWorker
    BY <1>3 DEF JobType
  <2>2. job' = IF Holds(w) THEN [job EXCEPT ![s] = j] ELSE job
    BY <1>7 DEF WorkerDies, WorkerLosesLock, Unlock
  <2>3. mishaps' \in 0..MaxMishaps
    BY <1>7, MishapTyped DEF WorkerDies, WorkerLosesLock
  <2>4. /\ UNCHANGED <<rowVars, calls, failures, decisions>>
        /\ \/ run' = [run EXCEPT ![w] = IdleRun] /\ lockLost' = lockLost
           \/ run' = run /\ lockLost'
        /\ lockLost' \in BOOLEAN
    BY <1>3, <1>7 DEF WorkerDies, WorkerLosesLock, EndRun
  <2>5. j.state \in LiveJobStates => j.attempts < MaxAttempts
    BY <1>2, <2>1, QueueFacts
  <2>. HIDE DEF j
  <2>. QED
    BY <1>1, <1>3, <1>4, <2>1, <2>2, <2>3, <2>4, <2>5, ReleaseQueue
<1>. QED
  BY <1>5, <1>6, <1>7

(* onFailed gives a submission up or queues it again; nothing else.        *)
LEMMA FailureQueue ==
  ASSUME QueueInv, NEW f \in failures, OnFailed(f) \/ FailureLost(f)
  PROVE  QueueInv'
<1>. DEFINE s == f.sub
<1>1. f \in FailureType /\ s \in Submissions /\ Submitted(s)
  BY DEF QueueInv, QueueTyped, OnlySubmitted, FailureType
<1>2. /\ job[s] \in JobType /\ job = [job EXCEPT ![s] = job[s]] /\ mishaps \in 0..MaxMishaps
      /\ job[s].state # "none" => Submitted(s)
      /\ job[s].state \in LiveJobStates => job[s].attempts < MaxAttempts
      /\ job[s].owner # NoWorker => job[s].state = "active"
      /\ calls \subseteq CallType /\ \A c \in calls : Submitted(c.sub)
      /\ failures \subseteq FailureType /\ \A g \in failures : Submitted(g.sub)
  BY <1>1, QueueFacts
<1>3. /\ failures' \subseteq FailureType /\ \A g \in failures' : Submitted(g.sub)
      /\ mishaps' \in 0..MaxMishaps
      /\ UNCHANGED <<job, run, decisions, lockLost>>
  BY <1>2, MishapTyped DEF OnFailed, FailureLost, bounds
<1>4. CASE UNCHANGED <<rowVars, calls>>
  BY <1>1, <1>2, <1>3, <1>4, QueueOnly
<1>5. CASE calls' = calls \cup {Call(s, "recover", f.recoveries + 1)} /\ f.recoveries < MaxStallRecoveries /\ UNCHANGED rowVars
  <2>1. f.recoveries + 1 \in 1..MaxStallRecoveries
    BY <1>1, <1>5, Constants DEF FailureType
  <2>2. /\ Call(s, "recover", f.recoveries + 1) \in CallType
        /\ Call(s, "recover", f.recoveries + 1).sub = s
    BY <1>1, <2>1 DEF Call, CallType, CallStates
  <2>3. calls' \subseteq CallType /\ \A c \in calls' : Submitted(c.sub)
    BY <1>1, <1>2, <1>5, <2>2
  <2>. QED
    BY <1>1, <1>2, <1>3, <1>5, <2>3, QueueOnly
<1>6. CASE GiveUp(s)
  <2>1. RowsTyped' /\ answers' = answers /\ calls' = calls
    BY <1>1, <1>6
    DEF GiveUp, MarkGradingFailed, rowVars, QueueInv, RowsTyped, Statuses, Withdrawable
  <2>2. QueueTyped'
    BY <1>3, <2>1 DEF QueueInv, QueueTyped
  <2>3. OnlySubmitted' /\ LocksMeanRuns' /\ RunsHoldLocks' /\ (\A w \in Workers : RunShape(w))'
    BY <1>3, <2>1 DEF QueueInv, OnlySubmitted, Submitted, LocksMeanRuns, RunsHoldLocks, RunShape
  <2>. QED
    BY <2>1, <2>2, <2>3 DEF QueueInv
<1>7. CASE FailureLost(f)
  BY <1>4, <1>7 DEF FailureLost
<1>8. CASE OnFailed(f)
  <2>1. \/ GiveUp(s)
        \/ f.attempts < MaxAttempts /\ Recover(s, f.recoveries)
        \/ UNCHANGED <<rowVars, calls>>
    BY <1>8 DEF OnFailed
  <2>2. CASE Recover(s, f.recoveries)
    <3>1. \/ UNCHANGED <<rowVars, calls>>
          \/ GiveUp(s)
          \/ /\ calls' = calls \cup {Call(s, "recover", f.recoveries + 1)}
             /\ ~(f.recoveries >= MaxStallRecoveries) /\ UNCHANGED rowVars
      BY <2>2 DEF Recover
    <3>2. f.recoveries \in Nat
      BY <1>1 DEF FailureType
    <3>. QED
      BY <3>1, <3>2, <1>4, <1>5, <1>6, Constants
  <2>. QED
    BY <2>1, <2>2, <1>4, <1>6
<1>. QED
  BY <1>7, <1>8

-----------------------------------------------------------------------------
(* The queue's invariant, its types and what it implies.                   *)

LEMMA InitQueue == Init => QueueInv
<1>. SUFFICES ASSUME Init PROVE QueueInv
  OBVIOUS
<1>1. {} \in Scores
  BY DEF Scores
<1>2. RowsTyped
  BY <1>1, Constants DEF Init, RowsTyped, Statuses, Withdrawable
<1>3. QueueTyped
  <2>1. job \in [Submissions -> JobType] /\ run \in [Workers -> RunType]
    BY NoJobTyped, IdleTyped DEF Init
  <2>2. calls = {} /\ failures = {} /\ decisions = 0 /\ mishaps = 0 /\ lockLost = FALSE
    BY DEF Init
  <2>3. decisions \in 0..MaxDecisions /\ mishaps \in 0..MaxMishaps
    BY <2>2, Constants
  <2>4. lockLost \in BOOLEAN /\ calls \subseteq CallType /\ failures \subseteq FailureType
    BY <2>2, Zenon
  <2>. QED
    BY <2>1, <2>3, <2>4 DEF QueueTyped
<1>4. OnlySubmitted /\ LocksMeanRuns /\ RunsHoldLocks /\ \A w \in Workers : RunShape(w)
  BY NoJobTyped, IdleTyped, Constants
  DEF Init, OnlySubmitted, LocksMeanRuns, RunsHoldLocks, RunShape, LiveJobStates
<1>. QED
  BY <1>2, <1>3, <1>4 DEF QueueInv

LEMMA NextQueue == QueueInv /\ [Next]_vars => QueueInv'
<1>. SUFFICES ASSUME QueueInv, [Next]_vars PROVE QueueInv'
  OBVIOUS
<1>1. CASE UNCHANGED vars
  BY <1>1
  DEF vars, rowVars, bounds, QueueInv, RowsTyped, QueueTyped, OnlySubmitted, Submitted, LocksMeanRuns,
      RunsHoldLocks, RunShape
<1>2. CASE Next
  BY <1>2, HumanQueue, StartQueue, TimerQueue, RunStepQueue, WorkerQueue, CallQueue, FailureQueue DEF Next
<1>. QED
  BY <1>1, <1>2

LEMMA QueueAlways == Spec => []QueueInv
BY InitQueue, NextQueue, PTL DEF Spec

(* Rows, jobs, pending calls and runs keep their types: no job exceeds its *)
(* attempts, stalls and recoveries (gradingConfig, BullMQ), and no run     *)
(* works on answers that were never submitted.                             *)
THEOREM GradingTyped == Spec => []TypeOK
<1>. SUFFICES QueueInv => TypeOK
  BY QueueAlways, PTL
<1>. SUFFICES ASSUME QueueInv PROVE TypeOK
  OBVIOUS
<1>1. \A c \in calls :
        /\ c.sub \in Submissions /\ c.pc \in {"check", "remove", "add"}
        /\ \/ c.by = "submit" /\ c.nth \in Versions
           \/ c.by = "recover" /\ c.nth \in 1..MaxStallRecoveries
           \/ c.by = "sweep" /\ c.nth = 0
  BY DEF QueueInv, QueueTyped, CallType, CallStates
<1>2. \A f \in failures :
        /\ f.sub \in Submissions
        /\ f.attempts \in 0..MaxAttempts /\ f.recoveries \in 0..MaxStallRecoveries
  BY DEF QueueInv, QueueTyped, FailureType
<1>3. ASSUME NEW w \in Workers, run[w].pc # "idle"
      PROVE  /\ run[w].sub \in Submissions
             /\ run[w].pc \in RunStates \ {"idle"}
             /\ run[w].version \in IF run[w].pc = "start" THEN {0} ELSE Versions
             /\ run[w].scores \in Scores
  <2>1. run[w] \in RunType /\ RunShape(w)
    BY DEF QueueInv, QueueTyped
  <2>. QED
    BY <1>3, <2>1 DEF RunShape, RunType
<1>4. \A w \in Workers : run[w].pc = "idle" => run[w] = IdleRun
  BY DEF QueueInv, RunShape
<1>. QED
  BY <1>1, <1>2, <1>3, <1>4 DEF QueueInv, RowsTyped, QueueTyped, JobType, TypeOK

(* The lock of the job keeps a submission's runs apart, however queueing   *)
(* calls interleave: an active job is not removed, nor added again.        *)
THEOREM OneRunAtATime == Spec => []OneRunPerSubmission
<1>1. QueueInv => OneRunPerSubmission
  <2>. SUFFICES ASSUME QueueInv, ~lockLost, NEW w1 \in Workers, NEW w2 \in Workers,
                       run[w1].sub = run[w2].sub, run[w1].sub # NoSubmission
       PROVE  w1 = w2
    BY DEF OneRunPerSubmission
  <2>1. run[w1].pc # "idle" /\ run[w2].pc # "idle"
    BY IdleTyped DEF QueueInv, RunShape
  <2>. QED
    BY <2>1 DEF QueueInv, RunsHoldLocks
<1>. QED
  BY QueueAlways, <1>1, PTL

-----------------------------------------------------------------------------
(* Scores.                                                                 *)

LEMMA ScoredMore ==
  ASSUME NEW scores, OnePerTask(scores), \A p \in scores : p = <<p[1], p[2]>>,
         NEW t, NEW v, t \notin Scored(scores)
  PROVE  OnePerTask(scores \cup {<<t, v>>})
BY DEF OnePerTask, Scored

(* What a run may have changed of the scores of its submission.            *)
LEMMA ScoresWritten ==
  ASSUME QueueInv, [Next]_vars
  PROVE  \/ UNCHANGED <<taskScores, result>>
         \/ \E w \in Workers : (\E t \in Tasks : RunTask(w, t)) \/ RunRecord(w)
BY DEF Next, HumanStep, SubmitAnswers, Withdraw, UpdateSelectionStatus, ReviewAntiCheatFlag, Decide, SetStatus,
   JobStart, BackoffOver, JobStalled, Sweep, RunStep, RunRead, RunMark, RunNothing, MarkGradingFailed,
   JobCompleted, JobFailed, WorkerDies, WorkerLosesLock, CallStep, CallCheck, CallRemove, CallAdd, CallLost,
   OnFailed, GiveUp, Recover, FailureLost, rowVars, vars

(* Where the scores in a run come from.                                    *)
LEMMA RunWritten ==
  ASSUME QueueInv, [Next]_vars, NEW w \in Workers
  PROVE  \/ run'[w] = run[w]
         \/ run'[w].pc \notin {"read", "grading"} /\ run'[w].scores \in {{}, run[w].scores}
         \/ RunRead(w)
         \/ \E t \in Tasks : RunTask(w, t)
         \/ RunMark(w)
<1>1. run \in [Workers -> RunType]
  BY DEF QueueInv, QueueTyped
<1>2. ASSUME NEW v \in Workers, EndRun(v)
      PROVE  run'[w] = run[w] \/ run'[w] = IdleRun
  BY <1>1, <1>2 DEF EndRun
<1>3. ASSUME NEW v \in Workers, NEW s \in Submissions, JobStart(v, s)
      PROVE  run'[w] = run[w] \/ (run'[w].pc = "start" /\ run'[w].scores = {})
  <2>1. run'[w] = run[w] \/ run'[w] = [IdleRun EXCEPT !.pc = "start", !.sub = s]
    BY <1>1, <1>3 DEF JobStart
  <2>. QED
    BY <2>1 DEF IdleRun
<1>4. ASSUME NEW v \in Workers, RunNothing(v) \/ RunRecord(v)
      PROVE  \/ run'[w] = run[w]
             \/ run'[w].pc \in {"publish", "done"} /\ run'[w].scores = run[w].scores
  <2>1. PICK pc \in {"publish", "done"} : run' = [run EXCEPT ![v].pc = pc]
    BY <1>4 DEF RunNothing, RunRecord, GoTo
  <2>. QED
    BY <1>1, <2>1 DEF RunType
<1>5. ASSUME NEW v \in Workers, v # w, RunRead(v) \/ RunMark(v) \/ \E t \in Tasks : RunTask(v, t)
      PROVE  run'[w] = run[w]
  BY <1>1, <1>5 DEF RunRead, RunMark, RunTask, GoTo
<1>6. IdleRun.pc = "idle" /\ IdleRun.scores = {}
  BY IdleTyped
<1>7. \/ run' = run
      \/ \E v \in Workers :
           \/ EndRun(v) \/ \E s \in Submissions : JobStart(v, s)
           \/ RunNothing(v) \/ RunRecord(v)
           \/ RunRead(v) \/ RunMark(v) \/ \E t \in Tasks : RunTask(v, t)
  BY DEF Next, HumanStep, SubmitAnswers, Withdraw, UpdateSelectionStatus, ReviewAntiCheatFlag, Decide, SetStatus,
     BackoffOver, JobStalled, Sweep, RunStep, JobCompleted, JobFailed, WorkerDies, WorkerLosesLock,
     CallStep, CallCheck, CallRemove, CallAdd, CallLost, OnFailed, FailureLost, vars
<1>. QED
  BY <1>2, <1>3, <1>4, <1>5, <1>6, <1>7

LEMMA LocksStayLost == [Next]_vars => (lockLost => lockLost')
BY DEF Next, HumanStep, SubmitAnswers, Withdraw, UpdateSelectionStatus, ReviewAntiCheatFlag, Decide, SetStatus,
   JobStart, BackoffOver, JobStalled, Sweep, RunStep, RunRead, RunMark, RunTask, RunNothing, RunRecord,
   JobCompleted, JobFailed, WorkerDies, WorkerLosesLock, CallStep, CallCheck, CallRemove, CallAdd, CallLost,
   OnFailed, FailureLost, bounds, vars

(* The step of a run that writes scores, with what it knows.               *)
LEMMA RunFacts ==
  ASSUME QueueInv, NEW w \in Workers, run[w].pc \in {"start", "read", "grading"}
  PROVE  /\ run[w].sub \in Submissions
         /\ run \in [Workers -> RunType] /\ taskScores \in [Submissions -> Scores]
         /\ result \in [Submissions -> Scores]
         /\ \A p \in run[w].scores : p = <<p[1], p[2]>>
         /\ run[w].pc # "start" =>
              run[w].version \in Nat /\ run[w].version \in 1..answers[run[w].sub]
<1>1. run \in [Workers -> RunType] /\ taskScores \in [Submissions -> Scores] /\ result \in [Submissions -> Scores]
  BY DEF QueueInv, QueueTyped, RowsTyped
<1>2. run[w].scores \in Scores /\ RunShape(w)
  BY <1>1 DEF QueueInv, RunType
<1>3. \A p \in run[w].scores : p = <<p[1], p[2]>>
  BY <1>2 DEF Scores
<1>4. run[w].sub \in Submissions /\ answers[run[w].sub] \in Nat
  BY <1>2 DEF RunShape, QueueInv, RowsTyped
<1>5. run[w].pc # "start" => run[w].version \in Nat /\ run[w].version \in 1..answers[run[w].sub]
  BY <1>2, <1>4, Constants DEF RunShape, Versions
<1>. QED
  BY <1>1, <1>3, <1>4, <1>5

LEMMA TaskFacts ==
  ASSUME QueueInv, ScoresInv, NEW w \in Workers, NEW t \in Tasks, RunTask(w, t)
  PROVE  \E scores : /\ run' = [run EXCEPT ![w].scores = scores]
                     /\ taskScores' = [taskScores EXCEPT ![run[w].sub] = scores]
                     /\ run[w].scores \subseteq scores
                     /\ OnePerTask(scores)
<1>. DEFINE scores == run[w].scores \cup {<<t, run[w].version>>}
<1>1. OnePerTask(scores)
  <2>1. t \notin Scored(run[w].scores) /\ run[w].pc = "grading"
    BY DEF RunTask
  <2>. QED
    BY <2>1, RunFacts, ScoredMore DEF ScoresInv
<1>2. /\ run' = [run EXCEPT ![w].scores = scores]
      /\ taskScores' = [taskScores EXCEPT ![run[w].sub] = scores]
  BY DEF RunTask
<1>3. run[w].scores \subseteq scores
  OBVIOUS
<1>. HIDE DEF scores
<1>. QED
  BY <1>1, <1>2, <1>3

LEMMA NextScores == QueueInv /\ ScoresInv /\ [Next]_vars => ScoresInv'
<1>. SUFFICES ASSUME QueueInv, ScoresInv, [Next]_vars PROVE ScoresInv'
  OBVIOUS
<1>1. ASSUME NEW s \in Submissions
      PROVE  OnePerTask(taskScores'[s])
  <2>1. CASE taskScores' = taskScores
    BY <2>1 DEF ScoresInv
  <2>2. ASSUME NEW w \in Workers, NEW t \in Tasks, RunTask(w, t)
        PROVE  OnePerTask(taskScores'[s])
    <3>1. run[w].pc = "grading"
      BY <2>2 DEF RunTask
    <3>. QED
      BY <2>2, <3>1, RunFacts, TaskFacts DEF ScoresInv
  <2>3. ASSUME NEW w \in Workers, RunRecord(w)
        PROVE  OnePerTask(taskScores'[s])
    <3>1. run[w].pc = "grading"
      BY <2>3 DEF RunRecord
    <3>2. taskScores' = taskScores \/ taskScores' = [taskScores EXCEPT ![run[w].sub] = run[w].scores]
      BY <2>3 DEF RunRecord
    <3>. QED
      BY <3>1, <3>2, RunFacts DEF ScoresInv
  <2>. QED
    BY <2>1, <2>2, <2>3, ScoresWritten
<1>2. ASSUME NEW w \in Workers
      PROVE  OnePerTask(run'[w].scores)
  <2>1. CASE run'[w] = run[w]
    BY <2>1 DEF ScoresInv
  <2>2. CASE run'[w].scores \in {{}, run[w].scores}
    BY <2>2 DEF ScoresInv, OnePerTask
  <2>3. CASE RunRead(w)
    <3>1. run[w].pc = "start" /\ run'[w].scores = taskScores[run[w].sub]
      BY <2>3 DEF RunRead, QueueInv, QueueTyped
    <3>. QED
      BY <3>1, RunFacts DEF ScoresInv
  <2>4. ASSUME NEW t \in Tasks, RunTask(w, t)
        PROVE  OnePerTask(run'[w].scores)
    <3>1. run[w].pc = "grading"
      BY <2>4 DEF RunTask
    <3>. QED
      BY <2>4, <3>1, RunFacts, TaskFacts DEF RunType
  <2>5. CASE RunMark(w)
    <3>1. run[w].pc = "read" /\ run'[w].scores = run[w].scores
      BY <2>5 DEF RunMark, GoTo, QueueInv, QueueTyped, RunType
    <3>. QED
      BY <3>1 DEF ScoresInv
  <2>. QED
    BY <2>1, <2>2, <2>3, <2>4, <2>5, RunWritten
<1>. QED
  BY <1>1, <1>2 DEF ScoresInv

(* Only recording writes a result, and it writes the scores it saves.      *)
LEMMA ResultWritten ==
  ASSUME QueueInv, [Next]_vars, result' # result
  PROVE  \E w \in Workers :
           /\ RunRecord(w)
           /\ result' = [result EXCEPT ![run[w].sub] = run[w].scores]
           /\ taskScores' = [taskScores EXCEPT ![run[w].sub] = run[w].scores]
<1>1. PICK w \in Workers : (\E t \in Tasks : RunTask(w, t)) \/ RunRecord(w)
  BY ScoresWritten
<1>2. RunRecord(w)
  BY <1>1 DEF RunTask
<1>. QED
  BY <1>2 DEF RunRecord

(* While locks are kept a run is alone with its submission, so that no     *)
(* other one replaces the scores it started from.                          *)
LEMMA NextKeepsResult == QueueInv /\ ScoresInv /\ RunKeepsResult /\ [Next]_vars => RunKeepsResult'
<1>. SUFFICES ASSUME QueueInv, ScoresInv, RunKeepsResult, [Next]_vars, ~lockLost'
     PROVE  /\ \A s \in Submissions : result'[s] \subseteq taskScores'[s]
            /\ \A w \in Workers :
                 run'[w].pc \in {"read", "grading"} => result'[run'[w].sub] \subseteq run'[w].scores
  BY DEF RunKeepsResult
<1>1. /\ \A s \in Submissions : result[s] \subseteq taskScores[s]
      /\ \A w \in Workers :
           run[w].pc \in {"read", "grading"} => result[run[w].sub] \subseteq run[w].scores
      /\ \A w \in Workers : run[w].pc # "idle" => job[run[w].sub].owner = w
  BY LocksStayLost DEF RunKeepsResult, QueueInv, RunsHoldLocks
<1>2. ASSUME NEW s \in Submissions
      PROVE  result'[s] \subseteq taskScores'[s]
  <2>1. CASE UNCHANGED <<taskScores, result>>
    BY <1>1, <2>1
  <2>2. ASSUME NEW w \in Workers, NEW t \in Tasks, RunTask(w, t)
        PROVE  result'[s] \subseteq taskScores'[s]
    <3>1. run[w].pc = "grading" /\ result' = result
      BY <2>2 DEF RunTask
    <3>. QED
      BY <2>2, <3>1, <1>1, RunFacts, TaskFacts
  <2>3. CASE result' # result
    <3>1. PICK w \in Workers :
            /\ RunRecord(w)
            /\ result' = [result EXCEPT ![run[w].sub] = run[w].scores]
            /\ taskScores' = [taskScores EXCEPT ![run[w].sub] = run[w].scores]
      BY <2>3, ResultWritten
    <3>2. run[w].pc = "grading"
      BY <3>1 DEF RunRecord
    <3>. QED
      BY <1>1, <3>1, <3>2, RunFacts
  <2>4. ASSUME NEW w \in Workers, RunRecord(w), result' = result
        PROVE  result'[s] \subseteq taskScores'[s]
    <3>1. run[w].pc = "grading"
      BY <2>4 DEF RunRecord
    <3>2. \/ taskScores' = taskScores
          \/ taskScores' = [taskScores EXCEPT ![run[w].sub] = run[w].scores]
      BY <2>4 DEF RunRecord
    <3>. QED
      BY <1>1, <2>4, <3>1, <3>2, RunFacts
  <2>. QED
    BY <2>1, <2>2, <2>3, <2>4, ScoresWritten
<1>3. ASSUME NEW w \in Workers, run'[w].pc \in {"read", "grading"}
      PROVE  result'[run'[w].sub] \subseteq run'[w].scores
  <2>1. CASE run'[w] = run[w]
    <3>1. run[w].sub \in Submissions /\ result[run[w].sub] \subseteq run[w].scores
      BY <1>1, <1>3, <2>1, RunFacts
    <3>2. CASE result' # result
      <4>1. PICK v \in Workers :
              RunRecord(v) /\ result' = [result EXCEPT ![run[v].sub] = run[v].scores]
        BY <3>2, ResultWritten
      <4>2. run[v].pc = "grading" /\ run'[v].pc \in {"publish", "done"}
        BY <4>1 DEF RunRecord, GoTo, QueueInv, QueueTyped, RunType
      <4>3. v # w
        BY <1>3, <4>2
      <4>4. run[v].sub # run[w].sub
        BY <1>1, <1>3, <2>1, <4>2, <4>3
      <4>. QED
        BY <2>1, <3>1, <4>1, <4>2, <4>4, RunFacts
    <3>. QED
      BY <2>1, <3>1, <3>2
  <2>2. CASE RunRead(w)
    <3>1. /\ run[w].pc = "start" /\ result' = result
          /\ run'[w].scores = taskScores[run[w].sub] /\ run'[w].sub = run[w].sub
      BY <2>2 DEF RunRead, rowVars, QueueInv, QueueTyped
    <3>. QED
      BY <3>1, <1>1, RunFacts
  <2>3. ASSUME NEW t \in Tasks, RunTask(w, t)
        PROVE  result'[run'[w].sub] \subseteq run'[w].scores
    <3>1. run[w].pc = "grading" /\ result' = result
      BY <2>3 DEF RunTask
    <3>2. run'[w].sub = run[w].sub /\ run[w].scores \subseteq run'[w].scores
      BY <2>3, <3>1, TaskFacts, RunFacts DEF RunType
    <3>. QED
      BY <3>1, <3>2, <1>1
  <2>4. CASE RunMark(w)
    <3>1. /\ run[w].pc = "read" /\ result' = result
          /\ run'[w].sub = run[w].sub /\ run'[w].scores = run[w].scores
      BY <2>4 DEF RunMark, GoTo, QueueInv, QueueTyped, RunType
    <3>. QED
      BY <3>1, <1>1
  <2>. QED
    BY <1>3, <2>1, <2>2, <2>3, <2>4, RunWritten
<1>. QED
  BY <1>2, <1>3

LEMMA InitScores == Init => ScoresInv /\ RunKeepsResult /\ ResultIsComplete
BY IdleTyped DEF Init, ScoresInv, OnePerTask, RunKeepsResult, ResultIsComplete

(* What is rolled up covers every gradable task of the version graded.     *)
LEMMA NextComplete == QueueInv /\ ScoresInv /\ ResultIsComplete /\ [Next]_vars => ResultIsComplete'
<1>. SUFFICES ASSUME QueueInv, ScoresInv, ResultIsComplete, [Next]_vars,
                     NEW s \in Submissions, result'[s] # {}
     PROVE  /\ OnePerTask(result'[s])
            /\ \E v \in 1..answers'[s] : Gradable[<<s, v>>] \subseteq Scored(result'[s])
  BY DEF ResultIsComplete, OnePerTask
<1>1. answers[s] \in Nat /\ answers'[s] \in Nat /\ answers[s] <= answers'[s]
  <2>1. answers[s] \in Nat /\ answers'[s] \in Nat
    BY NextQueue DEF QueueInv, RowsTyped
  <2>2. answers' = answers \/ \E o \in Submissions : answers' = [answers EXCEPT ![o] = @ + 1]
    BY DEF Next, HumanStep, SubmitAnswers, Withdraw, UpdateSelectionStatus, ReviewAntiCheatFlag, Decide, SetStatus,
       JobStart, BackoffOver, JobStalled, Sweep, RunStep, RunRead, RunMark, RunTask, RunNothing, RunRecord,
       MarkGradingFailed, JobCompleted, JobFailed, WorkerDies, WorkerLosesLock, CallStep, CallCheck,
       CallRemove, CallAdd, CallLost, OnFailed, GiveUp, Recover, FailureLost, rowVars, vars
  <2>3. answers \in [Submissions -> 0..MaxVersions]
    BY DEF QueueInv, RowsTyped
  <2>. QED
    BY <2>1, <2>2, <2>3
<1>2. CASE result'[s] = result[s]
  <2>1. PICK v \in 1..answers[s] : Gradable[<<s, v>>] \subseteq Scored(result[s])
    BY <1>2 DEF ResultIsComplete
  <2>2. v \in 1..answers'[s]
    BY <1>1
  <2>3. OnePerTask(result[s])
    BY <1>2 DEF ResultIsComplete, OnePerTask
  <2>. QED
    BY <1>2, <2>1, <2>2, <2>3
<1>3. CASE result'[s] # result[s]
  <2>1. PICK w \in Workers :
          /\ RunRecord(w)
          /\ result' = [result EXCEPT ![run[w].sub] = run[w].scores]
    BY <1>3, ResultWritten
  <2>2. /\ run[w].pc = "grading" /\ answers' = answers
        /\ Gradable[<<run[w].sub, run[w].version>>] \subseteq Scored(run[w].scores)
    BY <2>1 DEF RunRecord, AllScored
  <2>3. s = run[w].sub /\ result'[s] = run[w].scores
    BY <1>3, <2>1, <2>2, RunFacts
  <2>4. run[w].version \in 1..answers[s]
    BY <2>2, <2>3, RunFacts
  <2>. QED
    BY <2>2, <2>3, <2>4 DEF ScoresInv
<1>. QED
  BY <1>2, <1>3

(* The score an employer sees is explained by the task scores next to it,  *)
(* as long as workers keep their locks (gradeSubmission).                  *)
THEOREM ResultsExplained == Spec => []ResultIsExplained
<1>1. RunKeepsResult => ResultIsExplained
  BY DEF RunKeepsResult, ResultIsExplained
<1>. QED
  BY InitQueue, NextQueue, InitScores, NextScores, NextKeepsResult, <1>1, PTL DEF Spec

(* No result was rolled up from part of the tasks, locks kept or not       *)
(* (gradeSubmission).                                                      *)
THEOREM ResultsComplete == Spec => []ResultIsComplete
BY InitQueue, NextQueue, InitScores, NextScores, NextComplete, PTL DEF Spec

-----------------------------------------------------------------------------
(* The refinement: every step is one of SubmissionLifecycle or changes     *)
(* nothing it shows.                                                       *)

LEMMA SameShown ==
  ASSUME UNCHANGED rowVars \/ UNCHANGED <<status, answers, result>>
  PROVE  UNCHANGED Lifecycle!lifecycleVars
BY DEF rowVars, Lifecycle!lifecycleVars

LEMMA GivenUp ==
  ASSUME QueueInv, NEW s \in Submissions, Submitted(s), MarkGradingFailed(s)
  PROVE  Lifecycle!GiveUp(s) \/ UNCHANGED Lifecycle!lifecycleVars
<1>1. CASE status[s] \in Ungraded
  BY <1>1
  DEF MarkGradingFailed, Ungraded, Submitted, Lifecycle!GiveUp, Lifecycle!Becomes
<1>2. CASE status[s] \notin Ungraded
  BY <1>2, SameShown DEF MarkGradingFailed
<1>. QED
  BY <1>1, <1>2

LEMMA HumanRefines ==
  ASSUME QueueInv, NEW s \in Submissions, HumanStep(s)
  PROVE  Lifecycle!Next
<1>1. CASE SubmitAnswers(s)
  <2>1. answers' = [answers EXCEPT ![s] = @ + 1] /\ UNCHANGED <<status, result>>
    BY <1>1 DEF SubmitAnswers
  <2>2. answers \in [Submissions -> Nat]
    BY Constants DEF QueueInv, RowsTyped
  <2>3. [o \in Submissions |-> answers'[o] > 0] = [[o \in Submissions |-> answers[o] > 0] EXCEPT ![s] = TRUE]
    <3>1. \A o \in Submissions : (answers'[o] > 0) = (IF o = s THEN TRUE ELSE answers[o] > 0)
      <4>1. answers'[s] > 0
        BY <2>1, <2>2
      <4>2. \A o \in Submissions : o # s => answers'[o] = answers[o]
        BY <2>1, <2>2
      <4>3. (answers'[s] > 0) = TRUE
        BY <4>1
      <4>. QED
        BY <4>2, <4>3, Zenon
    <3>2. [[o \in Submissions |-> answers[o] > 0] EXCEPT ![s] = TRUE]
            = [o \in Submissions |-> IF o = s THEN TRUE ELSE answers[o] > 0]
      BY Zenon
    <3>3. [o \in Submissions |-> answers'[o] > 0]
            = [o \in Submissions |-> IF o = s THEN TRUE ELSE answers[o] > 0]
      BY <3>1, Zenon
    <3>. QED
      BY <3>2, <3>3, Zenon
  <2>4. Lifecycle!Submit(s)
    BY <2>1, <2>3 DEF Lifecycle!Submit
  <2>. QED
    BY <2>4 DEF Lifecycle!Next
<1>2. CASE Withdraw(s)
  <2>1. Lifecycle!Withdraw(s)
    BY <1>2 DEF Withdraw, Withdrawable, SetStatus, Lifecycle!Withdraw, Lifecycle!Becomes
  <2>. QED
    BY <2>1 DEF Lifecycle!Next
<1>3. ASSUME NEW new \in {"SELECTED", "GRADED", "DISQUALIFIED", "PENDING"}, Decide(s, new)
      PROVE  Lifecycle!Next
  <2>1. Lifecycle!Decide(s)
    BY <1>3 DEF Decide, SetStatus, Lifecycle!Decide, Lifecycle!Becomes
  <2>. QED
    BY <2>1 DEF Lifecycle!Next
<1>. QED
  BY <1>1, <1>2, <1>3 DEF HumanStep, UpdateSelectionStatus, ReviewAntiCheatFlag

LEMMA RunRefines ==
  ASSUME QueueInv, NEW w \in Workers, RunStep(w)
  PROVE  Lifecycle!Next \/ UNCHANGED Lifecycle!lifecycleVars
<1>. DEFINE s == run[w].sub
<1>1. s \in Submissions /\ Submitted(s)
  BY DEF RunStep, RunRead, RunMark, RunTask, RunNothing, RunRecord, QueueInv, RunShape, OnlySubmitted
<1>2. CASE RunRead(w) \/ \E t \in Tasks : RunTask(w, t)
  BY <1>2, SameShown DEF RunRead, RunTask, rowVars
<1>3. CASE RunMark(w)
  <2>1. CASE status[s] = "PENDING"
    <3>1. Lifecycle!StartGrading(s)
      BY <1>1, <1>3, <2>1 DEF RunMark, Ungraded, Submitted, Lifecycle!StartGrading, Lifecycle!Becomes
    <3>. QED
      BY <1>1, <3>1 DEF Lifecycle!Next
  <2>2. CASE status[s] # "PENDING"
    <3>1. status' = status
      BY <1>3, <2>2 DEF RunMark, Ungraded, QueueInv, RowsTyped
    <3>. QED
      BY <1>3, <3>1, SameShown DEF RunMark
  <2>. QED
    BY <2>1, <2>2
<1>4. CASE RunNothing(w)
  BY <1>1, <1>4, GivenUp DEF RunNothing, Lifecycle!Next
<1>5. CASE RunRecord(w)
  <2>1. CASE status[s] = "GRADING"
    <3>1. run[w].scores \in Scores \ {{}}
      BY <1>5 DEF RunRecord, QueueInv, QueueTyped, RunType
    <3>2. Lifecycle!Record(s)
      BY <1>1, <1>5, <2>1, <3>1 DEF RunRecord, Submitted, Lifecycle!Record, Lifecycle!Becomes
    <3>. QED
      BY <1>1, <3>2 DEF Lifecycle!Next
  <2>2. CASE status[s] # "GRADING"
    BY <1>5, <2>2, SameShown DEF RunRecord
  <2>. QED
    BY <2>1, <2>2
<1>. QED
  BY <1>2, <1>3, <1>4, <1>5 DEF RunStep

LEMMA FailureRefines ==
  ASSUME QueueInv, NEW f \in failures, OnFailed(f)
  PROVE  Lifecycle!Next \/ UNCHANGED Lifecycle!lifecycleVars
<1>1. f.sub \in Submissions /\ Submitted(f.sub)
  BY DEF QueueInv, QueueTyped, OnlySubmitted, FailureType
<1>2. MarkGradingFailed(f.sub) \/ UNCHANGED rowVars
  BY DEF OnFailed, GiveUp, Recover
<1>. QED
  BY <1>1, <1>2, GivenUp, SameShown DEF Lifecycle!Next

LEMMA StepRefines ==
  ASSUME QueueInv, [Next]_vars
  PROVE  [Lifecycle!Next]_Lifecycle!lifecycleVars
<1>1. CASE UNCHANGED vars
  BY <1>1, SameShown DEF vars
<1>2. CASE \E s \in Submissions : HumanStep(s)
  BY <1>2, HumanRefines
<1>3. CASE \E w \in Workers : RunStep(w)
  BY <1>3, RunRefines
<1>4. CASE \E f \in failures : OnFailed(f)
  BY <1>4, FailureRefines
<1>5. ASSUME NEW s \in Submissions,
             (\E w \in Workers : JobStart(w, s)) \/ BackoffOver(s) \/ JobStalled(s) \/ Sweep(s)
      PROVE  UNCHANGED rowVars
  BY <1>5 DEF JobStart, BackoffOver, JobStalled, Sweep
<1>6. ASSUME NEW w \in Workers, JobCompleted(w) \/ JobFailed(w) \/ WorkerDies(w) \/ WorkerLosesLock(w)
      PROVE  UNCHANGED rowVars
  BY <1>6 DEF JobCompleted, JobFailed, WorkerDies, WorkerLosesLock
<1>7. ASSUME NEW c \in calls, CallStep(c) \/ CallLost(c)
      PROVE  UNCHANGED rowVars
  BY <1>7 DEF CallStep, CallCheck, CallRemove, CallAdd, CallLost
<1>8. ASSUME NEW f \in failures, FailureLost(f)
      PROVE  UNCHANGED rowVars
  BY <1>8 DEF FailureLost
<1>. QED
  BY <1>1, <1>2, <1>3, <1>4, <1>5, <1>6, <1>7, <1>8, SameShown DEF Next

(* The pipeline implements SubmissionLifecycle: whatever the queue, the    *)
(* workers and the sweeper do, a status set by candidate, employer or      *)
(* admin stands, and a result is recorded only with its status.            *)
THEOREM LifecycleImplemented == Spec => ImplementsLifecycle
<1>1. Init => Lifecycle!Init
  <2>. SUFFICES ASSUME Init PROVE Lifecycle!Init
    OBVIOUS
  <2>1. \A s \in Submissions : (answers[s] > 0) = FALSE
    BY DEF Init
  <2>2. [s \in Submissions |-> answers[s] > 0] = [s \in Submissions |-> FALSE]
    BY <2>1, Zenon
  <2>3. status = [s \in Submissions |-> "PENDING"] /\ result = [s \in Submissions |-> {}]
    BY DEF Init
  <2>. QED
    BY <2>2, <2>3, Zenon DEF Lifecycle!Init
<1>. QED
  BY <1>1, QueueAlways, StepRefines, PTL DEF Spec, ImplementsLifecycle, Lifecycle!Spec
=============================================================================
