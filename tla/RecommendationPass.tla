------------------------- MODULE RecommendationPass -------------------------
(***************************************************************************)
(* The job recommendation passes (src/modules/job-recommendations): each   *)
(* reads when the last successful pass began, recommends the jobs          *)
(* activated since then to the candidates they fit, and records how it     *)
(* ended.  Passes are scheduled on a queue; one whose worker lost its lock *)
(* is run again beside itself, a process may die in the middle of one, and *)
(* any await of one may fail.  Embeddings are what they decide: which      *)
(* candidate fits which job.                                               *)
(***************************************************************************)
EXTENDS Naturals, FiniteSets

CONSTANTS
  Candidates, Jobs,
  Fits,            \* <<candidate, job>>: similarity of at least minScore
  MinPerCandidate, \* jobRecommendationConfig.minPerCandidate
  MaxPerCandidate, \* jobRecommendationConfig.maxPerCandidate
  Passes,          \* 1 .. the number of passes ever run
  MaxTime          \* bound of the clock

VARIABLES
  now,
  live,        \* jobs that are ACTIVE
  activatedAt, \* jobs.activated_at, 0 while null
  activating,  \* activations in progress: [job, at]
  eligible,    \* candidates with a complete profile and a title
  applied,     \* <<candidate, job>> with a submission
  optedOut,    \* notification_preferences
  embedded,    \* candidates and jobs with an embedding
  runs,        \* job_recommendation_runs: [status, startedAt]
  pass,        \* where each run of runPass is, and what it has read
  recommended, \* job_recommendations
  notified,    \* in-app notifications written for each pair
  emailed,     \* emails that listed each pair
  timely,      \* history: [job, at] live since, with no pass begun before it was saved
  covered,     \* history: [job, at] read by a pass that succeeded
  origin       \* history: the latest starting point set by a first pass

world == <<now, live, activatedAt, activating, eligible, applied, optedOut>>
told == <<recommended, notified, emailed>>
vars == <<world, embedded, runs, pass, told, timely, covered, origin>>

Pairs == Candidates \X Jobs
Never == 0

-----------------------------------------------------------------------------
(* The rest of the system, as passes see it.                               *)

Tick ==
  /\ now < MaxTime
  /\ now' = now + 1
  /\ UNCHANGED <<live, activatedAt, activating, eligible, applied, optedOut, embedded, runs,
                 pass, told, timely, covered, origin>>

(* publish and a finished generation: the time is taken first and the row  *)
(* is updated later.                                                       *)
BeginActivation(j) ==
  /\ j \notin live /\ \A a \in activating : a.job # j
  /\ activating' = activating \cup {[job |-> j, at |-> now]}
  /\ UNCHANGED <<now, live, activatedAt, eligible, applied, optedOut, embedded, runs, pass,
                 told, timely, covered, origin>>

CommitActivation(a) ==
  /\ activating' = activating \ {a}
  /\ live' = live \cup {a.job}
  /\ activatedAt' = [activatedAt EXCEPT ![a.job] = a.at]
  /\ timely' = IF \A p \in Passes : runs[p].startedAt < a.at THEN timely \cup {a} ELSE timely
  /\ UNCHANGED <<now, eligible, applied, optedOut, embedded, runs, pass, told, covered, origin>>

(* Closing, and an admin setting the status, which leaves activated_at.    *)
Close(j) ==
  /\ j \in live
  /\ live' = live \ {j}
  /\ timely' = {a \in timely : a.job # j}
  /\ UNCHANGED <<now, activatedAt, activating, eligible, applied, optedOut, embedded, runs,
                 pass, told, covered, origin>>

Reopen(j) ==
  /\ j \notin live /\ activatedAt[j] # Never
  /\ live' = live \cup {j}
  /\ UNCHANGED <<now, activatedAt, activating, eligible, applied, optedOut, embedded, runs,
                 pass, told, timely, covered, origin>>

CompleteProfile(c) ==
  /\ c \notin eligible
  /\ eligible' = eligible \cup {c}
  /\ UNCHANGED <<now, live, activatedAt, activating, applied, optedOut, embedded, runs, pass,
                 told, timely, covered, origin>>

Apply(c, j) ==
  /\ c \in eligible /\ j \in live /\ <<c, j>> \notin applied
  /\ applied' = applied \cup {<<c, j>>}
  /\ UNCHANGED <<now, live, activatedAt, activating, eligible, optedOut, embedded, runs, pass,
                 told, timely, covered, origin>>

(* updateByToken.                                                          *)
SetPreference(c, on) ==
  /\ optedOut' = IF on THEN optedOut \ {c} ELSE optedOut \cup {c}
  /\ optedOut' # optedOut
  /\ UNCHANGED <<now, live, activatedAt, activating, eligible, applied, embedded, runs, pass,
                 told, timely, covered, origin>>

-----------------------------------------------------------------------------
(* runPass.                                                                *)

At(p, pc) == pass[p].pc = pc
Goto(p, pc) == pass' = [pass EXCEPT ![p].pc = pc]

StartPass(p) ==
  /\ At(p, "none") /\ \A q \in Passes : q < p => ~At(q, "none")
  /\ runs' = [runs EXCEPT ![p] = [status |-> "RUNNING", startedAt |-> now]]
  /\ Goto(p, "window")
  /\ UNCHANGED <<world, embedded, told, timely, covered, origin>>

StartsOf(q) == {runs[p].startedAt : p \in q}
Latest(times) == IF times = {} THEN Never ELSE CHOOSE t \in times : \A u \in times : u <= t

Succeeded == {p \in Passes : runs[p].status = "SUCCEEDED"}

(* Mutant: the latest pass that ended, however it did.                     *)
LastEndedStart == Latest(StartsOf({p \in Passes : runs[p].status \in {"SUCCEEDED", "FAILED"}}))

LastSucceededStart == Latest(StartsOf(Succeeded))

(* The first pass only sets the starting point.                            *)
ReadWindow(p) ==
  /\ At(p, "window")
  /\ pass' = [pass EXCEPT ![p].pc = "jobs",
                ![p].from = IF LastSucceededStart = Never THEN runs[p].startedAt
                            ELSE LastSucceededStart]
  /\ origin' = IF LastSucceededStart = Never THEN Latest({origin, runs[p].startedAt})
               ELSE origin
  /\ UNCHANGED <<world, embedded, runs, told, timely, covered>>

ActivatedBetween(from, to) == {j \in live : from < activatedAt[j] /\ activatedAt[j] <= to}
Stamped(jobs) == {[job |-> j, at |-> activatedAt[j]] : j \in jobs}

FindJobs(p) ==
  LET found == ActivatedBetween(pass[p].from, runs[p].startedAt) IN
  /\ At(p, "jobs")
  /\ pass' = [pass EXCEPT ![p].jobs = found, ![p].read = Stamped(found),
                          ![p].pc = IF found = {} THEN "finish" ELSE "sync"]
  /\ UNCHANGED <<world, embedded, runs, told, timely, covered, origin>>

(* syncCandidates, syncJobs; JobBoard models the invalidation that follows.*)
SyncEmbeddings(p) ==
  /\ At(p, "sync")
  /\ embedded' = embedded \cup eligible \cup pass[p].jobs
  /\ Goto(p, "match")
  /\ UNCHANGED <<world, runs, told, timely, covered, origin>>

(* findCandidateMatches: the best MaxPerCandidate of each candidate,       *)
(* nothing for one with fewer than MinPerCandidate.                        *)
Matching(p, c) ==
  {j \in pass[p].jobs \cap embedded : <<c, j>> \in Fits \ applied}

Kept(p, c, best) ==
  /\ best \subseteq Matching(p, c)
  /\ \/ best = Matching(p, c) /\ Cardinality(best) <= MaxPerCandidate
     \/ Cardinality(best) = MaxPerCandidate /\ best # Matching(p, c)

FindMatches(p) ==
  /\ At(p, "match")
  /\ \E best \in [Candidates -> SUBSET pass[p].jobs] :
       /\ \A c \in Candidates : Kept(p, c, best[c])
       /\ pass' = [pass EXCEPT ![p].pc = "optouts",
                     ![p].matches = {m \in Pairs : /\ m[2] \in best[m[1]]
                                                   /\ m[1] \in embedded \cap eligible
                                                   /\ Cardinality(best[m[1]]) >= MinPerCandidate}]
  /\ UNCHANGED <<world, embedded, runs, told, timely, covered, origin>>

ReadOptOuts(p) ==
  /\ At(p, "optouts")
  /\ pass' = [pass EXCEPT ![p].pc = "save", ![p].silent = optedOut]
  /\ UNCHANGED <<world, embedded, runs, told, timely, covered, origin>>

Bump(counts, pairs) == [m \in Pairs |-> IF m \in pairs THEN counts[m] + 1 ELSE counts[m]]
Notifiable(p, pairs) == {m \in pairs : m[1] \notin pass[p].silent}

(* Mutant: the upsert returns the rows that were there, too.               *)
SaveUpserts(p) ==
  LET toTell == Notifiable(p, pass[p].matches) IN
  /\ At(p, "save")
  /\ recommended' = recommended \cup pass[p].matches
  /\ notified' = Bump(notified, toTell)
  /\ pass' = [pass EXCEPT ![p].pc = "email", ![p].toTell = toTell]
  /\ UNCHANGED <<world, embedded, runs, emailed, timely, covered, origin>>

(* One transaction; onConflictDoNothing returns the rows it inserted.      *)
Save(p) ==
  LET toTell == Notifiable(p, pass[p].matches \ recommended) IN
  /\ At(p, "save")
  /\ recommended' = recommended \cup pass[p].matches
  /\ notified' = Bump(notified, toTell)
  /\ pass' = [pass EXCEPT ![p].pc = "email", ![p].toTell = toTell]
  /\ UNCHANGED <<world, embedded, runs, emailed, timely, covered, origin>>

(* sendEmails: one per candidate; a failure is logged.                     *)
SendEmail(p, c, fails) ==
  LET mine == {m \in pass[p].toTell : m[1] = c} IN
  /\ At(p, "email") /\ mine # {}
  /\ emailed' = IF fails THEN emailed ELSE Bump(emailed, mine)
  /\ pass' = [pass EXCEPT ![p].toTell = @ \ mine]
  /\ UNCHANGED <<world, embedded, runs, recommended, notified, timely, covered, origin>>

EmailsDone(p) ==
  /\ At(p, "email") /\ pass[p].toTell = {}
  /\ Goto(p, "finish")
  /\ UNCHANGED <<world, embedded, runs, told, timely, covered, origin>>

Ended == [pc |-> "ended", from |-> Never, jobs |-> {}, read |-> {}, matches |-> {},
          silent |-> {}, toTell |-> {}]

Finish(p) ==
  /\ At(p, "finish")
  /\ runs' = [runs EXCEPT ![p].status = "SUCCEEDED"]
  /\ covered' = covered \cup pass[p].read
  /\ pass' = [pass EXCEPT ![p] = Ended]
  /\ UNCHANGED <<world, embedded, told, timely, origin>>

(* An await rejects and the catch records it, or cannot, or the process    *)
(* dies: the row then says RUNNING for ever.                               *)
Fail(p, recorded) ==
  /\ pass[p].pc \notin {"none", "ended", "email"}
  /\ runs' = IF recorded THEN [runs EXCEPT ![p].status = "FAILED"] ELSE runs
  /\ pass' = [pass EXCEPT ![p] = Ended]
  /\ UNCHANGED <<world, embedded, told, timely, covered, origin>>

Die(p) ==
  /\ At(p, "email")
  /\ pass' = [pass EXCEPT ![p] = Ended]
  /\ UNCHANGED <<world, embedded, runs, told, timely, covered, origin>>

-----------------------------------------------------------------------------

NoRun == [status |-> "none", startedAt |-> Never]

Init ==
  /\ now = 1 /\ live = {} /\ activating = {} /\ activatedAt = [j \in Jobs |-> Never]
  /\ eligible = {} /\ applied = {} /\ optedOut = {} /\ embedded = {}
  /\ runs = [p \in Passes |-> NoRun]
  /\ pass = [p \in Passes |-> [Ended EXCEPT !.pc = "none"]]
  /\ recommended = {} /\ notified = [m \in Pairs |-> 0] /\ emailed = notified
  /\ timely = {} /\ covered = {} /\ origin = Never

PassStep(p) ==
  \/ StartPass(p) \/ ReadWindow(p) \/ FindJobs(p) \/ SyncEmbeddings(p) \/ FindMatches(p)
  \/ ReadOptOuts(p) \/ Save(p) \/ EmailsDone(p) \/ Finish(p) \/ Die(p)
  \/ \E c \in Candidates, fails \in BOOLEAN : SendEmail(p, c, fails)
  \/ \E recorded \in BOOLEAN : Fail(p, recorded)

Next ==
  \/ Tick
  \/ \E j \in Jobs : BeginActivation(j) \/ Close(j) \/ Reopen(j)
  \/ \E a \in activating : CommitActivation(a)
  \/ \E c \in Candidates :
       \/ CompleteProfile(c)
       \/ \E j \in Jobs : Apply(c, j)
       \/ \E on \in BOOLEAN : SetPreference(c, on)
  \/ \E p \in Passes : PassStep(p)

Spec == Init /\ [][Next]_vars

-----------------------------------------------------------------------------
(* Properties.                                                             *)

Stamps == [job : Jobs, at : 1 .. MaxTime]

TypeOK ==
  /\ now \in 1 .. MaxTime /\ live \subseteq Jobs /\ activating \subseteq Stamps
  /\ activatedAt \in [Jobs -> 0 .. MaxTime]
  /\ eligible \subseteq Candidates /\ optedOut \subseteq Candidates
  /\ applied \subseteq Pairs /\ recommended \subseteq Pairs
  /\ embedded \subseteq Candidates \cup Jobs
  /\ runs \in [Passes -> [status : {"none", "RUNNING", "SUCCEEDED", "FAILED"},
                          startedAt : 0 .. MaxTime]]
  /\ pass \in [Passes -> [pc : {"none", "window", "jobs", "sync", "match", "optouts", "save",
                                "email", "finish", "ended"},
                          from : 0 .. MaxTime, jobs : SUBSET Jobs, read : SUBSET Stamps,
                          matches : SUBSET Pairs, silent : SUBSET Candidates,
                          toTell : SUBSET Pairs]]
  /\ notified \in [Pairs -> Nat] /\ emailed \in [Pairs -> Nat]
  /\ timely \subseteq Stamps /\ covered \subseteq Stamps /\ origin \in 0 .. MaxTime

(* "Nobody is told about the same job twice", by notification or by email, *)
(* and only about a job that was saved for them: whatever failed passes    *)
(* are repeated and whatever passes overlap (saveAndNotify).               *)
NobodyIsToldTwice ==
  \A m \in Pairs : /\ notified[m] + emailed[m] > 0 => m \in recommended
                   /\ notified[m] <= 1 /\ emailed[m] <= notified[m]

(* "Each pass covers the jobs activated since the last successful pass, so *)
(* a pass that fails is covered by the next one": of two overlapping, dead *)
(* or failed passes none makes a job be missed that was saved as active    *)
(* before the pass that should find it began, that has stayed so, and that *)
(* is newer than the starting point of the first passes (runPass,          *)
(* lastSucceededStart, findJobsActivatedBetween).                          *)
EveryActivationIsCovered ==
  \A a \in timely : a.at > origin => a \in covered \/ a.at > LastSucceededStart

-----------------------------------------------------------------------------
(* Statements of the repository's own comments that the code does not keep *)
(* (README, "Known disagreements").                                        *)

(* job-recommendations.service.ts:57-58, the same words: a job is missed   *)
(* whose activation is saved after the pass has looked, or that is closed  *)
(* while it does.                                                          *)
LateActivationIsCovered ==
  \A j \in live : origin # Never /\ activatedAt[j] > origin =>
    [job |-> j, at |-> activatedAt[j]] \in covered \/ activatedAt[j] > LastSucceededStart
=============================================================================
