----------------------------- MODULE Background -----------------------------
(***************************************************************************)
(* What runs behind the requests: the settling of a payment, the job       *)
(* board's cache, the recommendation pass, the counting of visitors, the   *)
(* generation progress stream and the email queue.  As in People the parts *)
(* share no variable, and `active` picks the one that runs.  Submissions   *)
(* are also the jobs, Requests also the runs of the visitor sync.          *)
(***************************************************************************)
EXTENDS Payments

CONSTANTS
  Viewers, Embedded, Queries, Clients, MaxVersion,                         \* JobBoard
  Candidates, Fits, MinPerCandidate, MaxPerCandidate, Passes, MaxTime,     \* RecommendationPass
  Visitors, Pings, LastDay, MaxPings, MaxSyncs, DayKeyDays,                \* VisitorAnalytics
  RollingWindow, ChartedDays, MonthLength, YearMonths,
  Watchers, LastStage, MaxRuns,                                            \* ProgressStream
  Emails, Blocked, MaxAttempts, MaxStalls                                  \* EmailQueue

ASSUME QueriesAssumption ==
  Queries \subseteq [matching : SUBSET Submissions, applied : {"applied", "not-applied", "all"}]
ASSUME TimeAssumption == MaxTime \in Nat \ {0}
ASSUME BoundsAssumption ==
  /\ MaxVersion \in Nat /\ LastDay \in Nat \ {0} /\ MaxSyncs \in Nat /\ LastStage \in Nat /\ MaxRuns \in Nat
  /\ DayKeyDays \in Nat \ {0} /\ MaxAttempts \in Nat \ {0} /\ MaxStalls \in Nat
ASSUME VisitorsAssumption == IsFiniteSet(Visitors)
ASSUME CalendarAssumption ==
  /\ RollingWindow \in Nat \ {0} /\ ChartedDays \in Nat \ {0}
  /\ MonthLength \in Nat \ {0} /\ YearMonths \in Nat \ {0}

VARIABLES
  active,
  live, known, owed, version, cache, submitted, call,
  now, open, activatedAt, activating, eligible, applied, optedOut, embedded, runs, pass,
  recommended, notified, emailed, timely, covered, origin,
  today, hashes, touched, visiting, ping, activity, firstSeen, stats, sync, started, visited, counted, entered, missed,
  job, queued, signals, watch,
  state, attempts, stalls, accepted

-----------------------------------------------------------------------------
(* The parts besides payments.                                             *)

Board == INSTANCE JobBoard WITH Jobs <- Submissions

Recommend == INSTANCE RecommendationPass WITH Jobs <- Submissions, live <- open

Analytics == INSTANCE VisitorAnalytics WITH Syncs <- Requests

Stream == INSTANCE ProgressStream WITH runs <- queued

Email == INSTANCE EmailQueue

-----------------------------------------------------------------------------

paymentVars == vars
boardVars == <<live, known, owed, version, cache, submitted, call>>
recommendVars == <<now, open, activatedAt, activating, eligible, applied, optedOut, embedded, runs,
                   pass, recommended, notified, emailed, timely, covered, origin>>
analyticsVars == <<today, hashes, touched, visiting, ping, activity, firstSeen, stats, sync, started,
                   visited, counted, entered, missed>>
streamVars == <<job, queued, signals, watch>>
emailVars == <<state, attempts, stalls, accepted>>
allVars == <<active, paymentVars, boardVars, recommendVars, analyticsVars, streamVars, emailVars>>

BackgroundInit ==
  /\ active \in {"payments", "board", "recommend", "analytics", "stream", "email"}
  /\ Init /\ Board!Init /\ Recommend!Init /\ Analytics!Init /\ Stream!Init /\ Email!Init

BackgroundNext ==
  \/ active = "payments" /\ Next
     /\ UNCHANGED <<active, boardVars, recommendVars, analyticsVars, streamVars, emailVars>>
  \/ active = "board" /\ Board!Next
     /\ UNCHANGED <<active, paymentVars, recommendVars, analyticsVars, streamVars, emailVars>>
  \/ active = "recommend" /\ Recommend!Next
     /\ UNCHANGED <<active, paymentVars, boardVars, analyticsVars, streamVars, emailVars>>
  \/ active = "analytics" /\ Analytics!Next
     /\ UNCHANGED <<active, paymentVars, boardVars, recommendVars, streamVars, emailVars>>
  \/ active = "stream" /\ Stream!Next
     /\ UNCHANGED <<active, paymentVars, boardVars, recommendVars, analyticsVars, emailVars>>
  \/ active = "email" /\ Email!Next
     /\ UNCHANGED <<active, paymentVars, boardVars, recommendVars, analyticsVars, streamVars>>

(* The fairness of Payments, ProgressStream and EmailQueue, each while it  *)
(* is the part that runs.                                                  *)
BackgroundFairness ==
  /\ \A r \in Requests :
       WF_vars(active = "payments" /\ UnlockStep(r) /\ UNCHANGED payVars)
  /\ \A p \in Purchases :
       /\ WF_vars(active = "payments" /\ PollRead(p))
       /\ SF_vars(active = "payments" /\ PollRetrieve(p))
       /\ SF_vars(active = "payments" /\ PollSettle(p))
  /\ WF_streamVars(active = "stream" /\ Stream!Work)
  /\ WF_streamVars(active = "stream" /\ Stream!Deliver)
  /\ \A w \in Watchers : WF_streamVars(active = "stream" /\ Stream!Read(w))
  /\ \A e \in Emails : WF_emailVars(active = "email" /\ Email!Work(e))

BackgroundSpec == BackgroundInit /\ [][BackgroundNext]_allVars /\ BackgroundFairness

-----------------------------------------------------------------------------
(* The properties of the parts, stated where each is defined.              *)

(* Every variable of every part keeps its type.                            *)
BackgroundTypeOK ==
  /\ TypeOK /\ Board!TypeOK /\ Recommend!TypeOK
  /\ Analytics!TypeOK /\ Stream!TypeOK /\ Email!TypeOK

(* A page of the board has every wanted job that was live throughout its   *)
(* request and none that was live at no moment of it.                      *)
BoardIsCurrent == Board!BoardIsCurrent

(* No candidate is notified or emailed of the same job twice.              *)
NobodyIsToldTwice == Recommend!NobodyIsToldTwice

(* Each activation is read by a pass that succeeds, or one still may.      *)
EveryActivationIsCovered == Recommend!EveryActivationIsCovered

(* A report gives what was recorded, once the earlier days are synced, but *)
(* for what came after its day's sync or expired before it.                *)
ReportIsExact == Analytics!ReportIsExact

(* What must eventually happen is stated where its part runs: elsewhere    *)
(* the part stands still and owes nothing.                                 *)

(* A purchase Stripe was paid for is credited while its page is polled,    *)
(* without any webhook (getPurchase).                                      *)
EventuallyCredited == active = "payments" => PaidEventuallyCredited

(* A stream open while a generation runs learns how it ends.               *)
WatcherLearnsTheEnd == active = "stream" => Stream!WatcherLearnsTheEnd

(* A queued email is sent or given up after its attempts.                  *)
EmailIsSentOrGivenUp == active = "email" => Email!EmailIsSentOrGivenUp
=============================================================================
