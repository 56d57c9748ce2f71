# GainDay backend: formal model

GainDay is a hiring platform. An employer describes a job, a pipeline of language models
generates a work simulation for it, candidates do the tasks, another pipeline grades what
they submit, and the employer spends credits to unlock the candidates worth talking to.
The backend is one NestJS program over PostgreSQL (Drizzle), Redis and BullMQ queues,
Stripe, and Gemini behind LangGraph. This directory holds TLA+ models of the parts whose
correctness depends on order: what happens when requests, workers, webhooks and crashes
meet between two statements of a handler.

Paths below are relative to `src/src/modules/` unless they start with `docs/` or `db/`.

## 1. Inventory

| component | state it keeps | operations | talks to |
|---|---|---|---|
| credits (`credits/`) | `credit_ledger_entries` (append only), `credit_purchases`, bonus settings | balance, `unlockSubmissions`, `grantPurchase`, `grantSignupBonus`, settings | payments, auth, submissions |
| payments (`payments/`) | none of its own; Stripe's sessions | `createPurchase`, `getPurchase` (reconciling poll), `handleStripeEvent` | Stripe, credits |
| submissions (`submissions/`) | `submissions`: status, answers, task scores, chat state | create, submit, withdraw, heartbeat, selection | grading, notifications, credits |
| staged chat (`submissions/staged-chat/`) | chat sessions inside the submission row | `getState`, `postReply`, mark incomplete | submissions |
| grading (`grading/`) | BullMQ queue, `submissions.status`, scores | `queueGrading`, `gradeSubmission`, `onFailed`, stall recovery, sweeper | BullMQ, Gemini, submissions |
| generation graph (`generation/graph`, `nodes`) | LangGraph state of one run | 9 nodes, 2 routers, progress tracker | Gemini, DB |
| generation queue (`generation/`) | BullMQ queue, `generation_review_items`, `simulations` | `queueGeneration`, `process`, progress stream | jobs, simulations, admin |
| jobs, simulations (`jobs/`, `simulations/`) | `jobs.status`, the task list | save, publish, close, delete, edit tasks | generation, board cache |
| job board (`jobs/job-board/`) | versioned ranking cache in Redis | list a page, rank, invalidate | jobs, embeddings |
| task templates (`generation/roles/`) | a task's table, key, checklist and gate | draw a case, solve it, store it | generation graph, scoring |
| anchors and scoring (`grading/anchors`, `objective`, `roll-up.ts`) | anchors in `question_bank`, task scores | generate and criticise anchors, grade by key, combine, roll up | grading |
| progress stream (`generation/generation-progress.service.ts`) | subscriptions in memory | watch a generation | BullMQ events |
| job recommendations | the runs and their starts, recommendations | scheduled pass | embeddings, notifications, email |
| admin (`admin/`) | review items, flags, manual statuses | approve, reject, uphold, overturn | submissions, simulations |
| auth, users | accounts, tokens, 2FA challenges in memory, profiles | register, verify, sign in, reset, 2FA, suspend, delete | credits (bonus), email |
| capability passport | capability scores, narrative | update, regenerate | grading |
| analytics | Redis counters, daily rows | track, sync, report | - |
| notifications, email | notification rows, email queue | enqueue, send | everything |
| reviews, support, ai, infrastructure | rows, clients, wiring | single statements | - |

Hard behaviours, and where they live:

- *Concurrency in the database.* Handlers are sequences of awaited statements, almost all
  outside a transaction. Only a row lock (unlocking), a unique index (ledger) or a guarded
  `UPDATE ... WHERE status = ...` (grading, review items) orders two of them.
- *Queues.* BullMQ ignores a job whose id exists, retries after a backoff, puts stalled
  jobs back, fails them, and reports failures as events some process may handle late.
- *Crashes.* A worker may die or lose its lock between any two steps; nothing in memory
  survives, everything written stays.
- *Unreliable delivery.* Stripe webhooks come late, repeatedly, out of order, or never.
- *Loops of model calls.* The generation graph repairs and retries under a superstep limit.

What makes each component correct is stated with its module below; what is hard to test
in each is listed under `hazards` in `PROJECT.json`, at its line.

## 2. Modules

| module | models | abstract specification |
|---|---|---|
| `CreditLedger` | ledger rows, the unlock transaction, the bonus, deletions | `CreditAccount` |
| `Payments` (extends `CreditLedger`) | purchases, Stripe, webhooks, the poll | `CreditAccount` |
| `PaymentsProofs` | theorems about `Payments` | |
| `SubmissionGrading` | status, queue job, runs, failed events, sweeper | `SubmissionLifecycle` |
| `GradingProofs` | theorems about `SubmissionGrading` | |
| `GenerationGraph` | one run of the LangGraph graph | `GenerationRun` |
| `GenerationProofs` | theorems about `GenerationGraph` | |
| `StagedChat` | the staged chats of one submission | `Transcript` |
| `JobPublication` | generation queue and processor, review, publish, edit, delete | sees a run as `GenerationRun` |
| `PublicationProofs` | theorems about `JobPublication` | |
| `Accounts` | registration, verification, resets, sign-in, admin codes, suspending | |
| `SubmissionIntake` | profile, applying, heartbeats, submitting, withdrawing, selecting, being told | |
| `TaskTemplates` | the cases of ten finance and customer service templates with their keys | |
| `Scoring` (extends `TaskTemplates`) | grading by key, categories, gates, roll-up | keys are solved again from the table |
| `GradingAnchors` | the anchors of a task, generated by concurrent workers | |
| `CapabilityPassport` | scores after each application, narrative cache, histories | |
| `JobBoard` | listing and the versioned ranking cache | |
| `RecommendationPass` | passes, windows, what is saved, notified and mailed | |
| `VisitorAnalytics` | pings command by command, sessions, keys and their expiry, daily sync, report | the report is what was recorded |
| `ProgressStream` | queue events, current state and their merge | |
| `EmailQueue` | jobs of the email queue up to the provider | |
| `MCPayments`, `MCGrading`, `MCGeneration`, `MCPublication` | instances, symmetry, bounds for TLC | |
| `People` | `StagedChat`, `Accounts`, `SubmissionIntake`, `Scoring`, `GradingAnchors`, `CapabilityPassport` side by side | |
| `ScoringProofs` | theorems about `TaskTemplates`, `Scoring` and the numbers of `CapabilityPassport` | |
| `PeopleProofs` (extends `ScoringProofs`) | theorems about the other parts of `People`, staged chats included | |
| `Background` | `Payments`, `JobBoard`, `RecommendationPass`, `VisitorAnalytics`, `ProgressStream`, `EmailQueue` side by side | |
| `BackgroundProofs` | theorems about the parts of `Background` | |
| `Sums` | lemmas about sums over sets, used by both | |
| `MCPeople`, `MCBackground` | their instances for TLC | |

The modules meet at rows: `CreditLedger` sees of a submission only what an unlock reads
(live, withdrawn, deleted), which `SubmissionGrading` models in full; `JobPublication` sees of a
generation run what `GenerationRun` promises (each slot a task or a review item, in order),
which `GenerationGraph` is checked to implement. In `SubmissionIntake` and `CapabilityPassport` a submission is
graded in one step, which is `RunRecord` of `SubmissionGrading`; `RecommendationPass` and `JobBoard` see of a job
whether it is live, and of its activation that the time is taken before the row is written, as in `JobPublication`.
`Scoring` takes each task from `TaskTemplates`, so that keys are checked by what grades with them.

### CreditLedger and Payments

A balance is never stored: `Balance(e)` is the sum of an employer's rows, so `ledger` is the set of
rows and a balance is the cardinality of the credit units less that of the debits. `unlockSubmissions`
(`credits/credit-ledger.service.ts`) is a READ COMMITTED transaction; its statements are the actions
`UnlockLock` (`SELECT ... FOR UPDATE` on the employer's profile), `UnlockFilter`, `UnlockCheckWithdrawn`,
`UnlockReadBalance` and `UnlockInsert`, and `Holders(e)` are the requests inside that lock. Inserting any
ledger row needs a key-share lock of the same profile row, so `GrantPurchase` and `BonusInsert` wait too;
withdrawing or deleting a submission does not. Deleting sets the row's reference to NULL. `UnlockAbort` is a
lost connection at any statement.

A purchase is created in two steps (Stripe session, then row). `session` and `events` are Stripe:
every event ever emitted stays deliverable, which covers late, repeated and reordered delivery; no fairness
on `Webhook` covers loss. `PollRead`, `PollRetrieve`, `PollSettle` are the three awaits of `getPurchase`.

`CreditAccount` says what this amounts to: an account topped up at most once per purchase (or signup) and
charged once per submission, within its balance.

### SubmissionGrading

One row per submission (`status`, version of the `answers`, `taskScores`, `result`), one BullMQ job
`grade-<id>` each (`job`: state, attempts, stalls, recoveries and the worker that holds its lock), the
`queueGrading` calls in progress (`calls`: check, remove, add), the failed events not handled yet
(`failures`), and the grading runs (`run`). `RunRead`, `RunMark`, `RunTask`, `RunRecord` and `RunNothing`
are the awaited parts of `gradeSubmission`; between any two of them candidates submit again or withdraw,
employers and admins decide, and workers die or lose their lock. A score is the pair of task and version of
the answers it was given for; its value is abstracted. `SubmissionLifecycle` is the promise: the pipeline only
moves a status forward and never over a decision taken meanwhile.

### StagedChat

`chats` is `submissions.staged_chats`, a record per task from its first reply on. A request is served in three parts
that others interleave with: the task is read (`PostReply`, `GetState`), the transaction holds the row's lock (`Replay`,
`Accept`: one step each, `DecideReply` is `decideReply`), and the answer travels (`Finish`, which is also every refusal). Any turn
and key may be posted, by any number of tabs and any number of times. `SubmitAnswers` sets `completed_at`;
`MarkOpenSessionsIncomplete` is a transaction of its own, and `SubmitDies` is a crash between the two. Texts are known by their keys; the only
branch evaluator never chooses a branch, so the messages of a chat are its turns. `Transcript` is the promise.

### GenerationGraph

The variables are the channels of `GenerationStateAnnotation` that routing depends on, `node` is the next node,
`steps` counts supersteps. Plans, contents and verdicts are choices of the step that asks a model;
`Throw` is any answer or query that fails. A candidate is its slot, attempt and type; a draft either has content or
not. `bar` is the progress tracker, with its rounding done in integers. `GenerationRun` is the promise used by
`JobPublication`: slots end once each, in order, as task or review item.

### JobPublication

One job: `job` (status), `simulation` (row and task list), `items` (review items by run and slot), `bull`
(the queue's job), `worker`, and the handlers of concurrent admins and employer requests with what each has
read. Reads and writes of a handler are separate actions, e.g. `PublishCheck`, `PublishLoad`, `PublishUpdate` for
`publishJob`, `ApproveMark`, `ApproveRead`, `ApproveWrite`, `Announce` for an approval. (`Announce` is one step: count, owner, mail. What
two admins race for is decided by the count.) `EditSave` saves any list of tasks the employer saw and of new ones, up to `MaxTasks`: `updateSimulationTasks`
and its validator limit the number and refuse some lists, but do not look for an id sent twice, so a list may hold a task twice. `repeated`
remembers that one did; `TaskIdsAreUnique` is about what approvals and runs add before that, and that an employer may send one twice is
listed in section 6. `UpdateJobStatus` sets any status of `jobStatusEnum`, `GENERATING` included, since the controller takes `status: any`.

### Accounts

`users` is the row of each email, `challenges` the map `admin2faChallenges` in the memory of the process (`Restart` empties it), `mailed`
the emails queued, `sessions` the users a JWT was signed for. A handler is its check (`Register`, `RequestReset`,
`ResetPassword`, ...) and its writes (`RegisterCommit`, `IssueReset`, `UpdatePassword`, ...), with any other request in between, and
`RequestFails` at any await. `spent` remembers the links an account had when its password was set. Two resets that overlap may both find the token before either
clears it, and both set a password; `SpentResetLinkIsRefused` is about the resets that begin afterwards. Tokens are fresh, live or expired (`TokenAges`, `ChallengeAges`); a random token or code is a number never
given out before. `Authenticated` and `Admitted` are what `jwt.strategy.ts` and the guard let in.

### SubmissionIntake

One candidate and one job. `Apply`, `ApplyReadJob`, `ApplyReadWithdrawn`, `ApplyInsert` are the reads and the insert of
`createSubmission`; `SubmitAnswers` and `SaveAnswers` read and overwrite the row with the integrity events; `UpdateSelectionStatus`, `SelectionWrite`
and `NotifySelected` are a selection. `silent` keeps the submissions whose notification failed, since nothing repeats it.

### TaskTemplates and Scoring

A template is a definition that, for the raw inputs the model may write, gives the table shown, the key, the checklist and the gate, or rejects them
(`Build`). Money is in tenths of a cent, percentages in hundredths of a percent and units sold in thousandths, since the schemas accept fractions of a cent and
of a unit. The key is computed from the raw figures, the table shows them rounded (`Shown` is `formatAmount` down to `MinorUnit`, the
smallest amount the currency is written in, `ShownUnits` is `formatNumber`); `exact` says that nothing was changed by rounding, and `told` holds what the
wording of a line tells and no column shows (the kind of an item, the treatment of a transaction). Binary floating point is not modelled, and a
currency without minor units is shown without decimals, whatever the comment at `finance-format.ts:26` says. `Materialize` draws a case, `Submit` an answer from `Responses` (the key, near misses, permuted and missing parts), and
`GradeObjective` and its graders are `objective-grader.ts`. `CombineCategoryScores`, `CategoryAverage`, `WeightedSum` and
`RollUp` give the stored numbers. `RightParts` is the reference: it solves the case again from the table and what is told, never from the key;
`KeyAgreesWithTheCase` compares the two when the table is `exact`, because a rounded table and an exact key do disagree (`ReconciliationIsExact`, section 6). The charts of two
templates show their figures unrounded; the model shows those rounded too, which only excludes more cases.

### GradingAnchors and CapabilityPassport

`row` is the question bank row of a task; a worker that found no anchors drafts, checks and criticises up to `MaxAttempts` sets and saves one.
`CapabilityPassport` keeps the completed submissions of a candidate in order; `ScoreHistory` is
`capabilityScoreHistory` with a half-life as the unit of time and weights scaled to stay whole. A reader loads the
submissions, asks for the narrative and may generate one, while `Grade`, `ReviewAntiCheatFlag` and `SubmitAnswers` go on; `Publish` and
`WorkerDies` are what follows a grading.

### JobBoard

`owed` are the calls of `invalidateAll` still to come after a write. A request reads the live jobs, the version, the cached ranking, ranks, reads the version again (`StampRanking`), stores,
and answers; each Redis call may fail. `always` and `ever` are history: what was live while it ran. A page's order and cut are abstracted to its set of jobs.

### RecommendationPass, VisitorAnalytics, ProgressStream, EmailQueue

A pass is `StartPass`, `ReadWindow`, `FindJobs`, `SyncEmbeddings`, `FindMatches`, `ReadOptOuts`, `Save` (one transaction), `SendEmail` and
`Finish`, and any number may run at once, fail or die. An activation takes its time first (`BeginActivation`) and is saved later (`CommitActivation`).

`VisitorAnalytics` has the Redis hashes of each day, the visits in progress, the rows and totals in PostgreSQL, pings and syncs in steps
of one command or transaction. The pipeline of a ping is no transaction: `WriteAudience`, `CountView`, `CountSession` and `ExpireKeys` are its commands, others come between them, and it may break
off after any (`LosePing`). `touched` is the day the keys were last given their lifetime of `DayKeyDays` (7 in `analyticsConfig`); `DayExpires` forgets a day that is
due, synced or not, before the next midnight; its four keys expire together, and lifetimes are whole days. `missed` remembers what no report can have: pages counted after the
sync of their day, and days that expired before any sync saved them. `Report` is `getReport`, read as of one moment; a month is `MonthLength` days and a year `YearMonths` months.

`ProgressStream` is the BullMQ job, the events on their way (`signals`) and what each watcher has got; `Open` subscribes before the
current state is read (`GetJob`, `GetState`). `EmailQueue` counts attempts and stalls of each job and how often the provider accepted it.

## 3. Runs

| run | instance | shows |
|---|---|---|
| `payments_safety` | 1 employer, 2 submissions, 2 concurrent unlocks, 1 purchase, bonus 0 or 1 | `BalanceNonNegative`, `FundedUnlockStillValid`, `AnsweredUnlockIsPaid`, `SucceededIffCredited`, `AuditTrail`, `ImplementsCreditAccount` |
| `payments_withdraw_race` | 1 request | violation of `WithdrawnIsNeverCharged` |
| `grading_safety` | 2 workers, 2 tasks, 2 versions, 2 attempts, 1 recovery, lock loss, 2 troubles | `TypeOK`, `OneRunPerSubmission`, `ResultIsExplained`, `ResultIsComplete`, `ImplementsLifecycle` |
| `grading_liveness` | 1 worker, 2 versions (the first without a gradable task), 1 attempt, 1 recovery, 1 decision, 1 mishap, fair | `SubmittedLeavesGrading` |
| `grading_failed_early` | 1 worker, 2 versions | violation of `FailedMeansNoAttemptsLeft` |
| `generation_safety` | 3 slots, 3 attempts, 4 types, 2 of them with a spec | `LimitNeverReached`, `RetryIsFresh`, `ProgressIsTruthful`, `ImplementsRun` |
| `publication_safety` | 1 slot, 2 tasks, 2 admins, 2 employer requests, 2 runs, 1 edit of any list, any manual status, runs may fail | `TaskIdsAreUnique`, `ServedIsApproved`, `LastResolutionIsAnnounced` |
| `publication_liveness` | 3 runs, 2 calls, 1 crash, failing runs and approvals, any manual status, fair | `GenerationEnds` |
| `publication_missing` | 2 slots, 2 admins | violation of `ApprovedTaskIsServed` |
| `reset_link_expiry` | 1 account, 1 client | violation of `ResetLinkLastsAsMailed` |
| `people` | six parts, below | staged chats: `AnsweredIsStored`, `ClosedIsMarked`, `ImplementsTranscript`; accounts: `CodeOpensOneSession`, `SpentResetLinkIsRefused`; applications: `SelectedWasTold`, `ApplicantsHaveTitle`; scoring: `KeyAgreesWithTheCase`; anchors: `AnchorsPassTheirChecks`; passport: `HistoriesAgree`, `NarrativeFitsNumbers`; and `PeopleTypeOK` |
| `background` | six parts, below, fair | payments: `EventuallyCredited`, without any webhook; board: `BoardIsCurrent`; recommendations: `NobodyIsToldTwice`, `EveryActivationIsCovered`; analytics: `ReportIsExact`, through failed syncs, broken-off pings and an expiring day; stream: `WatcherLearnsTheEnd`; email: `EmailIsSentOrGivenUp`; and `BackgroundTypeOK` |

### Several parts in one run

The parts of `People`, and those of `Background`, share no variable: what one does neither enables nor changes anything in
another, so an interleaving of two shows nothing that each does not show alone. The variable `active` picks one part in the initial state, only that part moves, and
the others stay where they start. The run explores the sum of the parts' states instead of their product, and every behaviour of each
part is in it. A property of a part names only that part's variables; the conditions of fairness and the properties of liveness carry `active`, since a part that stands still owes nothing.
Interactions between components are inside modules, at the rows they share, and not in these two. The two theorems `PartsRunAlone`
(section 5) make the argument exact in one direction: a behaviour of the composition is a behaviour of each part.

### Bounds and why they are enough

- *Payments.* Two requests for overlapping sets of two submissions and a balance of 0 to 2 give every race between
  two unlocks, and between an unlock and a grant; the theorems of section 5 remove these bounds for safety.
- *Grading.* One submission: submissions share nothing but workers. Two workers are what a run that lost its lock and its
  successor need; a third would repeat the second. `MaxMishaps` (crashes, lost locks, lost calls),
  `MaxVersions` (submits) and `MaxDecisions` bound the environment. `FewPending` bounds the `queueGrading` calls
  and failed events waiting at a time to `MaxPending`; the liveness run has no such constraint. In
  `FirstTaskFirst` the first version covers one task and the second both, so that a result can be incomplete; in `NothingFirst` the first
  covers none, so that there is nothing to grade.
- *Generation.* Three slots give a first, a middle and a last one, three attempts a first, a middle and a last one;
  production has four slots of three attempts (`src/src/config/ai.config.ts`). Theorem `StepsBounded` removes the bound for the recursion limit.
- *Staged chat.* Two chats share the row and its lock; three turns are the fewest the generator may choose and give a first, a middle and a
  last; two requests are a retry racing its original, or two tabs. The theorems remove every one of these bounds.
- *Publication.* Two runs leave items of an earlier run behind; two admins and two employer requests give each check-then-act a partner. One edit
  meets an approval, a run or a deletion; two tasks are the fewest of which one can be there twice.
  A job somebody sets to `GENERATING` with no run to come stays there, which nothing in the code would end: `GenerationEnds` is about runs waiting or under way.
  Announcements do not fail in these runs (`Faults`).
  `MaxRuns`, `MaxCalls`, `MaxEdits`, `MaxCrashes` bound the environment; in the liveness run `MaxRuns` is at least `MaxCalls` +
  `MaxCrashes`, so that the bound never keeps a waiting job from starting. `Interchangeable` and `WorkerSymmetry` permute values no action
  distinguishes; runs with liveness use no symmetry.
- *People*. Two requests at a time everywhere: each race of the properties is between two. One email with up to four rows, tokens
  and codes and four requests gives a deletion and a registration again, a resent code, a second link. One row and six requests give an
  application from profile to selection with a reversal. Two slots, one of finance and one of customer service, reach every template; amounts,
  tickets and interviews are chosen so that each rejects some inputs and each key has near misses on both sides of its tolerance; one of the `Figures` is of half a
  cent, and `MinorUnit` is a cent. Six drafts of anchors break
  each check once and pass all of them once. Two submissions and one half-life give an order, a regrading and a stale narrative.
- *Background*. One purchase, one submission, two requests. One job, a guest and a candidate with an embedding, two
  invalidations: an old version, the current one and the next. One candidate, one job, three passes and two moments: a first pass, one that fails and the
  one after it, the closed and reopened job. One visitor, two days, two pings and two syncs, keys that live a day: a ping
  crosses midnight, a sync is repeated or overtaken, and a day expires before, while and after it is synced. `RollingWindow` and `MonthLength` are 1, `ChartedDays` and `YearMonths` 2, so
  that the first day is inside one window and outside another; `ReportExact` (section 5) is for any lengths. Two runs of two stages; three attempts and one stall of an email, the
  production values of `email-queue.service.ts` and BullMQ.
- Deadlock is checked for payments. In the other modules the bounded environment does end: a generation run is done, a candidate submits no
  more, requests run out.

## 4. Fairness

- *Payments*: a request being served goes on (`UnlockStep`; Node finishes what it started and PostgreSQL
  grants the row lock), and the employer's page keeps polling a pending purchase until Stripe's API
  answers, which is what `getPurchase` is written for. Nothing is assumed of webhooks.
- *Grading*: runs and handlers finish unless their process dies, BullMQ hands out waiting jobs, promotes delayed and
  checks stalled ones, the sweeper is scheduled. Nothing is assumed of people, errors or crashes; crashes are finitely many.
- *Publication*: the worker takes waiting jobs and goes on with its run; inserting tasks of a deleted job throws.
  Requests of admins and employers carry no fairness.
- *Progress stream*: the worker ends the run it holds, the one listener reads the next event, a read of the job returns. Nothing is
  assumed of clients, who may leave and come back.
- *Email*: a waiting job is taken, a call to the provider returns, a backoff ends. Deaths of workers are bounded by `MaxStalls`.
- In `background` each of these holds while its part is the active one.

## 5. Proofs

Every theorem is about the specification the runs check, for every value of its constants: any number of employers, candidates, workers,
admins, requests, slots and tasks, and any bound. `TypeOK` of `Payments`, `GenerationGraph` and `StagedChat`, `RoutedByVerdict`,
`TranscriptInOrder`, `NoFutureMessage` and `ResolutionIsFinal` are proved and so are not in a run of their own. Where an invariant is not inductive, what has to be
added to it is the interesting part; it is named below.

| module | theorem | states | rests on |
|---|---|---|---|
| `PaymentsProofs` | `TypeCorrect`, `LockInvariant` | types; `LockInv` | |
| | `NeverOverspent`, `UnlockNeverStale` | `BalanceNonNegative`, `FundedUnlockStillValid` | `LockInv` |
| | `LedgerIsAppendOnly` | `AuditTrail` | types |
| | `AnswersArePaidFor`, `CreditedOnce` | `AnsweredUnlockIsPaid`, `SucceededIffCredited` | `AccountInv` |
| | `AccountImplemented` | `ImplementsCreditAccount` | `AccountInv` |
| `GenerationProofs` | `StepsBounded`, `VerdictsRespected`, `GenerationTyped` | `LimitNeverReached`, `RoutedByVerdict`, types | `ControlInv`, `TypeInv` |
| | `RetriesAreFresh` | `RetryIsFresh` | `RetryInv` |
| | `RunImplemented` | `ImplementsRun` | `OrderInv` |
| | `ProgressFollowsSlots` (at most 25 slots) | `ProgressIsTruthful` | `ProgressInv` |
| `GradingProofs` | `GradingTyped`, `OneRunAtATime` | types, `OneRunPerSubmission` | `QueueInv` |
| | `ResultsExplained`, `ResultsComplete` | `ResultIsExplained`, `ResultIsComplete` | `ScoresInv`, `RunKeepsResult` |
| | `LifecycleImplemented` | `ImplementsLifecycle` | `QueueInv`, `ScoresInv` |
| `PublicationProofs` | `TaskIdsUnique` | `TaskIdsAreUnique` | `OnceInv`, `ListsInv`, `ItemsInv`, `RunInv` |
| | `ServedTasksAreApproved` | `ServedIsApproved` | `ListsInv` |
| | `ResolutionsStand` | `ResolutionIsFinal` | types |
| | `LastResolutionAnnounced` (approvals do not throw) | `LastResolutionIsAnnounced` | `ToldInv` |
| `PeopleProofs` | `ChatTyped`, `RepliesInOrder` | types, `TranscriptInOrder` | each other |
| | `AnswersAreTrue`, `FutureIsHidden`, `ClosingMarks` | `AnsweredIsStored`, `NoFutureMessage`, `ClosedIsMarked` | `AllHonest` |
| | `TranscriptImplemented` | `ImplementsTranscript` | types, order |
| | `AuthIsTyped`, `CodeOpensOnce`, `SpentLinksAreRefused` | types, `CodeOpensOneSession`, `SpentResetLinkIsRefused` | `CodeInv`, `ResetInv` |
| | `IntakeIsTyped`, `ApplicantsTitled`, `SelectedTold` | types, `ApplicantsHaveTitle`, `SelectedWasTold` | `TitleInv`, `SelectionInv` |
| | `AnchorsChecked`, `NarrativesFit` | `AnchorsPassTheirChecks`, `NarrativeFitsNumbers` | `AnchorsKept`, `PassportInv` |
| | `PartsRunAlone` | `PeopleSpec` implies the specification of each part | |
| | `PeopleTyped` | `PeopleTypeOK` | the types of the parts |
| `ScoringProofs` | `KeysRight` | `KeyAgreesWithTheCase` | `ScoringInv` |
| | `ScoresTyped` | types of `Scoring`: every score is out of 100 | `ScoringInv` |
| | `PassportIsTyped`, `HistoriesAlike` | types of `CapabilityPassport`, `HistoriesAgree` | `PassportTyped` |
| `BackgroundProofs` | `PagesAreCurrent` | `BoardIsCurrent` | `BoardInv` |
| | `ToldOnce`, `NoActivationMissed` | `NobodyIsToldTwice`, `EveryActivationIsCovered` | `RecommendInv` |
| | `HistoryIsKept`, `ReportExact` | `HistoryInv`, `ReportIsExact` | `HistoryInv`, `AnalyticsInv` |
| | `BackgroundTyped`, `PartsRunAlone` | `BackgroundTypeOK`; as for `People` | `EmailInv`, `StreamInv`, `AnalyticsInv` |

### The inductive invariants

- *Payments.* `LockInv`: the rows are finitely many (`Countable`), at most one request is inside an employer's lock (`OneHolder`), what a
  request filtered is still not unlocked (`FreshNotUnlocked`), what it found covered still is (`FundedCovered`), no balance is negative.
  That the balance read two statements earlier still holds at the `INSERT` is exactly what the lock gives. `AccountInv` adds that a row's id is older than the
  next and names what the row is for, and that an unlock row loses its submission only to a deletion (`RowsSound`), what an answered request was told stays true (`ServedInv`), and a
  purchase has its row exactly when it `SUCCEEDED` (`PurchasesSettled`). `CreditAccount` then sees one step of one employer, or none.
- *Generation.* `ControlInv` bounds the supersteps by `2 + slot * (3 A + 1) + 3 attempt + position of the node` for `A` attempts: repairing
  costs two supersteps an attempt, retrying three, so no mixture reaches `generationRecursionLimit` before its last node. `RetryInv`: what lies
  in the pool is not ahead of the attempt, so a new draft is not in `tried`. `OrderInv`: as many slots have ended as the node position says.
  `ProgressInv` ties the bar to that number; beyond 25 slots the percentage, rounded, reads 95 before the last slot ends, so the
  theorem says so (the code has 4, `src/src/config/ai.config.ts`).
- *Grading.* `QueueInv`: a run in progress and a job's lock determine each other as long as no lock was lost (`LocksMeanRuns`, `RunsHoldLocks`), each
  run has what its statement needs (`RunShape`), nothing unsubmitted is queued. Hence two runs of one submission need a lost lock. `RunKeepsResult` is what makes
  `ResultIsExplained` inductive: while a run holds the lock, its scores already contain those behind the recorded result.
- *Publication.* `ListsInv`: every list of tasks, stored or in the hands of a request, has a review task only if it was approved and nobody is still about to
  add it, and an employer's own only if its edit has begun. `OnceInv`: each id is in each such list once, until the employer saves one twice. `ItemsInv`: items exist only for slots a run has been past. `ToldInv`: the
  owner was told, or an item is pending, or an admin who will tell is still at work; it needs that approvals do not throw (`"approval" \notin Faults`), and section
  6 says what happens when they do.
- *Staged chat.* Types and order (`Inv`) are inductive only together: that an accepted turn is the next one follows from COMPLETE being exactly "all turns
  answered". `AllHonest`: what an answer claims is true when computed, and stays so because stored replies never change.
- *Accounts.* `CodeInv`: a code in the map has opened nothing, and one that a request is about to admit is gone from the map and held by that request alone: `delete` on the map is
  atomic, and what comes before it does not matter. `ResetInv`: a spent token is on no row, no two rows hold one token, and if a row holds the
  token a request resets by, it is the row of the user (by `id`) that the request read and is about to write.
- *Applications.* `TitleInv`: complete implies titled, an update about to write complete brings a title or there is one, and an application past the
  check of the profile finds one; titles are never removed. `SelectionInv`: selected implies told, being told, or a request that failed.
- *Anchors, passport.* `AnchorsKept`: the row, what every worker carries and what every answer was graded with are anchors that passed both checks, or
  none. `PassportInv` adds only the type of the readers: `NarrativeFitsNumbers` is inductive.
- *Recommendations.* `RunsInv`: a run row and its pass agree, and the successful starts have a latest one. `ToldInv`: what a pass still has to mail is recommended, was notified once, was
  not mailed, and is so for no other pass, because `ON CONFLICT DO NOTHING` returns a pair to one pass only. `CoverInv`: a pass looks back at least to the latest success it read (`LooksBack`), and one that has looked has seen all that was saved as
  active in its window (`HasLooked`).
- *Scoring.* `ScoringInv` says which fields are set in which phase and, of the open task, `KeyIsRight`: every answer of `Responses` earns
  the parts that solving the case again gives. It is established where a task is drawn, by one lemma for each of the fourteen templates
  (`ReconciliationKey`, `VarianceKey`, `TicketTriageKey`, ...), and nothing writes the task until it is dropped. The hard ones are those whose key is not a number: matching journal
  lines one by one finds a pairing exactly when there is one, taking the first match each time (`MatchesIsPairing`); the two questions of the diagnostic key are
  the only pair that tells every two suspects apart (`SeparatingIsTellingApart`). `ScoresTyped` needs that weights that sum to 100 average
  scores out of 100 to a score out of 100, rounding included.
- *Passport numbers.* `PassportTyped`: completion times follow the order, each submission is in it once, and whatever has scores is in it. The application's own page selects
  by domain first and the passport by what counts; when the domain is the only one the two selections are prefixes of each other, and a score depends only on the prefix up to it.
- *Analytics.* `HistoryInv`: as long as nothing is counted after its day was synced and no day expires before it is, a day is told by Redis until it is saved and by PostgreSQL from then on, a sync has every earlier
  unsaved day before it, and `firstSeen` of a visitor is the earliest saved day with a page of theirs. That a pipeline breaks off leaves hashes that agree with what reached Redis (`CommandWritten`); that
  expiry is harmless once a day is saved is `ExpiryKeeps`. `ReportExact` then compares sums of days, of months and of windows.
- *Board.* `BoardInv`: the jobs a request has read lie between `always` and `ever`, whatever ranking it got from the cache, since the ranking only orders them.

The proofs rest on the named assumptions of the modules, which TLC evaluates: owners and buyers are functions, packs are positive, NULL and the
idle values are not members of the sets they stand beside, submissions and visitors are finitely many, there is a slot, an attempt, a turn and a day, bounds are naturals and the keys of a day live at least a day (`BoundsAssumption`,
`CalendarAssumption`), grading gives scores out of 100 (`PassportAssumption`, `ScoringAssumption`; the response schemas enforce it), and the raw inputs of a task have the shape that the
model's output schema has: amounts are positive, a queue and an interview are not empty, every suspect answers every question. In
`SubmissionGrading` and `JobPublication` the same bounds are used by the runs; no assumption restricts an interleaving.

### Only model-checked

- Liveness: `EventuallyCredited`, `SubmittedLeavesGrading`, `GenerationEnds`, `WatcherLearnsTheEnd`, `EmailIsSentOrGivenUp`. They rest on fairness and so on ENABLED, which
  the prover does not treat.
- The findings and disagreements of section 6.

Every safety invariant and action property of the passing runs is thus proved as well. Where a definition computes over data of any length (the sums of a report, the
selections and weights of a history, the matching of journal lines), it is a fold or a recursive function, and what it computes is shown by a smallest
counterexample: `Sums` takes it among finite sets (`WFMin` of the library), `LeastNumber` among lengths. One theorem stays bounded by what the model enumerates: `KeysRight` is
about the answers of `Responses` and the cases shown exactly, not about every answer the response schemas accept; `ScoreIsOutOfHundred` (section 6) is why the difference matters.

Proving `ScoresTyped` showed a guard missing from an earlier version of `RollUp`: with no result the averages divide by zero, and the code never gets there, since
`gradeSubmission` fails a submission with nothing gradable before it is rolled up (`grading/grading.service.ts:342`).

## 6. Known disagreements

Findings with a run of their own (the trace is TLC's):

- `payments_withdraw_race`: an unlock reads the withdrawn submissions without locking them, so a candidate who withdraws before the
  `INSERT` is charged for, which the comment above the check rules out.
- `grading_failed_early`: the failed event of a replaced job marks the submission `GRADING_FAILED` while the new job has all its attempts.
- `reset_link_expiry`: the mail says a reset link is valid for 24 hours (`expiryHours: 24`), the code refuses it after one.
- `publication_missing`: an approved task is lost when the run stores its tasks after the approval, or two approvals write back at once.

These are stated at the end of their modules and are refuted as easily, each with the instance named here:

| statement | says who | how it fails |
|---|---|---|
| `SettledEventuallyLeavesPending` (`Payments`, fair) | comment on `getPurchase` | a bank payment fails, its webhook is lost: the poll knows only paid and expired |
| `WithdrawnIsPermanent` (`SubmissionGrading`) | "Permanent." on `withdraw` | selecting, deselecting or overturning a flag writes a status by id alone |
| `TaskTypesAreUnique` (`GenerationGraph`) | `generation/schemas/task-candidate.schema.ts:35` | a retry of one slot takes the candidate planned for the next, which then uses it again |
| `MarkedOnceClosed` (`StagedChat`) | `docs/gainday-customer-service-role-simulation-research.md:128` | the process dies between closing the submission and marking its chats |
| `InvalidInputsAreRepaired` (`GenerationGraph`) | `docs/gainday-generation-pipeline.md:165` | a draft without content is retried with another candidate, never repaired |
| `LiveNeverAwaitsReview` (`JobPublication`) | comment at `generation/generation.processor.ts:67` | published between the count and the update, or items of a failed run stay pending |
| `AtMostMaxTasks` | message at `simulations/simulations.service.ts:84` | an approval appends to a full list |
| `OnlyFirstMoveNotifies` | comment at `jobs/jobs.service.ts:144` | closed and published again, or published twice at once |
| `LiveJobIsNotDeleted` | message at `jobs/jobs.service.ts:230` | published between the check and the delete |
| `QueuedIsWaiting` | comment at `generation/generation.service.ts:93` | a completed BullMQ job is kept, so the new one is ignored |
| `LiveLinkIsReused` (`Accounts`) | comment at `auth/auth.service.ts:543` | two resends at once, the later one read no live token and replaces the one just mailed |
| `CompleteOnceTitled` (`SubmissionIntake`) | comment at `users/job-seeker-profile.service.ts:75` | an update that read no title writes after the one that set it |
| `WithdrawnMayNotReapply` (2 submissions) | comment at `submissions/submissions.service.ts:105` | withdrawn between the check and the insert of a second application |
| `OneNoticePerTransition` | comment at `submissions/submissions.service.ts:345` | two selections read the status before either writes it |
| `OneYardstick` (`GradingAnchors`) | comment at `grading/grading.service.ts:65` | two workers find no anchors, the later save replaces those already graded with |
| `ScoreIsOutOfHundred` (`Scoring`) | comment at `grading/objective/objective-grader.ts:14` | a multi-select answer that repeats a right option counts it twice |
| `ReconciliationIsExact` (`MinorUnit` of 1000, yen) | comment at `generation/roles/finance/templates/reconciliation.template.ts:74` | the amounts are shown rounded to the currency's smallest, and what is shown no longer adds up |
| `ChecklistFollowsPolicy` | comment at `generation/roles/customer-service/templates/de-escalation-reply.template.ts:25` | the checklist demands that a threatened bad review be passed on, the policy tab does not mention it |
| `NoRankingOutlivesItsEmbeddings` (`JobBoard`, 2 jobs) | comment at `jobs/job-board/job-board-cache.service.ts:59` | a ranking computed before the invalidation is stored under the version after it |
| `LateActivationIsCovered` (`RecommendationPass`) | comment at `job-recommendations/job-recommendations.service.ts:57` | the activation is timed before a pass starts and saved after it has looked |
| `ZeroSessionsIsTrue` (`VisitorAnalytics`) | comment at `analytics/analytics-sync.service.ts:75` | a ping after the day's keys were deleted makes a new, nearly empty hash that overwrites the row |
| `UnsyncedDayHadNoVisitors` | comment at `analytics/analytics-report.service.ts:131` | between midnight and the sync, after a failed sync, and for good when every sync fails until the keys expire |
| `CurrentComesFirst` (`ProgressStream`) | comment at `generation/generation-progress.service.ts:87` | a live event arrives while the current state is read |

Three statements that nobody makes, but that a reader may expect, do not hold either (end of `CapabilityPassport`):
`NarrativeFitsScore` (a narrative is renewed when the recent submissions change, the score also when an older one does), `SameResultNeverLowers` (with 3 submissions:
earlier results fade and the prior does not, so one more result as good as all before may lower the score) and `GradedIsPublished`
(a worker that dies after `RunRecord` never writes the profile's scores).

`objective-grader.ts` says that types it does not grade have no key by design; two generated types store one that nothing reads. This is
no statement about a state, so no property says it.

With approvals that may fail half-way (`"approval" \in Faults`), `LastResolutionIsAnnounced` does not hold either: an approval that throws
after it has marked the last item tells nobody, and an approval whose embedding fails leaves its item approved without a task.

Some behaviours no line of the repository rules out, and the properties are stated so that they are allowed: an employer's list that has an id
twice is stored with the task twice; a status an admin sets by hand stays, `GENERATING` without a run included; resets that overlap
each set a password; `EmailIsSentOrGivenUp` allows a mail to be sent twice when a worker dies after the provider took it; `WatcherLearnsTheEnd` allows the
end told to be that of an earlier run; `EveryActivationIsCovered` is about activations committed before the pass that looks, and counts
a job without a title, which a pass skips, as looked at.

## 7. Not modelled

- Contents of LLM scores, prompts, texts and figures' wording: choices of the step that produces them.
- Time: a backoff, a stall or a threshold may be over at any moment; ages of tokens are three classes, half-lives and days are whole.
- Binary floating point: `Scoring` computes exactly what the code computes in doubles and rounds.
- `credit-admin.service.ts`, `admin.service.ts` listings, dashboards and buckets, candidate and employer views: they read, and change nothing. Marking anchors as reviewed is one guarded update.
- The rate limit of pings, the order and the cut of a job board page, the template of the staged chat task, `enqueueBatchEmail` (nothing calls it), single-task regeneration and the test endpoint.
- `reviews` (one insert under a unique index), `support` (an email), the description parser (one model call), the clients of language models, wiring, migrations, scripts.
- The report of visitors reads Redis and PostgreSQL in several statements; it is modelled as of one moment, between two steps of a sync.
- The store credit of a refund inside its window is not among the authorised commitments of `RefundPolicyReply`, as in the template.

## 8. Plan

1. Core (done): credits and payments, grading, the generation graph, publication, staged chat.
2. People and background (done): accounts, applications, templates and scoring, anchors, passport, board, recommendations, analytics, stream, email.
3. Proofs (done, section 5): the safety of payments, generation, grading, publication, staged chat, accounts, applications, anchors, passport, board and
   recommendations; the refinements of `CreditAccount`, `GenerationRun`, `SubmissionLifecycle` and `Transcript`; the types of `Background`.
4. Sums and selections (done, section 5): the keys and scores of every template, the histories of the passport, the report of visitors, and the types
   of `People`.
5. Left: `KeyIsRight` for every answer the response schemas accept rather than for `Responses`, and what the code guarantees of repeated picks; liveness stays with TLC. At most eight modules hold
   proofs here, so the small ones share a module. Recursive operators stay out of every module a proof uses.
