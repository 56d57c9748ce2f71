--------------------------- MODULE JobPublication ---------------------------
(***************************************************************************)
(* One job from draft to live: the generation queue and its worker, which  *)
(* write the simulation's tasks and the items admins must review; admins   *)
(* resolving those items; the employer (several tabs or retried requests)  *)
(* publishing, closing, editing the tasks of and deleting the job.  All of *)
(* them are separate requests and workers that share only the database:    *)
(* every read and every write of a handler is a step of its own.           *)
(*                                                                         *)
(* A generation run is seen as GenerationRun promises it: each slot ends   *)
(* as a task or as a review item.  Jobs do not interact, so one is enough. *)
(***************************************************************************)
EXTENDS Naturals, Sequences, FiniteSets, SequencesExt

CONSTANTS
  Slots,           \* task slots of one generation run
  MaxTasks,        \* tasks an employer may save in a simulation
  Admins,          \* concurrent review requests
  Clients,         \* concurrent requests of the employer
  MaxRuns,         \* bound: generation runs that start
  MaxCalls,        \* bound: calls of the endpoint that queues generation
  MaxEdits,        \* bound: edits the employer begins
  MaxStalledCount, \* BullMQ: stalls after which a job is failed
  MaxCrashes,      \* bound: workers that die
  Faults,          \* what may fail half-way: runs, approvals
  AdminStatuses    \* jobStatusEnum: the statuses an admin may set by hand

ASSUME BoundsAssumption ==
  /\ Slots \in Nat \ {0} /\ MaxTasks \in Nat /\ MaxRuns \in Nat /\ MaxEdits \in Nat
  /\ MaxCalls \in Nat /\ MaxStalledCount \in Nat /\ MaxCrashes \in Nat /\ Faults \subseteq {"run", "approval"}

(* "DELETED" stands for a job whose row is gone; no admin sets it.         *)
ASSUME StatusAssumption == "DELETED" \notin AdminStatuses

VARIABLES
  job,       \* jobs.status, or "DELETED"
  simulation,   \* the simulations row: whether there is one, and its tasks
  items,     \* generation_review_items: status of the item of a run and slot
  bull,      \* the BullMQ job generate-<jobId>
  worker,    \* the processor's run
  admin,     \* the handler of each review request
  client,    \* the handler of each employer request
  edits,     \* edits begun so far
  repeated,  \* history: the employer has saved a list with one id twice
  news       \* emails: how many "live" ones (2 for more), a "resolved" one since the last resolution

vars == <<job, simulation, items, bull, worker, admin, client, edits, repeated, news>>

ItemIds == (1..MaxRuns) \X (1..Slots)
NoSimulation == [row |-> FALSE, tasks |-> <<>>]
Simulation(list) == [row |-> TRUE, tasks |-> list]
NoItem == <<0, 0>>

(* Task ids are made of the position in the run, so two runs reuse them;   *)
(* the last component stands for the content.                              *)
RunTask(run, position) == <<"task", position, run>>
ReviewTask(item) == <<"review", item, 0>>
OwnTask(edit) == <<"own", edit, 0>>
TaskId(task) == <<task[1], task[2]>>
NoIdTwice(list) == \A i, k \in DOMAIN list : TaskId(list[i]) = TaskId(list[k]) => i = k

PendingItems == {i \in ItemIds : items[i] = "PENDING"}

Exists == job # "DELETED"
SetJob(status) == job' = IF Exists THEN status ELSE job

-----------------------------------------------------------------------------
(* The generation queue.  A job id is added at most once: BullMQ ignores   *)
(* the call while a job of that id exists, so a failed one is removed      *)
(* first.  asked: the endpoint has answered "queued" since, with no job    *)
(* waiting or running when it was called.                                  *)

QueueGeneration ==
  /\ Exists /\ bull.calls < MaxCalls
  /\ bull' = [bull EXCEPT !.calls = @ + 1,
                          !.state = IF @ \in {"none", "failed"} THEN "waiting" ELSE @,
                          !.stalls = IF bull.state = "failed" THEN 0 ELSE @,
                          !.asked = @ \/ bull.state \in {"none", "failed", "completed"}]
  /\ UNCHANGED <<job, simulation, items, worker, admin, client, edits, repeated, news>>

IdleWorker(run) == [at |-> "idle", run |-> run, slot |-> 0, made |-> <<>>]

(* process: a job that is gone fails before the try block.                 *)
WorkerStart ==
  /\ bull.state = "waiting" /\ worker.at = "idle" /\ worker.run < MaxRuns
  /\ IF Exists
     THEN /\ job' = "GENERATING"
          /\ bull' = [bull EXCEPT !.state = "active", !.asked = FALSE]
          /\ worker' = [IdleWorker(worker.run + 1) EXCEPT !.at = "generating"]
     ELSE /\ bull' = [bull EXCEPT !.state = "failed", !.asked = FALSE]
          /\ UNCHANGED <<job, worker>>
  /\ UNCHANGED <<simulation, items, admin, client, edits, repeated, news>>

NextSlot(made) == worker' = [worker EXCEPT !.slot = @ + 1, !.made = made]

(* runGeneration, one slot of the graph at a time: persistNode keeps the   *)
(* task in memory, adminReviewFlagNode inserts its row at once.            *)
WorkerSlotPasses ==
  /\ worker.at = "generating" /\ worker.slot < Slots
  /\ NextSlot(Append(worker.made, RunTask(worker.run, Len(worker.made) + 1)))
  /\ UNCHANGED <<job, simulation, items, bull, admin, client, edits, repeated, news>>

WorkerSlotFlagged ==
  /\ worker.at = "generating" /\ worker.slot < Slots /\ Exists
  /\ NextSlot(worker.made)
  /\ items' = [items EXCEPT ![<<worker.run, worker.slot + 1>>] = "PENDING"]
  /\ UNCHANGED <<job, simulation, bull, admin, client, edits, repeated, news>>

WorkerUpsert ==
  /\ worker.at = "generating" /\ worker.slot = Slots /\ Exists
  /\ simulation' = Simulation(worker.made)
  /\ worker' = [worker EXCEPT !.at = "stored"]
  /\ UNCHANGED <<job, items, bull, admin, client, edits, repeated, news>>

(* adminReviewItemsPersisted is what this run flagged, resolved or not.    *)
WorkerSetStatus ==
  /\ worker.at = "stored"
  /\ SetJob(IF Len(worker.made) < Slots THEN "DRAFT" ELSE "ACTIVE")
  /\ worker' = [worker EXCEPT !.at = "invalidating"]
  /\ UNCHANGED <<simulation, items, bull, admin, client, edits, repeated, news>>

WorkerReturns ==
  /\ worker.at = "invalidating"
  /\ worker' = IdleWorker(worker.run)
  /\ bull' = [bull EXCEPT !.state = "completed"]
  /\ UNCHANGED <<job, simulation, items, admin, client, edits, repeated, news>>

MustThrow == ~Exists /\ worker.at = "generating" /\ worker.slot = Slots

(* Mutant: rethrows without recording the failure.                         *)
WorkerCatchesNothing ==
  /\ worker.at # "idle" /\ ("run" \in Faults \/ MustThrow)
  /\ worker' = IdleWorker(worker.run)
  /\ bull' = [bull EXCEPT !.state = "failed"]
  /\ UNCHANGED <<job, simulation, items, admin, client, edits, repeated, news>>

(* The catch block: anything thrown after the job was set GENERATING.  The *)
(* queue's jobs have one attempt.                                          *)
WorkerCatches ==
  /\ worker.at # "idle" /\ ("run" \in Faults \/ MustThrow)
  /\ SetJob("GENERATION_FAILED")
  /\ worker' = IdleWorker(worker.run)
  /\ bull' = [bull EXCEPT !.state = "failed"]
  /\ UNCHANGED <<simulation, items, admin, client, edits, repeated, news>>

(* The worker's process dies: the stalled job is put back, or failed by    *)
(* BullMQ, which runs no catch block.                                      *)
WorkerDies ==
  /\ worker.at # "idle" /\ bull.crashes < MaxCrashes
  /\ worker' = IdleWorker(worker.run)
  /\ bull' = [bull EXCEPT !.crashes = @ + 1, !.stalls = @ + 1,
                          !.state = IF bull.stalls < MaxStalledCount THEN "waiting" ELSE "failed"]
  /\ UNCHANGED <<job, simulation, items, admin, client, edits, repeated, news>>

WorkerSteps ==
  \/ WorkerStart \/ WorkerSlotPasses \/ WorkerSlotFlagged \/ WorkerUpsert
  \/ WorkerSetStatus \/ WorkerReturns

-----------------------------------------------------------------------------
(* Review: approveGenerationReviewWithEdits and rejectGenerationReview.    *)
(* The status is changed by a guarded UPDATE; an approval then embeds the  *)
(* content, reads the simulation and writes the tasks back.                *)

IdleAdmin == [at |-> "idle", item |-> NoItem, seen |-> <<>>]
Goes(h, at) == admin' = [admin EXCEPT ![h].at = at]

Resolve(h, i, outcome, next) ==
  /\ Exists
  /\ items' = [items EXCEPT ![i] = outcome]
  /\ admin' = [admin EXCEPT ![h] = [at |-> next, item |-> i, seen |-> <<>>]]
  /\ news' = [news EXCEPT !.resolved = FALSE]
  /\ UNCHANGED <<job, simulation, bull, worker, client, edits, repeated>>

(* Mutant: the UPDATE matches the item whatever its status.                *)
ApproveMarkAny(h, i) ==
  /\ admin[h].at = "idle" /\ items[i] # "none"
  /\ Resolve(h, i, "APPROVED_WITH_EDITS", "embedding")

ApproveMark(h, i) ==
  /\ admin[h].at = "idle" /\ items[i] = "PENDING"
  /\ Resolve(h, i, "APPROVED_WITH_EDITS", "embedding")

(* Mutant: as ApproveMarkAny, for a rejection.                             *)
RejectMarkAny(h, i) ==
  /\ admin[h].at = "idle" /\ items[i] # "none"
  /\ Resolve(h, i, "REJECTED", "announcing")

RejectMark(h, i) ==
  /\ admin[h].at = "idle" /\ items[i] = "PENDING"
  /\ Resolve(h, i, "REJECTED", "announcing")

ApproveRead(h) ==
  /\ admin[h].at = "embedding"
  /\ admin' = [admin EXCEPT ![h].at = IF simulation.row THEN "read" ELSE "announcing",
                            ![h].seen = simulation.tasks]
  /\ UNCHANGED <<job, simulation, items, bull, worker, client, edits, repeated, news>>

(* Mutant: the approval forgets to tell the employer.                      *)
ApproveWriteSilently(h) ==
  /\ admin[h].at = "read"
  /\ simulation' = IF simulation.row THEN Simulation(Append(admin[h].seen, ReviewTask(admin[h].item)))
                   ELSE simulation
  /\ Goes(h, "idle")
  /\ UNCHANGED <<job, items, bull, worker, client, edits, repeated, news>>

ApproveWrite(h) ==
  /\ admin[h].at = "read"
  /\ simulation' = IF simulation.row THEN Simulation(Append(admin[h].seen, ReviewTask(admin[h].item)))
                   ELSE simulation
  /\ Goes(h, "announcing")
  /\ UNCHANGED <<job, items, bull, worker, client, edits, repeated, news>>

(* The embedding, the question bank or the simulation query throws.        *)
ApproveFails(h) ==
  /\ "approval" \in Faults /\ admin[h].at \in {"embedding", "read"}
  /\ admin' = [admin EXCEPT ![h] = IdleAdmin]
  /\ UNCHANGED <<job, simulation, items, bull, worker, client, edits, repeated, news>>

(* notifyEmployerIfReviewComplete.                                         *)
Announce(h) ==
  /\ admin[h].at = "announcing"
  /\ news' = IF PendingItems = {} /\ Exists THEN [news EXCEPT !.resolved = TRUE] ELSE news
  /\ admin' = [admin EXCEPT ![h] = IdleAdmin]
  /\ UNCHANGED <<job, simulation, items, bull, worker, client, edits, repeated>>

UpdateJobStatus(status) ==
  /\ Exists /\ job' = status
  /\ UNCHANGED <<simulation, items, bull, worker, admin, client, edits, repeated, news>>

AdminSteps(h) ==
  \/ \E i \in ItemIds : ApproveMark(h, i) \/ RejectMark(h, i)
  \/ ApproveRead(h) \/ ApproveWrite(h) \/ ApproveFails(h) \/ Announce(h)

-----------------------------------------------------------------------------
(* The employer's requests.                                                *)

IdleClient == [at |-> "idle", seen |-> "none", view |-> <<>>]
Rest(c) == client' = [client EXCEPT ![c] = IdleClient]

(* publishJob: count the pending items (409 if any), load the job, update  *)
(* it whatever its status is by then, then tell the employer.              *)
PublishCheck(c) ==
  /\ client[c].at = "idle" /\ Exists /\ PendingItems = {}
  /\ client' = [client EXCEPT ![c].at = "checked"]
  /\ UNCHANGED <<job, simulation, items, bull, worker, admin, edits, repeated, news>>

PublishLoad(c) ==
  /\ client[c].at = "checked"
  /\ IF Exists THEN client' = [client EXCEPT ![c].at = "loaded", ![c].seen = job] ELSE Rest(c)
  /\ UNCHANGED <<job, simulation, items, bull, worker, admin, edits, repeated, news>>

PublishUpdate(c) ==
  /\ client[c].at = "loaded"
  /\ SetJob("ACTIVE")
  /\ news' = IF Exists /\ client[c].seen # "ACTIVE" THEN [news EXCEPT !.live = Min({@ + 1, 2})] ELSE news
  /\ Rest(c)
  /\ UNCHANGED <<simulation, items, bull, worker, admin, edits, repeated>>

CloseJob ==
  /\ job = "ACTIVE" /\ job' = "CLOSED"
  /\ UNCHANGED <<simulation, items, bull, worker, admin, client, edits, repeated, news>>

(* deleteJob: refuses a live job, then deletes by id; the simulation and   *)
(* the review items go with the job.                                       *)
DeleteCheck(c) ==
  /\ client[c].at = "idle" /\ Exists /\ job # "ACTIVE"
  /\ client' = [client EXCEPT ![c].at = "deleting"]
  /\ UNCHANGED <<job, simulation, items, bull, worker, admin, edits, repeated, news>>

DeleteRow(c) ==
  /\ client[c].at = "deleting"
  /\ job' = "DELETED" /\ simulation' = NoSimulation
  /\ items' = [i \in ItemIds |-> "none"]
  /\ Rest(c)
  /\ UNCHANGED <<bull, worker, admin, edits, repeated, news>>

(* The employer opens the tasks and later saves a list of them: tasks seen *)
(* and tasks of their own, of which the code only limits the number.  It   *)
(* looks for no id sent twice, so each may be left out, moved or repeated. *)
EditOpen(c) ==
  /\ client[c].at = "idle" /\ simulation.row /\ edits < MaxEdits
  /\ client' = [client EXCEPT ![c].at = "editing", ![c].view = simulation.tasks]
  /\ edits' = edits + 1
  /\ UNCHANGED <<job, simulation, items, bull, worker, admin, repeated, news>>

Edits(view) == SeqOf(ToSet(view) \cup {OwnTask(edits)}, MaxTasks)

Save(list) ==
  /\ simulation' = Simulation(list)
  /\ repeated' = (repeated \/ ~NoIdTwice(list))

(* updateSimulationTasks.  It refuses a list when the simulation is gone,  *)
(* and one with a figure-based task that is not stored (any more); which   *)
(* tasks are figure-based is left open, so any list may be refused.        *)
EditSave(c) ==
  /\ client[c].at = "editing"
  /\ \/ simulation.row /\ \E list \in Edits(client[c].view) : Save(list)
     \/ UNCHANGED <<simulation, repeated>>
  /\ Rest(c)
  /\ UNCHANGED <<job, items, bull, worker, admin, edits, news>>

ClientSteps(c) ==
  \/ PublishCheck(c) \/ PublishLoad(c) \/ PublishUpdate(c)
  \/ DeleteCheck(c) \/ DeleteRow(c) \/ EditOpen(c) \/ EditSave(c)

-----------------------------------------------------------------------------
Init ==
  /\ job = "DRAFT" /\ simulation = NoSimulation /\ items = [i \in ItemIds |-> "none"]
  /\ bull = [state |-> "none", calls |-> 0, stalls |-> 0, crashes |-> 0, asked |-> FALSE]
  /\ worker = IdleWorker(0)
  /\ admin = [h \in Admins |-> IdleAdmin]
  /\ client = [c \in Clients |-> IdleClient]
  /\ edits = 0 /\ repeated = FALSE /\ news = [resolved |-> FALSE, live |-> 0]

Next ==
  \/ QueueGeneration \/ WorkerSteps \/ WorkerCatches \/ WorkerDies
  \/ \E h \in Admins : AdminSteps(h)
  \/ \E status \in AdminStatuses : UpdateJobStatus(status)
  \/ CloseJob
  \/ \E c \in Clients : ClientSteps(c)

Spec == Init /\ [][Next]_vars

(* Workers keep taking and running jobs; what must throw is thrown.        *)
FairSpec == Spec /\ WF_vars(WorkerSteps) /\ WF_vars(MustThrow /\ WorkerCatches)

-----------------------------------------------------------------------------
(* Properties.                                                             *)

Tasks == {RunTask(r, p) : r \in 1..MaxRuns, p \in 1..Slots}
         \cup {ReviewTask(i) : i \in ItemIds} \cup {OwnTask(e) : e \in 1..MaxEdits}

(* Every variable has its type; a run is where its slots are.              *)
TypeOK ==
  /\ job \in {"DRAFT", "GENERATING", "ACTIVE", "CLOSED", "GENERATION_FAILED", "DELETED"}
  /\ simulation.row \in BOOLEAN /\ ToSet(simulation.tasks) \subseteq Tasks
  /\ items \in [ItemIds -> {"none", "PENDING", "APPROVED_WITH_EDITS", "REJECTED"}]
  /\ bull.state \in {"none", "waiting", "active", "completed", "failed"}
  /\ bull.calls \in 0..MaxCalls /\ bull.crashes \in 0..MaxCrashes
  /\ worker.at \in {"idle", "generating", "stored", "invalidating"}
  /\ worker.run \in 0..MaxRuns /\ worker.slot \in 0..Slots /\ Len(worker.made) <= worker.slot
  /\ worker.at # "idle" <=> bull.state = "active"
  /\ \A h \in Admins : /\ admin[h].at \in {"idle", "embedding", "read", "announcing"}
                        /\ admin[h].item \in ItemIds \cup {NoItem}
  /\ \A c \in Clients : client[c].at \in {"idle", "checked", "loaded", "deleting", "editing"}
  /\ edits \in 0..MaxEdits /\ repeated \in BOOLEAN /\ news \in [resolved : BOOLEAN, live : 0..2]

(* What approveGenerationReviewWithEdits' comment is about: no task is     *)
(* added twice.  However approvals, edits with stale lists and new runs    *)
(* interleave, an id is in the simulation once, unless the employer has    *)
(* saved a list with an id twice: candidates' answers are found by id.     *)
TaskIdsAreUnique == ~repeated => NoIdTwice(simulation.tasks)

(* Every review task in the simulation was approved and stays so: none was *)
(* rejected, by another admin or later, and no stale list of an approval   *)
(* or an edit brings one back.                                             *)
ServedIsApproved ==
  \A i \in ItemIds : ReviewTask(i) \in ToSet(simulation.tasks) => items[i] = "APPROVED_WITH_EDITS"

(* Of any number of concurrent decisions on a review item one takes        *)
(* effect, and it stands until the job is deleted.                         *)
ResolutionIsFinal ==
  [][\A i \in ItemIds : items[i] \in {"APPROVED_WITH_EDITS", "REJECTED"} =>
       items'[i] \in {items[i], "none"}]_items

(* When handlers have finished and no item of the job is pending, its      *)
(* employer has been told since the last one was resolved, even when the   *)
(* last two were resolved at the same moment.                              *)
LastResolutionIsAnnounced ==
  (/\ \A h \in Admins : admin[h].at = "idle"
   /\ PendingItems = {} /\ \E i \in ItemIds : items[i] # "none") => news.resolved

(* A run that is waiting or under way takes the job out of GENERATING,     *)
(* also when it throws, its worker dies as often as BullMQ puts the job    *)
(* back, or an admin sets any status meanwhile.                            *)
RunUnderWay == bull.state = "waiting" \/ worker.at \in {"generating", "stored"}
GenerationEnds == job = "GENERATING" /\ RunUnderWay ~> job # "GENERATING"

-----------------------------------------------------------------------------
(* Statements of the repository's own comments, messages and documents     *)
(* that the code does not keep: each is refuted by TLC (README, "Known     *)
(* disagreements").                                                        *)

(* What the processor's comment says: a job whose task slots await review  *)
(* stays a draft until they are resolved.                                  *)
LiveNeverAwaitsReview == job = "ACTIVE" /\ worker.at = "idle" => PendingItems = {}

(* ... so that it never goes live with missing tasks: every approved task  *)
(* is in the simulation when nobody is working on it any more.             *)
ApprovedTaskIsServed ==
  job = "ACTIVE" /\ worker.at = "idle" /\ (\A h \in Admins : admin[h].at = "idle") =>
    \A i \in ItemIds : items[i] = "APPROVED_WITH_EDITS" => ReviewTask(i) \in ToSet(simulation.tasks)

(* What updateSimulationTasks answers: a simulation has at most 4 tasks.   *)
AtMostMaxTasks == Len(simulation.tasks) <= MaxTasks

(* What publishJob's comment says: only the first move to live notifies.   *)
OnlyFirstMoveNotifies == news.live < 2

(* What deleteJob answers: live jobs cannot be deleted.                    *)
LiveJobIsNotDeleted == [][job = "ACTIVE" => job' # "DELETED"]_job

(* What the endpoint answers, "queued", when nothing was under way: a job  *)
(* is waiting for a worker.                                                *)
QueuedIsWaiting == bull.asked => bull.state = "waiting"
=============================================================================
