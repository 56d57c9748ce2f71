------------------------- MODULE PublicationProofs -------------------------
(***************************************************************************)
(* Theorems about JobPublication, for any number of slots, runs, admins    *)
(* and requests: no task gets into a simulation twice unless the employer  *)
(* saves it twice, only approved review tasks do, a resolution stands, and *)
(* the employer is told of the last one, whatever the requests and the     *)
(* worker do between each other's reads and writes.                        *)
(***************************************************************************)
EXTENDS JobPublication, TLAPS

-----------------------------------------------------------------------------
(* Types.                                                                  *)

ItemStates == {"none", "PENDING", "APPROVED_WITH_EDITS", "REJECTED"}
Resolved == {"APPROVED_WITH_EDITS", "REJECTED"}
AdminType == [at : {"idle", "embedding", "read", "announcing"}, item : ItemIds \cup {NoItem}, seen : Seq(Tasks)]
WorkerType ==
  [at : {"idle", "generating", "stored", "invalidating"}, run : 0..MaxRuns, slot : 0..Slots, made : Seq(Tasks)]
Statuses ==
  {"none", "DRAFT", "GENERATING", "ACTIVE", "CLOSED", "GENERATION_FAILED", "DELETED"} \cup AdminStatuses
ClientType ==
  [at : {"idle", "checked", "loaded", "deleting", "editing"}, seen : Statuses, view : Seq(Tasks)]

IsSimulation(s) == s = [row |-> s.row, tasks |-> s.tasks] /\ s.row \in BOOLEAN /\ s.tasks \in Seq(Tasks)

Typed ==
  /\ job \in Statuses
  /\ IsSimulation(simulation)
  /\ items \in [ItemIds -> ItemStates]
  /\ worker \in WorkerType
  /\ admin \in [Admins -> AdminType]
  /\ client \in [Clients -> ClientType]
  /\ edits \in 0..MaxEdits /\ repeated \in BOOLEAN
  /\ news = [resolved |-> news.resolved, live |-> news.live] /\ news.resolved \in BOOLEAN

Approving(h) == admin[h].at \in {"embedding", "read"}

(* What a run has made so far, and its place among the others.             *)
RunInv ==
  /\ worker.at # "idle" => worker.run > 0
  /\ Len(worker.made) <= worker.slot
  /\ \A k \in DOMAIN worker.made : worker.made[k] = RunTask(worker.run, k)
  /\ \A c \in Clients : client[c].at = "editing" => edits > 0
  /\ \A h \in Admins : Approving(h) => admin[h].item \in ItemIds

(* An item is written once, for a slot the current run has been past.      *)
OverAndDone(i) ==
  \/ i[1] < worker.run
  \/ i[1] = worker.run /\ (worker.at = "idle" \/ i[2] <= worker.slot)

ItemsInv ==
  /\ \A i \in ItemIds : items[i] # "none" => OverAndDone(i)
  /\ ~Exists => simulation = NoSimulation /\ \A i \in ItemIds : items[i] = "none"

-----------------------------------------------------------------------------
(* Lists of tasks: the stored one and those that requests took from it.    *)
(* Until the employer has saved one id twice, each list has an id once     *)
(* (OnceInv); a review task is in one only if it was approved and nobody is *)
(* about to add it, an own task only if its edit has begun.                *)

Ids(list) == {TaskId(list[k]) : k \in DOMAIN list}

Settled ==
  {i \in ItemIds : items[i] = "APPROVED_WITH_EDITS" /\ \A h \in Admins : Approving(h) => admin[h].item # i}

Sound(list, settled, begun) ==
  /\ \A i \in ItemIds : <<"review", i>> \in Ids(list) => i \in settled
  /\ \A e \in 1..MaxEdits : <<"own", e>> \in Ids(list) => e < begun

Held ==
  {simulation.tasks} \cup {admin[h].seen : h \in {g \in Admins : admin[g].at = "read"}}
    \cup {client[c].view : c \in {d \in Clients : client[d].at = "editing"}}

OnceInv == Exists /\ ~repeated => \A list \in Held : NoIdTwice(list)

ListsInv == Exists =>
  /\ Sound(simulation.tasks, Settled, edits + 1)
  /\ \A h \in Admins : admin[h].at = "read" => Sound(admin[h].seen, Settled, edits + 1)
  /\ \A c \in Clients : client[c].at = "editing" => Sound(client[c].view, Settled, edits)
  /\ \A h \in Admins : Approving(h) =>
       /\ items[admin[h].item] = "APPROVED_WITH_EDITS"
       /\ \A g \in Admins : Approving(g) /\ admin[g].item = admin[h].item => g = h

(* Whoever resolved the last item has not gone without telling.            *)
ToldInv ==
  \/ news.resolved \/ PendingItems # {}
  \/ \A i \in ItemIds : items[i] = "none"
  \/ \E h \in Admins : admin[h].at # "idle"

-----------------------------------------------------------------------------
(* Tasks, their ids and lists of them.                                     *)

LEMMA Bounds == Slots \in Nat \ {0} /\ MaxRuns \in Nat /\ MaxEdits \in Nat /\ MaxTasks \in Nat
BY BoundsAssumption

LEMMA TaskKinds ==
  /\ \A r \in 1..MaxRuns, p \in 1..Slots : RunTask(r, p) \in Tasks
  /\ \A i \in ItemIds : ReviewTask(i) \in Tasks
  /\ \A e \in 1..MaxEdits : OwnTask(e) \in Tasks
BY DEF Tasks

LEMMA TaskIds ==
  /\ \A r, p : TaskId(RunTask(r, p)) = <<"task", p>>
  /\ \A i : TaskId(ReviewTask(i)) = <<"review", i>>
  /\ \A e : TaskId(OwnTask(e)) = <<"own", e>>
BY DEF TaskId, RunTask, ReviewTask, OwnTask

LEMMA AppendFacts ==
  ASSUME NEW list \in Seq(Tasks), NEW t \in Tasks
  PROVE  /\ Append(list, t) \in Seq(Tasks)
         /\ Ids(Append(list, t)) = Ids(list) \cup {TaskId(t)}
         /\ NoIdTwice(list) /\ TaskId(t) \notin Ids(list) => NoIdTwice(Append(list, t))
<1>1. PICK n \in Nat : n = Len(list) /\ DOMAIN list = 1..n
  OBVIOUS
<1>0. Append(list, t) \in Seq(Tasks)
  OBVIOUS
<1>2. PICK longer \in Seq(Tasks) : longer = Append(list, t)
  BY <1>0, Zenon
<1>3. /\ DOMAIN longer = 1..n + 1 /\ longer[n + 1] = t
      /\ \A k \in 1..n : longer[k] = list[k]
  BY <1>1, <1>2
<1>4. Ids(longer) = Ids(list) \cup {TaskId(t)}
  <2>1. \A k \in 1..n + 1 : k \in 1..n \/ k = n + 1
    OBVIOUS
  <2>2. \A k \in 1..n : k \in 1..n + 1
    OBVIOUS
  <2>3. n + 1 \in 1..n + 1
    OBVIOUS
  <2>. QED
    BY <1>1, <1>3, <2>1, <2>2, <2>3 DEF Ids
<1>5. ASSUME NoIdTwice(list), TaskId(t) \notin Ids(list), NEW i \in 1..n + 1, NEW k \in 1..n + 1,
             TaskId(longer[i]) = TaskId(longer[k])
      PROVE  i = k
  <2>1. CASE i \in 1..n /\ k \in 1..n
    BY <1>1, <1>3, <1>5, <2>1 DEF NoIdTwice
  <2>2. CASE i = n + 1 /\ k \in 1..n
    BY <1>1, <1>3, <1>5, <2>2 DEF Ids
  <2>3. CASE i \in 1..n /\ k = n + 1
    BY <1>1, <1>3, <1>5, <2>3 DEF Ids
  <2>. QED
    BY <2>1, <2>2, <2>3
<1>. QED
  BY <1>2, <1>3, <1>4, <1>5 DEF NoIdTwice

(* What an employer may save: what was seen, and tasks of the edit begun.  *)
LEMMA EditFacts ==
  ASSUME NEW view \in Seq(Tasks), edits \in 1..MaxEdits, NEW list \in Edits(view)
  PROVE  list \in Seq(Tasks) /\ Ids(list) \subseteq Ids(view) \cup {<<"own", edits>>}
<1>1. PICK n \in 0..MaxTasks : list \in [1..n -> ToSet(view) \cup {OwnTask(edits)}]
  BY DEF Edits, SeqOf
<1>2. n \in Nat
  BY Bounds, <1>1
<1>3. /\ ToSet(view) \subseteq Tasks
      /\ \A t \in ToSet(view) : TaskId(t) \in Ids(view)
  BY DEF ToSet, Ids
<1>4. OwnTask(edits) \in Tasks /\ TaskId(OwnTask(edits)) = <<"own", edits>>
  BY TaskKinds, TaskIds
<1>5. \A k \in 1..n : list[k] \in Tasks /\ TaskId(list[k]) \in Ids(view) \cup {<<"own", edits>>}
  BY <1>1, <1>3, <1>4
<1>6. list \in [1..n -> Tasks] /\ DOMAIN list = 1..n
  BY <1>1, <1>5
<1>7. list \in Seq(Tasks)
  BY <1>2, <1>6
<1>. QED
  BY <1>5, <1>6, <1>7 DEF Ids

-----------------------------------------------------------------------------
(* Where each variable is written.                                         *)

LEMMA SimulationWritten ==
  ASSUME [Next]_vars
  PROVE  \/ simulation' = simulation
         \/ WorkerUpsert
         \/ \E h \in Admins : ApproveWrite(h)
         \/ \E c \in Clients : DeleteRow(c) \/ EditSave(c)
BY DEF Next, QueueGeneration, WorkerSteps, WorkerStart, WorkerSlotPasses, WorkerSlotFlagged, WorkerSetStatus,
   WorkerReturns, WorkerCatches, WorkerDies, AdminSteps, ApproveMark, RejectMark, Resolve, ApproveRead, ApproveFails,
   Announce, UpdateJobStatus, CloseJob, ClientSteps, PublishCheck, PublishLoad, PublishUpdate, DeleteCheck, EditOpen, vars

LEMMA ItemsWritten ==
  ASSUME [Next]_vars
  PROVE  \/ items' = items
         \/ WorkerSlotFlagged
         \/ \E h \in Admins, i \in ItemIds : ApproveMark(h, i) \/ RejectMark(h, i)
         \/ \E c \in Clients : DeleteRow(c)
BY DEF Next, QueueGeneration, WorkerSteps, WorkerStart, WorkerSlotPasses, WorkerUpsert, WorkerSetStatus,
   WorkerReturns, WorkerCatches, WorkerDies, AdminSteps, ApproveRead, ApproveWrite, ApproveFails,
   Announce, UpdateJobStatus, CloseJob, ClientSteps, PublishCheck, PublishLoad, PublishUpdate, DeleteCheck, EditOpen,
   EditSave, vars

LEMMA WorkerWritten ==
  ASSUME [Next]_vars
  PROVE  \/ worker' = worker
         \/ WorkerSteps \/ WorkerCatches \/ WorkerDies
BY DEF Next, QueueGeneration, AdminSteps, ApproveMark, RejectMark, Resolve, ApproveRead, ApproveWrite, ApproveFails,
   Announce, UpdateJobStatus, CloseJob, ClientSteps, PublishCheck, PublishLoad, PublishUpdate, DeleteCheck,
   DeleteRow, EditOpen, EditSave, vars

LEMMA AdminWritten ==
  ASSUME [Next]_vars
  PROVE  \/ admin' = admin
         \/ \E h \in Admins : AdminSteps(h)
BY DEF Next, QueueGeneration, WorkerSteps, WorkerStart, WorkerSlotPasses, WorkerSlotFlagged, WorkerUpsert,
   WorkerSetStatus, WorkerReturns, WorkerCatches, WorkerDies, UpdateJobStatus, CloseJob, ClientSteps, PublishCheck,
   PublishLoad, PublishUpdate, DeleteCheck, DeleteRow, EditOpen, EditSave, vars

LEMMA ClientWritten ==
  ASSUME [Next]_vars
  PROVE  \/ UNCHANGED <<client, edits>>
         \/ \E c \in Clients : ClientSteps(c)
BY DEF Next, QueueGeneration, WorkerSteps, WorkerStart, WorkerSlotPasses, WorkerSlotFlagged, WorkerUpsert,
   WorkerSetStatus, WorkerReturns, WorkerCatches, WorkerDies, AdminSteps, ApproveMark, RejectMark, Resolve,
   ApproveRead, ApproveWrite, ApproveFails, Announce, UpdateJobStatus, CloseJob, vars

(* A deleted job does not come back; only its deletion removes it.         *)
LEMMA ExistenceWritten ==
  ASSUME [Next]_vars
  PROVE  /\ Exists' => Exists
         /\ ~Exists' => ~Exists \/ \E c \in Clients : DeleteRow(c)
BY StatusAssumption
   DEF Next, QueueGeneration, WorkerSteps, WorkerStart, WorkerSlotPasses, WorkerSlotFlagged, WorkerUpsert, SetJob,
   WorkerSetStatus, WorkerReturns, WorkerCatches, WorkerDies, AdminSteps, ApproveMark, RejectMark, Resolve,
   ApproveRead, ApproveWrite, ApproveFails, Announce, UpdateJobStatus, CloseJob, ClientSteps, PublishCheck,
   PublishLoad, PublishUpdate, DeleteCheck, DeleteRow, EditOpen, EditSave, Exists, vars

(* Nothing takes back that the employer has saved an id twice.             *)
LEMMA RepeatedWritten ==
  ASSUME [Next]_vars
  PROVE  repeated' = repeated \/ \E c \in Clients : EditSave(c)
BY DEF Next, QueueGeneration, WorkerSteps, WorkerStart, WorkerSlotPasses, WorkerSlotFlagged, WorkerUpsert,
   WorkerSetStatus, WorkerReturns, WorkerCatches, WorkerDies, AdminSteps, ApproveMark, RejectMark, Resolve,
   ApproveRead, ApproveWrite, ApproveFails, Announce, UpdateJobStatus, CloseJob, ClientSteps, PublishCheck,
   PublishLoad, PublishUpdate, DeleteCheck, DeleteRow, EditOpen, vars

LEMMA RepeatedStays ==
  ASSUME Typed, [Next]_vars
  PROVE  repeated' \in BOOLEAN /\ (~repeated' => ~repeated)
<1>1. repeated \in BOOLEAN
  BY DEF Typed
<1>2. ASSUME NEW c \in Clients, EditSave(c)
      PROVE  repeated' = repeated \/ \E list : repeated' = (repeated \/ ~NoIdTwice(list))
  BY <1>2 DEF EditSave, Save
<1>. QED
  BY <1>1, <1>2, RepeatedWritten, Zenon

LEMMA NewsWritten ==
  ASSUME [Next]_vars
  PROVE  \/ news' = news
         \/ \E h \in Admins : (\E i \in ItemIds : ApproveMark(h, i) \/ RejectMark(h, i)) \/ Announce(h)
         \/ \E n : news' = [news EXCEPT !.live = n]
BY DEF Next, QueueGeneration, WorkerSteps, WorkerStart, WorkerSlotPasses, WorkerSlotFlagged, WorkerUpsert,
   WorkerSetStatus, WorkerReturns, WorkerCatches, WorkerDies, AdminSteps, ApproveRead, ApproveWrite,
   ApproveFails, UpdateJobStatus, CloseJob, ClientSteps, PublishCheck,
   PublishLoad, PublishUpdate, DeleteCheck, DeleteRow, EditOpen, EditSave, vars

-----------------------------------------------------------------------------
(* Types are kept.                                                         *)

LEMMA IdleTyped ==
  /\ IdleAdmin \in AdminType /\ IdleAdmin.at = "idle"
  /\ IdleClient \in ClientType /\ IdleClient.at = "idle"
  /\ \A run \in 0..MaxRuns : IdleWorker(run) \in WorkerType
  /\ \A run : /\ IdleWorker(run).at = "idle" /\ IdleWorker(run).run = run
              /\ IdleWorker(run).slot = 0 /\ IdleWorker(run).made = <<>>
BY Bounds DEF IdleAdmin, AdminType, IdleClient, ClientType, Statuses, IdleWorker, WorkerType

LEMMA InitTyped == Init => Typed /\ RunInv /\ ItemsInv
<1>. SUFFICES ASSUME Init PROVE Typed /\ RunInv /\ ItemsInv
  OBVIOUS
<1>1. /\ job = "DRAFT" /\ simulation = [row |-> FALSE, tasks |-> <<>>] /\ items = [i \in ItemIds |-> "none"]
      /\ worker = IdleWorker(0) /\ admin = [h \in Admins |-> IdleAdmin] /\ client = [c \in Clients |-> IdleClient]
      /\ edits = 0 /\ repeated = FALSE /\ news = [resolved |-> FALSE, live |-> 0]
  BY DEF Init, NoSimulation
<1>2. Typed
  <2>1. worker \in WorkerType
    BY <1>1, IdleTyped, Bounds
  <2>2. news = [resolved |-> news.resolved, live |-> news.live] /\ news.resolved \in BOOLEAN
    BY <1>1
  <2>3. IsSimulation(simulation)
    BY <1>1 DEF IsSimulation
  <2>4. edits \in 0..MaxEdits
    BY <1>1, Bounds
  <2>7. repeated \in BOOLEAN
    BY <1>1, Zenon
  <2>5. items \in [ItemIds -> ItemStates] /\ job \in Statuses
    BY <1>1 DEF ItemStates, Statuses
  <2>6. admin \in [Admins -> AdminType] /\ client \in [Clients -> ClientType]
    BY <1>1, IdleTyped
  <2>. QED
    BY <2>1, <2>2, <2>3, <2>4, <2>5, <2>6, <2>7 DEF Typed
<1>3. RunInv
  BY <1>1, IdleTyped DEF RunInv, Approving
<1>4. ItemsInv
  BY <1>1 DEF ItemsInv, Exists
<1>. QED
  BY <1>2, <1>3, <1>4

LEMMA WorkerTyped ==
  ASSUME Typed, RunInv, WorkerSteps \/ WorkerCatches \/ WorkerDies
  PROVE  /\ worker' \in WorkerType
         /\ worker'.at # "idle" => worker'.run > 0
         /\ Len(worker'.made) <= worker'.slot
         /\ \A k \in DOMAIN worker'.made : worker'.made[k] = RunTask(worker'.run, k)
<1>1. /\ worker \in WorkerType /\ worker.run \in 0..MaxRuns /\ worker.slot \in 0..Slots
      /\ worker.made \in Seq(Tasks)
      /\ worker.at # "idle" => worker.run > 0
      /\ Len(worker.made) <= worker.slot
      /\ \A k \in DOMAIN worker.made : worker.made[k] = RunTask(worker.run, k)
  BY DEF Typed, RunInv, WorkerType
<1>2. CASE worker' = worker
  BY <1>1, <1>2
<1>3. CASE \E run \in 0..MaxRuns : worker' = IdleWorker(run)
  BY <1>3, IdleTyped
<1>4. CASE WorkerStart
  <2>1. CASE worker' = [IdleWorker(worker.run + 1) EXCEPT !.at = "generating"]
    <3>1. worker.run + 1 \in 0..MaxRuns /\ worker.run + 1 > 0
      BY <1>1, <1>4, Bounds DEF WorkerStart
    <3>2. PICK idle \in WorkerType :
            idle = IdleWorker(worker.run + 1) /\ idle.run = worker.run + 1 /\ idle.slot = 0 /\ idle.made = <<>>
      BY <3>1, IdleTyped
    <3>3. worker' = [idle EXCEPT !.at = "generating"]
      BY <2>1, <3>2
    <3>. QED
      BY <3>1, <3>2, <3>3 DEF WorkerType
  <2>. QED
    BY <1>2, <1>4, <2>1 DEF WorkerStart
<1>5. CASE WorkerSlotPasses
  <2>1. worker.slot < Slots /\ worker.at = "generating"
    BY <1>5 DEF WorkerSlotPasses
  <2>2. PICK n \in Nat : n = Len(worker.made) /\ DOMAIN worker.made = 1..n
    BY <1>1
  <2>3. worker.slot + 1 \in 0..Slots /\ n + 1 \in 1..Slots /\ worker.run \in 1..MaxRuns /\ n + 1 <= worker.slot + 1
    BY <1>1, <2>1, <2>2, Bounds
  <2>4. PICK t \in Tasks : t = RunTask(worker.run, n + 1)
    BY <2>3, TaskKinds
  <2>5. PICK made \in Seq(Tasks) : made = Append(worker.made, t)
    <3>1. Append(worker.made, t) \in Seq(Tasks)
      BY <1>1
    <3>. QED
      BY <3>1, Zenon
  <2>6. /\ DOMAIN made = 1..n + 1 /\ Len(made) = n + 1 /\ made[n + 1] = t
        /\ \A k \in 1..n : made[k] = worker.made[k]
    BY <1>1, <2>2, <2>5
  <2>7. worker' = [worker EXCEPT !.slot = @ + 1, !.made = made]
    BY <1>5, <2>2, <2>4, <2>5 DEF WorkerSlotPasses, NextSlot
  <2>8. /\ worker' \in WorkerType /\ worker'.run = worker.run
        /\ worker'.slot = worker.slot + 1 /\ worker'.made = made
    BY <1>1, <2>3, <2>7 DEF WorkerType
  <2>9. \A k \in 1..n + 1 : made[k] = RunTask(worker.run, k)
    <3>1. \A k \in 1..n + 1 : k \in 1..n \/ k = n + 1
      OBVIOUS
    <3>. QED
      BY <1>1, <2>2, <2>4, <2>6, <3>1
  <2>. QED
    BY <2>3, <2>6, <2>8, <2>9
<1>6. CASE WorkerSlotFlagged
  <2>1. worker' = [worker EXCEPT !.slot = @ + 1, !.made = worker.made] /\ worker.slot < Slots /\ worker.at = "generating"
    BY <1>6 DEF WorkerSlotFlagged, NextSlot
  <2>2. worker.slot + 1 \in 0..Slots
    BY <1>1, <2>1, Bounds
  <2>3. /\ worker' \in WorkerType /\ worker'.run = worker.run
        /\ worker'.slot = worker.slot + 1 /\ worker'.made = worker.made
    BY <1>1, <2>1, <2>2 DEF WorkerType
  <2>. QED
    BY <1>1, <2>1, <2>3
<1>7. CASE WorkerUpsert \/ WorkerSetStatus
  <2>1. PICK at \in {"stored", "invalidating"} : worker' = [worker EXCEPT !.at = at]
    BY <1>7 DEF WorkerUpsert, WorkerSetStatus
  <2>2. worker.at # "idle"
    BY <1>7 DEF WorkerUpsert, WorkerSetStatus
  <2>3. /\ worker' \in WorkerType /\ worker'.run = worker.run
        /\ worker'.slot = worker.slot /\ worker'.made = worker.made
    BY <1>1, <2>1 DEF WorkerType
  <2>. QED
    BY <1>1, <2>2, <2>3
<1>8. CASE WorkerReturns \/ WorkerCatches \/ WorkerDies
  BY <1>1, <1>3, <1>8 DEF WorkerReturns, WorkerCatches, WorkerDies
<1>. QED
  BY <1>4, <1>5, <1>6, <1>7, <1>8 DEF WorkerSteps

LEMMA AdminTyped ==
  ASSUME Typed, RunInv, NEW h \in Admins, AdminSteps(h)
  PROVE  \E a \in AdminType :
           /\ admin' = [admin EXCEPT ![h] = a]
           /\ a.at \in {"embedding", "read"} => a.item \in ItemIds
<1>1. /\ admin \in [Admins -> AdminType] /\ admin[h] \in AdminType
      /\ Approving(h) => admin[h].item \in ItemIds
  BY DEF Typed, RunInv
<1>2. ASSUME NEW i \in ItemIds, ApproveMark(h, i) \/ RejectMark(h, i)
      PROVE  \E a \in AdminType :
               /\ admin' = [admin EXCEPT ![h] = a]
               /\ a.at \in {"embedding", "read"} => a.item \in ItemIds
  <2>1. PICK next \in {"embedding", "announcing"} :
          admin' = [admin EXCEPT ![h] = [at |-> next, item |-> i, seen |-> <<>>]]
    BY <1>2 DEF ApproveMark, RejectMark, Resolve
  <2>2. [at |-> next, item |-> i, seen |-> <<>>] \in AdminType
    BY DEF AdminType
  <2>. QED
    BY <2>1, <2>2
<1>3. CASE ApproveRead(h)
  <2>. DEFINE a == [admin[h] EXCEPT !.at = IF simulation.row THEN "read" ELSE "announcing", !.seen = simulation.tasks]
  <2>1. admin' = [admin EXCEPT ![h] = a]
    BY <1>1, <1>3 DEF ApproveRead
  <2>2. a \in AdminType /\ a.item = admin[h].item
    BY <1>1 DEF AdminType, Typed, IsSimulation
  <2>3. admin[h].item \in ItemIds
    BY <1>1, <1>3 DEF ApproveRead, Approving
  <2>. QED
    BY <2>1, <2>2, <2>3
<1>4. CASE ApproveWrite(h)
  <2>. DEFINE a == [admin[h] EXCEPT !.at = "announcing"]
  <2>1. admin' = [admin EXCEPT ![h] = a] /\ a \in AdminType /\ a.at = "announcing"
    BY <1>1, <1>4 DEF ApproveWrite, Goes, AdminType
  <2>. HIDE DEF a
  <2>. QED
    BY <2>1
<1>5. CASE ApproveFails(h) \/ Announce(h)
  BY <1>5, IdleTyped DEF ApproveFails, Announce
<1>. QED
  BY <1>2, <1>3, <1>4, <1>5 DEF AdminSteps

LEMMA ClientTyped ==
  ASSUME Typed, RunInv, NEW c \in Clients, ClientSteps(c)
  PROVE  /\ \E r \in ClientType :
              /\ client' = [client EXCEPT ![c] = r]
              /\ r.at = "editing" => edits' > 0
         /\ edits' \in 0..MaxEdits /\ edits <= edits'
<1>1. /\ client \in [Clients -> ClientType] /\ client[c] \in ClientType /\ edits \in 0..MaxEdits
      /\ job \in Statuses /\ simulation.tasks \in Seq(Tasks)
  BY DEF Typed, IsSimulation
<1>0. ASSUME NEW r \in ClientType, client' = [client EXCEPT ![c] = r], r.at # "editing", edits' = edits
      PROVE  /\ \E q \in ClientType :
                  /\ client' = [client EXCEPT ![c] = q]
                  /\ q.at = "editing" => edits' > 0
             /\ edits' \in 0..MaxEdits /\ edits <= edits'
  <2>1. edits' \in 0..MaxEdits /\ edits <= edits'
    BY <1>0, <1>1, Bounds
  <2>. QED
    BY <1>0, <2>1
<1>2. CASE PublishUpdate(c) \/ DeleteRow(c) \/ EditSave(c)
  <2>1. client' = [client EXCEPT ![c] = IdleClient] /\ edits' = edits
    BY <1>2 DEF PublishUpdate, DeleteRow, EditSave, Rest
  <2>. QED
    BY <1>0, <2>1, IdleTyped
<1>3. CASE PublishCheck(c) \/ DeleteCheck(c)
  <2>1. PICK at \in {"checked", "deleting"} : client' = [client EXCEPT ![c].at = at]
    BY <1>3 DEF PublishCheck, DeleteCheck
  <2>2. [client[c] EXCEPT !.at = at] \in ClientType /\ [client[c] EXCEPT !.at = at].at = at
    BY <1>1 DEF ClientType
  <2>3. edits' = edits
    BY <1>3 DEF PublishCheck, DeleteCheck
  <2>. QED
    <3>1. client' = [client EXCEPT ![c] = [client[c] EXCEPT !.at = at]]
      BY <1>1, <2>1
    <3>2. [client[c] EXCEPT !.at = at].at # "editing"
      BY <2>2
    <3>. QED
      BY <1>0, <2>2, <2>3, <3>1, <3>2
<1>4. CASE PublishLoad(c)
  <2>1. CASE Exists
    <3>1. client' = [client EXCEPT ![c].at = "loaded", ![c].seen = job] /\ edits' = edits
      BY <1>4, <2>1 DEF PublishLoad
    <3>. DEFINE r == [client[c] EXCEPT !.at = "loaded", !.seen = job]
    <3>2. client' = [client EXCEPT ![c] = r]
      BY <1>1, <3>1
    <3>3. r \in ClientType /\ r.at = "loaded"
      BY <1>1 DEF ClientType
    <3>. HIDE DEF r
    <3>. QED
      BY <1>0, <3>1, <3>2, <3>3
  <2>2. CASE ~Exists
    <3>1. client' = [client EXCEPT ![c] = IdleClient] /\ edits' = edits
      BY <1>4, <2>2 DEF PublishLoad, Rest
    <3>. QED
      BY <1>0, <3>1, IdleTyped
  <2>. QED
    BY <2>1, <2>2
<1>5. CASE EditOpen(c)
  <2>1. /\ client' = [client EXCEPT ![c].at = "editing", ![c].view = simulation.tasks]
        /\ edits' = edits + 1 /\ edits < MaxEdits
    BY <1>5 DEF EditOpen
  <2>. DEFINE r == [client[c] EXCEPT !.at = "editing", !.view = simulation.tasks]
  <2>2. client' = [client EXCEPT ![c] = r]
    BY <1>1, <2>1
  <2>3. r \in ClientType
    BY <1>1 DEF ClientType
  <2>4. edits' > 0 /\ edits' \in 0..MaxEdits /\ edits <= edits'
    BY <1>1, <2>1, Bounds
  <2>. HIDE DEF r
  <2>5. PICK q \in ClientType : client' = [client EXCEPT ![c] = q]
    BY <2>2, <2>3
  <2>. QED
    BY <2>4, <2>5
<1>. QED
  BY <1>2, <1>3, <1>4, <1>5 DEF ClientSteps

(* The lists that are stored.                                              *)
LEMMA SimulationTyped ==
  ASSUME Typed, RunInv, [Next]_vars
  PROVE  IsSimulation(simulation')
<1>1. IsSimulation(simulation)
  BY DEF Typed
<1>2. \A list \in Seq(Tasks) : IsSimulation(Simulation(list))
  BY DEF Simulation, IsSimulation
<1>3. IsSimulation(NoSimulation)
  BY DEF NoSimulation, IsSimulation
<1>4. ASSUME NEW h \in Admins, ApproveWrite(h)
      PROVE  IsSimulation(simulation')
  <2>1. admin[h].item \in ItemIds /\ admin[h].seen \in Seq(Tasks)
    BY <1>4 DEF ApproveWrite, RunInv, Approving, Typed, AdminType
  <2>2. Append(admin[h].seen, ReviewTask(admin[h].item)) \in Seq(Tasks)
    BY <2>1, TaskKinds, AppendFacts
  <2>. QED
    BY <1>1, <1>2, <1>4, <2>2 DEF ApproveWrite
<1>5. ASSUME NEW c \in Clients, EditSave(c)
      PROVE  IsSimulation(simulation')
  <2>1. client[c].view \in Seq(Tasks) /\ edits \in 1..MaxEdits
    BY <1>5, Bounds DEF EditSave, RunInv, Typed, ClientType
  <2>2. simulation' = simulation \/ \E list \in Edits(client[c].view) : simulation' = Simulation(list)
    BY <1>5 DEF EditSave, Save
  <2>. QED
    BY <1>1, <1>2, <2>1, <2>2, EditFacts
<1>6. CASE WorkerUpsert
  BY <1>2, <1>6 DEF WorkerUpsert, Typed, WorkerType
<1>. QED
  BY <1>1, <1>3, <1>4, <1>5, <1>6, SimulationWritten DEF DeleteRow

LEMMA NextTyped ==
  ASSUME Typed, RunInv, [Next]_vars
  PROVE  Typed' /\ RunInv'
<1>1. /\ worker' \in WorkerType
      /\ worker'.at # "idle" => worker'.run > 0
      /\ Len(worker'.made) <= worker'.slot
      /\ \A k \in DOMAIN worker'.made : worker'.made[k] = RunTask(worker'.run, k)
  <2>1. CASE worker' = worker
    BY <2>1 DEF Typed, RunInv
  <2>. QED
    BY <2>1, WorkerWritten, WorkerTyped
<1>2. /\ admin' \in [Admins -> AdminType]
      /\ \A h \in Admins : admin'[h].at \in {"embedding", "read"} => admin'[h].item \in ItemIds
  <2>1. /\ admin \in [Admins -> AdminType]
        /\ \A h \in Admins : admin[h].at \in {"embedding", "read"} => admin[h].item \in ItemIds
    BY DEF Typed, RunInv, Approving
  <2>2. CASE admin' = admin
    BY <2>1, <2>2
  <2>3. ASSUME NEW h \in Admins, AdminSteps(h)
        PROVE  /\ admin' \in [Admins -> AdminType]
               /\ \A g \in Admins : admin'[g].at \in {"embedding", "read"} => admin'[g].item \in ItemIds
    <3>1. PICK a \in AdminType : /\ admin' = [admin EXCEPT ![h] = a]
                                 /\ a.at \in {"embedding", "read"} => a.item \in ItemIds
      BY <2>3, AdminTyped
    <3>. QED
      BY <2>1, <3>1
  <2>. QED
    BY <2>2, <2>3, AdminWritten
<1>3. /\ client' \in [Clients -> ClientType] /\ edits' \in 0..MaxEdits
      /\ \A c \in Clients : client'[c].at = "editing" => edits' > 0
  <2>1. /\ client \in [Clients -> ClientType] /\ edits \in 0..MaxEdits
        /\ \A c \in Clients : client[c].at = "editing" => edits > 0
    BY DEF Typed, RunInv
  <2>2. CASE UNCHANGED <<client, edits>>
    BY <2>1, <2>2
  <2>3. ASSUME NEW c \in Clients, ClientSteps(c)
        PROVE  /\ client' \in [Clients -> ClientType] /\ edits' \in 0..MaxEdits
               /\ \A d \in Clients : client'[d].at = "editing" => edits' > 0
    <3>1. PICK r \in ClientType : /\ client' = [client EXCEPT ![c] = r]
                                  /\ r.at = "editing" => edits' > 0
      BY <2>3, ClientTyped
    <3>2. edits' \in 0..MaxEdits /\ edits <= edits'
      BY <2>3, ClientTyped
    <3>3. edits > 0 => edits' > 0
      BY <2>1, <3>2, Bounds
    <3>. QED
      BY <2>1, <3>1, <3>2, <3>3
  <2>. QED
    BY <2>2, <2>3, ClientWritten
<1>4. items' \in [ItemIds -> ItemStates]
  <2>1. items \in [ItemIds -> ItemStates]
    BY DEF Typed
  <2>2. \A i, s : s \in ItemStates => [items EXCEPT ![i] = s] \in [ItemIds -> ItemStates]
    BY <2>1
  <2>3. \A s \in ItemStates : [i \in ItemIds |-> s] \in [ItemIds -> ItemStates]
    OBVIOUS
  <2>. QED
    BY <2>1, <2>2, <2>3, ItemsWritten
       DEF WorkerSlotFlagged, ApproveMark, RejectMark, Resolve, DeleteRow, ItemStates
<1>5. job' \in Statuses
  <2>1. job \in Statuses
    BY DEF Typed
  <2>. QED
    BY <2>1 DEF Next, QueueGeneration, WorkerSteps, WorkerStart, WorkerSlotPasses, WorkerSlotFlagged, WorkerUpsert,
       SetJob, WorkerSetStatus, WorkerReturns, WorkerCatches, WorkerDies, AdminSteps, ApproveMark, RejectMark, Resolve,
       ApproveRead, ApproveWrite, ApproveFails, Announce, UpdateJobStatus, CloseJob, ClientSteps, PublishCheck,
       PublishLoad, PublishUpdate, DeleteCheck, DeleteRow, EditOpen, EditSave, vars, Statuses
<1>6. news' = [resolved |-> news'.resolved, live |-> news'.live] /\ news'.resolved \in BOOLEAN
  <2>1. news = [resolved |-> news.resolved, live |-> news.live] /\ news.resolved \in BOOLEAN
    BY DEF Typed
  <2>2. \/ news' = news \/ \E n : news' = [news EXCEPT !.live = n]
        \/ \E b \in BOOLEAN : news' = [news EXCEPT !.resolved = b]
    BY NewsWritten DEF ApproveMark, RejectMark, Resolve, Announce
  <2>. QED
    BY <2>1, <2>2
<1>7. Typed'
  BY <1>1, <1>2, <1>3, <1>4, <1>5, <1>6, SimulationTyped, RepeatedStays DEF Typed
<1>. QED
  BY <1>1, <1>2, <1>3, <1>7 DEF RunInv, Approving

-----------------------------------------------------------------------------
(* Review items.                                                           *)

(* A run moves over its slots in order and gives way to the next one only   *)
(* when it is over.                                                        *)
LEMMA WorkerMoves ==
  ASSUME Typed, [Next]_vars
  PROVE  \/ worker'.run = worker.run + 1 /\ worker.at = "idle"
         \/ /\ worker'.run = worker.run
            /\ \/ worker'.at = "idle"
               \/ worker.at # "idle" /\ worker'.slot \in {worker.slot, worker.slot + 1}
<1>1. worker \in WorkerType
  BY DEF Typed
<1>2. CASE WorkerSlotPasses \/ WorkerSlotFlagged \/ WorkerUpsert \/ WorkerSetStatus
  BY <1>1, <1>2 DEF WorkerSlotPasses, WorkerSlotFlagged, WorkerUpsert, WorkerSetStatus, NextSlot, WorkerType
<1>3. CASE WorkerStart
  BY <1>1, <1>3 DEF WorkerStart, IdleWorker
<1>4. CASE WorkerReturns \/ WorkerCatches \/ WorkerDies
  BY <1>4 DEF WorkerReturns, WorkerCatches, WorkerDies, IdleWorker
<1>5. CASE worker' = worker
  BY <1>5
<1>. QED
  BY <1>2, <1>3, <1>4, <1>5, WorkerWritten DEF WorkerSteps

LEMMA NextItems ==
  ASSUME Typed, RunInv, ItemsInv, [Next]_vars
  PROVE  ItemsInv'
<1>1. /\ worker \in WorkerType /\ worker.run \in Nat /\ worker.slot \in Nat
      /\ items \in [ItemIds -> ItemStates]
      /\ \A i \in ItemIds : i[1] \in Nat /\ i[2] \in Nat
  BY Bounds DEF Typed, WorkerType, ItemIds
<1>2. \A i \in ItemIds : OverAndDone(i) => OverAndDone(i)'
  BY <1>1, WorkerMoves DEF OverAndDone
<1>3. ASSUME NEW i \in ItemIds, items'[i] # "none"
      PROVE  OverAndDone(i)'
  <2>1. CASE items[i] # "none"
    BY <1>2, <2>1 DEF ItemsInv
  <2>2. CASE WorkerSlotFlagged /\ items[i] = "none"
    <3>1. /\ items' = [items EXCEPT ![<<worker.run, worker.slot + 1>>] = "PENDING"]
          /\ worker' = [worker EXCEPT !.slot = @ + 1, !.made = worker.made]
      BY <2>2 DEF WorkerSlotFlagged, NextSlot
    <3>2. i = <<worker.run, worker.slot + 1>>
      BY <1>1, <1>3, <2>2, <3>1
    <3>3. worker'.run = worker.run /\ worker'.slot = worker.slot + 1
      BY <1>1, <3>1 DEF WorkerType
    <3>4. i[1] = worker.run /\ i[2] = worker.slot + 1
      BY <3>2
    <3>. QED
      BY <1>1, <3>3, <3>4 DEF OverAndDone
  <2>3. ASSUME NEW j \in ItemIds, NEW h \in Admins, ApproveMark(h, j) \/ RejectMark(h, j), items[i] = "none"
        PROVE  FALSE
    BY <1>1, <1>3, <2>3 DEF ApproveMark, RejectMark, Resolve
  <2>4. ASSUME NEW c \in Clients, DeleteRow(c)
        PROVE  FALSE
    BY <1>3, <2>4 DEF DeleteRow
  <2>. QED
    BY <1>3, <2>1, <2>2, <2>3, <2>4, ItemsWritten
<1>4. ASSUME ~Exists'
      PROVE  simulation' = NoSimulation /\ \A i \in ItemIds : items'[i] = "none"
  <2>1. ASSUME NEW c \in Clients, DeleteRow(c)
        PROVE  simulation' = NoSimulation /\ \A i \in ItemIds : items'[i] = "none"
    BY <2>1 DEF DeleteRow
  <2>2. ASSUME ~Exists, \A c \in Clients : ~DeleteRow(c)
        PROVE  simulation' = NoSimulation /\ \A i \in ItemIds : items'[i] = "none"
    <3>1. simulation = NoSimulation /\ \A i \in ItemIds : items[i] = "none"
      BY <2>2 DEF ItemsInv
    <3>2. simulation' = simulation
      BY <2>2, <3>1, SimulationWritten DEF WorkerUpsert, ApproveWrite, EditSave, Save, NoSimulation
    <3>3. items' = items
      BY <2>2, ItemsWritten DEF WorkerSlotFlagged, ApproveMark, RejectMark, Resolve
    <3>. QED
      BY <3>1, <3>2, <3>3
  <2>. QED
    BY <1>4, <2>1, <2>2, ExistenceWritten
<1>. QED
  BY <1>3, <1>4 DEF ItemsInv

LEMMA ResolvedStand ==
  ASSUME Typed, ItemsInv, [Next]_vars, NEW i \in ItemIds, items[i] \in Resolved
  PROVE  items'[i] = items[i] \/ \E c \in Clients : DeleteRow(c)
<1>1. items \in [ItemIds -> ItemStates] /\ OverAndDone(i)
  BY DEF Typed, ItemsInv, Resolved
<1>2. worker.run \in Nat /\ worker.slot \in Nat
  BY Bounds DEF Typed, WorkerType
<1>3. CASE WorkerSlotFlagged
  <2>1. i # <<worker.run, worker.slot + 1>>
    BY <1>1, <1>2, <1>3 DEF WorkerSlotFlagged, OverAndDone
  <2>. QED
    BY <1>1, <1>3, <2>1 DEF WorkerSlotFlagged
<1>4. ASSUME NEW h \in Admins, NEW j \in ItemIds, ApproveMark(h, j) \/ RejectMark(h, j)
      PROVE  items'[i] = items[i]
  BY <1>1, <1>4 DEF ApproveMark, RejectMark, Resolve, Resolved
<1>. QED
  BY <1>3, <1>4, ItemsWritten

-----------------------------------------------------------------------------
(* The lists.                                                              *)

LEMMA SoundGrows ==
  ASSUME NEW list, NEW settled, NEW larger, settled \subseteq larger,
         NEW begun \in Nat, NEW later \in Nat, begun <= later, Sound(list, settled, begun)
  PROVE  Sound(list, larger, later)
BY Bounds DEF Sound

(* An approval begins with its item pending and keeps it till the end.     *)
LEMMA AdminMoves ==
  ASSUME Typed, [Next]_vars, NEW h \in Admins
  PROVE  \/ admin'[h] = admin[h]
         \/ admin'[h].at \notin {"embedding", "read"}
         \/ /\ ApproveRead(h) /\ admin[h].at = "embedding"
            /\ admin'[h].item = admin[h].item /\ admin'[h].seen = simulation.tasks
         \/ \E i \in ItemIds : ApproveMark(h, i) /\ admin'[h].item = i /\ admin'[h].at = "embedding"
<1>1. admin \in [Admins -> AdminType] /\ admin[h] \in AdminType
  BY DEF Typed
<1>2. CASE admin' = admin
  BY <1>2
<1>3. ASSUME NEW g \in Admins, g # h, AdminSteps(g)
      PROVE  admin'[h] = admin[h]
  BY <1>1, <1>3 DEF AdminSteps, ApproveMark, RejectMark, Resolve, ApproveRead, ApproveWrite, Goes, ApproveFails, Announce
<1>4. ASSUME NEW i \in ItemIds, ApproveMark(h, i)
      PROVE  admin'[h].item = i /\ admin'[h].at = "embedding"
  BY <1>1, <1>4 DEF ApproveMark, Resolve
<1>5. ASSUME NEW i \in ItemIds, RejectMark(h, i)
      PROVE  admin'[h].at = "announcing"
  BY <1>1, <1>5 DEF RejectMark, Resolve
<1>6. CASE ApproveRead(h)
  BY <1>1, <1>6 DEF ApproveRead, AdminType
<1>7. CASE ApproveWrite(h)
  BY <1>1, <1>7 DEF ApproveWrite, Goes, AdminType
<1>8. CASE ApproveFails(h) \/ Announce(h)
  BY <1>1, <1>8, IdleTyped DEF ApproveFails, Announce
<1>. QED
  BY <1>2, <1>3, <1>4, <1>5, <1>6, <1>7, <1>8, AdminWritten DEF AdminSteps

LEMMA ClientMoves ==
  ASSUME Typed, [Next]_vars, NEW c \in Clients
  PROVE  \/ client'[c] = client[c] /\ edits \in Nat /\ edits' \in Nat /\ edits <= edits'
         \/ client'[c].at # "editing"
         \/ EditOpen(c) /\ client'[c].view = simulation.tasks /\ edits' = edits + 1
<1>1. client \in [Clients -> ClientType] /\ client[c] \in ClientType /\ edits \in Nat
  BY Bounds DEF Typed
<1>2. CASE UNCHANGED <<client, edits>>
  BY <1>1, <1>2
<1>3. ASSUME NEW d \in Clients, d # c, ClientSteps(d)
      PROVE  client'[c] = client[c] /\ edits \in Nat /\ edits' \in Nat /\ edits <= edits'
  <2>1. client'[c] = client[c]
    BY <1>1, <1>3 DEF ClientSteps, PublishCheck, PublishLoad, PublishUpdate, DeleteCheck, DeleteRow, EditOpen,
       EditSave, Rest
  <2>2. edits' = edits \/ edits' = edits + 1
    BY <1>3 DEF ClientSteps, PublishCheck, PublishLoad, PublishUpdate, DeleteCheck, DeleteRow, EditOpen, EditSave
  <2>. QED
    BY <1>1, <2>1, <2>2
<1>4. CASE PublishUpdate(c) \/ DeleteRow(c) \/ EditSave(c)
  BY <1>1, <1>4, IdleTyped DEF PublishUpdate, DeleteRow, EditSave, Rest
<1>5. CASE PublishCheck(c) \/ PublishLoad(c) \/ DeleteCheck(c)
  BY <1>1, <1>5, IdleTyped DEF PublishCheck, PublishLoad, DeleteCheck, Rest, ClientType
<1>6. CASE EditOpen(c)
  BY <1>1, <1>6 DEF EditOpen, ClientType
<1>. QED
  BY <1>2, <1>3, <1>4, <1>5, <1>6, ClientWritten DEF ClientSteps

LEMMA NextLists ==
  ASSUME Typed, RunInv, ItemsInv, ListsInv, [Next]_vars
  PROVE  ListsInv'
<1>. SUFFICES ASSUME Exists'
              PROVE  /\ Sound(simulation'.tasks, Settled', edits' + 1)
                     /\ \A h \in Admins : admin'[h].at = "read" => Sound(admin'[h].seen, Settled', edits' + 1)
                     /\ \A c \in Clients : client'[c].at = "editing" => Sound(client'[c].view, Settled', edits')
                     /\ \A h \in Admins : Approving(h)' =>
                          /\ items'[admin'[h].item] = "APPROVED_WITH_EDITS"
                          /\ \A g \in Admins : Approving(g)' /\ admin'[g].item = admin'[h].item => g = h
  BY DEF ListsInv
<1>1. /\ Exists
      /\ Sound(simulation.tasks, Settled, edits + 1)
      /\ \A h \in Admins : admin[h].at = "read" => Sound(admin[h].seen, Settled, edits + 1)
      /\ \A c \in Clients : client[c].at = "editing" => Sound(client[c].view, Settled, edits)
      /\ \A h \in Admins : Approving(h) =>
           /\ items[admin[h].item] = "APPROVED_WITH_EDITS"
           /\ \A g \in Admins : Approving(g) /\ admin[g].item = admin[h].item => g = h
  BY ExistenceWritten DEF ListsInv
<1>2. /\ items \in [ItemIds -> ItemStates] /\ admin \in [Admins -> AdminType]
      /\ edits \in Nat /\ edits' \in Nat /\ edits <= edits' /\ edits' <= edits' + 1 /\ edits + 1 <= edits' + 1
  <2>1. edits \in 0..MaxEdits
    BY DEF Typed
  <2>2. edits' = edits \/ edits' = edits + 1
    BY ClientWritten DEF ClientSteps, PublishCheck, PublishLoad, PublishUpdate, DeleteCheck, DeleteRow, EditOpen, EditSave
  <2>. QED
    BY <2>1, <2>2, Bounds DEF Typed
<1>3. \A i \in ItemIds : items[i] = "APPROVED_WITH_EDITS" => items'[i] = "APPROVED_WITH_EDITS"
  BY ResolvedStand DEF Resolved, DeleteRow, Exists
<1>4. ASSUME NEW h \in Admins, Approving(h)'
      PROVE  /\ items'[admin'[h].item] = "APPROVED_WITH_EDITS" /\ admin'[h].item \in ItemIds
             /\ \/ Approving(h) /\ admin'[h].item = admin[h].item
                \/ ApproveMark(h, admin'[h].item)
  <2>1. CASE Approving(h) /\ admin'[h].item = admin[h].item
    BY <1>1, <1>3, <2>1 DEF RunInv
  <2>2. ASSUME NEW i \in ItemIds, ApproveMark(h, i), admin'[h].item = i
        PROVE  items'[i] = "APPROVED_WITH_EDITS"
    BY <1>2, <2>2 DEF ApproveMark, Resolve
  <2>. QED
    BY <1>4, <2>1, <2>2, AdminMoves DEF Approving
<1>5. ASSUME NEW h \in Admins, NEW g \in Admins, Approving(h)', Approving(g)', admin'[g].item = admin'[h].item
      PROVE  g = h
  <2>1. CASE Approving(g) /\ admin'[g].item = admin[g].item /\ Approving(h) /\ admin'[h].item = admin[h].item
    BY <1>1, <1>5, <2>1
  <2>2. ASSUME NEW a \in Admins, NEW b \in Admins, ApproveMark(a, admin'[a].item), Approving(b),
               admin'[b].item = admin[b].item, admin'[b].item = admin'[a].item
        PROVE  FALSE
    BY <1>1, <2>2 DEF ApproveMark
  <2>3. CASE ApproveMark(g, admin'[g].item) /\ ApproveMark(h, admin'[h].item)
    <3>. SUFFICES ASSUME g # h PROVE FALSE
      OBVIOUS
    <3>1. admin'[h] = admin[h]
      BY <1>2, <2>3 DEF ApproveMark, Resolve
    <3>2. admin[h].at = "idle"
      BY <2>3 DEF ApproveMark
    <3>. QED
      BY <1>5, <3>1, <3>2 DEF Approving
  <2>. QED
    BY <1>4, <1>5, <2>1, <2>2, <2>3
<1>6. Settled \subseteq Settled'
  <2>1. ASSUME NEW i \in Settled, NEW h \in Admins, Approving(h)'
        PROVE  admin'[h].item # i
    BY <1>4, <2>1 DEF Settled, ApproveMark
  <2>. QED
    BY <1>3, <2>1 DEF Settled
<1>7. Sound(simulation'.tasks, Settled', edits' + 1)
  <2>1. CASE simulation' = simulation
    BY <1>1, <1>2, <1>6, <2>1, SoundGrows
  <2>2. CASE WorkerUpsert
    <3>1. PICK made \in Seq(Tasks) : made = worker.made /\ simulation'.tasks = made
      BY <2>2 DEF WorkerUpsert, Simulation, Typed, WorkerType
    <3>2. \A k \in DOMAIN made : TaskId(made[k]) = <<"task", k>>
      BY <3>1, TaskIds DEF RunInv
    <3>4. \A x : <<"review", x>> \notin Ids(made) /\ <<"own", x>> \notin Ids(made)
      BY <3>2 DEF Ids
    <3>. QED
      BY <3>1, <3>4 DEF Sound
  <2>3. ASSUME NEW h \in Admins, ApproveWrite(h), simulation.row
        PROVE  Sound(simulation'.tasks, Settled', edits' + 1)
    <3>1. Approving(h) /\ admin[h].at = "read" /\ admin[h].item \in ItemIds /\ edits' = edits
      BY <2>3 DEF ApproveWrite, Approving, RunInv
    <3>2. PICK i \in ItemIds : i = admin[h].item
      BY <3>1
    <3>3. i \notin Settled /\ items[i] = "APPROVED_WITH_EDITS"
      BY <1>1, <3>1, <3>2 DEF Settled
    <3>4. PICK seen \in Seq(Tasks) : seen = admin[h].seen
      BY DEF Typed, AdminType
    <3>5. PICK t \in Tasks : t = ReviewTask(i) /\ TaskId(t) = <<"review", i>>
      BY TaskKinds, TaskIds
    <3>6. Sound(seen, Settled, edits + 1) /\ Sound(seen, Settled', edits + 1)
      BY <1>1, <1>2, <1>6, <3>1, <3>4, SoundGrows
    <3>8. i \in Settled'
      <4>1. admin' = [admin EXCEPT ![h].at = "announcing"] /\ items' = items
        BY <2>3 DEF ApproveWrite, Goes
      <4>2. ASSUME NEW g \in Admins, Approving(g)'
            PROVE  admin'[g].item # i
        <5>1. g # h
          BY <1>2, <4>1, <4>2 DEF Approving, AdminType
        <5>2. Approving(g) /\ admin'[g].item = admin[g].item
          BY <1>2, <4>1, <4>2, <5>1 DEF Approving
        <5>. QED
          BY <1>1, <3>1, <3>2, <5>1, <5>2
      <4>. QED
        BY <3>3, <4>1, <4>2 DEF Settled
    <3>9. Ids(Append(seen, t)) = Ids(seen) \cup {<<"review", i>>}
      BY <3>5, AppendFacts
    <3>10. simulation'.tasks = Append(seen, t)
      BY <2>3, <3>2, <3>4, <3>5 DEF ApproveWrite, Simulation
    <3>11. /\ \A j : <<"review", j>> = <<"review", i>> => j = i
           /\ \A e : <<"own", e>> # <<"review", i>>
      OBVIOUS
    <3>. QED
      BY <3>1, <3>6, <3>8, <3>9, <3>10, <3>11 DEF Sound
  <2>4. ASSUME NEW c \in Clients, EditSave(c), simulation' # simulation
        PROVE  Sound(simulation'.tasks, Settled', edits' + 1)
    <3>1. client[c].at = "editing" /\ edits' = edits /\ edits \in 1..MaxEdits
      BY <1>2, <2>4, Bounds DEF EditSave, RunInv, Typed
    <3>2. PICK view \in Seq(Tasks) : view = client[c].view
      BY DEF Typed, ClientType
    <3>3. PICK list \in Edits(view) :
            simulation'.tasks = list
      BY <2>4, <3>2 DEF EditSave, Save, Simulation
    <3>4. Sound(view, Settled, edits) /\ Sound(view, Settled', edits)
      BY <1>1, <1>2, <1>6, <3>1, <3>2, SoundGrows
    <3>5. Ids(list) \subseteq Ids(view) \cup {<<"own", edits>>}
      BY <3>1, EditFacts
    <3>7. /\ \A e : <<"own", e>> = <<"own", edits>> => e = edits
          /\ \A i : <<"review", i>> # <<"own", edits>>
      OBVIOUS
    <3>8. /\ \A i \in ItemIds : <<"review", i>> \in Ids(list) => i \in Settled'
          /\ \A e \in 1..MaxEdits : <<"own", e>> \in Ids(list) => e < edits' + 1
      BY <1>2, <3>1, <3>4, <3>5, <3>7, Bounds DEF Sound
    <3>. QED
      BY <3>3, <3>8 DEF Sound
  <2>5. ASSUME NEW c \in Clients, DeleteRow(c)
        PROVE  FALSE
    BY <2>5 DEF DeleteRow, Exists
  <2>6. ASSUME NEW h \in Admins, ApproveWrite(h), ~simulation.row
        PROVE  simulation' = simulation
    BY <2>6 DEF ApproveWrite
  <2>. QED
    BY <2>1, <2>2, <2>3, <2>4, <2>5, <2>6, SimulationWritten
<1>8. ASSUME NEW h \in Admins, admin'[h].at = "read"
      PROVE  Sound(admin'[h].seen, Settled', edits' + 1)
  <2>1. CASE admin'[h] = admin[h]
    BY <1>1, <1>2, <1>6, <1>8, <2>1, SoundGrows
  <2>2. CASE admin'[h].seen = simulation.tasks
    BY <1>1, <1>2, <1>6, <2>2, SoundGrows
  <2>. QED
    BY <1>8, <2>1, <2>2, AdminMoves
<1>9. ASSUME NEW c \in Clients, client'[c].at = "editing"
      PROVE  Sound(client'[c].view, Settled', edits')
  <2>1. CASE client'[c] = client[c]
    BY <1>1, <1>2, <1>6, <1>9, <2>1, SoundGrows
  <2>2. CASE client'[c].view = simulation.tasks /\ edits' = edits + 1
    BY <1>1, <1>2, <1>6, <2>2, SoundGrows
  <2>. QED
    BY <1>9, <2>1, <2>2, ClientMoves
<1>. QED
  BY <1>4, <1>5, <1>7, <1>8, <1>9

(* No step but a save of the employer makes a list with an id twice.       *)
LEMMA NextOnce ==
  ASSUME Typed, RunInv, ItemsInv, ListsInv, OnceInv, [Next]_vars
  PROVE  OnceInv'
<1>. SUFFICES ASSUME Exists', ~repeated', NEW list \in Held'
              PROVE  NoIdTwice(list)
  BY DEF OnceInv
<1>1. Exists /\ ~repeated /\ \A old \in Held : NoIdTwice(old)
  BY ExistenceWritten, RepeatedStays DEF OnceInv
<1>2. CASE list = simulation'.tasks
  <2>1. CASE simulation' = simulation
    BY <1>1, <1>2, <2>1 DEF Held
  <2>2. CASE WorkerUpsert
    <3>1. PICK made \in Seq(Tasks) : made = worker.made /\ simulation'.tasks = made
      BY <2>2 DEF WorkerUpsert, Simulation, Typed, WorkerType
    <3>2. \A k \in DOMAIN made : TaskId(made[k]) = <<"task", k>>
      BY <3>1, TaskIds DEF RunInv
    <3>. QED
      BY <1>2, <3>1, <3>2 DEF NoIdTwice
  <2>3. ASSUME NEW h \in Admins, ApproveWrite(h), simulation.row
        PROVE  NoIdTwice(list)
    <3>1. Approving(h) /\ admin[h].at = "read" /\ admin[h].item \in ItemIds
      BY <2>3 DEF ApproveWrite, Approving, RunInv
    <3>2. PICK i \in ItemIds : i = admin[h].item
      BY <3>1
    <3>3. i \notin Settled
      BY <3>1, <3>2 DEF Settled
    <3>4. PICK seen \in Seq(Tasks) : seen = admin[h].seen
      BY DEF Typed, AdminType
    <3>5. PICK t \in Tasks : t = ReviewTask(i) /\ TaskId(t) = <<"review", i>>
      BY TaskKinds, TaskIds
    <3>6. Sound(seen, Settled, edits + 1) /\ NoIdTwice(seen)
      BY <1>1, <3>1, <3>4 DEF ListsInv, Held
    <3>7. TaskId(t) \notin Ids(seen)
      BY <3>3, <3>5, <3>6 DEF Sound
    <3>8. NoIdTwice(Append(seen, t))
      BY <3>6, <3>7, AppendFacts
    <3>9. simulation'.tasks = Append(seen, t)
      BY <2>3, <3>2, <3>4, <3>5 DEF ApproveWrite, Simulation
    <3>. QED
      BY <1>2, <3>8, <3>9
  <2>4. ASSUME NEW c \in Clients, EditSave(c), simulation' # simulation
        PROVE  NoIdTwice(list)
    <3>1. PICK saved : simulation'.tasks = saved /\ repeated' = (repeated \/ ~NoIdTwice(saved))
      BY <2>4 DEF EditSave, Save, Simulation
    <3>2. NoIdTwice(saved)
      BY <3>1, Zenon
    <3>. QED
      BY <1>2, <3>1, <3>2
  <2>5. ASSUME NEW c \in Clients, DeleteRow(c)
        PROVE  FALSE
    BY <2>5 DEF DeleteRow, Exists
  <2>6. ASSUME NEW h \in Admins, ApproveWrite(h), ~simulation.row
        PROVE  simulation' = simulation
    BY <2>6 DEF ApproveWrite
  <2>. QED
    BY <2>1, <2>2, <2>3, <2>4, <2>5, <2>6, SimulationWritten
<1>3. ASSUME NEW h \in Admins, admin'[h].at = "read", list = admin'[h].seen
      PROVE  NoIdTwice(list)
  <2>1. CASE admin'[h] = admin[h]
    BY <1>1, <1>3, <2>1 DEF Held
  <2>2. CASE admin'[h].seen = simulation.tasks
    BY <1>1, <1>3, <2>2 DEF Held
  <2>. QED
    BY <1>3, <2>1, <2>2, AdminMoves
<1>4. ASSUME NEW c \in Clients, client'[c].at = "editing", list = client'[c].view
      PROVE  NoIdTwice(list)
  <2>1. CASE client'[c] = client[c]
    BY <1>1, <1>4, <2>1 DEF Held
  <2>2. CASE client'[c].view = simulation.tasks
    BY <1>1, <1>4, <2>2 DEF Held
  <2>. QED
    BY <1>4, <2>1, <2>2, ClientMoves
<1>. QED
  BY <1>2, <1>3, <1>4 DEF Held

-----------------------------------------------------------------------------
(* The last resolution.                                                    *)

LEMMA NextTold ==
  ASSUME Typed, RunInv, ItemsInv, ToldInv, [Next]_vars, "approval" \notin Faults
  PROVE  ToldInv'
<1>1. /\ admin \in [Admins -> AdminType] /\ items \in [ItemIds -> ItemStates] /\ worker \in WorkerType
      /\ news = [resolved |-> news.resolved, live |-> news.live]
  BY DEF Typed
<1>2. CASE UNCHANGED <<admin, items>> /\ news'.resolved = news.resolved
  BY <1>2 DEF ToldInv, PendingItems
<1>3. CASE WorkerSlotFlagged
  <2>1. PICK i \in ItemIds : i = <<worker.run, worker.slot + 1>>
    <3>1. worker.run \in 1..MaxRuns /\ worker.slot + 1 \in 1..Slots
      BY <1>1, <1>3, Bounds DEF WorkerSlotFlagged, RunInv, WorkerType
    <3>. QED
      BY <3>1 DEF ItemIds
  <2>2. items'[i] = "PENDING"
    BY <1>1, <1>3, <2>1 DEF WorkerSlotFlagged
  <2>. QED
    BY <2>2 DEF ToldInv, PendingItems
<1>4. ASSUME NEW c \in Clients, DeleteRow(c)
      PROVE  ToldInv'
  BY <1>4 DEF DeleteRow, ToldInv
<1>5. ASSUME NEW h \in Admins, NEW i \in ItemIds, ApproveMark(h, i) \/ RejectMark(h, i)
      PROVE  ToldInv'
  <2>1. admin'[h].at \in {"embedding", "announcing"}
    BY <1>1, <1>5 DEF ApproveMark, RejectMark, Resolve
  <2>. QED
    BY <2>1 DEF ToldInv
<1>6. ASSUME NEW h \in Admins, ApproveRead(h) \/ ApproveWrite(h)
      PROVE  ToldInv'
  <2>1. admin'[h].at \in {"read", "announcing"}
    BY <1>1, <1>6 DEF ApproveRead, ApproveWrite, Goes, AdminType
  <2>. QED
    BY <2>1 DEF ToldInv
<1>7. ASSUME NEW h \in Admins, Announce(h)
      PROVE  ToldInv'
  <2>1. items' = items
    BY <1>7 DEF Announce
  <2>2. CASE PendingItems = {} /\ Exists
    BY <1>1, <1>7, <2>2 DEF Announce, ToldInv
  <2>3. CASE PendingItems # {}
    BY <2>1, <2>3 DEF ToldInv, PendingItems
  <2>4. CASE ~Exists
    BY <2>1, <2>4 DEF ItemsInv, ToldInv
  <2>. QED
    BY <2>2, <2>3, <2>4
<1>8. CASE UNCHANGED <<admin, items>> /\ \E n : news' = [news EXCEPT !.live = n]
  BY <1>1, <1>2, <1>8
<1>9. \A h \in Admins : ~ApproveFails(h)
  BY DEF ApproveFails
<1>10. CASE UNCHANGED <<admin, items, news>>
  BY <1>2, <1>10
<1>. QED
  BY <1>3, <1>4, <1>5, <1>6, <1>7, <1>8, <1>9, <1>10, AdminWritten, ItemsWritten, NewsWritten DEF AdminSteps

-----------------------------------------------------------------------------
(* The theorems.                                                           *)

PublicationInv == Typed /\ RunInv /\ ItemsInv /\ ListsInv /\ OnceInv

LEMMA PublicationInvariant == Spec => []PublicationInv
<1>1. Init => PublicationInv
  <2>1. Init => ListsInv /\ OnceInv
    <3>. SUFFICES ASSUME Init PROVE ListsInv /\ OnceInv
      OBVIOUS
    <3>1. /\ simulation.tasks = <<>> /\ admin = [h \in Admins |-> IdleAdmin]
          /\ client = [c \in Clients |-> IdleClient]
      BY DEF Init, NoSimulation
    <3>2. /\ \A h \in Admins : admin[h].at = "idle"
          /\ \A c \in Clients : client[c].at = "idle"
      BY <3>1, IdleTyped
    <3>3. Sound(<<>>, Settled, edits + 1)
      BY DEF Sound, Ids
    <3>4. NoIdTwice(<<>>)
      BY DEF NoIdTwice
    <3>. QED
      BY <3>1, <3>2, <3>3, <3>4 DEF ListsInv, OnceInv, Held, Approving
  <2>. QED
    BY <2>1, InitTyped DEF PublicationInv
<1>2. PublicationInv /\ [Next]_vars => PublicationInv'
  BY NextTyped, NextItems, NextLists, NextOnce DEF PublicationInv
<1>. QED
  BY <1>1, <1>2, PTL DEF Spec

(* TaskIdsAreUnique: however approvals (a list read, extended and written  *)
(* back), the employer's edits with lists seen before and new generation   *)
(* runs interleave, none of them puts a task into the simulation a second  *)
(* time; only the employer can, by saving a list that has it twice.        *)
THEOREM TaskIdsUnique == Spec => []TaskIdsAreUnique
<1>1. PublicationInv => TaskIdsAreUnique
  <2>1. CASE Exists
    BY <2>1 DEF PublicationInv, OnceInv, Held, TaskIdsAreUnique
  <2>2. CASE ~Exists
    BY <2>2 DEF PublicationInv, ItemsInv, NoSimulation, TaskIdsAreUnique, NoIdTwice
  <2>. QED
    BY <2>1, <2>2
<1>. QED
  BY <1>1, PublicationInvariant, PTL

(* ServedIsApproved: a review task candidates are given was approved and   *)
(* not rejected since, whatever lists admins and employers still hold.     *)
THEOREM ServedTasksAreApproved == Spec => []ServedIsApproved
<1>1. PublicationInv => ServedIsApproved
  <2>. SUFFICES ASSUME PublicationInv, NEW i \in ItemIds, ReviewTask(i) \in ToSet(simulation.tasks)
                PROVE  items[i] = "APPROVED_WITH_EDITS"
    BY DEF ServedIsApproved
  <2>1. <<"review", i>> \in Ids(simulation.tasks)
    BY TaskIds DEF ToSet, Ids
  <2>2. simulation.tasks # <<>>
    BY <2>1 DEF Ids
  <2>3. Exists
    BY <2>2 DEF PublicationInv, ItemsInv, NoSimulation
  <2>. QED
    BY <2>1, <2>3 DEF PublicationInv, ListsInv, Sound, Settled
<1>. QED
  BY <1>1, PublicationInvariant, PTL

(* ResolutionIsFinal: a decision on a review item stands until the job is  *)
(* deleted, also against a decision of another admin at the same moment    *)
(* and against a later run of the worker.                                  *)
THEOREM ResolutionsStand == Spec => ResolutionIsFinal
<1>1. PublicationInv /\ [Next]_vars =>
        [\A i \in ItemIds : items[i] \in {"APPROVED_WITH_EDITS", "REJECTED"} =>
           items'[i] \in {items[i], "none"}]_items
  <2>. SUFFICES ASSUME PublicationInv, [Next]_vars, NEW i \in ItemIds, items[i] \in Resolved
                PROVE  items'[i] \in {items[i], "none"}
    BY DEF Resolved
  <2>. QED
    BY ResolvedStand DEF PublicationInv, DeleteRow
<1>. QED
  BY <1>1, PublicationInvariant, PTL DEF Spec, ResolutionIsFinal

(* LastResolutionIsAnnounced: whoever resolves the last pending item, the  *)
(* employer is told of it, provided that nothing throws between an         *)
(* approval's UPDATE and its notification (the code has no retry there).   *)
THEOREM LastResolutionAnnounced ==
  ASSUME "approval" \notin Faults
  PROVE  Spec => []LastResolutionIsAnnounced
<1>1. Init => ToldInv
  BY DEF Init, ToldInv
<1>2. PublicationInv /\ ToldInv /\ [Next]_vars => ToldInv'
  BY NextTold DEF PublicationInv
<1>3. ToldInv => LastResolutionIsAnnounced
  BY DEF ToldInv, LastResolutionIsAnnounced
<1>. QED
  BY <1>1, <1>2, <1>3, PublicationInvariant, PTL DEF Spec
=============================================================================
