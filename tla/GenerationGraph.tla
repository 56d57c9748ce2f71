-------------------------- MODULE GenerationGraph ---------------------------
(***************************************************************************)
(* One run of the simulation generation graph for one job: the nodes, the  *)
(* two routers, the working state the nodes pass on, the rows they write   *)
(* and the progress reported from their completions.  What the language    *)
(* models answer (plans, contents, verdicts) is a choice of the step that  *)
(* asks them; an answer or a query that throws fails the run.              *)
(***************************************************************************)
EXTENDS Integers, Sequences, SequencesExt, Functions

CONSTANTS
  Slots,         \* generationConfig.selectedTaskCount
  MaxAttempts,   \* generationConfig.maxCriticAttempts
  TaskTypes,     \* the role module's allowed task pattern types
  SpecTypes      \* those with a spec template, whose type the model cannot change

ASSUME SlotsAssumption == Slots \in Nat \ {0}
ASSUME AttemptsAssumption == MaxAttempts \in Nat \ {0}
ASSUME TypesAssumption == SpecTypes \subseteq TaskTypes /\ TaskTypes # {}

VARIABLES
  node,       \* the node to run next, or "done" / "failed"
  steps,      \* LangGraph supersteps taken
  slot, attempt, tried, draft, critic,   \* the per-slot working state
  pool, selected,                        \* candidatePool, selectedCandidates
  finalized,                             \* finalizedTasks: one record per task
  flagged,                               \* slots of adminReviewItems
  bar                                    \* the progress tracker: slot and percent

slotState == <<slot, attempt, tried, draft, critic>>
plan == <<pool, selected>>
results == <<finalized, flagged>>
vars == <<node, steps, slotState, plan, results, bar>>

-----------------------------------------------------------------------------
(* Candidates.  Ids are distinct ("cand-1", "cand-1-retry-2"): a candidate *)
(* is identified by the slot and attempt it was made for.                  *)

Candidate == [slot : 0..Slots - 1, attempt : 0..MaxAttempts - 1, type : TaskTypes]
Id(c) == <<c.slot, c.attempt>>
Draft == [candidate : Candidate, type : TaskTypes, content : BOOLEAN]
NoDraft == [content |-> FALSE]

(* Bound on a run: LangGraph throws when a graph needs more supersteps.    *)
RecursionLimit == 2 + Slots * (MaxAttempts * 3 + 1)

(* Mutant: as many candidates skipped as there were attempts.              *)
UntriedByAttempt == IF attempt < Len(pool) THEN {pool[attempt + 1]} ELSE {}

(* The first candidate of the pool not yet tried for this slot, if any.    *)
Untried == {pool[i] : i \in {k \in DOMAIN pool :
  Id(pool[k]) \notin tried /\ \A j \in 1..k - 1 : Id(pool[j]) \in tried}}

(* Types used neither by the other slots' planned candidates nor by a      *)
(* candidate already tried for this one; any type if that leaves none.     *)
EligibleTypes ==
  LET others == {selected[i].type : i \in DOMAIN selected \ {slot + 1}}
      triedHere == {c.type : c \in {d \in Range(pool) : Id(d) \in tried}}
      eligible == TaskTypes \ (others \cup triedHere)
  IN IF eligible = {} THEN TaskTypes ELSE eligible

Replacements == [slot : {slot}, attempt : {attempt}, type : EligibleTypes]

CandidatesForSlot ==
  CASE attempt = 0 /\ slot < Len(selected) -> {selected[slot + 1]}
    [] attempt = 0 /\ slot >= Len(selected) -> {}
    [] attempt > 0 /\ Untried # {} -> Untried
    [] attempt > 0 /\ Untried = {} -> Replacements

(* The type the model may give the content of a task of this type.         *)
TypeOfContent(type) == IF type \in SpecTypes THEN {type} ELSE TaskTypes

-----------------------------------------------------------------------------
(* Progress: percent is kept rounded, from a preamble of 30 and a slot     *)
(* loop of 65 shared equally; tenths is the part of a slot's share done.   *)

Reached(tenths) == (2 * (300 * Slots + 650 * bar.slot + 65 * tenths) + 10 * Slots) \div (20 * Slots)

Emit(at, reached) == bar' = [slot |-> at, percent |-> IF reached > bar.percent THEN reached ELSE bar.percent]

(* Mutant: off by one in the tracker's last slot.                           *)
SlotFinishedEarly ==
  IF bar.slot >= Slots - 2
  THEN Emit(bar.slot, 95)
  ELSE Emit(bar.slot + 1, Reached(10))

SlotFinished ==
  IF bar.slot >= Slots - 1
  THEN Emit(bar.slot, 95)
  ELSE Emit(bar.slot + 1, Reached(10))

-----------------------------------------------------------------------------
(* The nodes.  Run(n, next) is one superstep that executes node n.         *)

Run(n, next) ==
  /\ node = n /\ node' = next
  /\ steps < RecursionLimit /\ steps' = steps + 1

Extraction ==
  /\ Run("extraction", "planTasks")
  /\ Emit(bar.slot, 10)
  /\ UNCHANGED <<slotState, plan, results>>

(* The plan schema refuses two candidates of one type, not a short plan.   *)
PlanTasks ==
  /\ Run("planTasks", "taskGeneration")
  /\ \E n \in 1..Slots : \E type \in Injection(1..n, TaskTypes) :
       pool' = [i \in 1..n |-> [slot |-> i - 1, attempt |-> 0, type |-> type[i]]]
  /\ selected' = pool'
  /\ Emit(bar.slot, 30)
  /\ UNCHANGED <<slotState, results>>

(* Inputs of a spec-backed task may form no valid task: no content.        *)
TaskGeneration ==
  /\ Run("taskGeneration", "critic")
  /\ \E c \in CandidatesForSlot :
       /\ \/ \E type \in TypeOfContent(c.type) : draft' = [candidate |-> c, type |-> type, content |-> TRUE]
          \/ c.type \in SpecTypes /\ draft' = [candidate |-> c, type |-> c.type, content |-> FALSE]
       /\ pool' = IF attempt > 0 /\ Untried = {} THEN Append(pool, c) ELSE pool
  /\ Emit(bar.slot, Reached(5))
  /\ UNCHANGED <<slot, attempt, tried, critic, selected, results>>

(* A draft without content is rejected unread; otherwise the checks pass,  *)
(* fail for wording, figures or payload only, or reject the idea.          *)
Verdicts == IF draft.content THEN {"passed", "repairable", "rejected"} ELSE {"rejected"}

RegenerationRoute(verdict) ==
  CASE verdict = "passed" -> "persist"
    [] attempt < MaxAttempts - 1 /\ verdict = "repairable" -> "repairTask"
    [] attempt < MaxAttempts - 1 /\ verdict = "rejected" -> "prepareRetry"
    [] OTHER -> "adminReviewFlag"

Critic == \E verdict \in Verdicts :
  /\ Run("critic", RegenerationRoute(verdict))
  /\ critic' = verdict
  /\ Emit(bar.slot, Reached(8))
  /\ UNCHANGED <<slot, attempt, tried, draft, plan, results>>

(* Mutant: off by one in the slot loop.                                     *)
SlotAdvanceRouteOnceMore == IF slot < Slots THEN "prepareNextSlot" ELSE "done"

SlotAdvanceRoute == IF slot < Slots - 1 THEN "prepareNextSlot" ELSE "done"

Persist ==
  /\ Run("persist", SlotAdvanceRoute)
  /\ draft.content
  /\ finalized' = Append(finalized, [slot |-> slot, candidate |-> Id(draft.candidate), type |-> draft.type])
  /\ SlotFinished
  /\ UNCHANGED <<slotState, plan, flagged>>

AdminReviewFlag ==
  /\ Run("adminReviewFlag", SlotAdvanceRoute)
  /\ flagged' = Append(flagged, slot)
  /\ SlotFinished
  /\ UNCHANGED <<slotState, plan, finalized>>

PrepareRetry ==
  /\ Run("prepareRetry", "taskGeneration")
  /\ attempt' = attempt + 1
  /\ tried' = tried \cup {Id(draft.candidate)}
  /\ UNCHANGED <<slot, draft, critic, plan, results, bar>>

(* Mutant: repairs do not count as attempts.                                *)
RepairTaskForFree ==
  /\ Run("repairTask", "critic")
  /\ draft.content
  /\ \/ UNCHANGED draft
     \/ draft.type \in SpecTypes /\ draft' = [draft EXCEPT !.content = FALSE]
  /\ UNCHANGED <<slot, attempt, tried, critic, plan, results, bar>>

RepairTask ==
  /\ Run("repairTask", "critic")
  /\ draft.content
  /\ attempt' = attempt + 1
  /\ \/ UNCHANGED draft
     \/ draft.type \in SpecTypes /\ draft' = [draft EXCEPT !.content = FALSE]
  /\ UNCHANGED <<slot, tried, critic, plan, results, bar>>

PrepareNextSlot ==
  /\ Run("prepareNextSlot", "taskGeneration")
  /\ slot' = slot + 1 /\ attempt' = 0 /\ tried' = {}
  /\ draft' = NoDraft /\ critic' = "none"
  /\ UNCHANGED <<plan, results, bar>>

Ended == node \in {"done", "failed"}

(* A model call, a query or LangGraph itself throws; what the nodes wrote  *)
(* to the database stays.                                                  *)
Throw ==
  /\ ~Ended /\ node' = "failed"
  /\ UNCHANGED <<steps, slotState, plan, results, bar>>

Init ==
  /\ node = "extraction" /\ steps = 0
  /\ slot = 0 /\ attempt = 0 /\ tried = {} /\ draft = NoDraft /\ critic = "none"
  /\ pool = <<>> /\ selected = <<>>
  /\ finalized = <<>> /\ flagged = <<>>
  /\ bar = [slot |-> 0, percent |-> 0]

Nodes ==
  \/ Extraction \/ PlanTasks \/ TaskGeneration \/ Critic \/ Persist \/ AdminReviewFlag
  \/ PrepareRetry \/ RepairTask \/ PrepareNextSlot

Next == Nodes \/ Throw

Spec == Init /\ [][Next]_vars

-----------------------------------------------------------------------------
(* Properties.                                                             *)

(* Every variable has its type; no slot goes past its attempts.            *)
TypeOK ==
  /\ node \in {"extraction", "planTasks", "taskGeneration", "critic", "persist", "adminReviewFlag",
               "prepareRetry", "repairTask", "prepareNextSlot", "done", "failed"}
  /\ steps \in 0..RecursionLimit
  /\ slot \in 0..Slots - 1 /\ attempt \in 0..MaxAttempts - 1
  /\ tried \subseteq (0..Slots - 1) \X (0..MaxAttempts - 1)
  /\ draft \in Draft \cup {NoDraft}
  /\ critic \in {"none", "passed", "repairable", "rejected"}
  /\ pool \in Seq(Candidate) /\ selected \in Seq(Candidate)
  /\ finalized \in Seq([slot : 0..Slots - 1, type : TaskTypes,
                        candidate : (0..Slots - 1) \X (0..MaxAttempts - 1)])
  /\ flagged \in Seq(0..Slots - 1)
  /\ bar \in [slot : 0..Slots - 1, percent : 0..95]

(* generationRecursionLimit is an upper bound on the supersteps of a run:  *)
(* LangGraph never stops a run that still has a node to execute, whatever  *)
(* mixture of repairs, retries and slots the verdicts lead to.             *)
LimitNeverReached == ~Ended => steps < RecursionLimit

(* A slot is flagged for admin review only when its last attempt failed,   *)
(* and a draft that did not pass is never persisted as a task.             *)
RoutedByVerdict ==
  /\ node = "adminReviewFlag" => attempt = MaxAttempts - 1 /\ critic # "passed"
  /\ node = "persist" => draft.content /\ critic = "passed"
  /\ node = "repairTask" => draft.content

(* A retry never picks a candidate this slot has already seen rejected.    *)
RetryIsFresh == node = "critic" => Id(draft.candidate) \notin tried

(* The progress the employer watches is that of the slots: it reads 95 if  *)
(* and only if every slot has ended, and it counts the slot worked on.     *)
ProgressIsTruthful ==
  LET ended == Len(finalized) + Len(flagged) IN
  /\ bar.percent = 95 <=> ended = Slots
  /\ bar.slot = IF ended = Slots THEN Slots - 1 ELSE ended

(* Every slot ends once, in order, as a task or a review item.             *)
Outcome == [i \in 1..(Len(finalized) + Len(flagged)) |-> IF i - 1 \in Range(flagged) THEN "review" ELSE "task"]
Promise == INSTANCE GenerationRun WITH
  phase <- IF Ended THEN node ELSE "running", outcome <- Outcome
ImplementsRun == Promise!Spec

-----------------------------------------------------------------------------
(* Statements of the repository's own comments, messages and documents     *)
(* that the code does not keep: each is refuted by TLC (README, "Known     *)
(* disagreements").                                                        *)

(* What the plan's schema says of a simulation: no two tasks of one type.  *)
TaskTypesAreUnique == \A i, k \in DOMAIN finalized : finalized[i].type = finalized[k].type => i = k

(* What the design document says of inputs that do not form a valid task:  *)
(* they are repaired, the same candidate staying, while attempts are left. *)
InvalidInputsAreRepaired == node = "prepareRetry" => draft.content
=============================================================================
