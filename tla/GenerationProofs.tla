-------------------------- MODULE GenerationProofs -------------------------
(***************************************************************************)
(* Theorems about GenerationGraph, for every number of slots and attempts  *)
(* and every set of task types: a run stays within the supersteps that     *)
(* generationRecursionLimit computes, routes drafts by their verdicts,     *)
(* never retries a candidate already rejected for its slot, implements     *)
(* GenerationRun, and reports the progress of the slots it has ended.      *)
(***************************************************************************)
EXTENDS GenerationGraph, TLAPS

-----------------------------------------------------------------------------
(* The inductive invariant.  A slot costs at most SlotCost supersteps, an  *)
(* attempt at most three of them; Offset is how far into its attempt (or,  *)
(* for prepareNextSlot, beyond its last attempt) a node is executed.       *)

SlotCost == MaxAttempts * 3 + 1
Paid(slots) == slots * SlotCost

Offset ==
  CASE node = "taskGeneration" -> 0
    [] node = "critic" -> 1
    [] node \in {"persist", "adminReviewFlag", "prepareRetry", "repairTask"} -> 2
    [] OTHER -> 3

Preamble == {"extraction", "planTasks"}
InSlot == {"taskGeneration", "critic", "persist", "adminReviewFlag", "prepareRetry",
           "repairTask", "prepareNextSlot"}

ControlTyped ==
  /\ node \in Preamble \cup InSlot \cup {"done", "failed"}
  /\ steps \in 0..RecursionLimit
  /\ slot \in 0..Slots - 1 /\ attempt \in 0..MaxAttempts - 1

(* Whoever retries has an attempt left; whoever goes on has a slot left.   *)
RoutersLookAhead ==
  /\ node \in {"prepareRetry", "repairTask"} => attempt < MaxAttempts - 1
  /\ node = "prepareNextSlot" => slot < Slots - 1

StepsPaid ==
  /\ node = "extraction" => steps = 0
  /\ node = "planTasks" => steps = 1
  /\ node \in Preamble => slot = 0 /\ attempt = 0
  /\ node \in InSlot => steps <= 2 + Paid(slot) + 3 * attempt + Offset

ControlInv == ControlTyped /\ RoutersLookAhead /\ StepsPaid

-----------------------------------------------------------------------------
(* Arithmetic.                                                             *)

LEMMA CostPositive == SlotCost \in Nat \ {0} /\ Slots \in Nat \ {0} /\ MaxAttempts \in Nat \ {0}
BY SlotsAssumption, AttemptsAssumption DEF SlotCost

LEMMA PaidForSlots ==
  /\ Paid(0) = 0
  /\ \A k \in Nat : Paid(k) \in Nat /\ Paid(k + 1) = Paid(k) + SlotCost
BY CostPositive DEF Paid

LEMMA LimitIsPaid == RecursionLimit = 2 + Paid(Slots) /\ RecursionLimit \in Nat
BY CostPositive DEF RecursionLimit, Paid, SlotCost

LEMMA SlotsBefore ==
  ASSUME NEW k \in 0..Slots - 1
  PROVE  Paid(k) + SlotCost <= Paid(Slots)
<1>1. (k + 1) * SlotCost <= Slots * SlotCost
  BY CostPositive
<1>2. k \in Nat
  BY CostPositive
<1>. QED
  BY <1>1, <1>2, PaidForSlots DEF Paid

(* What has been paid for a node of a slot leaves one superstep for it.    *)
LEMMA PaidIsBelowLimit ==
  ASSUME ControlTyped, StepsPaid, node \in Preamble \cup InSlot
  PROVE  steps < RecursionLimit
<1>1. Paid(slot) + SlotCost <= Paid(Slots) /\ Paid(slot) \in Nat /\ Paid(Slots) \in Nat
  BY SlotsBefore, PaidForSlots, CostPositive DEF ControlTyped
<1>2. Offset \in 0..3
  BY DEF Offset
<1>3. /\ attempt \in Nat /\ steps \in Nat /\ SlotCost \in Nat
      /\ 3 * attempt + 3 < SlotCost
  BY CostPositive, LimitIsPaid DEF ControlTyped, SlotCost
<1>4. CASE node \in Preamble
  <2>1. steps <= 1
    BY <1>4 DEF StepsPaid, Preamble
  <2>. QED
    BY <2>1, <1>1, <1>3, LimitIsPaid
<1>5. CASE node \in InSlot
  BY <1>1, <1>2, <1>3, <1>5, LimitIsPaid DEF StepsPaid
<1>. QED
  BY <1>4, <1>5

-----------------------------------------------------------------------------
(* The steps.                                                              *)

LEMMA InitControl == Init => ControlInv
BY CostPositive, LimitIsPaid
   DEF Init, ControlInv, ControlTyped, RoutersLookAhead, StepsPaid, Preamble, InSlot

(* A superstep that stays in its slot and attempt and moves Offset by one. *)
LEMMA NextControl == ControlInv /\ [Next]_vars => ControlInv'
<1>. SUFFICES ASSUME ControlInv, [Next]_vars PROVE ControlInv'
  OBVIOUS
<1>. USE DEF ControlInv, ControlTyped, RoutersLookAhead, StepsPaid, Preamble, InSlot
<1>1. steps' \in 0..RecursionLimit \/ steps' = steps
  BY LimitIsPaid DEF Next, Nodes, Run, Extraction, PlanTasks, TaskGeneration, Critic, Persist,
     AdminReviewFlag, PrepareRetry, RepairTask, PrepareNextSlot, Throw, vars
<1>a. slot \in Nat /\ attempt \in Nat /\ steps \in Nat /\ Slots \in Nat \ {0} /\ MaxAttempts \in Nat \ {0}
  BY CostPositive, LimitIsPaid
<1>b. /\ Paid(slot) \in Nat /\ SlotCost \in Nat /\ SlotCost = MaxAttempts * 3 + 1
      /\ Paid(slot + 1) = Paid(slot) + SlotCost
  BY <1>a, PaidForSlots, CostPositive DEF SlotCost
<1>2. CASE Extraction
  BY <1>2, <1>1, <1>a DEF Extraction, Run, slotState
<1>3. CASE PlanTasks
  <2>1. Paid(slot) = 0
    BY <1>3, PaidForSlots DEF PlanTasks, Run
  <2>2. /\ node' = "taskGeneration" /\ steps' = 2 /\ slot' = slot /\ attempt' = 0 /\ slot = 0 /\ steps = 1
    BY <1>3 DEF PlanTasks, Run, slotState
  <2>. QED
    BY <2>1, <2>2, <1>1, <1>a DEF Offset
<1>4. CASE TaskGeneration
  <2>1. /\ node = "taskGeneration" /\ node' = "critic" /\ steps' = steps + 1
        /\ slot' = slot /\ attempt' = attempt
    BY <1>4 DEF TaskGeneration, Run
  <2>. QED
    BY <2>1, <1>1, <1>a, <1>b DEF Offset
<1>5. CASE Critic
  <2>1. PICK verdict \in Verdicts : Run("critic", RegenerationRoute(verdict))
    BY <1>5 DEF Critic
  <2>2. /\ RegenerationRoute(verdict) \in {"persist", "repairTask", "prepareRetry", "adminReviewFlag"}
        /\ RegenerationRoute(verdict) \in {"repairTask", "prepareRetry"} => attempt < MaxAttempts - 1
    BY DEF RegenerationRoute
  <2>3. node = "critic" /\ node' = RegenerationRoute(verdict) /\ steps' = steps + 1
    BY <2>1 DEF Run
  <2>4. slot' = slot /\ attempt' = attempt
    BY <1>5 DEF Critic
  <2>. QED
    BY <2>2, <2>3, <2>4, <1>1, <1>a, <1>b DEF Offset
<1>6. CASE Persist \/ AdminReviewFlag
  <2>1. /\ node \in {"persist", "adminReviewFlag"} /\ node' = SlotAdvanceRoute /\ steps' = steps + 1
        /\ slot' = slot /\ attempt' = attempt
    BY <1>6 DEF Persist, AdminReviewFlag, Run, slotState
  <2>2. /\ SlotAdvanceRoute \in {"prepareNextSlot", "done"}
        /\ SlotAdvanceRoute = "prepareNextSlot" => slot < Slots - 1
    BY DEF SlotAdvanceRoute
  <2>. QED
    BY <2>1, <2>2, <1>1, <1>a, <1>b DEF Offset
<1>7. CASE PrepareRetry
  BY <1>7, <1>1, <1>a, <1>b DEF PrepareRetry, Run, Offset
<1>8. CASE RepairTask
  BY <1>8, <1>1, <1>a, <1>b DEF RepairTask, Run, Offset
<1>9. CASE PrepareNextSlot
  <2>1. /\ node = "prepareNextSlot" /\ node' = "taskGeneration" /\ steps' = steps + 1
        /\ slot' = slot + 1 /\ attempt' = 0 /\ slot < Slots - 1
    BY <1>9 DEF PrepareNextSlot, Run
  <2>2. steps <= 2 + Paid(slot) + 3 * attempt + 3
    BY <2>1 DEF Offset
  <2>3. steps' <= 2 + Paid(slot')
    BY <2>1, <2>2, <1>a, <1>b
  <2>. QED
    BY <2>1, <2>3, <1>1, <1>a, <1>b DEF Offset
<1>10. CASE Throw
  BY <1>10, <1>1, <1>a DEF Throw, slotState
<1>11. CASE UNCHANGED vars
  BY <1>11, <1>1, <1>a DEF vars, slotState, Offset
<1>. QED
  BY <1>2, <1>3, <1>4, <1>5, <1>6, <1>7, <1>8, <1>9, <1>10, <1>11 DEF Next, Nodes

(* What LangGraph counts never reaches its limit while there is a node to  *)
(* execute (buildGenerationGraph, generationRecursionLimit).               *)
THEOREM StepsBounded == Spec => []LimitNeverReached
<1>1. ControlInv => LimitNeverReached
  BY PaidIsBelowLimit DEF ControlInv, ControlTyped, LimitNeverReached, Ended
<1>. QED
  BY InitControl, NextControl, <1>1, PTL DEF Spec

(* What the critic found decides where its draft goes, and nothing that    *)
(* happens on the way changes either.                                      *)
LEMMA NextRouted == ControlInv /\ RoutedByVerdict /\ [Next]_vars => RoutedByVerdict'
<1>. SUFFICES ASSUME ControlInv, RoutedByVerdict, [Next]_vars PROVE RoutedByVerdict'
  OBVIOUS
<1>. DEFINE Routed == {"adminReviewFlag", "persist", "repairTask"}
<1>1. CASE Critic
  <2>1. PICK verdict \in Verdicts :
          node' = RegenerationRoute(verdict) /\ critic' = verdict
    BY <1>1 DEF Critic, Run
  <2>2. draft' = draft /\ attempt' = attempt
    BY <1>1 DEF Critic
  <2>3. /\ verdict \in {"passed", "repairable"} => draft.content
        /\ verdict \in {"passed", "repairable", "rejected"}
    BY DEF Verdicts
  <2>4. /\ node' = "persist" <=> verdict = "passed"
        /\ node' = "repairTask" => verdict = "repairable"
        /\ node' = "adminReviewFlag" => ~(attempt < MaxAttempts - 1)
    BY <2>1, <2>3 DEF RegenerationRoute
  <2>5. ~(attempt < MaxAttempts - 1) => attempt = MaxAttempts - 1
    BY CostPositive DEF ControlInv, ControlTyped
  <2>. QED
    BY <2>1, <2>2, <2>3, <2>4, <2>5 DEF RoutedByVerdict
<1>2. CASE UNCHANGED vars
  BY <1>2 DEF vars, slotState, RoutedByVerdict
<1>3. CASE Persist \/ AdminReviewFlag
  BY <1>3 DEF Persist, AdminReviewFlag, Run, SlotAdvanceRoute, RoutedByVerdict
<1>4. CASE (Next /\ ~Critic) /\ ~(Persist \/ AdminReviewFlag)
  <2>1. node' \notin Routed
    BY <1>4 DEF Next, Nodes, Run, Extraction, PlanTasks, TaskGeneration, PrepareRetry, RepairTask,
       PrepareNextSlot, Throw
  <2>. QED
    BY <2>1 DEF RoutedByVerdict
<1>. QED
  BY <1>1, <1>2, <1>3, <1>4

(* A slot is given to the admins only after its last attempt, and a draft  *)
(* that did not pass never becomes a task (regenerationRouter).            *)
THEOREM VerdictsRespected == Spec => []RoutedByVerdict
<1>1. Init => ControlInv /\ RoutedByVerdict
  BY InitControl DEF Init, RoutedByVerdict
<1>2. ControlInv /\ RoutedByVerdict /\ [Next]_vars => (ControlInv /\ RoutedByVerdict)'
  BY NextControl, NextRouted
<1>. QED
  BY <1>1, <1>2, PTL DEF Spec

-----------------------------------------------------------------------------
(* Types.  The nodes after taskGeneration work on a draft.                 *)

DraftMade ==
  node \in {"critic", "persist", "adminReviewFlag", "prepareRetry", "repairTask"} => draft \in Draft

TypeInv == ControlInv /\ TypeOK /\ DraftMade

Percent == 0..95
Progress == [slot : 0..Slots - 1, percent : Percent]

LEMMA ReachedIsPercent ==
  ASSUME bar \in Progress, NEW tenths \in 0..10
  PROVE  Reached(tenths) \in Percent
<1>. DEFINE part == 2 * (300 * Slots + 650 * bar.slot + 65 * tenths) + 10 * Slots
            whole == 20 * Slots
<1>1. whole \in Nat \ {0} /\ part \in Nat /\ part < 96 * whole
  BY CostPositive DEF Progress
<1>2. (part \div whole) \in Nat /\ whole * (part \div whole) <= part
  BY <1>1
<1>3. (part \div whole) <= 95
  <2>. DEFINE quotient == part \div whole
  <2>1. SUFFICES ASSUME quotient >= 96 PROVE FALSE
    BY <1>2
  <2>2. whole * quotient >= whole * 96
    BY <2>1, <1>1, <1>2
  <2>. QED
    BY <2>2, <1>1, <1>2
<1>. QED
  BY <1>2, <1>3 DEF Reached, Percent

LEMMA EmitTyped ==
  ASSUME bar \in Progress, NEW at \in 0..Slots - 1, NEW reached \in Percent, Emit(at, reached)
  PROVE  bar' \in Progress
BY DEF Emit, Progress, Percent

LEMMA SlotFinishedTyped ==
  ASSUME bar \in Progress, SlotFinished
  PROVE  bar' \in Progress
<1>1. CASE bar.slot >= Slots - 1
  BY <1>1, EmitTyped DEF SlotFinished, Progress, Percent
<1>2. CASE ~(bar.slot >= Slots - 1)
  <2>1. bar.slot + 1 \in 0..Slots - 1
    BY <1>2, CostPositive DEF Progress
  <2>. QED
    BY <1>2, <2>1, EmitTyped, ReachedIsPercent DEF SlotFinished
<1>. QED
  BY <1>1, <1>2

LEMMA CandidatesTyped ==
  ASSUME ControlTyped, pool \in Seq(Candidate), selected \in Seq(Candidate),
         NEW c \in CandidatesForSlot
  PROVE  c \in Candidate
<1>1. CASE attempt = 0
  <2>1. slot < Len(selected) /\ c = selected[slot + 1]
    BY <1>1, CostPositive DEF CandidatesForSlot, ControlTyped
  <2>2. slot + 1 \in 1..Len(selected)
    BY <2>1 DEF ControlTyped
  <2>. QED
    BY <2>1, <2>2
<1>2. CASE attempt > 0 /\ Untried # {}
  BY <1>2 DEF CandidatesForSlot, Untried
<1>3. CASE attempt > 0 /\ Untried = {}
  <2>1. c \in [slot : {slot}, attempt : {attempt}, type : EligibleTypes]
    BY <1>3 DEF CandidatesForSlot, Replacements
  <2>2. EligibleTypes \subseteq TaskTypes
    BY DEF EligibleTypes
  <2>. QED
    BY <2>1, <2>2 DEF Candidate, ControlTyped
<1>4. attempt = 0 \/ attempt > 0
  BY CostPositive DEF ControlTyped
<1>. QED
  BY <1>1, <1>2, <1>3, <1>4

LEMMA InitTyped == Init => TypeInv
BY InitControl, CostPositive, LimitIsPaid
   DEF Init, TypeInv, TypeOK, DraftMade, ControlInv, ControlTyped, Preamble, InSlot

(* Where each variable but the control ones is written.                    *)
LEMMA NextTyped == TypeInv /\ [Next]_vars => TypeInv'
<1>. SUFFICES ASSUME TypeInv, [Next]_vars PROVE TypeInv'
  OBVIOUS
<1>1. ControlInv'
  BY NextControl DEF TypeInv
<1>2. /\ bar \in Progress /\ draft \in Draft \cup {NoDraft}
      /\ pool \in Seq(Candidate) /\ selected \in Seq(Candidate)
  BY DEF TypeInv, TypeOK, Progress, Percent
<1>3. ControlTyped /\ bar.slot \in 0..Slots - 1 /\ slot \in 0..Slots - 1 /\ attempt \in 0..MaxAttempts - 1
  BY <1>2 DEF TypeInv, ControlInv, ControlTyped, Progress
<1>4. bar' \in Progress
  <2>1. CASE Extraction \/ PlanTasks
    <3>1. PICK reached \in {10, 30} : Emit(bar.slot, reached)
      BY <2>1 DEF Extraction, PlanTasks
    <3>2. reached \in Percent
      BY DEF Percent
    <3>. QED
      BY <1>2, <1>3, <3>1, <3>2, EmitTyped
  <2>2. CASE TaskGeneration \/ Critic
    BY <1>2, <1>3, <2>2, EmitTyped, ReachedIsPercent DEF TaskGeneration, Critic
  <2>3. CASE Persist \/ AdminReviewFlag
    BY <1>2, <2>3, SlotFinishedTyped DEF Persist, AdminReviewFlag
  <2>4. CASE PrepareRetry \/ RepairTask \/ PrepareNextSlot \/ Throw \/ UNCHANGED vars
    BY <1>2, <2>4 DEF PrepareRetry, RepairTask, PrepareNextSlot, Throw, vars
  <2>. QED
    BY <2>1, <2>2, <2>3, <2>4 DEF Next, Nodes
<1>5. selected' \in Seq(Candidate) /\ pool' \in Seq(Candidate)
  <2>1. CASE PlanTasks
    <3>1. PICK n \in 1..Slots : \E type \in Injection(1..n, TaskTypes) :
            pool' = [i \in 1..n |-> [slot |-> i - 1, attempt |-> 0, type |-> type[i]]]
      BY <2>1 DEF PlanTasks
    <3>2. PICK type \in [1..n -> TaskTypes] :
            pool' = [i \in 1..n |-> [slot |-> i - 1, attempt |-> 0, type |-> type[i]]]
      BY <3>1 DEF Injection
    <3>3. \A i \in 1..n : [slot |-> i - 1, attempt |-> 0, type |-> type[i]] \in Candidate
      BY CostPositive DEF Candidate
    <3>4. pool' \in Seq(Candidate)
      <4>1. pool' \in [1..n -> Candidate] /\ n \in Nat
        BY <3>2, <3>3
      <4>. QED
        BY <4>1
    <3>. QED
      BY <3>4, <2>1 DEF PlanTasks
  <2>2. CASE TaskGeneration
    <3>1. PICK c \in CandidatesForSlot :
            pool' = IF attempt > 0 /\ Untried = {} THEN Append(pool, c) ELSE pool
      BY <2>2 DEF TaskGeneration
    <3>2. c \in Candidate
      BY <1>2, <1>3, CandidatesTyped
    <3>. QED
      BY <1>2, <2>2, <3>1, <3>2 DEF TaskGeneration
  <2>3. CASE ~(PlanTasks \/ TaskGeneration)
    BY <1>2, <2>3 DEF Next, Nodes, Extraction, Critic, Persist, AdminReviewFlag, PrepareRetry, RepairTask,
       PrepareNextSlot, Throw, plan, vars
  <2>. QED
    BY <2>1, <2>2, <2>3
<1>6. draft' \in Draft \cup {NoDraft} /\ DraftMade'
  <2>1. CASE TaskGeneration
    <3>1. PICK c \in CandidatesForSlot :
            \/ \E type \in TypeOfContent(c.type) :
                 draft' = [candidate |-> c, type |-> type, content |-> TRUE]
            \/ draft' = [candidate |-> c, type |-> c.type, content |-> FALSE]
      BY <2>1 DEF TaskGeneration
    <3>2. c \in Candidate
      BY <1>2, <1>3, CandidatesTyped
    <3>3. c.type \in TaskTypes /\ TypeOfContent(c.type) \subseteq TaskTypes
      BY <3>2, TypesAssumption DEF Candidate, TypeOfContent
    <3>4. draft' \in Draft
      <4>1. CASE \E type \in TypeOfContent(c.type) :
                   draft' = [candidate |-> c, type |-> type, content |-> TRUE]
        BY <4>1, <3>2, <3>3 DEF Draft
      <4>2. CASE draft' = [candidate |-> c, type |-> c.type, content |-> FALSE]
        BY <4>2, <3>2, <3>3 DEF Draft
      <4>. QED
        BY <3>1, <4>1, <4>2
    <3>. QED
      BY <3>4 DEF DraftMade
  <2>2. CASE RepairTask
    BY <2>2, <1>2 DEF RepairTask, Run, TypeInv, DraftMade, Draft
  <2>3. CASE Critic
    BY <2>3, <1>2 DEF Critic, Run, TypeInv, DraftMade
  <2>4. CASE PrepareNextSlot
    BY <2>4 DEF PrepareNextSlot, Run, DraftMade
  <2>5. CASE Extraction \/ PlanTasks \/ Persist \/ AdminReviewFlag \/ PrepareRetry \/ Throw
    BY <2>5, <1>2 DEF Extraction, PlanTasks, Persist, AdminReviewFlag, PrepareRetry, Throw, Run, slotState,
       SlotAdvanceRoute, DraftMade
  <2>6. CASE UNCHANGED vars
    BY <2>6, <1>2 DEF vars, slotState, TypeInv, DraftMade
  <2>. QED
    BY <2>1, <2>2, <2>3, <2>4, <2>5, <2>6 DEF Next, Nodes
<1>7. /\ tried' \subseteq (0..Slots - 1) \X (0..MaxAttempts - 1)
      /\ critic' \in {"none", "passed", "repairable", "rejected"}
  <2>. DEFINE Ids == (0..Slots - 1) \X (0..MaxAttempts - 1)
  <2>1. tried \subseteq Ids /\ critic \in {"none", "passed", "repairable", "rejected"}
    BY DEF TypeInv, TypeOK
  <2>2. CASE PrepareRetry
    <3>1. draft \in Draft
      BY <2>2 DEF PrepareRetry, Run, TypeInv, DraftMade
    <3>2. Id(draft.candidate) \in Ids
      BY <3>1 DEF Draft, Candidate, Id
    <3>. QED
      BY <2>1, <2>2, <3>2 DEF PrepareRetry
  <2>3. CASE Critic
    BY <2>1, <2>3 DEF Critic, Verdicts
  <2>4. CASE ~(PrepareRetry \/ Critic)
    BY <2>1, <2>4 DEF Next, Nodes, Extraction, PlanTasks, TaskGeneration, Persist, AdminReviewFlag, RepairTask,
       PrepareNextSlot, Throw, slotState, vars
  <2>. QED
    BY <2>2, <2>3, <2>4
<1>8. /\ finalized' \in Seq([slot : 0..Slots - 1, type : TaskTypes,
                            candidate : (0..Slots - 1) \X (0..MaxAttempts - 1)])
      /\ flagged' \in Seq(0..Slots - 1)
  <2>. DEFINE Task == [slot : 0..Slots - 1, type : TaskTypes,
                       candidate : (0..Slots - 1) \X (0..MaxAttempts - 1)]
  <2>1. finalized \in Seq(Task) /\ flagged \in Seq(0..Slots - 1)
    BY DEF TypeInv, TypeOK
  <2>2. CASE Persist
    <3>1. draft \in Draft
      BY <2>2 DEF Persist, Run, TypeInv, DraftMade
    <3>2. [slot |-> slot, candidate |-> Id(draft.candidate), type |-> draft.type] \in Task
      BY <1>3, <3>1 DEF Draft, Candidate, Id
    <3>. QED
      BY <2>1, <2>2, <3>2 DEF Persist
  <2>3. CASE AdminReviewFlag
    BY <1>3, <2>1, <2>3 DEF AdminReviewFlag
  <2>4. CASE ~(Persist \/ AdminReviewFlag)
    BY <2>1, <2>4 DEF Next, Nodes, Extraction, PlanTasks, TaskGeneration, Critic, PrepareRetry, RepairTask,
       PrepareNextSlot, Throw, results, vars
  <2>. QED
    BY <2>2, <2>3, <2>4
<1>9. TypeOK'
  BY <1>1, <1>4, <1>5, <1>6, <1>7, <1>8
     DEF TypeOK, ControlInv, ControlTyped, Preamble, InSlot, Progress, Percent
<1>. QED
  BY <1>1, <1>6, <1>9 DEF TypeInv

(* The working state keeps its shape: in particular no slot is given more  *)
(* attempts than maxCriticAttempts, and the progress stays a percentage.   *)
THEOREM GenerationTyped == Spec => []TypeOK
<1>1. TypeInv => TypeOK
  BY DEF TypeInv
<1>. QED
  BY InitTyped, NextTyped, <1>1, PTL DEF Spec

-----------------------------------------------------------------------------
(* Retries.  A candidate of the current slot was made for an attempt that  *)
(* is over or under way; slots to come have their planned candidate only.  *)

NotAhead(c) ==
  /\ c.slot > slot => c.attempt = 0
  /\ c.slot = slot => c.attempt <= attempt

DraftNodes == {"critic", "persist", "adminReviewFlag", "prepareRetry", "repairTask"}

RetryInv ==
  /\ \A i \in DOMAIN pool : NotAhead(pool[i])
  /\ \A i \in DOMAIN selected : selected[i].attempt = 0
  /\ node \in DraftNodes => NotAhead(draft.candidate)
  /\ node \in {"critic", "repairTask"} => Id(draft.candidate) \notin tried
  /\ node \in Preamble => tried = {}
  /\ attempt = 0 => tried = {}
  /\ \A id \in tried : id[1] = slot => id[2] < attempt

LEMMA CandidateIsFresh ==
  ASSUME TypeInv, RetryInv, NEW c \in CandidatesForSlot
  PROVE  NotAhead(c) /\ Id(c) \notin tried
<1>1. CASE attempt = 0
  <2>1. slot < Len(selected) /\ c = selected[slot + 1] /\ slot + 1 \in DOMAIN selected
    BY <1>1, CostPositive DEF CandidatesForSlot, TypeInv, TypeOK
  <2>2. c.attempt = 0 /\ tried = {}
    BY <1>1, <2>1 DEF RetryInv
  <2>. QED
    BY <1>1, <2>2 DEF NotAhead
<1>2. CASE attempt > 0 /\ Untried # {}
  BY <1>2 DEF CandidatesForSlot, Untried, RetryInv
<1>3. CASE attempt > 0 /\ Untried = {}
  <2>1. c.slot = slot /\ c.attempt = attempt
    BY <1>3 DEF CandidatesForSlot, Replacements
  <2>2. slot \in Nat /\ attempt \in Nat
    BY DEF TypeInv, TypeOK
  <2>3. <<slot, attempt>> \notin tried
    BY <2>2 DEF RetryInv
  <2>4. NotAhead(c)
    BY <2>1, <2>2 DEF NotAhead
  <2>. QED
    BY <2>1, <2>3, <2>4 DEF Id
<1>4. attempt = 0 \/ attempt > 0
  BY CostPositive DEF TypeInv, TypeOK
<1>. QED
  BY <1>1, <1>2, <1>3, <1>4

LEMMA NextRetry == TypeInv /\ RetryInv /\ [Next]_vars => RetryInv'
<1>. SUFFICES ASSUME TypeInv, RetryInv, [Next]_vars PROVE RetryInv'
  OBVIOUS
<1>. USE DEF DraftNodes, Preamble
<1>1. slot \in Nat /\ attempt \in Nat
  BY DEF TypeInv, TypeOK
<1>2. CASE PlanTasks
  <2>1. PICK n \in 1..Slots : \E type \in Injection(1..n, TaskTypes) :
          pool' = [i \in 1..n |-> [slot |-> i - 1, attempt |-> 0, type |-> type[i]]]
    BY <1>2 DEF PlanTasks
  <2>2. \A i \in DOMAIN pool' : pool'[i].attempt = 0
    BY <2>1
  <2>. QED
    BY <1>1, <1>2, <2>2 DEF PlanTasks, Run, slotState, RetryInv, NotAhead
<1>3. CASE TaskGeneration
  <2>1. PICK c \in CandidatesForSlot :
          /\ draft'.candidate = c
          /\ pool' = IF attempt > 0 /\ Untried = {} THEN Append(pool, c) ELSE pool
    BY <1>3 DEF TaskGeneration
  <2>2. NotAhead(c) /\ Id(c) \notin tried
    BY CandidateIsFresh
  <2>3. \A i \in DOMAIN pool' : pool'[i] = c \/ (i \in DOMAIN pool /\ pool'[i] = pool[i])
    <3>1. pool \in Seq(Candidate)
      BY DEF TypeInv, TypeOK
    <3>. QED
      BY <2>1, <3>1
  <2>4. node' = "critic" /\ UNCHANGED <<slot, attempt, tried, selected>>
    BY <1>3 DEF TaskGeneration, Run
  <2>5. \A i \in DOMAIN pool' : NotAhead(pool'[i])
    BY <2>2, <2>3 DEF RetryInv
  <2>6. (\A i \in DOMAIN pool : NotAhead(pool[i]))'
    BY <2>4, <2>5 DEF NotAhead
  <2>7. NotAhead(draft.candidate)' /\ (Id(draft.candidate) \notin tried)'
    BY <2>1, <2>2, <2>4 DEF NotAhead, Id
  <2>8. /\ (\A i \in DOMAIN selected : selected[i].attempt = 0)'
        /\ (attempt = 0 => tried = {})'
        /\ (\A id \in tried : id[1] = slot => id[2] < attempt)'
    BY <2>4 DEF RetryInv
  <2>9. (node \notin Preamble)' /\ (node = "critic")'
    BY <2>4
  <2>. QED
    BY <2>6, <2>7, <2>8, <2>9 DEF RetryInv
<1>4. CASE Critic
  BY <1>4 DEF Critic, Run, RegenerationRoute, plan, RetryInv, NotAhead, Id
<1>5. CASE PrepareRetry
  <2>1. draft \in Draft
    BY <1>5 DEF PrepareRetry, Run, TypeInv, DraftMade
  <2>2. Id(draft.candidate)[1] = slot => Id(draft.candidate)[2] < attempt + 1
    BY <1>1, <1>5, <2>1 DEF PrepareRetry, Run, RetryInv, NotAhead, Id, Draft, Candidate
  <2>3. \A c \in Candidate : NotAhead(c) => NotAhead(c)'
    BY <1>1, <1>5 DEF PrepareRetry, NotAhead, Candidate
  <2>4. \A i \in DOMAIN pool : pool[i] \in Candidate
    BY DEF TypeInv, TypeOK
  <2>5. \A id \in tried : id[1] = slot => id[2] < attempt + 1
    <3>1. \A id \in tried : id[2] \in Int
      BY DEF TypeInv, TypeOK
    <3>. QED
      BY <1>1, <3>1 DEF RetryInv
  <2>. QED
    BY <1>1, <1>5, <2>2, <2>3, <2>4, <2>5 DEF PrepareRetry, Run, plan, RetryInv, NotAhead
<1>6. CASE RepairTask
  <2>1. draft \in Draft /\ draft'.candidate = draft.candidate
    BY <1>6 DEF RepairTask, Run, TypeInv, DraftMade, Draft
  <2>2. \A c \in Candidate : NotAhead(c) => NotAhead(c)'
    BY <1>1, <1>6 DEF RepairTask, NotAhead, Candidate
  <2>3. /\ \A i \in DOMAIN pool : pool[i] \in Candidate
        /\ draft.candidate \in Candidate
    BY <2>1 DEF TypeInv, TypeOK, Draft
  <2>4. \A id \in tried : id[1] = slot => id[2] < attempt + 1
    <3>1. \A id \in tried : id[2] \in Int
      BY DEF TypeInv, TypeOK
    <3>. QED
      BY <1>1, <3>1 DEF RetryInv
  <2>. QED
    BY <1>1, <1>6, <2>1, <2>2, <2>3, <2>4 DEF RepairTask, Run, plan, RetryInv, NotAhead
<1>7. CASE PrepareNextSlot
  <2>1. \A c \in Candidate : NotAhead(c) => NotAhead(c)'
    BY <1>1, <1>7 DEF PrepareNextSlot, NotAhead, Candidate
  <2>2. \A i \in DOMAIN pool : pool[i] \in Candidate
    BY DEF TypeInv, TypeOK
  <2>. QED
    BY <1>7, <2>1, <2>2 DEF PrepareNextSlot, Run, plan, RetryInv, NotAhead
<1>8. CASE Extraction \/ Persist \/ AdminReviewFlag \/ Throw
  BY <1>8
  DEF Extraction, Persist, AdminReviewFlag, Throw, Run, SlotAdvanceRoute, slotState, plan,
      RetryInv, NotAhead
<1>9. CASE UNCHANGED vars
  BY <1>9 DEF vars, slotState, plan, RetryInv, NotAhead
<1>. QED
  BY <1>2, <1>3, <1>4, <1>5, <1>6, <1>7, <1>8, <1>9 DEF Next, Nodes

(* A retry is worth its attempt: the candidate the critic is given was not *)
(* rejected for this slot before, whether it comes from the plan of a      *)
(* later slot or was made anew (selectCandidateForSlot).                   *)
THEOREM RetriesAreFresh == Spec => []RetryIsFresh
<1>1. Init => TypeInv /\ RetryInv
  BY InitTyped DEF Init, RetryInv, Preamble, DraftNodes
<1>2. TypeInv /\ RetryInv /\ [Next]_vars => (TypeInv /\ RetryInv)'
  BY NextTyped, NextRetry
<1>3. RetryInv => RetryIsFresh
  BY DEF RetryInv, RetryIsFresh
<1>. QED
  BY <1>1, <1>2, <1>3, PTL DEF Spec

-----------------------------------------------------------------------------
(* Slots are resolved in order.  The count of tasks and review items says  *)
(* which slot is worked on, and tells where a run is from what it wrote.   *)

Resolved == Len(finalized) + Len(flagged)
Working == InSlot \ {"prepareNextSlot"}

OrderInv ==
  /\ Resolved \in 0..Slots
  /\ node \in Preamble => Resolved = 0
  /\ node \in Working => Resolved = slot
  /\ node = "prepareNextSlot" => Resolved = slot + 1
  /\ node = "done" => Resolved = Slots
  /\ \A s \in Range(flagged) : s < Resolved

(* What the two nodes that resolve a slot have in common.                  *)
LEMMA SlotResolved ==
  ASSUME TypeInv, OrderInv, Persist \/ AdminReviewFlag
  PROVE  /\ Resolved = slot /\ slot < Slots /\ Resolved' = Resolved + 1 /\ slot' = slot
         /\ node' = IF Resolved' = Slots THEN "done" ELSE "prepareNextSlot"
         /\ node \in Working
<1>1. node \in Working /\ node' = SlotAdvanceRoute /\ slot' = slot
  BY DEF Persist, AdminReviewFlag, Run, Working, InSlot, slotState
<1>2. Resolved = slot /\ slot \in 0..Slots - 1 /\ Slots \in Nat
  BY <1>1, CostPositive DEF OrderInv, TypeInv, TypeOK
<1>3. Resolved' = Resolved + 1
  <2>. DEFINE Task == [slot : 0..Slots - 1, type : TaskTypes,
                       candidate : (0..Slots - 1) \X (0..MaxAttempts - 1)]
  <2>1. finalized \in Seq(Task) /\ flagged \in Seq(0..Slots - 1)
    BY DEF TypeInv, TypeOK
  <2>2. CASE Persist
    <3>1. Len(finalized') = Len(finalized) + 1
      <4>. HIDE DEF Task
      <4>. QED
        BY <2>1, <2>2 DEF Persist
    <3>. QED
      BY <2>1, <2>2, <3>1 DEF Persist, Resolved
  <2>3. CASE AdminReviewFlag
    BY <2>1, <2>3 DEF AdminReviewFlag, Resolved
  <2>. QED
    BY <2>2, <2>3
<1>. QED
  BY <1>1, <1>2, <1>3 DEF SlotAdvanceRoute

(* The other nodes resolve nothing.                                        *)
LEMMA NothingResolved ==
  ASSUME [Next]_vars, ~(Persist \/ AdminReviewFlag)
  PROVE  finalized' = finalized /\ flagged' = flagged
BY DEF Next, Nodes, Extraction, PlanTasks, TaskGeneration, Critic, PrepareRetry, RepairTask, PrepareNextSlot,
   Throw, results, vars

LEMMA FlaggedRange ==
  ASSUME TypeInv, Persist \/ AdminReviewFlag
  PROVE  Range(flagged') = IF AdminReviewFlag THEN Range(flagged) \cup {slot} ELSE Range(flagged)
<1>1. flagged \in Seq(0..Slots - 1)
  BY DEF TypeInv, TypeOK
<1>2. CASE AdminReviewFlag
  <2>1. flagged' = Append(flagged, slot)
    BY <1>2 DEF AdminReviewFlag
  <2>2. /\ DOMAIN flagged' = DOMAIN flagged \cup {Len(flagged) + 1}
        /\ flagged'[Len(flagged) + 1] = slot
        /\ \A i \in DOMAIN flagged : flagged'[i] = flagged[i]
    BY <1>1, <2>1
  <2>. QED
    BY <1>2, <2>2 DEF Range
<1>3. CASE ~AdminReviewFlag
  BY <1>3 DEF Persist
<1>. QED
  BY <1>2, <1>3

LEMMA NextOrder == TypeInv /\ OrderInv /\ [Next]_vars => OrderInv'
<1>. SUFFICES ASSUME TypeInv, OrderInv, [Next]_vars PROVE OrderInv'
  OBVIOUS
<1>0. slot \in Nat /\ Slots \in Nat \ {0} /\ Resolved \in 0..Slots
  BY CostPositive DEF TypeInv, TypeOK, OrderInv
<1>1. CASE Persist \/ AdminReviewFlag
  <2>1. /\ Resolved = slot /\ slot < Slots /\ Resolved' = Resolved + 1 /\ slot' = slot
        /\ node' = IF Resolved' = Slots THEN "done" ELSE "prepareNextSlot"
    BY <1>1, SlotResolved
  <2>2. \A s \in Range(flagged') : s < Resolved'
    <3>1. \A s \in Range(flagged') : s \in Range(flagged) \/ s = slot
      BY <1>1, FlaggedRange
    <3>2. \A s \in Range(flagged) : s \in Nat /\ s < Resolved
      <4>1. flagged \in Seq(0..Slots - 1)
        BY DEF TypeInv, TypeOK
      <4>2. \A s \in Range(flagged) : s \in 0..Slots - 1
        BY <4>1, <1>0 DEF Range
      <4>. QED
        BY <4>2, <1>0 DEF OrderInv
    <3>. QED
      BY <1>0, <2>1, <3>1, <3>2
  <2>. QED
    BY <1>0, <2>1, <2>2 DEF OrderInv, Preamble, Working, InSlot
<1>2. CASE ~(Persist \/ AdminReviewFlag)
  <2>1. finalized' = finalized /\ flagged' = flagged /\ Resolved' = Resolved
    BY <1>2, NothingResolved DEF Resolved
  <2>. HIDE DEF Resolved
  <2>2. CASE Extraction \/ PlanTasks
    <3>1. slot = 0 /\ slot' = slot /\ node \in Preamble /\ node' \in {"planTasks", "taskGeneration"}
      BY <2>2
      DEF Extraction, PlanTasks, Run, slotState, Preamble, TypeInv, ControlInv, StepsPaid
    <3>. QED
      BY <2>1, <3>1 DEF OrderInv, Preamble, Working, InSlot
  <2>3. CASE TaskGeneration \/ Critic \/ PrepareRetry \/ RepairTask
    <3>1. slot' = slot /\ node \in Working /\ node' \in Working
      BY <2>3 DEF TaskGeneration, Critic, PrepareRetry, RepairTask, Run, RegenerationRoute, Working, InSlot
    <3>. QED
      BY <2>1, <3>1 DEF OrderInv, Preamble, Working, InSlot
  <2>4. CASE PrepareNextSlot
    <3>1. slot' = slot + 1 /\ node = "prepareNextSlot" /\ node' = "taskGeneration"
      BY <2>4 DEF PrepareNextSlot, Run
    <3>. QED
      BY <2>1, <3>1 DEF OrderInv, Preamble, Working, InSlot
  <2>5. CASE Throw
    BY <2>1, <2>5 DEF Throw, OrderInv, Preamble, Working, InSlot
  <2>6. CASE UNCHANGED vars
    BY <2>1, <2>6 DEF vars, slotState, OrderInv
  <2>. QED
    BY <1>2, <2>2, <2>3, <2>4, <2>5, <2>6 DEF Next, Nodes
<1>. QED
  BY <1>1, <1>2

LEMMA InitOrder == Init => OrderInv
BY CostPositive DEF Init, OrderInv, Resolved, Preamble, Working, InSlot, Range

LEMMA SequenceIsFunction ==
  ASSUME NEW S, NEW s \in Seq(S), NEW n \in Nat, Len(s) = n
  PROVE  s \in [1..n -> S]
OBVIOUS

(* The outcome of the slots already resolved is the same ever after, and   *)
(* the slot resolved now is appended to it.                                *)
LEMMA OutcomeGrows ==
  ASSUME TypeInv, OrderInv, Persist \/ AdminReviewFlag
  PROVE  Outcome' = Append(Outcome, IF AdminReviewFlag THEN "review" ELSE "task")
<1>. DEFINE kind == IF AdminReviewFlag THEN "review" ELSE "task"
<1>1. Resolved = slot /\ Resolved' = Resolved + 1 /\ Resolved \in Nat
  BY SlotResolved DEF OrderInv
<1>2. Range(flagged') = IF AdminReviewFlag THEN Range(flagged) \cup {slot} ELSE Range(flagged)
  BY FlaggedRange
<1>3. slot \notin Range(flagged)
  BY <1>1 DEF OrderInv
<1>4. \A i \in 1..Resolved : (i - 1 \in Range(flagged')) <=> (i - 1 \in Range(flagged))
  BY <1>1, <1>2
<1>5. (slot \in Range(flagged')) <=> AdminReviewFlag
  BY <1>2, <1>3
<1>6. Outcome = [i \in 1..Resolved |-> IF i - 1 \in Range(flagged) THEN "review" ELSE "task"]
  BY DEF Outcome, Resolved
<1>7. Outcome' = [i \in 1..Resolved' |-> IF i - 1 \in Range(flagged') THEN "review" ELSE "task"]
  BY DEF Outcome, Resolved
<1>8. Outcome \in Seq({"task", "review"}) /\ Len(Outcome) = Resolved
  BY <1>1, <1>6
<1>9. Append(Outcome, kind) = [i \in 1..Resolved + 1 |-> IF i = Resolved + 1 THEN kind ELSE Outcome[i]]
  <2>1. kind \in {"task", "review"}
    OBVIOUS
  <2>. HIDE DEF kind
  <2>2. Append(Outcome, kind) \in Seq({"task", "review"}) /\ Len(Append(Outcome, kind)) = Resolved + 1
    BY <1>8, <1>1, <2>1
  <2>3. \A i \in 1..Resolved + 1 : Append(Outcome, kind)[i] = IF i = Resolved + 1 THEN kind ELSE Outcome[i]
    BY <1>8, <1>1, <2>1
  <2>4. Append(Outcome, kind) \in [1..Resolved + 1 -> {"task", "review"}]
    <3>1. Resolved + 1 \in Nat
      BY <1>1
    <3>. QED
      BY <2>2, <3>1, SequenceIsFunction, Zenon
  <2>. QED
    BY <2>3, <2>4
<1>10. \A i \in 1..Resolved + 1 :
         (IF i - 1 \in Range(flagged') THEN "review" ELSE "task")
           = (IF i = Resolved + 1 THEN kind ELSE Outcome[i])
  <2>. SUFFICES ASSUME NEW i \in 1..Resolved + 1
       PROVE (IF i - 1 \in Range(flagged') THEN "review" ELSE "task")
               = (IF i = Resolved + 1 THEN kind ELSE Outcome[i])
    OBVIOUS
  <2>1. CASE i = Resolved + 1
    BY <2>1, <1>1, <1>5
  <2>2. CASE i # Resolved + 1
    <3>1. i \in 1..Resolved
      BY <2>2, <1>1
    <3>. QED
      BY <2>2, <3>1, <1>4, <1>6
  <2>. QED
    BY <2>1, <2>2
<1>. QED
  BY <1>1, <1>7, <1>9, <1>10

LEMMA StepImplementsRun ==
  ASSUME TypeInv, OrderInv, [Next]_vars
  PROVE  [Promise!Next]_Promise!runVars
<1>1. Outcome \in Seq({"task", "review"}) /\ Len(Outcome) = Resolved /\ Resolved \in Nat /\ Slots \in Nat
  BY CostPositive DEF Outcome, Resolved, OrderInv
<1>2. CASE Persist \/ AdminReviewFlag
  <2>. DEFINE kind == IF AdminReviewFlag THEN "review" ELSE "task"
  <2>1. /\ Resolved = slot /\ slot < Slots /\ Resolved' = Resolved + 1
        /\ node' = IF Resolved' = Slots THEN "done" ELSE "prepareNextSlot"
        /\ node \in Working
    BY <1>2, SlotResolved
  <2>2. Outcome' = Append(Outcome, kind)
    BY <1>2, OutcomeGrows
  <2>3. Len(Outcome') = Resolved'
    BY <1>1, <2>1, <2>2
  <2>4. ~Ended /\ (Ended' <=> Resolved' = Slots)
    BY <2>1 DEF Ended, Working, InSlot
  <2>5. Promise!Resolve(kind) /\ kind \in {"task", "review"}
    BY <1>1, <2>1, <2>2, <2>3, <2>4 DEF Promise!Resolve
  <2>. QED
    BY <2>5 DEF Promise!Next
<1>3. CASE ~(Persist \/ AdminReviewFlag)
  <2>1. Outcome' = Outcome
    BY <1>3, NothingResolved DEF Outcome
  <2>2. CASE Throw
    BY <2>1, <2>2 DEF Throw, Ended, Promise!Next, Promise!Fail
  <2>3. CASE Nodes
    <3>1. ~Ended /\ ~Ended'
      BY <2>3, <1>3
      DEF Nodes, Extraction, PlanTasks, TaskGeneration, Critic, PrepareRetry, RepairTask,
          PrepareNextSlot, Run, RegenerationRoute, Ended
    <3>. QED
      BY <2>1, <3>1 DEF Promise!runVars
  <2>4. CASE UNCHANGED vars
    BY <2>1, <2>4 DEF vars, Ended, Promise!runVars
  <2>. QED
    BY <2>2, <2>3, <2>4 DEF Next
<1>. QED
  BY <1>2, <1>3

(* A run implements what GenerationRun promises: the slots end one by one, *)
(* in order, each once, and the run is done exactly when all have ended    *)
(* (persist, adminReviewFlag, slotAdvanceRouter).                          *)
THEOREM RunImplemented == Spec => ImplementsRun
<1>1. Init => Promise!Init
  BY DEF Init, Promise!Init, Ended, Outcome
<1>2. Init => TypeInv /\ OrderInv
  BY InitTyped, InitOrder
<1>3. TypeInv /\ OrderInv /\ [Next]_vars => (TypeInv /\ OrderInv)'
  BY NextTyped, NextOrder
<1>. QED
  BY <1>1, <1>2, <1>3, StepImplementsRun, PTL DEF Spec, ImplementsRun, Promise!Spec

-----------------------------------------------------------------------------
(* Progress.  Percentages are rounded, so only with few enough slots does  *)
(* the last draft of a run stay below the 95 of a finished one.            *)

ProgressInv ==
  /\ Resolved = Slots => bar.slot = Slots - 1 /\ bar.percent = 95
  /\ Resolved # Slots => bar.slot = Resolved /\ bar.percent < 95

LEMMA ReachedIsBelow ==
  ASSUME Slots <= 25, bar \in Progress, NEW tenths \in 0..10,
         10 * bar.slot + tenths <= 10 * Slots - 2
  PROVE  Reached(tenths) < 95 /\ Reached(tenths) \in Nat
<1>. DEFINE part == 2 * (300 * Slots + 650 * bar.slot + 65 * tenths) + 10 * Slots
            whole == 20 * Slots
<1>1. whole \in Nat \ {0} /\ part \in Nat /\ part < 95 * whole
  BY CostPositive DEF Progress
<1>2. (part \div whole) \in Nat /\ whole * (part \div whole) <= part
  BY <1>1
<1>3. (part \div whole) < 95
  <2>. DEFINE quotient == part \div whole
  <2>1. SUFFICES ASSUME quotient >= 95 PROVE FALSE
    BY <1>2
  <2>2. whole * quotient >= whole * 95
    BY <2>1, <1>1, <1>2
  <2>. QED
    BY <2>2, <1>1, <1>2
<1>. QED
  BY <1>2, <1>3 DEF Reached

LEMMA NextProgress ==
  ASSUME Slots <= 25, TypeInv, OrderInv, ProgressInv, [Next]_vars
  PROVE  ProgressInv'
<1>0. /\ bar \in Progress /\ Resolved \in 0..Slots /\ Slots \in Nat \ {0}
      /\ bar.slot \in Nat /\ bar.slot <= Slots - 1 /\ bar.percent \in Nat
  <2>1. bar \in Progress
    BY DEF TypeInv, TypeOK, Progress, Percent
  <2>2. bar.slot \in 0..Slots - 1 /\ bar.percent \in 0..95
    BY <2>1 DEF Progress, Percent
  <2>. QED
    BY <2>1, <2>2, CostPositive DEF OrderInv
<1>1. CASE Persist \/ AdminReviewFlag
  <2>1. Resolved < Slots /\ Resolved' = Resolved + 1
    BY <1>1, SlotResolved
  <2>2. bar.slot = Resolved /\ bar.percent < 95
    BY <1>0, <2>1 DEF ProgressInv
  <2>3. SlotFinished
    BY <1>1 DEF Persist, AdminReviewFlag
  <2>4. CASE bar.slot >= Slots - 1
    BY <1>0, <2>1, <2>2, <2>3, <2>4 DEF SlotFinished, Emit, ProgressInv
  <2>5. CASE ~(bar.slot >= Slots - 1)
    <3>1. Reached(10) < 95 /\ Reached(10) \in Nat
      BY <1>0, <2>5, ReachedIsBelow
    <3>. QED
      BY <1>0, <2>1, <2>2, <2>3, <2>5, <3>1 DEF SlotFinished, Emit, ProgressInv
  <2>. QED
    BY <2>4, <2>5
<1>2. CASE ~(Persist \/ AdminReviewFlag)
  <2>1. Resolved' = Resolved
    BY <1>2, NothingResolved DEF Resolved
  <2>2. CASE Extraction \/ PlanTasks \/ TaskGeneration \/ Critic
    <3>1. Resolved < Slots
      <4>1. node \in Preamble \/ node \in Working
        BY <2>2 DEF Extraction, PlanTasks, TaskGeneration, Critic, Run, Preamble, Working, InSlot
      <4>. QED
        BY <4>1, <1>0 DEF OrderInv, TypeInv, TypeOK
    <3>2. bar.slot = Resolved /\ bar.percent < 95
      BY <1>0, <3>1 DEF ProgressInv
    <3>3. Reached(5) < 95 /\ Reached(8) < 95
      BY <1>0, ReachedIsBelow
    <3>4. \E reached \in {10, 30, Reached(5), Reached(8)} : Emit(bar.slot, reached)
      BY <2>2 DEF Extraction, PlanTasks, TaskGeneration, Critic
    <3>5. bar'.slot = bar.slot /\ bar'.percent < 95
      BY <3>2, <3>3, <3>4 DEF Emit
    <3>. QED
      BY <2>1, <3>1, <3>2, <3>5 DEF ProgressInv
  <2>3. CASE PrepareRetry \/ RepairTask \/ PrepareNextSlot \/ Throw \/ UNCHANGED vars
    BY <2>1, <2>3 DEF PrepareRetry, RepairTask, PrepareNextSlot, Throw, vars, ProgressInv
  <2>. QED
    BY <1>2, <2>2, <2>3 DEF Next, Nodes
<1>. QED
  BY <1>1, <1>2

(* The employer's progress is that of the slots, and reads 95 only when    *)
(* all have ended, as long as a simulation has at most 25 of them: with 26 *)
(* the last draft already rounds up to 95 (SimulationProgressTracker).     *)
THEOREM ProgressFollowsSlots ==
  ASSUME Slots <= 25
  PROVE  Spec => []ProgressIsTruthful
<1>1. Init => TypeInv /\ OrderInv /\ ProgressInv
  <2>1. Init => ProgressInv
    BY CostPositive DEF Init, ProgressInv, Resolved
  <2>. QED
    BY <2>1, InitTyped, InitOrder
<1>2. TypeInv /\ OrderInv /\ ProgressInv /\ [Next]_vars => (TypeInv /\ OrderInv /\ ProgressInv)'
  BY NextTyped, NextOrder, NextProgress
<1>3. OrderInv /\ ProgressInv => ProgressIsTruthful
  BY DEF OrderInv, ProgressInv, ProgressIsTruthful, Resolved
<1>. QED
  BY <1>1, <1>2, <1>3, PTL DEF Spec
=============================================================================
