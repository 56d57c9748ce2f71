--------------------------- MODULE ProgressStream ---------------------------
(***************************************************************************)
(* The stream of a generation run's progress                               *)
(* (src/modules/generation/generation-progress.service.ts): one listener   *)
(* passes the queue's events on to whoever watches the run, and a watcher  *)
(* also reads the job's current state, in two steps, after subscribing.    *)
(* A failed run may be removed and queued again under the same id.         *)
(***************************************************************************)
EXTENDS Naturals, Sequences

CONSTANTS
  Watchers,
  LastStage, \* stages a run reports
  MaxRuns    \* bound: times the job is queued

VARIABLES
  job,       \* the BullMQ job: [state, stage]
  runs,      \* times it was queued
  signals,   \* events the listener has still to read
  watch      \* each open stream: [pc, seen: its snapshot, got: what it emitted]

vars == <<job, runs, signals, watch>>

Terminal == {"done", "error"}
Progress(n) == [type |-> "progress", stage |-> n]
Final(type) == [type |-> type, stage |-> LastStage]
Closed == [pc |-> "closed", seen |-> [state |-> "none", stage |-> 0], got |-> << >>]

-----------------------------------------------------------------------------
(* The queue and its worker.                                               *)

(* A failed job is removed and added again in two steps.                   *)
RemoveFailed ==
  /\ job.state = "failed" /\ runs < MaxRuns
  /\ job' = [state |-> "none", stage |-> 0]
  /\ UNCHANGED <<runs, signals, watch>>

Queue ==
  /\ job.state = "none" /\ runs < MaxRuns
  /\ job' = [state |-> "active", stage |-> 0]
  /\ runs' = runs + 1
  /\ UNCHANGED <<signals, watch>>

UpdateProgress ==
  /\ job.state = "active" /\ job.stage < LastStage
  /\ job' = [job EXCEPT !.stage = @ + 1]
  /\ signals' = Append(signals, Progress(job'.stage))
  /\ UNCHANGED <<runs, watch>>

End(state, type) ==
  /\ job.state = "active"
  /\ job' = [job EXCEPT !.state = state]
  /\ signals' = Append(signals, Final(type))
  /\ UNCHANGED <<runs, watch>>

Work == UpdateProgress \/ End("completed", "done") \/ End("failed", "error")

-----------------------------------------------------------------------------
(* watch.                                                                  *)

(* takeWhile: the stream emits the event and closes after a terminal one.  *)
Emit(w, event) ==
  [w EXCEPT !.got = Append(@, event),
            !.pc = IF event.type \in Terminal THEN "ended" ELSE @]

Open(w) ==
  /\ watch[w].pc = "closed"
  /\ watch' = [watch EXCEPT ![w].pc = "job"]
  /\ UNCHANGED <<job, runs, signals>>

(* Mutant: live$ is subscribed to once current$ is done.                   *)
SubscribedAfter(w) == watch[w].pc = "live"

Subscribed(w) == watch[w].pc \in {"job", "state", "live"}

Deliver ==
  /\ signals # << >>
  /\ signals' = Tail(signals)
  /\ watch' = [w \in Watchers |-> IF Subscribed(w) THEN Emit(watch[w], Head(signals))
                                  ELSE watch[w]]
  /\ UNCHANGED <<job, runs>>

(* currentEvent: the job as it is, and then its state.                     *)
GetJob(w) ==
  /\ watch[w].pc = "job"
  /\ watch' = [watch EXCEPT ![w].seen = job,
                            ![w].pc = IF job.state = "none" THEN "live" ELSE "state"]
  /\ UNCHANGED <<job, runs, signals>>

Current(w) ==
  CASE job.state = "completed" -> <<Final("done")>>
    [] job.state = "failed" -> <<Final("error")>>
    [] watch[w].seen.stage > 0 -> <<Progress(watch[w].seen.stage)>>
    [] OTHER -> << >>

GetState(w) ==
  /\ watch[w].pc = "state"
  /\ watch' = [watch EXCEPT ![w] = IF Current(w) = << >> THEN [@ EXCEPT !.pc = "live"]
                                   ELSE Emit([@ EXCEPT !.pc = "live"], Current(w)[1])]
  /\ UNCHANGED <<job, runs, signals>>

(* The client goes away, and may come back.                                *)
Disconnect(w) ==
  /\ watch[w].pc # "closed"
  /\ watch' = [watch EXCEPT ![w] = Closed]
  /\ UNCHANGED <<job, runs, signals>>

-----------------------------------------------------------------------------

Init ==
  /\ job = [state |-> "none", stage |-> 0] /\ runs = 0 /\ signals = << >>
  /\ watch = [w \in Watchers |-> Closed]

Read(w) == GetJob(w) \/ GetState(w)

Next ==
  \/ RemoveFailed \/ Queue \/ Work \/ Deliver
  \/ \E w \in Watchers : Open(w) \/ Read(w) \/ Disconnect(w)

(* The worker ends its runs, the listener reads on, a read returns.        *)
Fairness ==
  /\ WF_vars(Work) /\ WF_vars(Deliver)
  /\ \A w \in Watchers : WF_vars(Read(w))

Spec == Init /\ [][Next]_vars
FairSpec == Spec /\ Fairness

-----------------------------------------------------------------------------
(* Properties.                                                             *)

TypeOK ==
  /\ job \in [state : {"none", "active", "completed", "failed"}, stage : 0 .. LastStage]
  /\ runs \in 0 .. MaxRuns
  /\ \A n \in DOMAIN signals : signals[n].type \in Terminal \cup {"progress"}
  /\ \A w \in Watchers : watch[w].pc \in {"closed", "job", "state", "live", "ended"}

(* Whoever watches while a run is under way is told how it ends, or goes   *)
(* away first: the end never falls between the reading of the current      *)
(* state and the subscription to what follows (watch).                     *)
WatcherLearnsTheEnd ==
  \A w \in Watchers :
    (job.state = "active" /\ watch[w].pc # "closed") ~> watch[w].pc \in {"ended", "closed"}

-----------------------------------------------------------------------------
(* Statements of the repository's own comments that the code does not keep *)
(* (README, "Known disagreements").                                        *)

(* generation-progress.service.ts:87: "Emits the job's current state first *)
(* ..., then live updates": a live update may come while it is being read, *)
(* and the older state after it.                                           *)
CurrentComesFirst ==
  \A w \in Watchers : runs = 1 =>
    \A m, n \in DOMAIN watch[w].got : m < n => watch[w].got[m].stage <= watch[w].got[n].stage
=============================================================================
