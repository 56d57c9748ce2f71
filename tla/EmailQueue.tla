----------------------------- MODULE EmailQueue -----------------------------
(***************************************************************************)
(* Emails (src/modules/email): what the notifications enqueue is sent by a *)
(* worker through the provider's HTTP API, with retries after a delay.  A  *)
(* call may fail on either side of the provider accepting the email, and   *)
(* a worker may die with it, in which case the queue hands the job out     *)
(* again.                                                                  *)
(***************************************************************************)
EXTENDS Naturals

CONSTANTS
  Emails,       \* jobs ever enqueued
  Blocked,      \* those to test addresses only
  MaxAttempts,  \* attempts: 3
  MaxStalls     \* maxStalledCount of the queue

VARIABLES
  state,    \* of the BullMQ job; a completed one is removed
  attempts, \* attemptsMade
  stalls,
  accepted  \* history: how often the provider took each

vars == <<state, attempts, stalls, accepted>>

States == {"none", "waiting", "active", "sent", "delayed", "completed", "failed"}
Become(e, new) == state' = [state EXCEPT ![e] = new]

Enqueue(e) ==
  /\ state[e] = "none"
  /\ Become(e, "waiting")
  /\ UNCHANGED <<attempts, stalls, accepted>>

Take(e) ==
  /\ state[e] = "waiting"
  /\ Become(e, "active")
  /\ UNCHANGED <<attempts, stalls, accepted>>

(* An email with no deliverable recipient is skipped and counts as done.   *)
Skip(e) ==
  /\ state[e] = "active" /\ e \in Blocked
  /\ Become(e, "completed")
  /\ UNCHANGED <<attempts, stalls, accepted>>

Post(e) ==
  /\ state[e] = "active" /\ e \notin Blocked
  /\ accepted' = [accepted EXCEPT ![e] = @ + 1]
  /\ Become(e, "sent")
  /\ UNCHANGED <<attempts, stalls>>

Complete(e) ==
  /\ state[e] = "sent"
  /\ Become(e, "completed")
  /\ UNCHANGED <<attempts, stalls, accepted>>

(* Mutant: process logs the error and returns.                             *)
FailSwallowed(e) ==
  /\ state[e] \in {"active", "sent"} /\ e \notin Blocked
  /\ Become(e, "completed")
  /\ UNCHANGED <<attempts, stalls, accepted>>

(* Rendering fails, the provider refuses, or its answer is lost: process   *)
(* throws again and the queue retries.                                     *)
Fail(e) ==
  /\ state[e] \in {"active", "sent"} /\ e \notin Blocked
  /\ attempts' = [attempts EXCEPT ![e] = @ + 1]
  /\ Become(e, IF attempts'[e] < MaxAttempts THEN "delayed" ELSE "failed")
  /\ UNCHANGED <<stalls, accepted>>

Backoff(e) ==
  /\ state[e] = "delayed"
  /\ Become(e, "waiting")
  /\ UNCHANGED <<attempts, stalls, accepted>>

WorkerDies(e) ==
  /\ state[e] \in {"active", "sent"}
  /\ stalls' = [stalls EXCEPT ![e] = @ + 1]
  /\ Become(e, IF stalls[e] < MaxStalls THEN "waiting" ELSE "failed")
  /\ UNCHANGED <<attempts, accepted>>

-----------------------------------------------------------------------------

Init ==
  /\ state = [e \in Emails |-> "none"] /\ attempts = [e \in Emails |-> 0]
  /\ stalls = attempts /\ accepted = attempts

Work(e) == Take(e) \/ Skip(e) \/ Post(e) \/ Complete(e) \/ Fail(e) \/ Backoff(e)

Next == \E e \in Emails : Enqueue(e) \/ Work(e) \/ WorkerDies(e)

(* Workers take what is waiting and calls return; delays end.              *)
Fairness == \A e \in Emails : WF_vars(Work(e))

Spec == Init /\ [][Next]_vars
FairSpec == Spec /\ Fairness

-----------------------------------------------------------------------------
(* Properties.                                                             *)

TypeOK ==
  /\ state \in [Emails -> States]
  /\ attempts \in [Emails -> 0 .. MaxAttempts] /\ stalls \in [Emails -> 0 .. (MaxStalls + 1)]
  /\ accepted \in [Emails -> Nat]

GivenUp(e) == state[e] = "failed" /\ (attempts[e] = MaxAttempts \/ stalls[e] > MaxStalls)

(* Every email put on the queue reaches the provider, unless it has only   *)
(* test addresses or has failed or stalled as often as is allowed: nothing *)
(* that goes wrong in an attempt ends the job as if it were sent           *)
(* (EmailProcessor.process, EmailService.sendEmail).                       *)
EmailIsSentOrGivenUp ==
  \A e \in Emails \ Blocked : state[e] # "none" ~> accepted[e] > 0 \/ GivenUp(e)
=============================================================================
