-------------------------- MODULE SubmissionIntake --------------------------
(***************************************************************************)
(* One candidate and one job, from the candidate's profile to the          *)
(* employer's selection (src/modules/submissions, the profile in           *)
(* src/modules/users and the candidate's notifications): applying,         *)
(* heartbeats, submitting answers with their integrity events,             *)
(* withdrawing, selecting and being told of it.  Every handler awaits the  *)
(* database between its reads and its write.  What grading does to a       *)
(* submission is SubmissionGrading; here its result just appears.          *)
(***************************************************************************)
EXTENDS Naturals, Sequences

CONSTANTS
  Clients,        \* requests in progress
  MaxSubmissions, \* bound: rows the candidate creates for the job
  MaxRequests     \* bound: requests ever made

VARIABLES
  titled,         \* whether job_seeker_profiles.title is set
  complete,       \* job_seeker_profiles.is_profile_complete
  accepting,      \* whether the job is ACTIVE
  subs,           \* the submissions, in the order of their creation
  unlocked,       \* submissions the employer has paid for
  notices,        \* candidate_notifications: [sub, read]
  silent,         \* submissions whose notification failed
  call,
  requests

vars == <<titled, complete, accepting, subs, unlocked, notices, silent, call, requests>>

Withdrawable == {"PENDING", "GRADING", "GRADED", "GRADING_FAILED"}
Statuses == Withdrawable \cup {"SELECTED", "DISQUALIFIED", "WITHDRAWN"}

NewSubmission == [status |-> "PENDING", submitted |-> FALSE, stale |-> FALSE, flagged |-> FALSE]

-----------------------------------------------------------------------------
(* Requests.                                                               *)

Idle == [pc |-> "idle"]

Start(c, state) ==
  /\ call[c] = Idle /\ requests < MaxRequests
  /\ requests' = requests + 1
  /\ call' = [call EXCEPT ![c] = state]

At(c, pc) == call[c].pc = pc
Become(c, state) == call' = [call EXCEPT ![c] = state] /\ UNCHANGED requests
Return(c) == Become(c, Idle)

-----------------------------------------------------------------------------
(* Mutant: every saved profile counts as complete.                         *)
UpdateProfileUnchecked(c, withTitle) ==
  /\ Start(c, [pc |-> "profile", withTitle |-> withTitle, complete |-> TRUE])
  /\ UNCHANGED <<titled, complete, accepting, subs, unlocked, notices, silent>>

(* JobSeekerProfileService.update: complete is derived from the title as   *)
(* it was read, unless the request sets it (requiredTitle refuses to clear *)
(* it).                                                                    *)

UpdateProfile(c, withTitle) ==
  /\ Start(c, [pc |-> "profile", withTitle |-> withTitle, complete |-> withTitle \/ titled])
  /\ UNCHANGED <<titled, complete, accepting, subs, unlocked, notices, silent>>

ProfileWrite(c) ==
  /\ At(c, "profile")
  /\ titled' = (titled \/ call[c].withTitle)
  /\ complete' = call[c].complete
  /\ Return(c)
  /\ UNCHANGED <<accepting, subs, unlocked, notices, silent>>

-----------------------------------------------------------------------------
(* createSubmission: three reads, then the insert.                         *)

Apply(c) ==
  /\ complete
  /\ Start(c, [pc |-> "apply-job"])
  /\ UNCHANGED <<titled, complete, accepting, subs, unlocked, notices, silent>>

ApplyReadJob(c) ==
  /\ At(c, "apply-job")
  /\ IF accepting THEN Become(c, [pc |-> "apply-withdrawn"]) ELSE Return(c)
  /\ UNCHANGED <<titled, complete, accepting, subs, unlocked, notices, silent>>

HasWithdrawn == \E s \in DOMAIN subs : subs[s].status = "WITHDRAWN"

ApplyReadWithdrawn(c) ==
  /\ At(c, "apply-withdrawn")
  /\ IF HasWithdrawn THEN Return(c) ELSE Become(c, [pc |-> "apply-insert"])
  /\ UNCHANGED <<titled, complete, accepting, subs, unlocked, notices, silent>>

ApplyInsert(c) ==
  /\ At(c, "apply-insert")
  /\ Len(subs) < MaxSubmissions
  /\ subs' = Append(subs, NewSubmission)
  /\ Return(c)
  /\ UNCHANGED <<titled, complete, accepting, unlocked, notices, silent>>

CloseJob ==
  /\ accepting
  /\ accepting' = FALSE
  /\ UNCHANGED <<titled, complete, subs, unlocked, notices, silent, call, requests>>

-----------------------------------------------------------------------------
(* The run: heartbeats, and submitAnswers, which reads the row, adds the   *)
(* event of a stale heartbeat to those the client reports, and overwrites  *)
(* the answers and events of any earlier submit.                           *)

Heartbeat(s) ==
  /\ subs[s].stale
  /\ subs' = [subs EXCEPT ![s].stale = FALSE]
  /\ UNCHANGED <<titled, complete, accepting, unlocked, notices, silent, call, requests>>

HeartbeatsStop(s) ==
  /\ ~subs[s].stale
  /\ subs' = [subs EXCEPT ![s].stale = TRUE]
  /\ UNCHANGED <<titled, complete, accepting, unlocked, notices, silent, call, requests>>

SubmitAnswers(c, s, reported) ==
  /\ Start(c, [pc |-> "save", sub |-> s, flagged |-> reported \/ subs[s].stale])
  /\ UNCHANGED <<titled, complete, accepting, subs, unlocked, notices, silent>>

SaveAnswers(c) ==
  LET s == call[c].sub IN
  /\ At(c, "save")
  /\ subs' = [subs EXCEPT ![s].submitted = TRUE, ![s].flagged = call[c].flagged]
  /\ Return(c)
  /\ UNCHANGED <<titled, complete, accepting, unlocked, notices, silent>>

Withdraw(c, s) ==
  /\ subs[s].status \in Withdrawable
  /\ Start(c, Idle)
  /\ subs' = [subs EXCEPT ![s].status = "WITHDRAWN"]
  /\ UNCHANGED <<titled, complete, accepting, unlocked, notices, silent>>

(* The grading pipeline, from PENDING to its end.                          *)
Graded(s, new) ==
  /\ subs[s].submitted /\ subs[s].status = "PENDING"
  /\ subs' = [subs EXCEPT ![s].status = new]
  /\ UNCHANGED <<titled, complete, accepting, unlocked, notices, silent, call, requests>>

ReviewAntiCheatFlag(c, s, uphold) ==
  /\ Start(c, Idle)
  /\ subs' = IF uphold THEN [subs EXCEPT ![s].status = "DISQUALIFIED"]
             ELSE [subs EXCEPT ![s].status = "PENDING", ![s].flagged = FALSE]
  /\ UNCHANGED <<titled, complete, accepting, unlocked, notices, silent>>

-----------------------------------------------------------------------------
(* The employer: what they see, unlocking (CreditLedger), and              *)
(* updateSelectionStatus, which an admin may call for any submission.      *)

ListedForEmployer == {s \in DOMAIN subs : subs[s].submitted /\ subs[s].status # "WITHDRAWN"}

Unlock(c, s) ==
  /\ s \in ListedForEmployer \ unlocked
  /\ Start(c, Idle)
  /\ unlocked' = unlocked \cup {s}
  /\ UNCHANGED <<titled, complete, accepting, subs, notices, silent>>

UpdateSelectionStatus(c, s, selected, asAdmin) ==
  /\ selected /\ ~asAdmin => s \in unlocked
  /\ Start(c, [pc |-> "select", sub |-> s, selected |-> selected,
               wasSelected |-> subs[s].status = "SELECTED"])
  /\ UNCHANGED <<titled, complete, accepting, subs, unlocked, notices, silent>>

(* Mutant: looks at the status it has just written.                        *)
SelectionWriteReread(c) ==
  LET s == call[c].sub IN
  /\ At(c, "select")
  /\ subs' = [subs EXCEPT ![s].status = IF call[c].selected THEN "SELECTED" ELSE "GRADED"]
  /\ IF call[c].selected /\ subs'[s].status # "SELECTED"
     THEN Become(c, [pc |-> "notify", sub |-> s])
     ELSE Return(c)
  /\ UNCHANGED <<titled, complete, accepting, unlocked, notices, silent>>

(* Whatever the status is by now; only a selection that read another       *)
(* status notifies.                                                        *)
SelectionWrite(c) ==
  LET s == call[c].sub IN
  /\ At(c, "select")
  /\ subs' = [subs EXCEPT ![s].status = IF call[c].selected THEN "SELECTED" ELSE "GRADED"]
  /\ IF call[c].selected /\ ~call[c].wasSelected
     THEN Become(c, [pc |-> "notify", sub |-> s])
     ELSE Return(c)
  /\ UNCHANGED <<titled, complete, accepting, unlocked, notices, silent>>

(* notifySelected: the row, then an email that may fail.                   *)
NotifySelected(c) ==
  /\ At(c, "notify")
  /\ notices' = Append(notices, [sub |-> call[c].sub, read |-> FALSE])
  /\ Return(c)
  /\ UNCHANGED <<titled, complete, accepting, subs, unlocked, silent>>

-----------------------------------------------------------------------------
(* The candidate's bell.                                                   *)

MarkRead(c, n) ==
  /\ ~notices[n].read
  /\ Start(c, Idle)
  /\ notices' = [notices EXCEPT ![n].read = TRUE]
  /\ UNCHANGED <<titled, complete, accepting, subs, unlocked, silent>>

MarkAllRead(c) ==
  /\ \E n \in DOMAIN notices : ~notices[n].read
  /\ Start(c, Idle)
  /\ notices' = [n \in DOMAIN notices |-> [notices[n] EXCEPT !.read = TRUE]]
  /\ UNCHANGED <<titled, complete, accepting, subs, unlocked, silent>>

-----------------------------------------------------------------------------

(* Any await may reject, and the process may die.                          *)
RequestFails(c) ==
  /\ call[c] # Idle
  /\ silent' = IF At(c, "notify") THEN silent \cup {call[c].sub} ELSE silent
  /\ Return(c)
  /\ UNCHANGED <<titled, complete, accepting, subs, unlocked, notices>>

Init ==
  /\ titled = FALSE /\ complete = FALSE /\ accepting = TRUE
  /\ subs = << >> /\ unlocked = {} /\ notices = << >> /\ silent = {}
  /\ call = [c \in Clients |-> Idle] /\ requests = 0

Request(c) ==
  \/ \E withTitle \in BOOLEAN : UpdateProfile(c, withTitle)
  \/ Apply(c)
  \/ \E s \in DOMAIN subs :
       \/ \E reported \in BOOLEAN : SubmitAnswers(c, s, reported)
       \/ Withdraw(c, s) \/ Unlock(c, s)
       \/ \E uphold \in BOOLEAN : ReviewAntiCheatFlag(c, s, uphold)
       \/ \E selected, asAdmin \in BOOLEAN : UpdateSelectionStatus(c, s, selected, asAdmin)
  \/ \E n \in DOMAIN notices : MarkRead(c, n)
  \/ MarkAllRead(c)

Continue(c) ==
  \/ ProfileWrite(c)
  \/ ApplyReadJob(c) \/ ApplyReadWithdrawn(c) \/ ApplyInsert(c)
  \/ SaveAnswers(c) \/ SelectionWrite(c) \/ NotifySelected(c)

Next ==
  \/ \E c \in Clients : Request(c) \/ Continue(c) \/ RequestFails(c)
  \/ \E s \in DOMAIN subs :
       \/ Heartbeat(s) \/ HeartbeatsStop(s)
       \/ \E new \in {"GRADED", "GRADING_FAILED"} : Graded(s, new)
  \/ CloseJob

Spec == Init /\ [][Next]_vars

-----------------------------------------------------------------------------
(* Properties.                                                             *)

TypeOK ==
  /\ titled \in BOOLEAN /\ complete \in BOOLEAN /\ accepting \in BOOLEAN
  /\ Len(subs) <= MaxSubmissions
  /\ \A s \in DOMAIN subs :
       subs[s] \in [status : Statuses, submitted : BOOLEAN, stale : BOOLEAN, flagged : BOOLEAN]
  /\ unlocked \subseteq DOMAIN subs /\ silent \subseteq DOMAIN subs
  /\ \A n \in DOMAIN notices : notices[n] \in [sub : DOMAIN subs, read : BOOLEAN]
  /\ \A c \in Clients :
       call[c].pc \in {"idle", "profile", "apply-job", "apply-withdrawn", "apply-insert",
                       "save", "select", "notify"}

Told(s) == \E n \in DOMAIN notices : notices[n].sub = s

(* A selected candidate has been told, is being told, or the request that  *)
(* was to tell them failed: selections, reversals and flag reviews that    *)
(* overlap never leave a candidate selected with each handler believing    *)
(* that another one has notified them (updateSelectionStatus).             *)
SelectedWasTold ==
  \A s \in DOMAIN subs : subs[s].status = "SELECTED" =>
    Told(s) \/ s \in silent \/ \E c \in Clients : At(c, "notify") /\ call[c].sub = s

(* Everybody who has applied has a job title, which the recommendations    *)
(* are computed from: overlapping profile updates, each deriving           *)
(* completeness from what it read, never let one through without           *)
(* (update, createSubmission).                                             *)
ApplicantsHaveTitle == subs # << >> => titled

-----------------------------------------------------------------------------
(* Statements of the repository's own comments that the code does not keep *)
(* (README, "Known disagreements").                                        *)

(* job-seeker-profile.service.ts:75: "the profile counts as complete once  *)
(* `title` ... is set": with no update in progress, it may not be.         *)
CompleteOnceTitled == titled /\ (\A c \in Clients : ~At(c, "profile")) => complete

(* submissions.service.ts:105: "Withdrawing is permanent, and that         *)
(* includes re-applying to the same job."                                  *)
WithdrawnMayNotReapply == [][HasWithdrawn => Len(subs') = Len(subs)]_vars

(* submissions.service.ts:345: "Only the transition notifies": two         *)
(* selections at the same moment both do.                                  *)
OneNoticePerTransition ==
  [][\A c \in Clients : At(c, "select") /\ call'[c].pc = "notify" =>
       subs[call[c].sub].status # "SELECTED"]_vars
=============================================================================
