------------------------------- MODULE People -------------------------------
(***************************************************************************)
(* What people do and how their work is scored: staged chats, accounts,    *)
(* applications, tasks with their keys and scores, grading anchors and the *)
(* capability passport.  These parts share no variable, so that an         *)
(* interleaving of two of them shows nothing that each does not show       *)
(* alone: `active` picks the part that runs, the others stay where they    *)
(* start, and an instance has the sum of their states instead of the       *)
(* product.                                                                *)
(*                                                                         *)
(* Some sets are shared: Handlers are the requests of every part and the   *)
(* grading workers, Keys also the passwords, Tasks also the answers and    *)
(* the submissions of the passport, NoTask also the absent value.          *)
(***************************************************************************)
EXTENDS StagedChat

CONSTANTS
  Emails, MaxResends, MaxMinted, MaxSignIns,                        \* Accounts
  MaxSubmissions, MaxRequests,                                      \* SubmissionIntake
  Amounts, Figures, MinorUnit, Queues, Interviews, Plan, LlmScores, \* Scoring
  Drafts, ScorePoints, Authorised, MaxAttempts, MaxFailures,        \* GradingAnchors
  DomainOf, Results, Recent, MaxTime, MaxReads, MaxChanges          \* CapabilityPassport

ASSUME BoundsAssumption ==
  /\ MaxMinted \in Nat /\ MaxSignIns \in Nat /\ MaxResends \in Nat
  /\ MaxSubmissions \in Nat /\ MaxFailures \in Nat

ASSUME PassportAssumption ==
  /\ MaxTime \in Nat
  /\ Results \subseteq [{"problemSolving", "judgment", "written", "commercial"} -> 0..100]

ASSUME ScoringAssumption ==
  /\ Amounts \in Seq(Nat \ {0}) /\ Len(Amounts) > 1
  /\ Figures \subseteq Int /\ MinorUnit \in Nat \ {0}
  /\ Queues \subseteq Seq([tier : {"VIP", "STANDARD", "BASIC"}, impact : {"HIGH", "MEDIUM", "LOW"},
                         sla : Int, specialist : BOOLEAN])
  /\ Interviews \subseteq Seq(Seq(STRING))
  /\ <<>> \notin Queues \cup Interviews
  /\ \A answers \in Interviews : \A q \in DOMAIN answers : Len(answers[q]) = Len(answers[1])
  /\ LlmScores \subseteq 0..100
  /\ Plan \in Seq(SUBSET STRING)

VARIABLES
  active,
  users, challenges, sessions, mailed, signIn, minted, signIns, spent, opened,
  titled, complete, accepting, subs, unlocked, notices, silent, call, requests,
  phase, task, results, answer, objective, overall,
  row, worker, gradedWith, failures,
  now, order, finishedAt, status, scores, publishing, published, cached, reader, reads, changes

-----------------------------------------------------------------------------
(* The parts besides the staged chats.                                     *)

Auth == INSTANCE Accounts WITH
  Passwords <- Keys, Clients <- Handlers, MaxRequests <- MaxSignIns,
  call <- signIn, requests <- signIns

Intake == INSTANCE SubmissionIntake WITH Clients <- Handlers

Scores == INSTANCE Scoring WITH Null <- NoTask

Anchors == INSTANCE GradingAnchors WITH Answers <- Tasks, Workers <- Handlers, Null <- NoTask

Passport == INSTANCE CapabilityPassport WITH
  Submissions <- Tasks, Readers <- Handlers, Null <- NoTask, completedAt <- finishedAt

-----------------------------------------------------------------------------

chatVars == vars
authVars == <<users, challenges, sessions, mailed, signIn, minted, signIns, spent, opened>>
intakeVars == <<titled, complete, accepting, subs, unlocked, notices, silent, call, requests>>
scoreVars == <<phase, task, results, answer, objective, overall>>
anchorVars == <<row, worker, gradedWith, failures>>
passportVars == <<now, order, finishedAt, status, scores, publishing, published, cached, reader,
                  reads, changes>>
allVars == <<active, chatVars, authVars, intakeVars, scoreVars, anchorVars, passportVars>>

PeopleInit ==
  /\ active \in {"chat", "auth", "intake", "scores", "anchors", "passport"}
  /\ Init /\ Auth!Init /\ Intake!Init /\ Scores!Init /\ Anchors!Init /\ Passport!Init

PeopleNext ==
  \/ active = "chat" /\ Next
     /\ UNCHANGED <<active, authVars, intakeVars, scoreVars, anchorVars, passportVars>>
  \/ active = "auth" /\ Auth!Next
     /\ UNCHANGED <<active, chatVars, intakeVars, scoreVars, anchorVars, passportVars>>
  \/ active = "intake" /\ Intake!Next
     /\ UNCHANGED <<active, chatVars, authVars, scoreVars, anchorVars, passportVars>>
  \/ active = "scores" /\ Scores!Next
     /\ UNCHANGED <<active, chatVars, authVars, intakeVars, anchorVars, passportVars>>
  \/ active = "anchors" /\ Anchors!Next
     /\ UNCHANGED <<active, chatVars, authVars, intakeVars, scoreVars, passportVars>>
  \/ active = "passport" /\ Passport!Next
     /\ UNCHANGED <<active, chatVars, authVars, intakeVars, scoreVars, anchorVars>>

PeopleSpec == PeopleInit /\ [][PeopleNext]_allVars

-----------------------------------------------------------------------------
(* The properties of the parts, stated where each is defined.              *)

(* Every variable of every part keeps its type.                            *)
PeopleTypeOK ==
  /\ TypeOK /\ Auth!TypeOK /\ Intake!TypeOK
  /\ Scores!TypeOK /\ Anchors!TypeOK /\ Passport!TypeOK

(* A mailed code opens one session at most.                                *)
CodeOpensOneSession == Auth!CodeOpensOneSession

(* A reset that begins after the password was set does not take a link     *)
(* from before.                                                            *)
SpentResetLinkIsRefused == Auth!SpentResetLinkIsRefused

(* A selected candidate was told, or the notification failed.              *)
SelectedWasTold == Intake!SelectedWasTold

(* Nobody has applied without a profile title.                             *)
ApplicantsHaveTitle == Intake!ApplicantsHaveTitle

(* A task's stored key is what solving its case from the table gives, when *)
(* the table shows every figure as it was given.                           *)
KeyAgreesWithTheCase == Scores!KeyAgreesWithTheCase

(* No answer is graded against anchors that failed a check.                *)
AnchorsPassTheirChecks == Anchors!AnchorsPassTheirChecks

(* The passport and the employer's view count the same submissions.        *)
HistoriesAgree == Passport!HistoriesAgree

(* A narrative shown speaks of the submissions whose numbers are shown.    *)
NarrativeFitsNumbers == Passport!NarrativeFitsNumbers
=============================================================================
