--------------------------- MODULE GradingAnchors ---------------------------
(***************************************************************************)
(* The anchors one task is graded against (src/modules/grading/anchors).   *)
(* A task gets them when the first of its answers is graded: the model     *)
(* drafts a set, code checks its shape and its promises, a critic judges   *)
(* it, and the set is stored in the task's question-bank row.  Every       *)
(* later answer is graded against the stored set.  A grading attempt may   *)
(* fail or its worker die at any point; the queue then runs it again.      *)
(***************************************************************************)
EXTENDS Integers, Sequences, FiniteSets

CONSTANTS
    Answers,        \* the answers to the task, each of another submission
    Workers,        \* the grading workers, each with one job at a time
    Drafts,         \* the anchor sets the model may draft: a sequence of anchors, each
                    \* a record of its score and the commitments its text makes
    ScorePoints,    \* the configured scores, in order
    Authorised,     \* the commitments the task's policy allows
    MaxAttempts,    \* drafts per grading attempt
    MaxFailures,    \* bound: failed grading attempts
    Null

VARIABLES
    row,        \* the question-bank row: its anchors, and whether they need review
    worker,     \* what each worker is doing
    gradedWith, \* the anchors each answer was graded against
    failures

vars == <<row, worker, gradedWith, failures>>

COMMITMENT_CHECK_MIN_SCORE == 70

---------------------------------------------------------------------------
(* The checks code makes of a draft. *)

WellFormed(anchors) ==
    /\ Len(anchors) = Len(ScorePoints)
    /\ \A i \in DOMAIN anchors : anchors[i].score = ScorePoints[i]

IsAuthorised(c) ==
    \E allowed \in Authorised :
        /\ allowed.kind = c.kind
        /\ c.amount = Null \/ allowed.amount = Null \/ c.amount <= allowed.amount

KeepsThePolicy(anchors) ==
    \A i \in DOMAIN anchors :
        anchors[i].score >= COMMITMENT_CHECK_MIN_SCORE =>
            \A c \in anchors[i].commitments : IsAuthorised(c)

---------------------------------------------------------------------------

Idle == [step |-> "idle"]

Doing(step, a, attempt, anchors) ==
    [step |-> step, answer |-> a, attempt |-> attempt, anchors |-> anchors]

Waiting(a) ==
    /\ gradedWith[a] = Null
    /\ \A w \in Workers : worker[w].step # "idle" => worker[w].answer # a

Init ==
    /\ row = [anchors |-> Null, needsReview |-> FALSE]
    /\ worker = [w \in Workers |-> Idle]
    /\ gradedWith = [a \in Answers |-> Null]
    /\ failures = 0

\* The attempt reads the row, and drafts anchors only if it has none.
EnsureAnchors(w, a) ==
    /\ worker[w].step = "idle"
    /\ Waiting(a)
    /\ worker' = [worker EXCEPT ![w] =
            Doing(IF row.anchors # Null THEN "grading" ELSE "drafting", a, 0, row.anchors)]
    /\ UNCHANGED <<row, gradedWith, failures>>

(* Mutant: a draft is kept for the end of the loop before it is checked. *)
GenerateKeepsAll(w) ==
    /\ worker[w].step = "drafting"
    /\ worker[w].attempt < MaxAttempts
    /\ \E d \in Drafts :
          worker' = [worker EXCEPT ![w].attempt = @ + 1, ![w].anchors = d,
                        ![w].step = IF WellFormed(d) /\ KeepsThePolicy(d)
                                    THEN "critique" ELSE "drafting"]
    /\ UNCHANGED <<row, gradedWith, failures>>

\* A draft that fails a check uses up the attempt and is never kept.
Generate(w) ==
    /\ worker[w].step = "drafting"
    /\ worker[w].attempt < MaxAttempts
    /\ \E d \in Drafts :
          worker' = IF WellFormed(d) /\ KeepsThePolicy(d)
                    THEN [worker EXCEPT ![w] = Doing("critique", @.answer, @.attempt + 1, d)]
                    ELSE [worker EXCEPT ![w].attempt = @ + 1]
    /\ UNCHANGED <<row, gradedWith, failures>>

\* The critic: a sound set ends the loop, any other stays the fallback.
Critique(w) ==
    /\ worker[w].step = "critique"
    /\ \E next \in {"approved", "drafting"} : worker' = [worker EXCEPT ![w].step = next]
    /\ UNCHANGED <<row, gradedWith, failures>>

OutOfAttempts(w) == worker[w].step = "drafting" /\ worker[w].attempt = MaxAttempts

\* The set goes to the row, flagged when the critic never approved it.
Save(w) ==
    /\ worker[w].step = "approved" \/ (OutOfAttempts(w) /\ worker[w].anchors # Null)
    /\ row' = [anchors |-> worker[w].anchors, needsReview |-> OutOfAttempts(w)]
    /\ worker' = [worker EXCEPT ![w].step = "grading"]
    /\ UNCHANGED <<gradedWith, failures>>

\* The answer is scored against the anchors at hand and its result is stored.
GradeTask(w) ==
    /\ worker[w].step = "grading"
    /\ gradedWith' = [gradedWith EXCEPT ![worker[w].answer] = worker[w].anchors]
    /\ worker' = [worker EXCEPT ![w] = Idle]
    /\ UNCHANGED <<row, failures>>

\* A model call fails, no draft passed the checks, or the worker dies: the job is run again.
Fail(w) ==
    /\ worker[w].step # "idle"
    /\ failures < MaxFailures
    /\ failures' = failures + 1
    /\ worker' = [worker EXCEPT ![w] = Idle]
    /\ UNCHANGED <<row, gradedWith>>

Next ==
    \E w \in Workers :
        \/ \E a \in Answers : EnsureAnchors(w, a)
        \/ Generate(w) \/ Critique(w) \/ Save(w) \/ GradeTask(w) \/ Fail(w)

Spec == Init /\ [][Next]_vars

---------------------------------------------------------------------------
(* Properties.                                                             *)

TypeOK ==
    /\ row.anchors \in Drafts \cup {Null} /\ row.needsReview \in BOOLEAN
    /\ \A w \in Workers : worker[w].step \in {"idle", "drafting", "critique", "approved", "grading"}
    /\ gradedWith \in [Answers -> Drafts \cup {Null}]
    /\ failures \in 0 .. MaxFailures

\* No answer is measured against a malformed set, or one whose strong replies promise what the
\* policy forbids, even when every draft was turned down (generateWithCritique).
AnchorsPassTheirChecks ==
    \A a \in Answers : gradedWith[a] # Null => WellFormed(gradedWith[a]) /\ KeepsThePolicy(gradedWith[a])

---------------------------------------------------------------------------
(* Statements of the repository's own comments that the code does not keep *)
(* (README, "Known disagreements").                                        *)

\* grading.service.ts:65: "the first submission against a job to reach a given task finds no
\* anchors and generates them; every submission after that ... just finds them already there".
\* Two workers may both find none, and the later save replaces the anchors the other graded with.
OneYardstick ==
    \A a \in Answers : gradedWith[a] # Null => gradedWith[a] = row.anchors
=============================================================================
