------------------------- MODULE CapabilityPassport -------------------------
(***************************************************************************)
(* The capability score of one candidate and the passport built on it      *)
(* (src/modules/capability-passport, submissions.service.ts).  Both are    *)
(* computed from the submissions whenever somebody asks; only the          *)
(* passport's narrative is cached, in the candidate's profile, with the    *)
(* ids of the submissions it was written about.                            *)
(*                                                                         *)
(* Time is counted in half-lives of a submission's weight.                 *)
(***************************************************************************)
EXTENDS Integers, Sequences, SequencesExt

CONSTANTS
    Submissions,
    Readers,        \* requests for the passport, by the candidate or an employer
    DomainOf,       \* the capability domain of each submission's job
    Results,        \* the category scores grading may give
    Recent,         \* RECENT_SUBMISSIONS_FOR_NARRATIVE
    MaxTime,        \* bound: half-lives
    MaxReads,       \* bound: passports asked for
    MaxChanges,     \* bound: flag reviews and answers sent again
    Null

VARIABLES
    now,
    order,          \* the completed submissions, by completedAt
    completedAt,
    status,
    scores,         \* the stored category scores, Null before grading
    publishing,     \* the graded submission whose scores are not in the profile yet
    published,      \* the profile's capabilityScores: a submission per domain
    cached,         \* the profile's narrative
    reader,
    reads,
    changes

submitted == <<order, completedAt>>
graded == <<status, scores, publishing, published>>
vars == <<now, submitted, graded, cached, reader, reads, changes>>

Categories == {"problemSolving", "judgment", "written", "commercial"}
GlobalCategories == Categories \ {"commercial"}

CAPABILITY_PRIOR_SCORE == 500
CAPABILITY_PRIOR_WEIGHT == 2

Rounded(n, d) == (2 * n + d) \div (2 * d)

\* The elements of a list that are in a set, in the list's order.
Selected(list, set) ==
    LET upTo[n \in 0 .. Len(list)] ==
            IF n = 0 THEN <<>>
            ELSE IF list[n] \in set THEN Append(upTo[n - 1], list[n]) ELSE upTo[n - 1]
    IN  upTo[Len(list)]

---------------------------------------------------------------------------
(* The numbers (employer-submission.view.ts, capability-passport.util.ts). *)

\* One submission's contribution, out of 1000.
CapabilityPoints(s) ==
    Rounded(10 * SumFunction([c \in GlobalCategories |-> scores[s][c]]), 3)

Doubled[n \in 0 .. MaxTime] == IF n = 0 THEN 1 ELSE 2 * Doubled[n - 1]

\* A weight halves with every half-life before the newest; scaled to stay whole.
Weight(s, newest) == Doubled[MaxTime - (completedAt[newest] - completedAt[s])]

\* The score after each submission of a list that is in order of completion.
ScoreHistory(list) ==
    [i \in DOMAIN list |->
        LET weight(j) == Weight(list[j], list[i])
            prior == CAPABILITY_PRIOR_WEIGHT * Doubled[MaxTime]
        IN  Rounded(prior * CAPABILITY_PRIOR_SCORE
                        + SumFunction([j \in 1 .. i |-> weight(j) * CapabilityPoints(list[j])]),
                    prior + SumFunction([j \in 1 .. i |-> weight(j)]))]

(* Mutant: a disqualified submission still counts. *)
CountsAny(s) == scores[s] # Null

\* What both queries select.
Counts(s) == scores[s] # Null /\ status[s] # "DISQUALIFIED"

GradedSubmissions == Selected(order, {s \in Submissions : Counts(s)})

\* The history shown with one application: its job's domain only, up to the application itself.
CapabilityHistory(s) ==
    LET shown == {t \in Submissions : scores[t] # Null /\ status[t] # "DISQUALIFIED"
                                          /\ DomainOf[t] = DomainOf[s]}
        list == Selected(order, shown)
        upTo == SelectInSeq(list, LAMBDA t : t = s)
    IN  SubSeq(ScoreHistory(list), 1, upTo)

Dimensions(list) ==
    [c \in Categories |->
        Rounded(SumFunction([i \in DOMAIN list |-> scores[list[i]][c]]), Len(list))]

DomainScores(list) ==
    [d \in {DomainOf[list[i]] : i \in DOMAIN list} |->
        LET own == {i \in DOMAIN list : DomainOf[list[i]] = d}
        IN  Rounded(SumFunction([i \in own |-> CapabilityPoints(list[i])]), 10 * Cardinality(own))]

\* A lowest value, as findWeakestCategory and findWeakestDomain pick it.
Weakest(f) == {k \in DOMAIN f : \A l \in DOMAIN f : f[k] <= f[l]}

\* The latest submissions, newest first.
RecentSubmissions(list) ==
    SubSeq(Reverse(list), 1, IF Len(list) < Recent THEN Len(list) ELSE Recent)

\* What a passport shows and its narrative is told: the current score, what is weakest, and the
\* recent submissions.
NumbersOf(list) ==
    [basedOn |-> RecentSubmissions(list), composite |-> Last(ScoreHistory(list)),
     weakest |-> <<Weakest(Dimensions(list)), Weakest(DomainScores(list))>>]

---------------------------------------------------------------------------
(* What happens to the submissions. *)

Init ==
    /\ now = 0
    /\ order = <<>>
    /\ completedAt = [s \in Submissions |-> Null]
    /\ status = [s \in Submissions |-> "PENDING"]
    /\ scores = [s \in Submissions |-> Null]
    /\ publishing = Null
    /\ published = <<>>
    /\ cached = Null
    /\ reader = [r \in Readers |-> [pc |-> "idle"]]
    /\ reads = 0
    /\ changes = 0

Tick ==
    /\ now < MaxTime
    /\ now' = now + 1
    /\ UNCHANGED <<submitted, graded, cached, reader, reads, changes>>

Change(again) ==
    /\ again => changes < MaxChanges
    /\ changes' = IF again THEN changes + 1 ELSE changes

\* Answers sent again move a submission to the end; a stored result stays.
SubmitAnswers(s) ==
    /\ Change(completedAt[s] # Null)
    /\ completedAt' = [completedAt EXCEPT ![s] = now]
    /\ order' = Append(Selected(order, Submissions \ {s}), s)
    /\ UNCHANGED <<now, graded, cached, reader, reads>>

\* A result once given is given again: grading resumes from the saved task scores.
Grade(s) ==
    /\ completedAt[s] # Null
    /\ status[s] = "PENDING"
    /\ publishing = Null
    /\ status' = [status EXCEPT ![s] = "GRADED"]
    /\ \E r \in IF scores[s] = Null THEN Results ELSE {scores[s]} :
          scores' = [scores EXCEPT ![s] = r]
    /\ publishing' = s
    /\ UNCHANGED <<now, submitted, published, cached, reader, reads, changes>>

\* updateCapabilityScores, after the result is stored; a worker that dies here never repeats it.
Publish ==
    /\ publishing # Null
    /\ published' = (DomainOf[publishing] :> publishing) @@ published
    /\ publishing' = Null
    /\ UNCHANGED <<now, submitted, status, scores, cached, reader, reads, changes>>

WorkerDies ==
    /\ publishing # Null
    /\ publishing' = Null
    /\ UNCHANGED <<now, submitted, status, scores, published, cached, reader, reads, changes>>

ReviewAntiCheatFlag(s, uphold) ==
    /\ completedAt[s] # Null
    /\ Change(TRUE)
    /\ status' = [status EXCEPT ![s] = IF uphold THEN "DISQUALIFIED" ELSE "PENDING"]
    /\ UNCHANGED <<now, submitted, scores, publishing, published, cached, reader, reads>>

---------------------------------------------------------------------------
(* Reading the passport. *)

At(r, pc) == reader[r].pc = pc
Step(r, to) == reader' = [reader EXCEPT ![r] = to]

\* The rows, and all the numbers, come from one query; none without a graded submission.
LoadGradedSubmissions(r) ==
    /\ At(r, "idle")
    /\ reads < MaxReads
    /\ GradedSubmissions # <<>>
    /\ reads' = reads + 1
    /\ Step(r, [pc |-> "loaded", numbers |-> NumbersOf(GradedSubmissions)])
    /\ UNCHANGED <<now, submitted, graded, cached, changes>>

(* Mutant: only the number of submissions is compared. *)
StaleByLength(narrative, recent) == narrative = Null \/ Len(narrative.basedOn) # Len(recent)

IsStale(narrative, recent) == narrative = Null \/ narrative.basedOn # recent

Answer(r, narrative, failed) ==
    Step(r, [pc |-> "answered", numbers |-> reader[r].numbers,
             narrative |-> narrative, failed |-> failed])

GetNarrative(r) ==
    /\ At(r, "loaded")
    /\ IF IsStale(cached, reader[r].numbers.basedOn)
       THEN Step(r, [pc |-> "generate", numbers |-> reader[r].numbers, fallback |-> cached])
       ELSE Answer(r, cached, FALSE)
    /\ UNCHANGED <<now, submitted, graded, cached, reads, changes>>

\* The model writes a narrative of the numbers this request loaded, and the profile keeps it.
GenerateNarrative(r) ==
    /\ At(r, "generate")
    /\ cached' = reader[r].numbers
    /\ Answer(r, reader[r].numbers, FALSE)
    /\ UNCHANGED <<now, submitted, graded, reads, changes>>

\* The model fails: whatever was cached, or an empty narrative.
NarrativeFails(r) ==
    /\ At(r, "generate")
    /\ Answer(r, reader[r].fallback, TRUE)
    /\ UNCHANGED <<now, submitted, graded, cached, reads, changes>>

Done(r) ==
    /\ At(r, "answered")
    /\ Step(r, [pc |-> "idle"])
    /\ UNCHANGED <<now, submitted, graded, cached, reads, changes>>

Next ==
    \/ Tick
    \/ \E s \in Submissions :
          \/ SubmitAnswers(s) \/ Grade(s)
          \/ \E uphold \in BOOLEAN : ReviewAntiCheatFlag(s, uphold)
    \/ Publish \/ WorkerDies
    \/ \E r \in Readers :
          \/ LoadGradedSubmissions(r) \/ GetNarrative(r)
          \/ GenerateNarrative(r) \/ NarrativeFails(r) \/ Done(r)

Spec == Init /\ [][Next]_vars

---------------------------------------------------------------------------
(* Properties.                                                             *)

TypeOK ==
    /\ now \in 0 .. MaxTime
    /\ \A i, j \in DOMAIN order : i < j => /\ order[i] # order[j]
                                          /\ completedAt[order[i]] <= completedAt[order[j]]
    /\ status \in [Submissions -> {"PENDING", "GRADED", "DISQUALIFIED"}]
    /\ \A s \in Submissions : scores[s] # Null => Contains(order, s)
    /\ \A i \in DOMAIN GradedSubmissions : ScoreHistory(GradedSubmissions)[i] \in 0 .. 1000
    /\ \A r \in Readers : reader[r].pc \in {"idle", "loaded", "generate", "answered"}

\* The passport and the page of one application never disagree: the score of an application, among
\* those of one domain, is the score the candidate's whole history had there when that domain is the
\* only one (getCandidatePassport, findCapabilityHistories; flags reviewed and answers sent again).
HistoriesAgree ==
    \A s \in Submissions :
        /\ Contains(GradedSubmissions, s)
        /\ \A i \in DOMAIN GradedSubmissions : DomainOf[GradedSubmissions[i]] = DomainOf[s]
        => IsPrefix(CapabilityHistory(s), ScoreHistory(GradedSubmissions))

\* A narrative is about the submissions whose numbers it stands beside, whatever other requests,
\* gradings or reviews happen in between, unless writing it failed (getOrRegenerate).
NarrativeFitsNumbers ==
    \A r \in Readers :
        At(r, "answered") /\ ~reader[r].failed =>
            reader[r].narrative.basedOn = reader[r].numbers.basedOn

---------------------------------------------------------------------------
(* Statements a reader may expect, though nothing in the repository makes  *)
(* them: they do not hold (README, "Known disagreements").                 *)

\* The cached narrative is about the score shown beside it: the score also depends on submissions
\* that are not among the recent ones (passport-narrative.service.ts:39).
NarrativeFitsScore ==
    \A r \in Readers :
        At(r, "answered") /\ ~reader[r].failed =>
            reader[r].narrative.composite = reader[r].numbers.composite

\* The same result again never lowers the score: what came before has faded towards the prior
\* (employer-submission.view.ts:212, docs/gainday-capability-score.md).
SameResultNeverLowers ==
    LET list == GradedSubmissions
        same(i) == CapabilityPoints(list[i]) = CapabilityPoints(list[1])
    IN  (\A i \in DOMAIN list : same(i) /\ CapabilityPoints(list[i]) >= CAPABILITY_PRIOR_SCORE) =>
            \A i \in DOMAIN list : i > 1 => ScoreHistory(list)[i] >= ScoreHistory(list)[i - 1]

\* A graded submission's scores are in the profile once no grading is under way (grading.service.ts:405).
GradedIsPublished ==
    publishing = Null => \A s \in Submissions : status[s] = "GRADED" => DomainOf[s] \in DOMAIN published

=============================================================================
