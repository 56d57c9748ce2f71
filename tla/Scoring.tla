------------------------------- MODULE Scoring -------------------------------
(***************************************************************************)
(* How one submission gets its numbers: each task is drafted by its        *)
(* template, answered, graded against its key where it has one and by the  *)
(* model where it has not (grading/objective, grading/task-category-       *)
(* scores.ts), and the tasks are rolled up into the category scores and    *)
(* the overall score (grading/roll-up.ts) the views show.                  *)
(***************************************************************************)
EXTENDS TaskTemplates

CONSTANT LlmScores      \* the scores the grading model may give

VARIABLES
    answer,     \* the candidate's answer to the open task
    objective,  \* what the key says of the last answer, Null when there is no key
    overall     \* the rolled-up result, Null before

vars == <<phase, task, results, answer, objective, overall>>

Criteria == {"problemSolving", "judgment", "written", "commercial"}

\* What an answer key settles.
SettledByKey == {"problemSolving", "judgment"}

GATE_JUDGMENT_CAP == 20

---------------------------------------------------------------------------
(* Grading an answer against its key (objective-grader.ts). *)

Within(given, correct, tolerance) ==
    given # Null /\ given - correct \in -tolerance .. tolerance

Parts(correct, total) == [correct |-> correct, total |-> total]

SameLine(line, key, tolerance) ==
    /\ line.account = key.account
    /\ line.side = key.side
    /\ Within(line.amount, key.amount, tolerance)

\* The lists left when the first line that matches is taken out of each; none of those without.
TakeLine(lists, key, tolerance) ==
    {RemoveAt(lines, SelectInSeq(lines, LAMBDA line : SameLine(line, key, tolerance))) :
        lines \in {l \in lists : \E i \in DOMAIN l : SameLine(l[i], key, tolerance)}}

\* What the lines of a key leave of the lines given.
LeftOver(key, lines, tolerance) ==
    LET left[i \in 0 .. Len(key)] ==
            IF i = 0 THEN {lines} ELSE TakeLine(left[i - 1], key[i], tolerance)
    IN  left[Len(key)]

(* Mutant: lines beyond the key's do not spoil an entry. *)
EntryMatchesLoosely(key, lines, tolerance) == LeftOver(key, lines, tolerance) # {}

EntryMatches(key, lines, tolerance) ==
    Len(key) = Len(lines) /\ LeftOver(key, lines, tolerance) # {}

GradeJournalEntry(t, lines) ==
    Parts(Cardinality({i \in DOMAIN t.entries :
                          lines # Null /\ EntryMatches(t.entries[i], lines[i], t.tolerance)}),
          Cardinality(DOMAIN t.entries))

\* Every item's side is a part, and the adjusted balance is one more.
GradeReconciliation(t, response) ==
    Parts(IF response = Null THEN 0
          ELSE Cardinality({i \in DOMAIN t.sides : response.sides[i] = t.sides[i]})
               + (IF Within(response.balance, t.balance, t.tolerance) THEN 1 ELSE 0),
          Len(t.sides) + 1)

Cells(t) == (DOMAIN t.values) \X (DOMAIN t.tolerances)

GradeNumericTable(t, values) ==
    Parts(Cardinality({c \in Cells(t) :
                /\ values # Null
                /\ Within(values[c[1]][c[2]], t.values[c[1]][c[2]], t.tolerances[c[2]])}),
          Cardinality(Cells(t)))

GradeNumericInput(t, value) ==
    Parts(IF Within(value, t.value, t.tolerance) THEN 1 ELSE 0, 1)

\* A wrong pick cancels a right one.
GradeMultiSelect(t, picks) ==
    LET hits == IF picks = Null THEN 0
                ELSE Cardinality({i \in DOMAIN picks : picks[i] \in t.correct})
        wrong == IF picks = Null THEN 0 ELSE Len(picks) - hits
    IN  Parts(IF hits > wrong THEN hits - wrong ELSE 0, Cardinality(t.correct))

GradeKeyedClassification(t, mapping) ==
    Parts(Cardinality({i \in DOMAIN t.mapping : mapping # Null /\ mapping[i] = t.mapping[i]}),
          Len(t.mapping))

GradeObjective(t, response) ==
    CASE t.type = "NUMERIC_INPUT" -> GradeNumericInput(t, response)
      [] t.type = "RECONCILIATION" -> GradeReconciliation(t, response)
      [] t.type = "JOURNAL_ENTRY" -> GradeJournalEntry(t, response)
      [] t.type = "MULTI_SELECT_UNDER_CONSTRAINT" -> GradeMultiSelect(t, response)
      [] t.type = "KEYED_CLASSIFICATION" -> GradeKeyedClassification(t, response)
      [] t.type = "NUMERIC_TABLE" -> GradeNumericTable(t, response)
      [] OTHER -> Null

PercentOf(parts) == Rounded(100 * parts.correct, parts.total)

---------------------------------------------------------------------------
(* Answers a candidate may give: for each part the figure that is right,   *)
(* one just inside and one just outside the tolerance, and nothing.        *)

Near(value, tolerance) == {Null, value, value - tolerance, value + tolerance + 1}

Flip(line) == [line EXCEPT !.side = IF @ = "DEBIT" THEN "CREDIT" ELSE "DEBIT"]

LineLists(key, tolerance) ==
    {key, Reverse(key), <<key[1]>>, <<key[1], key[1]>>, <<key[2], key[2]>>,
     Append(key, key[2]), <<Flip(key[1]), Flip(key[2])>>, <<>>}
        \cup {<<key[1], [key[2] EXCEPT !.amount = a]>> : a \in Near(key[2].amount, tolerance)}

Buckets == {"Work first", "Reply now", "Holding reply", "Escalate", "Defer"}

ReconciliationResponses(t) ==
    [sides : [DOMAIN t.sides -> {"BANK", "BOOK"}], balance : Near(t.balance, t.tolerance)]

JournalEntryResponses(t) ==
    LET lists(i) == LineLists(t.entries[i], t.tolerance)
    IN  {lines \in [DOMAIN t.entries -> UNION {lists(i) : i \in DOMAIN t.entries}] :
            \A i \in DOMAIN t.entries : lines[i] \in lists(i)}

MultiSelectResponses(t) ==
    LET options == t.table.questions
    IN  {<<p[1], p[2]>> : p \in {q \in options \X options : q[1] < q[2]}}

ClassificationResponses(t) ==
    {[t.mapping EXCEPT ![i] = b] : i \in DOMAIN t.mapping, b \in Buckets}

NumericTableResponses(t) ==
    UNION {{[t.values EXCEPT ![c[1]][c[2]] = v] : v \in Near(t.values[c[1]][c[2]], t.tolerances[c[2]])} :
            c \in Cells(t)}

Responses(t) ==
    {Null} \cup
    CASE t.type = "NUMERIC_INPUT" -> Near(t.value, t.tolerance)
      [] t.type = "RECONCILIATION" -> ReconciliationResponses(t)
      [] t.type = "JOURNAL_ENTRY" -> JournalEntryResponses(t)
      [] t.type = "MULTI_SELECT_UNDER_CONSTRAINT" -> MultiSelectResponses(t)
      [] t.type = "KEYED_CLASSIFICATION" -> ClassificationResponses(t)
      [] t.type = "NUMERIC_TABLE" -> NumericTableResponses(t)
      [] OTHER -> {}

---------------------------------------------------------------------------
(* One task (grading.service.ts gradeAnswer). *)

\* The criteria the grading model is asked for.
CriteriaForLlm(result) == IF result = Null THEN Criteria ELSE Criteria \ SettledByKey

\* What the key settles is never overridden; a gate caps only a judgment the model gave.
CombineCategoryScores(llm, result, triggered) ==
    [c \in Criteria |->
        IF result # Null /\ c \in SettledByKey THEN PercentOf(result)
        ELSE IF c = "judgment" /\ triggered /\ llm[c] > GATE_JUDGMENT_CAP THEN GATE_JUDGMENT_CAP
        ELSE llm[c]]

NotAttempted == [c \in Criteria |-> 0]

\* The candidate hands in the task, with or without written text.
Submit ==
    /\ phase = "open"
    /\ \E response \in Responses(task), text \in BOOLEAN :
           answer' = [response |-> response, text |-> text]
    /\ phase' = "answered"
    /\ UNCHANGED <<task, results, objective, overall>>

IsNotAttempted == answer.response = Null /\ ~answer.text

\* A task nobody touched scores nothing, without the model.
GradeNotAttempted ==
    /\ phase = "answered"
    /\ IsNotAttempted
    /\ results' = Append(results, NotAttempted)
    /\ phase' = "graded"
    /\ UNCHANGED <<task, answer, objective, overall>>

\* The key settles what it can; the model scores the rest and marks the gate.
GradeAnswer ==
    /\ phase = "answered"
    /\ ~IsNotAttempted
    /\ LET result == GradeObjective(task, answer.response)
           gated == task.type = "WRITTEN" /\ task.gate
       IN  /\ objective' = result
           /\ \E llm \in [CriteriaForLlm(result) -> LlmScores],
                 triggered \in IF gated THEN BOOLEAN ELSE {FALSE} :
                  results' = Append(results, CombineCategoryScores(llm, result, triggered))
    /\ phase' = "graded"
    /\ UNCHANGED <<task, answer, overall>>

\* On to the next answer of the submission.
NextTask ==
    /\ phase = "graded"
    /\ phase' = "draft"
    /\ task' = Rejected
    /\ answer' = Null
    /\ objective' = Null
    /\ UNCHANGED <<results, overall>>

---------------------------------------------------------------------------
(* The submission (roll-up.ts, employer-submission.view.ts). *)

\* The category weights of the four anchor role configurations, in hundredths.
CategoryWeights ==
    {[problemSolving |-> 40, judgment |-> 30, written |-> 10, commercial |-> 20],
     [problemSolving |-> 40, judgment |-> 20, written |-> 20, commercial |-> 20],
     [problemSolving |-> 25, judgment |-> 35, written |-> 25, commercial |-> 15],
     [problemSolving |-> 25, judgment |-> 25, written |-> 25, commercial |-> 25]}

CategoryAverage(c) == Rounded(SumFunction([i \in DOMAIN results |-> results[i][c]]), Len(results))

WeightedSum(scores, weights) == SumFunction([c \in Criteria |-> scores[c] * weights[c]])

\* One task's score out of 100: the plain average of its categories.
TaskScorePercent(r) == Rounded(SumFunction([c \in Criteria |-> r[c]]), 4)

RollUp ==
    /\ phase = "draft"
    /\ Len(results) = Len(Plan)
    /\ results # <<>>       \* a submission with nothing to grade fails instead
    /\ \E weights \in CategoryWeights :
           LET scores == [c \in Criteria |-> CategoryAverage(c)]
           IN  overall' = [categories |-> scores,
                           score |-> Rounded(WeightedSum(scores, weights), 100),
                           tasks |-> [i \in DOMAIN results |-> TaskScorePercent(results[i])]]
    /\ phase' = "rolledUp"
    /\ UNCHANGED <<task, results, answer, objective>>

---------------------------------------------------------------------------

Init ==
    /\ phase = "draft"
    /\ task = Rejected
    /\ results = <<>>
    /\ answer = Null
    /\ objective = Null
    /\ overall = Null

Materialize ==
    /\ phase = "draft"
    /\ Len(results) < Len(Plan)
    /\ \/ Reconciliation \/ JournalEntry \/ Variance \/ VarianceBridge \/ Forecast
       \/ LineTrend \/ RevenueUnitsCombo \/ StatementAnalysis
       \/ TicketTriage \/ DiagnosticQuestions
       \/ RefundPolicyReply \/ DeEscalationReply \/ EscalationHandoff \/ ImproperRequestReply
    /\ UNCHANGED <<results, answer, objective, overall>>

Next == Materialize \/ Submit \/ GradeNotAttempted \/ GradeAnswer \/ NextTask \/ RollUp

Spec == Init /\ [][Next]_vars

---------------------------------------------------------------------------
(* Properties.                                                             *)

Scores == 0 .. 100

TypeOK ==
    /\ phase \in {"draft", "open", "answered", "graded", "rolledUp"}
    /\ task.template \in {"none"} \cup UNION {Plan[i] : i \in DOMAIN Plan}
    /\ results \in Seq([Criteria -> Scores]) /\ Len(results) <= Len(Plan)
    /\ objective # Null => /\ objective.total > 0
                           /\ objective.correct \in 0 .. objective.total
    /\ overall # Null => /\ overall.score \in Scores
                         /\ overall.categories \in [Criteria -> Scores]
                         /\ overall.tasks \in [DOMAIN results -> Scores]

\* The case solved from what the candidate is shown and told, without the key.

Nearest(p, n, d) == 2 * (p * d - n) > -d /\ 2 * (p * d - n) <= d

\* A percentage to one decimal place, half a tenth either way.
RightPercent(given, n, d) ==
    /\ given # Null
    /\ \E tenths \in (given - 10) \div 10 .. (given + 10) \div 10 :
          /\ Nearest(tenths, 1000 * n, d)
          /\ given - 10 * tenths \in -PERCENT_TOLERANCE .. PERCENT_TOLERANCE

RightFigure(t, given) ==
    LET seen == t.table
    IN  CASE t.template = "variance-bridge" ->
                Within(given, ToCents(seen.actual - seen.budget - SumFunction(seen.drivers)), WHOLE_UNIT_TOLERANCE)
          [] t.template = "forecast" ->
                LET result == seen.units * seen.price - seen.units * seen.cost
                                - Unit * seen.fixed - Unit * seen.oneOff
                IN  Within(given, Cent * Rounded(result, Cent * Unit), WHOLE_UNIT_TOLERANCE)
          [] t.template = "line-trend" ->
                RightPercent(given, seen.revenue[Len(seen.revenue)] - seen.revenue[1], seen.revenue[1])

RightCell(t, given, row, column) ==
    LET seen == t.table
        variance == ToCents(seen.actual[row] - seen.budget[row])
    IN  CASE t.template = "variance" /\ column = 1 ->
                Within(given, variance, WHOLE_UNIT_TOLERANCE)
          [] t.template = "variance" /\ column = 2 ->
                RightPercent(given, variance, seen.budget[row])
          [] t.template = "revenue-units" ->
                given # Null /\ \E cents \in (given - CENT_TOLERANCE) \div Cent .. (given + CENT_TOLERANCE) \div Cent :
                    /\ Nearest(cents, seen.revenue[row], Cent * seen.unitsSold[row])
                    /\ given - Cent * cents \in -CENT_TOLERANCE .. CENT_TOLERANCE
          [] t.template = "statement" ->
                RightPercent(given, seen.revenue[row] - seen.sales[row]
                                    - (IF column = 2 THEN seen.expenses[row] ELSE 0), seen.revenue[row])

\* The balance both records reach once every item is taken into the one that misses it.
RightBalance(seen, kinds, given) ==
    /\ Within(given, seen.bank + TotalOf(seen.amounts, kinds, {"DEPOSIT_IN_TRANSIT"})
                     - TotalOf(seen.amounts, kinds, {"OUTSTANDING_CHEQUE"}), CENT_TOLERANCE)
    /\ Within(given, seen.ledger + TotalOf(seen.amounts, kinds, {"BANK_INTEREST", "BANK_COLLECTION"})
                     - TotalOf(seen.amounts, kinds, {"BANK_CHARGE", "NSF_CHEQUE"}), CENT_TOLERANCE)

\* The lines given for a clear transaction are its two lines, each once, in any order.
RightEntry(t, i, lines) ==
    LET debited == IF t.told[i] = "CAPITALISE" THEN "PPE" ELSE "REPAIRS"
        Is(line, account, side) ==
            line.account = account /\ line.side = side /\ Within(line.amount, t.table.amounts[i], CENT_TOLERANCE)
    IN  \E f \in Bijection({"DEBIT", "CREDIT"}, DOMAIN lines) :
            Is(lines[f["DEBIT"]], debited, "DEBIT") /\ Is(lines[f["CREDIT"]], "CASH", "CREDIT")

\* What the guideline shown with the queue says of a ticket.
RightAction(tickets, i, given) ==
    LET t == tickets[i]
        others == DOMAIN tickets \ {i}
        first == \A j \in others : Priority(tickets[j]) < Priority(t)
    IN  CASE given = "Work first" -> first
          [] given = "Escalate" -> ~first /\ t.specialist
          [] given = "Reply now" -> ~first /\ ~t.specialist /\ t.sla <= REPLY_NOW_HOURS
          [] given = "Holding reply" ->
                ~first /\ ~t.specialist /\ t.sla > REPLY_NOW_HOURS /\ t.impact # "LOW"
          [] given = "Defer" ->
                ~first /\ ~t.specialist /\ t.sla > REPLY_NOW_HOURS /\ t.impact = "LOW"

\* Two questions tell the causes apart, and neither of them is wasted.
TellsApart(answers, picks) ==
    LET causes == DOMAIN answers[1]
        differ(q, c, e) == answers[q][c] # answers[q][e]
    IN  /\ \A c, e \in causes : c # e => \E k \in 1 .. 2 : differ(picks[k], c, e)
        /\ \A k \in 1 .. 2 : \E c, e \in causes : differ(picks[k], c, e)

RightParts(t, given) ==
    IF given = Null THEN 0
    ELSE CASE t.type = "NUMERIC_INPUT" -> IF RightFigure(t, given) THEN 1 ELSE 0
           [] t.type = "NUMERIC_TABLE" ->
                Cardinality({c \in Cells(t) : RightCell(t, given[c[1]][c[2]], c[1], c[2])})
           [] t.type = "RECONCILIATION" ->
                Cardinality({i \in Lines :
                    (given.sides[i] = "BANK") <=>
                        t.told[i] \in {"DEPOSIT_IN_TRANSIT", "OUTSTANDING_CHEQUE"}})
                + (IF RightBalance(t.table, t.told, given.balance) THEN 1 ELSE 0)
           [] t.type = "JOURNAL_ENTRY" ->
                Cardinality({i \in DOMAIN given : RightEntry(t, i, given[i])})
           [] t.type = "KEYED_CLASSIFICATION" ->
                Cardinality({i \in DOMAIN given : RightAction(t.table.tickets, i, given[i])})
           [] t.type = "MULTI_SELECT_UNDER_CONSTRAINT" ->
                IF TellsApart(t.told, given) THEN 2 ELSE 0

\* The key agrees with the case: when no figure was changed by being shown, an answer earns exactly
\* the parts that are right when the case is solved from the table (the templates' materialize and
\* objective-grader.ts).
KeyAgreesWithTheCase ==
    objective # Null /\ task.exact => objective.correct = RightParts(task, answer.response)

---------------------------------------------------------------------------
(* Statements of the repository's own comments that the code does not keep *)
(* (README, "Known disagreements").                                        *)

\* "Whole number 0-100: correct parts over total parts" (objective-grader.ts:14), for any list of
\* picks the response schema lets through: repeated picks of the right options score more.
ScoreIsOutOfHundred ==
    \A picks \in UNION {[1 .. n -> {1, 2}] : n \in 0 .. 3} :
        PercentOf(GradeMultiSelect([correct |-> {1, 2}], picks)) \in Scores

\* "The policy tab is the only rule set: the gate and checklist name the behaviours it allows
\* and forbids" (de-escalation-reply.template.ts:25): the policy says nothing of a bad review.
ChecklistFollowsPolicy ==
    task.template = "de-escalation" /\ Escalation \in task.promises => task.table.threat # "BAD_REVIEW"

\* "Solving backwards from the adjusted balance makes both reconciliations exact by construction"
\* (reconciliation.template.ts:74): a balance or an item finer than its currency is written in, which
\* the schema accepts, is shown rounded, and the balances and items shown need not add up.
ReconciliationIsExact ==
    task.template = "reconciliation" => RightBalance(task.table, task.told, task.balance)

=============================================================================
