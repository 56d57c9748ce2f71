---------------------------- MODULE TaskTemplates ----------------------------
(***************************************************************************)
(* The tasks whose figures the code computes (src/modules/generation/      *)
(* roles).  The model writes the raw inputs of a case; the template of its *)
(* task type derives from them the table the candidate is shown and the    *)
(* answer key the grader will use, or rejects the inputs, in which case    *)
(* the slot is generated again.  The table shows each figure rounded to    *)
(* what its currency is written in, the key is worked out from the figures *)
(* as they were given; "exact" is a history field: no figure was changed   *)
(* by being shown.  "told" is what the wording of the lines tells, which   *)
(* no column of the table does.                                            *)
(*                                                                         *)
(* Money is in tenths of a cent, a percentage in hundredths of a percent   *)
(* and units sold in thousandths, so that the schemas' fractions of a cent *)
(* and of a unit occur and a tolerance is a whole number.  Labels are      *)
(* positions in a list; "unique" says whether the model gave each line its *)
(* own.  Binary floating point is not modelled: figures are exact.         *)
(***************************************************************************)
EXTENDS Integers, Sequences, SequencesExt

CONSTANTS
    Amounts,    \* the amounts of a case's lines, in order
    Figures,    \* the other amounts a case may state
    MinorUnit,  \* the smallest amount the case's currency is written in
    Queues,     \* the ticket queues of a triage case
    Interviews, \* the answers each question would get under each cause
    Plan,       \* the templates each slot of the simulation may use
    Null        \* an absent value

VARIABLES
    phase,      \* where the current slot is: "draft", "open", "answered", "graded", "rolledUp"
    task,       \* the slot's task as stored: its template, table, component and key
    results     \* the category scores of the tasks graded so far

Rejected == [template |-> "none"]       \* TaskSpecError: generate the slot again

---------------------------------------------------------------------------
(* Rounding and tolerances (finance-format.ts). *)

CENT_TOLERANCE == 10
WHOLE_UNIT_TOLERANCE == 500
PERCENT_TOLERANCE == 5

Cent == 10
Unit == 1000

\* Math.round of n / d for a positive d: a half is rounded up.
Rounded(n, d) == (2 * n + d) \div (2 * d)

\* roundTo(n / d * 100, 1), in hundredths.
Percent(n, d) == 10 * Rounded(1000 * n, d)

\* roundTo(x, 2).
ToCents(x) == Cent * Rounded(x, Cent)

\* formatAmount: the nearest amount the currency is written in, a half away from zero.
Shown(x) == IF x < 0 THEN -(MinorUnit * Rounded(-x, MinorUnit)) ELSE MinorUnit * Rounded(x, MinorUnit)

ShownEach(f) == [i \in DOMAIN f |-> Shown(f[i])]

\* formatNumber: two decimals of a positive number of units.
ShownUnits(u) == 10 * Rounded(u, 10)

Lines == DOMAIN Amounts

---------------------------------------------------------------------------
(* One slot of a simulation: a template either builds the task or rejects  *)
(* the inputs.                                                             *)

Build(valid, t) ==
    /\ t.template \in Plan[Len(results) + 1]
    /\ task' = IF valid THEN t ELSE Rejected
    /\ phase' = IF valid THEN "open" ELSE "draft"

ItemKinds ==
    {"DEPOSIT_IN_TRANSIT", "OUTSTANDING_CHEQUE", "BANK_CHARGE",
     "BANK_INTEREST", "NSF_CHEQUE", "BANK_COLLECTION"}

BankSideKinds == {"DEPOSIT_IN_TRANSIT", "OUTSTANDING_CHEQUE"}

\* The amounts of the lines of the given kinds.
TotalOf(amounts, kinds, ks) == SumFunction([i \in {l \in Lines : kinds[l] \in ks} |-> amounts[i]])

\* The two balances are solved backwards from the reconciled one and rounded to the cent.
Reconciliation ==
    \E kinds \in [Lines -> ItemKinds], adjusted \in Figures, unique \in BOOLEAN :
        LET bank == adjusted - TotalOf(Amounts, kinds, {"DEPOSIT_IN_TRANSIT"})
                             + TotalOf(Amounts, kinds, {"OUTSTANDING_CHEQUE"})
            ledger == adjusted - TotalOf(Amounts, kinds, {"BANK_INTEREST", "BANK_COLLECTION"})
                               + TotalOf(Amounts, kinds, {"BANK_CHARGE", "NSF_CHEQUE"})
            shown == [bank |-> Shown(ToCents(bank)), ledger |-> Shown(ToCents(ledger)),
                      amounts |-> ShownEach(Amounts)]
        IN  Build(unique /\ ToCents(bank) > 0 /\ ToCents(ledger) > 0,
                  [template |-> "reconciliation", type |-> "RECONCILIATION",
                   table |-> shown, told |-> kinds,
                   exact |-> shown = [bank |-> bank, ledger |-> ledger, amounts |-> Amounts],
                   sides |-> [i \in Lines |-> IF kinds[i] \in BankSideKinds
                                              THEN "BANK" ELSE "BOOK"],
                   balance |-> adjusted, tolerance |-> CENT_TOLERANCE])

\* The one debatable transaction has no entry in the key.
JournalEntry ==
    \E treatment \in [Lines -> {"CAPITALISE", "EXPENSE", "AMBIGUOUS"}], unique \in BOOLEAN :
        LET ambiguous == {i \in Lines : treatment[i] = "AMBIGUOUS"}
            account(i) == IF treatment[i] = "CAPITALISE" THEN "PPE" ELSE "REPAIRS"
        IN  Build(unique /\ \E i \in Lines : ambiguous = {i},
                  [template |-> "journal-entry", type |-> "JOURNAL_ENTRY",
                   table |-> [amounts |-> ShownEach(Amounts)], told |-> treatment,
                   exact |-> ShownEach(Amounts) = Amounts,
                   entries |-> [i \in Lines \ ambiguous |->
                        <<[account |-> account(i), side |-> "DEBIT", amount |-> Amounts[i]],
                          [account |-> "CASH", side |-> "CREDIT", amount |-> Amounts[i]]>>],
                   tolerance |-> CENT_TOLERANCE])

\* A numeric table: one row of figures per line, one tolerance per column.
NumericTable(name, given, shown, values, tolerances) ==
    [template |-> name, type |-> "NUMERIC_TABLE", table |-> shown, exact |-> shown = given,
     values |-> values, tolerances |-> tolerances]

\* A single figure to work out.
NumericInput(name, given, shown, value, tolerance) ==
    [template |-> name, type |-> "NUMERIC_INPUT", table |-> shown, exact |-> shown = given,
     value |-> value, tolerance |-> tolerance]

\* The percentage is of the variance as rounded to the cent.
Variance ==
    \E actual \in [Lines -> Figures \cup {0}], unique \in BOOLEAN :
        LET variance == [i \in Lines |-> ToCents(actual[i] - Amounts[i])]
        IN  Build(unique,
                  NumericTable("variance",
                      [actual |-> actual, budget |-> Amounts],
                      [actual |-> ShownEach(actual), budget |-> ShownEach(Amounts)],
                      [i \in Lines |-> <<variance[i], Percent(variance[i], Amounts[i])>>],
                      <<WHOLE_UNIT_TOLERANCE, PERCENT_TOLERANCE>>))

\* What the named drivers leave unexplained; less than one unit is nothing to find.
VarianceBridge ==
    \E budget, actual \in Figures, sign \in [Lines -> {-1, 0, 1}], unique \in BOOLEAN :
        LET drivers == [i \in Lines |-> sign[i] * Amounts[i]]
            unexplained == ToCents(actual - budget - SumFunction(drivers))
        IN  Build(/\ unique
                  /\ \A i \in Lines : drivers[i] # 0
                  /\ unexplained >= 100 * Cent \/ unexplained <= -(100 * Cent),
                  NumericInput("variance-bridge",
                      [budget |-> budget, actual |-> actual, drivers |-> drivers],
                      [budget |-> Shown(budget), actual |-> Shown(actual), drivers |-> ShownEach(drivers)],
                      unexplained, WHOLE_UNIT_TOLERANCE))

Revised(base, change) == IF change = Null THEN base ELSE change

\* The operating result of the revised column, in thousandths of tenths of a cent.
OperatingResult(f) == f.units * (f.price - f.cost) - Unit * (f.fixed + f.oneOff)

Forecast ==
    \E units \in {1000, 1125}, price, fixed \in Figures,
       newUnits \in {3000, Null}, newPrice, oneOff \in Figures \cup {Null} :
        LET after == [units |-> Revised(units, newUnits), price |-> Revised(price, newPrice),
                      cost |-> Amounts[1], fixed |-> fixed, oneOff |-> Revised(0, oneOff)]
            shown == [units |-> ShownUnits(after.units), price |-> Shown(after.price),
                      cost |-> Shown(after.cost), fixed |-> Shown(after.fixed),
                      oneOff |-> Shown(after.oneOff)]
        IN  Build(newUnits # Null \/ newPrice # Null \/ oneOff # Null,
                  NumericInput("forecast", after, shown,
                      Cent * Rounded(OperatingResult(after), Cent * Unit), WHOLE_UNIT_TOLERANCE))

LineTrend ==
    \E revenue \in [Lines -> Figures], unique \in BOOLEAN :
        Build(unique /\ revenue[1] > 0,
              NumericInput("line-trend", [revenue |-> revenue], [revenue |-> ShownEach(revenue)],
                  Percent(revenue[Len(Amounts)] - revenue[1], revenue[1]), PERCENT_TOLERANCE))

\* Units are whole here (the schema's int), and shown as they are.
RevenueUnitsCombo ==
    \E unitsSold \in [Lines -> {1, 3, 7}], unique \in BOOLEAN :
        LET perUnit == [i \in Lines |-> Cent * Rounded(Amounts[i], Cent * unitsSold[i])]
        IN  Build(unique /\ \A i \in Lines : perUnit[i] > 0,
                  NumericTable("revenue-units",
                      [revenue |-> Amounts, unitsSold |-> unitsSold],
                      [revenue |-> ShownEach(Amounts), unitsSold |-> unitsSold],
                      [i \in Lines |-> <<perUnit[i]>>], <<CENT_TOLERANCE>>))

StatementAnalysis ==
    \E sales, expenses \in [Lines -> {0} \cup Figures], unique \in BOOLEAN :
        Build(unique,
              NumericTable("statement",
                  [revenue |-> Amounts, sales |-> sales, expenses |-> expenses],
                  [revenue |-> ShownEach(Amounts), sales |-> ShownEach(sales),
                   expenses |-> ShownEach(expenses)],
                  [i \in Lines |->
                      <<Percent(Amounts[i] - sales[i], Amounts[i]),
                        Percent(Amounts[i] - sales[i] - expenses[i], Amounts[i])>>],
                  <<PERCENT_TOLERANCE, PERCENT_TOLERANCE>>))

---------------------------------------------------------------------------
(* Customer service (roles/customer-service/templates). *)

TierWeight == [VIP |-> 3, STANDARD |-> 2, BASIC |-> 1]
ImpactWeight == [HIGH |-> 3, MEDIUM |-> 2, LOW |-> 1]
URGENCY_WINDOW_HOURS == 24
REPLY_NOW_HOURS == 4

Priority(t) ==
    TierWeight[t.tier] * 10 + ImpactWeight[t.impact] * 10
        + (IF t.sla < URGENCY_WINDOW_HOURS THEN URGENCY_WINDOW_HOURS - t.sla ELSE 0)

\* The first rule that applies to a ticket that is not worked first.
ActionFor(t) ==
    IF t.specialist THEN "Escalate"
    ELSE IF t.sla <= REPLY_NOW_HOURS THEN "Reply now"
    ELSE IF t.impact # "LOW" THEN "Holding reply"
    ELSE "Defer"

\* Rejected unless one ticket is the unambiguous first pick.
TicketTriage ==
    \E tickets \in Queues, unique \in BOOLEAN :
        LET IsFirst(i) == \A j \in DOMAIN tickets \ {i} : Priority(tickets[i]) > Priority(tickets[j])
        IN  Build(unique /\ \E i \in DOMAIN tickets : IsFirst(i),
                  [template |-> "ticket-triage", type |-> "KEYED_CLASSIFICATION",
                   table |-> [tickets |-> tickets], exact |-> TRUE,
                   mapping |-> [i \in DOMAIN tickets |->
                        IF IsFirst(i) THEN "Work first" ELSE ActionFor(tickets[i])]])

\* The pairs of useful questions whose two answers tell every cause from the others.
SeparatingPairs(answers) ==
    LET useful(q) == \E c, e \in DOMAIN answers[q] : answers[q][c] # answers[q][e]
        seen(p) == {<<answers[p[1]][c], answers[p[2]][c]>> : c \in DOMAIN answers[p[1]]}
    IN  {p \in (DOMAIN answers) \X (DOMAIN answers) :
            /\ p[1] < p[2] /\ useful(p[1]) /\ useful(p[2])
            /\ Cardinality(seen(p)) = Len(answers[p[1]])}

\* Rejected unless exactly one pair of questions separates the causes.
DiagnosticQuestions ==
    \E answers \in Interviews, unique \in BOOLEAN :
        LET pairs == SeparatingPairs(answers)
            pair == CHOOSE p \in pairs : TRUE
        IN  Build(unique /\ Cardinality(pairs) = 1,
                  [template |-> "diagnostic-questions", type |-> "MULTI_SELECT_UNDER_CONSTRAINT",
                   table |-> [questions |-> DOMAIN answers], told |-> answers, exact |-> TRUE,
                   correct |-> IF pairs = {} THEN {} ELSE {pair[1], pair[2]}])

Commitment(kind, amount) == [kind |-> kind, amount |-> amount]
Escalation == Commitment("ESCALATION", Null)

\* A reply that is only written: no key; "promises" are the commitments a checklist item asks for.
WrittenReply(name, table, promises, gate, authorised) ==
    [template |-> name, type |-> "WRITTEN", table |-> table, promises |-> promises,
     gate |-> gate, authorised |-> authorised]

RefundPolicyReply ==
    \E orderDay, requestDay \in 0 .. 9, window \in {7}, credit, amount \in Figures :
        LET outside == requestDay - orderDay > window
        IN  Build(requestDay >= orderDay,
                  WrittenReply("refund-policy",
                      [days |-> requestDay - orderDay, window |-> window],
                      {IF outside THEN Commitment("STORE_CREDIT", credit)
                                  ELSE Commitment("CASH_REFUND", amount)},
                      TRUE,
                      IF outside THEN {Commitment("STORE_CREDIT", credit), Escalation}
                                 ELSE {Commitment("CASH_REFUND", amount)}))

DeEscalationReply ==
    \E threat \in {"NONE", "BAD_REVIEW", "CHARGEBACK", "SAFETY"}, limit \in Figures :
        Build(TRUE,
              WrittenReply("de-escalation", [threat |-> threat],
                  IF threat # "NONE" THEN {Escalation} ELSE {},
                  TRUE,
                  {Commitment("COMPENSATION", limit)}
                      \cup (IF threat = "NONE" THEN {} ELSE {Escalation})))

EscalationHandoff ==
    \E deadlineIsADate \in BOOLEAN :
        Build(deadlineIsADate,
              WrittenReply("escalation-handoff", [table |-> "thread"], {Escalation}, FALSE, {Escalation}))

ImproperRequestReply ==
    Build(TRUE, WrittenReply("improper-request", [table |-> "policy"], {Escalation}, TRUE, {Escalation}))

=============================================================================
