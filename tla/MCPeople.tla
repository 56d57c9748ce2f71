------------------------------ MODULE MCPeople ------------------------------
(***************************************************************************)
(* Small instances of the parts of People.  The bounds that are numbers    *)
(* are in the configuration.                                               *)
(***************************************************************************)
EXTENDS People, TLC

(* The staged chats: two of three turns, the shorter of the two lengths    *)
(* the generator may choose.                                               *)
ThreeTurns == [t \in Tasks |-> 3]

(* Scores: a finance task, then a customer service one.                    *)
TwoAmounts == <<1000, 2500>>

Ticket(tier, impact, sla, specialist) ==
  [tier |-> tier, impact |-> impact, sla |-> sla, specialist |-> specialist]

Tickets == {Ticket("VIP", "HIGH", 30, FALSE), Ticket("VIP", "LOW", 10, TRUE),
            Ticket("STANDARD", "HIGH", 2, FALSE), Ticket("BASIC", "LOW", 30, FALSE)}

ThreeTickets == [1..3 -> Tickets]

Replies3 == {<<"a", "a", "a">>, <<"a", "a", "b">>, <<"a", "b", "b">>, <<"a", "b", "c">>}

FiveQuestions == {<<a, b, c, <<"a", "b", "b">>, <<"a", "a", "a">>>> : a, b, c \in Replies3}

TwoSlots == << {"reconciliation", "journal-entry", "variance", "variance-bridge", "forecast",
                "line-trend", "revenue-units", "statement", "ticket-triage", "diagnostic-questions"},
               {"refund-policy", "de-escalation", "escalation-handoff", "improper-request"} >>

(* Grading anchors: six drafts of which one passes every check.            *)
Anchor(score, commitments) == [score |-> score, commitments |-> commitments]
Commitment(kind, amount) == [kind |-> kind, amount |-> amount]

SixDrafts ==
  { <<Anchor(40, {}), Anchor(80, {Commitment("CREDIT", 10)})>>,
    <<Anchor(40, {Commitment("REFUND", 20)}), Anchor(80, {Commitment("ESCALATION", NoTask)})>>,
    <<Anchor(40, {}), Anchor(80, {Commitment("CREDIT", 20)})>>,
    <<Anchor(40, {}), Anchor(80, {Commitment("REFUND", NoTask)})>>,
    <<Anchor(80, {}), Anchor(40, {})>>,
    <<Anchor(80, {})>> }

WeakAndStrong == <<40, 80>>
SmallCredit == {Commitment("CREDIT", 10), Commitment("ESCALATION", NoTask)}

(* The passport: two submissions in one domain, weak and strong in turn.   *)
CategoryScores(problemSolving, judgment, written, commercial) ==
  [problemSolving |-> problemSolving, judgment |-> judgment,
   written |-> written, commercial |-> commercial]

OneDomain == [s \in Tasks |-> "finance"]
GoodAndBad == {CategoryScores(90, 90, 90, 10), CategoryScores(20, 35, 40, 90)}

Interchangeable == Permutations(Tasks) \cup Permutations(Keys) \cup Permutations(Handlers)
=============================================================================
