------------------------------ MODULE Payments ------------------------------
(***************************************************************************)
(* Buying credit packs (src/modules/payments) on top of the credit ledger. *)
(* A purchase is a Stripe Checkout Session and a credit_purchases row      *)
(* inserted after it.  The outcome reaches the row twice over: by webhook  *)
(* events, which Stripe may deliver late, repeatedly, out of order or      *)
(* never, and by the employer's poll, which reads a still-PENDING row,     *)
(* asks Stripe and then settles.  A settled payment grants the pack's      *)
(* credits in the transaction that marks the purchase SUCCEEDED.           *)
(***************************************************************************)
EXTENDS CreditLedger

CONSTANTS
  Purchases,    \* purchase ids (uuids drawn by createPurchase)
  Buyer,        \* [Purchases -> Employers]
  PackCredits   \* [Purchases -> Nat]: credits of the pack bought

ASSUME BuyerAssumption == Buyer \in [Purchases -> Employers]
ASSUME PackAssumption == PackCredits \in [Purchases -> Nat \ {0}]

VARIABLES
  purchase,   \* status of each credit_purchases row, "NONE" before the insert
  session,    \* Stripe's Checkout Session (external)
  events,     \* every webhook event Stripe has emitted: deliverable for ever
  poll        \* getPurchase of each purchase

payVars == <<purchase, session, events, poll>>
vars == <<ledgerVars, payVars>>

EventKinds == {"completed_paid", "completed_unpaid", "async_payment_succeeded",
               "async_payment_failed", "expired"}

Event(kind, p) == [kind |-> kind, purchase |-> p]

-----------------------------------------------------------------------------
(* createPurchase: the session first, the row second.                      *)

CreateSession(p) ==
  /\ session[p] = "NONE"
  /\ session' = [session EXCEPT ![p] = "OPEN"]
  /\ UNCHANGED <<ledgerVars, purchase, events, poll>>

InsertPurchase(p) ==
  /\ session[p] # "NONE"
  /\ purchase[p] = "NONE"
  /\ purchase' = [purchase EXCEPT ![p] = "PENDING"]
  /\ UNCHANGED <<ledgerVars, session, events, poll>>

-----------------------------------------------------------------------------
(* Stripe.  Checkout is mounted with the client secret, which is returned  *)
(* only once the row exists; an unpaid session can expire at any time.     *)

Settle(p, from, to, kind) ==
  /\ session[p] = from
  /\ session' = [session EXCEPT ![p] = to]
  /\ events' = events \cup {Event(kind, p)}
  /\ UNCHANGED <<ledgerVars, purchase, poll>>

PayByCard(p) == purchase[p] # "NONE" /\ Settle(p, "OPEN", "PAID", "completed_paid")

PayByBank(p) ==
  purchase[p] # "NONE" /\ Settle(p, "OPEN", "PROCESSING", "completed_unpaid")

BankSucceeds(p) == Settle(p, "PROCESSING", "PAID", "async_payment_succeeded")

BankFails(p) == Settle(p, "PROCESSING", "BANK_FAILED", "async_payment_failed")

SessionExpires(p) == Settle(p, "OPEN", "EXPIRED", "expired")

-----------------------------------------------------------------------------
(* Settling a purchase.                                                    *)

PurchaseRows(p) ==
  {row \in ledger : row.type = "PURCHASE" /\ row.id[2] = p}

(* Mutant: no ON CONFLICT and no unique index behind it.                   *)
GrantPurchaseAgain(p) ==
  /\ purchase[p] # "NONE"
  /\ Holders(Buyer[p]) = {}
  /\ purchase' = [purchase EXCEPT ![p] = "SUCCEEDED"]
  /\ ledger' = ledger \cup
       {LedgerRow(nextTxn, "PURCHASE", Buyer[p], PackCredits[p], p, NoSubmission)}
  /\ nextTxn' = nextTxn + 1
  /\ UNCHANGED <<subStatus, unlock, bonus, settings>>

(* grantPurchase: mark SUCCEEDED whatever the status was, and credit the   *)
(* ledger unless a row for this purchase exists (ON CONFLICT DO NOTHING).  *)
GrantPurchase(p) ==
  /\ purchase[p] # "NONE"
  /\ Holders(Buyer[p]) = {}
  /\ purchase' = [purchase EXCEPT ![p] = "SUCCEEDED"]
  /\ IF PurchaseRows(p) # {}
     THEN UNCHANGED <<ledger, nextTxn>>
     ELSE /\ ledger' = ledger \cup
               {LedgerRow(nextTxn, "PURCHASE", Buyer[p], PackCredits[p], p, NoSubmission)}
          /\ nextTxn' = nextTxn + 1
  /\ UNCHANGED <<subStatus, unlock, bonus, settings>>

(* Mutant: Stripe's word for the outcome instead of the column's.          *)
MarkFailedAsExpired(p) ==
  /\ purchase' = IF purchase[p] = "PENDING"
                 THEN [purchase EXCEPT ![p] = "EXPIRED"] ELSE purchase
  /\ UNCHANGED ledgerVars

(* markFailed: WHERE status = 'PENDING'.                                   *)
MarkFailed(p) ==
  /\ purchase' = IF purchase[p] = "PENDING"
                 THEN [purchase EXCEPT ![p] = "FAILED"] ELSE purchase
  /\ UNCHANGED ledgerVars

(* handleStripeEvent: the event stays deliverable.                         *)
Webhook(ev) ==
  /\ \/ /\ ev.kind \in {"completed_paid", "async_payment_succeeded"}
        /\ GrantPurchase(ev.purchase)
     \/ /\ ev.kind \in {"async_payment_failed", "expired"}
        /\ MarkFailed(ev.purchase)
  /\ UNCHANGED <<session, events, poll>>

-----------------------------------------------------------------------------
(* getPurchase: read the row, ask Stripe, settle; each step awaits.        *)

PollRead(p) ==
  /\ poll[p] = "idle"
  /\ purchase[p] = "PENDING"
  /\ poll' = [poll EXCEPT ![p] = "read"]
  /\ UNCHANGED <<ledgerVars, purchase, session, events>>

(* Mutant: only an expired session is acted on.                            *)
PollRetrieveExpiryOnly(p) ==
  /\ poll[p] = "read"
  /\ poll' = [poll EXCEPT ![p] = IF session[p] = "EXPIRED" THEN "expired" ELSE "idle"]
  /\ UNCHANGED <<ledgerVars, purchase, session, events>>

PollRetrieve(p) ==
  /\ poll[p] = "read"
  /\ poll' = [poll EXCEPT ![p] =
                CASE session[p] = "PAID" -> "paid"
                  [] session[p] = "EXPIRED" -> "expired"
                  [] OTHER -> "idle"]
  /\ UNCHANGED <<ledgerVars, purchase, session, events>>

(* Stripe's API fails or the process dies: the poll ends in an error.  One  *)
(* that dies after "read" has changed nothing more, so this covers it.     *)
PollLost(p) ==
  /\ poll[p] = "read"
  /\ poll' = [poll EXCEPT ![p] = "idle"]
  /\ UNCHANGED <<ledgerVars, purchase, session, events>>

PollSettle(p) ==
  /\ \/ poll[p] = "paid" /\ GrantPurchase(p)
     \/ poll[p] = "expired" /\ MarkFailed(p)
  /\ poll' = [poll EXCEPT ![p] = "idle"]
  /\ UNCHANGED <<session, events>>

-----------------------------------------------------------------------------

Init ==
  /\ LedgerInit
  /\ purchase = [p \in Purchases |-> "NONE"]
  /\ session = [p \in Purchases |-> "NONE"]
  /\ events = {}
  /\ poll = [p \in Purchases |-> "idle"]

StripeStep(p) ==
  PayByCard(p) \/ PayByBank(p) \/ BankSucceeds(p) \/ BankFails(p) \/ SessionExpires(p)

PollStep(p) == PollRead(p) \/ PollRetrieve(p) \/ PollLost(p) \/ PollSettle(p)

Next ==
  \/ LedgerNext /\ UNCHANGED payVars
  \/ \E p \in Purchases :
       CreateSession(p) \/ InsertPurchase(p) \/ StripeStep(p) \/ PollStep(p)
  \/ \E ev \in events : Webhook(ev)

Spec == Init /\ [][Next]_vars

(* A served request runs to its end, PostgreSQL grants row locks in the    *)
(* order they were asked for, and the employer's page keeps polling until  *)
(* Stripe's API answers.  No webhook is ever promised.                     *)
Fairness ==
  /\ \A r \in Requests : WF_vars(UnlockStep(r) /\ UNCHANGED payVars)
  /\ \A p \in Purchases :
       /\ WF_vars(PollRead(p))
       /\ SF_vars(PollRetrieve(p))
       /\ SF_vars(PollSettle(p))

FairSpec == Spec /\ Fairness

-----------------------------------------------------------------------------
(* Types.                                                                  *)

Keys == Submissions \cup Employers \cup Purchases

Rows ==
  [id : Nat \X Keys, type : {"PURCHASE", "SIGNUP_BONUS", "UNLOCK"},
   employer : Employers, amount : Int, submission : Submissions \cup {NoSubmission}]

ServedRequests ==
  [pc : TxPcs \cup {"owned", "ok"}, employer : Employers,
   ids : SUBSET Submissions, fresh : SUBSET Submissions]

RequestStates == ServedRequests \cup {IdleRequest}

(* Every variable keeps the shape of the table, slot or external object it *)
(* stands for.                                                             *)
TypeOK ==
  /\ ledger \subseteq Rows
  /\ nextTxn \in Nat
  /\ subStatus \in [Submissions -> {"LIVE", "WITHDRAWN", "DELETED"}]
  /\ unlock \in [Requests -> RequestStates]
  /\ bonus \in [Employers -> [pc : {"new", "read", "done"}, amount : BonusAmounts \cup {0}]]
  /\ settings \in BonusAmounts \cup {0}
  /\ purchase \in [Purchases -> {"NONE", "PENDING", "SUCCEEDED", "FAILED"}]
  /\ session \in [Purchases ->
       {"NONE", "OPEN", "PROCESSING", "PAID", "BANK_FAILED", "EXPIRED"}]
  /\ events \subseteq [kind : EventKinds, purchase : Purchases]
  /\ poll \in [Purchases -> {"idle", "read", "paid", "expired"}]

-----------------------------------------------------------------------------
(* Safety.                                                                 *)

(* No interleaving of unlocks, grants and deletions overspends an account: *)
(* the sum of an employer's rows is never negative, although nothing but   *)
(* the row lock of unlockSubmissions stands between the balance it reads   *)
(* and the rows it inserts.                                                *)
BalanceNonNegative == \A e \in Employers : Balance(e) >= 0

(* The ids an unlock is about to charge for are still locked and still     *)
(* covered by the balance when the INSERT runs, several statements after   *)
(* they were filtered and the balance was read: an employer never meets    *)
(* the unique index, and never a negative balance.                         *)
FundedUnlockStillValid ==
  \A r \in Requests : unlock[r].pc = "funded" =>
    /\ unlock[r].fresh \cap Unlocked(unlock[r].employer) = {}
    /\ Cardinality(unlock[r].fresh) <= Balance(unlock[r].employer)

(* The submissions an employer has paid for, the deleted ones included.    *)
Charged(e) == {row.id[2] : row \in RowsOf(e, {"UNLOCK"})}

(* A 201 answer to POST /payments/unlock is true: every id it names has    *)
(* been paid for, by this request or by one that committed before it.      *)
AnsweredUnlockIsPaid ==
  \A r \in Requests :
    unlock[r].pc = "ok" => unlock[r].ids \subseteq Charged(unlock[r].employer)

(* Webhooks and polls that race, repeat and arrive out of order leave the  *)
(* purchase and the ledger in agreement: a purchase is SUCCEEDED exactly   *)
(* when one row credits its buyer with the credits of its pack.            *)
SucceededIffCredited ==
  \A p \in Purchases :
    IF purchase[p] = "SUCCEEDED"
    THEN /\ Cardinality(PurchaseRows(p)) = 1
         /\ \A row \in PurchaseRows(p) :
              row.employer = Buyer[p] /\ row.amount = PackCredits[p]
    ELSE PurchaseRows(p) = {}

(* The ledger is an audit trail: no step removes a row or changes its      *)
(* type, employer or amount, not even the deletion of its submission.      *)
AuditTrail ==
  [][\A row \in ledger : \E kept \in ledger' :
       /\ kept.id = row.id
       /\ kept.type = row.type
       /\ kept.employer = row.employer
       /\ kept.amount = row.amount]_vars

-----------------------------------------------------------------------------
(* Liveness.                                                               *)

(* A paid session ends as a SUCCEEDED purchase even if no webhook ever     *)
(* arrives: getPurchase reconciles with Stripe on every poll.              *)
PaidEventuallyCredited ==
  \A p \in Purchases : session[p] = "PAID" ~> purchase[p] = "SUCCEEDED"

-----------------------------------------------------------------------------
(* The account it implements.  A purchase tops up under its own id, the    *)
(* signup bonus under the employer's.                                      *)

TopUpReasons == ({"SIGNUP_BONUS"} \X Employers) \cup ({"PURCHASE"} \X Purchases)

Granted == {<<row.type, row.id[2]>> : row \in {r \in ledger : r.type # "UNLOCK"}}

Account == INSTANCE CreditAccount WITH
  TopUpKeys <- TopUpReasons,
  Goods <- Submissions,
  balance <- [e \in Employers |-> Balance(e)],
  granted <- Granted,
  charged <- [e \in Employers |-> Charged(e)]

(* Locks, races, webhooks, polls and deletions reduce to an account that   *)
(* is topped up once per key and charged once per good within its balance. *)
ImplementsCreditAccount == Account!Spec

-----------------------------------------------------------------------------
(* Statements of the repository's own comments, messages and documents     *)
(* that the code does not keep: each is refuted by TLC (README, "Known     *)
(* disagreements").                                                        *)

(* What unlockSubmissions' comment promises: a candidate withdrawing at    *)
(* the moment of the unlock does not slip through, so no step charges for  *)
(* a submission that is withdrawn.                                         *)
WithdrawnIsNeverCharged ==
  [][\A e \in Employers : \A s \in Charged(e)' \ Charged(e) :
       subStatus[s] # "WITHDRAWN"]_vars

(* What getPurchase's comment promises: the poll never leaves the employer *)
(* on "confirming" for a payment that Stripe has settled, either way.      *)
SettledEventuallyLeavesPending ==
  \A p \in Purchases :
    session[p] \in {"PAID", "BANK_FAILED", "EXPIRED"} ~> purchase[p] # "PENDING"
=============================================================================
