--------------------------- MODULE PaymentsProofs ---------------------------
(***************************************************************************)
(* Theorems about Payments, for every set of employers, submissions,       *)
(* request slots and purchases: types; the row lock of unlockSubmissions,  *)
(* which keeps balances non-negative; the ledger, which only grows; one    *)
(* credit per settled purchase; and the refinement of CreditAccount.       *)
(***************************************************************************)
EXTENDS Payments, FiniteSetTheorems, TLAPS

-----------------------------------------------------------------------------
(* Types.                                                                  *)

LEMMA InitTyped == Init => TypeOK
<1>. SUFFICES ASSUME Init PROVE TypeOK
  OBVIOUS
<1>1. ledger \subseteq Rows /\ nextTxn \in Nat /\ settings \in BonusAmounts \cup {0}
  BY DEF Init, LedgerInit
<1>2. unlock \in [Requests -> RequestStates]
  BY DEF Init, LedgerInit, IdleRequest, RequestStates
<1>3. /\ subStatus \in [Submissions -> {"LIVE", "WITHDRAWN", "DELETED"}]
      /\ bonus \in [Employers -> [pc : {"new", "read", "done"}, amount : BonusAmounts \cup {0}]]
  BY DEF Init, LedgerInit
<1>. QED
  BY <1>1, <1>2, <1>3 DEF Init, TypeOK

(* What the actions add to the ledger are rows.                            *)
LEMMA CreditRowTyped ==
  ASSUME NEW txn \in Nat, NEW type \in {"PURCHASE", "SIGNUP_BONUS"},
         NEW e \in Employers, NEW n \in Nat, NEW key \in Keys
  PROVE  LedgerRow(txn, type, e, n, key, NoSubmission) \in Rows
BY DEF LedgerRow, Rows

LEMMA UnlockRowsTyped ==
  ASSUME NEW txn \in Nat, NEW e \in Employers, NEW ids \in SUBSET Submissions
  PROVE  UnlockRows(e, txn, ids) \subseteq Rows
BY DEF UnlockRows, LedgerRow, Rows, Keys

(* Erasing a reference to a submission yields a row again.                 *)
LEMMA ErasedRowTyped ==
  ASSUME NEW row \in Rows, NEW s
  PROVE  Erased(row, s) \in Rows
BY DEF Erased, Rows

LEMMA LedgerStepTyped ==
  ASSUME TypeOK, LedgerNext, UNCHANGED payVars
  PROVE  TypeOK'
<1>. USE DEF payVars
<1>1. ASSUME NEW r \in Requests, NEW e \in Employers, NEW ids \in SUBSET Submissions,
             UnlockRequest(r, e, ids)
      PROVE  TypeOK'
  BY <1>1 DEF UnlockRequest, TypeOK, RequestStates, ServedRequests
<1>2. ASSUME NEW r \in Requests, UnlockStep(r) \/ UnlockAbort(r)
      PROVE  TypeOK'
  <2>1. unlock[r].pc # "idle" => unlock[r] \in ServedRequests
    BY DEF TypeOK, RequestStates, IdleRequest
  <2>2. [unlock EXCEPT ![r] = IdleRequest] \in [Requests -> RequestStates]
    BY DEF TypeOK, RequestStates
  <2>3. CASE UnlockLock(r)
    BY <2>1, <2>3 DEF UnlockLock, TypeOK, RequestStates, ServedRequests, TxPcs
  <2>4. CASE UnlockFilter(r)
    BY <2>1, <2>4 DEF UnlockFilter, TypeOK, RequestStates, ServedRequests, TxPcs
  <2>5. CASE UnlockCheckWithdrawn(r)
    BY <2>1, <2>2, <2>5
    DEF UnlockCheckWithdrawn, EndRequest, TypeOK, RequestStates, ServedRequests, TxPcs
  <2>6. CASE UnlockReadBalance(r)
    BY <2>1, <2>2, <2>6
    DEF UnlockReadBalance, EndRequest, TypeOK, RequestStates, ServedRequests, TxPcs
  <2>7. CASE UnlockInsert(r)
    <3>1. UnlockRows(unlock[r].employer, nextTxn, unlock[r].fresh) \subseteq Rows
      BY <2>1, <2>7, UnlockRowsTyped DEF UnlockInsert, TypeOK, ServedRequests
    <3>. QED
      BY <2>1, <2>2, <2>7, <3>1
      DEF UnlockInsert, EndRequest, TypeOK, RequestStates, ServedRequests
  <2>8. CASE UnlockReply(r) \/ UnlockAbort(r)
    BY <2>2, <2>8 DEF UnlockReply, UnlockAbort, EndRequest, TypeOK
  <2>. QED
    BY <1>2, <2>3, <2>4, <2>5, <2>6, <2>7, <2>8 DEF UnlockStep
<1>3. ASSUME NEW e \in Employers, BonusRead(e) \/ BonusLost(e)
      PROVE  TypeOK'
  <2>1. bonus' \in [Employers -> [pc : {"new", "read", "done"}, amount : BonusAmounts \cup {0}]]
    <3>1. CASE BonusRead(e)
      BY <3>1 DEF BonusRead, TypeOK
    <3>2. CASE BonusLost(e)
      BY <3>2 DEF BonusLost, TypeOK
    <3>. QED
      BY <1>3, <3>1, <3>2
  <2>. QED
    BY <1>3, <2>1 DEF BonusRead, BonusLost, TypeOK
<1>4. ASSUME NEW e \in Employers, BonusInsert(e)
      PROVE  TypeOK'
  <2>1. LedgerRow(nextTxn, "SIGNUP_BONUS", e, bonus[e].amount, e, NoSubmission) \in Rows
    <3>1. bonus[e].amount \in BonusAmounts \cup {0}
      BY DEF TypeOK
    <3>2. nextTxn \in Nat /\ e \in Keys
      BY DEF TypeOK, Keys
    <3>3. BonusAmounts \cup {0} \subseteq Nat
      BY BonusAssumption
    <3>4. bonus[e].amount \in Nat
      BY <3>1, <3>3, Zenon
    <3>. QED
      BY <3>2, <3>4, CreditRowTyped
  <2>. QED
    BY <1>4, <2>1 DEF BonusInsert, TypeOK
<1>5. ASSUME NEW amount \in BonusAmounts, UpdateSettings(amount)
      PROVE  TypeOK'
  BY <1>5 DEF UpdateSettings, TypeOK
<1>6. ASSUME NEW s \in Submissions, Withdraw(s) \/ Redecide(s)
      PROVE  TypeOK'
  BY <1>6 DEF Withdraw, Redecide, TypeOK
<1>7. ASSUME NEW s \in Submissions, DeleteSubmission(s)
      PROVE  TypeOK'
  <2>1. ledger' \subseteq Rows
    BY <1>7, ErasedRowTyped DEF DeleteSubmission, TypeOK
  <2>2. subStatus' \in [Submissions -> {"LIVE", "WITHDRAWN", "DELETED"}]
    BY <1>7 DEF DeleteSubmission, TypeOK
  <2>. QED
    BY <1>7, <2>1, <2>2 DEF DeleteSubmission, TypeOK
<1>. QED
  BY <1>1, <1>2, <1>3, <1>4, <1>5, <1>6, <1>7 DEF LedgerNext

LEMMA GrantPurchaseTyped ==
  ASSUME TypeOK, NEW p \in Purchases, GrantPurchase(p)
  PROVE  /\ ledger' \subseteq Rows
         /\ nextTxn' \in Nat
         /\ purchase' \in [Purchases -> {"NONE", "PENDING", "SUCCEEDED", "FAILED"}]
<1>1. LedgerRow(nextTxn, "PURCHASE", Buyer[p], PackCredits[p], p, NoSubmission) \in Rows
  BY CreditRowTyped, BuyerAssumption, PackAssumption DEF TypeOK, Keys
<1>. QED
  BY <1>1 DEF GrantPurchase, TypeOK

LEMMA MarkFailedTyped ==
  ASSUME TypeOK, NEW p \in Purchases, MarkFailed(p)
  PROVE  purchase' \in [Purchases -> {"NONE", "PENDING", "SUCCEEDED", "FAILED"}]
BY DEF MarkFailed, TypeOK

LEMMA NextTyped == TypeOK /\ [Next]_vars => TypeOK'
<1>. SUFFICES ASSUME TypeOK, [Next]_vars PROVE TypeOK'
  OBVIOUS
<1>. USE DEF ledgerVars
<1>1. CASE LedgerNext /\ UNCHANGED payVars
  BY <1>1, LedgerStepTyped
<1>2. ASSUME NEW p \in Purchases, CreateSession(p) \/ InsertPurchase(p)
      PROVE  TypeOK'
  BY <1>2 DEF CreateSession, InsertPurchase, TypeOK
<1>3. ASSUME NEW p \in Purchases, StripeStep(p)
      PROVE  TypeOK'
  BY <1>3
  DEF StripeStep, PayByCard, PayByBank, BankSucceeds, BankFails, SessionExpires, Settle,
      Event, EventKinds, TypeOK
<1>4. ASSUME NEW p \in Purchases, PollStep(p)
      PROVE  TypeOK'
  <2>1. CASE PollRead(p) \/ PollRetrieve(p) \/ PollLost(p)
    BY <2>1 DEF PollRead, PollRetrieve, PollLost, TypeOK
  <2>2. CASE PollSettle(p)
    BY <2>2, GrantPurchaseTyped, MarkFailedTyped
    DEF PollSettle, GrantPurchase, MarkFailed, TypeOK
  <2>. QED
    BY <1>4, <2>1, <2>2 DEF PollStep
<1>5. ASSUME NEW ev \in events, Webhook(ev)
      PROVE  TypeOK'
  BY <1>5, GrantPurchaseTyped, MarkFailedTyped
  DEF Webhook, GrantPurchase, MarkFailed, TypeOK
<1>6. CASE UNCHANGED vars
  BY <1>6 DEF vars, payVars, TypeOK
<1>. QED
  BY <1>1, <1>2, <1>3, <1>4, <1>5, <1>6 DEF Next

(* In every reachable state each variable has the shape of the table, slot *)
(* or external object it stands for: the transactions of                   *)
(* CreditLedgerService, the Stripe handlers and the poll write nothing     *)
(* else.                                                                   *)
THEOREM TypeCorrect == Spec => []TypeOK
BY InitTyped, NextTyped, PTL DEF Spec

-----------------------------------------------------------------------------
(* What each kind of write does to an account.                             *)

Countable(e) == IsFiniteSet(CreditUnits(e)) /\ IsFiniteSet(DebitIds(e))

LEMMA BalanceType ==
  ASSUME NEW e, Countable(e)
  PROVE  Balance(e) \in Int /\ Cardinality(CreditUnits(e)) \in Nat /\ Cardinality(DebitIds(e)) \in Nat
BY FS_CardinalityType DEF Countable, Balance

(* A granted row adds its units to its employer's and takes nothing.       *)
LEMMA CreditEffect ==
  ASSUME NEW e \in Employers, Countable(e), NEW row \in Rows,
         row.type \in {"PURCHASE", "SIGNUP_BONUS"},
         ledger' = ledger \cup {row}
  PROVE  /\ Countable(e)'
         /\ Balance(e)' >= Balance(e)
         /\ Unlocked(e)' = Unlocked(e)
         /\ row.employer # e => Balance(e)' = Balance(e)
         /\ row.employer = e /\ row.amount > 0 /\ (\A old \in ledger : old.id # row.id)
              => Balance(e)' > Balance(e)
<1>. DEFINE more == IF row.employer = e THEN {row.id} \X (1 .. row.amount) ELSE {}
<1>1. DebitIds(e)' = DebitIds(e) /\ Unlocked(e)' = Unlocked(e)
  BY DEF DebitIds, Unlocked, RowsOf
<1>2. CreditUnits(e)' = CreditUnits(e) \cup more
  BY DEF CreditUnits, RowsOf
<1>3. IsFiniteSet(more)
  <2>1. row.amount \in Int
    BY DEF Rows
  <2>2. IsFiniteSet({row.id}) /\ IsFiniteSet(1 .. row.amount)
    <3>1. IsFiniteSet({row.id})
      BY FS_Singleton
    <3>2. \A n \in Int : IsFiniteSet(1 .. n)
      BY FS_Interval
    <3>. QED
      BY <2>1, <3>1, <3>2
  <2>3. IsFiniteSet({row.id} \X (1 .. row.amount))
    BY <2>2, FS_Product
  <2>4. CASE row.employer = e
    BY <2>3, <2>4
  <2>5. CASE row.employer # e
    BY <2>5, FS_EmptySet
  <2>. QED
    BY <2>4, <2>5
<1>4. IsFiniteSet(CreditUnits(e)')
  <2>. HIDE DEF more
  <2>1. IsFiniteSet(CreditUnits(e) \cup more)
    BY <1>3, FS_Union DEF Countable
  <2>. QED
    BY <1>2, <2>1
<1>5. Cardinality(CreditUnits(e)) <= Cardinality(CreditUnits(e)')
  BY <1>2, <1>4, FS_Subset
<1>6. Countable(e)'
  BY <1>1, <1>4 DEF Countable
<1>7. /\ Cardinality(CreditUnits(e)) \in Nat /\ Cardinality(CreditUnits(e)') \in Nat
      /\ Cardinality(DebitIds(e)) \in Nat
  BY <1>4, FS_CardinalityType DEF Countable
<1>8. row.employer # e => CreditUnits(e)' = CreditUnits(e)
  BY <1>2
<1>9. ASSUME row.employer = e, row.amount > 0, \A old \in ledger : old.id # row.id
      PROVE  Cardinality(CreditUnits(e)') > Cardinality(CreditUnits(e))
  <2>. DEFINE unit == <<row.id, 1>>
  <2>1. unit \in more
    <3>1. row.amount \in Int
      BY DEF Rows
    <3>. QED
      BY <1>9, <3>1
  <2>2. unit \notin CreditUnits(e)
    BY <1>9 DEF CreditUnits, RowsOf
  <2>. HIDE DEF unit, more
  <2>3. /\ IsFiniteSet(CreditUnits(e) \cup {unit})
        /\ Cardinality(CreditUnits(e) \cup {unit}) = Cardinality(CreditUnits(e)) + 1
    BY <2>2, FS_AddElement DEF Countable
  <2>4. Cardinality(CreditUnits(e) \cup {unit}) <= Cardinality(CreditUnits(e)')
    BY <1>2, <1>4, <2>1, FS_Subset
  <2>. QED
    BY <1>7, <2>3, <2>4
<1>. QED
  BY <1>1, <1>5, <1>6, <1>7, <1>8, <1>9 DEF Balance

(* Unlock rows take one credit each, from their own employer only.         *)
LEMMA DebitEffect ==
  ASSUME NEW e \in Employers, Countable(e), NEW f \in Employers,
         NEW ids \in SUBSET Submissions, NEW txn,
         ledger' = ledger \cup UnlockRows(f, txn, ids)
  PROVE  /\ Countable(e)'
         /\ e # f => Balance(e)' = Balance(e) /\ Unlocked(e)' = Unlocked(e)
         /\ e = f => Balance(e)' >= Balance(e) - Cardinality(ids)
         /\ e = f /\ (\A old \in ledger : old.id[1] # txn)
              => Balance(e)' = Balance(e) - Cardinality(ids)
<1>. DEFINE more == IF e = f THEN {txn} \X ids ELSE {}
<1>1. CreditUnits(e)' = CreditUnits(e)
  <2>1. \A row \in UnlockRows(f, txn, ids) : row.type = "UNLOCK"
    BY DEF UnlockRows, LedgerRow
  <2>2. RowsOf(e, {"PURCHASE", "SIGNUP_BONUS"})' = RowsOf(e, {"PURCHASE", "SIGNUP_BONUS"})
    BY <2>1 DEF RowsOf
  <2>. QED
    BY <2>2 DEF CreditUnits
<1>2. DebitIds(e)' = DebitIds(e) \cup more
  <2>1. /\ \A row \in UnlockRows(f, txn, ids) : row.employer = f /\ row.type = "UNLOCK"
        /\ {row.id : row \in UnlockRows(f, txn, ids)} = {txn} \X ids
    <3>1. {row.id : row \in UnlockRows(f, txn, ids)} = {<<txn, s>> : s \in ids}
      <4>1. \A s \in ids : LedgerRow(txn, "UNLOCK", f, -1, s, s).id = <<txn, s>>
        BY DEF LedgerRow
      <4>2. \A row \in UnlockRows(f, txn, ids) : \E s \in ids : row.id = <<txn, s>>
        BY <4>1 DEF UnlockRows
      <4>3. \A s \in ids : \E row \in UnlockRows(f, txn, ids) : row.id = <<txn, s>>
        BY <4>1 DEF UnlockRows
      <4>. QED
        BY <4>2, <4>3
    <3>2. {<<txn, s>> : s \in ids} = {txn} \X ids
      OBVIOUS
    <3>. QED
      BY <3>1, <3>2 DEF UnlockRows, LedgerRow
  <2>2. RowsOf(e, {"UNLOCK"})' =
          RowsOf(e, {"UNLOCK"}) \cup (IF e = f THEN UnlockRows(f, txn, ids) ELSE {})
    BY <2>1 DEF RowsOf
  <2>. QED
    BY <2>1, <2>2 DEF DebitIds
<1>3. e # f => Unlocked(e)' = Unlocked(e)
  BY DEF Unlocked, RowsOf, UnlockRows, LedgerRow
<1>4. /\ IsFiniteSet(ids)
      /\ IsFiniteSet(more)
      /\ Cardinality(more) <= Cardinality(ids)
      /\ e # f => more = {}
      /\ e = f => Cardinality(more) = Cardinality(ids)
  <2>1. IsFiniteSet(ids) /\ Cardinality(ids) \in Nat
    BY FiniteAssumption, FS_Subset, FS_CardinalityType
  <2>2. IsFiniteSet({txn}) /\ Cardinality({txn}) = 1
    BY FS_Singleton
  <2>3. /\ IsFiniteSet({txn} \X ids)
        /\ Cardinality({txn} \X ids) = Cardinality({txn}) * Cardinality(ids)
    BY <2>1, <2>2, FS_Product
  <2>4. Cardinality({txn} \X ids) = Cardinality(ids)
    BY <2>1, <2>2, <2>3
  <2>5. CASE e = f
    BY <2>1, <2>3, <2>4, <2>5
  <2>6. CASE e # f
    BY <2>1, <2>6, FS_EmptySet
  <2>. QED
    BY <2>5, <2>6
<1>5. /\ IsFiniteSet(DebitIds(e)')
      /\ Cardinality(DebitIds(e)') <= Cardinality(DebitIds(e)) + Cardinality(more)
  <2>1. /\ IsFiniteSet(DebitIds(e) \cup more)
        /\ Cardinality(DebitIds(e) \cup more) =
             Cardinality(DebitIds(e)) + Cardinality(more) - Cardinality(DebitIds(e) \cap more)
    BY <1>4, FS_Union DEF Countable
  <2>2. /\ Cardinality(DebitIds(e)) \in Nat /\ Cardinality(more) \in Nat
        /\ Cardinality(DebitIds(e) \cap more) \in Nat
    BY <1>4, FS_Intersection, FS_CardinalityType DEF Countable
  <2>. QED
    BY <1>2, <2>1, <2>2
<1>6. Countable(e)'
  BY <1>1, <1>5 DEF Countable
<1>7. /\ Cardinality(CreditUnits(e)) \in Nat /\ Cardinality(DebitIds(e)) \in Nat
      /\ Cardinality(DebitIds(e)') \in Nat /\ Cardinality(more) \in Nat
      /\ Cardinality(ids) \in Nat
  BY <1>4, <1>5, FS_CardinalityType DEF Countable
<1>8. e # f => DebitIds(e)' = DebitIds(e)
  BY <1>2, <1>4
<1>9. ASSUME e = f, \A old \in ledger : old.id[1] # txn
      PROVE  Cardinality(DebitIds(e)') = Cardinality(DebitIds(e)) + Cardinality(ids)
  <2>1. DebitIds(e) \cap more = {}
    BY <1>9 DEF DebitIds, RowsOf
  <2>2. Cardinality(DebitIds(e) \cup more) =
          Cardinality(DebitIds(e)) + Cardinality(more) - Cardinality(DebitIds(e) \cap more)
    BY <1>4, FS_Union DEF Countable
  <2>3. Cardinality(DebitIds(e) \cap more) = 0
    BY <2>1, FS_EmptySet
  <2>. HIDE DEF more
  <2>. QED
    BY <1>2, <1>4, <1>7, <1>9, <2>2, <2>3
<1>. QED
  BY <1>1, <1>3, <1>4, <1>5, <1>6, <1>7, <1>8, <1>9 DEF Balance

(* Forgetting which submission a row was for changes no balance.           *)
LEMMA EraseEffect ==
  ASSUME NEW e \in Employers, ledger \subseteq Rows, NEW s \in Submissions,
         ledger' = {Erased(row, s) : row \in ledger}
  PROVE  /\ CreditUnits(e)' = CreditUnits(e)
         /\ DebitIds(e)' = DebitIds(e)
         /\ Unlocked(e)' \subseteq Unlocked(e)
<1>1. \A row \in ledger :
        /\ Erased(row, s).id = row.id /\ Erased(row, s).type = row.type
        /\ Erased(row, s).employer = row.employer /\ Erased(row, s).amount = row.amount
        /\ Erased(row, s).submission \in {row.submission, NoSubmission}
  BY DEF Erased, Rows
<1>2. DebitIds(e)' = DebitIds(e)
  BY <1>1 DEF DebitIds, RowsOf
<1>3. Unlocked(e)' \subseteq Unlocked(e)
  BY <1>1 DEF Unlocked, RowsOf
<1>4. CreditUnits(e)' = CreditUnits(e)
  BY <1>1 DEF CreditUnits, RowsOf
<1>. QED
  BY <1>2, <1>3, <1>4

-----------------------------------------------------------------------------
(* The row lock.  What a transaction has read stays true until it inserts, *)
(* because it is alone on its employer's row and everybody else only       *)
(* credits the account or forgets submissions.                             *)

FilteredPcs == {"filtered", "checked", "funded"}

OneHolder ==
  \A r1, r2 \in Requests :
    /\ unlock[r1].pc \in TxPcs /\ unlock[r2].pc \in TxPcs
    /\ unlock[r1].employer = unlock[r2].employer
    => r1 = r2

FreshNotUnlocked ==
  \A r \in Requests :
    unlock[r].pc \in FilteredPcs => unlock[r].fresh \cap Unlocked(unlock[r].employer) = {}

FundedCovered ==
  \A r \in Requests :
    unlock[r].pc = "funded" => Cardinality(unlock[r].fresh) <= Balance(unlock[r].employer)

LockInv ==
  /\ TypeOK
  /\ \A e \in Employers : Countable(e)
  /\ OneHolder
  /\ FreshNotUnlocked
  /\ FundedCovered
  /\ BalanceNonNegative

LEMMA InitLock == Init => LockInv
<1>. SUFFICES ASSUME Init PROVE LockInv
  OBVIOUS
<1>1. \A e \in Employers : CreditUnits(e) = {} /\ DebitIds(e) = {}
  BY DEF Init, LedgerInit, CreditUnits, DebitIds, RowsOf
<1>2. \A e \in Employers : Countable(e) /\ Balance(e) = 0
  BY <1>1, FS_EmptySet DEF Countable, Balance
<1>3. \A r \in Requests : unlock[r].pc = "idle"
  BY DEF Init, LedgerInit, IdleRequest
<1>4. OneHolder /\ FreshNotUnlocked /\ FundedCovered
  BY <1>3 DEF OneHolder, FreshNotUnlocked, FundedCovered, TxPcs, FilteredPcs
<1>. QED
  BY <1>2, <1>4, InitTyped DEF LockInv, BalanceNonNegative

(* A step that leaves the requests alone and only credits an account.      *)
LEMMA CreditKeepsLock ==
  ASSUME LockInv, TypeOK', UNCHANGED unlock,
         NEW row \in Rows, row.type \in {"PURCHASE", "SIGNUP_BONUS"},
         ledger' = ledger \cup {row}
  PROVE  LockInv'
<1>1. \A e \in Employers :
        Countable(e)' /\ Balance(e)' >= Balance(e) /\ Unlocked(e)' = Unlocked(e)
  BY CreditEffect DEF LockInv
<1>2. \A e \in Employers : Balance(e) \in Int /\ Balance(e)' \in Int
  BY <1>1, FS_CardinalityType DEF LockInv, Countable, Balance
<1>3. \A r \in Requests : /\ unlock[r].pc # "idle" => unlock[r].employer \in Employers
                          /\ unlock[r].pc # "idle" => Cardinality(unlock[r].fresh) \in Int
  BY FiniteAssumption, FS_Subset, FS_CardinalityType
  DEF LockInv, TypeOK, RequestStates, ServedRequests, IdleRequest
<1>4. OneHolder' /\ FreshNotUnlocked'
  BY <1>1, <1>3 DEF LockInv, OneHolder, FreshNotUnlocked, FilteredPcs
<1>5. FundedCovered'
  BY <1>1, <1>2, <1>3 DEF LockInv, FundedCovered
<1>6. BalanceNonNegative'
  BY <1>1, <1>2 DEF LockInv, BalanceNonNegative
<1>. QED
  BY <1>1, <1>4, <1>5, <1>6 DEF LockInv

(* A step that leaves the requests and the ledger alone.                   *)
LEMMA IdleKeepsLock ==
  ASSUME LockInv, TypeOK', UNCHANGED <<unlock, ledger>>
  PROVE  LockInv'
BY DEF LockInv, Countable, CreditUnits, DebitIds, RowsOf, OneHolder, FreshNotUnlocked,
       FundedCovered, BalanceNonNegative, Balance, Unlocked

LEMMA EraseKeepsLock ==
  ASSUME LockInv, TypeOK', UNCHANGED unlock, NEW s \in Submissions,
         ledger' = {Erased(row, s) : row \in ledger}
  PROVE  LockInv'
<1>1. \A e \in Employers :
        /\ CreditUnits(e)' = CreditUnits(e) /\ DebitIds(e)' = DebitIds(e)
        /\ Unlocked(e)' \subseteq Unlocked(e)
  BY EraseEffect DEF LockInv, TypeOK
<1>2. \A e \in Employers : Countable(e)' /\ Balance(e)' = Balance(e)
  BY <1>1 DEF LockInv, Countable, Balance
<1>3. \A r \in Requests : unlock[r].pc # "idle" => unlock[r].employer \in Employers
  BY DEF LockInv, TypeOK, RequestStates, ServedRequests, IdleRequest
<1>4. OneHolder' /\ FreshNotUnlocked'
  BY <1>1, <1>3 DEF LockInv, OneHolder, FreshNotUnlocked, FilteredPcs
<1>5. FundedCovered' /\ BalanceNonNegative'
  BY <1>2, <1>3 DEF LockInv, FundedCovered, BalanceNonNegative
<1>. QED
  BY <1>2, <1>4, <1>5 DEF LockInv

(* A request that leaves the ledger alone and whose own next state is as   *)
(* good as the invariant asks.                                             *)
LEMMA RequestKeepsLock ==
  ASSUME LockInv, TypeOK', UNCHANGED ledger, NEW r \in Requests, NEW next,
         unlock' = [unlock EXCEPT ![r] = next],
         next.pc \in TxPcs =>
           \/ unlock[r].pc \in TxPcs /\ next.employer = unlock[r].employer
           \/ Holders(next.employer) = {},
         next.pc \in FilteredPcs => next.fresh \cap Unlocked(next.employer) = {},
         next.pc = "funded" => Cardinality(next.fresh) <= Balance(next.employer)
  PROVE  LockInv'
<1>1. /\ unlock'[r] = next
      /\ \A q \in Requests \ {r} : unlock'[q] = unlock[q]
  BY DEF LockInv, TypeOK
<1>2. \A e : /\ CreditUnits(e)' = CreditUnits(e) /\ DebitIds(e)' = DebitIds(e)
              /\ Balance(e)' = Balance(e) /\ Unlocked(e)' = Unlocked(e)
  BY DEF CreditUnits, DebitIds, RowsOf, Balance, Unlocked
<1>3. OneHolder'
  <2>. SUFFICES ASSUME NEW q1 \in Requests, NEW q2 \in Requests,
                       unlock'[q1].pc \in TxPcs, unlock'[q2].pc \in TxPcs,
                       unlock'[q1].employer = unlock'[q2].employer
                PROVE  q1 = q2
    BY DEF OneHolder
  <2>1. CASE q1 # r /\ q2 # r
    BY <1>1, <2>1 DEF LockInv, OneHolder
  <2>2. CASE q1 = r /\ q2 # r
    BY <1>1, <2>2 DEF LockInv, OneHolder, Holders
  <2>3. CASE q1 # r /\ q2 = r
    BY <1>1, <2>3 DEF LockInv, OneHolder, Holders
  <2>. QED
    BY <2>1, <2>2, <2>3
<1>4. FreshNotUnlocked'
  BY <1>1, <1>2 DEF LockInv, FreshNotUnlocked
<1>5. FundedCovered'
  BY <1>1, <1>2 DEF LockInv, FundedCovered
<1>6. (\A e \in Employers : Countable(e))' /\ BalanceNonNegative'
  BY <1>2 DEF LockInv, Countable, BalanceNonNegative
<1>. QED
  BY <1>3, <1>4, <1>5, <1>6 DEF LockInv

LEMMA EndKeepsLock ==
  ASSUME LockInv, TypeOK', UNCHANGED ledger, NEW r \in Requests, EndRequest(r)
  PROVE  LockInv'
BY RequestKeepsLock DEF EndRequest, IdleRequest, TxPcs, FilteredPcs

(* The INSERT spends what the holder of the lock had seen in the balance.  *)
LEMMA InsertKeepsLock ==
  ASSUME LockInv, TypeOK', NEW r \in Requests, unlock[r].pc = "funded",
         ledger' = ledger \cup UnlockRows(unlock[r].employer, nextTxn, unlock[r].fresh),
         unlock' = [unlock EXCEPT ![r].pc = "ok"]
  PROVE  LockInv'
<1>. DEFINE f == unlock[r].employer
            ids == unlock[r].fresh
<1>1. f \in Employers /\ ids \in SUBSET Submissions
  BY DEF LockInv, TypeOK, RequestStates, ServedRequests, IdleRequest
<1>2. \A e \in Employers :
        /\ Countable(e)'
        /\ e # f => Balance(e)' = Balance(e) /\ Unlocked(e)' = Unlocked(e)
        /\ e = f => Balance(e)' >= Balance(e) - Cardinality(ids)
  BY <1>1, DebitEffect DEF LockInv
<1>3. \A e \in Employers : Balance(e) \in Int /\ Balance(e)' \in Int
  BY <1>2, FS_CardinalityType DEF LockInv, Countable, Balance
<1>4. Cardinality(ids) \in Int /\ Cardinality(ids) <= Balance(f)
  BY <1>1, FiniteAssumption, FS_Subset, FS_CardinalityType DEF LockInv, FundedCovered
<1>5. /\ \A q \in Requests \ {r} : unlock'[q] = unlock[q]
      /\ unlock'[r].pc = "ok"
  BY DEF LockInv, TypeOK, RequestStates, ServedRequests, IdleRequest
<1>6. \A q \in Requests : unlock'[q].pc \in TxPcs =>
        /\ q # r /\ unlock'[q] = unlock[q]
        /\ unlock[q].employer \in Employers \ {f}
  <2>. SUFFICES ASSUME NEW q \in Requests, unlock'[q].pc \in TxPcs
                PROVE  /\ q # r /\ unlock'[q] = unlock[q]
                       /\ unlock[q].employer \in Employers \ {f}
    OBVIOUS
  <2>1. q # r /\ unlock'[q] = unlock[q]
    BY <1>5 DEF TxPcs
  <2>2. unlock[q].employer # f
    BY <2>1 DEF LockInv, OneHolder, TxPcs
  <2>3. unlock[q].employer \in Employers
    BY <2>1 DEF LockInv, TypeOK, RequestStates, ServedRequests, IdleRequest, TxPcs
  <2>. QED
    BY <2>1, <2>2, <2>3
<1>7. OneHolder'
  BY <1>6 DEF LockInv, OneHolder
<1>8. FreshNotUnlocked'
  BY <1>2, <1>6 DEF LockInv, FreshNotUnlocked, FilteredPcs, TxPcs
<1>9. FundedCovered'
  BY <1>2, <1>6 DEF LockInv, FundedCovered, TxPcs
<1>10. BalanceNonNegative'
  BY <1>1, <1>2, <1>3, <1>4 DEF LockInv, BalanceNonNegative
<1>. QED
  BY <1>2, <1>7, <1>8, <1>9, <1>10 DEF LockInv

LEMMA UnlockStepKeepsLock ==
  ASSUME LockInv, TypeOK', NEW r \in Requests, UnlockStep(r)
  PROVE  LockInv'
<1>. DEFINE req == unlock[r]
<1>0. req.pc # "idle" => req \in ServedRequests
  BY DEF LockInv, TypeOK, RequestStates, IdleRequest
<1>1. CASE UnlockLock(r)
  <2>. DEFINE next == [req EXCEPT !.pc = "locked"]
  <2>1. unlock' = [unlock EXCEPT ![r] = next]
    BY <1>1 DEF UnlockLock
  <2>2. next.pc = "locked" /\ next.employer = req.employer
    BY <1>0, <1>1 DEF UnlockLock, ServedRequests
  <2>. QED
    BY <1>1, <2>1, <2>2, RequestKeepsLock DEF UnlockLock, FilteredPcs
<1>2. CASE UnlockFilter(r)
  <2>. DEFINE new == req.ids \ Unlocked(req.employer)
              next == [req EXCEPT !.pc = IF new = {} THEN "ok" ELSE "filtered", !.fresh = new]
  <2>1. unlock' = [unlock EXCEPT ![r] = next] /\ req.pc = "locked" /\ UNCHANGED ledger
    BY <1>2 DEF UnlockFilter
  <2>2. next.pc \in {"ok", "filtered"} /\ next.employer = req.employer /\ next.fresh = new
    BY <1>0, <2>1 DEF ServedRequests
  <2>. QED
    BY <2>1, <2>2, RequestKeepsLock DEF TxPcs
<1>3. CASE UnlockCheckWithdrawn(r)
  <2>. DEFINE next == [req EXCEPT !.pc = "checked"]
  <2>1. next.pc = "checked" /\ next.employer = req.employer /\ next.fresh = req.fresh
    BY <1>0, <1>3 DEF UnlockCheckWithdrawn, ServedRequests
  <2>2. CASE unlock' = [unlock EXCEPT ![r] = next]
    BY <1>3, <2>1, <2>2, RequestKeepsLock
    DEF UnlockCheckWithdrawn, LockInv, FreshNotUnlocked, FilteredPcs, TxPcs
  <2>. QED
    BY <1>3, <2>2, EndKeepsLock DEF UnlockCheckWithdrawn
<1>4. CASE UnlockReadBalance(r)
  <2>. DEFINE next == [req EXCEPT !.pc = "funded"]
  <2>1. next.pc = "funded" /\ next.employer = req.employer /\ next.fresh = req.fresh
    BY <1>0, <1>4 DEF UnlockReadBalance, ServedRequests
  <2>2. CASE unlock' = [unlock EXCEPT ![r] = next] /\ ~ Balance(req.employer) < Cardinality(req.fresh)
    <3>1. Balance(req.employer) \in Int /\ Cardinality(req.fresh) \in Int
      BY <1>0, <1>4, FiniteAssumption, FS_Subset, FS_CardinalityType
      DEF UnlockReadBalance, ServedRequests, LockInv, Countable, Balance
    <3>2. Cardinality(next.fresh) <= Balance(next.employer)
      BY <2>1, <2>2, <3>1
    <3>3. next.fresh \cap Unlocked(next.employer) = {}
      BY <1>4, <2>1 DEF UnlockReadBalance, LockInv, FreshNotUnlocked, FilteredPcs
    <3>4. UNCHANGED ledger /\ unlock[r].pc \in TxPcs
      BY <1>4 DEF UnlockReadBalance, TxPcs
    <3>. HIDE DEF next
    <3>. QED
      BY <2>1, <2>2, <3>2, <3>3, <3>4, RequestKeepsLock
  <2>. QED
    BY <1>4, <2>2, EndKeepsLock DEF UnlockReadBalance
<1>5. CASE UnlockInsert(r)
  <2>1. CASE EndRequest(r) /\ UNCHANGED ledger
    BY <2>1, EndKeepsLock
  <2>2. CASE /\ ledger' = ledger \cup UnlockRows(req.employer, nextTxn, req.fresh)
             /\ unlock' = [unlock EXCEPT ![r].pc = "ok"]
    BY <1>5, <2>2, InsertKeepsLock DEF UnlockInsert
  <2>. QED
    BY <1>5, <2>1, <2>2 DEF UnlockInsert
<1>6. CASE UnlockReply(r)
  BY <1>6, EndKeepsLock DEF UnlockReply
<1>. QED
  BY <1>1, <1>2, <1>3, <1>4, <1>5, <1>6 DEF UnlockStep

LEMMA GrantKeepsLock ==
  ASSUME LockInv, TypeOK', NEW p \in Purchases, GrantPurchase(p)
  PROVE  LockInv'
<1>. DEFINE row == LedgerRow(nextTxn, "PURCHASE", Buyer[p], PackCredits[p], p, NoSubmission)
<1>1. CASE ledger' = ledger \cup {row}
  <2>1. row \in Rows
    BY CreditRowTyped, BuyerAssumption, PackAssumption DEF LockInv, TypeOK, Keys
  <2>2. row.type = "PURCHASE"
    BY DEF LedgerRow
  <2>3. UNCHANGED unlock
    BY DEF GrantPurchase
  <2>. HIDE DEF row
  <2>. QED
    BY <1>1, <2>1, <2>2, <2>3, CreditKeepsLock
<1>2. CASE UNCHANGED ledger
  BY <1>2, IdleKeepsLock DEF GrantPurchase
<1>. QED
  BY <1>1, <1>2 DEF GrantPurchase

LEMMA NextLock == LockInv /\ [Next]_vars => LockInv'
<1>. SUFFICES ASSUME LockInv, [Next]_vars PROVE LockInv'
  OBVIOUS
<1>. USE DEF ledgerVars, payVars
<1>0. TypeOK'
  BY NextTyped DEF LockInv
<1>1. ASSUME NEW r \in Requests, NEW e \in Employers, NEW ids \in SUBSET Submissions,
             UnlockRequest(r, e, ids)
      PROVE  LockInv'
  BY <1>0, <1>1, RequestKeepsLock DEF UnlockRequest, TxPcs, FilteredPcs
<1>2. ASSUME NEW r \in Requests, UnlockStep(r) \/ UnlockAbort(r)
      PROVE  LockInv'
  BY <1>0, <1>2, UnlockStepKeepsLock, EndKeepsLock DEF UnlockAbort
<1>3. ASSUME NEW e \in Employers, BonusInsert(e)
      PROVE  LockInv'
  <2>. DEFINE row == LedgerRow(nextTxn, "SIGNUP_BONUS", e, bonus[e].amount, e, NoSubmission)
  <2>1. CASE ledger' = ledger \cup {row}
    <3>1. row \in ledger'
      BY <2>1
    <3>2. row \in Rows /\ row.type = "SIGNUP_BONUS"
      BY <1>0, <3>1 DEF TypeOK, LedgerRow
    <3>3. UNCHANGED unlock
      BY <1>3 DEF BonusInsert
    <3>. HIDE DEF row
    <3>. QED
      BY <1>0, <2>1, <3>2, <3>3, CreditKeepsLock
  <2>2. CASE UNCHANGED ledger
    BY <1>0, <1>3, <2>2, IdleKeepsLock DEF BonusInsert
  <2>. QED
    BY <1>3, <2>1, <2>2 DEF BonusInsert
<1>4. ASSUME NEW s \in Submissions, DeleteSubmission(s)
      PROVE  LockInv'
  BY <1>0, <1>4, EraseKeepsLock DEF DeleteSubmission
<1>5. CASE LedgerNext
  <2>1. ASSUME NEW e \in Employers, BonusRead(e) \/ BonusLost(e)
        PROVE  LockInv'
    BY <1>0, <2>1, IdleKeepsLock DEF BonusRead, BonusLost
  <2>2. ASSUME NEW amount \in BonusAmounts, UpdateSettings(amount)
        PROVE  LockInv'
    BY <1>0, <2>2, IdleKeepsLock DEF UpdateSettings
  <2>3. ASSUME NEW s \in Submissions, Withdraw(s) \/ Redecide(s)
        PROVE  LockInv'
    BY <1>0, <2>3, IdleKeepsLock DEF Withdraw, Redecide
  <2>. QED
    BY <1>1, <1>2, <1>3, <1>4, <1>5, <2>1, <2>2, <2>3 DEF LedgerNext
<1>6. ASSUME NEW p \in Purchases, CreateSession(p) \/ InsertPurchase(p) \/ StripeStep(p)
      PROVE  LockInv'
  BY <1>0, <1>6, IdleKeepsLock
  DEF CreateSession, InsertPurchase, StripeStep, PayByCard, PayByBank, BankSucceeds, BankFails,
      SessionExpires, Settle
<1>7. ASSUME NEW p \in Purchases, PollStep(p)
      PROVE  LockInv'
  BY <1>0, <1>7, IdleKeepsLock, GrantKeepsLock
  DEF PollStep, PollRead, PollRetrieve, PollLost, PollSettle, MarkFailed
<1>8. ASSUME NEW ev \in events, Webhook(ev)
      PROVE  LockInv'
  <2>1. ev.purchase \in Purchases
    BY DEF LockInv, TypeOK
  <2>. QED
    BY <1>0, <1>8, <2>1, IdleKeepsLock, GrantKeepsLock DEF Webhook, MarkFailed
<1>9. CASE UNCHANGED vars
  BY <1>0, <1>9, IdleKeepsLock DEF vars
<1>. QED
  BY <1>5, <1>6, <1>7, <1>8, <1>9 DEF Next

(* The lock's invariant holds in every reachable state: it is the          *)
(* strengthening that makes the two properties below inductive.            *)
THEOREM LockInvariant == Spec => []LockInv
BY InitLock, NextLock, PTL DEF Spec

(* However unlocks, grants, bonuses, withdrawals and deletions interleave, *)
(* no employer's balance is ever negative: two unlocks of one employer     *)
(* cannot both spend the balance they read, because unlockSubmissions      *)
(* reads and inserts under the lock on the employer's row.                 *)
THEOREM NeverOverspent == Spec => []BalanceNonNegative
<1>1. LockInv => BalanceNonNegative
  BY DEF LockInv
<1>. QED
  BY LockInvariant, <1>1, PTL

(* When the INSERT of an unlock runs, none of its ids is unlocked yet and  *)
(* the balance still covers them, so the unique index on (employer,        *)
(* submission) never fails an unlock and nobody is charged twice.          *)
THEOREM UnlockNeverStale == Spec => []FundedUnlockStillValid
<1>1. LockInv => FundedUnlockStillValid
  BY DEF LockInv, FreshNotUnlocked, FundedCovered, FilteredPcs, FundedUnlockStillValid
<1>. QED
  BY LockInvariant, <1>1, PTL
-----------------------------------------------------------------------------
(* The rows.  A step leaves the ledger alone, inserts the rows of one      *)
(* transaction, or erases the reference to a deleted submission.           *)

NoWrite == UNCHANGED <<ledger, nextTxn>>

Inserts(rows) == ledger' = ledger \cup rows /\ nextTxn' = nextTxn + 1

BonusWrite(e) ==
  /\ bonus[e].pc = "read"
  /\ RowsOf(e, {"SIGNUP_BONUS"}) = {}
  /\ Inserts({LedgerRow(nextTxn, "SIGNUP_BONUS", e, bonus[e].amount, e, NoSubmission)})
  /\ UNCHANGED <<unlock, subStatus, purchase>>

PurchaseWrite(p) ==
  /\ PurchaseRows(p) = {}
  /\ Inserts({LedgerRow(nextTxn, "PURCHASE", Buyer[p], PackCredits[p], p, NoSubmission)})
  /\ purchase' = [purchase EXCEPT ![p] = "SUCCEEDED"]
  /\ UNCHANGED <<unlock, subStatus>>

UnlockWrite(r) ==
  /\ unlock[r].pc = "funded"
  /\ \A s \in unlock[r].fresh : subStatus[s] # "DELETED"
  /\ Inserts(UnlockRows(unlock[r].employer, nextTxn, unlock[r].fresh))
  /\ unlock' = [unlock EXCEPT ![r].pc = "ok"]
  /\ UNCHANGED <<subStatus, purchase>>

Erasure(s) ==
  /\ subStatus' = [subStatus EXCEPT ![s] = "DELETED"]
  /\ ledger' = {Erased(row, s) : row \in ledger}
  /\ UNCHANGED <<nextTxn, unlock, purchase>>

LedgerWrite ==
  \/ NoWrite
  \/ \E e \in Employers : BonusWrite(e)
  \/ \E p \in Purchases : PurchaseWrite(p)
  \/ \E r \in Requests : UnlockWrite(r)
  \/ \E s \in Submissions : Erasure(s)

LEMMA StepsWrite == TypeOK /\ [Next]_vars => LedgerWrite
<1>. SUFFICES ASSUME TypeOK, [Next]_vars PROVE LedgerWrite
  OBVIOUS
<1>. USE DEF ledgerVars, payVars, LedgerWrite, NoWrite
<1>1. ASSUME NEW r \in Requests, UnlockInsert(r), UNCHANGED payVars
      PROVE  LedgerWrite
  <2>1. NoWrite \/ UnlockWrite(r)
    BY <1>1 DEF UnlockInsert, UnlockWrite, Inserts
  <2>. QED
    BY <2>1
<1>2. ASSUME NEW e \in Employers, BonusInsert(e), UNCHANGED payVars
      PROVE  LedgerWrite
  <2>1. NoWrite \/ BonusWrite(e)
    BY <1>2 DEF BonusInsert, BonusWrite, Inserts
  <2>. QED
    BY <2>1
<1>3. ASSUME NEW s \in Submissions, DeleteSubmission(s), UNCHANGED payVars
      PROVE  LedgerWrite
  <2>1. Erasure(s)
    BY <1>3 DEF DeleteSubmission, Erasure
  <2>. QED
    BY <2>1
<1>4. ASSUME NEW p \in Purchases, GrantPurchase(p)
      PROVE  LedgerWrite
  <2>1. NoWrite \/ PurchaseWrite(p)
    BY <1>4 DEF GrantPurchase, PurchaseWrite, Inserts
  <2>. QED
    BY <2>1
<1>5. CASE LedgerNext /\ UNCHANGED payVars
  BY <1>1, <1>2, <1>3, <1>5
  DEF LedgerNext, UnlockRequest, UnlockStep, UnlockLock, UnlockFilter, UnlockCheckWithdrawn,
      UnlockReadBalance, UnlockReply, UnlockAbort, BonusRead, BonusLost, UpdateSettings,
      Withdraw, Redecide
<1>6. ASSUME NEW p \in Purchases,
             CreateSession(p) \/ InsertPurchase(p) \/ StripeStep(p) \/ PollStep(p)
      PROVE  LedgerWrite
  BY <1>4, <1>6
  DEF CreateSession, InsertPurchase, StripeStep, PayByCard, PayByBank, BankSucceeds, BankFails,
      SessionExpires, Settle, PollStep, PollRead, PollRetrieve, PollLost, PollSettle, MarkFailed
<1>7. ASSUME NEW ev \in events, Webhook(ev)
      PROVE  LedgerWrite
  <2>1. ev.purchase \in Purchases
    BY DEF TypeOK
  <2>. QED
    BY <1>4, <1>7, <2>1 DEF Webhook, MarkFailed
<1>8. CASE UNCHANGED vars
  BY <1>8 DEF vars
<1>. QED
  BY <1>5, <1>6, <1>7, <1>8 DEF Next

SameEntry(kept, row) ==
  /\ kept.id = row.id /\ kept.type = row.type
  /\ kept.employer = row.employer /\ kept.amount = row.amount

LEMMA ErasedIsSame ==
  ASSUME NEW row \in Rows, NEW s
  PROVE  SameEntry(Erased(row, s), row)
BY DEF Erased, Rows, SameEntry

LEMMA RowsKept ==
  ASSUME TypeOK, LedgerWrite, NEW row \in ledger
  PROVE  \E kept \in ledger' : SameEntry(kept, row)
<1>1. CASE ledger \subseteq ledger'
  BY <1>1 DEF SameEntry
<1>2. ASSUME NEW s \in Submissions, Erasure(s)
      PROVE  \E kept \in ledger' : SameEntry(kept, row)
  <2>1. Erased(row, s) \in ledger'
    BY <1>2 DEF Erasure
  <2>2. row \in Rows
    BY DEF TypeOK
  <2>. QED
    BY <2>1, <2>2, ErasedIsSame
<1>. QED
  BY <1>1, <1>2 DEF LedgerWrite, NoWrite, BonusWrite, PurchaseWrite, UnlockWrite, Inserts

(* Credits are never taken back behind an account's balance: every row     *)
(* ever written stays, with its type, employer and amount, through every   *)
(* later grant, unlock, failed payment and deletion.                       *)
THEOREM LedgerIsAppendOnly == Spec => AuditTrail
<1>1. TypeOK /\ [Next]_vars =>
        \A row \in ledger : \E kept \in ledger' :
          /\ kept.id = row.id
          /\ kept.type = row.type
          /\ kept.employer = row.employer
          /\ kept.amount = row.amount
  BY StepsWrite, RowsKept DEF SameEntry
<1>. QED
  BY <1>1, TypeCorrect, PTL DEF Spec, AuditTrail

-----------------------------------------------------------------------------
(* What the rows say: the transaction that wrote them is past, a row's key *)
(* is what it was written for, and only a deleted submission is forgotten. *)

RowSound(row) ==
  /\ row.id[1] < nextTxn
  /\ row.type = "SIGNUP_BONUS" => row.id[2] = row.employer
  /\ row.type = "PURCHASE" => row.id[2] \in Purchases
  /\ row.type = "UNLOCK" =>
       /\ row.id[2] \in Submissions
       /\ \/ row.submission = row.id[2]
          \/ row.submission = NoSubmission /\ subStatus[row.id[2]] = "DELETED"

RowsSound ==
  /\ \A row \in ledger : RowSound(row)
  /\ \A e \in Employers : bonus[e].pc = "read" => bonus[e].amount > 0

LEMMA DeletedIsFinal ==
  ASSUME TypeOK, [Next]_vars, NEW s \in Submissions, subStatus[s] = "DELETED"
  PROVE  subStatus'[s] = "DELETED"
<1>. USE DEF ledgerVars, payVars
<1>1. CASE LedgerNext
  <2>1. ASSUME NEW t \in Submissions, Withdraw(t) \/ Redecide(t) \/ DeleteSubmission(t)
        PROVE  subStatus'[s] = "DELETED"
    BY <2>1 DEF Withdraw, Redecide, DeleteSubmission, TypeOK
  <2>. QED
    BY <1>1, <2>1
    DEF LedgerNext, UnlockRequest, UnlockStep, UnlockLock, UnlockFilter, UnlockCheckWithdrawn,
        UnlockReadBalance, UnlockInsert, UnlockReply, UnlockAbort, BonusRead, BonusInsert,
        BonusLost, UpdateSettings
<1>2. CASE UNCHANGED subStatus
  BY <1>2
<1>3. LedgerNext \/ UNCHANGED subStatus
  BY DEF Next, vars, CreateSession, InsertPurchase, StripeStep, PayByCard, PayByBank,
         BankSucceeds, BankFails, SessionExpires, Settle, PollStep, PollRead, PollRetrieve,
         PollLost, PollSettle, Webhook, MarkFailed, GrantPurchase
<1>. QED
  BY <1>1, <1>2, <1>3

LEMMA BonusStaysPositive ==
  ASSUME TypeOK, RowsSound, [Next]_vars, NEW e \in Employers, bonus'[e].pc = "read"
  PROVE  bonus'[e].amount > 0
<1>. USE DEF ledgerVars, payVars
<1>1. ASSUME NEW f \in Employers, BonusRead(f) \/ BonusInsert(f) \/ BonusLost(f)
      PROVE  bonus'[e].amount > 0
  <2>1. CASE BonusRead(f)
    BY <2>1 DEF BonusRead, TypeOK, RowsSound
  <2>2. CASE BonusInsert(f) \/ BonusLost(f)
    <3>1. bonus' = [bonus EXCEPT ![f].pc = "done"]
      BY <2>2 DEF BonusInsert, BonusLost
    <3>. QED
      BY <3>1 DEF TypeOK, RowsSound
  <2>. QED
    BY <1>1, <2>1, <2>2
<1>2. CASE UNCHANGED bonus
  BY <1>2 DEF RowsSound
<1>3. UNCHANGED bonus \/ \E f \in Employers : BonusRead(f) \/ BonusInsert(f) \/ BonusLost(f)
  BY DEF Next, vars, LedgerNext, UnlockRequest, UnlockStep, UnlockLock, UnlockFilter,
         UnlockCheckWithdrawn, UnlockReadBalance, UnlockInsert, UnlockReply, UnlockAbort,
         UpdateSettings, Withdraw, Redecide, DeleteSubmission,
         CreateSession, InsertPurchase, StripeStep, PayByCard, PayByBank,
         BankSucceeds, BankFails, SessionExpires, Settle, PollStep, PollRead, PollRetrieve,
         PollLost, PollSettle, Webhook, MarkFailed, GrantPurchase
<1>. QED
  BY <1>1, <1>2, <1>3

LEMMA NextRowsSound ==
  ASSUME TypeOK, TypeOK', RowsSound, [Next]_vars
  PROVE  RowsSound'
<1>1. /\ nextTxn \in Nat
      /\ \A row \in ledger : row \in Rows /\ RowSound(row) /\ row.id[1] \in Nat
  BY DEF TypeOK, RowsSound, Rows
<1>2. ASSUME NEW row \in ledger, nextTxn' >= nextTxn PROVE RowSound(row)'
  BY <1>1, <1>2, DeletedIsFinal DEF RowSound, TypeOK
<1>3. ASSUME NEW e \in Employers, BonusWrite(e) PROVE \A row \in ledger' : RowSound(row)'
  BY <1>1, <1>2, <1>3 DEF BonusWrite, Inserts, LedgerRow, RowSound
<1>4. ASSUME NEW p \in Purchases, PurchaseWrite(p) PROVE \A row \in ledger' : RowSound(row)'
  BY <1>1, <1>2, <1>4 DEF PurchaseWrite, Inserts, LedgerRow, RowSound
<1>5. ASSUME NEW r \in Requests, UnlockWrite(r) PROVE \A row \in ledger' : RowSound(row)'
  <2>1. unlock[r].fresh \subseteq Submissions
    BY <1>5 DEF UnlockWrite, TypeOK, RequestStates, ServedRequests, IdleRequest
  <2>2. ASSUME NEW row \in UnlockRows(unlock[r].employer, nextTxn, unlock[r].fresh)
        PROVE  RowSound(row)'
    BY <1>1, <1>5, <2>1, <2>2 DEF UnlockWrite, Inserts, UnlockRows, LedgerRow, RowSound
  <2>. QED
    BY <1>1, <1>2, <1>5, <2>2 DEF UnlockWrite, Inserts
<1>6. ASSUME NEW s \in Submissions, Erasure(s) PROVE \A row \in ledger' : RowSound(row)'
  <2>. SUFFICES ASSUME NEW row \in ledger PROVE RowSound(Erased(row, s))'
    BY <1>6 DEF Erasure
  <2>1. RowSound(row)' /\ nextTxn' = nextTxn /\ subStatus'[s] = "DELETED"
    BY <1>1, <1>2, <1>6 DEF Erasure, TypeOK
  <2>2. CASE row.submission # s
    BY <2>1, <2>2 DEF Erased
  <2>3. CASE row.submission = s
    <3>1. /\ SameEntry(Erased(row, s), row)
          /\ Erased(row, s).submission = NoSubmission
      BY <1>1, <2>3, ErasedIsSame DEF Erased, Rows
    <3>2. row.type = "UNLOCK" => row.id[2] = s
      BY <1>1, <2>3, NullAssumption DEF RowSound
    <3>. QED
      BY <2>1, <3>1, <3>2 DEF RowSound, SameEntry
  <2>. QED
    BY <2>2, <2>3
<1>7. ASSUME NoWrite PROVE \A row \in ledger' : RowSound(row)'
  <2>1. ledger' = ledger /\ nextTxn' >= nextTxn
    BY <1>1, <1>7 DEF NoWrite
  <2>. QED
    BY <1>2, <2>1 DEF RowSound
<1>8. \A row \in ledger' : RowSound(row)'
  BY <1>3, <1>4, <1>5, <1>6, <1>7, StepsWrite DEF LedgerWrite
<1>9. \A e \in Employers : bonus'[e].pc = "read" => bonus'[e].amount > 0
  BY BonusStaysPositive
<1>. QED
  BY <1>8, <1>9 DEF RowsSound

-----------------------------------------------------------------------------
(* What an unlock has still to pay for.  `paid` is what its employer has   *)
(* been charged for.                                                       *)

Served(req, paid) ==
  /\ req.pc \in FilteredPcs => req.fresh # {} /\ req.ids \ req.fresh \subseteq paid
  /\ req.pc = "ok" => req.ids \subseteq paid

ServedInv == \A r \in Requests : Served(unlock[r], Charged(unlock[r].employer))

LEMMA ChargedGrows ==
  ASSUME TypeOK, LedgerWrite, NEW e
  PROVE  Charged(e) \subseteq Charged(e)'
BY RowsKept DEF Charged, RowsOf, SameEntry

LEMMA UnlockedIsCharged ==
  ASSUME RowsSound, NEW e
  PROVE  Unlocked(e) \subseteq Charged(e)
BY DEF RowsSound, RowSound, Unlocked, Charged, RowsOf

LEMMA InsertCharges ==
  ASSUME NEW e, NEW ids, ledger' = ledger \cup UnlockRows(e, nextTxn, ids)
  PROVE  Charged(e)' = Charged(e) \cup ids
<1>1. \A row \in UnlockRows(e, nextTxn, ids) :
        row.employer = e /\ row.type = "UNLOCK" /\ row.id[2] \in ids
  BY DEF UnlockRows, LedgerRow
<1>2. \A s \in ids : \E row \in UnlockRows(e, nextTxn, ids) : row.id[2] = s
  <2>. SUFFICES ASSUME NEW s \in ids
                PROVE  \E row \in UnlockRows(e, nextTxn, ids) : row.id[2] = s
    OBVIOUS
  <2>1. LedgerRow(nextTxn, "UNLOCK", e, -1, s, s) \in UnlockRows(e, nextTxn, ids)
    BY DEF UnlockRows
  <2>. QED
    BY <2>1 DEF LedgerRow
<1>. QED
  BY <1>1, <1>2 DEF Charged, RowsOf

(* The step of the request itself.                                         *)
LEMMA StepServes ==
  ASSUME TypeOK, RowsSound, LedgerWrite, NEW r \in Requests,
         Served(unlock[r], Charged(unlock[r].employer)),
         UnlockStep(r)
  PROVE  Served(unlock[r], Charged(unlock[r].employer))'
<1>. DEFINE req == unlock[r]
<1>. PICK e : e = req.employer
  OBVIOUS
<1>0. /\ req.pc # "idle" => req \in ServedRequests
      /\ unlock'[r] = IdleRequest => Served(unlock[r], Charged(unlock[r].employer))'
  BY DEF TypeOK, RequestStates, IdleRequest, Served, FilteredPcs
<1>1. CASE UnlockLock(r)
  BY <1>1 DEF UnlockLock, TypeOK, Served, FilteredPcs
<1>2. CASE UnlockFilter(r)
  <2>. DEFINE new == req.ids \ Unlocked(req.employer)
  <2>1. /\ unlock'[r].pc = IF new = {} THEN "ok" ELSE "filtered"
        /\ unlock'[r].fresh = new /\ unlock'[r].ids = req.ids
        /\ unlock'[r].employer = req.employer
    BY <1>0, <1>2 DEF UnlockFilter, TypeOK, ServedRequests
  <2>2. Unlocked(e) \subseteq Charged(e)'
    BY ChargedGrows, UnlockedIsCharged
  <2>. QED
    BY <2>1, <2>2 DEF Served, FilteredPcs
<1>3. CASE UnlockCheckWithdrawn(r) \/ UnlockReadBalance(r)
  <2>1. CASE unlock'[r] # IdleRequest
    <3>1. /\ unlock'[r].pc \in {"checked", "funded"} /\ req.pc \in FilteredPcs
          /\ unlock'[r].fresh = req.fresh /\ unlock'[r].ids = req.ids
          /\ unlock'[r].employer = req.employer
      BY <1>0, <1>3, <2>1
      DEF UnlockCheckWithdrawn, UnlockReadBalance, EndRequest, TypeOK, ServedRequests, FilteredPcs
    <3>2. Charged(e) \subseteq Charged(e)'
      BY ChargedGrows
    <3>. QED
      BY <3>1, <3>2 DEF Served
  <2>. QED
    BY <1>0, <2>1
<1>4. CASE UnlockInsert(r)
  <2>1. CASE unlock'[r] # IdleRequest
    <3>1. /\ req.pc = "funded" /\ unlock'[r].pc = "ok"
          /\ unlock'[r].ids = req.ids /\ unlock'[r].employer = req.employer
          /\ ledger' = ledger \cup UnlockRows(e, nextTxn, req.fresh)
      BY <1>0, <1>4, <2>1 DEF UnlockInsert, EndRequest, TypeOK, ServedRequests
    <3>2. Charged(e)' = Charged(e) \cup req.fresh
      BY <3>1, InsertCharges
    <3>. QED
      BY <3>1, <3>2 DEF Served, FilteredPcs
  <2>. QED
    BY <1>0, <2>1
<1>5. CASE UnlockReply(r)
  BY <1>0, <1>5 DEF UnlockReply, EndRequest, TypeOK
<1>. QED
  BY <1>1, <1>2, <1>3, <1>4, <1>5 DEF UnlockStep

LEMMA NextServed ==
  ASSUME TypeOK, RowsSound, ServedInv, [Next]_vars
  PROVE  ServedInv'
<1>. USE DEF ledgerVars, payVars
<1>. SUFFICES ASSUME NEW r \in Requests
              PROVE  Served(unlock[r], Charged(unlock[r].employer))'
  BY DEF ServedInv
<1>0. LedgerWrite /\ Served(unlock[r], Charged(unlock[r].employer))
  BY StepsWrite DEF ServedInv
<1>1. CASE UnlockStep(r)
  BY <1>0, <1>1, StepServes
<1>2. CASE unlock'[r] = unlock[r]
  <2>. PICK e : e = unlock[r].employer
    OBVIOUS
  <2>1. Charged(e) \subseteq Charged(e)'
    BY <1>0, ChargedGrows
  <2>. QED
    BY <1>0, <1>2, <2>1 DEF Served
<1>3. ASSUME NEW e \in Employers, NEW ids \in SUBSET Submissions, UnlockRequest(r, e, ids)
      PROVE  Served(unlock[r], Charged(unlock[r].employer))'
  BY <1>3 DEF UnlockRequest, TypeOK, Served, FilteredPcs
<1>4. CASE UnlockAbort(r)
  BY <1>4 DEF UnlockAbort, EndRequest, IdleRequest, TypeOK, Served, FilteredPcs
<1>5. ASSUME NEW q \in Requests, q # r, UnlockStep(q) \/ UnlockAbort(q)
      PROVE  unlock'[r] = unlock[r]
  BY <1>5
  DEF UnlockStep, UnlockLock, UnlockFilter, UnlockCheckWithdrawn,
      UnlockReadBalance, UnlockInsert, UnlockReply, UnlockAbort, EndRequest, TypeOK
<1>6. \/ UNCHANGED unlock
      \/ \E q \in Requests : UnlockStep(q) \/ UnlockAbort(q)
      \/ \E q \in Requests, e \in Employers, ids \in SUBSET Submissions : UnlockRequest(q, e, ids)
  BY DEF Next, vars, LedgerNext, BonusRead, BonusInsert, BonusLost,
         UpdateSettings, Withdraw, Redecide, DeleteSubmission,
         CreateSession, InsertPurchase, StripeStep, PayByCard, PayByBank,
         BankSucceeds, BankFails, SessionExpires, Settle, PollStep, PollRead, PollRetrieve,
         PollLost, PollSettle, Webhook, MarkFailed, GrantPurchase
<1>7. ASSUME NEW q \in Requests, UnlockStep(q) \/ UnlockAbort(q)
      PROVE  Served(unlock[r], Charged(unlock[r].employer))'
  <2>1. CASE q = r
    <3>1. UnlockStep(r) \/ UnlockAbort(r)
      BY <1>7, <2>1, Zenon
    <3>. QED
      BY <1>1, <1>4, <3>1
  <2>2. CASE q # r
    BY <1>2, <1>5, <1>7, <2>2
  <2>. QED
    BY <2>1, <2>2
<1>8. ASSUME NEW q \in Requests, NEW e \in Employers, NEW ids \in SUBSET Submissions,
             UnlockRequest(q, e, ids)
      PROVE  Served(unlock[r], Charged(unlock[r].employer))'
  <2>1. CASE q = r
    BY <1>3, <1>8, <2>1, Zenon
  <2>2. CASE q # r
    BY <1>2, <1>8, <2>2 DEF UnlockRequest, TypeOK
  <2>. QED
    BY <2>1, <2>2
<1>9. CASE UNCHANGED unlock
  BY <1>2, <1>9
<1>. QED
  BY <1>6, <1>7, <1>8, <1>9

-----------------------------------------------------------------------------
(* Purchases and the rows that credit them.                                *)

Settled(p) ==
  /\ purchase[p] = "SUCCEEDED" =>
       \E row \in Rows : /\ PurchaseRows(p) = {row}
                         /\ row.employer = Buyer[p] /\ row.amount = PackCredits[p]
  /\ purchase[p] # "SUCCEEDED" => PurchaseRows(p) = {}

PurchasesSettled == \A p \in Purchases : Settled(p)

(* A step that does not grant a purchase neither makes it SUCCEEDED nor    *)
(* takes that back.                                                        *)
LEMMA PurchaseMoves ==
  ASSUME TypeOK, [Next]_vars, NEW p \in Purchases
  PROVE  \/ purchase'[p] = purchase[p]
         \/ purchase[p] # "SUCCEEDED" /\ purchase'[p] # "SUCCEEDED"
         \/ GrantPurchase(p)
<1>. DEFINE Goal == \/ purchase'[p] = purchase[p]
                    \/ purchase[p] # "SUCCEEDED" /\ purchase'[p] # "SUCCEEDED"
                    \/ GrantPurchase(p)
<1>. USE DEF ledgerVars, payVars
<1>1. ASSUME NEW q \in Purchases, InsertPurchase(q) \/ MarkFailed(q) PROVE Goal
  BY <1>1 DEF InsertPurchase, MarkFailed, TypeOK
<1>2. ASSUME NEW q \in Purchases, GrantPurchase(q) PROVE Goal
  <2>1. q # p => purchase'[p] = purchase[p]
    BY <1>2 DEF GrantPurchase, TypeOK
  <2>. QED
    BY <1>2, <2>1
<1>3. CASE UNCHANGED purchase
  BY <1>3
<1>4. \A ev \in events : ev.purchase \in Purchases
  BY DEF TypeOK
<1>5. \/ UNCHANGED purchase
      \/ \E q \in Purchases : InsertPurchase(q) \/ MarkFailed(q) \/ GrantPurchase(q)
  BY <1>4
  DEF Next, vars, CreateSession, StripeStep, PayByCard, PayByBank, BankSucceeds, BankFails,
      SessionExpires, Settle, PollStep, PollRead, PollRetrieve, PollLost, PollSettle, Webhook
<1>. QED
  BY <1>1, <1>2, <1>3, <1>5

LEMMA NextSettled ==
  ASSUME TypeOK, TypeOK', PurchasesSettled, [Next]_vars
  PROVE  PurchasesSettled'
<1>. SUFFICES ASSUME NEW p \in Purchases PROVE Settled(p)'
  BY DEF PurchasesSettled
<1>0. Settled(p)
  BY DEF PurchasesSettled
<1>1. ASSUME NEW row, row.type # "PURCHASE" \/ row.id[2] # p, ledger' = ledger \cup {row}
      PROVE  PurchaseRows(p)' = PurchaseRows(p)
  BY <1>1 DEF PurchaseRows
<1>2. ASSUME NEW e \in Employers, BonusWrite(e) PROVE Settled(p)'
  <2>1. PurchaseRows(p)' = PurchaseRows(p)
    BY <1>1, <1>2 DEF BonusWrite, Inserts, LedgerRow
  <2>. QED
    BY <1>0, <1>2, <2>1 DEF BonusWrite, Settled
<1>3. ASSUME NEW r \in Requests, UnlockWrite(r) PROVE Settled(p)'
  <2>1. PurchaseRows(p)' = PurchaseRows(p)
    BY <1>3 DEF UnlockWrite, Inserts, UnlockRows, LedgerRow, PurchaseRows
  <2>. QED
    BY <1>0, <1>3, <2>1 DEF UnlockWrite, Settled
<1>4. ASSUME NEW s \in Submissions, Erasure(s) PROVE Settled(p)'
  <2>1. \A row \in ledger : row \in Rows /\ SameEntry(Erased(row, s), row)
    BY ErasedIsSame DEF TypeOK
  <2>2. PurchaseRows(p)' = {Erased(row, s) : row \in PurchaseRows(p)}
    BY <1>4, <2>1 DEF Erasure, PurchaseRows, SameEntry
  <2>3. ASSUME NEW row \in Rows, PurchaseRows(p) = {row},
               row.employer = Buyer[p], row.amount = PackCredits[p]
        PROVE  /\ Erased(row, s) \in Rows /\ PurchaseRows(p)' = {Erased(row, s)}
               /\ Erased(row, s).employer = Buyer[p] /\ Erased(row, s).amount = PackCredits[p]
    BY <2>2, <2>3, ErasedRowTyped, ErasedIsSame DEF SameEntry
  <2>4. PurchaseRows(p) = {} => PurchaseRows(p)' = {}
    BY <2>2
  <2>. QED
    BY <1>0, <1>4, <2>3, <2>4 DEF Erasure, Settled
<1>5. ASSUME NEW q \in Purchases, PurchaseWrite(q) PROVE Settled(p)'
  <2>. DEFINE row == LedgerRow(nextTxn, "PURCHASE", Buyer[q], PackCredits[q], q, NoSubmission)
  <2>1. /\ row \in Rows
        /\ row.type = "PURCHASE" /\ row.id[2] = q
        /\ row.employer = Buyer[q] /\ row.amount = PackCredits[q]
    BY CreditRowTyped, BuyerAssumption, PackAssumption DEF TypeOK, Keys, LedgerRow
  <2>2. ledger' = ledger \cup {row}
    BY <1>5 DEF PurchaseWrite, Inserts
  <2>. HIDE DEF row
  <2>3. CASE q = p
    <3>1. PurchaseRows(p)' = {row}
      BY <1>5, <2>1, <2>2, <2>3 DEF PurchaseWrite, PurchaseRows
    <3>2. purchase'[p] = "SUCCEEDED"
      BY <1>5, <2>3 DEF PurchaseWrite, TypeOK
    <3>. QED
      BY <2>1, <2>3, <3>1, <3>2 DEF Settled
  <2>4. CASE q # p
    <3>1. PurchaseRows(p)' = PurchaseRows(p)
      BY <1>1, <2>1, <2>2, <2>4
    <3>2. purchase'[p] = purchase[p]
      BY <1>5, <2>4 DEF PurchaseWrite, TypeOK
    <3>. QED
      BY <1>0, <3>1, <3>2 DEF Settled
  <2>. QED
    BY <2>3, <2>4
<1>6. CASE NoWrite
  <2>1. PurchaseRows(p)' = PurchaseRows(p)
    BY <1>6 DEF NoWrite, PurchaseRows
  <2>2. GrantPurchase(p) => PurchaseRows(p) # {} /\ purchase'[p] = "SUCCEEDED"
    BY <1>6 DEF NoWrite, GrantPurchase, TypeOK
  <2>3. \/ purchase'[p] = purchase[p]
        \/ purchase[p] # "SUCCEEDED" /\ purchase'[p] # "SUCCEEDED"
    BY <1>0, <2>2, PurchaseMoves DEF Settled
  <2>. QED
    BY <1>0, <2>1, <2>3 DEF Settled
<1>. QED
  BY <1>2, <1>3, <1>4, <1>5, <1>6, StepsWrite DEF LedgerWrite

-----------------------------------------------------------------------------
(* The account the ledger implements.                                      *)

AccountInv == LockInv /\ RowsSound /\ ServedInv /\ PurchasesSettled

LEMMA InitAccount == Init => AccountInv
<1>. SUFFICES ASSUME Init PROVE AccountInv
  OBVIOUS
<1>1. ledger = {} /\ \A e \in Employers : bonus[e].pc = "new"
  BY DEF Init, LedgerInit
<1>2. \A r \in Requests : unlock[r].pc = "idle"
  BY DEF Init, LedgerInit, IdleRequest
<1>3. \A p \in Purchases : purchase[p] = "NONE"
  BY DEF Init
<1>4. RowsSound
  BY <1>1 DEF RowsSound
<1>5. ServedInv
  BY <1>2 DEF ServedInv, Served, FilteredPcs
<1>6. PurchasesSettled
  BY <1>1, <1>3 DEF PurchasesSettled, Settled, PurchaseRows
<1>. QED
  BY <1>4, <1>5, <1>6, InitLock DEF AccountInv

LEMMA NextAccount == AccountInv /\ [Next]_vars => AccountInv'
<1>. SUFFICES ASSUME AccountInv, [Next]_vars PROVE AccountInv'
  OBVIOUS
<1>1. LockInv' /\ TypeOK /\ TypeOK'
  BY NextLock DEF AccountInv, LockInv
<1>. QED
  BY <1>1, NextRowsSound, NextServed, NextSettled DEF AccountInv

(* The invariant behind the promises below: what the lock protects, what   *)
(* the rows say of purchases and deleted submissions, and how far each     *)
(* unlock has got in paying for what it was asked for.                     *)
THEOREM AccountInvariant == Spec => []AccountInv
BY InitAccount, NextAccount, PTL DEF Spec

(* A 201 answer names only submissions that are paid for, although         *)
(* unlockSubmissions pays only for those it did not find unlocked.         *)
THEOREM AnswersArePaidFor == Spec => []AnsweredUnlockIsPaid
<1>1. AccountInv => AnsweredUnlockIsPaid
  BY DEF AccountInv, ServedInv, Served, AnsweredUnlockIsPaid
<1>. QED
  BY AccountInvariant, <1>1, PTL

(* However webhooks and polls repeat, race and overtake each other, a      *)
(* purchase is SUCCEEDED exactly when one row credits its buyer with the   *)
(* credits of its pack (grantPurchase, markFailed).                        *)
THEOREM CreditedOnce == Spec => []SucceededIffCredited
<1>1. AccountInv => SucceededIffCredited
  <2>. SUFFICES ASSUME AccountInv, NEW p \in Purchases
                PROVE  IF purchase[p] = "SUCCEEDED"
                       THEN /\ Cardinality(PurchaseRows(p)) = 1
                            /\ \A row \in PurchaseRows(p) :
                                 row.employer = Buyer[p] /\ row.amount = PackCredits[p]
                       ELSE PurchaseRows(p) = {}
    BY DEF SucceededIffCredited
  <2>1. Settled(p)
    BY DEF AccountInv, PurchasesSettled
  <2>2. \A row : Cardinality({row}) = 1
    BY FS_Singleton
  <2>. QED
    BY <2>1, <2>2 DEF Settled
<1>. QED
  BY AccountInvariant, <1>1, PTL

LEMMA InitImplements == Init => Account!Init
<1>. SUFFICES ASSUME Init PROVE Account!Init
  OBVIOUS
<1>1. ledger = {}
  BY DEF Init, LedgerInit
<1>2. \A e \in Employers : CreditUnits(e) = {} /\ DebitIds(e) = {} /\ Charged(e) = {}
  BY <1>1 DEF CreditUnits, DebitIds, RowsOf, Charged
<1>3. \A e \in Employers : Balance(e) = 0
  BY <1>2, FS_EmptySet DEF Balance
<1>. QED
  BY <1>1, <1>2, <1>3 DEF Account!Init, Granted

(* A row that grants credits for a reason nobody was credited for.         *)
LEMMA CreditTopsUp ==
  ASSUME AccountInv, NEW row \in Rows, row.type \in {"PURCHASE", "SIGNUP_BONUS"},
         row.amount > 0, row.id[1] = nextTxn, ledger' = ledger \cup {row},
         NEW key \in TopUpReasons, key = <<row.type, row.id[2]>>, key \notin Granted
  PROVE  Account!TopUp(row.employer, key)
<1>1. \A old \in ledger : old.id # row.id
  <2>1. \A old \in ledger : old.id[1] < nextTxn /\ nextTxn \in Nat /\ old.id[1] \in Nat
    BY DEF AccountInv, RowsSound, RowSound, LockInv, TypeOK, Rows
  <2>. QED
    BY <2>1
<1>2. \A e \in Employers :
        /\ row.employer # e => Balance(e)' = Balance(e)
        /\ row.employer = e => Balance(e)' > Balance(e)
  BY <1>1, CreditEffect DEF AccountInv, LockInv
<1>3. \A e \in Employers : Charged(e)' = Charged(e)
  BY DEF Charged, RowsOf
<1>4. Granted' = Granted \cup {key}
  BY DEF Granted
<1>5. row.employer \in Employers
  BY DEF Rows
<1>. QED
  BY <1>2, <1>3, <1>4, <1>5 DEF Account!TopUp

(* CreditAccount counts with its own instance of FiniteSets.               *)
LEMMA SameCardinality ==
  ASSUME NEW S
  PROVE  Account!Cardinality(S) = Cardinality(S)
BY DEF Account!Cardinality, Cardinality

LEMMA UnlockCharges ==
  ASSUME AccountInv, NEW r \in Requests, UnlockWrite(r)
  PROVE  /\ unlock[r].employer \in Employers
         /\ unlock[r].fresh \in (SUBSET Submissions) \ {{}}
         /\ Account!Charge(unlock[r].employer, unlock[r].fresh)
<1>. PICK e, ids : e = unlock[r].employer /\ ids = unlock[r].fresh
  OBVIOUS
<1>1. e \in Employers /\ ids \in (SUBSET Submissions) \ {{}}
  <2>1. unlock[r] \in ServedRequests
    BY DEF UnlockWrite, AccountInv, LockInv, TypeOK, RequestStates, IdleRequest
  <2>2. ids # {}
    BY DEF UnlockWrite, AccountInv, ServedInv, Served, FilteredPcs
  <2>. QED
    BY <2>1, <2>2 DEF ServedRequests
<1>2. \A old \in ledger : old.id[1] # nextTxn
  BY DEF AccountInv, RowsSound, RowSound, LockInv, TypeOK, Rows
<1>3. ledger' = ledger \cup UnlockRows(e, nextTxn, ids)
  BY DEF UnlockWrite, Inserts
<1>4. \A f \in Employers :
        /\ f # e => Balance(f)' = Balance(f)
        /\ f = e => Balance(f)' = Balance(f) - Cardinality(ids)
  <2>. PICK txn : txn = nextTxn
    OBVIOUS
  <2>1. ledger' = ledger \cup UnlockRows(e, txn, ids)
    BY <1>3
  <2>. QED
    BY <1>1, <1>2, <2>1, DebitEffect DEF AccountInv, LockInv
<1>5. Charged(e)' = Charged(e) \cup ids /\ \A f \in Employers \ {e} : Charged(f)' = Charged(f)
  <2>1. Charged(e)' = Charged(e) \cup ids
    BY <1>3, InsertCharges
  <2>2. \A f \in Employers \ {e} : Charged(f)' = Charged(f)
    BY <1>3 DEF Charged, RowsOf, UnlockRows, LedgerRow
  <2>. QED
    BY <2>1, <2>2
<1>6. Granted' = Granted
  BY <1>3 DEF Granted, UnlockRows, LedgerRow
<1>7. Cardinality(ids) <= Balance(e)
  BY DEF UnlockWrite, AccountInv, LockInv, FundedCovered
(* What was charged for and is not unlocked any more has been deleted.     *)
<1>8. ids \cap Charged(e) = {}
  <2>. SUFFICES ASSUME NEW s \in ids, NEW row \in RowsOf(e, {"UNLOCK"}), row.id[2] = s
                PROVE  FALSE
    BY DEF Charged
  <2>1. subStatus[s] # "DELETED"
    BY DEF UnlockWrite
  <2>2. row.submission = s
    BY <2>1 DEF AccountInv, RowsSound, RowSound, RowsOf
  <2>3. s \in Unlocked(e)
    BY <1>1, <2>2, NullAssumption DEF Unlocked
  <2>. QED
    BY <2>3 DEF UnlockWrite, AccountInv, LockInv, FreshNotUnlocked, FilteredPcs
<1>9. Account!Charge(e, ids)
  <2>. DEFINE balance == [f \in Employers |-> Balance(f)]
              charged == [f \in Employers |-> Charged(f)]
  <2>1. balance' = [balance EXCEPT ![e] = @ - Cardinality(ids)]
    BY <1>1, <1>4
  <2>2. charged' = [charged EXCEPT ![e] = @ \cup ids]
    BY <1>1, <1>5
  <2>3. ids \cap charged[e] = {} /\ Cardinality(ids) <= balance[e]
    BY <1>1, <1>7, <1>8
  <2>. QED
    BY <1>6, <2>1, <2>2, <2>3, SameCardinality DEF Account!Charge
<1>. QED
  BY <1>1, <1>9

LEMMA StepImplements ==
  AccountInv /\ AccountInv' /\ [Next]_vars => [Account!Next]_(Account!accountVars)
<1>. SUFFICES ASSUME AccountInv, AccountInv', [Next]_vars
              PROVE  [Account!Next]_(Account!accountVars)
  OBVIOUS
<1>1. CASE NoWrite
  <2>1. \A e \in Employers : Balance(e)' = Balance(e) /\ Charged(e)' = Charged(e)
    BY <1>1 DEF NoWrite, Balance, CreditUnits, DebitIds, Charged, RowsOf
  <2>2. Granted' = Granted
    BY <1>1 DEF NoWrite, Granted
  <2>. QED
    BY <2>1, <2>2 DEF Account!accountVars
<1>2. ASSUME NEW e \in Employers, BonusWrite(e)
      PROVE  Account!Next
  <2>. DEFINE row == LedgerRow(nextTxn, "SIGNUP_BONUS", e, bonus[e].amount, e, NoSubmission)
              key == <<"SIGNUP_BONUS", e>>
  <2>1. ledger' = ledger \cup {row}
    BY <1>2 DEF BonusWrite, Inserts
  <2>2. row \in Rows
    BY <2>1 DEF AccountInv, LockInv, TypeOK
  <2>3. /\ row.type = "SIGNUP_BONUS" /\ row.id = <<nextTxn, e>> /\ row.employer = e
        /\ row.amount > 0
    BY <1>2 DEF LedgerRow, BonusWrite, AccountInv, RowsSound
  <2>4. key \in TopUpReasons
    BY DEF TopUpReasons
  <2>5. key \notin Granted
    BY <1>2 DEF BonusWrite, RowsOf, Granted, AccountInv, RowsSound, RowSound
  <2>. HIDE DEF row
  <2>6. Account!TopUp(row.employer, key)
    BY <2>1, <2>2, <2>3, <2>4, <2>5, CreditTopsUp
  <2>. QED
    BY <2>3, <2>4, <2>6 DEF Account!Next
<1>3. ASSUME NEW p \in Purchases, PurchaseWrite(p)
      PROVE  Account!Next
  <2>. DEFINE row == LedgerRow(nextTxn, "PURCHASE", Buyer[p], PackCredits[p], p, NoSubmission)
              key == <<"PURCHASE", p>>
  <2>1. ledger' = ledger \cup {row}
    BY <1>3 DEF PurchaseWrite, Inserts
  <2>2. row \in Rows
    BY <2>1 DEF AccountInv, LockInv, TypeOK
  <2>3. /\ row.type = "PURCHASE" /\ row.id = <<nextTxn, p>> /\ row.employer = Buyer[p]
        /\ row.amount > 0 /\ Buyer[p] \in Employers
    BY BuyerAssumption, PackAssumption DEF LedgerRow
  <2>4. key \in TopUpReasons
    BY DEF TopUpReasons
  <2>5. key \notin Granted
    BY <1>3 DEF PurchaseWrite, PurchaseRows, Granted
  <2>. HIDE DEF row
  <2>6. Account!TopUp(row.employer, key)
    BY <2>1, <2>2, <2>3, <2>4, <2>5, CreditTopsUp
  <2>. QED
    BY <2>3, <2>4, <2>6 DEF Account!Next
<1>4. ASSUME NEW r \in Requests, UnlockWrite(r)
      PROVE  Account!Next
  BY <1>4, UnlockCharges DEF Account!Next
<1>5. ASSUME NEW s \in Submissions, Erasure(s)
      PROVE  UNCHANGED Account!accountVars
  <2>1. \A row \in ledger : row \in Rows /\ SameEntry(Erased(row, s), row)
    BY ErasedIsSame DEF AccountInv, LockInv, TypeOK
  <2>2. ledger' = {Erased(row, s) : row \in ledger}
    BY <1>5 DEF Erasure
  <2>3. \A e \in Employers : Balance(e)' = Balance(e)
    BY <2>2, EraseEffect DEF AccountInv, LockInv, TypeOK, Balance
  <2>4. \A e \in Employers : Charged(e)' = Charged(e)
    BY <2>1, <2>2 DEF SameEntry, Charged, RowsOf
  <2>5. Granted' = Granted
    BY <2>1, <2>2 DEF SameEntry, Granted
  <2>. QED
    BY <2>3, <2>4, <2>5 DEF Account!accountVars
<1>6. LedgerWrite
  BY StepsWrite DEF AccountInv, LockInv
<1>. QED
  BY <1>1, <1>2, <1>3, <1>4, <1>5, <1>6 DEF LedgerWrite

(* Locks, races, webhooks, polls and deletions reduce to CreditAccount: an *)
(* account is topped up once for each reason, and charged once for each    *)
(* submission, within its balance, even after the submission was deleted   *)
(* and the ledger forgot which one it was.                                 *)
THEOREM AccountImplemented == Spec => ImplementsCreditAccount
BY InitImplements, StepImplements, AccountInvariant, PTL
DEF Spec, ImplementsCreditAccount, Account!Spec
=============================================================================
