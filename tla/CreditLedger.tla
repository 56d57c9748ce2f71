---------------------------- MODULE CreditLedger ----------------------------
(***************************************************************************)
(* The credit ledger (src/modules/credits): an append-only table of rows   *)
(* per employer, and the transactions that write it.  A balance is never   *)
(* stored: it is the sum of the employer's rows.  Unlocking candidates     *)
(* spends one credit for each submission that is not yet unlocked, in one  *)
(* READ COMMITTED transaction that locks the employer's profile row FOR    *)
(* UPDATE.  Its statements are separate steps here, so whatever does not   *)
(* wait for that lock (a candidate withdrawing, a submission deleted with  *)
(* its job) can commit between any two of them.                            *)
(***************************************************************************)
EXTENDS Integers, FiniteSets

CONSTANTS
  Employers,      \* employer profiles
  Submissions,    \* candidates' submissions
  Requests,       \* slots for POST /payments/unlock calls being served
  Owner,          \* [Submissions -> Employers]: whose job was applied to
  BonusAmounts,   \* signup bonuses an admin may configure; 0 means none
  NoEmployer,     \* the employer of an idle request slot
  NoSubmission    \* NULL in a row's submission_id

ASSUME OwnerAssumption == Owner \in [Submissions -> Employers]
ASSUME BonusAssumption == BonusAmounts \subseteq Nat
ASSUME NullAssumption == NoEmployer \notin Employers /\ NoSubmission \notin Submissions
ASSUME FiniteAssumption == IsFiniteSet(Submissions)

VARIABLES
  ledger,     \* the rows of credit_ledger_entries
  nextTxn,    \* how many transactions have inserted rows: makes row ids fresh
  subStatus,  \* what the unlock reads of each submission
  unlock,     \* the unlock request in each slot
  bonus,      \* the one grantSignupBonus call of each employer's signup
  settings    \* the configured signup bonus, 0 when disabled

ledgerVars == <<ledger, nextTxn, subStatus, unlock, bonus, settings>>

-----------------------------------------------------------------------------
(* Rows.  `id` is the primary key: the inserting transaction and the thing *)
(* the row was written for.  `key` never changes; `submission` is the      *)
(* foreign key that is set to NULL when the submission is deleted.         *)

LedgerRow(txn, type, e, amount, key, s) ==
  [id |-> <<txn, key>>, type |-> type, employer |-> e, amount |-> amount,
   submission |-> s]

RowsOf(e, types) == {row \in ledger : row.employer = e /\ row.type \in types}

(* getBalance: SUM(amount).  A row that grants n credits contributes n     *)
(* units and an UNLOCK row, always of amount -1, takes one.                *)
CreditUnits(e) ==
  UNION {{row.id} \X (1 .. row.amount) : row \in RowsOf(e, {"PURCHASE", "SIGNUP_BONUS"})}

DebitIds(e) == {row.id : row \in RowsOf(e, {"UNLOCK"})}

Balance(e) == Cardinality(CreditUnits(e)) - Cardinality(DebitIds(e))

(* findUnlockedSubmissionIds                                               *)
Unlocked(e) == {row.submission : row \in RowsOf(e, {"UNLOCK"})} \ {NoSubmission}

-----------------------------------------------------------------------------
(* Unlock transactions.                                                    *)

TxPcs == {"locked", "filtered", "checked", "funded"}

(* The requests whose transaction holds the employer's row FOR UPDATE.  An *)
(* INSERT of a ledger row takes the same row FOR KEY SHARE to check its    *)
(* foreign key, so it waits for them as well.                              *)
Holders(e) == {r \in Requests : unlock[r].employer = e /\ unlock[r].pc \in TxPcs}

IdleRequest == [pc |-> "idle", employer |-> NoEmployer, ids |-> {}, fresh |-> {}]

EndRequest(r) == unlock' = [unlock EXCEPT ![r] = IdleRequest]

(* loadOwnedSubmissions: every id exists and belongs to one of the         *)
(* employer's jobs.  A request it rejects changes nothing.                 *)
UnlockRequest(r, e, ids) ==
  /\ unlock[r].pc = "idle"
  /\ ids # {}
  /\ \A s \in ids : subStatus[s] # "DELETED" /\ Owner[s] = e
  /\ unlock' = [unlock EXCEPT ![r] =
                  [pc |-> "owned", employer |-> e, ids |-> ids, fresh |-> {}]]
  /\ UNCHANGED <<ledger, nextTxn, subStatus, bonus, settings>>

(* Mutant: a plain SELECT, which waits for nobody.                         *)
UnlockLockPlainSelect(r) ==
  /\ unlock[r].pc = "owned"
  /\ unlock' = [unlock EXCEPT ![r].pc = "locked"]
  /\ UNCHANGED <<ledger, nextTxn, subStatus, bonus, settings>>

(* SELECT ... FROM employer_profiles FOR UPDATE                            *)
UnlockLock(r) ==
  /\ unlock[r].pc = "owned"
  /\ Holders(unlock[r].employer) = {}
  /\ unlock' = [unlock EXCEPT ![r].pc = "locked"]
  /\ UNCHANGED <<ledger, nextTxn, subStatus, bonus, settings>>

(* Mutant: done as soon as one of the ids is already unlocked.             *)
UnlockFilterAny(r) ==
  LET new == unlock[r].ids \ Unlocked(unlock[r].employer) IN
  /\ unlock[r].pc = "locked"
  /\ unlock' = [unlock EXCEPT ![r].pc = IF new # unlock[r].ids THEN "ok" ELSE "filtered",
                              ![r].fresh = new]
  /\ UNCHANGED <<ledger, nextTxn, subStatus, bonus, settings>>

(* Drop what is already unlocked; with nothing left the call succeeds.     *)
UnlockFilter(r) ==
  LET new == unlock[r].ids \ Unlocked(unlock[r].employer) IN
  /\ unlock[r].pc = "locked"
  /\ unlock' = [unlock EXCEPT ![r].pc = IF new = {} THEN "ok" ELSE "filtered",
                              ![r].fresh = new]
  /\ UNCHANGED <<ledger, nextTxn, subStatus, bonus, settings>>

(* A withdrawn submission among them fails the whole request.              *)
UnlockCheckWithdrawn(r) ==
  /\ unlock[r].pc = "filtered"
  /\ IF \E s \in unlock[r].fresh : subStatus[s] = "WITHDRAWN"
     THEN EndRequest(r)
     ELSE unlock' = [unlock EXCEPT ![r].pc = "checked"]
  /\ UNCHANGED <<ledger, nextTxn, subStatus, bonus, settings>>

(* Mutant: any credit will do.                                             *)
UnlockReadBalanceAny(r) ==
  /\ unlock[r].pc = "checked"
  /\ IF Balance(unlock[r].employer) < 1
     THEN EndRequest(r)
     ELSE unlock' = [unlock EXCEPT ![r].pc = "funded"]
  /\ UNCHANGED <<ledger, nextTxn, subStatus, bonus, settings>>

(* InsufficientCreditsError unless the balance covers every new unlock.    *)
UnlockReadBalance(r) ==
  /\ unlock[r].pc = "checked"
  /\ IF Balance(unlock[r].employer) < Cardinality(unlock[r].fresh)
     THEN EndRequest(r)
     ELSE unlock' = [unlock EXCEPT ![r].pc = "funded"]
  /\ UNCHANGED <<ledger, nextTxn, subStatus, bonus, settings>>

UnlockRows(e, txn, ids) == {LedgerRow(txn, "UNLOCK", e, -1, s, s) : s \in ids}

(* The INSERT and the COMMIT.  A submission deleted meanwhile fails the    *)
(* foreign key, one already unlocked fails the unique index: both abort.   *)
UnlockInsert(r) ==
  LET e == unlock[r].employer
      ids == unlock[r].fresh
  IN
  /\ unlock[r].pc = "funded"
  /\ IF (\E s \in ids : subStatus[s] = "DELETED") \/ ids \cap Unlocked(e) # {}
     THEN /\ EndRequest(r)
          /\ UNCHANGED <<ledger, nextTxn>>
     ELSE /\ ledger' = ledger \cup UnlockRows(e, nextTxn, ids)
          /\ nextTxn' = nextTxn + 1
          /\ unlock' = [unlock EXCEPT ![r].pc = "ok"]
  /\ UNCHANGED <<subStatus, bonus, settings>>

(* A lost connection or a crashed process: the transaction rolls back and  *)
(* its lock is released.  The employer gets no answer.                     *)
UnlockAbort(r) ==
  /\ unlock[r].pc \in TxPcs \cup {"owned"}
  /\ EndRequest(r)
  /\ UNCHANGED <<ledger, nextTxn, subStatus, bonus, settings>>

(* The 201 answer naming every requested id as unlocked.                   *)
UnlockReply(r) ==
  /\ unlock[r].pc = "ok"
  /\ EndRequest(r)
  /\ UNCHANGED <<ledger, nextTxn, subStatus, bonus, settings>>

-----------------------------------------------------------------------------
(* Signup bonus: the settings are read after the account was created, the  *)
(* row is inserted later, and the whole call is best effort.               *)

BonusRead(e) ==
  /\ bonus[e].pc = "new"
  /\ bonus' = [bonus EXCEPT ![e] =
                [pc |-> IF settings > 0 THEN "read" ELSE "done", amount |-> settings]]
  /\ UNCHANGED <<ledger, nextTxn, subStatus, unlock, settings>>

(* The unique index on the employer turns a second bonus into a no-op.     *)
BonusInsert(e) ==
  /\ bonus[e].pc = "read"
  /\ Holders(e) = {}
  /\ IF RowsOf(e, {"SIGNUP_BONUS"}) # {}
     THEN UNCHANGED <<ledger, nextTxn>>
     ELSE /\ ledger' = ledger \cup
               {LedgerRow(nextTxn, "SIGNUP_BONUS", e, bonus[e].amount, e, NoSubmission)}
          /\ nextTxn' = nextTxn + 1
  /\ bonus' = [bonus EXCEPT ![e].pc = "done"]
  /\ UNCHANGED <<subStatus, unlock, settings>>

(* grantSignupBonusSafely logs the failure; nothing ever retries it.       *)
BonusLost(e) ==
  /\ bonus[e].pc # "done"
  /\ bonus' = [bonus EXCEPT ![e].pc = "done"]
  /\ UNCHANGED <<ledger, nextTxn, subStatus, unlock, settings>>

UpdateSettings(amount) ==
  /\ settings' = amount
  /\ UNCHANGED <<ledger, nextTxn, subStatus, unlock, bonus>>

-----------------------------------------------------------------------------
(* What other components do to submissions meanwhile.  None of it waits    *)
(* for the employer's lock.                                                *)

(* SubmissionsService.withdraw                                             *)
Withdraw(s) ==
  /\ subStatus[s] = "LIVE"
  /\ subStatus' = [subStatus EXCEPT ![s] = "WITHDRAWN"]
  /\ UNCHANGED <<ledger, nextTxn, unlock, bonus, settings>>

(* A later updateSelectionStatus or reviewAntiCheatFlag, which overwrite   *)
(* any status.                                                             *)
Redecide(s) ==
  /\ subStatus[s] = "WITHDRAWN"
  /\ subStatus' = [subStatus EXCEPT ![s] = "LIVE"]
  /\ UNCHANGED <<ledger, nextTxn, unlock, bonus, settings>>

(* Mutant: the foreign key cascades.                                       *)
DeleteSubmissionCascade(s) ==
  /\ subStatus[s] # "DELETED"
  /\ subStatus' = [subStatus EXCEPT ![s] = "DELETED"]
  /\ ledger' = {row \in ledger : row.submission # s}
  /\ UNCHANGED <<nextTxn, unlock, bonus, settings>>

(* ON DELETE SET NULL                                                      *)
Erased(row, s) ==
  IF row.submission = s THEN [row EXCEPT !.submission = NoSubmission] ELSE row

(* A deleted job takes its submissions with it; ledger rows stay and lose  *)
(* their reference.                                                        *)
DeleteSubmission(s) ==
  /\ subStatus[s] # "DELETED"
  /\ subStatus' = [subStatus EXCEPT ![s] = "DELETED"]
  /\ ledger' = {Erased(row, s) : row \in ledger}
  /\ UNCHANGED <<nextTxn, unlock, bonus, settings>>

-----------------------------------------------------------------------------

LedgerInit ==
  /\ ledger = {}
  /\ nextTxn = 0
  /\ subStatus = [s \in Submissions |-> "LIVE"]
  /\ unlock = [r \in Requests |-> IdleRequest]
  /\ bonus = [e \in Employers |-> [pc |-> "new", amount |-> 0]]
  /\ settings = 0

UnlockStep(r) ==
  \/ UnlockLock(r)
  \/ UnlockFilter(r)
  \/ UnlockCheckWithdrawn(r)
  \/ UnlockReadBalance(r)
  \/ UnlockInsert(r)
  \/ UnlockReply(r)

LedgerNext ==
  \/ \E r \in Requests, e \in Employers, ids \in SUBSET Submissions :
       UnlockRequest(r, e, ids)
  \/ \E r \in Requests : UnlockStep(r) \/ UnlockAbort(r)
  \/ \E e \in Employers : BonusRead(e) \/ BonusInsert(e) \/ BonusLost(e)
  \/ \E amount \in BonusAmounts : UpdateSettings(amount)
  \/ \E s \in Submissions : Withdraw(s) \/ Redecide(s) \/ DeleteSubmission(s)
=============================================================================
