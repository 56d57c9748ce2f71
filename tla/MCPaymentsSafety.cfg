SPECIFICATION Spec
CONSTANTS
  e1 = e1
  Employers = {e1}
  Submissions = {s1, s2}
  Requests = {r1, r2}
  Owner <- OneOwner
  Purchases = {p1}
  Buyer <- OneBuyer
  PackCredits <- SingleCredit
  BonusAmounts = {0, 1}
  NoEmployer = NoEmployer
  NoSubmission = NoSubmission
INVARIANTS
  BalanceNonNegative
  FundedUnlockStillValid
  AnsweredUnlockIsPaid
  SucceededIffCredited
PROPERTIES
  AuditTrail
  ImplementsCreditAccount
