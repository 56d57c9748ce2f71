SPECIFICATION Spec
CONSTANTS
  e1 = e1
  Employers = {e1}
  Submissions = {s1}
  Requests = {r1}
  Owner <- OneOwner
  Purchases = {p1}
  Buyer <- OneBuyer
  PackCredits <- SingleCredit
  BonusAmounts = {0, 1}
  NoEmployer = NoEmployer
  NoSubmission = NoSubmission
PROPERTIES
  WithdrawnIsNeverCharged
