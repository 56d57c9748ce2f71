SPECIFICATION PeopleSpec
CONSTANTS
  Tasks = {refund, delivery}
  Keys = {k1, k2}
  Handlers = {h1, h2}
  NoTask = NoTask
  TurnCount <- ThreeTurns
  MaxSubmits = 2
  Emails = {"email"}
  MaxResends = 1
  MaxMinted = 4
  MaxSignIns = 4
  MaxSubmissions = 1
  MaxRequests = 6
  Amounts <- TwoAmounts
  Figures = {3330, 20000, 5005}
  MinorUnit = 10
  Queues <- ThreeTickets
  Interviews <- FiveQuestions
  Plan <- TwoSlots
  LlmScores = {10, 90}
  Drafts <- SixDrafts
  ScorePoints <- WeakAndStrong
  Authorised <- SmallCredit
  MaxAttempts = 3
  MaxFailures = 2
  DomainOf <- OneDomain
  Results <- GoodAndBad
  Recent = 1
  MaxTime = 1
  MaxReads = 2
  MaxChanges = 1
SYMMETRY Interchangeable
CHECK_DEADLOCK FALSE
INVARIANTS
  PeopleTypeOK
  AnsweredIsStored
  ClosedIsMarked
  CodeOpensOneSession
  SelectedWasTold
  ApplicantsHaveTitle
  KeyAgreesWithTheCase
  AnchorsPassTheirChecks
  HistoriesAgree
  NarrativeFitsNumbers
PROPERTIES
  ImplementsTranscript
  SpentResetLinkIsRefused
