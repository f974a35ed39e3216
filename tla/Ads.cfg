SPECIFICATION MCSpec
CONSTANTS
  c1 = c1
  c2 = c2
  c3 = c3
  p1 = p1
  p2 = p2
  i1 = i1
  i2 = i2
  Clicks = {c1, c2, c3}
  Postbacks = {p1, p2}
  AdOf <- MCAdOf
  ActorOf <- MCActorOf
  KeyOf <- MCKeyOf
  Instances = {i1, i2}
  Logged = {"ad1", "ad2"}
  DuplicateWindow = 2
  BurstWindow = 1
  BurstLimit = 1
  RiskOn <- OnFirst
  BudgetOn <- OnSecond
  MaxTime = 4
  MaxLives = 2
  Inventory = {1, 2, 3}
  Profiles <- MCProfiles
  Requested <- MCRequested
  LexicalTop = 2
  VectorTop = 2
  FinalTop = 2
  ScoreFloor = 2560
  Strict = 48
  Relaxed = 37
  MinLexical = 2
  MinVector = 28
  t1 = t1
  j1 = j1
  Turns = {t1}
  Jobs = {j1}
  Inputs <- MCInputs
  Orders <- MCOrders
  MaxRetries = 2
  Placements = {"here", "there"}
  MaxToggles = 1
INVARIANTS RiskRulesHold PostbackOnce ServedIsBest BidsPay ClientsTellTruth
PROPERTY TurnEnds
\* The calls are finitely many, and a placement is evaluated once: a run ends there.
CHECK_DEADLOCK FALSE
