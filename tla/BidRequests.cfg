SPECIFICATION MCSpec
CONSTANTS
  r1 = r1
  r2 = r2
  r3 = r3
  answerPlacement = answerPlacement
  nextStepPlacement = nextStepPlacement
  ad1 = ad1
  ad2 = ad2
  i1 = i1
  i2 = i2
  i3 = i3
  Requests = {r1, r2, r3}
  PlacementSet = {answerPlacement, nextStepPlacement}
  Scope <- OneNamed
  Ads = {ad1, ad2}
  Ranked <- OppositeRanking
  Score <- FirstAdScoresMore
  Instances = {i1, i2, i3}
  InstanceOf <- OnOwnInstance
  BudgetMode <- OneModeEach
  EventKinds = {"click", "postback_failed"}
  MaxEvents = 1
INVARIANTS AnswerIsRecorded MoneyFollowsAds
PROPERTIES EventsReachDelivery RequestsAnswered
\* The requests are few and the processes may die: the instance stops.
CHECK_DEADLOCK FALSE
