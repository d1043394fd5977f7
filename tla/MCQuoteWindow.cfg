SPECIFICATION Spec
CONSTANTS
  e1 = e1
  e2 = e2
  e3 = e3
  s1 = s1
  s2 = s2
  Estimator = {e1, e2, e3}
  Address = {s1, s2}
  Market <- MCMarket
  SellMarket <- MCSellMarket
  PreCreation = 5
  PostCreation = 1
  RequoteBefore = 2
  RequoteAfter = 10
  SiblingSeconds = 2
  IdSpan = 5
  ImbalanceThreshold = 5
  CoverageStart = 50
  LinkStart = 100
  Ranking = "effective-sell"
  Windows <- MCWindows
  Removals <- MCRemovals
INVARIANT LadderAsArrived
INVARIANT EveryOrderAccounted
INVARIANT LinkedWhereRecorded
INVARIANT TakenIsWhatTheOrderCarries
INVARIANT RuleAccusesNobody
INVARIANT SharesAreShares
INVARIANT ChargedOnce
