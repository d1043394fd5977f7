SPECIFICATION Spec
CONSTANTS
  p = p
  q = q
  a = a
  b = b
  j = j
  s1 = s1
  s2 = s2
  Solver = {s1, s2}
  Uid <- MCUid
  Pair <- MCPair
  Order <- MCOrder
  UserOrders <- MCUserOrders
  PairOf <- MCPairOf
  MaxWinners = 2
  NBids = 2
  Windows <- TwoAuctions
  Scenarios <- FourScenarios
INVARIANT RecordedWinsOverEveryAuction
