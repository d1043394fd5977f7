SPECIFICATION Spec
CONSTANTS
  s1 = s1
  s2 = s2
  s3 = s3
  o1 = o1
  o2 = o2
  p1 = p1
  p2 = p2
  Uid = {1, 2, 3}
  Solver = {s1, s2, s3}
  Pair = {p1, p2}
  MaxWinners = 2
  Order = {o1, o2}
  UserOrders = {o1, o2}
  PairOf <- MCPairOf
  Scale = 100
  Auctions <- MCAuctions
  Replacements <- MCReplacements
  Removals <- MCRemovals
INVARIANT PoliciesChargeTheRest
INVARIANT OnlyTheBrokenAreDropped
INVARIANT WorseQuoteNeverCheaper
PROPERTY QuoteEffectApart
