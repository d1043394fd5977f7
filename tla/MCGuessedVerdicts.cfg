SPECIFICATION Spec
CONSTANTS
  Solver = {s1}
  Pair = {p, q, r}
  Core = {p, q, r}
  Uid <- MCUid
  Auctions <- MCAuctions
  MaxWinners = 2
  NBids = 3
  MaxTotal = 2
  MaxFee = 0
  Modes = {"score"}
SYMMETRY Symmetries
INVARIANT GuessedVerdictsAreGuesses
