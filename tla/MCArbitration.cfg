SPECIFICATION Spec
CONSTANTS
  Solver = {s1, s2, s3}
  Pair = {p, q, r}
  Core = {p, q}
  Uid <- MCUid
  Auctions <- MCAuctions
  MaxWinners = 2
  NBids = 3
  MaxTotal = 3
  MaxFee = 1
  Modes = {"score"}
SYMMETRY Symmetries
INVARIANT TypeOK
INVARIANT UniformClearing
INVARIANT EveryWinnerReferenced
INVARIANT ReferenceKeepsOthers
INVARIANT GuessIsProof
INVARIANT NeverLooserThanProtocol
INVARIANT NoFalseAlarm
PROPERTY ImplementsMechanism
