SPECIFICATION Spec
CONSTANTS
  e1 = e1
  e2 = e2
  e3 = e3
  e4 = e4
  Estimator = {e1, e2, e3, e4}
  Requests <- MCRequests
  Removals <- MCRemovals
INVARIANT TypeOK
INVARIANT HorizonCoversCommit
INVARIANT ReplacementIsShown
INVARIANT UnaffectedSawTheSame
INVARIANT NeverABetterQuote
INVARIANT NoQuoteIsSilence
INVARIANT CommitBracketed
PROPERTY StreamsTheStanding
PROPERTY OrdersAreLinked
