SPECIFICATION Spec
CONSTANTS
  v1 = v1
  c1 = c1
  VoteTxs = {v1}
  CommentTxs = {c1}
  Outputs <- MCOutputs
  Sats <- MCSats
  MaxDay = 4
  MaxAdded = 3
  MaxBackfills = 1
  MaxFailures = 1
INVARIANTS
  StreakWithinLongest
  VotesAreKept
  StreakAgrees
  LongestAgrees
