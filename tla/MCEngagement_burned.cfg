SPECIFICATION Spec
CONSTANTS
  v1 = v1
  c1 = c1
  VoteTxs = {v1}
  CommentTxs = {c1}
  Outputs <- MCOutputs
  Sats <- MCSats
  MaxDay = 3
  MaxAdded = 3
  MaxBackfills = 0
  MaxFailures = 0
INVARIANT
  BurnedContainsVotes
