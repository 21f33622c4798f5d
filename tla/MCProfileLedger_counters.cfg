SPECIFICATION Spec
CONSTANTS
  t1 = t1  t2 = t2  tc = tc  td = td  te = te
  r1 = r1  r2 = r2  r3 = r3  c1 = c1  c2 = c2  c3 = c3
  p1 = p1  p2 = p2  k1 = k1
  twitter = twitter
  Lotusia = Lotusia
  NoProfile = NoProfile
  NoPost = NoPost
  Txs <- MCTxs
  Ranks <- MCRanks
  Comments = {c1, c2, c3}
  TxOf <- MCTxOf
  Platforms = {twitter, Lotusia}
  Profiles = {p1, p2}
  Posts = {k1, c1, c2, c3}
  Target <- MCTarget
  Author <- MCAuthor
  Sats <- MCSats
  Sentiment <- MCSentiment
  MaxHeight = 2
  MaxBatches = 4
  MaxRestarts = 1
INVARIANTS
  PushesSucceed StatementsSucceed RankingIsNet CountersMatchOutputs
  RecordsMatchOutputs
CHECK_DEADLOCK FALSE
