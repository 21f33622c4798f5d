SPECIFICATION Spec
CONSTANTS
  t1 = t1
  t2 = t2
  t3 = t3
  r1 = r1
  c2 = c2
  c3 = c3
  A1 = A1
  A2 = A2
  B2 = B2
  B3 = B3
  Genesis = Genesis
  NoBlock = NoBlock
  Txs <- MCTxs
  Outpoints <- MCOutpoints
  TxOf <- MCTxOf
  Kind <- MCKind
  Blocks <- MCBlocks
  Parent <- MCParent
  Height <- MCHeight
  BlockTxs <- MCBlockTxs
  Kind2 = "rank"
  Kind3 = "rank"
  BlockRange = 2
  Buried = 1
  QuietInit = FALSE
  CrashPhases <- MCSafePhases
  MaxNodeEvents = 7
  MaxCrashes = 1
CHECK_DEADLOCK FALSE
INVARIANT
  ReconciledHeightsStored
