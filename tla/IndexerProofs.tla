--------------------------- MODULE IndexerProofs ---------------------------
(***************************************************************************)
(* Proofs about the indexer, for every set of transactions, block tree,    *)
(* range size and bound.  The first half lets node events be lost while    *)
(* init() runs, and crashes fall anywhere; the second is about the indexer *)
(* against the node when no event of the node is lost: nothing changes     *)
(* while init() runs, and no crash falls between the two transactions of a *)
(* rewind.                                                                 *)
(***************************************************************************)
EXTENDS IndexerSync, SequenceTheorems, WellFoundedInduction, TLAPS

USE ConstantsAssumption DEF NoRow, Unconfirmed

-----------------------------------------------------------------------------
(* The inductive invariant.                                                *)

\* The database's unique keys on a block's height.
OneBlockPerHeight ==
  \A b, c \in blockTable : Height[b] = Height[c] => b = c

\* A transaction is in one block of the active chain at most.
MinedOnce ==
  \A i, j \in 1..Len(chain) :
    BlockTxs[chain[i]] \cap BlockTxs[chain[j]] # {} => i = j

\* Blocks are at their height in the active chain.
ChainHeights == \A i \in 1..Len(chain) : Height[chain[i]] = i

\* Memory is empty until the mempool is synced.
EmptyMemory ==
  phase \notin {"subscribe", "running", "disconnect"} =>
    mempool = {} /\ txidIndex = {}

\* The cleanup leaves no unconfirmed record, and nothing makes one before
\* the mempool is synced.
CleanedUp ==
  phase \in {"compare", "rewind", "delete", "sync", "mempool"} =>
    \A o \in Outpoints : rows[o] # Unconfirmed

\* init() holds a block from the comparison to the end of the block sync.
HoldsBlock ==
  phase \in {"compare", "rewind", "delete", "sync"} => current # NoBlock

\* Between the two transactions of a rewind its height has no record, so
\* that the cascade of the deleted block takes none uncounted.
NothingToCascade ==
  phase \in {"delete", "disconnect"} => \A o \in Outpoints : rows[o] # cursor

IInv ==
  /\ TypeOK
  /\ Ledger
  /\ CacheIsUnconfirmed
  /\ ConfirmedInItsBlock
  /\ WholeBlocks
  /\ RewindFindsItsBlock
  /\ OneBlockPerHeight
  /\ MinedOnce
  /\ ChainHeights
  /\ EmptyMemory
  /\ CleanedUp
  /\ HoldsBlock
  /\ NothingToCascade

\* The state the first process starts from: an empty database and node.
LEMMA InitInv == Init => IInv
  BY DEF Init, IInv, TypeOK, Phases, Ledger, Inserted, CacheIsUnconfirmed,
     ConfirmedInItsBlock, Recorded, WholeBlocks, RewindFindsItsBlock,
     OneBlockPerHeight, MinedOnce, ChainHeights, EmptyMemory, CleanedUp, HoldsBlock,
     NothingToCascade

-----------------------------------------------------------------------------
(* The end of the process, and the node.                                   *)

\* Every conjunct but the typing, when the process ends and the database and
\* the chain stay.
LEMMA ProcessEndsInv ==
  ASSUME IInv, ProcessEnds, UNCHANGED <<dbVars, nodeVars>>, crashes' \in Nat
  PROVE  IInv'
<1> USE DEF ProcessEnds, dbVars, nodeVars
<1>1. TypeOK'
  BY DEF IInv, TypeOK, Phases
<1>2. Ledger' /\ ConfirmedInItsBlock' /\ WholeBlocks' /\ OneBlockPerHeight'
  BY DEF IInv, Ledger, ConfirmedInItsBlock, WholeBlocks, OneBlockPerHeight, StoredAt
<1>3. MinedOnce' /\ ChainHeights'
  BY DEF IInv, MinedOnce, ChainHeights
<1>4. CacheIsUnconfirmed' /\ RewindFindsItsBlock' /\ EmptyMemory' /\ CleanedUp'
      /\ HoldsBlock' /\ NothingToCascade'
  BY DEF CacheIsUnconfirmed, RewindFindsItsBlock, EmptyMemory, CleanedUp,
     HoldsBlock, NothingToCascade
<1> QED BY <1>1, <1>2, <1>3, <1>4 DEF IInv

\* A step of init(), or a handler, that throws leaves the database as it was.
LEMMA ThrowsInv == IInv /\ Throws => IInv'
  BY ProcessEndsInv DEF Throws, IInv, TypeOK

\* A crash between two transactions leaves the database as it was.
LEMMA CrashInv == IInv /\ Crash => IInv'
  BY ProcessEndsInv DEF Crash, IInv, TypeOK

\* The invariant is about the node only in MinedOnce and ChainHeights.
LEMMA NodeKeepsInv ==
  ASSUME IInv, NodeMayChange, chain' \in Seq(Blocks), nodeMempool' \in SUBSET Txs,
         inbox' \in Seq(Messages), MinedOnce', ChainHeights'
  PROVE  IInv'
<1> USE DEF NodeMayChange, memVars, dbVars
<1>1. TypeOK'
  BY DEF IInv, TypeOK
<1>2. Ledger' /\ ConfirmedInItsBlock' /\ WholeBlocks' /\ OneBlockPerHeight'
  BY DEF IInv, Ledger, ConfirmedInItsBlock, WholeBlocks, OneBlockPerHeight, StoredAt
<1>3. CacheIsUnconfirmed' /\ RewindFindsItsBlock' /\ EmptyMemory' /\ CleanedUp'
      /\ HoldsBlock' /\ NothingToCascade'
  BY DEF IInv, CacheIsUnconfirmed, RewindFindsItsBlock, EmptyMemory, CleanedUp,
     HoldsBlock, NothingToCascade, StoredAt
<1> QED BY <1>1, <1>2, <1>3 DEF IInv

\* Publishing a message keeps the type of the inbox, subscribed or not.
LEMMA PublishType ==
  ASSUME TypeOK, NEW m \in Messages, Publish(m)
  PROVE  inbox' \in Seq(Messages)
  BY DEF TypeOK, Publish

\* A chain without its tip, as SubSeq builds it: its length and its blocks.
LEMMA FrontProperties ==
  ASSUME NEW S, NEW s \in Seq(S), Len(s) > 0
  PROVE  /\ SubSeq(s, 1, Len(s) - 1) \in Seq(S)
         /\ Len(SubSeq(s, 1, Len(s) - 1)) = Len(s) - 1
         /\ \A i \in 1..(Len(s) - 1) : SubSeq(s, 1, Len(s) - 1)[i] = s[i]
<1> DEFINE n == Len(s) - 1
           front == SubSeq(s, 1, n)
<1>1. n \in Nat /\ \A i \in 1..n : s[i] \in S
  OBVIOUS
<1> HIDE DEF n
<1>2. front \in Seq(S)
  BY <1>1, SubSeqProperties
<1>3. Len(front) = IF 1 <= n THEN n - 1 + 1 ELSE 0
  BY <1>1, SubSeqProperties
<1>4. \A i \in 1..(n - 1 + 1) : front[i] = s[1 + i - 1]
  BY <1>1, SubSeqProperties
<1> HIDE DEF front
<1>5. n \in Nat
  BY <1>1
<1>6. Len(front) = n
  BY ONLY <1>3, <1>5
<1>7. ASSUME NEW i \in 1..n PROVE front[i] = s[i]
  <2>1. i \in 1..(n - 1 + 1) /\ 1 + i - 1 = i
    BY ONLY <1>5, i \in 1..n
  <2> QED BY ONLY <1>4, <2>1
<1> QED BY <1>2, <1>6, <1>7 DEF front, n

\* The node's changes, published or lost: the database is not touched, and a
\* transaction is still mined in one block of the active chain at most.
LEMMA NodeStepInv == IInv /\ NodeStep => IInv'
<1> SUFFICES ASSUME IInv, NodeStep PROVE IInv'
  OBVIOUS
<1>1. CASE \E t \in Txs : NodeAddsTx(t)
  <2> PICK t \in Txs : NodeAddsTx(t)
    BY <1>1
  <2>1. [type |-> "mempooltxadd", tx |-> t] \in Messages
    BY DEF Messages
  <2>2. inbox' \in Seq(Messages)
    BY <2>1, PublishType DEF IInv, NodeAddsTx
  <2>3. /\ MinedOnce' /\ ChainHeights'
        /\ nodeMempool' \in SUBSET Txs /\ chain' \in Seq(Blocks)
    BY DEF IInv, TypeOK, MinedOnce, ChainHeights, NodeAddsTx
  <2> QED BY <2>2, <2>3, NodeKeepsInv DEF NodeAddsTx
<1>2. CASE \E t \in Txs : NodeRemovesTx(t)
  <2> PICK t \in Txs : NodeRemovesTx(t)
    BY <1>2
  <2>1. [type |-> "mempooltxrem", tx |-> t] \in Messages
    BY DEF Messages
  <2>2. inbox' \in Seq(Messages)
    BY <2>1, PublishType DEF IInv, NodeRemovesTx
  <2>3. /\ MinedOnce' /\ ChainHeights'
        /\ nodeMempool' \in SUBSET Txs /\ chain' \in Seq(Blocks)
    BY DEF IInv, TypeOK, MinedOnce, ChainHeights, NodeRemovesTx
  <2> QED BY <2>2, <2>3, NodeKeepsInv DEF NodeRemovesTx
<1>3. CASE \E b \in Blocks : NodeConnects(b)
  <2> PICK b \in Blocks : NodeConnects(b)
    BY <1>3
  <2>1. [type |-> "blkconnected", block |-> b] \in Messages
    BY DEF Messages
  <2>2. inbox' \in Seq(Messages)
    BY <2>1, PublishType DEF IInv, NodeConnects
  <2>3. nodeMempool' \in SUBSET Txs /\ chain' \in Seq(Blocks)
    BY DEF IInv, TypeOK, NodeConnects
  <2>4. MinedOnce'
    <3>1. chain' = Append(chain, b) /\ BlockTxs[b] \cap ChainTxs = {} /\ chain \in Seq(Blocks)
      BY DEF NodeConnects, IInv, TypeOK
    <3>2. \A i \in 1..Len(chain) : chain'[i] = chain[i] /\ BlockTxs[chain[i]] \cap BlockTxs[b] = {}
      BY <3>1 DEF ChainTxs
    <3>3. Len(chain') = Len(chain) + 1 /\ chain'[Len(chain) + 1] = b
      BY <3>1
    <3> QED BY <3>1, <3>2, <3>3 DEF MinedOnce, IInv
  <2>5. ChainHeights'
    <3>1. chain' = Append(chain, b) /\ Parent[b] = Tip /\ chain \in Seq(Blocks)
      BY DEF NodeConnects, IInv, TypeOK
    <3>2. Height[b] = Len(chain) + 1
      BY <3>1 DEF Tip, IInv, ChainHeights
    <3>3. \A i \in 1..Len(chain) : chain'[i] = chain[i] /\ Height[chain[i]] = i
      BY <3>1 DEF IInv, ChainHeights
    <3>4. Len(chain') = Len(chain) + 1 /\ chain'[Len(chain) + 1] = b
      BY <3>1
    <3> QED BY <3>1, <3>2, <3>3, <3>4 DEF ChainHeights
  <2> QED BY <2>2, <2>3, <2>4, <2>5, NodeKeepsInv DEF NodeConnects
<1>4. CASE NodeDisconnects
  <2>1. chain \in Seq(Blocks) /\ Len(chain) > 0
    BY <1>4 DEF IInv, TypeOK, NodeDisconnects
  <2>2. Tip \in Blocks
    BY <2>1 DEF Tip
  <2>3. [type |-> "blkdisconctd", block |-> Tip] \in Messages
    BY <2>2 DEF Messages
  <2>4. inbox' \in Seq(Messages)
    BY <1>4, <2>3, PublishType DEF IInv, NodeDisconnects
  <2>5. /\ chain' \in Seq(Blocks)
        /\ Len(chain') = Len(chain) - 1
        /\ \A i \in 1..Len(chain') : chain'[i] = chain[i]
    BY <1>4, <2>1, FrontProperties DEF NodeDisconnects
  <2>6. Len(chain) \in Nat /\ Len(chain') = Len(chain) - 1
    BY <2>1, <2>5
  <2>7. 1..Len(chain') \subseteq 1..Len(chain)
    BY ONLY <2>6
  <2>8. MinedOnce'
    <3>1. \A i \in 1..Len(chain') : i \in 1..Len(chain) /\ chain'[i] = chain[i]
      BY ONLY <2>5, <2>7
    <3> SUFFICES ASSUME NEW i \in 1..Len(chain'), NEW j \in 1..Len(chain'),
                        BlockTxs[chain'[i]] \cap BlockTxs[chain'[j]] # {}
                 PROVE  i = j
      BY DEF MinedOnce
    <3>2. BlockTxs[chain[i]] \cap BlockTxs[chain[j]] # {}
      BY <3>1
    <3> QED BY <3>1, <3>2 DEF MinedOnce, IInv
  <2>9. ChainHeights'
    <3> SUFFICES ASSUME NEW i \in 1..Len(chain') PROVE Height[chain'[i]] = i
      BY DEF ChainHeights
    <3>1. i \in 1..Len(chain) /\ chain'[i] = chain[i]
      BY ONLY <2>5, <2>7, i \in 1..Len(chain')
    <3>2. Height[chain[i]] = i
      BY <3>1 DEF IInv, ChainHeights
    <3> QED BY <3>1, <3>2
  <2>10. nodeMempool' \in SUBSET Txs
    BY <1>4 DEF NodeDisconnects, IInv, TypeOK
  <2> QED BY <1>4, <2>4, <2>5, <2>8, <2>10, <2>9, NodeKeepsInv DEF NodeDisconnects
<1> QED BY <1>1, <1>2, <1>3, <1>4 DEF NodeStep

-----------------------------------------------------------------------------
(* init().                                                                 *)

\* index.ts starts the process with empty memory.
LEMMA StartInv == IInv /\ Start => IInv'
<1> SUFFICES ASSUME IInv, Start PROVE IInv'
  OBVIOUS
<1> USE DEF Start, nodeVars, memVars, dbVars
<1>1. TypeOK' /\ Ledger' /\ ConfirmedInItsBlock' /\ WholeBlocks' /\ OneBlockPerHeight'
      /\ MinedOnce' /\ ChainHeights'
  BY DEF IInv, TypeOK, Phases, Ledger, ConfirmedInItsBlock, WholeBlocks,
     OneBlockPerHeight, MinedOnce, ChainHeights, StoredAt
<1>2. CacheIsUnconfirmed' /\ RewindFindsItsBlock' /\ EmptyMemory' /\ CleanedUp'
      /\ HoldsBlock' /\ NothingToCascade'
  BY DEF IInv, CacheIsUnconfirmed, RewindFindsItsBlock, EmptyMemory, CleanedUp,
     HoldsBlock, NothingToCascade
<1> QED BY <1>1, <1>2 DEF IInv

\* A rewind of a set of unconfirmed records, or of those of one height, keeps
\* the accounts.
LEMMA RewindInv ==
  ASSUME IInv, NEW Q \in SUBSET Outpoints,
         \A o \in Q \cap Inserted : rows[o] # NoRow,
         \/ \A o \in Q \cap Inserted : rows[o] = Unconfirmed
         \/ \E h \in Nat : Q = RowsAt(h),
         rows' = RowsAfterRewind(Q), applied' = CountsAfterRewind(Q),
         UNCHANGED blockTable
  PROVE  /\ rows' \in [Outpoints -> {NoRow, Unconfirmed} \cup Nat]
         /\ applied' \in [Outpoints -> Int]
         /\ Ledger' /\ ConfirmedInItsBlock' /\ WholeBlocks' /\ OneBlockPerHeight'
<1> USE DEF RowsAfterRewind, CountsAfterRewind
<1>1. /\ rows \in [Outpoints -> {NoRow, Unconfirmed} \cup Nat]
      /\ applied \in [Outpoints -> Int]
      /\ blockTable \in SUBSET Blocks
  BY DEF IInv, TypeOK
<1>2. /\ rows' \in [Outpoints -> {NoRow, Unconfirmed} \cup Nat]
      /\ applied' \in [Outpoints -> Int]
  BY <1>1
<1>3. Ledger'
  BY <1>1 DEF IInv, Ledger, Inserted
<1>4. ConfirmedInItsBlock'
  BY <1>1 DEF IInv, ConfirmedInItsBlock, Recorded, StoredAt
<1>5. WholeBlocks'
  <2> SUFFICES ASSUME NEW b \in blockTable
               PROVE  LET own == BlockOutpoints(b) \cap Inserted IN
                      \/ \A o \in own : rows'[o] = Height[b]
                      \/ \A o \in own : rows'[o] # Height[b]
    BY DEF WholeBlocks, BlockOutpoints, OutpointsOf
  <2>1. Height[b] \in Nat
    BY <1>1
  <2>2. Inserted \subseteq Recorded /\ Inserted \subseteq Outpoints
    BY DEF Inserted, Recorded
  <2>3. CASE \A o \in BlockOutpoints(b) \cap Inserted : rows[o] # Height[b]
    BY <1>1, <2>1, <2>2, <2>3
  <2>4. CASE \A o \in BlockOutpoints(b) \cap Inserted : rows[o] = Height[b]
    <3>1. CASE \A o \in Q \cap Inserted : rows[o] = Unconfirmed
      BY <1>1, <2>1, <2>2, <2>4, <3>1
    <3>2. CASE \E h \in Nat : Q = RowsAt(h)
      BY <1>1, <2>1, <2>2, <2>4, <3>2 DEF RowsAt
    <3> QED BY <3>1, <3>2
  <2> QED BY <2>3, <2>4 DEF IInv, WholeBlocks
<1>6. OneBlockPerHeight'
  BY DEF IInv, OneBlockPerHeight
<1> QED BY <1>2, <1>3, <1>4, <1>5, <1>6

\* The cleanup of init() takes the unconfirmed records and their increments.
LEMMA CleanupInv == IInv /\ Cleanup => IInv'
<1> SUFFICES ASSUME IInv, Cleanup PROVE IInv'
  OBVIOUS
<1>0. TypeOK /\ UnconfirmedRows = {o \in Outpoints : rows[o] = Unconfirmed}
  BY DEF IInv, UnconfirmedRows, RowsAt
<1>1. /\ rows' \in [Outpoints -> {NoRow, Unconfirmed} \cup Nat]
      /\ applied' \in [Outpoints -> Int]
      /\ Ledger' /\ ConfirmedInItsBlock' /\ WholeBlocks' /\ OneBlockPerHeight'
  BY <1>0, RewindInv DEF Cleanup
<1>2. PICK b \in Blocks \cup {NoBlock} :
        /\ IsHighest(b, blockTable)
        /\ current' = IF b = NoBlock THEN Genesis ELSE b
        /\ cursor' = IF b = NoBlock THEN 0 ELSE Height[b]
  BY DEF Cleanup
<1>3. current' \in Blocks \cup {Genesis} /\ cursor' = Height[current'] /\ cursor' \in Nat
  BY <1>2
<1>4. TypeOK'
  BY <1>0, <1>1, <1>3 DEF Cleanup, nodeVars, memVars, TypeOK, Phases
<1>5. RewindFindsItsBlock'
  <2>1. \A h \in Height[current']..cursor' : h > 0 => StoredAt(h) # {}
    <3> SUFFICES ASSUME NEW h \in Height[current']..cursor', h > 0
                 PROVE  StoredAt(h) # {}
      OBVIOUS
    <3>1. h = Height[current'] /\ b # NoBlock /\ current' = b
      BY <1>2, <1>3
    <3> QED BY <1>0, <1>2, <3>1 DEF IsHighest, StoredAt, TypeOK
  <2> QED BY <2>1 DEF Cleanup, RewindFindsItsBlock, StoredAt
<1>6. CleanedUp'
  BY <1>0, <1>1 DEF Cleanup, CleanedUp, RowsAfterRewind
<1>7. MinedOnce' /\ ChainHeights' /\ EmptyMemory' /\ HoldsBlock' /\ NothingToCascade' /\ CacheIsUnconfirmed'
  BY <1>3 DEF IInv, Cleanup, nodeVars, memVars, MinedOnce, ChainHeights, EmptyMemory, HoldsBlock,
     NothingToCascade, CacheIsUnconfirmed
<1> QED BY <1>1, <1>4, <1>5, <1>6, <1>7 DEF IInv

\* Each level of getBestBlock steps on a stored height, so that the heights
\* between the block it holds and the checkpoint have no gap.
LEMMA GetBestBlockInv == IInv /\ GetBestBlock => IInv'
<1> SUFFICES ASSUME IInv, GetBestBlock PROVE IInv'
  OBVIOUS
<1>0. TypeOK /\ phase = "compare" /\ current \in Blocks \cup {Genesis} /\ cursor \in Nat
  BY DEF IInv, GetBestBlock, HoldsBlock, TypeOK
<1>1. CASE Throws
  BY <1>1, ThrowsInv
<1>2. CASE /\ phase' = IF cursor > Height[current] THEN "rewind" ELSE "sync"
           /\ UNCHANGED <<nodeVars, inbox, current, cursor, memVars, dbVars, crashes>>
  <2> USE DEF nodeVars, memVars, dbVars
  <2>1. TypeOK' /\ Ledger' /\ ConfirmedInItsBlock' /\ WholeBlocks' /\ OneBlockPerHeight'
        /\ MinedOnce' /\ ChainHeights'
    BY <1>2 DEF IInv, TypeOK, Phases, Ledger, ConfirmedInItsBlock, WholeBlocks,
       OneBlockPerHeight, MinedOnce, ChainHeights, StoredAt
  <2>2. RewindFindsItsBlock'
    BY <1>0, <1>2 DEF IInv, RewindFindsItsBlock, StoredAt
  <2>3. CacheIsUnconfirmed' /\ EmptyMemory' /\ CleanedUp' /\ HoldsBlock' /\ NothingToCascade'
    BY <1>0, <1>2 DEF IInv, CacheIsUnconfirmed, EmptyMemory, CleanedUp, HoldsBlock,
       NothingToCascade
  <2> QED BY <2>1, <2>2, <2>3 DEF IInv
<1>3. CASE /\ \E b \in StoredBelow(current) : current' = b
           /\ UNCHANGED <<nodeVars, inbox, phase, cursor, memVars, dbVars, crashes>>
  <2> USE DEF nodeVars, memVars, dbVars
  <2>0. current' \in blockTable /\ Height[current'] = Height[current] - 1
    BY <1>3 DEF StoredBelow, StoredAt
  <2>1. TypeOK' /\ Ledger' /\ ConfirmedInItsBlock' /\ WholeBlocks' /\ OneBlockPerHeight'
        /\ MinedOnce' /\ ChainHeights'
    BY <1>3, <2>0 DEF IInv, TypeOK, Phases, Ledger, ConfirmedInItsBlock, WholeBlocks,
       OneBlockPerHeight, MinedOnce, ChainHeights, StoredAt
  <2>2. RewindFindsItsBlock'
    <3>1. Height[current] \in Nat /\ Height[current'] \in Nat
      BY <1>0, <2>0 DEF TypeOK
    <3>2. \A h \in Height[current']..cursor : h > 0 => StoredAt(h) # {}
      <4> SUFFICES ASSUME NEW h \in Height[current']..cursor, h > 0
                   PROVE  StoredAt(h) # {}
        OBVIOUS
      <4>1. CASE h = Height[current']
        BY <1>0, <2>0, <4>1 DEF StoredAt, TypeOK
      <4>2. CASE h # Height[current']
        <5>1. h \in Height[current]..cursor
          BY <1>0, <2>0, <3>1, <4>2
        <5> QED BY <1>0, <5>1 DEF IInv, RewindFindsItsBlock
      <4> QED BY <4>1, <4>2
    <3> QED BY <1>0, <1>3, <3>2 DEF RewindFindsItsBlock, StoredAt
  <2>3. CacheIsUnconfirmed' /\ EmptyMemory' /\ CleanedUp' /\ HoldsBlock' /\ NothingToCascade'
    BY <1>0, <1>3, <2>0 DEF IInv, TypeOK, CacheIsUnconfirmed, EmptyMemory, CleanedUp,
       HoldsBlock, NothingToCascade
  <2> QED BY <2>1, <2>2, <2>3 DEF IInv
<1> QED BY <1>1, <1>2, <1>3 DEF GetBestBlock

\* The two transactions of rewindBlock(h).
LEMMA RewindsRecordsInv ==
  ASSUME IInv, NEW h \in Nat, RewindsRecords(h)
  PROVE  /\ rows' \in [Outpoints -> {NoRow, Unconfirmed} \cup Nat]
         /\ applied' \in [Outpoints -> Int]
         /\ Ledger' /\ ConfirmedInItsBlock' /\ WholeBlocks' /\ OneBlockPerHeight'
         /\ \A o \in Outpoints : rows'[o] # h
         /\ \A o \in Outpoints : rows'[o] = Unconfirmed <=> rows[o] = Unconfirmed
<1>1. RowsAt(h) \in SUBSET Outpoints /\ \A o \in RowsAt(h) : rows[o] # NoRow
  BY DEF RowsAt
<1>2. /\ rows' \in [Outpoints -> {NoRow, Unconfirmed} \cup Nat]
      /\ applied' \in [Outpoints -> Int]
      /\ Ledger' /\ ConfirmedInItsBlock' /\ WholeBlocks' /\ OneBlockPerHeight'
  BY <1>1, RewindInv DEF RewindsRecords
<1>3. \A o \in Outpoints : rows'[o] = IF rows[o] = h THEN NoRow ELSE rows[o]
  BY DEF RewindsRecords, RowsAfterRewind, RowsAt
<1> QED BY <1>2, <1>3

\* Deleting the block of a height whose records are gone takes no record with
\* it, and no confirmed record loses its block.
LEMMA DeletesBlockInv ==
  ASSUME IInv, NEW h \in Nat, DeletesBlock(h), \A o \in Outpoints : rows[o] # h
  PROVE  /\ rows' = rows
         /\ blockTable' \in SUBSET Blocks
         /\ Ledger' /\ ConfirmedInItsBlock' /\ WholeBlocks' /\ OneBlockPerHeight'
<1>1. rows' = rows /\ applied' = applied /\ blockTable' = blockTable \ StoredAt(h)
  BY DEF IInv, TypeOK, DeletesBlock, RowsAfterRewind, RowsAt
<1>2. blockTable' \in SUBSET Blocks
  BY <1>1 DEF IInv, TypeOK
<1>3. Ledger' /\ WholeBlocks' /\ OneBlockPerHeight'
  BY <1>1 DEF IInv, Ledger, WholeBlocks, OneBlockPerHeight
<1>4. ConfirmedInItsBlock'
  BY <1>1 DEF IInv, TypeOK, ConfirmedInItsBlock, Recorded, StoredAt
<1> QED BY <1>1, <1>2, <1>3, <1>4

\* rewindBlock in init(), first transaction.
LEMMA InitRewindRecordsInv == IInv /\ InitRewindRecords => IInv'
<1> SUFFICES ASSUME IInv, InitRewindRecords PROVE IInv'
  OBVIOUS
<1>0. TypeOK /\ cursor \in Nat /\ RewindsRecords(cursor)
  BY DEF IInv, TypeOK, InitRewindRecords
<1>1. /\ rows' \in [Outpoints -> {NoRow, Unconfirmed} \cup Nat]
      /\ applied' \in [Outpoints -> Int]
      /\ Ledger' /\ ConfirmedInItsBlock' /\ WholeBlocks' /\ OneBlockPerHeight'
      /\ \A o \in Outpoints : rows'[o] # cursor
      /\ \A o \in Outpoints : rows'[o] = Unconfirmed <=> rows[o] = Unconfirmed
  BY <1>0, RewindsRecordsInv
<1> USE DEF InitRewindRecords, RewindsRecords, nodeVars, memVars
<1>2. TypeOK'
  BY <1>0, <1>1 DEF TypeOK, Phases
<1>3. RewindFindsItsBlock'
  BY DEF IInv, RewindFindsItsBlock, StoredAt
<1>4. CleanedUp' /\ NothingToCascade'
  BY <1>1 DEF IInv, CleanedUp, NothingToCascade
<1>5. MinedOnce' /\ ChainHeights' /\ EmptyMemory' /\ HoldsBlock' /\ CacheIsUnconfirmed'
  BY DEF IInv, MinedOnce, ChainHeights, EmptyMemory, HoldsBlock, CacheIsUnconfirmed
<1> QED BY <1>1, <1>2, <1>3, <1>4, <1>5 DEF IInv

\* rewindBlock in init(), second transaction.
LEMMA InitDeleteBlockInv == IInv /\ InitDeleteBlock => IInv'
<1> SUFFICES ASSUME IInv, InitDeleteBlock PROVE IInv'
  OBVIOUS
<1>0. TypeOK /\ cursor \in Nat /\ DeletesBlock(cursor) /\ phase = "delete"
  BY DEF IInv, TypeOK, InitDeleteBlock
<1>1. /\ rows' = rows
      /\ blockTable' \in SUBSET Blocks
      /\ Ledger' /\ ConfirmedInItsBlock' /\ WholeBlocks' /\ OneBlockPerHeight'
  BY <1>0, DeletesBlockInv DEF IInv, NothingToCascade
<1>2. current \in Blocks \cup {Genesis} /\ Height[current] \in Nat /\ cursor > Height[current]
  BY <1>0 DEF IInv, HoldsBlock, TypeOK, RewindFindsItsBlock
<1> USE DEF InitDeleteBlock, DeletesBlock, nodeVars, memVars
<1>3. TypeOK'
  BY <1>0, <1>1, <1>2 DEF TypeOK, Phases
<1>4. RewindFindsItsBlock'
  <2>1. \A h \in Height[current]..(cursor - 1) : h > 0 => StoredAt(h)' # {}
    <3> SUFFICES ASSUME NEW h \in Height[current]..(cursor - 1), h > 0
                 PROVE  StoredAt(h)' # {}
      OBVIOUS
    <3>1. StoredAt(h) # {}
      BY <1>0, <1>2 DEF IInv, RewindFindsItsBlock
    <3>2. StoredAt(h)' = StoredAt(h)
      BY <1>0, <1>2 DEF StoredAt
    <3> QED BY <3>1, <3>2
  <2> QED BY <2>1, <1>0, <1>2 DEF RewindFindsItsBlock
<1>5. CleanedUp' /\ NothingToCascade'
  BY <1>0, <1>1 DEF IInv, CleanedUp, NothingToCascade
<1>6. MinedOnce' /\ ChainHeights' /\ EmptyMemory' /\ HoldsBlock' /\ CacheIsUnconfirmed'
  BY <1>0 DEF IInv, MinedOnce, ChainHeights, EmptyMemory, HoldsBlock, CacheIsUnconfirmed
<1> QED BY <1>1, <1>3, <1>4, <1>5, <1>6 DEF IInv

\* An upsert of new outputs, as unconfirmed records or at a height that no
\* stored block has.
LEMMA UpsertCounts ==
  ASSUME IInv, NEW Q \in SUBSET Outpoints, CanUpsert(Q),
         applied' = CountsAfterUpsert(Q),
         rows' \in [Outpoints -> {NoRow, Unconfirmed} \cup Nat],
         \A o \in Inserted : rows'[o] = NoRow <=> (rows[o] = NoRow /\ o \notin Q)
  PROVE  applied' \in [Outpoints -> Int] /\ Ledger'
  BY DEF IInv, TypeOK, Ledger, CanUpsert, CountsAfterUpsert, Inserted

\* A range of blocks saved by initSyncBlocks is whole, each of its records at
\* the height of its block.
LEMMA InitSyncBlocksInv == IInv /\ InitSyncBlocks => IInv'
<1> SUFFICES ASSUME IInv, InitSyncBlocks PROVE IInv'
  OBVIOUS
<1> DEFINE range == SyncRange
           queue == UNION {BlockOutpoints(b) : b \in range}
<1>1. CASE Throws
  BY <1>1, ThrowsInv
<1>2. CASE ~Throws
  <2>0. TypeOK /\ phase = "sync" /\ current \in Blocks \cup {Genesis} /\ Height[current] \in Nat
    BY DEF IInv, InitSyncBlocks, HoldsBlock, TypeOK
  <2>1. /\ \A b \in range : StoredAt(Height[b]) = {}
        /\ CanUpsert(queue)
        /\ blockTable' = blockTable \cup range
        /\ rows' = [o \in Outpoints |->
                      IF o \in queue \cap Recorded /\ rows[o] = NoRow
                      THEN SyncHeight(range, o) ELSE rows[o]]
        /\ applied' = CountsAfterUpsert(queue)
        /\ current' = IF SyncLength = 0 THEN current ELSE chain[Height[current] + SyncLength]
        /\ \/ UNCHANGED <<phase, checkpoint>>
           \/ phase' = "mempool" /\ checkpoint' = current'
        /\ UNCHANGED <<nodeVars, inbox, cursor, mempool, txidIndex, crashes>>
    BY <1>2 DEF InitSyncBlocks
  <2>2. /\ SyncLength \in Nat
        /\ \A i \in 1..SyncLength : Height[current] + i \in 1..Len(chain)
    <3> DEFINE above == Len(chain) - Height[current]
    <3>1. above \in Int /\ Len(chain) \in Nat
      BY <2>0 DEF TypeOK
    <3>2. SyncLength = IF above > BlockRange THEN BlockRange
                       ELSE IF above > 0 THEN above ELSE 0
      BY DEF SyncLength
    <3> QED BY <2>0, <3>1, <3>2
  <2>3. range \subseteq Blocks /\ current' \in Blocks \cup {Genesis}
    <3>1. \A i \in 1..SyncLength : chain[Height[current] + i] \in Blocks
      BY <2>0, <2>2 DEF TypeOK
    <3>2. range \subseteq Blocks
      BY <3>1 DEF SyncRange
    <3>3. current' \in Blocks \cup {Genesis}
      BY <2>0, <2>1, <2>2, <3>1
    <3> QED BY <3>2, <3>3
  <2>4. \A b, c \in range : /\ BlockTxs[b] \cap BlockTxs[c] # {} => b = c
                            /\ Height[b] = Height[c] => b = c
    <3> SUFFICES ASSUME NEW b \in range, NEW c \in range
                 PROVE  /\ BlockTxs[b] \cap BlockTxs[c] # {} => b = c
                        /\ Height[b] = Height[c] => b = c
      OBVIOUS
    <3>1. PICK i \in 1..SyncLength : b = chain[Height[current] + i]
      BY DEF SyncRange
    <3>2. PICK j \in 1..SyncLength : c = chain[Height[current] + j]
      BY DEF SyncRange
    <3> DEFINE m == Height[current] + i
               n == Height[current] + j
    <3>3. m \in 1..Len(chain) /\ n \in 1..Len(chain) /\ b = chain[m] /\ c = chain[n]
      BY <2>2, <3>1, <3>2
    <3> HIDE DEF m, n, range
    <3>4. MinedOnce /\ ChainHeights
      BY DEF IInv
    <3> QED BY <3>3, <3>4 DEF MinedOnce, ChainHeights
  <2>5. queue \subseteq Outpoints
    BY DEF BlockOutpoints, OutpointsOf
  <2>6. \A o \in queue : /\ BlockIn(range, o) \in range
                         /\ o \in BlockOutpoints(BlockIn(range, o))
                         /\ SyncHeight(range, o) = Height[BlockIn(range, o)]
                         /\ SyncHeight(range, o) \in Nat
    BY <2>3 DEF BlockIn, SyncHeight
  <2>7. rows' \in [Outpoints -> {NoRow, Unconfirmed} \cup Nat]
    BY <2>0, <2>1, <2>6 DEF TypeOK
  <2>8. applied' \in [Outpoints -> Int] /\ Ledger'
    <3>1. \A o \in Inserted : rows'[o] = NoRow <=> (rows[o] = NoRow /\ o \notin queue)
      BY <2>1, <2>6 DEF Inserted, Recorded
    <3> QED BY <2>1, <2>5, <2>7, <3>1, UpsertCounts
  <2>9. TypeOK'
    BY <2>0, <2>1, <2>3, <2>7, <2>8 DEF TypeOK, Phases, nodeVars
  <2>10. ConfirmedInItsBlock'
    <3> SUFFICES ASSUME NEW o \in Recorded, rows'[o] >= 0
                 PROVE  \E b \in blockTable' : Height[b] = rows'[o] /\ o \in BlockOutpoints(b)
      BY DEF ConfirmedInItsBlock, StoredAt, BlockOutpoints, OutpointsOf
    <3>1. CASE o \in queue /\ rows[o] = NoRow
      BY <2>1, <2>6, <3>1 DEF Recorded
    <3>2. CASE ~(o \in queue /\ rows[o] = NoRow)
      BY <2>1, <3>2 DEF IInv, ConfirmedInItsBlock, StoredAt, Recorded
    <3> QED BY <3>1, <3>2
  <2>11. WholeBlocks'
    <3> SUFFICES ASSUME NEW b \in blockTable'
                 PROVE  LET own == BlockOutpoints(b) \cap Inserted IN
                        \/ \A o \in own : rows'[o] = Height[b]
                        \/ \A o \in own : rows'[o] # Height[b]
      BY DEF WholeBlocks, BlockOutpoints, OutpointsOf
    <3>0. b \in Blocks /\ Height[b] \in Nat
      BY <2>0, <2>1, <2>3 DEF TypeOK
    <3>1. CASE b \in range
      <4> SUFFICES ASSUME NEW o \in BlockOutpoints(b) \cap Inserted
                   PROVE  rows'[o] = Height[b]
        OBVIOUS
      <4>1. o \in queue /\ rows[o] = NoRow /\ o \in Recorded /\ o \in Outpoints
        BY <2>1, <3>1 DEF CanUpsert, Inserted, Recorded
      <4>2. TxOf[o] \in BlockTxs[b] /\ TxOf[o] \in BlockTxs[BlockIn(range, o)]
        BY <2>6, <4>1 DEF BlockOutpoints, OutpointsOf
      <4>3. BlockIn(range, o) = b
        BY <2>4, <2>6, <3>1, <4>1, <4>2
      <4> QED BY <2>1, <2>6, <4>1, <4>3
    <3>2. CASE b \notin range
      <4>1. b \in blockTable
        BY <2>1, <3>2
      <4>2. \A o \in Outpoints : o \in queue => SyncHeight(range, o) # Height[b]
        BY <2>1, <2>6, <4>1 DEF StoredAt
      <4>3. \A o \in Outpoints : rows'[o] = Height[b] <=> rows[o] = Height[b]
        BY <2>1, <2>6, <3>0, <4>2
      <4>4. Inserted \subseteq Outpoints
        BY DEF Inserted
      <4> QED BY <4>1, <4>3, <4>4 DEF IInv, WholeBlocks
    <3> QED BY <3>1, <3>2
  <2>12. OneBlockPerHeight'
    BY <2>1, <2>4 DEF IInv, OneBlockPerHeight, StoredAt
  <2>13. CleanedUp'
    BY <2>0, <2>1, <2>6 DEF IInv, CleanedUp
  <2>14. MinedOnce' /\ ChainHeights' /\ EmptyMemory' /\ HoldsBlock' /\ CacheIsUnconfirmed'
         /\ RewindFindsItsBlock' /\ NothingToCascade'
    BY <2>0, <2>1, <2>3 DEF IInv, nodeVars, MinedOnce, ChainHeights, EmptyMemory, HoldsBlock,
       CacheIsUnconfirmed, RewindFindsItsBlock, NothingToCascade
  <2> QED BY <2>8, <2>9, <2>10, <2>11, <2>12, <2>13, <2>14 DEF IInv
<1> QED BY <1>1, <1>2

\* An upsert of unconfirmed records.
LEMMA UnconfirmedUpsertInv ==
  ASSUME IInv, NEW Q \in SUBSET Outpoints, CanUpsert(Q),
         rows' = RowsAfterUpsert(Q, Unconfirmed), applied' = CountsAfterUpsert(Q),
         UNCHANGED blockTable
  PROVE  /\ rows' \in [Outpoints -> {NoRow, Unconfirmed} \cup Nat]
         /\ applied' \in [Outpoints -> Int]
         /\ Ledger' /\ ConfirmedInItsBlock' /\ WholeBlocks' /\ OneBlockPerHeight'
         /\ \A o \in Outpoints : \A h \in Nat : rows'[o] = h <=> rows[o] = h
         /\ \A o \in Inserted : rows'[o] = Unconfirmed <=> (rows[o] = Unconfirmed \/ o \in Q)
<1>0. TypeOK
  BY DEF IInv
<1>1. \A o \in Outpoints : rows'[o] = IF o \in Q \cap Recorded /\ rows[o] = NoRow
                                      THEN Unconfirmed ELSE rows[o]
  BY DEF RowsAfterUpsert
<1>2. rows' \in [Outpoints -> {NoRow, Unconfirmed} \cup Nat]
  BY <1>0 DEF TypeOK, RowsAfterUpsert
<1>3. applied' \in [Outpoints -> Int] /\ Ledger'
  <2>1. \A o \in Inserted : rows'[o] = NoRow <=> (rows[o] = NoRow /\ o \notin Q)
    BY <1>1 DEF Inserted, Recorded
  <2> QED BY <1>2, <2>1, UpsertCounts
<1>4. \A o \in Outpoints : \A h \in Nat : rows'[o] = h <=> rows[o] = h
  BY <1>1
<1>5. ConfirmedInItsBlock'
  BY <1>1, <1>2 DEF IInv, ConfirmedInItsBlock, StoredAt, Recorded
<1>6. WholeBlocks' /\ OneBlockPerHeight'
  <2>1. \A b \in blockTable : Height[b] \in Nat
    BY <1>0 DEF TypeOK
  <2>2. Inserted \subseteq Outpoints
    BY DEF Inserted
  <2> QED BY <1>4, <2>1, <2>2 DEF IInv, WholeBlocks, OneBlockPerHeight
<1>7. \A o \in Inserted : rows'[o] = Unconfirmed <=> (rows[o] = Unconfirmed \/ o \in Q)
  BY <1>1 DEF CanUpsert, Inserted, Recorded
<1> QED BY <1>2, <1>3, <1>4, <1>5, <1>6, <1>7

\* The mempool sync fills an empty cache.
LEMMA InitSyncMempoolInv == IInv /\ InitSyncMempool => IInv'
<1> SUFFICES ASSUME IInv, InitSyncMempool PROVE IInv'
  OBVIOUS
<1> DEFINE queue == OutpointsOf(nodeMempool)
<1>1. CASE Throws
  BY <1>1, ThrowsInv
<1>2. CASE ~Throws
  <2>0. TypeOK /\ phase = "mempool" /\ queue \in SUBSET Outpoints
        /\ \A o \in Outpoints : rows[o] # Unconfirmed
    BY DEF IInv, InitSyncMempool, CleanedUp, OutpointsOf
  <2>1. /\ CanUpsert(queue)
        /\ rows' = RowsAfterUpsert(queue, Unconfirmed)
        /\ applied' = CountsAfterUpsert(queue)
        /\ mempool' = queue /\ txidIndex' = queue
        /\ phase' = "subscribe"
        /\ UNCHANGED <<nodeVars, inbox, current, cursor, checkpoint, blockTable, crashes>>
    BY <1>2 DEF InitSyncMempool
  <2> HIDE DEF queue
  <2>2. /\ rows' \in [Outpoints -> {NoRow, Unconfirmed} \cup Nat]
        /\ applied' \in [Outpoints -> Int]
        /\ Ledger' /\ ConfirmedInItsBlock' /\ WholeBlocks' /\ OneBlockPerHeight'
        /\ \A o \in Inserted : rows'[o] = Unconfirmed <=> (rows[o] = Unconfirmed \/ o \in queue)
    BY <2>0, <2>1, UnconfirmedUpsertInv
  <2>3. TypeOK'
    BY <2>0, <2>1, <2>2 DEF TypeOK, Phases, nodeVars
  <2>4. CacheIsUnconfirmed'
    BY <2>0, <2>1, <2>2 DEF CacheIsUnconfirmed, Inserted
  <2>5. MinedOnce' /\ ChainHeights' /\ EmptyMemory' /\ HoldsBlock' /\ CleanedUp'
        /\ RewindFindsItsBlock' /\ NothingToCascade'
    BY <2>1 DEF IInv, nodeVars, MinedOnce, ChainHeights, EmptyMemory, HoldsBlock,
       CleanedUp, RewindFindsItsBlock, NothingToCascade
  <2> QED BY <2>2, <2>3, <2>4, <2>5 DEF IInv
<1> QED BY <1>1, <1>2

\* The subscription changes neither the database nor the cache.
LEMMA SubscribeInv == IInv /\ Subscribe => IInv'
<1> SUFFICES ASSUME IInv, Subscribe PROVE IInv'
  OBVIOUS
<1> USE DEF Subscribe, nodeVars, memVars, dbVars
<1>1. TypeOK' /\ Ledger' /\ ConfirmedInItsBlock' /\ WholeBlocks' /\ OneBlockPerHeight'
      /\ MinedOnce' /\ ChainHeights'
  BY DEF IInv, TypeOK, Phases, Ledger, ConfirmedInItsBlock, WholeBlocks,
     OneBlockPerHeight, MinedOnce, ChainHeights, StoredAt
<1>2. CacheIsUnconfirmed' /\ RewindFindsItsBlock' /\ EmptyMemory' /\ CleanedUp'
      /\ HoldsBlock' /\ NothingToCascade'
  BY DEF IInv, CacheIsUnconfirmed, RewindFindsItsBlock, EmptyMemory, CleanedUp,
     HoldsBlock, NothingToCascade
<1> QED BY <1>1, <1>2 DEF IInv

-----------------------------------------------------------------------------
(* The handlers.                                                           *)

\* What a handler takes from the inbox is a message, and the rest is an inbox.
LEMMA HeadType ==
  ASSUME TypeOK, inbox # <<>>
  PROVE  /\ Tail(inbox) \in Seq(Messages)
         /\ Head(inbox).type \in {"mempooltxadd", "mempooltxrem"} => Head(inbox).tx \in Txs
         /\ Head(inbox).type \in {"blkconnected", "blkdisconctd"} => Head(inbox).block \in Blocks
<1>1. Head(inbox) \in Messages /\ Tail(inbox) \in Seq(Messages)
  BY HeadTailProperties DEF TypeOK
<1> QED BY <1>1 DEF Messages

\* New outputs enter the cache and the database together.
LEMMA MempoolTxAddInv == IInv /\ nngMempoolTxAdd => IInv'
<1> SUFFICES ASSUME IInv, nngMempoolTxAdd PROVE IInv'
  OBVIOUS
<1> DEFINE queue == OutpointsOf({Head(inbox).tx})
<1>1. CASE Throws
  BY <1>1, ThrowsInv
<1>2. CASE ~Throws
  <2>0. TypeOK /\ phase = "running" /\ inbox # <<>> /\ queue \in SUBSET Outpoints
    BY DEF IInv, nngMempoolTxAdd, Receives, OutpointsOf
  <2>1. /\ CanUpsert(queue)
        /\ mempool' = mempool \cup queue /\ txidIndex' = txidIndex \cup queue
        /\ rows' = RowsAfterUpsert(queue, Unconfirmed)
        /\ applied' = CountsAfterUpsert(queue)
        /\ inbox' = Tail(inbox)
        /\ UNCHANGED <<nodeVars, phase, current, cursor, checkpoint, blockTable, crashes>>
    BY <1>2 DEF nngMempoolTxAdd
  <2>2. Tail(inbox) \in Seq(Messages)
    BY <2>0, HeadType
  <2> HIDE DEF queue
  <2>3. /\ rows' \in [Outpoints -> {NoRow, Unconfirmed} \cup Nat]
        /\ applied' \in [Outpoints -> Int]
        /\ Ledger' /\ ConfirmedInItsBlock' /\ WholeBlocks' /\ OneBlockPerHeight'
        /\ \A o \in Inserted : rows'[o] = Unconfirmed <=> (rows[o] = Unconfirmed \/ o \in queue)
    BY <2>0, <2>1, UnconfirmedUpsertInv
  <2>4. TypeOK'
    BY <2>0, <2>1, <2>2, <2>3 DEF TypeOK, nodeVars
  <2>5. CacheIsUnconfirmed'
    <3>1. mempool \cap Inserted = {o \in Inserted : rows[o] = Unconfirmed}
          /\ mempool \subseteq txidIndex
      BY <2>0 DEF IInv, CacheIsUnconfirmed
    <3> QED BY <2>0, <2>1, <2>3, <3>1 DEF CacheIsUnconfirmed, Inserted
  <2>6. MinedOnce' /\ ChainHeights' /\ EmptyMemory' /\ HoldsBlock' /\ CleanedUp'
        /\ RewindFindsItsBlock' /\ NothingToCascade'
    BY <2>0, <2>1 DEF IInv, nodeVars, MinedOnce, ChainHeights, EmptyMemory, HoldsBlock,
       CleanedUp, RewindFindsItsBlock, NothingToCascade
  <2> QED BY <2>3, <2>4, <2>5, <2>6 DEF IInv
<1> QED BY <1>1, <1>2

\* What is rewound was in the cache, so its records were unconfirmed; other
\* kinds of output are not inserted and the ledger is not about them.
LEMMA MempoolTxRemoveInv == IInv /\ nngMempoolTxRemove => IInv'
<1> SUFFICES ASSUME IInv, nngMempoolTxRemove PROVE IInv'
  OBVIOUS
<1> DEFINE listed == ListedOutputs(Head(inbox).tx)
           queue == listed \cap mempool
<1>0. TypeOK /\ phase = "running" /\ inbox # <<>>
      /\ queue \in SUBSET Outpoints /\ queue = listed \cap mempool
  BY DEF IInv, nngMempoolTxRemove, Receives, TypeOK
<1>1. /\ mempool' = mempool \ listed /\ txidIndex' = txidIndex \ listed
      /\ rows' = RowsAfterRewind(queue)
      /\ applied' = CountsAfterRewind(queue)
      /\ inbox' = Tail(inbox)
      /\ UNCHANGED <<nodeVars, phase, current, cursor, checkpoint, blockTable, crashes>>
  BY DEF nngMempoolTxRemove
<1>2. Tail(inbox) \in Seq(Messages)
  BY <1>0, HeadType
<1> HIDE DEF queue, listed
<1>3. /\ mempool \cap Inserted = {o \in Inserted : rows[o] = Unconfirmed}
      /\ mempool \subseteq txidIndex
  BY <1>0 DEF IInv, CacheIsUnconfirmed
<1>4. /\ \A o \in queue \cap Inserted : rows[o] # NoRow
      /\ \/ \A o \in queue \cap Inserted : rows[o] = Unconfirmed
         \/ \E h \in Nat : queue = RowsAt(h)
  <2>1. \A o \in queue \cap Inserted : rows[o] = Unconfirmed
    BY <1>0, <1>3
  <2> QED BY <2>1
<1>5. /\ rows' \in [Outpoints -> {NoRow, Unconfirmed} \cup Nat]
      /\ applied' \in [Outpoints -> Int]
      /\ Ledger' /\ ConfirmedInItsBlock' /\ WholeBlocks' /\ OneBlockPerHeight'
  <2>1. UNCHANGED blockTable
    BY <1>1
  <2> QED BY <1>0, <1>1, <1>4, <2>1, RewindInv
<1>6. TypeOK'
  BY <1>0, <1>1, <1>2, <1>5 DEF TypeOK, nodeVars
<1>7. CacheIsUnconfirmed'
  <2>1. \A o \in Inserted : rows'[o] = IF o \in queue THEN NoRow ELSE rows[o]
    BY <1>1 DEF RowsAfterRewind, Inserted
  <2>2. \A o \in Inserted : o \in mempool' <=> rows'[o] = Unconfirmed
    <3> SUFFICES ASSUME NEW o \in Inserted PROVE o \in mempool' <=> rows'[o] = Unconfirmed
      OBVIOUS
    <3>1. o \in mempool <=> rows[o] = Unconfirmed
      BY <1>3
    <3>2. o \in queue <=> o \in listed /\ o \in mempool
      BY <1>0
    <3>3. o \in mempool' <=> o \in mempool /\ o \notin listed
      BY <1>1
    <3> QED BY <2>1, <3>1, <3>2, <3>3
  <2>3. mempool' \subseteq txidIndex'
    BY <1>1, <1>3
  <2> QED BY <2>2, <2>3 DEF CacheIsUnconfirmed
<1>8. MinedOnce' /\ ChainHeights' /\ EmptyMemory' /\ HoldsBlock' /\ CleanedUp'
      /\ RewindFindsItsBlock' /\ NothingToCascade'
  BY <1>0, <1>1 DEF IInv, nodeVars, MinedOnce, ChainHeights, EmptyMemory, HoldsBlock,
     CleanedUp, RewindFindsItsBlock, NothingToCascade
<1> QED BY <1>5, <1>6, <1>7, <1>8 DEF IInv

\* The cached outputs of a block are exactly its unconfirmed records, and the
\* missing ones have no record: all of them end at the height of the block.
LEMMA BlockConnectedInv == IInv /\ nngBlockConnected => IInv'
<1> SUFFICES ASSUME IInv, nngBlockConnected PROVE IInv'
  OBVIOUS
<1> DEFINE b == Head(inbox).block
           cached == CachedOutputs(b)
           missing == MissingOutputs(b)
<1>1. CASE Throws
  BY <1>1, ThrowsInv
<1>2. CASE ~Throws
  <2>1. /\ StoredAt(Height[b]) = {}
        /\ \A o \in cached : rows[o] # NoRow
        /\ CanUpsert(missing)
        /\ mempool' = CacheAfterBlock(b)
        /\ blockTable' = blockTable \cup {b}
        /\ rows' = [o \in Outpoints |->
                      IF o \in cached THEN Height[b]
                      ELSE RowsAfterUpsert(missing, Height[b])[o]]
        /\ applied' = CountsAfterUpsert(missing)
        /\ checkpoint' = b
        /\ inbox' = Tail(inbox)
        /\ UNCHANGED <<nodeVars, phase, current, cursor, txidIndex, crashes>>
    BY <1>2 DEF nngBlockConnected
  <2>2. /\ TypeOK /\ phase = "running" /\ inbox # <<>> /\ Head(inbox).type = "blkconnected"
    BY DEF IInv, nngBlockConnected, Receives
  <2>3. b \in Blocks /\ Tail(inbox) \in Seq(Messages)
    BY <2>2, HeadType
  <2>4. /\ cached = BlockOutpoints(b) \cap mempool
        /\ missing = BlockOutpoints(b) \ mempool
        /\ BlockOutpoints(b) \subseteq Outpoints
        /\ mempool' = mempool \ BlockOutpoints(b)
    BY <2>1 DEF CachedOutputs, MissingOutputs, CacheAfterBlock, BlockOutpoints, OutpointsOf
  <2> HIDE DEF b, cached, missing
  <2>5. Height[b] \in Nat
    BY <2>3
  <2>6. /\ mempool \cap Inserted = {o \in Inserted : rows[o] = Unconfirmed}
        /\ mempool \subseteq txidIndex
    BY <2>2 DEF IInv, CacheIsUnconfirmed
  <2>7. \A o \in Outpoints :
          rows'[o] = IF o \in cached \/ (o \in missing \cap Recorded /\ rows[o] = NoRow)
                     THEN Height[b] ELSE rows[o]
    BY <2>1 DEF RowsAfterUpsert
  <2>8. rows' \in [Outpoints -> {NoRow, Unconfirmed} \cup Nat]
    <3>1. rows' = [o \in Outpoints |-> rows'[o]]
      BY <2>1
    <3>2. \A o \in Outpoints : rows[o] \in {NoRow, Unconfirmed} \cup Nat
      BY <2>2 DEF TypeOK
    <3>3. \A o \in Outpoints : rows'[o] \in {NoRow, Unconfirmed} \cup Nat
      BY <2>5, <2>7, <3>2
    <3> QED BY <3>1, <3>3
  <2>9. applied' \in [Outpoints -> Int] /\ Ledger'
    <3>1. \A o \in Inserted : rows'[o] = NoRow <=> (rows[o] = NoRow /\ o \notin missing)
      BY <2>1, <2>5, <2>7 DEF Inserted, Recorded
    <3> QED BY <2>1, <2>4, <2>8, <3>1, UpsertCounts
  <2>10. TypeOK'
    BY <2>1, <2>2, <2>3, <2>4, <2>8, <2>9 DEF TypeOK, nodeVars
  <2>11. ConfirmedInItsBlock'
    <3> SUFFICES ASSUME NEW o \in Recorded, rows'[o] >= 0
                 PROVE  \E c \in blockTable' : Height[c] = rows'[o] /\ o \in BlockOutpoints(c)
      BY DEF ConfirmedInItsBlock, StoredAt, BlockOutpoints, OutpointsOf
    <3>1. o \in Outpoints
      BY DEF Recorded
    <3>2. CASE o \in cached \cup missing /\ rows'[o] = Height[b]
      BY <2>1, <2>4, <3>2
    <3>3. CASE rows'[o] = rows[o]
      BY <2>1, <3>3 DEF IInv, ConfirmedInItsBlock, StoredAt
    <3> QED BY <2>7, <3>1, <3>2, <3>3
  <2>12. WholeBlocks'
    <3> SUFFICES ASSUME NEW c \in blockTable'
                 PROVE  LET own == BlockOutpoints(c) \cap Inserted IN
                        \/ \A o \in own : rows'[o] = Height[c]
                        \/ \A o \in own : rows'[o] # Height[c]
      BY DEF WholeBlocks, BlockOutpoints, OutpointsOf
    <3>0. Inserted \subseteq Recorded /\ Inserted \subseteq Outpoints
      BY DEF Inserted, Recorded
    <3>1. CASE c = b
      BY <2>1, <2>4, <2>7, <3>0, <3>1 DEF CanUpsert
    <3>2. CASE c # b
      <4>1. c \in blockTable /\ Height[c] # Height[b] /\ Height[c] \in Nat
        BY <2>1, <2>2, <3>2 DEF StoredAt, TypeOK
      <4>2. \A o \in Inserted : rows'[o] = Height[c] <=> rows[o] = Height[c]
        BY <2>4, <2>6, <2>7, <3>0, <4>1
      <4> QED BY <4>1, <4>2 DEF IInv, WholeBlocks
    <3> QED BY <3>1, <3>2
  <2>13. OneBlockPerHeight'
    BY <2>1 DEF IInv, OneBlockPerHeight, StoredAt
  <2>14. CacheIsUnconfirmed'
    <3>1. \A o \in Inserted : rows'[o] = Unconfirmed <=> (rows[o] = Unconfirmed /\ o \notin cached)
      BY <2>5, <2>7 DEF Inserted
    <3> QED BY <2>1, <2>4, <2>6, <3>1 DEF CacheIsUnconfirmed
  <2>15. MinedOnce' /\ ChainHeights' /\ EmptyMemory' /\ HoldsBlock' /\ CleanedUp'
         /\ RewindFindsItsBlock' /\ NothingToCascade'
    BY <2>1, <2>2 DEF IInv, nodeVars, MinedOnce, ChainHeights, EmptyMemory, HoldsBlock,
       CleanedUp, RewindFindsItsBlock, NothingToCascade
  <2> QED BY <2>9, <2>10, <2>11, <2>12, <2>13, <2>14, <2>15 DEF IInv
<1> QED BY <1>1, <1>2

\* The first transaction of a rewind at run time.
LEMMA BlockDisconnectedInv == IInv /\ nngBlockDisconnected => IInv'
<1> SUFFICES ASSUME IInv, nngBlockDisconnected PROVE IInv'
  OBVIOUS
<1> DEFINE h == Height[Head(inbox).block]
<1>1. /\ TypeOK /\ phase = "running" /\ inbox # <<>> /\ Head(inbox).type = "blkdisconctd"
      /\ RewindsRecords(h) /\ cursor' = h /\ phase' = "disconnect" /\ inbox' = Tail(inbox)
  BY DEF IInv, nngBlockDisconnected, Receives
<1>2. h \in Nat /\ Tail(inbox) \in Seq(Messages)
  BY <1>1, HeadType
<1> HIDE DEF h
<1>3. /\ rows' \in [Outpoints -> {NoRow, Unconfirmed} \cup Nat]
      /\ applied' \in [Outpoints -> Int]
      /\ Ledger' /\ ConfirmedInItsBlock' /\ WholeBlocks' /\ OneBlockPerHeight'
      /\ \A o \in Outpoints : rows'[o] # h
      /\ \A o \in Outpoints : rows'[o] = Unconfirmed <=> rows[o] = Unconfirmed
  BY <1>1, <1>2, RewindsRecordsInv
<1>4. UNCHANGED <<nodeVars, current, memVars, blockTable, crashes>>
  BY <1>1 DEF RewindsRecords
<1>5. TypeOK'
  BY <1>1, <1>2, <1>3, <1>4 DEF TypeOK, Phases, nodeVars, memVars
<1>6. CacheIsUnconfirmed'
  BY <1>1, <1>3, <1>4 DEF IInv, CacheIsUnconfirmed, Inserted, memVars
<1>7. MinedOnce' /\ ChainHeights' /\ EmptyMemory' /\ HoldsBlock' /\ CleanedUp'
      /\ RewindFindsItsBlock' /\ NothingToCascade'
  BY <1>1, <1>3, <1>4 DEF IInv, nodeVars, memVars, MinedOnce, ChainHeights, EmptyMemory,
     HoldsBlock, CleanedUp, RewindFindsItsBlock, NothingToCascade
<1> QED BY <1>3, <1>5, <1>6, <1>7 DEF IInv

\* The second one.
LEMMA DisconnectDeleteBlockInv == IInv /\ DisconnectDeleteBlock => IInv'
<1> SUFFICES ASSUME IInv, DisconnectDeleteBlock PROVE IInv'
  OBVIOUS
<1>1. CASE Throws
  BY <1>1, ThrowsInv
<1>2. CASE ~Throws
  <2>1. /\ TypeOK /\ phase = "disconnect" /\ cursor \in Nat
        /\ DeletesBlock(cursor)
        /\ checkpoint' \in Blocks \cup {NoBlock}
        /\ phase' = "running" /\ cursor' = 0
        /\ UNCHANGED <<inbox, current, mempool, txidIndex>>
    BY <1>2 DEF IInv, TypeOK, DisconnectDeleteBlock
  <2>2. /\ rows' = rows
        /\ blockTable' \in SUBSET Blocks
        /\ Ledger' /\ ConfirmedInItsBlock' /\ WholeBlocks' /\ OneBlockPerHeight'
    BY <2>1, DeletesBlockInv DEF IInv, NothingToCascade
  <2>3. UNCHANGED <<nodeVars, applied, crashes>>
    BY <2>1 DEF DeletesBlock
  <2>4. TypeOK'
    BY <2>1, <2>2, <2>3 DEF TypeOK, Phases, nodeVars
  <2>5. CacheIsUnconfirmed'
    BY <2>1, <2>2 DEF IInv, CacheIsUnconfirmed
  <2>6. MinedOnce' /\ ChainHeights' /\ EmptyMemory' /\ HoldsBlock' /\ CleanedUp'
        /\ RewindFindsItsBlock' /\ NothingToCascade'
    BY <2>1, <2>2, <2>3 DEF IInv, nodeVars, MinedOnce, ChainHeights, EmptyMemory,
       HoldsBlock, CleanedUp, RewindFindsItsBlock, NothingToCascade
  <2> QED BY <2>2, <2>4, <2>5, <2>6 DEF IInv
<1> QED BY <1>1, <1>2

-----------------------------------------------------------------------------
(* The theorems.                                                           *)

\* Every step keeps the invariant.
LEMMA NextInv == IInv /\ [Next]_vars => IInv'
<1> SUFFICES ASSUME IInv, [Next]_vars PROVE IInv'
  OBVIOUS
<1>1. CASE NodeStep
  BY <1>1, NodeStepInv
<1>2. CASE InitStep
  BY <1>2, StartInv, CleanupInv, GetBestBlockInv, InitRewindRecordsInv,
     InitDeleteBlockInv, InitSyncBlocksInv, InitSyncMempoolInv, SubscribeInv DEF InitStep
<1>3. CASE HandlerStep
  BY <1>3, MempoolTxAddInv, MempoolTxRemoveInv, BlockConnectedInv, BlockDisconnectedInv,
     DisconnectDeleteBlockInv DEF HandlerStep
<1>4. CASE Crash
  BY <1>4, CrashInv
<1>5. CASE UNCHANGED vars
  <2> USE <1>5 DEF vars, nodeVars, memVars, dbVars
  <2>1. TypeOK' /\ Ledger' /\ CacheIsUnconfirmed' /\ ConfirmedInItsBlock' /\ WholeBlocks'
    BY DEF IInv, TypeOK, Ledger, CacheIsUnconfirmed, ConfirmedInItsBlock, WholeBlocks, StoredAt
  <2>2. RewindFindsItsBlock' /\ OneBlockPerHeight' /\ MinedOnce' /\ ChainHeights'
    BY DEF IInv, RewindFindsItsBlock, OneBlockPerHeight, MinedOnce, ChainHeights, StoredAt
  <2>3. EmptyMemory' /\ CleanedUp' /\ HoldsBlock' /\ NothingToCascade'
    BY DEF IInv, EmptyMemory, CleanedUp, HoldsBlock, NothingToCascade
  <2> QED BY <2>1, <2>2, <2>3 DEF IInv
<1> QED BY <1>1, <1>2, <1>3, <1>4, <1>5 DEF Next, IndexerStep

\* The inductive invariant holds in every state.
THEOREM Invariant == Spec => []IInv
  BY InitInv, NextInv, PTL DEF Spec

\* Every variable keeps its type: in particular the startup procedure never
\* leaves the blocks it was given, nor rewinds below height 0.
THEOREM TypeCorrect == Spec => []TypeOK
<1>1. IInv => TypeOK
  BY DEF IInv
<1> QED BY Invariant, <1>1, PTL

\* The counters contain every inserted output exactly once while its record
\* exists and not at all otherwise, whatever events were lost during init()
\* and wherever the process crashed.
THEOREM LedgerCorrect == Spec => []Ledger
<1>1. IInv => Ledger
  BY DEF IInv
<1> QED BY Invariant, <1>1, PTL

\* Between two handlers the mempool cache lists exactly the unconfirmed
\* records.
THEOREM CacheCorrect == Spec => []CacheIsUnconfirmed
<1>1. IInv => CacheIsUnconfirmed
  BY DEF IInv
<1> QED BY Invariant, <1>1, PTL

\* A confirmed record is in a stored block that contains its transaction.
THEOREM ConfirmedCorrect == Spec => []ConfirmedInItsBlock
<1>1. IInv => ConfirmedInItsBlock
  BY DEF IInv
<1> QED BY Invariant, <1>1, PTL

\* A stored block has all of its records or none.
THEOREM BlocksAreWhole == Spec => []WholeBlocks
<1>1. IInv => WholeBlocks
  BY DEF IInv
<1> QED BY Invariant, <1>1, PTL

\* The rewinding loop of init() always finds the block it is to delete.
THEOREM RewindNeverFails == Spec => []RewindFindsItsBlock
<1>1. IInv => RewindFindsItsBlock
  BY DEF IInv
<1> QED BY Invariant, <1>1, PTL

\* What a step may do to a confirmed record.
LeavesByRewind ==
  \A o \in Inserted : rows[o] >= 0 /\ rows'[o] # rows[o] =>
    /\ rows'[o] = NoRow
    /\ phase \in {"rewind", "running"}

\* The upserts of init() and of a new transaction touch no record that exists.
LEMMA UpsertsLeaveConfirmed ==
  ASSUME IInv, InitSyncBlocks \/ InitSyncMempool \/ nngMempoolTxAdd
  PROVE  LeavesByRewind
<1> USE DEF RowsAfterUpsert, LeavesByRewind, Inserted
<1>1. CASE Throws
  BY <1>1 DEF Throws, dbVars
<1>2. CASE InitSyncBlocks /\ ~Throws
  BY <1>2 DEF InitSyncBlocks
<1>3. CASE InitSyncMempool /\ ~Throws
  BY <1>3 DEF InitSyncMempool
<1>4. CASE nngMempoolTxAdd /\ ~Throws
  BY <1>4 DEF nngMempoolTxAdd
<1> QED BY <1>1, <1>2, <1>3, <1>4

\* A block connects records of the cache only, and those are unconfirmed.
LEMMA ConnectLeavesConfirmed ==
  ASSUME IInv, nngBlockConnected
  PROVE  LeavesByRewind
<1> USE DEF LeavesByRewind, Inserted
<1>1. CASE Throws
  BY <1>1 DEF Throws, dbVars
<1>2. CASE ~Throws
  <2> DEFINE b == Head(inbox).block
             cached == CachedOutputs(b)
  <2>1. /\ phase = "running"
        /\ rows' = [o \in Outpoints |->
                      IF o \in cached THEN Height[b]
                      ELSE RowsAfterUpsert(MissingOutputs(b), Height[b])[o]]
    BY <1>2 DEF nngBlockConnected, Receives
  <2>2. \A o \in cached : o \in mempool
    BY DEF CachedOutputs
  <2>3. mempool \cap Inserted = {o \in Inserted : rows[o] = Unconfirmed}
    BY <2>1 DEF IInv, CacheIsUnconfirmed
  <2> HIDE DEF b, cached
  <2>4. \A o \in Outpoints \ cached : rows[o] >= 0 => rows'[o] = rows[o]
    BY <2>1 DEF RowsAfterUpsert
  <2>5. \A o \in cached \cap Inserted : rows[o] = Unconfirmed
    BY <2>2, <2>3
  <2> QED BY <2>4, <2>5
<1> QED BY <1>1, <1>2

\* Every step.
LEMMA NextLeavesConfirmed == IInv /\ Next => LeavesByRewind
<1> SUFFICES ASSUME IInv, Next PROVE LeavesByRewind
  OBVIOUS
<1>1. CASE UNCHANGED rows
  BY <1>1 DEF LeavesByRewind
<1>2. CASE NodeStep \/ Start \/ GetBestBlock \/ Subscribe \/ Crash
  <2>1. UNCHANGED rows
    BY <1>2 DEF NodeStep, NodeAddsTx, NodeRemovesTx, NodeConnects, NodeDisconnects,
       NodeMayChange, Start, GetBestBlock, Throws, Subscribe, Crash, dbVars
  <2> QED BY <1>1, <2>1
<1>3. CASE Cleanup
  BY <1>3 DEF Cleanup, RowsAfterRewind, UnconfirmedRows, RowsAt, LeavesByRewind, Inserted
<1>4. CASE InitRewindRecords \/ nngBlockDisconnected
  BY <1>4 DEF InitRewindRecords, nngBlockDisconnected, Receives, RewindsRecords,
     RowsAfterRewind, LeavesByRewind, Inserted
<1>5. CASE nngMempoolTxRemove
  BY <1>5 DEF nngMempoolTxRemove, Receives, RowsAfterRewind, LeavesByRewind, Inserted
<1>6. CASE InitDeleteBlock \/ DisconnectDeleteBlock
  <2>1. CASE Throws
    BY <1>1, <2>1 DEF Throws, dbVars
  <2>2. CASE ~Throws
    <3>1. /\ DeletesBlock(cursor) /\ cursor \in Nat
          /\ \A o \in Outpoints : rows[o] # cursor
      BY <1>6, <2>2 DEF InitDeleteBlock, DisconnectDeleteBlock, IInv, TypeOK, NothingToCascade
    <3>2. rows' = rows
      BY <3>1, DeletesBlockInv
    <3> QED BY <1>1, <3>2
  <2> QED BY <2>1, <2>2
<1>7. CASE InitSyncBlocks \/ InitSyncMempool \/ nngMempoolTxAdd
  BY <1>7, UpsertsLeaveConfirmed
<1>8. CASE nngBlockConnected
  BY <1>8, ConnectLeavesConfirmed
<1> QED BY <1>2, <1>3, <1>4, <1>5, <1>6, <1>7, <1>8 DEF Next, IndexerStep, InitStep, HandlerStep

\* A confirmed record never moves to another block, nor back to the mempool:
\* it leaves the database in a rewind, or not at all.
THEOREM ConfirmedStays == Spec => ConfirmedUntilRewound
<1>1. IInv /\ [Next]_vars => [LeavesByRewind]_vars
  BY NextLeavesConfirmed
<1>2. Spec => [][LeavesByRewind]_vars
  BY <1>1, Invariant, PTL DEF Spec
<1> QED BY <1>2 DEF LeavesByRewind, ConfirmedUntilRewound, NoRow

-----------------------------------------------------------------------------
(* The indexer against the node. *)

HIDE ConstantsAssumption

-----------------------------------------------------------------------------
(* States of a node, and what changes them.                                *)

NodeStates == [chain : Seq(Blocks), pool : SUBSET Txs]

NodeState == [chain |-> chain, pool |-> nodeMempool]

TipOf(c) == IF c = <<>> THEN Genesis ELSE c[Len(c)]

Mined(c, t) == \E i \in 1..Len(c) : t \in BlockTxs[c[i]]

\* A chain is linked down to genesis, and a transaction is in one of its
\* blocks or in the mempool, but not in two of these.
WellFormed(s) ==
  /\ \A i \in 1..Len(s.chain) :
       Parent[s.chain[i]] = IF i = 1 THEN Genesis ELSE s.chain[i - 1]
  /\ \A i \in 1..Len(s.chain) : Height[s.chain[i]] = i
  /\ \A i, j \in 1..Len(s.chain) :
       BlockTxs[s.chain[i]] \cap BlockTxs[s.chain[j]] # {} => i = j
  /\ \A t \in s.pool : ~Mined(s.chain, t)

\* The changes that the four kinds of events tell of.
Adds(s, m, t) ==
  /\ m.type = "mempooltxadd"
  /\ m.tx \in Txs /\ m.tx \notin s.pool /\ ~Mined(s.chain, m.tx)
  /\ t = [chain |-> s.chain, pool |-> s.pool \cup {m.tx}]

Removes(s, m, t) ==
  /\ m.type = "mempooltxrem"
  /\ m.tx \in s.pool
  /\ t = [chain |-> s.chain, pool |-> s.pool \ {m.tx}]

Connects(s, m, t) ==
  /\ m.type = "blkconnected"
  /\ m.block \in Blocks /\ Parent[m.block] = TipOf(s.chain)
  /\ \A x \in BlockTxs[m.block] : ~Mined(s.chain, x)
  /\ t = [chain |-> Append(s.chain, m.block), pool |-> s.pool \ BlockTxs[m.block]]

Disconnects(s, m, t) ==
  /\ m.type = "blkdisconctd"
  /\ s.chain # <<>> /\ m.block = TipOf(s.chain)
  /\ t = [chain |-> SubSeq(s.chain, 1, Len(s.chain) - 1), pool |-> s.pool]

Changes(s, m, t) ==
  Adds(s, m, t) \/ Removes(s, m, t) \/ Connects(s, m, t) \/ Disconnects(s, m, t)

\* The events q take a node from s to t.
Leads(s, q, t) ==
  \E path \in [0..Len(q) -> NodeStates] :
    /\ path[0] = s /\ path[Len(q)] = t
    /\ \A i \in 1..Len(q) : Changes(path[i - 1], q[i], path[i])

-----------------------------------------------------------------------------
(* The inductive invariant: the database is the image of a state s that    *)
(* the node was in, and the events to be handled lead from there to the    *)
(* state that the node is in.                                              *)

\* The stored blocks are the chain of s, and the block whose records a rewind
\* has taken is on top of it.
StoresBlocks(s) ==
  /\ blockTable \ BeingRewound = {s.chain[i] : i \in 1..Len(s.chain)}
  /\ phase \in {"delete", "disconnect"} =>
       /\ cursor = Len(s.chain) + 1
       /\ \E b \in BeingRewound : Parent[b] = TipOf(s.chain)

\* An output of the chain has its height, one of the mempool none, and no
\* other has a record; the counters contain what has a record.
StoresRecords(s) ==
  /\ \A o \in Recorded :
       \/ TxOf[o] \in s.pool /\ rows[o] = Unconfirmed
       \/ \E i \in 1..Len(s.chain) : TxOf[o] \in BlockTxs[s.chain[i]] /\ rows[o] = i
       \/ TxOf[o] \notin s.pool /\ ~Mined(s.chain, TxOf[o]) /\ rows[o] = NoRow
  /\ \A o \in Recorded : applied[o] = IF rows[o] = NoRow THEN 0 ELSE 1
  /\ \A o \in Outpoints \ Recorded : rows[o] = NoRow

\* What init() has found out about s: nothing is unconfirmed, the block it
\* holds is in the chain of s, then in the one of the node as well, which
\* agree up to it; rewinds and rounds of the block sync make the two equal.
Reconciles(s) ==
  /\ phase \in {"compare", "rewind", "delete", "sync", "mempool"} => s.pool = {}
  /\ phase \in {"compare", "rewind", "delete", "sync"} =>
       /\ Height[current] <= Len(s.chain)
       /\ current = IF Height[current] = 0 THEN Genesis ELSE s.chain[Height[current]]
  /\ phase \in {"compare", "rewind"} => cursor = Len(s.chain)
  /\ phase \in {"rewind", "delete", "sync"} =>
       /\ Height[current] <= Len(chain)
       /\ \A i \in 1..Height[current] : s.chain[i] = chain[i]
  /\ phase = "sync" => Height[current] = Len(s.chain)
  /\ phase \in {"mempool", "subscribe"} => s.chain = chain
  /\ phase = "subscribe" => s.pool = nodeMempool

\* The mempool cache and the checkpoint are those of s.
Remembers(s) ==
  /\ phase \in {"subscribe", "running", "disconnect"} => mempool = OutpointsOf(s.pool)
  /\ phase \in {"mempool", "subscribe", "running"} =>
       \/ checkpoint = TipOf(s.chain)
       \/ s.chain = <<>> /\ checkpoint = NoBlock

\* The indexer is behind the node by the events of the inbox.
Follows(s) == IF Subscribed THEN Leads(s, inbox, NodeState) ELSE inbox = <<>>

Image(s) ==
  /\ WellFormed(s)
  /\ StoresBlocks(s)
  /\ StoresRecords(s)
  /\ Reconciles(s)
  /\ Remembers(s)
  /\ Follows(s)

SyncInv ==
  /\ WellFormed(NodeState)
  /\ \E s \in NodeStates : Image(s)

-----------------------------------------------------------------------------
(* Lemmas about chains.                                                    *)

\* A set of numbers that is not empty has a least element: with it, a proof
\* by induction is one about the least counterexample.
LEMMA LeastElement ==
  ASSUME NEW S \in SUBSET Nat, S # {}
  PROVE  \E m \in S : \A n \in S : m <= n
<1>1. IsWellFoundedOn(OpToRel(<, Nat), Nat)
  BY NatLessThanWellFounded
<1>2. PICK m \in S : \A n \in S : <<n, m>> \notin OpToRel(<, Nat)
  BY <1>1, WFMin
<1>3. ASSUME NEW n \in S PROVE m <= n
  <2>1. m \in Nat /\ n \in Nat /\ <<n, m>> \notin OpToRel(<, Nat)
    BY <1>2
  <2>2. m \in Nat /\ n \in Nat /\ ~(n < m)
    BY <2>1 DEF OpToRel
  <2> QED BY ONLY <2>2
<1> QED BY <1>3

\* The chain of a well-formed state, one fact at a time.
LEMMA ChainType ==
  ASSUME NEW s \in NodeStates
  PROVE  /\ s.chain \in Seq(Blocks)
         /\ Len(s.chain) \in Nat
         /\ \A i \in 1..Len(s.chain) : s.chain[i] \in Blocks
         /\ s.pool \in SUBSET Txs
  BY DEF NodeStates

\* Two linked chains that share a block share all blocks below it.
LEMMA AgreeBelow ==
  ASSUME NEW s \in NodeStates, NEW u \in NodeStates, WellFormed(s), WellFormed(u),
         NEW h \in 1..Len(s.chain), h \in 1..Len(u.chain), s.chain[h] = u.chain[h]
  PROVE  \A i \in 1..h : s.chain[i] = u.chain[i]
<1> DEFINE Differ == {d \in 0..(h - 1) : s.chain[h - d] # u.chain[h - d]}
<1>0. h \in Nat /\ Len(s.chain) \in Nat /\ Len(u.chain) \in Nat
  BY ChainType
<1>1. SUFFICES ASSUME Differ # {} PROVE FALSE
  <2> SUFFICES ASSUME NEW i \in 1..h, s.chain[i] # u.chain[i] PROVE FALSE
    OBVIOUS
  <2>1. h - i \in 0..(h - 1) /\ h - (h - i) = i
    BY <1>0
  <2>2. h - i \in Differ
    BY <2>1
  <2> QED BY <2>2, <1>1
<1>2. Differ \in SUBSET Nat
  BY <1>0
<1> HIDE DEF Differ
<1>3. PICK d \in Differ : \A e \in Differ : d <= e
  BY <1>1, <1>2, LeastElement
<1>4. d \in 0..(h - 1) /\ s.chain[h - d] # u.chain[h - d]
  BY <1>3 DEF Differ
<1>5. d # 0
  BY <1>0, <1>4
<1>6. d - 1 \in 0..(h - 1) /\ d - 1 \notin Differ
  BY <1>0, <1>2, <1>3, <1>4, <1>5
<1>7. s.chain[h - (d - 1)] = u.chain[h - (d - 1)]
  BY <1>6 DEF Differ
<1> DEFINE j == h - (d - 1)
<1>8. /\ j \in 1..Len(s.chain) /\ j \in 1..Len(u.chain) /\ j # 1
      /\ j - 1 = h - d
  BY <1>0, <1>4, <1>5
<1>9. s.chain[j] = u.chain[j]
  BY <1>7
<1> HIDE DEF j
<1>10. s.chain[j - 1] = Parent[s.chain[j]] /\ u.chain[j - 1] = Parent[u.chain[j]]
  BY <1>8 DEF WellFormed
<1> QED BY <1>4, <1>8, <1>9, <1>10

\* The tip of a chain: its height, and whether the chain is empty.
LEMMA TipProperties ==
  ASSUME NEW s \in NodeStates, WellFormed(s)
  PROVE  /\ s.chain = <<>> <=> Len(s.chain) = 0
         /\ s.chain = <<>> => TipOf(s.chain) = Genesis
         /\ s.chain # <<>> => /\ TipOf(s.chain) \in Blocks
                              /\ TipOf(s.chain) = s.chain[Len(s.chain)]
         /\ Height[TipOf(s.chain)] = Len(s.chain)
<1>1. s.chain \in Seq(Blocks) /\ Len(s.chain) \in Nat
  BY ChainType
<1>2. s.chain = <<>> <=> Len(s.chain) = 0
  BY <1>1, EmptySeq
<1>3. CASE s.chain = <<>>
  BY <1>2, <1>3, ConstantsAssumption DEF TipOf
<1>4. CASE s.chain # <<>>
  <2>1. Len(s.chain) \in 1..Len(s.chain)
    BY <1>1, <1>2, <1>4
  <2> QED BY <1>2, <1>4, <2>1, ChainType DEF TipOf, WellFormed
<1> QED BY <1>2, <1>3, <1>4

-----------------------------------------------------------------------------
(* Lemmas about the changes of a node.                                     *)

\* A transaction that enters the mempool, or leaves it.
LEMMA PoolChangeWellFormed ==
  ASSUME NEW s \in NodeStates, WellFormed(s), NEW p \in SUBSET Txs,
         \A x \in p : x \in s.pool \/ ~Mined(s.chain, x),
         NEW t, t = [chain |-> s.chain, pool |-> p]
  PROVE  t \in NodeStates /\ WellFormed(t)
<1>1. t \in NodeStates /\ t.chain = s.chain /\ t.pool = p
  BY DEF NodeStates
<1> QED BY <1>1 DEF WellFormed

\* A block on top of a chain.
LEMMA ChainAfterConnect ==
  ASSUME NEW s \in NodeStates, NEW b \in Blocks
  PROVE  /\ Append(s.chain, b) \in Seq(Blocks)
         /\ Len(Append(s.chain, b)) = Len(s.chain) + 1
         /\ \A i \in 1..Len(s.chain) : Append(s.chain, b)[i] = s.chain[i]
         /\ Append(s.chain, b)[Len(s.chain) + 1] = b
<1>1. s.chain \in Seq(Blocks)
  BY ChainType
<1> QED BY <1>1

LEMMA ConnectsWellFormed ==
  ASSUME NEW s \in NodeStates, WellFormed(s), NEW m, NEW t, Connects(s, m, t)
  PROVE  t \in NodeStates /\ WellFormed(t)
<1> DEFINE b == m.block
           n == Len(s.chain)
<1>1. /\ b \in Blocks /\ Parent[b] = TipOf(s.chain)
      /\ \A x \in BlockTxs[b] : ~Mined(s.chain, x)
      /\ t = [chain |-> Append(s.chain, b), pool |-> s.pool \ BlockTxs[b]]
  BY DEF Connects
<1> HIDE DEF b
<1>2. n \in Nat /\ s.pool \in SUBSET Txs
  BY ChainType
<1>3. /\ t \in NodeStates /\ t.pool = s.pool \ BlockTxs[b]
      /\ Len(t.chain) = n + 1 /\ t.chain[n + 1] = b
      /\ \A i \in 1..n : t.chain[i] = s.chain[i]
  BY <1>1, <1>2, ChainAfterConnect DEF NodeStates
<1> HIDE DEF n
<1>4. \A i \in 1..Len(t.chain) : i = n + 1 \/ i \in 1..n
  BY <1>2, <1>3
<1>5. \A i \in 1..Len(t.chain) :
        Parent[t.chain[i]] = IF i = 1 THEN Genesis ELSE t.chain[i - 1]
  <2> SUFFICES ASSUME NEW i \in 1..Len(t.chain)
               PROVE  Parent[t.chain[i]] = IF i = 1 THEN Genesis ELSE t.chain[i - 1]
    OBVIOUS
  <2>1. CASE i = n + 1
    <3>1. CASE n = 0
      BY <1>1, <1>3, <2>1, <3>1, TipProperties DEF n
    <3>2. CASE n # 0
      <4>1. i - 1 = n /\ n \in 1..n /\ i # 1
        BY <1>2, <2>1, <3>2
      <4>2. TipOf(s.chain) = s.chain[n]
        BY <3>2, TipProperties DEF n
      <4> QED BY <1>1, <1>3, <2>1, <4>1, <4>2
    <3> QED BY <3>1, <3>2
  <2>2. CASE i \in 1..n
    <3>1. i # 1 => i - 1 \in 1..n
      BY <1>2, <2>2
    <3> QED BY <1>3, <2>2, <3>1 DEF WellFormed, n
  <2> QED BY <1>4, <2>1, <2>2
<1>6. \A i \in 1..Len(t.chain) : Height[t.chain[i]] = i
  <2>1. Height[b] = n + 1
    BY <1>1, TipProperties, ConstantsAssumption DEF n
  <2> QED BY <1>3, <1>4, <2>1 DEF WellFormed, n
<1>7. \A i \in 1..n : BlockTxs[t.chain[i]] \cap BlockTxs[b] = {}
  BY <1>1, <1>3 DEF Mined, n
<1>8. \A i, j \in 1..Len(t.chain) :
        BlockTxs[t.chain[i]] \cap BlockTxs[t.chain[j]] # {} => i = j
  <2> SUFFICES ASSUME NEW i \in 1..Len(t.chain), NEW j \in 1..Len(t.chain),
                      BlockTxs[t.chain[i]] \cap BlockTxs[t.chain[j]] # {}
               PROVE  i = j
    OBVIOUS
  <2>1. CASE i \in 1..n /\ j \in 1..n
    BY <1>3, <2>1 DEF WellFormed, n
  <2>2. CASE i = n + 1 /\ j \in 1..n
    BY <1>3, <1>7, <2>2
  <2>3. CASE i \in 1..n /\ j = n + 1
    BY <1>3, <1>7, <2>3
  <2> QED BY <1>4, <2>1, <2>2, <2>3
<1>9. \A x \in t.pool : ~Mined(t.chain, x)
  BY <1>3, <1>4 DEF WellFormed, Mined, n
<1> QED BY <1>3, <1>5, <1>6, <1>8, <1>9 DEF WellFormed

\* A chain without its tip.
LEMMA ChainAfterDisconnect ==
  ASSUME NEW s \in NodeStates, s.chain # <<>>
  PROVE  LET c == SubSeq(s.chain, 1, Len(s.chain) - 1) IN
         /\ c \in Seq(Blocks)
         /\ Len(c) = Len(s.chain) - 1
         /\ Len(s.chain) \in Nat \ {0}
         /\ \A i \in 1..Len(c) : i \in 1..Len(s.chain) /\ c[i] = s.chain[i]
<1> DEFINE c == SubSeq(s.chain, 1, Len(s.chain) - 1)
<1>1. s.chain \in Seq(Blocks) /\ Len(s.chain) \in Nat \ {0}
  BY ChainType, EmptySeq
<1>2. c \in Seq(Blocks) /\ Len(c) = Len(s.chain) - 1
      /\ \A i \in 1..(Len(s.chain) - 1) : c[i] = s.chain[i]
  BY <1>1, FrontProperties
<1> HIDE DEF c
<1>3. \A i \in 1..Len(c) : i \in 1..Len(s.chain) /\ c[i] = s.chain[i]
  BY <1>1, <1>2
<1>4. QED BY <1>1, <1>2, <1>3 DEF c

\* A well-formed state without some of its blocks from the top, and without
\* some of its mempool.
LEMMA LowerChainWellFormed ==
  ASSUME NEW s \in NodeStates, WellFormed(s), NEW t \in NodeStates, t.pool \subseteq s.pool,
         \A i \in 1..Len(t.chain) : i \in 1..Len(s.chain) /\ t.chain[i] = s.chain[i]
  PROVE  WellFormed(t)
<1>1. Len(t.chain) \in Nat
  BY ChainType
<1>2. \A i \in 1..Len(t.chain) :
        Parent[t.chain[i]] = IF i = 1 THEN Genesis ELSE t.chain[i - 1]
  <2> SUFFICES ASSUME NEW i \in 1..Len(t.chain)
               PROVE  Parent[t.chain[i]] = IF i = 1 THEN Genesis ELSE t.chain[i - 1]
    OBVIOUS
  <2>1. i # 1 => i - 1 \in 1..Len(t.chain)
    BY <1>1
  <2>2. Parent[s.chain[i]] = IF i = 1 THEN Genesis ELSE s.chain[i - 1]
    BY DEF WellFormed
  <2> QED BY <2>1, <2>2
<1>3. \A i \in 1..Len(t.chain) : Height[t.chain[i]] = i
  BY DEF WellFormed
<1>4. \A i, j \in 1..Len(t.chain) :
        BlockTxs[t.chain[i]] \cap BlockTxs[t.chain[j]] # {} => i = j
  <2> SUFFICES ASSUME NEW i \in 1..Len(t.chain), NEW j \in 1..Len(t.chain),
                      BlockTxs[t.chain[i]] \cap BlockTxs[t.chain[j]] # {}
               PROVE  i = j
    OBVIOUS
  <2>1. BlockTxs[s.chain[i]] \cap BlockTxs[s.chain[j]] # {}
    OBVIOUS
  <2> QED BY <2>1 DEF WellFormed
<1>5. \A x \in t.pool : ~Mined(t.chain, x)
  BY DEF WellFormed, Mined
<1> QED BY <1>2, <1>3, <1>4, <1>5 DEF WellFormed

\* Whatever changes, a node stays in a well-formed state.
LEMMA ChangesWellFormed ==
  ASSUME NEW s \in NodeStates, WellFormed(s), NEW m, NEW t, Changes(s, m, t)
  PROVE  t \in NodeStates /\ WellFormed(t)
<1>1. CASE Adds(s, m, t)
  <2>1. s.pool \cup {m.tx} \in SUBSET Txs
    BY <1>1, ChainType DEF Adds
  <2> QED BY <1>1, <2>1, PoolChangeWellFormed DEF Adds
<1>2. CASE Removes(s, m, t)
  <2>1. s.pool \ {m.tx} \in SUBSET Txs
    BY ChainType
  <2> QED BY <1>2, <2>1, PoolChangeWellFormed DEF Removes
<1>3. CASE Connects(s, m, t)
  BY <1>3, ConnectsWellFormed
<1>4. CASE Disconnects(s, m, t)
  <2>1. t.pool = s.pool /\ t.chain = SubSeq(s.chain, 1, Len(s.chain) - 1) /\ s.chain # <<>>
    BY <1>4 DEF Disconnects
  <2>2. t \in NodeStates
        /\ \A i \in 1..Len(t.chain) : i \in 1..Len(s.chain) /\ t.chain[i] = s.chain[i]
    BY <1>4, <2>1, ChainAfterDisconnect, ChainType DEF Disconnects, NodeStates
  <2> QED BY <2>1, <2>2, LowerChainWellFormed
<1> QED BY <1>1, <1>2, <1>3, <1>4 DEF Changes

-----------------------------------------------------------------------------
(* Lemmas about queues of events.                                          *)

\* Before its first event, a queue leads nowhere else.
LEMMA LeadsNowhere ==
  ASSUME NEW s \in NodeStates
  PROVE  Leads(s, <<>>, s)
<1> DEFINE path == [i \in 0..0 |-> s]
<1>1. path \in [0..Len(<<>>) -> NodeStates] /\ path[0] = s /\ path[Len(<<>>)] = s
  OBVIOUS
<1>2. \A i \in 1..Len(<<>>) : Changes(path[i - 1], <<>>[i], path[i])
  OBVIOUS
<1> QED BY <1>1, <1>2 DEF Leads

\* One more event is published.
LEMMA LeadsFurther ==
  ASSUME NEW q \in Seq(Messages), NEW s \in NodeStates, NEW u, NEW m \in Messages,
         NEW t \in NodeStates, Leads(s, q, u), Changes(u, m, t)
  PROVE  Leads(s, Append(q, m), t)
<1> DEFINE n == Len(q)
           more == Append(q, m)
<1>1. /\ n \in Nat /\ Len(more) = n + 1 /\ more[n + 1] = m
      /\ \A i \in 1..n : more[i] = q[i]
  OBVIOUS
<1> HIDE DEF more
<1>2. PICK path \in [0..n -> NodeStates] :
        /\ path[0] = s /\ path[n] = u
        /\ \A i \in 1..n : Changes(path[i - 1], q[i], path[i])
  BY DEF Leads
<1> HIDE DEF n
<1> DEFINE longer == [i \in 0..(n + 1) |-> IF i = n + 1 THEN t ELSE path[i]]
<1>3. \A i \in 0..(n + 1) : i = n + 1 \/ i \in 0..n
  BY <1>1
<1>4. longer \in [0..(n + 1) -> NodeStates]
  BY <1>2, <1>3
<1>5. /\ \A i \in 0..n : longer[i] = path[i]
      /\ longer[n + 1] = t /\ longer[0] = s
  BY <1>1, <1>2
<1> HIDE DEF longer
<1>6. ASSUME NEW i \in 1..(n + 1) PROVE Changes(longer[i - 1], more[i], longer[i])
  <2>1. CASE i = n + 1
    <3>1. i - 1 = n /\ n \in 0..n
      BY <1>1, <2>1
    <3> QED BY <1>1, <1>2, <1>5, <2>1, <3>1
  <2>2. CASE i # n + 1
    <3>1. i \in 1..n /\ i \in 0..n /\ i - 1 \in 0..n
      BY <1>1, <2>2
    <3> QED BY <1>1, <1>2, <1>5, <3>1
  <2> QED BY <2>1, <2>2
<1>7. Leads(s, more, t)
  BY <1>1, <1>4, <1>5, <1>6 DEF Leads
<1> QED BY <1>7 DEF more

\* The first event of a queue is handled.
LEMMA LeadsOn ==
  ASSUME NEW q \in Seq(Messages), q # <<>>, NEW s, NEW u, Leads(s, q, u)
  PROVE  \E t \in NodeStates : Changes(s, Head(q), t) /\ Leads(t, Tail(q), u)
<1> DEFINE n == Len(q)
           rest == Tail(q)
<1>1. /\ n \in Nat \ {0} /\ Len(rest) = n - 1 /\ Head(q) = q[1]
      /\ \A i \in 1..(n - 1) : rest[i] = q[i + 1]
  BY HeadTailProperties, EmptySeq
<1> HIDE DEF rest
<1>2. PICK path \in [0..n -> NodeStates] :
        /\ path[0] = s /\ path[n] = u
        /\ \A i \in 1..n : Changes(path[i - 1], q[i], path[i])
  BY DEF Leads
<1> HIDE DEF n
<1>3. 1 \in 1..n /\ 1 \in 0..n /\ 1 - 1 = 0
  BY <1>1
<1>4. path[1] \in NodeStates /\ Changes(s, Head(q), path[1])
  BY <1>1, <1>2, <1>3
<1> DEFINE later == [i \in 0..(n - 1) |-> path[i + 1]]
<1>5. \A i \in 0..(n - 1) : i + 1 \in 0..n
  BY <1>1
<1>6. later \in [0..(n - 1) -> NodeStates]
  BY <1>2, <1>5
<1>7. \A i \in 0..(n - 1) : later[i] = path[i + 1]
  OBVIOUS
<1> HIDE DEF later
<1>8. later[0] = path[1] /\ later[n - 1] = u
  <2>1. 0 \in 0..(n - 1) /\ n - 1 \in 0..(n - 1) /\ n - 1 + 1 = n /\ 0 + 1 = 1
    BY <1>1
  <2> QED BY <1>2, <1>7, <2>1
<1>9. ASSUME NEW i \in 1..(n - 1) PROVE Changes(later[i - 1], rest[i], later[i])
  <2>1. /\ i + 1 \in 1..n /\ i \in 0..(n - 1) /\ i - 1 \in 0..(n - 1)
        /\ i - 1 + 1 = i /\ i + 1 - 1 = i
    BY <1>1
  <2> QED BY <1>1, <1>2, <1>7, <2>1
<1>10. Leads(path[1], rest, u)
  BY <1>1, <1>6, <1>8, <1>9 DEF Leads
<1> QED BY <1>4, <1>10 DEF rest

-----------------------------------------------------------------------------
(* What a reader of the database sees.                                     *)

BlocksOf(c) == {c[i] : i \in 1..Len(c)}

ViewOf(s) == [blocks |-> BlocksOf(s.chain), pool |-> OutpointsOf(s.pool) \cap Recorded]

\* The blocks of a chain with a block more, or with its tip less.
LEMMA BlocksAfterConnect ==
  ASSUME NEW s \in NodeStates, NEW b \in Blocks
  PROVE  BlocksOf(Append(s.chain, b)) = BlocksOf(s.chain) \cup {b}
<1> DEFINE n == Len(s.chain)
           c == Append(s.chain, b)
<1>1. /\ n \in Nat /\ Len(c) = n + 1 /\ c[n + 1] = b
      /\ \A i \in 1..n : c[i] = s.chain[i]
  BY ChainType, ChainAfterConnect
<1> HIDE DEF n, c
<1>2. 1..(n + 1) = 1..n \cup {n + 1}
  BY <1>1
<1>3. {c[i] : i \in 1..(n + 1)} = {s.chain[i] : i \in 1..n} \cup {b}
  BY <1>1, <1>2
<1> QED BY <1>1, <1>3 DEF BlocksOf, n, c

LEMMA BlocksAfterDisconnect ==
  ASSUME NEW s \in NodeStates, WellFormed(s), s.chain # <<>>
  PROVE  BlocksOf(SubSeq(s.chain, 1, Len(s.chain) - 1))
           = BlocksOf(s.chain) \ {TipOf(s.chain)}
<1> DEFINE n == Len(s.chain)
           c == SubSeq(s.chain, 1, n - 1)
<1>1. /\ n \in Nat \ {0} /\ Len(c) = n - 1
      /\ \A i \in 1..(n - 1) : c[i] = s.chain[i]
      /\ TipOf(s.chain) = s.chain[n]
  BY ChainAfterDisconnect, TipProperties
<1>2. \A i \in 1..n : Height[s.chain[i]] = i
  BY DEF WellFormed
<1> HIDE DEF n, c
<1>3. 1..n = 1..(n - 1) \cup {n} /\ n \notin 1..(n - 1) /\ n \in 1..n
  BY <1>1
<1>4. \A i \in 1..(n - 1) : s.chain[i] # s.chain[n]
  BY <1>2, <1>3
<1>5. {c[i] : i \in 1..(n - 1)} = {s.chain[i] : i \in 1..n} \ {s.chain[n]}
  BY <1>1, <1>3, <1>4
<1> QED BY <1>1, <1>5 DEF BlocksOf, n, c

\* A reader who applies the event of a change to what he sees of a state sees
\* the state after it.
LEMMA ChangesView ==
  ASSUME NEW s \in NodeStates, WellFormed(s), NEW m, NEW t, Changes(s, m, t)
  PROVE  Handled(ViewOf(s), m) = ViewOf(t)
<1> DEFINE v == ViewOf(s)
<1>0. v = [blocks |-> BlocksOf(s.chain), pool |-> OutpointsOf(s.pool) \cap Recorded]
  BY DEF ViewOf
<1>1. CASE Adds(s, m, t)
  <2>1. m.type = "mempooltxadd" /\ t.chain = s.chain /\ t.pool = s.pool \cup {m.tx}
    BY <1>1 DEF Adds
  <2>2. Handled(v, m) = [v EXCEPT !.pool = @ \cup (OutpointsOf({m.tx}) \cap Recorded)]
    BY <2>1 DEF Handled
  <2>3. OutpointsOf(t.pool) \cap Recorded
          = (OutpointsOf(s.pool) \cap Recorded) \cup (OutpointsOf({m.tx}) \cap Recorded)
    BY <2>1 DEF OutpointsOf
  <2> QED BY <1>0, <2>1, <2>2, <2>3 DEF ViewOf
<1>2. CASE Removes(s, m, t)
  <2>1. m.type = "mempooltxrem" /\ t.chain = s.chain /\ t.pool = s.pool \ {m.tx}
    BY <1>2 DEF Removes
  <2>2. Handled(v, m) = [v EXCEPT !.pool = @ \ OutpointsOf({m.tx})]
    BY <2>1 DEF Handled
  <2>3. OutpointsOf(t.pool) \cap Recorded
          = (OutpointsOf(s.pool) \cap Recorded) \ OutpointsOf({m.tx})
    BY <2>1 DEF OutpointsOf
  <2> QED BY <1>0, <2>1, <2>2, <2>3 DEF ViewOf
<1>3. CASE Connects(s, m, t)
  <2>1. /\ m.type = "blkconnected" /\ m.block \in Blocks
        /\ t.chain = Append(s.chain, m.block) /\ t.pool = s.pool \ BlockTxs[m.block]
    BY <1>3 DEF Connects
  <2>2. Handled(v, m) = [v EXCEPT !.blocks = @ \cup {m.block},
                                  !.pool = @ \ BlockOutpoints(m.block)]
    BY <2>1 DEF Handled
  <2>3. BlocksOf(t.chain) = BlocksOf(s.chain) \cup {m.block}
    BY <2>1, BlocksAfterConnect
  <2>4. OutpointsOf(t.pool) \cap Recorded
          = (OutpointsOf(s.pool) \cap Recorded) \ BlockOutpoints(m.block)
    BY <2>1 DEF OutpointsOf, BlockOutpoints
  <2> QED BY <1>0, <2>2, <2>3, <2>4 DEF ViewOf
<1>4. CASE Disconnects(s, m, t)
  <2>1. /\ m.type = "blkdisconctd" /\ s.chain # <<>> /\ m.block = TipOf(s.chain)
        /\ t.chain = SubSeq(s.chain, 1, Len(s.chain) - 1) /\ t.pool = s.pool
    BY <1>4 DEF Disconnects
  <2>2. Handled(v, m) = [v EXCEPT !.blocks = @ \ {m.block}]
    BY <2>1 DEF Handled
  <2>3. BlocksOf(t.chain) = BlocksOf(s.chain) \ {m.block}
    BY <2>1, BlocksAfterDisconnect
  <2> QED BY <1>0, <2>1, <2>2, <2>3 DEF ViewOf
<1> QED BY <1>1, <1>2, <1>3, <1>4 DEF Changes

\* Along a queue that leads from the state in the database to another one,
\* the recursive view is at each event the one of the state reached.
LEMMA ViewAlongQueue ==
  ASSUME NEW q \in Seq(Messages), NEW s \in NodeStates, WellFormed(s), NEW u,
         Leads(s, q, u), DatabaseView = ViewOf(s)
  PROVE  ViewAfter(q) = ViewOf(u)
<1> DEFINE n == Len(q)
           Recursion(f) ==
             f = [i \in 0..n |->
                    IF i = 0 THEN DatabaseView ELSE Handled(f[i - 1], q[i])]
           view == CHOOSE f : Recursion(f)
<1>1. n \in Nat
  OBVIOUS
<1>2. ViewAfter(q) = view[n]
  BY DEF ViewAfter
<1>3. PICK path \in [0..n -> NodeStates] :
        /\ path[0] = s /\ path[n] = u
        /\ \A i \in 1..n : Changes(path[i - 1], q[i], path[i])
  BY DEF Leads
<1> HIDE DEF n
<1>4. \A i \in 0..n : i # 0 => i \in 1..n /\ i - 1 \in 0..n
  BY <1>1
<1>5. \A i \in 0..n : WellFormed(path[i])
  <2> DEFINE Bad == {i \in 0..n : ~WellFormed(path[i])}
  <2> SUFFICES ASSUME Bad # {} PROVE FALSE
    OBVIOUS
  <2>1. Bad \in SUBSET Nat
    BY <1>1
  <2>2. PICK i \in Bad : \A j \in Bad : i <= j
    BY <2>1, LeastElement
  <2>3. i \in 0..n /\ i # 0
    BY <1>3, <2>2
  <2>4. i - 1 \notin Bad /\ i \in 1..n /\ i - 1 \in 0..n
    BY <1>1, <1>4, <2>2, <2>3
  <2>5. WellFormed(path[i - 1]) /\ path[i - 1] \in NodeStates
    BY <1>3, <2>4
  <2>6. WellFormed(path[i])
    BY <1>3, <2>4, <2>5, ChangesWellFormed
  <2> QED BY <2>2, <2>6
<1>6. \A i \in 1..n : Handled(ViewOf(path[i - 1]), q[i]) = ViewOf(path[i])
  <2> TAKE i \in 1..n
  <2>1. i - 1 \in 0..n
    BY <1>1
  <2> QED BY <1>3, <1>5, <2>1, ChangesView
<1>7. Recursion([i \in 0..n |-> ViewOf(path[i])])
  <2> DEFINE f == [i \in 0..n |-> ViewOf(path[i])]
  <2>1. ASSUME NEW i \in 0..n
        PROVE  f[i] = IF i = 0 THEN DatabaseView ELSE Handled(f[i - 1], q[i])
    BY <1>3, <1>4, <1>6
  <2> HIDE DEF f
  <2>2. f = [i \in 0..n |-> f[i]]
    BY DEF f
  <2>3. f = [i \in 0..n |-> IF i = 0 THEN DatabaseView ELSE Handled(f[i - 1], q[i])]
    BY <2>1, <2>2
  <2> QED BY <2>3 DEF f
<1>8. Recursion(view)
  BY <1>7
<1>9. \A i \in 0..n : view[i] = IF i = 0 THEN DatabaseView ELSE Handled(view[i - 1], q[i])
  BY <1>8
<1> HIDE DEF view
<1>10. \A i \in 0..n : view[i] = ViewOf(path[i])
  <2> DEFINE Bad == {i \in 0..n : view[i] # ViewOf(path[i])}
  <2> SUFFICES ASSUME Bad # {} PROVE FALSE
    OBVIOUS
  <2>1. Bad \in SUBSET Nat
    BY <1>1
  <2>2. PICK i \in Bad : \A j \in Bad : i <= j
    BY <2>1, LeastElement
  <2>3. i \in 0..n /\ i # 0
    BY <1>3, <1>9, <2>2
  <2>4. i - 1 \notin Bad /\ i \in 1..n /\ i - 1 \in 0..n
    BY <1>1, <1>4, <2>2, <2>3
  <2>5. view[i - 1] = ViewOf(path[i - 1])
    BY <2>4
  <2>6. view[i] = ViewOf(path[i])
    BY <1>6, <1>9, <2>3, <2>4, <2>5
  <2> QED BY <2>2, <2>6
<1>11. n \in 0..n
  BY <1>1
<1> QED BY <1>2, <1>3, <1>10, <1>11

-----------------------------------------------------------------------------
(* Steps that leave the image where it is.                                 *)

\* What the theorems of this module assume: the node is quiet while init()
\* runs, and no crash falls between the two transactions of a rewind.
NothingLost == QuietInit = TRUE /\ CrashPhases \cap {"delete", "disconnect"} = {}

\* How the database's state moves from s to t: not at all, transactions enter
\* or leave the mempool, the tip is taken back, or blocks are put on top.
Moves(s, t) ==
  \/ t = s
  \/ t.chain = s.chain /\ s.pool \subseteq t.pool
  \/ t.chain = s.chain /\ t.pool \subseteq s.pool
  \/ /\ s.chain # <<>>
     /\ t.chain = SubSeq(s.chain, 1, Len(s.chain) - 1)
     /\ t.pool = s.pool
  \/ /\ Len(t.chain) > Len(s.chain)
     /\ \A i \in 1..Len(s.chain) : t.chain[i] = s.chain[i]
     /\ t.pool = {x \in s.pool : ~Mined(t.chain, x)}

LEMMA NodeStateType == TypeOK => NodeState \in NodeStates
  BY DEF TypeOK, NodeState, NodeStates

\* While no block is being rewound the table is the chain of the image.
LEMMA StoredBlocks ==
  ASSUME NEW s \in NodeStates, Image(s), phase \notin {"delete", "disconnect"}
  PROVE  /\ blockTable = BlocksOf(s.chain)
         /\ BeingRewound = {}
  BY DEF Image, StoresBlocks, BeingRewound, BlocksOf

\* The records stay where they are with the tables.
LEMMA RecordsStay ==
  ASSUME NEW s \in NodeStates, StoresRecords(s), rows' = rows, applied' = applied
  PROVE  StoresRecords(s)'
  BY DEF StoresRecords

\* Every change of the node is one that an event tells of.
LEMMA NodeChanges ==
  ASSUME TypeOK, NodeStep
  PROVE  \E m \in Messages : Publish(m) /\ Changes(NodeState, m, NodeState')
<1> DEFINE n == NodeState
<1>1. /\ n.chain = chain /\ n.pool = nodeMempool
      /\ NodeState' = [chain |-> chain', pool |-> nodeMempool']
  BY DEF NodeState
<1>2. Tip = TipOf(chain)
  BY DEF Tip, TipOf
<1>3. \A x : x \in ChainTxs <=> Mined(chain, x)
  BY DEF ChainTxs, Mined
<1>4. CASE \E x \in Txs : NodeAddsTx(x)
  <2> PICK x \in Txs : NodeAddsTx(x)
    BY <1>4
  <2> DEFINE m == [type |-> "mempooltxadd", tx |-> x]
  <2>1. m \in Messages /\ Publish(m)
    BY DEF Messages, NodeAddsTx
  <2>2. Adds(n, m, NodeState')
    BY <1>1, <1>3 DEF NodeAddsTx, Adds
  <2> QED BY <2>1, <2>2 DEF Changes
<1>5. CASE \E x \in Txs : NodeRemovesTx(x)
  <2> PICK x \in Txs : NodeRemovesTx(x)
    BY <1>5
  <2> DEFINE m == [type |-> "mempooltxrem", tx |-> x]
  <2>1. m \in Messages /\ Publish(m)
    BY DEF Messages, NodeRemovesTx
  <2>2. Removes(n, m, NodeState')
    BY <1>1 DEF NodeRemovesTx, Removes
  <2> QED BY <2>1, <2>2 DEF Changes
<1>6. CASE \E b \in Blocks : NodeConnects(b)
  <2> PICK b \in Blocks : NodeConnects(b)
    BY <1>6
  <2> DEFINE m == [type |-> "blkconnected", block |-> b]
  <2>1. m \in Messages /\ Publish(m)
    BY DEF Messages, NodeConnects
  <2>2. \A x \in BlockTxs[b] : ~Mined(chain, x)
    BY <1>3 DEF NodeConnects
  <2>3. Connects(n, m, NodeState')
    BY <1>1, <1>2, <2>2 DEF NodeConnects, Connects
  <2> QED BY <2>1, <2>3 DEF Changes
<1>7. CASE NodeDisconnects
  <2> DEFINE m == [type |-> "blkdisconctd", block |-> Tip]
  <2>1. chain \in Seq(Blocks) /\ Len(chain) > 0
    BY <1>7, ConstantsAssumption DEF TypeOK, NodeDisconnects
  <2>2. chain # <<>> /\ Tip \in Blocks
    BY <2>1, ElementOfSeq DEF Tip
  <2>3. m \in Messages /\ Publish(m)
    BY <1>7, <2>2 DEF Messages, NodeDisconnects
  <2>4. Disconnects(n, m, NodeState')
    BY <1>1, <1>2, <1>7, <2>2 DEF NodeDisconnects, Disconnects
  <2> QED BY <2>3, <2>4 DEF Changes
<1> QED BY <1>4, <1>5, <1>6, <1>7 DEF NodeStep

\* The node's changes put an event behind those to be handled; while init()
\* runs there are none.
LEMMA NodeStepImage ==
  ASSUME NothingLost, IInv, WellFormed(NodeState), NEW s \in NodeStates, Image(s), NodeStep
  PROVE  WellFormed(NodeState)' /\ \E t \in NodeStates : Image(t)' /\ Moves(s, t)
<1>0. TypeOK /\ NodeState \in NodeStates
  BY NodeStateType DEF IInv
<1>1. PICK m \in Messages : Publish(m) /\ Changes(NodeState, m, NodeState')
  BY <1>0, NodeChanges
<1>2. NodeState' \in NodeStates /\ WellFormed(NodeState')
  BY <1>0, <1>1, ChangesWellFormed
<1>3. NodeMayChange
  BY DEF NodeStep, NodeAddsTx, NodeRemovesTx, NodeConnects, NodeDisconnects
<1>4. /\ phase \in {"down", "running", "disconnect"} /\ phase' = phase
      /\ UNCHANGED <<current, cursor, memVars, dbVars>>
  BY <1>3 DEF NodeMayChange, NothingLost
<1>5. StoresBlocks(s)' /\ StoresRecords(s)' /\ Remembers(s)'
  BY <1>4, RecordsStay DEF Image, StoresBlocks, BeingRewound, StoredAt, Remembers, memVars, dbVars
<1>6. Reconciles(s)'
  BY <1>4 DEF Reconciles, Image
<1>7. Follows(s)'
  <2>1. CASE Subscribed
    <3>1. inbox' = Append(inbox, m) /\ Leads(s, inbox, NodeState) /\ inbox \in Seq(Messages)
      BY <1>0, <1>1, <2>1 DEF Publish, Image, Follows, TypeOK
    <3>2. Leads(s, inbox', NodeState')
      BY <1>1, <1>2, <3>1, LeadsFurther
    <3> QED BY <1>4, <2>1, <3>2 DEF Follows, Subscribed
  <2>2. CASE ~Subscribed
    BY <1>1, <1>4, <2>2 DEF Publish, Image, Follows, Subscribed
  <2> QED BY <2>1, <2>2
<1>8. WellFormed(s)'
  BY DEF Image
<1>9. Image(s)'
  BY <1>5, <1>6, <1>7, <1>8 DEF Image
<1> QED BY <1>2, <1>9 DEF Moves

\* The end of the process leaves the database, and nothing to be handled.
LEMMA ProcessEndsImage ==
  ASSUME WellFormed(NodeState), NEW s \in NodeStates, Image(s), BeingRewound = {},
         ProcessEnds, UNCHANGED <<dbVars, nodeVars>>
  PROVE  WellFormed(NodeState)' /\ Image(s)'
<1> USE DEF ProcessEnds, dbVars, nodeVars
<1>1. WellFormed(NodeState)' /\ WellFormed(s)'
  BY DEF NodeState, Image
<1>2. StoresBlocks(s)' /\ StoresRecords(s)'
  BY RecordsStay DEF Image, StoresBlocks, BeingRewound
<1>3. Reconciles(s)' /\ Remembers(s)' /\ Follows(s)'
  BY DEF Reconciles, Remembers, Follows, Subscribed
<1> QED BY <1>1, <1>2, <1>3 DEF Image

\* A step that throws before its transaction committed.
LEMMA ThrowsImage ==
  ASSUME WellFormed(NodeState), NEW s \in NodeStates, Image(s),
         phase \notin {"delete", "disconnect"}, Throws
  PROVE  WellFormed(NodeState)' /\ \E t \in NodeStates : Image(t)' /\ Moves(s, t)
<1>1. BeingRewound = {}
  BY StoredBlocks
<1>2. WellFormed(NodeState)' /\ Image(s)'
  BY <1>1, ProcessEndsImage DEF Throws
<1> QED BY <1>2 DEF Moves

\* A crash between two transactions, but not between those of a rewind.
LEMMA CrashImage ==
  ASSUME NothingLost, WellFormed(NodeState), NEW s \in NodeStates, Image(s), Crash
  PROVE  WellFormed(NodeState)' /\ \E t \in NodeStates : Image(t)' /\ Moves(s, t)
<1>1. BeingRewound = {}
  BY StoredBlocks DEF Crash, NothingLost
<1>2. WellFormed(NodeState)' /\ Image(s)'
  BY <1>1, ProcessEndsImage DEF Crash
<1> QED BY <1>2 DEF Moves

\* index.ts starts the process with what the database kept.
LEMMA StartImage ==
  ASSUME WellFormed(NodeState), NEW s \in NodeStates, Image(s), Start
  PROVE  WellFormed(NodeState)' /\ \E t \in NodeStates : Image(t)' /\ Moves(s, t)
<1> USE DEF Start, nodeVars, memVars, dbVars
<1>1. WellFormed(NodeState)' /\ WellFormed(s)'
  BY DEF NodeState, Image
<1>2. StoresBlocks(s)' /\ StoresRecords(s)'
  BY RecordsStay DEF Image, StoresBlocks, BeingRewound
<1>3. Reconciles(s)' /\ Remembers(s)' /\ Follows(s)'
  BY DEF Image, Reconciles, Remembers, Follows, Subscribed
<1>4. Image(s)'
  BY <1>1, <1>2, <1>3 DEF Image
<1> QED BY <1>1, <1>4 DEF Moves

\* The subscription is made in the state that init() has reached.
LEMMA SubscribeImage ==
  ASSUME TypeOK, WellFormed(NodeState), NEW s \in NodeStates, Image(s), Subscribe
  PROVE  WellFormed(NodeState)' /\ \E t \in NodeStates : Image(t)' /\ Moves(s, t)
<1> USE DEF Subscribe, nodeVars, memVars, dbVars
<1>1. WellFormed(NodeState)' /\ WellFormed(s)'
  BY DEF NodeState, Image
<1>2. StoresBlocks(s)' /\ StoresRecords(s)'
  BY RecordsStay DEF Image, StoresBlocks, BeingRewound
<1>3. Reconciles(s)' /\ Remembers(s)'
  BY DEF Image, Reconciles, Remembers
<1>4. Follows(s)'
  <2>1. s.chain = chain /\ s.pool = nodeMempool /\ inbox' = <<>>
    BY DEF Image, Reconciles, Follows, Subscribed
  <2>2. s = NodeState
    BY <2>1 DEF NodeStates, NodeState
  <2>3. Leads(s, inbox', NodeState')
    BY <2>1, <2>2, LeadsNowhere DEF NodeState
  <2> QED BY <2>3 DEF Follows, Subscribed
<1>5. Image(s)'
  BY <1>1, <1>2, <1>3, <1>4 DEF Image
<1> QED BY <1>1, <1>5 DEF Moves

-----------------------------------------------------------------------------
(* init(): the cleanup and the reconciliation.                             *)

\* A block in the chain of an image is at its height.
LEMMA BlockAtHeight ==
  ASSUME NEW s \in NodeStates, WellFormed(s), NEW b \in BlocksOf(s.chain)
  PROVE  /\ b \in Blocks /\ Height[b] \in 1..Len(s.chain)
         /\ s.chain[Height[b]] = b
<1>1. PICK i \in 1..Len(s.chain) : b = s.chain[i]
  BY DEF BlocksOf
<1>2. Height[b] = i
  BY <1>1 DEF WellFormed
<1> QED BY <1>1, <1>2, ChainType

\* The highest block of the table is the tip of the image.
LEMMA HighestIsTip ==
  ASSUME NEW s \in NodeStates, WellFormed(s), NEW b \in Blocks \cup {NoBlock},
         NEW table, table = BlocksOf(s.chain)
  PROVE  IsHighest(b, table) <=> b = IF s.chain = <<>> THEN NoBlock ELSE TipOf(s.chain)
<1>1. Len(s.chain) \in Nat /\ (s.chain = <<>> <=> Len(s.chain) = 0)
  BY ChainType, TipProperties
<1>2. CASE s.chain = <<>>
  <2>1. table = {}
    BY <1>1, <1>2 DEF BlocksOf
  <2> QED BY <1>2, <2>1 DEF IsHighest
<1>3. CASE s.chain # <<>>
  <2> DEFINE n == Len(s.chain)
  <2>1. n \in 1..n /\ TipOf(s.chain) = s.chain[n] /\ Height[TipOf(s.chain)] = n
    BY <1>1, <1>3, TipProperties
  <2>2. TipOf(s.chain) \in table
    BY <2>1 DEF BlocksOf
  <2>3. \A c \in table : Height[c] \in 1..n /\ s.chain[Height[c]] = c
    BY BlockAtHeight
  <2>4. \A c \in table : Height[c] <= Height[TipOf(s.chain)]
    BY <1>1, <2>1, <2>3
  <2>5. ASSUME b \in table, \A c \in table : Height[c] <= Height[b]
        PROVE  b = TipOf(s.chain)
    <3>1. Height[b] = n
      BY <1>1, <2>1, <2>2, <2>3, <2>4, <2>5
    <3> QED BY <2>1, <2>3, <2>5, <3>1
  <2> QED BY <1>3, <2>2, <2>4, <2>5 DEF IsHighest
<1> QED BY <1>2, <1>3

\* The cleanup takes what was unconfirmed, and holds the highest block.
LEMMA CleanupImage ==
  ASSUME TypeOK, WellFormed(NodeState), NEW s \in NodeStates, Image(s), Cleanup
  PROVE  WellFormed(NodeState)' /\ \E t \in NodeStates : Image(t)' /\ Moves(s, t)
<1> DEFINE t == [chain |-> s.chain, pool |-> {}]
<1>1. t \in NodeStates /\ t.chain = s.chain /\ t.pool = {}
  BY DEF NodeStates
<1>2. /\ phase = "cleanup" /\ phase' = "compare" /\ UNCHANGED <<nodeVars, inbox, memVars, blockTable>>
      /\ rows' = RowsAfterRewind(UnconfirmedRows)
      /\ applied' = CountsAfterRewind(UnconfirmedRows)
  BY DEF Cleanup
<1>3. blockTable = BlocksOf(s.chain) /\ BeingRewound = {}
  BY <1>2, StoredBlocks
<1> HIDE DEF t
<1>4. WellFormed(t)
  BY <1>1 DEF WellFormed, Image
<1>5. WellFormed(NodeState)'
  BY <1>2 DEF NodeState, nodeVars
<1>6. StoresBlocks(t)'
  BY <1>1, <1>2, <1>3 DEF StoresBlocks, BeingRewound, BlocksOf
<1>7. StoresRecords(t)'
  <2>1. \A o \in Outpoints :
          /\ rows'[o] = IF rows[o] = Unconfirmed THEN NoRow ELSE rows[o]
          /\ applied'[o] = IF rows[o] = Unconfirmed THEN applied[o] - 1 ELSE applied[o]
    BY <1>2 DEF RowsAfterRewind, CountsAfterRewind, UnconfirmedRows, RowsAt
  <2>2. ASSUME NEW o \in Recorded
        PROVE  \/ \E i \in 1..Len(t.chain) : TxOf[o] \in BlockTxs[t.chain[i]] /\ rows'[o] = i
               \/ ~Mined(t.chain, TxOf[o]) /\ rows'[o] = NoRow
    <3>1. CASE TxOf[o] \in s.pool /\ rows[o] = Unconfirmed
      BY <1>1, <2>1, <3>1 DEF Image, WellFormed, Recorded
    <3>2. CASE \E i \in 1..Len(s.chain) : TxOf[o] \in BlockTxs[s.chain[i]] /\ rows[o] = i
      BY <1>1, <2>1, <3>2, ChainType DEF Recorded
    <3>3. CASE ~Mined(s.chain, TxOf[o]) /\ rows[o] = NoRow
      BY <1>1, <2>1, <3>3 DEF Recorded
    <3> QED BY <3>1, <3>2, <3>3 DEF Image, StoresRecords
  <2>3. \A o \in Recorded : applied'[o] = IF rows'[o] = NoRow THEN 0 ELSE 1
    BY <2>1 DEF Image, StoresRecords, Recorded
  <2>4. \A o \in Outpoints \ Recorded : rows'[o] = NoRow
    BY <2>1 DEF Image, StoresRecords
  <2> QED BY <1>1, <2>2, <2>3, <2>4 DEF StoresRecords
<1>8. Reconciles(t)'
  <2>1. PICK b \in Blocks \cup {NoBlock} :
          /\ IsHighest(b, blockTable)
          /\ current' = IF b = NoBlock THEN Genesis ELSE b
          /\ cursor' = IF b = NoBlock THEN 0 ELSE Height[b]
    BY DEF Cleanup
  <2>2. b = IF s.chain = <<>> THEN NoBlock ELSE TipOf(s.chain)
    BY <1>3, <2>1, HighestIsTip DEF Image
  <2>3. current' = TipOf(s.chain) /\ cursor' = Height[TipOf(s.chain)]
    BY <2>1, <2>2, TipProperties, ConstantsAssumption DEF Image
  <2>4. Height[current'] = Len(t.chain) /\ cursor' = Len(t.chain)
        /\ current' = IF Height[current'] = 0 THEN Genesis ELSE t.chain[Height[current']]
    BY <1>1, <2>3, TipProperties DEF Image
  <2>5. Len(t.chain) \in Nat
    BY <1>1, ChainType
  <2> QED BY <1>1, <1>2, <2>4, <2>5 DEF Reconciles
<1>9. Remembers(t)' /\ Follows(t)'
  BY <1>2 DEF Remembers, Follows, Image, Subscribed
<1>10. Image(t)'
  BY <1>4, <1>6, <1>7, <1>8, <1>9 DEF Image
<1> QED BY <1>1, <1>5, <1>10 DEF Moves

\* A level of getBestBlock: on a match, the two chains agree up to the block.
LEMMA GetBestBlockImage ==
  ASSUME IInv, WellFormed(NodeState), NEW s \in NodeStates, Image(s), GetBestBlock
  PROVE  WellFormed(NodeState)' /\ \E t \in NodeStates : Image(t)' /\ Moves(s, t)
<1> DEFINE h == Height[current]
<1>0. /\ phase = "compare" /\ TypeOK /\ NodeState \in NodeStates
      /\ current \in Blocks \cup {Genesis} /\ Len(s.chain) \in Nat /\ Len(chain) \in Nat
      /\ NodeState.chain = chain
  BY NodeStateType, ChainType DEF GetBestBlock, IInv, HoldsBlock, TypeOK, NodeState
<1>1. /\ h \in Nat /\ h <= Len(s.chain) /\ cursor = Len(s.chain)
      /\ current = IF h = 0 THEN Genesis ELSE s.chain[h]
      /\ s.pool = {}
  BY <1>0, ConstantsAssumption DEF Image, Reconciles
<1>2. blockTable = BlocksOf(s.chain) /\ BeingRewound = {}
  BY <1>0, StoredBlocks
<1>3. CASE /\ OnChain(current)
           /\ phase' = IF cursor > h THEN "rewind" ELSE "sync"
           /\ UNCHANGED <<nodeVars, inbox, current, cursor, memVars, dbVars, crashes>>
  <2> USE DEF nodeVars, memVars, dbVars
  <2>1. WellFormed(NodeState)' /\ WellFormed(s)'
    BY <1>3 DEF NodeState, Image
  <2>2. StoresBlocks(s)' /\ StoresRecords(s)'
    BY <1>2, <1>3, RecordsStay DEF Image, StoresBlocks, BeingRewound, BlocksOf
  <2>3. h <= Len(chain) /\ \A i \in 1..h : s.chain[i] = chain[i]
    <3>1. CASE h = 0
      BY <1>0, <3>1
    <3>2. CASE h # 0
      <4>1. current \in Blocks /\ current # Genesis
        BY <1>0, <3>2, ConstantsAssumption
      <4>2. PICK i \in 1..Len(chain) : chain[i] = current
        BY <1>3, <4>1 DEF OnChain
      <4>3. i = h
        BY <1>0, <4>2 DEF WellFormed
      <4>4. h \in 1..Len(s.chain) /\ h \in 1..Len(NodeState.chain)
            /\ s.chain[h] = NodeState.chain[h]
        BY <1>0, <1>1, <3>2, <4>2, <4>3
      <4>5. \A j \in 1..h : s.chain[j] = NodeState.chain[j]
        BY <1>0, <4>4, AgreeBelow DEF Image
      <4> QED BY <1>0, <4>4, <4>5
    <3> QED BY <3>1, <3>2
  <2>4. Reconciles(s)'
    BY <1>0, <1>1, <1>3, <2>3 DEF Reconciles
  <2>5. Remembers(s)' /\ Follows(s)'
    BY <1>0, <1>3 DEF Image, Remembers, Follows, Subscribed
  <2>6. Image(s)'
    BY <2>1, <2>2, <2>4, <2>5 DEF Image
  <2> QED BY <2>1, <2>6 DEF Moves
<1>4. CASE /\ \E b \in StoredBelow(current) : current' = b
           /\ UNCHANGED <<nodeVars, inbox, phase, cursor, memVars, dbVars, crashes>>
  <2> USE DEF nodeVars, memVars, dbVars
  <2>1. WellFormed(NodeState)' /\ WellFormed(s)'
    BY <1>4 DEF NodeState, Image
  <2>2. StoresBlocks(s)' /\ StoresRecords(s)'
    BY <1>0, <1>2, <1>4, RecordsStay DEF Image, StoresBlocks, BeingRewound, BlocksOf
  <2>3. current' \in BlocksOf(s.chain)
    BY <1>2, <1>4 DEF StoredBelow, StoredAt
  <2>4. Height[current'] \in 1..Len(s.chain) /\ s.chain[Height[current']] = current'
    BY <2>3, BlockAtHeight DEF Image
  <2>5. Reconciles(s)'
    BY <1>0, <1>1, <1>4, <2>4 DEF Reconciles
  <2>6. Remembers(s)' /\ Follows(s)'
    BY <1>0, <1>4 DEF Image, Remembers, Follows, Subscribed
  <2>7. Image(s)'
    BY <2>1, <2>2, <2>5, <2>6 DEF Image
  <2> QED BY <2>1, <2>7 DEF Moves
<1>5. CASE Throws
  BY <1>0, <1>5, ThrowsImage
<1> QED BY <1>3, <1>4, <1>5 DEF GetBestBlock

-----------------------------------------------------------------------------
(* The two transactions of rewindBlock.                                    *)

WithoutTip(s) == [chain |-> SubSeq(s.chain, 1, Len(s.chain) - 1), pool |-> s.pool]

LEMMA WithoutTipProperties ==
  ASSUME NEW s \in NodeStates, WellFormed(s), s.chain # <<>>
  PROVE  /\ WithoutTip(s) \in NodeStates /\ WellFormed(WithoutTip(s))
         /\ WithoutTip(s).pool = s.pool
         /\ Len(WithoutTip(s).chain) = Len(s.chain) - 1
         /\ Len(s.chain) \in Nat \ {0}
         /\ \A i \in 1..Len(WithoutTip(s).chain) :
              i \in 1..Len(s.chain) /\ WithoutTip(s).chain[i] = s.chain[i]
         /\ BlocksOf(WithoutTip(s).chain) = BlocksOf(s.chain) \ {TipOf(s.chain)}
         /\ Parent[TipOf(s.chain)] = TipOf(WithoutTip(s).chain)
         /\ Moves(s, WithoutTip(s))
<1> DEFINE t == WithoutTip(s)
           n == Len(s.chain)
<1>1. t.pool = s.pool /\ t.chain = SubSeq(s.chain, 1, n - 1)
  BY DEF WithoutTip
<1>2. /\ t.chain \in Seq(Blocks) /\ Len(t.chain) = n - 1 /\ n \in Nat \ {0}
      /\ \A i \in 1..Len(t.chain) : i \in 1..n /\ t.chain[i] = s.chain[i]
  BY <1>1, ChainAfterDisconnect
<1>3. t \in NodeStates
  BY <1>2, ChainType DEF WithoutTip, NodeStates
<1>4. WellFormed(t)
  BY <1>1, <1>2, <1>3, LowerChainWellFormed
<1>5. BlocksOf(t.chain) = BlocksOf(s.chain) \ {TipOf(s.chain)}
  BY <1>1, BlocksAfterDisconnect
<1>6. Parent[TipOf(s.chain)] = TipOf(t.chain)
  <2>1. n \in 1..n /\ TipOf(s.chain) = s.chain[n]
    BY <1>2, TipProperties
  <2>2. Parent[s.chain[n]] = IF n = 1 THEN Genesis ELSE s.chain[n - 1]
    BY <2>1 DEF WellFormed
  <2>3. CASE n = 1
    BY <1>2, <1>3, <1>4, <2>1, <2>2, <2>3, TipProperties
  <2>4. CASE n # 1
    <3>0. Len(t.chain) = n - 1 /\ n \in Nat \ {0}
      BY <1>2
    <3> HIDE DEF n, t
    <3>1. n - 1 \in 1..Len(t.chain) /\ Len(t.chain) # 0
      BY ONLY <3>0, <2>4
    <3>2. TipOf(t.chain) = t.chain[n - 1]
      BY <1>2, <1>3, <1>4, <3>1, TipProperties
    <3> QED BY <1>2, <2>1, <2>2, <2>4, <3>1, <3>2
  <2> QED BY <2>3, <2>4
<1>7. Moves(s, t)
  BY <1>1 DEF Moves
<1> QED BY <1>1, <1>2, <1>3, <1>4, <1>5, <1>6, <1>7

\* The first transaction takes the records of the tip.
LEMMA RecordsAfterRewindOfTip ==
  ASSUME NEW s \in NodeStates, WellFormed(s), s.chain # <<>>, StoresRecords(s),
         RewindsRecords(Len(s.chain))
  PROVE  StoresRecords(WithoutTip(s))'
<1> DEFINE t == WithoutTip(s)
           n == Len(s.chain)
<1>1. /\ t.pool = s.pool /\ Len(t.chain) = n - 1 /\ n \in Nat \ {0}
      /\ \A i \in 1..Len(t.chain) : i \in 1..n /\ t.chain[i] = s.chain[i]
  BY WithoutTipProperties
<1> HIDE DEF t
<1>2. \A o \in Outpoints :
        /\ rows'[o] = IF rows[o] = n THEN NoRow ELSE rows[o]
        /\ applied'[o] = IF rows[o] = n THEN applied[o] - 1 ELSE applied[o]
  BY DEF RewindsRecords, RowsAfterRewind, CountsAfterRewind, RowsAt
<1>3. Recorded \subseteq Outpoints
  BY DEF Recorded
<1>4. ASSUME NEW o \in Recorded
      PROVE  \/ TxOf[o] \in t.pool /\ rows'[o] = Unconfirmed
             \/ \E i \in 1..Len(t.chain) : TxOf[o] \in BlockTxs[t.chain[i]] /\ rows'[o] = i
             \/ TxOf[o] \notin t.pool /\ ~Mined(t.chain, TxOf[o]) /\ rows'[o] = NoRow
  <2>1. CASE TxOf[o] \in s.pool /\ rows[o] = Unconfirmed
    BY <1>1, <1>2, <1>3, <2>1
  <2>2. CASE \E i \in 1..n : TxOf[o] \in BlockTxs[s.chain[i]] /\ rows[o] = i
    <3> PICK i \in 1..n : TxOf[o] \in BlockTxs[s.chain[i]] /\ rows[o] = i
      BY <2>2
    <3>1. CASE i = n
      <4>1. TxOf[o] \notin t.pool
        BY <1>1 DEF WellFormed, Mined
      <4>2. \A j \in 1..n : TxOf[o] \in BlockTxs[s.chain[j]] => j = n
        BY <3>1 DEF WellFormed
      <4>3. n \notin 1..Len(t.chain)
        BY <1>1
      <4>4. ~Mined(t.chain, TxOf[o])
        BY <1>1, <4>2, <4>3 DEF Mined
      <4> QED BY <1>2, <1>3, <3>1, <4>1, <4>4
    <3>2. CASE i # n
      <4>1. i \in 1..Len(t.chain)
        BY <1>1, <3>2
      <4> QED BY <1>1, <1>2, <1>3, <3>2, <4>1
    <3> QED BY <3>1, <3>2
  <2>3. CASE TxOf[o] \notin s.pool /\ ~Mined(s.chain, TxOf[o]) /\ rows[o] = NoRow
    BY <1>1, <1>2, <1>3, <2>3 DEF Mined
  <2> QED BY <2>1, <2>2, <2>3 DEF StoresRecords
<1>5. \A o \in Recorded : applied'[o] = IF rows'[o] = NoRow THEN 0 ELSE 1
  BY <1>1, <1>2, <1>3 DEF StoresRecords
<1>6. \A o \in Outpoints \ Recorded : rows'[o] = NoRow
  BY <1>1, <1>2 DEF StoresRecords
<1> QED BY <1>4, <1>5, <1>6 DEF StoresRecords, t

\* The tip, of which the records are gone, is the block being rewound.
LEMMA BlocksAfterRewindOfTip ==
  ASSUME NEW s \in NodeStates, WellFormed(s), s.chain # <<>>,
         blockTable = BlocksOf(s.chain), blockTable' = blockTable,
         phase' \in {"delete", "disconnect"}, cursor' = Len(s.chain)
  PROVE  StoresBlocks(WithoutTip(s))'
<1> DEFINE t == WithoutTip(s)
           n == Len(s.chain)
           b == TipOf(s.chain)
<1>0. /\ BlocksOf(t.chain) = BlocksOf(s.chain) \ {b} /\ Parent[b] = TipOf(t.chain)
      /\ Len(t.chain) = n - 1 /\ n \in Nat \ {0}
  BY WithoutTipProperties
<1>1. n = Len(t.chain) + 1
  BY ONLY <1>0
<1> HIDE DEF t
<1>2. b = s.chain[n] /\ Height[b] = n /\ n \in 1..n
  BY <1>0, TipProperties
<1>3. b \in BlocksOf(s.chain)
  BY <1>2 DEF BlocksOf
<1>4. \A c \in BlocksOf(s.chain) : Height[c] = n => c = b
  BY <1>2, BlockAtHeight
<1>5. BeingRewound' = {c \in BlocksOf(s.chain) : Height[c] = n}
  BY DEF BeingRewound, StoredAt
<1> HIDE DEF b
<1>6. BeingRewound' = {b}
  BY <1>2, <1>3, <1>4, <1>5
<1> QED BY <1>0, <1>1, <1>6 DEF StoresBlocks, BlocksOf, t

\* The second transaction deletes that block.
LEMMA AfterDeletesBlock ==
  ASSUME IInv, NEW s \in NodeStates, Image(s), phase \in {"delete", "disconnect"},
         DeletesBlock(cursor), phase' \notin {"delete", "disconnect"}
  PROVE  /\ blockTable' = BlocksOf(s.chain)
         /\ StoresBlocks(s)' /\ StoresRecords(s)'
<1>1. blockTable' = blockTable \ BeingRewound
  BY DEF DeletesBlock, BeingRewound
<1>2. blockTable' = BlocksOf(s.chain)
  BY <1>1 DEF Image, StoresBlocks, BlocksOf
<1>3. rows' = rows /\ applied' = applied
  <2>1. rows \in [Outpoints -> {NoRow, Unconfirmed} \cup Nat] /\ \A o \in Outpoints : rows[o] # cursor
    BY DEF IInv, TypeOK, NothingToCascade
  <2>2. rows' = [o \in Outpoints |-> rows[o]]
    BY <2>1 DEF DeletesBlock, RowsAfterRewind, RowsAt
  <2>3. rows' = rows
    BY <2>1, <2>2
  <2> QED BY <2>3 DEF DeletesBlock
<1>4. StoresBlocks(s)'
  BY <1>2 DEF StoresBlocks, BeingRewound, BlocksOf
<1>5. StoresRecords(s)'
  BY <1>3, RecordsStay DEF Image
<1> QED BY <1>2, <1>4, <1>5

LEMMA InitRewindRecordsImage ==
  ASSUME WellFormed(NodeState), NEW s \in NodeStates, Image(s), InitRewindRecords,
         TypeOK, HoldsBlock, RewindFindsItsBlock
  PROVE  WellFormed(NodeState)' /\ \E t \in NodeStates : Image(t)' /\ Moves(s, t)
<1> DEFINE t == WithoutTip(s)
<1>1. /\ phase = "rewind" /\ phase' = "delete" /\ UNCHANGED <<nodeVars, inbox, cursor, current>>
      /\ RewindsRecords(cursor) /\ blockTable' = blockTable
  BY DEF InitRewindRecords, RewindsRecords
<1>2. /\ cursor = Len(s.chain) /\ s.pool = {}
      /\ Height[current] <= Len(s.chain)
      /\ current = IF Height[current] = 0 THEN Genesis ELSE s.chain[Height[current]]
      /\ Height[current] <= Len(chain)
      /\ \A i \in 1..Height[current] : s.chain[i] = chain[i]
  BY <1>1 DEF Image, Reconciles
<1>3. cursor > Height[current] /\ current \in Blocks \cup {Genesis}
  BY <1>1 DEF RewindFindsItsBlock, HoldsBlock, TypeOK
<1>4. Height[current] \in Nat
  BY <1>3, ConstantsAssumption
<1>5. s.chain # <<>>
  BY <1>2, <1>3, <1>4, EmptySeq
<1>6. /\ t \in NodeStates /\ WellFormed(t) /\ t.pool = s.pool /\ Moves(s, t)
      /\ Len(t.chain) = Len(s.chain) - 1 /\ Len(s.chain) \in Nat
      /\ \A i \in 1..Len(t.chain) : t.chain[i] = s.chain[i]
  BY <1>5, WithoutTipProperties DEF Image
<1>7. StoresBlocks(t)' /\ StoresRecords(t)'
  <2>1. blockTable = BlocksOf(s.chain)
    BY <1>1, StoredBlocks
  <2> QED BY <1>1, <1>2, <1>5, <2>1, RecordsAfterRewindOfTip, BlocksAfterRewindOfTip DEF Image
<1> HIDE DEF t
<1>8. Reconciles(t)'
  <2>1. Height[current] <= Len(t.chain)
    BY <1>2, <1>3, <1>4, <1>6
  <2>2. \A i \in 1..Height[current] : i \in 1..Len(t.chain)
    BY <1>4, <1>6, <2>1
  <2>3. Height[current] # 0 => Height[current] \in 1..Height[current]
    BY <1>4
  <2> QED BY <1>1, <1>2, <1>6, <2>1, <2>2, <2>3 DEF Reconciles, nodeVars
<1>9. WellFormed(NodeState)' /\ Remembers(t)' /\ Follows(t)'
  BY <1>1 DEF NodeState, nodeVars, Remembers, Follows, Image, Subscribed
<1>10. Image(t)'
  BY <1>6, <1>7, <1>8, <1>9 DEF Image
<1> QED BY <1>6, <1>9, <1>10

LEMMA InitDeleteBlockImage ==
  ASSUME IInv, WellFormed(NodeState), NEW s \in NodeStates, Image(s), InitDeleteBlock
  PROVE  WellFormed(NodeState)' /\ \E t \in NodeStates : Image(t)' /\ Moves(s, t)
<1>1. /\ phase = "delete" /\ UNCHANGED <<nodeVars, inbox, current, memVars>>
      /\ DeletesBlock(cursor) /\ cursor' = cursor - 1
      /\ phase' = IF cursor - 1 > Height[current] THEN "rewind" ELSE "sync"
  BY DEF InitDeleteBlock, DeletesBlock
<1>2. StoresBlocks(s)' /\ StoresRecords(s)'
  BY <1>1, AfterDeletesBlock
<1>3. Reconciles(s)'
  <2>1. cursor = Len(s.chain) + 1 /\ Len(s.chain) \in Nat
    BY <1>1, ChainType DEF Image, StoresBlocks
  <2>2. cursor' = Len(s.chain)
    BY <1>1, <2>1
  <2>3. current \in Blocks \cup {Genesis}
    BY <1>1 DEF IInv, TypeOK, HoldsBlock
  <2>4. Height[current] \in Nat
    BY <2>3, ConstantsAssumption
  <2>5. phase' = "sync" => Height[current] = Len(s.chain)
    BY <1>1, <2>1, <2>4 DEF Image, Reconciles
  <2> QED BY <1>1, <2>2, <2>5 DEF Image, Reconciles, nodeVars
<1>4. WellFormed(NodeState)' /\ WellFormed(s)' /\ Remembers(s)' /\ Follows(s)'
  BY <1>1 DEF NodeState, nodeVars, Remembers, Follows, Image, Subscribed
<1>5. Image(s)'
  BY <1>2, <1>3, <1>4 DEF Image
<1> QED BY <1>4, <1>5 DEF Moves

-----------------------------------------------------------------------------
(* init(): the block sync and the mempool sync.                            *)

LEMMA PrefixProperties ==
  ASSUME NEW S, NEW c \in Seq(S), NEW n \in 0..Len(c)
  PROVE  /\ SubSeq(c, 1, n) \in Seq(S) /\ Len(SubSeq(c, 1, n)) = n
         /\ \A i \in 1..n : SubSeq(c, 1, n)[i] = c[i]
<1>1. n \in Nat /\ \A i \in 1..n : c[i] \in S
  BY LenProperties
<1> DEFINE d == SubSeq(c, 1, n)
<1>2. d \in Seq(S) /\ Len(d) = (IF 1 <= n THEN n - 1 + 1 ELSE 0)
      /\ \A i \in 1..(n - 1 + 1) : d[i] = c[1 + i - 1]
  BY <1>1, SubSeqProperties
<1> HIDE DEF d
<1>3. n - 1 + 1 = n /\ \A i \in 1..n : 1 + i - 1 = i
  BY <1>1
<1>4. Len(d) = n
  BY <1>1, <1>2
<1>5. \A i \in 1..n : d[i] = c[i]
  BY <1>2, <1>3
<1> QED BY <1>2, <1>4, <1>5 DEF d

\* The state that a round of the block sync reaches: more of the node's chain.
SyncedTo(n) == [chain |-> SubSeq(chain, 1, n), pool |-> {}]

LEMMA SyncedToProperties ==
  ASSUME TypeOK, WellFormed(NodeState), NEW n \in 0..Len(chain)
  PROVE  /\ SyncedTo(n) \in NodeStates /\ WellFormed(SyncedTo(n))
         /\ SyncedTo(n).pool = {} /\ Len(SyncedTo(n).chain) = n
         /\ \A i \in 1..n : i \in 1..Len(chain) /\ SyncedTo(n).chain[i] = chain[i]
<1> DEFINE t == SyncedTo(n)
<1>1. chain \in Seq(Blocks) /\ n \in Nat /\ Len(chain) \in Nat
  BY DEF TypeOK
<1>2. /\ SubSeq(chain, 1, n) \in Seq(Blocks) /\ Len(SubSeq(chain, 1, n)) = n
      /\ \A i \in 1..n : SubSeq(chain, 1, n)[i] = chain[i]
  BY <1>1, PrefixProperties
<1>3. t.pool = {} /\ t.chain = SubSeq(chain, 1, n)
  BY DEF SyncedTo
<1>4. t \in NodeStates
  BY <1>2 DEF SyncedTo, NodeStates
<1> HIDE DEF t
<1>5. \A i \in 1..n : i \in 1..Len(chain)
  BY <1>1
<1>6. NodeState \in NodeStates /\ NodeState.chain = chain
  BY NodeStateType DEF NodeState
<1>7. \A i \in 1..Len(t.chain) : i \in 1..Len(NodeState.chain) /\ t.chain[i] = NodeState.chain[i]
  BY <1>2, <1>3, <1>5, <1>6
<1>8. WellFormed(t)
  BY <1>3, <1>4, <1>6, <1>7, LowerChainWellFormed
<1> QED BY <1>2, <1>3, <1>4, <1>5, <1>8 DEF t

\* A round of the block sync puts blocks of the node's chain on top; the last
\* one makes the two chains equal.
LEMMA InitSyncBlocksImage ==
  ASSUME IInv, WellFormed(NodeState), NEW s \in NodeStates, Image(s), InitSyncBlocks
  PROVE  WellFormed(NodeState)' /\ \E t \in NodeStates : Image(t)' /\ Moves(s, t)
<1> DEFINE h == Height[current]
           k == SyncLength
           n == h + k
           queue == UNION {BlockOutpoints(b) : b \in SyncRange}
<1>0. phase = "sync" /\ TypeOK
  BY DEF InitSyncBlocks, IInv
<1>1. /\ h = Len(s.chain) /\ h <= Len(chain) /\ s.pool = {}
      /\ \A i \in 1..h : s.chain[i] = chain[i]
      /\ current = IF h = 0 THEN Genesis ELSE s.chain[h]
      /\ h \in Nat /\ Len(chain) \in Nat
  BY <1>0, ChainType DEF Image, Reconciles, TypeOK
<1>2. /\ k \in Nat /\ n \in 0..Len(chain)
      /\ k # BlockRange => n = Len(chain)
  <2>1. h \in Nat /\ Len(chain) \in Nat /\ h <= Len(chain) /\ BlockRange \in Nat \ {0}
    BY <1>1, ConstantsAssumption
  <2>2. k = LET above == Len(chain) - h
            IN IF above > BlockRange THEN BlockRange ELSE IF above > 0 THEN above ELSE 0
    BY DEF SyncLength
  <2> HIDE DEF h, k
  <2> QED BY ONLY <2>1, <2>2
<1>3. SyncRange = {chain[h + i] : i \in 1..k}
  BY DEF SyncRange
<1>4. CASE Throws
  BY <1>0, <1>4, ThrowsImage
<1>5. CASE ~Throws
  <2>1. /\ blockTable' = blockTable \cup SyncRange
        /\ rows' = [o \in Outpoints |->
                      IF o \in queue \cap Recorded /\ rows[o] = NoRow
                      THEN SyncHeight(SyncRange, o) ELSE rows[o]]
        /\ applied' = CountsAfterUpsert(queue)
        /\ current' = IF k = 0 THEN current ELSE chain[n]
        /\ IF MoreToSync
           THEN UNCHANGED <<phase, checkpoint>>
           ELSE phase' = "mempool" /\ checkpoint' = current'
        /\ UNCHANGED <<nodeVars, inbox, cursor, mempool, txidIndex, crashes>>
    BY <1>5 DEF InitSyncBlocks
  <2> HIDE DEF h, k, queue
  <2> PICK t : t = SyncedTo(n)
    OBVIOUS
  <2>2. /\ t \in NodeStates /\ WellFormed(t) /\ t.pool = {} /\ Len(t.chain) = n
        /\ \A i \in 1..n : i \in 1..Len(chain) /\ t.chain[i] = chain[i]
    BY <1>0, <1>2, SyncedToProperties
  <2>3. \A i \in 1..h : i \in 1..n /\ t.chain[i] = s.chain[i]
    BY <1>1, <1>2, <2>2
  <2>4. \A i \in 1..n : i \in 1..h \/ \E j \in 1..k : i = h + j
    <3> TAKE i \in 1..n
    <3>1. i \in 1..h \/ (i - h \in 1..k /\ i = h + (i - h))
      BY <1>1, <1>2
    <3> QED BY <3>1
  <2>5. \A j \in 1..k : h + j \in 1..n
    BY <1>1, <1>2
  <2>6. \A j \in 1..k : h + j \notin 1..h
    BY <1>1, <1>2
  <2> HIDE DEF n
  <2>7. BlocksOf(t.chain) = BlocksOf(s.chain) \cup SyncRange
    <3>1. BlocksOf(t.chain) = {chain[i] : i \in 1..n} /\ BlocksOf(s.chain) = {chain[i] : i \in 1..h}
      BY <1>1, <2>2 DEF BlocksOf
    <3>2. \A i \in 1..h : i \in 1..n
      BY <2>3
    <3> QED BY <1>3, <2>4, <2>5, <3>1, <3>2
  <2>8. WellFormed(NodeState)' /\ WellFormed(t)'
    BY <2>1, <2>2 DEF NodeState, nodeVars
  <2>9. phase' \in {"sync", "mempool"}
    BY <1>0, <2>1
  <2>10. StoresBlocks(t)'
    <3>1. blockTable' = BlocksOf(t.chain)
      BY <1>0, <2>1, <2>7, StoredBlocks
    <3> QED BY <2>9, <3>1 DEF StoresBlocks, BeingRewound, BlocksOf
  <2>11. StoresRecords(t)'
    <3>1. \A x : \A j \in 1..k :
            x \in BlockOutpoints(chain[h + j]) <=>
              x \in Outpoints /\ TxOf[x] \in BlockTxs[t.chain[h + j]]
      BY <2>2, <2>5 DEF BlockOutpoints, OutpointsOf
    <3>2. \A o \in Outpoints :
            o \in queue <=> \E j \in 1..k : TxOf[o] \in BlockTxs[t.chain[h + j]]
      BY <1>3, <3>1 DEF queue
    <3>3. \A o \in queue : \E j \in 1..k :
            /\ TxOf[o] \in BlockTxs[t.chain[h + j]]
            /\ SyncHeight(SyncRange, o) = h + j
      <4> TAKE o \in queue
      <4>1. \E b \in SyncRange : o \in BlockOutpoints(b)
        BY DEF queue
      <4>2. BlockIn(SyncRange, o) \in SyncRange /\ o \in BlockOutpoints(BlockIn(SyncRange, o))
        BY <4>1 DEF BlockIn
      <4>3. PICK j \in 1..k : BlockIn(SyncRange, o) = chain[h + j]
        BY <1>3, <4>2
      <4>4. TxOf[o] \in BlockTxs[t.chain[h + j]]
        BY <3>1, <4>2, <4>3
      <4>5. Height[chain[h + j]] = h + j
        BY <2>2, <2>5 DEF WellFormed
      <4> QED BY <4>3, <4>4, <4>5 DEF SyncHeight
    <3>4. Recorded \subseteq Outpoints
      BY DEF Recorded
    <3>5. ASSUME NEW o \in Recorded
          PROVE  /\ \/ TxOf[o] \in t.pool /\ rows'[o] = Unconfirmed
                    \/ \E i \in 1..n : TxOf[o] \in BlockTxs[t.chain[i]] /\ rows'[o] = i
                    \/ TxOf[o] \notin t.pool /\ ~Mined(t.chain, TxOf[o]) /\ rows'[o] = NoRow
                 /\ applied'[o] = IF rows'[o] = NoRow THEN 0 ELSE 1
      <4>1. /\ rows'[o] = IF o \in queue /\ rows[o] = NoRow THEN SyncHeight(SyncRange, o) ELSE rows[o]
            /\ applied'[o] = IF o \in queue THEN applied[o] + 1 ELSE applied[o]
            /\ applied[o] = IF rows[o] = NoRow THEN 0 ELSE 1
        BY <2>1, <3>4 DEF CountsAfterUpsert, Image, StoresRecords
      <4>2. CASE \E i \in 1..h : TxOf[o] \in BlockTxs[s.chain[i]] /\ rows[o] = i
        <5> PICK i \in 1..h : TxOf[o] \in BlockTxs[s.chain[i]] /\ rows[o] = i
          BY <4>2
        <5>1. TxOf[o] \in BlockTxs[t.chain[i]] /\ i \in 1..n /\ rows[o] # NoRow
          BY <1>1, <2>3
        <5>2. o \notin queue
          <6> SUFFICES ASSUME o \in queue PROVE FALSE
            OBVIOUS
          <6>1. PICK j \in 1..k : TxOf[o] \in BlockTxs[t.chain[h + j]]
            BY <3>2, <3>4
          <6>2. i = h + j
            BY <2>2, <2>5, <5>1, <6>1 DEF WellFormed
          <6> QED BY <2>6, <6>2
        <5> QED BY <4>1, <5>1, <5>2
      <4>3. CASE ~Mined(s.chain, TxOf[o]) /\ rows[o] = NoRow
        <5>1. CASE o \in queue
          <6>1. PICK j \in 1..k : /\ TxOf[o] \in BlockTxs[t.chain[h + j]]
                                  /\ SyncHeight(SyncRange, o) = h + j
            BY <3>3, <5>1
          <6>2. rows'[o] = h + j /\ h + j \in 1..n /\ h + j # NoRow
            BY <1>1, <2>5, <4>1, <4>3, <5>1, <6>1
          <6> QED BY <4>1, <4>3, <5>1, <6>1, <6>2
        <5>2. CASE o \notin queue
          <6>1. \A i \in 1..h : TxOf[o] \notin BlockTxs[t.chain[i]]
            BY <1>1, <2>3, <4>3 DEF Mined
          <6>2. ~Mined(t.chain, TxOf[o])
            BY <2>2, <2>4, <3>2, <3>4, <5>2, <6>1 DEF Mined
          <6> QED BY <2>2, <4>1, <4>3, <5>2, <6>2
        <5> QED BY <5>1, <5>2
      <4> QED BY <1>1, <4>2, <4>3 DEF Image, StoresRecords
    <3>6. \A o \in Outpoints \ Recorded : rows'[o] = NoRow
      BY <2>1 DEF Image, StoresRecords
    <3> QED BY <2>2, <3>5, <3>6 DEF StoresRecords
  <2>12. TipOf(t.chain) = current' /\ Height[current'] = n
    <3>1. CASE k = 0
      <4>1. n = h /\ current' = current
        BY <1>1, <2>1, <3>1 DEF n
      <4>2. current = TipOf(t.chain)
        <5>1. CASE h = 0
          BY <1>1, <2>2, <4>1, <5>1, TipProperties
        <5>2. CASE h # 0
          <6>1. h \in 1..h /\ t.chain # <<>>
            BY <1>1, <2>2, <4>1, <5>2, TipProperties
          <6> QED BY <1>1, <2>2, <2>3, <4>1, <5>2, <6>1, TipProperties
        <5> QED BY <5>1, <5>2
      <4> QED BY <2>2, <4>1, <4>2, TipProperties
    <3>2. CASE k # 0
      <4>1. n \in 1..n /\ n # 0
        BY <1>1, <1>2, <3>2 DEF n
      <4>2. current' = t.chain[n] /\ t.chain # <<>>
        BY <2>1, <2>2, <3>2, <4>1, TipProperties
      <4> QED BY <2>2, <4>2, TipProperties
    <3> QED BY <3>1, <3>2
  <2>13. phase' = "mempool" => n = Len(chain)
    BY <1>0, <1>2, <2>1 DEF MoreToSync, k
  <2>14. n = Len(chain) => t.chain = chain
    BY <1>0, <2>2, SeqEqual, ChainType DEF TypeOK
  <2>15. Reconciles(t)'
    <3>1. phase' = "mempool" => t.chain = chain'
      BY <2>1, <2>13, <2>14 DEF nodeVars
    <3>2. current' = IF n = 0 THEN Genesis ELSE t.chain[n]
      BY <2>2, <2>12, TipProperties
    <3>3. n <= Len(chain) /\ \A i \in 1..n : t.chain[i] = chain[i]
      BY <1>1, <1>2, <2>2
    <3>4. n <= n
      BY <1>1, <1>2
    <3> QED BY <2>1, <2>2, <2>9, <2>12, <3>1, <3>2, <3>3, <3>4 DEF Reconciles, nodeVars
  <2>16. Remembers(t)'
    BY <2>1, <2>9, <2>12, <1>0 DEF Remembers
  <2>17. Follows(t)'
    BY <1>0, <2>1, <2>9 DEF Image, Follows, Subscribed
  <2>18. Image(t)'
    BY <2>8, <2>10, <2>11, <2>15, <2>16, <2>17 DEF Image
  <2>19. Moves(s, t)
    <3>1. CASE k = 0
      <4>1. n = h
        BY <1>1, <3>1 DEF n
      <4>2. t.chain = s.chain
        BY <1>1, <2>2, <2>3, <4>1, SeqEqual, ChainType
      <4> QED BY <1>1, <2>2, <4>2 DEF Moves
    <3>2. CASE k # 0
      <4>1. n > h
        BY <1>1, <1>2, <3>2 DEF n
      <4> QED BY <1>1, <2>2, <2>3, <4>1 DEF Moves
    <3> QED BY <3>1, <3>2
  <2> QED BY <2>2, <2>8, <2>18, <2>19
<1> QED BY <1>4, <1>5

\* Transactions that are in no block and not in the mempool are upserted as
\* unconfirmed.
LEMMA RecordsAfterUpsert ==
  ASSUME NEW s \in NodeStates, StoresRecords(s), NEW new,
         \A x \in new : x \notin s.pool /\ ~Mined(s.chain, x),
         NEW t, t.chain = s.chain, t.pool = s.pool \cup new,
         rows' = RowsAfterUpsert(OutpointsOf(new), Unconfirmed),
         applied' = CountsAfterUpsert(OutpointsOf(new))
  PROVE  StoresRecords(t)'
<1>1. \A o \in Outpoints :
        /\ o \in OutpointsOf(new) <=> TxOf[o] \in new
        /\ rows'[o] = IF TxOf[o] \in new /\ o \in Recorded /\ rows[o] = NoRow
                      THEN Unconfirmed ELSE rows[o]
        /\ applied'[o] = IF TxOf[o] \in new THEN applied[o] + 1 ELSE applied[o]
  BY DEF OutpointsOf, RowsAfterUpsert, CountsAfterUpsert
<1>2. Recorded \subseteq Outpoints
  BY DEF Recorded
<1>3. ASSUME NEW o \in Recorded
      PROVE  /\ \/ TxOf[o] \in t.pool /\ rows'[o] = Unconfirmed
                \/ \E i \in 1..Len(t.chain) : TxOf[o] \in BlockTxs[t.chain[i]] /\ rows'[o] = i
                \/ TxOf[o] \notin t.pool /\ ~Mined(t.chain, TxOf[o]) /\ rows'[o] = NoRow
             /\ applied'[o] = IF rows'[o] = NoRow THEN 0 ELSE 1
  <2>1. applied[o] = IF rows[o] = NoRow THEN 0 ELSE 1
    BY DEF StoresRecords
  <2>2. CASE TxOf[o] \in new
    <3>1. rows[o] = NoRow
      BY <2>2 DEF StoresRecords, Mined
    <3> QED BY <1>1, <1>2, <2>1, <2>2, <3>1
  <2>3. CASE TxOf[o] \notin new
    <3>1. rows'[o] = rows[o] /\ applied'[o] = applied[o]
      BY <1>1, <1>2, <2>3
    <3> QED BY <2>1, <2>3, <3>1 DEF StoresRecords
  <2> QED BY <2>2, <2>3
<1>4. \A o \in Outpoints \ Recorded : rows'[o] = NoRow
  BY <1>1 DEF StoresRecords
<1> QED BY <1>3, <1>4 DEF StoresRecords

\* The mempool sync completes the image of the node.
LEMMA InitSyncMempoolImage ==
  ASSUME TypeOK, WellFormed(NodeState), NEW s \in NodeStates, Image(s), InitSyncMempool
  PROVE  WellFormed(NodeState)' /\ \E t \in NodeStates : Image(t)' /\ Moves(s, t)
<1> DEFINE queue == OutpointsOf(nodeMempool)
<1> PICK t : t = NodeState
  OBVIOUS
<1>0. /\ phase = "mempool" /\ s.chain = chain /\ s.pool = {}
      /\ t \in NodeStates /\ t.chain = chain /\ t.pool = nodeMempool
  BY NodeStateType DEF InitSyncMempool, Image, Reconciles, NodeState
<1>1. CASE Throws
  BY <1>0, <1>1, ThrowsImage
<1>2. CASE ~Throws
  <2>1. /\ rows' = RowsAfterUpsert(queue, Unconfirmed)
        /\ applied' = CountsAfterUpsert(queue)
        /\ mempool' = queue
        /\ phase' = "subscribe"
        /\ UNCHANGED <<nodeVars, inbox, current, cursor, checkpoint, blockTable>>
    BY <1>2 DEF InitSyncMempool
  <2>2. WellFormed(NodeState)' /\ NodeState' = t
    BY <2>1 DEF NodeState, nodeVars
  <2>3. blockTable' = BlocksOf(t.chain)
    BY <1>0, <2>1, StoredBlocks
  <2>4. StoresBlocks(t)'
    BY <2>1, <2>3 DEF StoresBlocks, BeingRewound, BlocksOf
  <2>9. StoresRecords(t)'
    <3>1. /\ t.chain = s.chain /\ t.pool = s.pool \cup nodeMempool
          /\ \A x \in nodeMempool : x \notin s.pool /\ ~Mined(s.chain, x)
      BY <1>0 DEF WellFormed
    <3> QED BY <2>1, <3>1, RecordsAfterUpsert DEF Image
  <2>10. Reconciles(t)' /\ Remembers(t)' /\ Follows(t)'
    BY <1>0, <2>1 DEF Image, Reconciles, Remembers, Follows, Subscribed, nodeVars
  <2>11. Image(t)'
    BY <2>2, <2>4, <2>9, <2>10 DEF Image
  <2>12. Moves(s, t)
    BY <1>0 DEF Moves
  <2> QED BY <1>0, <2>2, <2>11, <2>12
<1> QED BY <1>1, <1>2

-----------------------------------------------------------------------------
(* The handlers.                                                           *)

\* The event that a handler receives tells of the change that comes next.
LEMMA NextChange ==
  ASSUME TypeOK, NEW s \in NodeStates, Image(s), NEW type, Receives(type)
  PROVE  \E t \in NodeStates :
           /\ WellFormed(t) /\ Changes(s, Head(inbox), t)
           /\ Leads(t, Tail(inbox), NodeState)
<1>1. inbox \in Seq(Messages) /\ inbox # <<>> /\ Leads(s, inbox, NodeState)
  BY DEF TypeOK, Receives, Image, Follows, Subscribed
<1>2. PICK t \in NodeStates : Changes(s, Head(inbox), t) /\ Leads(t, Tail(inbox), NodeState)
  BY <1>1, LeadsOn
<1>3. WellFormed(t)
  BY <1>2, ChangesWellFormed DEF Image
<1> QED BY <1>2, <1>3

\* A transaction enters the mempool.
LEMMA MempoolTxAddImage ==
  ASSUME TypeOK, WellFormed(NodeState), NEW s \in NodeStates, Image(s), nngMempoolTxAdd
  PROVE  WellFormed(NodeState)' /\ \E t \in NodeStates : Image(t)' /\ Moves(s, t)
<1> DEFINE x == Head(inbox).tx
           queue == OutpointsOf({x})
<1>0. Receives("mempooltxadd") /\ phase = "running"
  BY DEF nngMempoolTxAdd, Receives
<1>1. CASE Throws
  BY <1>0, <1>1, ThrowsImage
<1>2. CASE ~Throws
  <2>1. /\ mempool' = mempool \cup queue
        /\ rows' = RowsAfterUpsert(queue, Unconfirmed)
        /\ applied' = CountsAfterUpsert(queue)
        /\ inbox' = Tail(inbox)
        /\ UNCHANGED <<nodeVars, phase, current, cursor, checkpoint, blockTable>>
    BY <1>2 DEF nngMempoolTxAdd
  <2>2. PICK t \in NodeStates :
          /\ WellFormed(t) /\ Changes(s, Head(inbox), t)
          /\ Leads(t, Tail(inbox), NodeState)
    BY <1>0, NextChange
  <2>3. Adds(s, Head(inbox), t)
    BY <1>0, <2>2 DEF Receives, Changes, Removes, Connects, Disconnects
  <2>4. /\ t.chain = s.chain /\ t.pool = s.pool \cup {x}
        /\ x \notin s.pool /\ ~Mined(s.chain, x)
    BY <2>3 DEF Adds
  <2> HIDE DEF x
  <2>5. WellFormed(NodeState)' /\ NodeState' = NodeState /\ WellFormed(t)'
    BY <2>1, <2>2 DEF NodeState, nodeVars
  <2>6. StoresBlocks(t)'
    BY <1>0, <2>1, <2>4 DEF Image, StoresBlocks, BeingRewound
  <2>7. StoresRecords(t)'
    BY <2>1, <2>4, RecordsAfterUpsert DEF Image
  <2>8. Reconciles(t)' /\ Follows(t)'
    BY <1>0, <2>1, <2>2, <2>5 DEF Reconciles, Follows, Subscribed
  <2>9. Remembers(t)'
    <3>1. mempool' = OutpointsOf(t.pool)
      BY <1>0, <2>1, <2>4 DEF Image, Remembers, OutpointsOf
    <3> QED BY <1>0, <2>1, <2>4, <3>1 DEF Image, Remembers
  <2>10. Image(t)'
    BY <2>5, <2>6, <2>7, <2>8, <2>9 DEF Image
  <2>11. Moves(s, t)
    BY <2>4 DEF Moves
  <2> QED BY <2>2, <2>5, <2>10, <2>11
<1> QED BY <1>1, <1>2

\* A transaction leaves the mempool: the index lists all of its outputs.
LEMMA MempoolTxRemoveImage ==
  ASSUME TypeOK, CacheIsUnconfirmed, WellFormed(NodeState), NEW s \in NodeStates, Image(s),
         nngMempoolTxRemove
  PROVE  WellFormed(NodeState)' /\ \E t \in NodeStates : Image(t)' /\ Moves(s, t)
<1> DEFINE x == Head(inbox).tx
           listed == ListedOutputs(x)
           queue == listed \cap mempool
<1>0. Receives("mempooltxrem") /\ phase = "running"
  BY DEF nngMempoolTxRemove, Receives
<1>1. /\ mempool' = mempool \ listed
      /\ rows' = RowsAfterRewind(queue)
      /\ applied' = CountsAfterRewind(queue)
      /\ inbox' = Tail(inbox)
      /\ UNCHANGED <<nodeVars, phase, current, cursor, checkpoint, blockTable>>
  BY DEF nngMempoolTxRemove
<1>2. PICK t \in NodeStates :
        /\ WellFormed(t) /\ Changes(s, Head(inbox), t)
        /\ Leads(t, Tail(inbox), NodeState)
  BY <1>0, NextChange
<1>3. Removes(s, Head(inbox), t)
  BY <1>0, <1>2 DEF Receives, Changes, Adds, Connects, Disconnects
<1>4. t.chain = s.chain /\ t.pool = s.pool \ {x} /\ x \in s.pool
  BY <1>3 DEF Removes
<1> HIDE DEF x
<1>5. mempool = OutpointsOf(s.pool) /\ mempool \subseteq txidIndex
  BY <1>0 DEF Image, Remembers, CacheIsUnconfirmed
<1>6. listed \cap mempool = OutpointsOf({x}) /\ listed \subseteq OutpointsOf({x})
  BY <1>4, <1>5 DEF ListedOutputs, OutpointsOf
<1> HIDE DEF listed
<1>7. WellFormed(NodeState)' /\ NodeState' = NodeState /\ WellFormed(t)'
  BY <1>1, <1>2 DEF NodeState, nodeVars
<1>8. StoresBlocks(t)'
  BY <1>0, <1>1, <1>4 DEF Image, StoresBlocks, BeingRewound
<1>9. StoresRecords(t)'
  <2>1. \A o \in Outpoints :
          /\ rows'[o] = IF TxOf[o] = x THEN NoRow ELSE rows[o]
          /\ applied'[o] = IF TxOf[o] = x THEN applied[o] - 1 ELSE applied[o]
    BY <1>1, <1>6 DEF RowsAfterRewind, CountsAfterRewind, OutpointsOf
  <2>2. Recorded \subseteq Outpoints
    BY DEF Recorded
  <2>3. ASSUME NEW o \in Recorded
        PROVE  /\ \/ TxOf[o] \in t.pool /\ rows'[o] = Unconfirmed
                  \/ \E i \in 1..Len(t.chain) : TxOf[o] \in BlockTxs[t.chain[i]] /\ rows'[o] = i
                  \/ TxOf[o] \notin t.pool /\ ~Mined(t.chain, TxOf[o]) /\ rows'[o] = NoRow
               /\ applied'[o] = IF rows'[o] = NoRow THEN 0 ELSE 1
    <3>1. applied[o] = IF rows[o] = NoRow THEN 0 ELSE 1
      BY DEF Image, StoresRecords
    <3>2. CASE TxOf[o] = x
      <4>1. ~Mined(s.chain, TxOf[o])
        BY <1>4, <3>2 DEF Image, WellFormed
      <4>2. rows[o] = Unconfirmed
        BY <1>4, <3>2, <4>1 DEF Image, StoresRecords, Mined
      <4> QED BY <1>4, <2>1, <2>2, <3>1, <3>2, <4>1, <4>2
    <3>3. CASE TxOf[o] # x
      <4>1. rows'[o] = rows[o] /\ applied'[o] = applied[o]
        BY <2>1, <2>2, <3>3
      <4> QED BY <1>4, <3>1, <3>3, <4>1 DEF Image, StoresRecords
    <3> QED BY <3>2, <3>3
  <2>4. \A o \in Outpoints \ Recorded : rows'[o] = NoRow
    BY <2>1 DEF Image, StoresRecords
  <2> QED BY <2>3, <2>4 DEF StoresRecords
<1>10. Reconciles(t)' /\ Follows(t)'
  BY <1>0, <1>1, <1>2, <1>7 DEF Reconciles, Follows, Subscribed
<1>11. Remembers(t)'
  <2>1. mempool' = OutpointsOf(t.pool)
    BY <1>1, <1>4, <1>5, <1>6 DEF OutpointsOf
  <2> QED BY <1>0, <1>1, <1>4, <2>1 DEF Image, Remembers
<1>12. Image(t)'
  BY <1>7, <1>8, <1>9, <1>10, <1>11 DEF Image
<1>13. Moves(s, t)
  BY <1>4 DEF Moves
<1> QED BY <1>2, <1>7, <1>12, <1>13

\* A block on top: its cached outputs are connected, the others inserted.
LEMMA RecordsAfterConnect ==
  ASSUME NEW s \in NodeStates, WellFormed(s), StoresRecords(s), mempool = OutpointsOf(s.pool),
         NEW b \in Blocks, \A x \in BlockTxs[b] : ~Mined(s.chain, x),
         NEW t \in NodeStates,
         t.chain = Append(s.chain, b), t.pool = s.pool \ BlockTxs[b],
         Height[b] = Len(s.chain) + 1,
         \A o \in CachedOutputs(b) : rows[o] # NoRow,
         rows' = [o \in Outpoints |->
                    IF o \in CachedOutputs(b) THEN Height[b]
                    ELSE RowsAfterUpsert(MissingOutputs(b), Height[b])[o]],
         applied' = CountsAfterUpsert(MissingOutputs(b))
  PROVE  StoresRecords(t)'
<1> DEFINE n == Len(s.chain)
<1>1. /\ n \in Nat /\ Len(t.chain) = n + 1 /\ t.chain[n + 1] = b
      /\ \A i \in 1..n : t.chain[i] = s.chain[i]
  BY ChainType, ChainAfterConnect
<1>2. 1..(n + 1) = 1..n \cup {n + 1} /\ n + 1 # NoRow /\ n + 1 # Unconfirmed
  BY <1>1
<1>3. \A o \in Outpoints :
        /\ o \in CachedOutputs(b) <=> TxOf[o] \in BlockTxs[b] /\ TxOf[o] \in s.pool
        /\ o \in MissingOutputs(b) <=> TxOf[o] \in BlockTxs[b] /\ TxOf[o] \notin s.pool
  BY DEF CachedOutputs, MissingOutputs, BlockOutpoints, OutpointsOf
<1>4. Recorded \subseteq Outpoints
  BY DEF Recorded
<1>5. \A o \in Outpoints :
        /\ rows'[o] = IF o \in CachedOutputs(b) THEN n + 1
                      ELSE IF o \in MissingOutputs(b) /\ o \in Recorded /\ rows[o] = NoRow
                      THEN n + 1 ELSE rows[o]
        /\ applied'[o] = IF o \in MissingOutputs(b) THEN applied[o] + 1 ELSE applied[o]
  BY DEF RowsAfterUpsert, CountsAfterUpsert
<1> HIDE DEF n
<1>6. ASSUME NEW o \in Recorded
      PROVE  /\ \/ TxOf[o] \in t.pool /\ rows'[o] = Unconfirmed
                \/ \E i \in 1..(n + 1) : TxOf[o] \in BlockTxs[t.chain[i]] /\ rows'[o] = i
                \/ TxOf[o] \notin t.pool /\ ~Mined(t.chain, TxOf[o]) /\ rows'[o] = NoRow
             /\ applied'[o] = IF rows'[o] = NoRow THEN 0 ELSE 1
  <2>1. applied[o] = IF rows[o] = NoRow THEN 0 ELSE 1
    BY DEF StoresRecords
  <2>2. CASE TxOf[o] \in BlockTxs[b]
    <3>1. rows[o] = IF TxOf[o] \in s.pool THEN Unconfirmed ELSE NoRow
      BY <2>2 DEF StoresRecords, Mined
    <3>2. rows'[o] = n + 1 /\ applied'[o] = 1
      BY <1>3, <1>4, <1>5, <2>1, <2>2, <3>1
    <3> QED BY <1>1, <1>2, <2>2, <3>2
  <2>3. CASE TxOf[o] \notin BlockTxs[b]
    <3>1. rows'[o] = rows[o] /\ applied'[o] = applied[o]
      BY <1>3, <1>4, <1>5, <2>3
    <3>2. TxOf[o] \in t.pool <=> TxOf[o] \in s.pool
      BY <2>3
    <3>3. Mined(t.chain, TxOf[o]) => Mined(s.chain, TxOf[o])
      BY <1>1, <1>2, <2>3 DEF Mined, n
    <3>4. CASE TxOf[o] \in s.pool /\ rows[o] = Unconfirmed
      BY <2>1, <3>1, <3>2, <3>4
    <3>5. CASE \E i \in 1..n : TxOf[o] \in BlockTxs[s.chain[i]] /\ rows[o] = i
      BY <1>1, <1>2, <2>1, <3>1, <3>5
    <3>6. CASE TxOf[o] \notin s.pool /\ ~Mined(s.chain, TxOf[o]) /\ rows[o] = NoRow
      BY <2>1, <3>1, <3>2, <3>3, <3>6
    <3> QED BY <3>4, <3>5, <3>6 DEF StoresRecords, n
  <2> QED BY <2>2, <2>3
<1>7. \A o \in Outpoints \ Recorded : rows'[o] = NoRow
  BY <1>5 DEF StoresRecords
<1> QED BY <1>1, <1>6, <1>7 DEF StoresRecords

LEMMA BlockConnectedImage ==
  ASSUME TypeOK, WellFormed(NodeState), NEW s \in NodeStates, Image(s), nngBlockConnected
  PROVE  WellFormed(NodeState)' /\ \E t \in NodeStates : Image(t)' /\ Moves(s, t)
<1> DEFINE event == Head(inbox)
<1>0. Receives("blkconnected") /\ phase = "running"
  BY DEF nngBlockConnected, Receives
<1>1. CASE Throws
  BY <1>0, <1>1, ThrowsImage
<1>2. CASE ~Throws
  <2> PICK b : b = event.block
    OBVIOUS
  <2>1. /\ \A o \in CachedOutputs(b) : rows[o] # NoRow
        /\ mempool' = CacheAfterBlock(b)
        /\ blockTable' = blockTable \cup {b}
        /\ rows' = [o \in Outpoints |->
                      IF o \in CachedOutputs(b) THEN Height[b]
                      ELSE RowsAfterUpsert(MissingOutputs(b), Height[b])[o]]
        /\ applied' = CountsAfterUpsert(MissingOutputs(b))
        /\ checkpoint' = b
        /\ inbox' = Tail(inbox)
        /\ UNCHANGED <<nodeVars, phase, current, cursor>>
    BY <1>2 DEF nngBlockConnected
  <2>2. PICK t \in NodeStates :
          /\ WellFormed(t) /\ Changes(s, event, t)
          /\ Leads(t, Tail(inbox), NodeState)
    BY <1>0, NextChange
  <2>3. Connects(s, event, t)
    BY <1>0, <2>2 DEF Receives, Changes, Adds, Removes, Disconnects
  <2>4. /\ b \in Blocks /\ Parent[b] = TipOf(s.chain)
        /\ \A x \in BlockTxs[b] : ~Mined(s.chain, x)
        /\ t.chain = Append(s.chain, b) /\ t.pool = s.pool \ BlockTxs[b]
    BY <2>3 DEF Connects
  <2> HIDE DEF event
  <2>5. /\ Len(s.chain) \in Nat /\ Len(t.chain) = Len(s.chain) + 1
        /\ \A i \in 1..Len(s.chain) : t.chain[i] = s.chain[i]
        /\ t.chain[Len(s.chain) + 1] = b
    BY <2>4, ChainType, ChainAfterConnect
  <2>6. Height[b] = Len(s.chain) + 1
    BY <2>4, TipProperties, ConstantsAssumption DEF Image
  <2>7. TipOf(t.chain) = b
    <3>1. Len(t.chain) # 0
      BY <2>5
    <3> QED BY <2>2, <2>5, <3>1, TipProperties
  <2>8. WellFormed(NodeState)' /\ NodeState' = NodeState /\ WellFormed(t)'
    BY <2>1, <2>2 DEF NodeState, nodeVars
  <2>9. StoresBlocks(t)'
    <3>1. blockTable' = BlocksOf(t.chain)
      <4>1. blockTable = BlocksOf(s.chain)
        BY <1>0, StoredBlocks
      <4>2. BlocksOf(t.chain) = BlocksOf(s.chain) \cup {b}
        BY <2>4, BlocksAfterConnect
      <4> QED BY ONLY <2>1, <4>1, <4>2
    <3> QED BY <1>0, <2>1, <3>1 DEF StoresBlocks, BeingRewound, BlocksOf
  <2>10. mempool = OutpointsOf(s.pool)
    BY <1>0 DEF Image, Remembers
  <2>11. StoresRecords(t)'
    BY <2>1, <2>2, <2>4, <2>6, <2>10, RecordsAfterConnect DEF Image
  <2>12. Reconciles(t)' /\ Follows(t)'
    BY <1>0, <2>1, <2>2, <2>8 DEF Reconciles, Follows, Subscribed
  <2>13. Remembers(t)'
    <3>1. mempool' = OutpointsOf(t.pool)
      BY <2>1, <2>4, <2>10 DEF CacheAfterBlock, BlockOutpoints, OutpointsOf
    <3> QED BY <1>0, <2>1, <2>7, <3>1 DEF Remembers
  <2>14. Image(t)'
    BY <2>8, <2>9, <2>11, <2>12, <2>13 DEF Image
  <2>15. Moves(s, t)
    <3> DEFINE n == Len(s.chain)
    <3>1. \A i \in 1..Len(t.chain) : i \in 1..n \/ i = n + 1
      BY <2>5
    <3>2. n + 1 \in 1..Len(t.chain) /\ Len(t.chain) > n
      BY <2>5
    <3>3. \A x \in s.pool : ~Mined(s.chain, x)
      BY DEF Image, WellFormed
    <3>4. \A x \in s.pool : Mined(t.chain, x) <=> x \in BlockTxs[b]
      BY <2>5, <3>1, <3>2, <3>3 DEF Mined
    <3>5. t.pool = {x \in s.pool : ~Mined(t.chain, x)}
      BY <2>4, <3>4
    <3> QED BY <2>5, <3>2, <3>5 DEF Moves
  <2> QED BY <2>2, <2>8, <2>14, <2>15
<1> QED BY <1>1, <1>2

\* The tip is taken back: the records go first.
LEMMA BlockDisconnectedImage ==
  ASSUME TypeOK, WellFormed(NodeState), NEW s \in NodeStates, Image(s), nngBlockDisconnected
  PROVE  WellFormed(NodeState)' /\ \E t \in NodeStates : Image(t)' /\ Moves(s, t)
<1> DEFINE h == Height[Head(inbox).block]
<1>0. Receives("blkdisconctd") /\ phase = "running"
  BY DEF nngBlockDisconnected, Receives
<1>1. /\ RewindsRecords(h) /\ cursor' = h /\ phase' = "disconnect" /\ inbox' = Tail(inbox)
      /\ UNCHANGED <<nodeVars, memVars, blockTable>>
  BY DEF nngBlockDisconnected, RewindsRecords
<1>2. PICK t \in NodeStates :
        /\ WellFormed(t) /\ Changes(s, Head(inbox), t)
        /\ Leads(t, Tail(inbox), NodeState)
  BY <1>0, NextChange
<1>3. Disconnects(s, Head(inbox), t)
  BY <1>0, <1>2 DEF Receives, Changes, Adds, Removes, Connects
<1>4. s.chain # <<>> /\ t = WithoutTip(s) /\ h = Height[TipOf(s.chain)]
  BY <1>3 DEF Disconnects, WithoutTip
<1>5. h = Len(s.chain)
  BY <1>4, TipProperties DEF Image
<1> HIDE DEF h
<1>6. WellFormed(NodeState)' /\ NodeState' = NodeState /\ WellFormed(t)'
  BY <1>1, <1>2 DEF NodeState, nodeVars
<1>7. blockTable = BlocksOf(s.chain)
  BY <1>0, StoredBlocks
<1>8. StoresBlocks(t)' /\ StoresRecords(t)'
  BY <1>1, <1>4, <1>5, <1>7, RecordsAfterRewindOfTip, BlocksAfterRewindOfTip DEF Image
<1>9. Reconciles(t)' /\ Follows(t)'
  BY <1>1, <1>2, <1>6 DEF Reconciles, Follows, Subscribed
<1>10. Remembers(t)'
  BY <1>0, <1>1, <1>4 DEF Image, Remembers, WithoutTip, memVars
<1>11. Image(t)'
  BY <1>6, <1>8, <1>9, <1>10 DEF Image
<1>12. Moves(s, t)
  BY <1>4, WithoutTipProperties DEF Image
<1> QED BY <1>2, <1>6, <1>11, <1>12

\* Then the block, which is always there.
LEMMA DisconnectDeleteBlockImage ==
  ASSUME IInv, WellFormed(NodeState), NEW s \in NodeStates, Image(s), DisconnectDeleteBlock
  PROVE  WellFormed(NodeState)' /\ \E t \in NodeStates : Image(t)' /\ Moves(s, t)
<1>0. phase = "disconnect"
  BY DEF DisconnectDeleteBlock
<1>1. StoredAt(cursor) # {}
  BY <1>0 DEF Image, StoresBlocks, BeingRewound
<1>2. /\ DeletesBlock(cursor) /\ phase' = "running"
      /\ checkpoint' \in Blocks \cup {NoBlock} /\ IsHighest(checkpoint', blockTable')
      /\ UNCHANGED <<nodeVars, inbox, current, mempool, txidIndex>>
  BY <1>1 DEF DisconnectDeleteBlock, DeletesBlock
<1>3. blockTable' = BlocksOf(s.chain) /\ StoresBlocks(s)' /\ StoresRecords(s)'
  BY <1>0, <1>2, AfterDeletesBlock
<1>4. WellFormed(NodeState)' /\ NodeState' = NodeState /\ WellFormed(s)'
  BY <1>2 DEF NodeState, nodeVars, Image
<1>5. Reconciles(s)' /\ Follows(s)'
  BY <1>0, <1>2, <1>4 DEF Image, Reconciles, Follows, Subscribed
<1>6. Remembers(s)'
  <2>1. checkpoint' = IF s.chain = <<>> THEN NoBlock ELSE TipOf(s.chain)
    BY <1>2, <1>3, HighestIsTip DEF Image
  <2> QED BY <1>0, <1>2, <2>1 DEF Image, Remembers
<1>7. Image(s)'
  BY <1>3, <1>4, <1>5, <1>6 DEF Image
<1> QED BY <1>4, <1>7 DEF Moves

-----------------------------------------------------------------------------
(* The invariant.                                                          *)

\* An empty database is the image of an empty node.
LEMMA InitImage ==
  ASSUME Init
  PROVE  WellFormed(NodeState) /\ \E s \in NodeStates : Image(s) /\ s.chain = <<>> /\ s.pool = {}
<1> DEFINE s == [chain |-> <<>>, pool |-> {}]
<1>1. s \in NodeStates /\ s.chain = <<>> /\ s.pool = {} /\ NodeState = s
  BY DEF NodeStates, NodeState, Init
<1>2. Len(s.chain) = 0 /\ \A i \in 1..Len(s.chain) : FALSE
  BY EmptySeq
<1> HIDE DEF s
<1>3. WellFormed(s)
  BY <1>1, <1>2 DEF WellFormed
<1>4. StoresBlocks(s)
  <2>1. {s.chain[i] : i \in 1..Len(s.chain)} = {}
    BY <1>2
  <2> QED BY <2>1 DEF Init, StoresBlocks, BeingRewound
<1>5. StoresRecords(s)
  BY <1>1, <1>2 DEF Init, StoresRecords, Mined, Recorded
<1>6. Reconciles(s) /\ Remembers(s) /\ Follows(s)
  BY DEF Init, Reconciles, Remembers, Follows, Subscribed
<1> QED BY <1>1, <1>3, <1>4, <1>5, <1>6 DEF Image

\* Every step keeps an image, and moves it as the readers are promised.
LEMMA NextImage ==
  ASSUME NothingLost, IInv, WellFormed(NodeState), NEW s \in NodeStates, Image(s), [Next]_vars
  PROVE  WellFormed(NodeState)' /\ \E t \in NodeStates : Image(t)' /\ Moves(s, t)
<1>0. TypeOK /\ HoldsBlock /\ RewindFindsItsBlock /\ CacheIsUnconfirmed
  BY DEF IInv
<1>1. CASE NodeStep
  BY <1>1, NodeStepImage
<1>2. CASE InitStep
  <2>1. CASE Start
    BY <2>1, StartImage
  <2>2. CASE Cleanup
    BY <1>0, <2>2, CleanupImage
  <2>3. CASE GetBestBlock
    BY <2>3, GetBestBlockImage
  <2>4. CASE InitRewindRecords
    BY <1>0, <2>4, InitRewindRecordsImage
  <2>5. CASE InitDeleteBlock
    BY <2>5, InitDeleteBlockImage
  <2>6. CASE InitSyncBlocks
    BY <2>6, InitSyncBlocksImage
  <2>7. CASE InitSyncMempool
    BY <1>0, <2>7, InitSyncMempoolImage
  <2>8. CASE Subscribe
    BY <1>0, <2>8, SubscribeImage
  <2> QED BY <1>2, <2>1, <2>2, <2>3, <2>4, <2>5, <2>6, <2>7, <2>8 DEF InitStep
<1>3. CASE HandlerStep
  <2>1. CASE nngMempoolTxAdd
    BY <1>0, <2>1, MempoolTxAddImage
  <2>2. CASE nngMempoolTxRemove
    BY <1>0, <2>2, MempoolTxRemoveImage
  <2>3. CASE nngBlockConnected
    BY <1>0, <2>3, BlockConnectedImage
  <2>4. CASE nngBlockDisconnected
    BY <1>0, <2>4, BlockDisconnectedImage
  <2>5. CASE DisconnectDeleteBlock
    BY <2>5, DisconnectDeleteBlockImage
  <2> QED BY <1>3, <2>1, <2>2, <2>3, <2>4, <2>5 DEF HandlerStep
<1>4. CASE Crash
  BY <1>4, CrashImage
<1>5. CASE UNCHANGED vars
  <2> USE DEF vars, nodeVars, memVars, dbVars
  <2>1. WellFormed(NodeState)' /\ NodeState' = NodeState /\ WellFormed(s)'
    BY <1>5 DEF NodeState, Image
  <2>2. StoresBlocks(s)' /\ StoresRecords(s)'
    BY <1>5, RecordsStay DEF Image, StoresBlocks, BeingRewound, StoredAt
  <2>3. Reconciles(s)' /\ Remembers(s)' /\ Follows(s)'
    BY <1>5, <2>1 DEF Image, Reconciles, Remembers, Follows, Subscribed
  <2>4. Image(s)'
    BY <2>1, <2>2, <2>3 DEF Image
  <2> QED BY <2>1, <2>4 DEF Moves
<1> QED BY <1>1, <1>2, <1>3, <1>4, <1>5 DEF Next, IndexerStep

\* While no event is lost the database is at any time the image of a state
\* of the node, from which the events to be handled lead to its present one.
THEOREM ImageInvariant ==
  ASSUME NothingLost
  PROVE  Spec => []SyncInv
<1>1. Init => SyncInv
  BY InitImage DEF SyncInv
<1>2. IInv /\ SyncInv /\ [Next]_vars => SyncInv'
  BY NextImage DEF SyncInv
<1> QED BY <1>1, <1>2, Invariant, PTL DEF Spec

-----------------------------------------------------------------------------
(* The properties.                                                         *)

\* At any time, init() and a stopped process included, the stored blocks are
\* one chain down to genesis.
THEOREM BlocksAreLinked ==
  ASSUME NothingLost
  PROVE  Spec => []LinkedBlocks
<1>1. ASSUME IInv, SyncInv PROVE LinkedBlocks
  <2> PICK s \in NodeStates : Image(s)
    BY <1>1 DEF SyncInv
  <2>1. WellFormed(s) /\ blockTable \ BeingRewound = BlocksOf(s.chain)
    BY DEF Image, StoresBlocks, BlocksOf
  <2>2. \A b, c \in blockTable : Height[b] = Height[c] => b = c
    BY <1>1 DEF IInv, OneBlockPerHeight
  <2>3. TipOf(s.chain) \in BlocksOf(s.chain) \cup {Genesis}
    <3>1. s.chain # <<>> => Len(s.chain) \in 1..Len(s.chain)
      BY <2>1, ChainType, TipProperties
    <3> QED BY <2>1, <3>1, TipProperties DEF BlocksOf
  <2>4. ASSUME NEW b \in blockTable PROVE Parent[b] \in blockTable \cup {Genesis}
    <3>1. CASE b \in BeingRewound
      <4>1. phase \in {"delete", "disconnect"} /\ BeingRewound \subseteq blockTable
            /\ \A c \in BeingRewound : Height[c] = cursor
        BY <3>1 DEF BeingRewound, StoredAt
      <4>2. PICK c \in BeingRewound : Parent[c] = TipOf(s.chain)
        BY <4>1 DEF Image, StoresBlocks
      <4>3. b = c
        BY <2>2, <3>1, <4>1
      <4> QED BY <2>1, <2>3, <4>2, <4>3
    <3>2. CASE b \in BlocksOf(s.chain)
      <4>1. PICK i \in 1..Len(s.chain) : b = s.chain[i]
        BY <3>2 DEF BlocksOf
      <4>2. Parent[b] = IF i = 1 THEN Genesis ELSE s.chain[i - 1]
        BY <2>1, <4>1 DEF WellFormed
      <4>3. i # 1 => i - 1 \in 1..Len(s.chain)
        BY ChainType
      <4>4. i # 1 => s.chain[i - 1] \in BlocksOf(s.chain)
        BY <4>3 DEF BlocksOf
      <4> QED BY <2>1, <4>2, <4>4
    <3> QED BY <2>1, <3>1, <3>2
  <2> QED BY <2>2, <2>4 DEF LinkedBlocks
<1> QED BY <1>1, ImageInvariant, Invariant, PTL

\* A stored block lacks a record only between the two transactions that
\* rewind it.
THEOREM BlocksAreComplete ==
  ASSUME NothingLost
  PROVE  Spec => []CompleteUnlessRewinding
<1>1. ASSUME SyncInv PROVE CompleteUnlessRewinding
  <2> PICK s \in NodeStates : Image(s)
    BY <1>1 DEF SyncInv
  <2> SUFFICES ASSUME NEW b \in blockTable, NEW o \in BlockOutpoints(b) \cap Inserted
               PROVE  \/ rows[o] = Height[b]
                      \/ phase \in {"delete", "disconnect"} /\ Height[b] = cursor
    BY DEF CompleteUnlessRewinding
  <2>1. CASE b \in BeingRewound
    BY <2>1 DEF BeingRewound, StoredAt
  <2>2. CASE b \notin BeingRewound
    <3>1. PICK i \in 1..Len(s.chain) : b = s.chain[i]
      BY <2>2 DEF Image, StoresBlocks
    <3>2. Height[b] = i /\ ~(TxOf[o] \in s.pool)
      BY <3>1 DEF Image, WellFormed, Mined, BlockOutpoints, OutpointsOf
    <3>3. o \in Recorded /\ TxOf[o] \in BlockTxs[b]
      BY DEF Inserted, Recorded, BlockOutpoints, OutpointsOf
    <3>4. PICK j \in 1..Len(s.chain) : TxOf[o] \in BlockTxs[s.chain[j]] /\ rows[o] = j
      BY <3>1, <3>2, <3>3 DEF Image, StoresRecords, Mined
    <3>5. j = i
      BY <3>1, <3>3, <3>4 DEF Image, WellFormed
    <3> QED BY <3>2, <3>4, <3>5
  <2> QED BY <2>1, <2>2
<1> QED BY <1>1, ImageInvariant, PTL

\* The checkpoint that the API reads is the highest stored block.
THEOREM CheckpointCorrect ==
  ASSUME NothingLost
  PROVE  Spec => []CheckpointIsHighest
<1>1. ASSUME SyncInv PROVE CheckpointIsHighest
  <2> PICK s \in NodeStates : Image(s)
    BY <1>1 DEF SyncInv
  <2> SUFFICES ASSUME phase = "running"
               PROVE  \/ IsHighest(checkpoint, blockTable)
                      \/ blockTable = {} /\ checkpoint = Genesis
    BY DEF CheckpointIsHighest
  <2>1. WellFormed(s) /\ blockTable = BlocksOf(s.chain)
    BY StoredBlocks DEF Image
  <2>2. \/ checkpoint = TipOf(s.chain)
        \/ s.chain = <<>> /\ checkpoint = NoBlock
    BY DEF Image, Remembers
  <2>3. CASE s.chain = <<>>
    <3>1. blockTable = {}
      BY <2>1, <2>3, TipProperties DEF BlocksOf
    <3> QED BY <2>1, <2>2, <2>3, <3>1, TipProperties DEF IsHighest
  <2>4. CASE s.chain # <<>>
    <3>1. checkpoint = TipOf(s.chain) /\ checkpoint \in Blocks
      BY <2>1, <2>2, <2>4, TipProperties
    <3> QED BY <2>1, <2>4, <3>1, HighestIsTip
  <2> QED BY <2>3, <2>4
<1> QED BY <1>1, ImageInvariant, PTL

\* What the database shows of an image.
LEMMA ImageShows ==
  ASSUME NEW s \in NodeStates, Image(s)
  PROVE  /\ DatabaseView = ViewOf(s)
         /\ UnconfirmedRows = OutpointsOf(s.pool) \cap Recorded
<1>1. \A o \in Outpoints : rows[o] = Unconfirmed <=> o \in Recorded /\ TxOf[o] \in s.pool
  <2> TAKE o \in Outpoints
  <2>1. \A i \in 1..Len(s.chain) : i # Unconfirmed
    BY ChainType
  <2>2. CASE o \in Recorded
    <3>1. TxOf[o] \in s.pool => ~Mined(s.chain, TxOf[o])
      BY DEF Image, WellFormed
    <3> QED BY <2>1, <2>2, <3>1 DEF Image, StoresRecords, Mined
  <2>3. CASE o \notin Recorded
    BY <2>3 DEF Image, StoresRecords
  <2> QED BY <2>2, <2>3
<1>2. UnconfirmedRows = OutpointsOf(s.pool) \cap Recorded
  BY <1>1 DEF UnconfirmedRows, RowsAt, OutpointsOf
<1>3. blockTable \ BeingRewound = BlocksOf(s.chain)
  BY DEF Image, StoresBlocks, BlocksOf
<1> QED BY <1>2, <1>3 DEF DatabaseView, ViewOf

\* The events still to be handled, applied in order to what the database
\* shows, give what the node has: none is dropped, doubled or out of order.
THEOREM CatchesUpByInbox ==
  ASSUME NothingLost
  PROVE  Spec => []CaughtUpByInbox
<1>1. ASSUME TypeOK, SyncInv PROVE CaughtUpByInbox
  <2> SUFFICES ASSUME Subscribed PROVE ViewAfter(inbox) = NodeView
    BY DEF CaughtUpByInbox
  <2> PICK s \in NodeStates : Image(s)
    BY <1>1 DEF SyncInv
  <2>1. WellFormed(s) /\ Leads(s, inbox, NodeState) /\ inbox \in Seq(Messages)
    BY <1>1 DEF Image, Follows, TypeOK
  <2>2. ViewAfter(inbox) = ViewOf(NodeState)
    BY <2>1, ImageShows, ViewAlongQueue
  <2>3. ViewOf(NodeState) = NodeView
    BY DEF ViewOf, NodeState, NodeView, BlocksOf
  <2> QED BY <2>2, <2>3
<1> QED BY <1>1, ImageInvariant, TypeCorrect, PTL

-----------------------------------------------------------------------------
(* The refinement.                                                         *)

\* The outputs of a chain and of a mempool, as IndexedView counts them.
ViewOutputs(b) == BlockOutpoints(b) \cap Recorded

MinedOutputs(c) == {o \in Recorded : Mined(c, TxOf[o])}

PoolOutputs(p) == {o \in Recorded : TxOf[o] \in p}

\* The mapped variables of an image.
LEMMA MappedImage ==
  ASSUME NEW s \in NodeStates, Image(s)
  PROVE  /\ StoredChain = s.chain
         /\ UnconfirmedRows = PoolOutputs(s.pool)
         /\ {o \in Recorded : applied[o] = 1} = PoolOutputs(s.pool) \cup MinedOutputs(s.chain)
<1> DEFINE n == Len(s.chain)
           stored == blockTable \ BeingRewound
<1>1. s.chain \in Seq(Blocks) /\ n \in Nat /\ \A i \in 1..n : Height[s.chain[i]] = i
  BY ChainType DEF Image, WellFormed
<1>2. stored = {s.chain[i] : i \in 1..n}
  BY DEF Image, StoresBlocks
<1> HIDE DEF n, stored
<1>3. {Height[b] : b \in stored} = 1..n
  BY <1>1, <1>2
<1>4. \A i \in 1..n : (CHOOSE b \in stored : Height[b] = i) = s.chain[i]
  <2> TAKE i \in 1..n
  <2>1. s.chain[i] \in stored /\ Height[s.chain[i]] = i
    BY <1>1, <1>2
  <2>2. \A b \in stored : Height[b] = i => b = s.chain[i]
    BY <1>1, <1>2
  <2> QED BY <2>1, <2>2
<1>5. StoredChain = s.chain
  <2>1. StoredChain = [h \in 1..n |-> CHOOSE b \in stored : Height[b] = h]
    BY <1>3 DEF StoredChain, stored
  <2>2. s.chain = [h \in 1..n |-> s.chain[h]]
    BY <1>1, LenProperties DEF n
  <2> QED BY <1>4, <2>1, <2>2
<1>6. UnconfirmedRows = PoolOutputs(s.pool)
  BY ImageShows DEF PoolOutputs, OutpointsOf, Recorded
<1>7. {o \in Recorded : applied[o] = 1} = PoolOutputs(s.pool) \cup MinedOutputs(s.chain)
  <2>1. \A o \in Recorded : applied[o] = 1 <=> TxOf[o] \in s.pool \/ Mined(s.chain, TxOf[o])
    <3> TAKE o \in Recorded
    <3>1. applied[o] = 1 <=> rows[o] # NoRow
      BY DEF Image, StoresRecords
    <3>2. rows[o] # NoRow <=> TxOf[o] \in s.pool \/ Mined(s.chain, TxOf[o])
      BY <1>1 DEF Image, StoresRecords, WellFormed, Mined, n
    <3> QED BY <3>1, <3>2
  <2> QED BY <2>1 DEF PoolOutputs, MinedOutputs
<1> QED BY <1>5, <1>6, <1>7

\* The same of every image, as a formula of the state that can be primed.
ImagesMapped ==
  \A s \in NodeStates : Image(s) =>
    /\ StoredChain = s.chain
    /\ UnconfirmedRows = PoolOutputs(s.pool)
    /\ {o \in Recorded : applied[o] = 1} = PoolOutputs(s.pool) \cup MinedOutputs(s.chain)

LEMMA MappedImages == ImagesMapped
  BY MappedImage DEF ImagesMapped

\* An abstract step for every move of the image.
LEMMA MoveImplementsStep ==
  ASSUME NEW s \in NodeStates, NEW t \in NodeStates, Image(s), Image(t)', Moves(s, t),
         ImagesMapped'
  PROVE  [Promise!Next]_(Promise!view)
<1> DEFINE counted == {o \in Recorded : applied[o] = 1}
<1>1. /\ StoredChain = s.chain
      /\ UnconfirmedRows = PoolOutputs(s.pool)
      /\ counted = PoolOutputs(s.pool) \cup MinedOutputs(s.chain)
  BY MappedImage
<1>3. /\ StoredChain' = t.chain
      /\ UnconfirmedRows' = PoolOutputs(t.pool)
      /\ counted' = PoolOutputs(t.pool) \cup MinedOutputs(t.chain)
  BY DEF ImagesMapped
<1> HIDE DEF counted
<1>4. WellFormed(s) /\ WellFormed(t)
  BY DEF Image, WellFormed, Mined
<1>5. \A p : PoolOutputs(p) \in SUBSET Outpoints
  BY DEF PoolOutputs, Recorded
<1>6. CASE t = s
  <2>1. StoredChain' = StoredChain /\ UnconfirmedRows' = UnconfirmedRows /\ counted' = counted
    BY <1>1, <1>3, <1>6
  <2> QED BY <2>1 DEF Promise!view, counted
<1>7. CASE t.chain = s.chain /\ s.pool \subseteq t.pool
  <2> DEFINE new == PoolOutputs(t.pool \ s.pool)
  <2>1. new \cap counted = {}
    BY <1>1, <1>4, <1>7 DEF PoolOutputs, MinedOutputs, WellFormed
  <2>2. PoolOutputs(t.pool) = PoolOutputs(s.pool) \cup new
    BY <1>7 DEF PoolOutputs
  <2>3. StoredChain' = StoredChain /\ UnconfirmedRows' = UnconfirmedRows \cup new
        /\ counted' = counted \cup new
    BY <1>1, <1>3, <1>7, <2>2
  <2>4. Promise!Arrive(new)
    BY <2>1, <2>3 DEF Promise!Arrive, counted
  <2> QED BY <1>5, <2>4 DEF Promise!Next
<1>8. CASE t.chain = s.chain /\ t.pool \subseteq s.pool
  <2> DEFINE gone == PoolOutputs(s.pool \ t.pool)
  <2>1. gone \subseteq PoolOutputs(s.pool) /\ PoolOutputs(t.pool) = PoolOutputs(s.pool) \ gone
    BY <1>8 DEF PoolOutputs
  <2>2. MinedOutputs(s.chain) \cap gone = {}
    BY <1>4 DEF PoolOutputs, MinedOutputs, WellFormed
  <2>3. StoredChain' = StoredChain /\ UnconfirmedRows' = UnconfirmedRows \ gone
        /\ counted' = counted \ gone
    BY <1>1, <1>3, <1>8, <2>1, <2>2
  <2>4. Promise!Leave(gone)
    BY <1>1, <2>1, <2>3 DEF Promise!Leave, counted
  <2> QED BY <1>5, <2>4 DEF Promise!Next
<1>9. CASE /\ s.chain # <<>>
           /\ t.chain = SubSeq(s.chain, 1, Len(s.chain) - 1)
           /\ t.pool = s.pool
  <2> DEFINE n == Len(s.chain)
             b == s.chain[n]
  <2>1. /\ n \in Nat \ {0} /\ Len(t.chain) = n - 1
        /\ \A i \in 1..Len(t.chain) : i \in 1..n /\ t.chain[i] = s.chain[i]
    BY <1>9, ChainAfterDisconnect
  <2>2. b \in Blocks /\ n \in 1..n
    BY <2>1, ChainType
  <2>3. [c \in Blocks |-> BlockOutpoints(c) \cap Recorded][b] = ViewOutputs(b)
    BY <2>2 DEF ViewOutputs
  <2>4. \A x : Mined(t.chain, x) <=> Mined(s.chain, x) /\ x \notin BlockTxs[b]
    <3> TAKE x
    <3>1. \A i \in 1..n : x \in BlockTxs[s.chain[i]] /\ x \in BlockTxs[b] => i = n
      BY <1>4, <2>2 DEF WellFormed
    <3>2. \A i \in 1..n : i \in 1..Len(t.chain) \/ i = n
      BY <2>1
    <3>3. n \notin 1..Len(t.chain)
      BY <2>1
    <3> QED BY <2>1, <3>1, <3>2, <3>3 DEF Mined
  <2>5. \A x \in s.pool : x \notin BlockTxs[b]
    BY <1>4, <2>2 DEF WellFormed, Mined
  <2>6. PoolOutputs(t.pool) \cup MinedOutputs(t.chain)
          = (PoolOutputs(s.pool) \cup MinedOutputs(s.chain)) \ ViewOutputs(b)
    BY <1>9, <2>4, <2>5 DEF PoolOutputs, MinedOutputs, ViewOutputs, BlockOutpoints, OutpointsOf, Recorded
  <2>7. /\ StoredChain # <<>>
        /\ StoredChain' = SubSeq(StoredChain, 1, Len(StoredChain) - 1)
        /\ counted' = counted \ ViewOutputs(StoredChain[Len(StoredChain)])
        /\ UnconfirmedRows' = UnconfirmedRows
    BY <1>1, <1>3, <1>9, <2>6
  <2>8. Promise!Retract
    BY <1>1, <2>3, <2>7 DEF Promise!Retract, counted
  <2> QED BY <2>8 DEF Promise!Next
<1>10. CASE /\ Len(t.chain) > Len(s.chain)
            /\ \A i \in 1..Len(s.chain) : t.chain[i] = s.chain[i]
            /\ t.pool = {x \in s.pool : ~Mined(t.chain, x)}
  <2> DEFINE n == Len(s.chain)
             Outputs == [c \in Blocks |-> BlockOutpoints(c) \cap Recorded]
  <2>1. /\ s.chain \in Seq(Blocks) /\ t.chain \in Seq(Blocks)
        /\ n \in Nat /\ Len(t.chain) \in Nat /\ n \in 0..Len(t.chain)
    BY <1>10, ChainType
  <2>2. SubSeq(t.chain, 1, n) = s.chain
    <3>1. /\ SubSeq(t.chain, 1, n) \in Seq(Blocks) /\ Len(SubSeq(t.chain, 1, n)) = n
          /\ \A i \in 1..n : SubSeq(t.chain, 1, n)[i] = t.chain[i]
      BY <2>1, PrefixProperties
    <3> QED BY <1>10, <2>1, <3>1, SeqEqual
  <2>3. UNION {Outputs[t.chain[i]] : i \in 1..Len(t.chain)} = MinedOutputs(t.chain)
    <3>1. \A i \in 1..Len(t.chain) : \A o :
            o \in Outputs[t.chain[i]] <=> o \in Recorded /\ TxOf[o] \in BlockTxs[t.chain[i]]
      BY ChainType DEF BlockOutpoints, OutpointsOf, Recorded
    <3> HIDE DEF Outputs
    <3>2. \A o : o \in MinedOutputs(t.chain)
                   <=> \E i \in 1..Len(t.chain) : o \in Recorded /\ TxOf[o] \in BlockTxs[t.chain[i]]
      BY DEF MinedOutputs, Mined
    <3> QED BY <3>1, <3>2
  <2>4. \A x : Mined(s.chain, x) => Mined(t.chain, x)
    <3>1. \A i \in 1..n : i \in 1..Len(t.chain)
      BY <2>1
    <3> QED BY <1>10, <3>1 DEF Mined
  <2>5. PoolOutputs(t.pool) = PoolOutputs(s.pool) \ MinedOutputs(t.chain)
    BY <1>10 DEF PoolOutputs, MinedOutputs
  <2>6. PoolOutputs(t.pool) \cup MinedOutputs(t.chain)
          = (PoolOutputs(s.pool) \cup MinedOutputs(s.chain)) \cup MinedOutputs(t.chain)
    BY <1>10, <2>4 DEF PoolOutputs, MinedOutputs
  <2>7. \A i \in 1..Len(t.chain) :
          Parent[t.chain[i]] = IF i = 1 THEN Genesis ELSE t.chain[i - 1]
    BY <1>4 DEF WellFormed
  <2>8. /\ StoredChain' \in Seq(Blocks) /\ Promise!Linked(StoredChain')
        /\ Len(StoredChain') > Len(StoredChain)
        /\ SubSeq(StoredChain', 1, Len(StoredChain)) = StoredChain
        /\ UnconfirmedRows' = UnconfirmedRows \ MinedOutputs(t.chain)
        /\ counted' = counted \cup MinedOutputs(t.chain)
    BY <1>1, <1>3, <1>10, <2>1, <2>2, <2>5, <2>6, <2>7 DEF Promise!Linked
  <2>9. Promise!ChainOutputs(StoredChain') = MinedOutputs(t.chain)
    BY <1>3, <2>3 DEF Promise!ChainOutputs
  <2>10. Promise!Extend
    BY <2>8, <2>9 DEF Promise!Extend, counted
  <2> QED BY <2>10 DEF Promise!Next
<1> QED BY <1>6, <1>7, <1>8, <1>9, <1>10 DEF Moves

LEMMA InitImplementsInit == Init => Promise!Init
<1> SUFFICES ASSUME Init PROVE Promise!Init
  OBVIOUS
<1>1. PICK s \in NodeStates : Image(s) /\ s.chain = <<>> /\ s.pool = {}
  BY InitImage
<1>2. /\ StoredChain = <<>> /\ UnconfirmedRows = {}
      /\ {o \in Recorded : applied[o] = 1} = MinedOutputs(<<>>)
  BY <1>1, MappedImage DEF PoolOutputs
<1>3. MinedOutputs(<<>>) = {}
  BY EmptySeq DEF MinedOutputs, Mined
<1> QED BY <1>2, <1>3 DEF Promise!Init

\* The indexer keeps the promise of IndexedView: its database always shows one
\* linked chain and one set of unconfirmed outputs, each counted once, and
\* changes by whole blocks, or by transactions of the mempool.
THEOREM ViewImplemented ==
  ASSUME NothingLost
  PROVE  Spec => ImplementsView
<1>1. IInv /\ SyncInv /\ ImagesMapped' /\ [Next]_vars => [Promise!Next]_(Promise!view)
  <2> SUFFICES ASSUME IInv, SyncInv, ImagesMapped', [Next]_vars
               PROVE  [Promise!Next]_(Promise!view)
    OBVIOUS
  <2>1. PICK s \in NodeStates : Image(s)
    BY DEF SyncInv
  <2>2. PICK t \in NodeStates : Image(t)' /\ Moves(s, t)
    BY <2>1, NextImage DEF SyncInv
  <2> QED BY <2>1, <2>2, MoveImplementsStep
<1> QED BY <1>1, MappedImages, InitImplementsInit, ImageInvariant, Invariant, PTL
    DEF Spec, ImplementsView, Promise!Spec

=============================================================================
