------------------------------ MODULE Indexer ------------------------------
(***************************************************************************)
(* The indexer of rank-backend-ts (src/lib/indexer.ts) between a lotusd    *)
(* node and PostgreSQL.                                                    *)
(*                                                                         *)
(* The node owns an active chain and a mempool and publishes an event for  *)
(* each change of them; the indexer receives the events it is subscribed   *)
(* to, in order, and runs one handler at a time.  A handler, or a step of  *)
(* the startup procedure, changes the database in one transaction, so one  *)
(* action below is the code between two transactions; rewinding a block    *)
(* takes two, and is two actions.  A handler that throws, or a crash, ends *)
(* the process; the next start finds what the database kept.               *)
(*                                                                         *)
(* A LOKAD output is an outpoint.  The profile and post counters are kept  *)
(* here as `applied': how many times, net, the increments of an outpoint   *)
(* are in them (the sums by profile and post are left out).                *)
(***************************************************************************)
EXTENDS Integers, Sequences, FiniteSets

(***************************************************************************)
(* A definition named X_Mutant is a wrong version of X, the definition     *)
(* after it: a bug the named property must reject.  Nothing uses it.       *)
(***************************************************************************)

CONSTANTS
  Txs,            \* transactions with RANK or RNKC outputs
  Outpoints,      \* their LOKAD outputs
  TxOf,           \* [Outpoints -> Txs]
  Kind,           \* [Outpoints -> Kinds]
  Blocks,         \* blocks above the RANK genesis block, on every branch
  Genesis,        \* config.genesis: never stored, never disconnected
  NoBlock,        \* null
  Parent,         \* [Blocks -> Blocks \cup {Genesis}]
  Height,         \* [Blocks \cup {Genesis} -> Nat], genesis at 0
  BlockTxs,       \* [Blocks -> SUBSET Txs]
  BlockRange,     \* NNG_RPC_BLOCKRANGE_SIZE
  Buried,         \* height at and below which lotusd never reorganises
  QuietInit,      \* TRUE: the node does not change while init() runs
  CrashPhases,    \* phases in which a crash is considered
  MaxNodeEvents,  \* bound on the changes of the node
  MaxCrashes      \* bound on the crashes

(***************************************************************************)
(* How an outpoint's record gets into the database.  A RANK output and a   *)
(* comment on a profile are inserted by createMany, which fails when the   *)
(* key exists; a comment on a post by connectOrCreate, which does not; and *)
(* a comment that replies to no profile gets no record at all, although    *)
(* its author's profile and post counters are incremented.                 *)
(***************************************************************************)
Kinds == {"rank", "profileComment", "postComment", "plainComment"}
Inserted == {o \in Outpoints : Kind[o] \in {"rank", "profileComment"}}
Recorded == {o \in Outpoints : Kind[o] # "plainComment"}

NoRow == -2        \* no record
Unconfirmed == -1  \* a record whose height is null

ASSUME ConstantsAssumption ==
  /\ TxOf \in [Outpoints -> Txs]
  /\ Kind \in [Outpoints -> Kinds]
  /\ Genesis \notin Blocks
  /\ NoBlock \notin Blocks \cup {Genesis}
  /\ Parent \in [Blocks -> Blocks \cup {Genesis}]
  /\ Height \in [Blocks \cup {Genesis} -> Nat]
  /\ Height[Genesis] = 0
  /\ \A b \in Blocks : Height[b] = Height[Parent[b]] + 1
  /\ BlockTxs \in [Blocks -> SUBSET Txs]
  /\ BlockRange \in Nat \ {0}
  /\ Buried \in Nat
  /\ QuietInit \in BOOLEAN
  /\ MaxNodeEvents \in Nat
  /\ MaxCrashes \in Nat

Phases == {"down", "cleanup", "compare", "rewind", "delete", "sync",
           "mempool", "subscribe", "running", "disconnect"}

VARIABLES
  chain,        \* node: blocks of the active chain above genesis, by height
  nodeMempool,  \* node: its mempool
  inbox,        \* events published to the indexer and not handled yet
  nodeEvents,   \* number of node changes so far (bound)
  phase,        \* where the indexer's thread of control is
  current,      \* init(): the block it compares, then the one it syncs from
  cursor,       \* the height rewindBlock works at, or starts from
  mempool,      \* this.mempool: keys of the mempool cache
  txidIndex,    \* this.mempoolTxidIndex: keys it lists, under their txid
  checkpoint,   \* this.state.checkpoint
  blockTable,   \* database: Block
  rows,         \* database: RankTransaction and RankComment, by height
  applied,      \* database: increments of each outpoint in the counters
  crashes       \* number of crashes so far (bound)

nodeVars == <<chain, nodeMempool, nodeEvents>>
memVars == <<mempool, txidIndex, checkpoint>>
dbVars == <<blockTable, rows, applied>>
vars == <<nodeVars, inbox, phase, current, cursor, memVars, dbVars, crashes>>

-----------------------------------------------------------------------------
(* Helpers *)

OutpointsOf(T) == {o \in Outpoints : TxOf[o] \in T}
BlockOutpoints(b) == OutpointsOf(BlockTxs[b])
\* RankTransaction and RankComment rows of a height (the mutant forgets the
\* comments), and those without one (in the mutant, the condition on a null
\* height is dropped).
RowsAt_Mutant(h) == {o \in Outpoints : rows[o] = h /\ Kind[o] = "rank"}
RowsAt(h) == {o \in Outpoints : rows[o] = h}
UnconfirmedRows_Mutant == {o \in Outpoints : rows[o] # NoRow}
UnconfirmedRows == RowsAt(Unconfirmed)

StoredAt(h) == {b \in blockTable : Height[b] = h}

Tip == IF chain = <<>> THEN Genesis ELSE chain[Len(chain)]
ChainTxs == UNION {BlockTxs[chain[i]] : i \in 1..Len(chain)}

\* The highest block of a table: null when it is empty.
IsHighest_Mutant(b, table) ==
  IF table = {} THEN b = NoBlock
  ELSE b \in table /\ \A c \in table : Height[c] >= Height[b]
IsHighest(b, table) ==
  IF table = {} THEN b = NoBlock
  ELSE b \in table /\ \A c \in table : Height[c] <= Height[b]

\* upsertProfiles on a profile queue made of Q, its records created at
\* height h.  Postgres refuses the transaction when createMany meets a key
\* that exists.
CanUpsert(Q) == \A o \in Q \cap Inserted : rows[o] = NoRow
RowsAfterUpsert(Q, h) ==
  [o \in Outpoints |->
     IF o \in Q \cap Recorded /\ rows[o] = NoRow THEN h ELSE rows[o]]
CountsAfterUpsert(Q) ==
  [o \in Outpoints |-> IF o \in Q THEN applied[o] + 1 ELSE applied[o]]

\* rewindProfiles on a profile queue made of Q (the mutant deletes the
\* records and leaves the counters).
RowsAfterRewind(Q) == [o \in Outpoints |-> IF o \in Q THEN NoRow ELSE rows[o]]
CountsAfterRewind_Mutant(Q) == applied
CountsAfterRewind(Q) ==
  [o \in Outpoints |-> IF o \in Q THEN applied[o] - 1 ELSE applied[o]]

Subscribed == phase \in {"running", "disconnect"}

\* The process ends: memory is gone, and with it the subscription.
ProcessEnds ==
  /\ phase' = "down"
  /\ inbox' = <<>>
  /\ mempool' = {} /\ txidIndex' = {} /\ checkpoint' = NoBlock
  /\ current' = NoBlock /\ cursor' = 0

\* A step of init(), or a handler, throws before its transaction committed
\* (mutant: the error is caught, and the step tried again).
Throws_Mutant == UNCHANGED vars
Throws == ProcessEnds /\ UNCHANGED <<dbVars, nodeVars, crashes>>

-----------------------------------------------------------------------------
(* The node.  What it publishes is lost while nobody is subscribed. *)

Publish(m) == inbox' = IF Subscribed THEN Append(inbox, m) ELSE inbox

NodeMayChange ==
  /\ nodeEvents < MaxNodeEvents
  /\ QuietInit => phase \in {"down", "running", "disconnect"}
  /\ nodeEvents' = nodeEvents + 1
  /\ UNCHANGED <<phase, current, cursor, memVars, dbVars, crashes>>

\* A transaction enters the mempool: a new one, one that was evicted, or one
\* whose block was disconnected.
NodeAddsTx(t) ==
  /\ NodeMayChange
  /\ t \notin nodeMempool \cup ChainTxs
  /\ nodeMempool' = nodeMempool \cup {t}
  /\ Publish([type |-> "mempooltxadd", tx |-> t])
  /\ UNCHANGED chain

\* A transaction expires, is evicted or conflicts with a block.
NodeRemovesTx(t) ==
  /\ NodeMayChange
  /\ t \in nodeMempool
  /\ nodeMempool' = nodeMempool \ {t}
  /\ Publish([type |-> "mempooltxrem", tx |-> t])
  /\ UNCHANGED chain

\* A block extends the tip; its transactions leave the mempool without an
\* event of their own.
NodeConnects(b) ==
  /\ NodeMayChange
  /\ Parent[b] = Tip
  /\ BlockTxs[b] \cap ChainTxs = {}
  /\ chain' = Append(chain, b)
  /\ nodeMempool' = nodeMempool \ BlockTxs[b]
  /\ Publish([type |-> "blkconnected", block |-> b])

\* A reorganisation disconnects the tip.
NodeDisconnects ==
  /\ NodeMayChange
  /\ Len(chain) > Buried
  /\ chain' = SubSeq(chain, 1, Len(chain) - 1)
  /\ Publish([type |-> "blkdisconctd", block |-> Tip])
  /\ UNCHANGED nodeMempool

NodeStep ==
  \/ \E t \in Txs : NodeAddsTx(t) \/ NodeRemovesTx(t)
  \/ \E b \in Blocks : NodeConnects(b)
  \/ NodeDisconnects

-----------------------------------------------------------------------------
(* init(): the steps before the subscription. *)

\* index.ts starts the process with empty memory.
Start ==
  /\ phase = "down"
  /\ phase' = "cleanup"
  /\ UNCHANGED <<nodeVars, inbox, current, cursor, memVars, dbVars, crashes>>

\* Rewind every unconfirmed record, then take the highest stored block, or
\* the configured genesis, as the checkpoint to reconcile.
Cleanup ==
  /\ phase = "cleanup"
  /\ rows' = RowsAfterRewind(UnconfirmedRows)
  /\ applied' = CountsAfterRewind(UnconfirmedRows)
  /\ \E b \in Blocks \cup {NoBlock} :
       /\ IsHighest(b, blockTable)
       /\ current' = IF b = NoBlock THEN Genesis ELSE b
       /\ cursor' = IF b = NoBlock THEN 0 ELSE Height[b]
  /\ phase' = "compare"
  /\ UNCHANGED <<nodeVars, inbox, memVars, blockTable, crashes>>

\* Does the node's block at the height of b have the hash of b?  (The mutant
\* asks only whether the node has one.)
OnChain_Mutant(b) == Height[b] <= Len(chain)
OnChain(b) == b = Genesis \/ \E i \in 1..Len(chain) : chain[i] = b

\* The stored block one height below b (mutant: at any lower height).
StoredBelow_Mutant(b) == {c \in blockTable : Height[c] < Height[b]}
StoredBelow(b) == StoredAt(Height[b] - 1)

\* getBestBlock, one level of its recursion: go one stored block down on a
\* mismatch; a height the table lacks ends init() with an error.
GetBestBlock ==
  /\ phase = "compare"
  /\ \/ /\ OnChain(current)
        /\ phase' = IF cursor > Height[current] THEN "rewind" ELSE "sync"
        /\ UNCHANGED <<nodeVars, inbox, current, cursor, memVars, dbVars, crashes>>
     \/ /\ ~OnChain(current)
        /\ \E b \in StoredBelow(current) : current' = b
        /\ UNCHANGED <<nodeVars, inbox, phase, cursor, memVars, dbVars, crashes>>
     \/ /\ ~OnChain(current)
        /\ StoredBelow(current) = {}
        /\ Throws

\* rewindBlock(h), its first transaction: the records of that height.
RewindsRecords(h) ==
  /\ rows' = RowsAfterRewind(RowsAt(h))
  /\ applied' = CountsAfterRewind(RowsAt(h))
  /\ UNCHANGED <<nodeVars, current, memVars, blockTable, crashes>>

\* Its second transaction deletes the block, and by the foreign key whatever
\* record of that height is left; deleting a block that is not there throws.
DeletesBlock(h) ==
  /\ StoredAt(h) # {}
  /\ blockTable' = blockTable \ StoredAt(h)
  /\ rows' = RowsAfterRewind(RowsAt(h))
  /\ UNCHANGED <<nodeVars, applied, crashes>>

InitRewindRecords ==
  /\ phase = "rewind"
  /\ RewindsRecords(cursor)
  /\ phase' = "delete"
  /\ UNCHANGED <<inbox, cursor>>

\* Here the block is always there: getBestBlock stepped on every height that
\* is rewound (RewindFindsItsBlock).
InitDeleteBlock ==
  /\ phase = "delete"
  /\ DeletesBlock(cursor)
  /\ cursor' = cursor - 1
  /\ phase' = IF cursor - 1 > Height[current] THEN "rewind" ELSE "sync"
  /\ UNCHANGED <<inbox, current, memVars>>

\* initSyncBlocks, one round: rpcGetBlockRange answers with the blocks above
\* `current', at most BlockRange of them, and they and their records are
\* saved in one transaction.  The loop ends with a range that is not full (in
\* the mutant, with the first one).
SyncLength ==
  LET above == Len(chain) - Height[current]
  IN IF above > BlockRange THEN BlockRange ELSE IF above > 0 THEN above ELSE 0

SyncRange == {chain[Height[current] + i] : i \in 1..SyncLength}

MoreToSync == SyncLength = BlockRange

\* The records of a range, each at the height of its block (mutant: at the
\* height of the range's first).
BlockIn(range, o) == CHOOSE b \in range : o \in BlockOutpoints(b)
SyncHeight_Mutant(range, o) == Height[current] + 1
SyncHeight(range, o) == Height[BlockIn(range, o)]

InitSyncBlocks ==
  LET range == SyncRange
      queue == UNION {BlockOutpoints(b) : b \in range}
      saved == /\ \A b \in range : StoredAt(Height[b]) = {}
               /\ CanUpsert(queue)
  IN
  /\ phase = "sync"
  /\ \/ /\ saved
        /\ blockTable' = blockTable \cup range
        /\ rows' = [o \in Outpoints |->
                      IF o \in queue \cap Recorded /\ rows[o] = NoRow
                      THEN SyncHeight(range, o) ELSE rows[o]]
        /\ applied' = CountsAfterUpsert(queue)
        /\ current' = IF SyncLength = 0 THEN current
                       ELSE chain[Height[current] + SyncLength]
        /\ IF MoreToSync
           THEN UNCHANGED <<phase, checkpoint>>
           ELSE phase' = "mempool" /\ checkpoint' = current'
        /\ UNCHANGED <<nodeVars, inbox, cursor, mempool, txidIndex, crashes>>
     \/ ~saved /\ Throws

\* initSyncMempool, and the cache and its index filled with the result.
InitSyncMempool ==
  LET queue == OutpointsOf(nodeMempool) IN
  /\ phase = "mempool"
  /\ \/ /\ CanUpsert(queue)
        /\ rows' = RowsAfterUpsert(queue, Unconfirmed)
        /\ applied' = CountsAfterUpsert(queue)
        /\ mempool' = queue
        /\ txidIndex' = queue
        /\ phase' = "subscribe"
        /\ UNCHANGED <<nodeVars, inbox, current, cursor, checkpoint, blockTable, crashes>>
     \/ ~CanUpsert(queue) /\ Throws

\* Only now is the indexer told of what the node does.
Subscribe ==
  /\ phase = "subscribe"
  /\ phase' = "running"
  /\ current' = NoBlock /\ cursor' = 0
  /\ UNCHANGED <<nodeVars, inbox, memVars, dbVars, crashes>>

InitStep ==
  \/ Start \/ Cleanup \/ GetBestBlock \/ InitRewindRecords \/ InitDeleteBlock
  \/ InitSyncBlocks \/ InitSyncMempool \/ Subscribe

-----------------------------------------------------------------------------
(* The handlers of the published events. *)

Receives(type) ==
  phase = "running" /\ inbox # <<>> /\ Head(inbox).type = type

\* Cache and index the outputs, then upsert them as unconfirmed records.
nngMempoolTxAdd ==
  LET queue == OutpointsOf({Head(inbox).tx}) IN
  /\ Receives("mempooltxadd")
  /\ \/ /\ CanUpsert(queue)
        /\ mempool' = mempool \cup queue
        /\ txidIndex' = txidIndex \cup queue
        /\ rows' = RowsAfterUpsert(queue, Unconfirmed)
        /\ applied' = CountsAfterUpsert(queue)
        /\ inbox' = Tail(inbox)
        /\ UNCHANGED <<nodeVars, phase, current, cursor, checkpoint, blockTable, crashes>>
     \/ ~CanUpsert(queue) /\ Throws

\* The keys that the index lists under a txid (mutant: an index nobody fills).
ListedOutputs_Mutant(t) == {}
ListedOutputs(t) == txidIndex \cap OutpointsOf({t})

\* The cached outputs among them are rewound.
nngMempoolTxRemove ==
  LET listed == ListedOutputs(Head(inbox).tx)
      queue == listed \cap mempool
  IN
  /\ Receives("mempooltxrem")
  /\ mempool' = mempool \ listed
  /\ txidIndex' = txidIndex \ listed
  /\ rows' = RowsAfterRewind(queue)
  /\ applied' = CountsAfterRewind(queue)
  /\ inbox' = Tail(inbox)
  /\ UNCHANGED <<nodeVars, phase, current, cursor, checkpoint, blockTable, crashes>>

\* reconcileMempoolCache: the outputs of a block that are in the cache, and
\* those that are not (mutant: in the index, which blocks do not clean); the
\* cache without the block's outputs (mutant: with them).
CachedOutputs(b) == BlockOutpoints(b) \cap mempool
MissingOutputs_Mutant(b) == BlockOutpoints(b) \ txidIndex
MissingOutputs(b) == BlockOutpoints(b) \ mempool
CacheAfterBlock_Mutant(b) == mempool
CacheAfterBlock(b) == mempool \ BlockOutpoints(b)

\* Cached outputs are connected to the block, the missing ones upserted with
\* its height.  Connecting a record that does not exist throws, and so does a
\* height that is already stored.
nngBlockConnected ==
  LET b == Head(inbox).block
      cached == CachedOutputs(b)
      missing == MissingOutputs(b)
      saved == /\ StoredAt(Height[b]) = {}
               /\ \A o \in cached : rows[o] # NoRow
               /\ CanUpsert(missing)
  IN
  /\ Receives("blkconnected")
  /\ \/ /\ saved
        /\ mempool' = CacheAfterBlock(b)
        /\ blockTable' = blockTable \cup {b}
        /\ rows' = [o \in Outpoints |->
                      IF o \in cached THEN Height[b]
                      ELSE RowsAfterUpsert(missing, Height[b])[o]]
        /\ applied' = CountsAfterUpsert(missing)
        /\ checkpoint' = b
        /\ inbox' = Tail(inbox)
        /\ UNCHANGED <<nodeVars, phase, current, cursor, txidIndex, crashes>>
     \/ ~saved /\ Throws

\* rewindBlock on the height of the disconnected block, whatever is stored
\* there, and the highest stored block as the new checkpoint.
nngBlockDisconnected ==
  /\ Receives("blkdisconctd")
  /\ RewindsRecords(Height[Head(inbox).block])
  /\ cursor' = Height[Head(inbox).block]
  /\ phase' = "disconnect"
  /\ inbox' = Tail(inbox)

DisconnectDeleteBlock ==
  /\ phase = "disconnect"
  /\ \/ /\ DeletesBlock(cursor)
        /\ checkpoint' \in Blocks \cup {NoBlock}
        /\ IsHighest(checkpoint', blockTable')
        /\ phase' = "running"
        /\ cursor' = 0
        /\ UNCHANGED <<inbox, current, mempool, txidIndex>>
     \/ StoredAt(cursor) = {} /\ Throws

HandlerStep ==
  \/ nngMempoolTxAdd \/ nngMempoolTxRemove
  \/ nngBlockConnected \/ nngBlockDisconnected \/ DisconnectDeleteBlock

-----------------------------------------------------------------------------
(* The process is stopped or crashes between two transactions. *)

Crash ==
  /\ phase \in CrashPhases \ {"down"}
  /\ crashes < MaxCrashes
  /\ crashes' = crashes + 1
  /\ ProcessEnds
  /\ UNCHANGED <<nodeVars, dbVars>>

-----------------------------------------------------------------------------

Init ==
  /\ chain = <<>> /\ nodeMempool = {} /\ nodeEvents = 0
  /\ inbox = <<>>
  /\ phase = "down" /\ current = NoBlock /\ cursor = 0
  /\ mempool = {} /\ txidIndex = {} /\ checkpoint = NoBlock
  /\ blockTable = {}
  /\ rows = [o \in Outpoints |-> NoRow]
  /\ applied = [o \in Outpoints |-> 0]
  /\ crashes = 0

IndexerStep == InitStep \/ HandlerStep

Next == NodeStep \/ IndexerStep \/ Crash

Spec == Init /\ [][Next]_vars

\* The indexer's own thread of control keeps going, and a process that ended
\* is started again; nothing is assumed of the node, or of crashes.
FairSpec == Spec /\ WF_vars(IndexerStep)

-----------------------------------------------------------------------------
(* Properties *)

Messages ==
  [type : {"mempooltxadd", "mempooltxrem"}, tx : Txs]
    \cup [type : {"blkconnected", "blkdisconctd"}, block : Blocks]

TypeOK ==
  /\ chain \in Seq(Blocks) /\ nodeMempool \in SUBSET Txs /\ nodeEvents \in Nat
  /\ inbox \in Seq(Messages)
  /\ phase \in Phases
  /\ current \in Blocks \cup {Genesis, NoBlock} /\ cursor \in Nat
  /\ mempool \in SUBSET Outpoints /\ txidIndex \in SUBSET Outpoints
  /\ checkpoint \in Blocks \cup {Genesis, NoBlock}
  /\ blockTable \in SUBSET Blocks
  /\ rows \in [Outpoints -> {NoRow, Unconfirmed} \cup Nat]
  /\ applied \in [Outpoints -> Int]
  /\ crashes \in Nat

\* The counters of profiles and posts contain an output exactly once while
\* its record exists and not at all otherwise: whatever is lost or repeated,
\* upserts and rewinds pair up.  (Outputs inserted by createMany.)
Ledger ==
  \A o \in Inserted : applied[o] = IF rows[o] = NoRow THEN 0 ELSE 1

\* Once the mempool is synced the cache lists exactly the unconfirmed
\* records, so that a block finds what to connect and what to insert; and
\* the index by txid lists at least what the cache does, so that a removed
\* transaction takes all of its outputs with it.
CacheIsUnconfirmed ==
  phase \in {"subscribe", "running", "disconnect"} =>
    /\ mempool \cap Inserted = {o \in Inserted : rows[o] = Unconfirmed}
    /\ mempool \subseteq txidIndex

\* A confirmed record has the height of a stored block that contains its
\* transaction, whichever branch it was first confirmed on.
ConfirmedInItsBlock ==
  \A o \in Recorded : rows[o] >= 0 =>
    \E b \in StoredAt(rows[o]) : o \in BlockOutpoints(b)

\* A stored block has all of its records or, after an interrupted rewind,
\* none of them.
WholeBlocks ==
  \A b \in blockTable :
    LET own == BlockOutpoints(b) \cap Inserted IN
    \/ \A o \in own : rows[o] = Height[b]
    \/ \A o \in own : rows[o] # Height[b]

\* A stored block lacks records only between the two transactions of
\* rewindBlock, and only the block being rewound.
CompleteUnlessRewinding ==
  \A b \in blockTable : \A o \in BlockOutpoints(b) \cap Inserted :
    \/ rows[o] = Height[b]
    \/ phase \in {"delete", "disconnect"} /\ Height[b] = cursor

\* While init() compares and rewinds, every height between the block it
\* holds and the old checkpoint is stored: the loop of rewinds meets no gap.
RewindFindsItsBlock ==
  phase \in {"compare", "rewind", "delete"} =>
    /\ \A h \in Height[current]..cursor : h > 0 => StoredAt(h) # {}
    /\ phase # "compare" => cursor > Height[current]

\* A confirmed record never moves to another block, nor back to the mempool:
\* it leaves with its block, in a rewind.
ConfirmedUntilRewound ==
  [][\A o \in Inserted : rows[o] >= 0 /\ rows'[o] # rows[o] =>
       /\ rows'[o] = NoRow
       /\ phase \in {"rewind", "running"}]_vars

=============================================================================
