---------------------------- MODULE IndexerSync ----------------------------
(***************************************************************************)
(* The indexer against the node: what the database has to do with the      *)
(* node's chain and mempool when no event is lost, and the refinement of   *)
(* IndexedView.                                                            *)
(***************************************************************************)
EXTENDS Indexer

\* The blocks and unconfirmed outputs a view has after one more event.
Handled(view, m) ==
  CASE m.type = "mempooltxadd" ->
         [view EXCEPT !.pool = @ \cup (OutpointsOf({m.tx}) \cap Recorded)]
    [] m.type = "mempooltxrem" ->
         [view EXCEPT !.pool = @ \ OutpointsOf({m.tx})]
    [] m.type = "blkconnected" ->
         [view EXCEPT !.blocks = @ \cup {m.block}, !.pool = @ \ BlockOutpoints(m.block)]
    [] m.type = "blkdisconctd" ->
         [view EXCEPT !.blocks = @ \ {m.block}]

BeingRewound == IF phase \in {"delete", "disconnect"} THEN StoredAt(cursor) ELSE {}

DatabaseView == [blocks |-> blockTable \ BeingRewound,
                 pool   |-> UnconfirmedRows]

\* The view of the database when the events of a queue have been handled.
ViewAfter(queue) ==
  LET view[n \in 0..Len(queue)] ==
        IF n = 0 THEN DatabaseView ELSE Handled(view[n - 1], queue[n])
  IN view[Len(queue)]

NodeView == [blocks |-> {chain[i] : i \in 1..Len(chain)},
             pool   |-> OutpointsOf(nodeMempool) \cap Recorded]

\* While the indexer is subscribed, the database and the events still to be
\* handled together are the node's state: no event is dropped, doubled or
\* applied out of order, across reorganisations and the handlers' failures.
CaughtUpByInbox ==
  Subscribed => ViewAfter(inbox) = NodeView

\* At any time, init() and a stopped process included, every stored block is
\* on top of another one down to genesis: the table is one chain.
LinkedBlocks ==
  /\ \A b \in blockTable : Parent[b] \in blockTable \cup {Genesis}
  /\ \A b, c \in blockTable : Height[b] = Height[c] => b = c

\* The checkpoint that the API shows and authenticates against is the
\* highest stored block.
CheckpointIsHighest ==
  phase = "running" =>
    \/ IsHighest(checkpoint, blockTable)
    \/ blockTable = {} /\ checkpoint = Genesis

InSync ==
  /\ phase = "running" /\ inbox = <<>>
  /\ DatabaseView = NodeView
  /\ checkpoint = Tip \/ chain = <<>>
  /\ \A o \in OutpointsOf(ChainTxs) \cap Recorded : rows[o] >= 0

\* When the node comes to rest the indexer shows its chain and its mempool,
\* whatever reorganisation, failed handler or crash came before.  (The runs
\* bound the node's changes, so it always comes to rest.)
EventuallyInSync == <>[]InSync

-----------------------------------------------------------------------------

\* Refinement: the stored chain without the block being rewound, the
\* unconfirmed records, and the outputs that have been counted.
StoredChain ==
  LET stored == blockTable \ BeingRewound IN
  [h \in {Height[b] : b \in stored} |-> CHOOSE b \in stored : Height[b] = h]

Promise ==
  INSTANCE IndexedView WITH
    BlockOutputs <- [b \in Blocks |-> BlockOutpoints(b) \cap Recorded],
    confirmed <- StoredChain,
    pending <- UnconfirmedRows,
    counted <- {o \in Recorded : applied[o] = 1}

\* The indexer implements the promise.
ImplementsView == Promise!Spec

-----------------------------------------------------------------------------
(* What comments and documents of the repository say. *)

\* src/lib/indexer.ts:418 "Ensures database state matches the blockchain by
\* comparing block hashes at each height": after the reconciliation every
\* height up to the checkpoint has its block.
ReconciledHeightsStored ==
  phase = "sync" => \A h \in 1..Height[current] : StoredAt(h) # {}

\* src/lib/indexer.ts:322 "rewind all unconfirmed state from the database":
\* after the cleanup the counters contain confirmed outputs only.
CleanupLeavesConfirmedOnly ==
  phase = "compare" =>
    \A o \in Outpoints : applied[o] > 0 => \E b \in blockTable : o \in BlockOutpoints(b)

=============================================================================
