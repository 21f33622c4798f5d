--------------------------- MODULE ProfileLedger ---------------------------
(***************************************************************************)
(* The profile queue of the indexer (src/lib/indexer.ts) and the profiles, *)
(* posts and records it is written to (src/lib/database.ts).               *)
(*                                                                         *)
(* A handler puts the LOKAD outputs of its transactions in the queue, the  *)
(* RANK outputs before the comments, and turns the queue into one database *)
(* transaction, which adds the outputs to the counters and creates their   *)
(* records, or takes them back.  The module Indexer has the handlers in    *)
(* the order the node's events give them, and counts the outputs; here the *)
(* handlers come in any order, and the counters are kept by profile and by *)
(* post, with the columns that say which profile and which post a record   *)
(* belongs to.                                                             *)
(*                                                                         *)
(* Times, texts and the account of a profile are left out.                 *)
(***************************************************************************)
EXTENDS Integers, FiniteSets, Functions

(* A definition named X_Mutant is a wrong version of X, the one after it.  *)

CONSTANTS
  Txs,          \* transactions
  Ranks,        \* RANK outputs
  Comments,     \* RNKC outputs: one for a transaction, its first
  TxOf,         \* [Ranks \cup Comments -> Txs]
  Platforms,    \* platforms
  Lotusia,      \* the platform of the comments themselves
  Profiles,     \* profile ids, the authors of comments among them
  NoProfile,    \* the comment replies to nobody
  Posts,        \* post ids, the comments among them
  NoPost,       \* the output names no post
  Target,       \* what an output ranks or replies to
  Author,       \* [Comments -> Profiles]
  Sats,         \* [Ranks \cup Comments -> Nat]
  Sentiment,    \* [Ranks -> Sentiments]
  MaxHeight,    \* bound on the height of the chain
  MaxBatches,   \* bound on the number of handlers
  MaxRestarts   \* bound on the crashes

Outputs == Ranks \cup Comments
Sentiments == {"positive", "negative", "neutral"}
Targets == [platform : Platforms, profile : Profiles \cup {NoProfile},
            post : Posts \cup {NoPost}]

ASSUME LedgerAssumption ==
  /\ IsFiniteSet(Ranks) /\ IsFiniteSet(Comments)
  /\ Ranks \cap Comments = {}
  /\ TxOf \in [Outputs -> Txs]
  /\ \A c \in Comments : \A o \in Outputs : TxOf[o] = TxOf[c] => o = c
  /\ Lotusia \in Platforms
  /\ NoProfile \notin Profiles
  /\ NoPost \notin Posts
  /\ Comments \subseteq Posts
  /\ Target \in [Outputs -> Targets]
  /\ \A r \in Ranks : Target[r].profile # NoProfile
  /\ \A o \in Outputs : Target[o].profile = NoProfile => Target[o].post = NoPost
  /\ Author \in [Comments -> Profiles]
  /\ Sats \in [Outputs -> Nat]
  /\ Sentiment \in [Ranks -> Sentiments]
  /\ MaxHeight \in Nat
  /\ MaxBatches \in Nat
  /\ MaxRestarts \in Nat

Unconfirmed == 0  \* the null height; a block has a height of 1 or more

VARIABLES
  op,           \* what the handler is doing
  ranksLeft,    \* RANK outputs it has not put in the queue yet
  commentsLeft, \* comments it has not put in the queue yet
  batch,        \* all of them
  fromRecords,  \* TRUE: it read them in the database
  connects,     \* outputs whose records it connects to a block
  height,       \* the height of the block it saves or rewinds, if any
  queue,        \* this.profileQueue, by profile id
  queuePosts,   \* `posts' of its entries, by profile id and post id
  mempool,      \* keys of this.mempool
  tip,          \* height of the last block
  profiles,     \* database: Profile, by platform and id
  posts,        \* database: Post, by platform, profile id and id
  records,      \* database: RankTransaction and RankComment
  applied,      \* how many times, net, an output was added to the counters
  mixed,        \* some queue held two platforms under one profile id
  batches,      \* number of handlers so far (bound)
  restarts      \* number of crashes so far (bound)

queueVars == <<queue, queuePosts>>
dbVars == <<profiles, posts, records>>
taskVars == <<ranksLeft, commentsLeft, batch, fromRecords, connects, height>>
vars == <<op, taskVars, queueVars, mempool, tip, dbVars, applied, mixed,
          batches, restarts>>

Ops == {"idle", "upsert", "rewind", "cleanup", "pushFailed", "statementFailed"}

-----------------------------------------------------------------------------
(* Counters, entries of the queue, rows of the tables *)

Counters == [ranking : Int, satsPositive : Int, satsNegative : Int,
             votesPositive : Int, votesNegative : Int]
Zero == [ranking |-> 0, satsPositive |-> 0, satsNegative |-> 0,
         votesPositive |-> 0, votesNegative |-> 0]
Plus(a, b) == [ranking |-> a.ranking + b.ranking,
               satsPositive |-> a.satsPositive + b.satsPositive,
               satsNegative |-> a.satsNegative + b.satsNegative,
               votesPositive |-> a.votesPositive + b.votesPositive,
               votesNegative |-> a.votesNegative + b.votesNegative]
\* The decrements of a rewind (the mutant leaves the numbers of votes alone).
Minus_Mutant(a, b) == [a EXCEPT !.ranking = @ - b.ranking,
                                !.satsPositive = @ - b.satsPositive,
                                !.satsNegative = @ - b.satsNegative]
Minus(a, b) == [ranking |-> a.ranking - b.ranking,
                satsPositive |-> a.satsPositive - b.satsPositive,
                satsNegative |-> a.satsNegative - b.satsNegative,
                votesPositive |-> a.votesPositive - b.votesPositive,
                votesNegative |-> a.votesNegative - b.votesNegative]

\* What a vote of a sentiment adds.  A comment is a positive self-vote.
\* (The mutant counts a negative vote's sats as positive ones.)
Vote_Mutant(sentiment, sats) ==
  CASE sentiment = "positive" ->
         [Zero EXCEPT !.ranking = sats, !.satsPositive = sats,
                      !.votesPositive = 1]
    [] sentiment = "negative" ->
         [Zero EXCEPT !.ranking = -sats, !.satsPositive = sats,
                      !.votesNegative = 1]
    [] OTHER -> Zero
Vote(sentiment, sats) ==
  CASE sentiment = "positive" ->
         [Zero EXCEPT !.ranking = sats, !.satsPositive = sats,
                      !.votesPositive = 1]
    [] sentiment = "negative" ->
         [Zero EXCEPT !.ranking = -sats, !.satsNegative = sats,
                      !.votesNegative = 1]
    [] OTHER -> Zero
VoteOf(o) == Vote(IF o \in Ranks THEN Sentiment[o] ELSE "positive", Sats[o])

\* A profile or a post in the queue.  `ranks' is undefined in one that a
\* comment created (hasRanks is FALSE), and an array in one a RANK created.
Entries == [queued : BOOLEAN, platform : Platforms, hasRanks : BOOLEAN,
            ranks : SUBSET Ranks, comments : SUBSET Comments,
            hasData : BOOLEAN, n : Counters]
NoEntry == [queued |-> FALSE, platform |-> Lotusia, hasRanks |-> FALSE,
            ranks |-> {}, comments |-> {}, hasData |-> FALSE, n |-> Zero]
EmptyQueue == [p \in Profiles |-> NoEntry]
NoQueuePosts == [p \in Profiles |-> [k \in Posts |-> NoEntry]]

ProfileRows == [exists : BOOLEAN, n : Counters]
PostRows == [exists : BOOLEAN, hasData : BOOLEAN, n : Counters]
Records == [exists : BOOLEAN, height : 0..MaxHeight, at : Targets]
\* No record.  Its other columns mean nothing.
NoRecord(o) == [exists |-> FALSE, height |-> Unconfirmed, at |-> Target[o]]

\* A comment that replies to no profile has no record.
Recorded(o) == Target[o].profile # NoProfile
RecordsAt(h) == {o \in Outputs : records[o].exists /\ records[o].height = h}
OutputsOf(T) == {o \in Outputs : TxOf[o] \in T}

-----------------------------------------------------------------------------
(* The handlers.  Each chooses its outputs; the queue is then filled and    *)
(* written by the steps below.                                              *)

StartsBatch(next, outputs, reads, h) ==
  /\ batches < MaxBatches
  /\ batches' = batches + 1
  /\ op' = next
  /\ batch' = outputs
  /\ ranksLeft' = outputs \cap Ranks
  /\ commentsLeft' = outputs \cap Comments
  /\ fromRecords' = reads
  /\ height' = h
  /\ UNCHANGED <<queueVars, tip, dbVars, applied, mixed, restarts>>

\* Transactions the database has no record of.
IsNew(T) == \A o \in OutputsOf(T) : ~records[o].exists /\ o \notin mempool

\* nngMempoolTxAdd on one transaction, initSyncMempool on several.
AddsUnconfirmed(T) ==
  /\ op = "idle"
  /\ OutputsOf(T) # {} /\ IsNew(T)
  /\ StartsBatch("upsert", OutputsOf(T), FALSE, Unconfirmed)
  /\ connects' = {}
  /\ mempool' = mempool \cup OutputsOf(T)

\* nngBlockConnected: the outputs that are cached are connected to the block,
\* those that are missing go in the queue.  The cached ones have records: a
\* comment without one makes the transaction fail (the module Indexer has that
\* case).  saveBlockRange is the same with an empty cache.
BlockConnected(T) ==
  LET cached == OutputsOf(T) \cap mempool
      missing == OutputsOf(T) \ mempool
  IN
  /\ op = "idle"
  /\ tip < MaxHeight
  /\ \A o \in cached : records[o].exists
  /\ \A o \in missing : ~records[o].exists
  /\ StartsBatch("upsert", missing, FALSE, tip + 1)
  /\ connects' = cached
  /\ mempool' = mempool \ OutputsOf(T)

\* The cached outputs of a transaction go in the queue as they were cached.
MempoolTxRemove(t) ==
  /\ op = "idle"
  /\ OutputsOf({t}) \cap mempool # {}
  /\ StartsBatch("rewind", OutputsOf({t}) \cap mempool, FALSE, Unconfirmed)
  /\ connects' = {}
  /\ mempool' = mempool \ OutputsOf({t})

\* rewindBlock reads the records of a height.
RewindBlock ==
  /\ op = "idle"
  /\ tip > 0
  /\ StartsBatch("rewind", RecordsAt(tip), TRUE, tip)
  /\ connects' = {}
  /\ UNCHANGED mempool

\* The process ends, and the next one reads the unconfirmed records.
Restart ==
  /\ restarts < MaxRestarts
  /\ restarts' = restarts + 1
  /\ op' = "cleanup"
  /\ batch' = {} /\ ranksLeft' = {} /\ commentsLeft' = {} /\ connects' = {}
  /\ queue' = EmptyQueue /\ queuePosts' = NoQueuePosts
  /\ mempool' = {}
  /\ UNCHANGED <<fromRecords, height, tip, dbVars, applied, mixed, batches>>

Cleanup ==
  /\ op = "cleanup"
  /\ StartsBatch("rewind", RecordsAt(Unconfirmed), TRUE, Unconfirmed)
  /\ connects' = {}
  /\ UNCHANGED mempool

Handler ==
  \/ \E T \in SUBSET Txs : AddsUnconfirmed(T) \/ BlockConnected(T)
  \/ \E t \in Txs : MempoolTxRemove(t)
  \/ RewindBlock \/ Cleanup

-----------------------------------------------------------------------------
(* The profile queue. *)

\* Where the output's columns say it belongs.
At(o) == IF fromRecords THEN records[o].at ELSE Target[o]

\* The entry of the queue, or a new one.  The queue is keyed by the id alone:
\* an entry that exists is used whatever its platform is.
Entry(e, platform) ==
  IF e.queued THEN e
  ELSE [NoEntry EXCEPT !.queued = TRUE, !.platform = platform]
MixesPlatforms(e, platform) == e.queued /\ e.platform # platform

\* toProfileFromRANK.  It pushes to an array that an entry created by a comment
\* does not have.
CanPush(e) == e.queued => e.hasRanks
WithRank(e, platform, r) ==
  [Entry(e, platform) EXCEPT !.hasRanks = TRUE,
                             !.ranks = @ \cup {r},
                             !.n = Plus(@, VoteOf(r))]

\* RANK outputs first, then comments (the mutant: in any order).
RanksFirst_Mutant == TRUE
RanksFirst == ranksLeft = {}

QueueRank(r) ==
  LET at == At(r)
      e == queue[at.profile]
      pushes == CanPush(e) /\ (at.post # NoPost => CanPush(queuePosts[at.profile][at.post]))
  IN
  /\ op \in {"upsert", "rewind"}
  /\ r \in ranksLeft
  /\ ranksLeft' = ranksLeft \ {r}
  /\ op' = IF pushes THEN op ELSE "pushFailed"
  /\ queue' = [queue EXCEPT ![at.profile] = WithRank(e, at.platform, r)]
  /\ queuePosts' =
       IF at.post = NoPost THEN queuePosts
       ELSE [queuePosts EXCEPT ![at.profile][at.post] =
               WithRank(queuePosts[at.profile][at.post], at.platform, r)]
  /\ mixed' = (mixed \/ MixesPlatforms(e, at.platform))
  /\ UNCHANGED <<commentsLeft, batch, fromRecords, connects, height, mempool, tip,
                 dbVars, applied, batches, restarts>>

\* toProfileFromRNKC: the author's profile and the comment as a post of it.
SelfVoted(e, c) == [Entry(e, Lotusia) EXCEPT !.n = Plus(@, VoteOf(c))]
\* toRepliedProfileFromRNKC: a comment is a reply to a profile or to a post.
RepliedBy(e, platform, c, here) ==
  [Entry(e, platform) EXCEPT !.comments = IF here THEN @ \cup {c} ELSE @]

QueueComment(c) ==
  LET at == At(c)
      a == Author[c]
      queue1 == [queue EXCEPT ![a] = SelfVoted(queue[a], c)]
      posts1 == [queuePosts EXCEPT ![a][c] =
                   [SelfVoted(queuePosts[a][c], c) EXCEPT !.hasData = TRUE]]
      replies == at.profile # NoProfile
  IN
  /\ op \in {"upsert", "rewind"}
  /\ RanksFirst
  /\ c \in commentsLeft
  /\ commentsLeft' = commentsLeft \ {c}
  /\ queue' = IF ~replies THEN queue1
              ELSE [queue1 EXCEPT ![at.profile] =
                      RepliedBy(queue1[at.profile], at.platform, c, at.post = NoPost)]
  /\ queuePosts' = IF at.post = NoPost THEN posts1
                   ELSE [posts1 EXCEPT ![at.profile][at.post] =
                           RepliedBy(posts1[at.profile][at.post], at.platform, c, TRUE)]
  /\ mixed' = \/ mixed
              \/ MixesPlatforms(queue[a], Lotusia)
              \/ replies /\ MixesPlatforms(queue1[at.profile], at.platform)
  /\ UNCHANGED <<op, ranksLeft, batch, fromRecords, connects, height, mempool, tip,
                 dbVars, applied, batches, restarts>>

-----------------------------------------------------------------------------
(* The queue as one database transaction. *)

\* toProfileUpsertStatements, phase 1: profiles and posts are created, or
\* incremented.  A post that a RANK created gets its data (mutant: not).
ProfilesAfterUpsert ==
  [l \in Platforms |-> [p \in Profiles |->
     LET e == queue[p]  row == profiles[l][p] IN
     IF e.queued /\ e.platform = l
     THEN [exists |-> TRUE, n |-> Plus(row.n, e.n)] ELSE row]]
PostsAfterUpsert_Mutant ==
  [l \in Platforms |-> [p \in Profiles |-> [k \in Posts |->
     LET e == queuePosts[p][k]  row == posts[l][p][k] IN
     IF e.queued /\ e.platform = l
     THEN [exists |-> TRUE, n |-> Plus(row.n, e.n),
           hasData |-> IF row.exists THEN row.hasData ELSE e.hasData]
     ELSE row]]]
PostsAfterUpsert ==
  [l \in Platforms |-> [p \in Profiles |-> [k \in Posts |->
     LET e == queuePosts[p][k]  row == posts[l][p][k] IN
     IF e.queued /\ e.platform = l
     THEN [exists |-> TRUE, n |-> Plus(row.n, e.n),
           hasData |-> row.hasData \/ e.hasData]
     ELSE row]]]

\* Phases 2 and 3: the records, with the platform of the entry they are in.
InPost(o) == /\ Target[o].post # NoPost
             /\ o \in queuePosts[Target[o].profile][Target[o].post].ranks
                        \cup queuePosts[Target[o].profile][Target[o].post].comments
RecordsAfterUpsert ==
  [o \in Outputs |->
     IF o \in connects THEN [records[o] EXCEPT !.height = height]
     ELSE IF o \notin batch \/ ~Recorded(o) THEN records[o]
     ELSE LET p == Target[o].profile IN
          [exists |-> TRUE, height |-> height,
           at |-> IF InPost(o)
                  THEN [Target[o] EXCEPT
                          !.platform = queuePosts[p][Target[o].post].platform]
                  ELSE [Target[o] EXCEPT !.platform = queue[p].platform,
                                         !.post = NoPost]]]

\* The foreign keys: a post needs its profile, the record of a comment the
\* post that the comment is, with its data.
CanUpsert ==
  /\ \A p \in Profiles : \A k \in Posts :
       queuePosts[p][k].queued =>
         ProfilesAfterUpsert[queuePosts[p][k].platform][p].exists
  /\ \A c \in batch \cap Comments :
       Recorded(c) => /\ PostsAfterUpsert[Lotusia][Author[c]][c].exists
                      /\ PostsAfterUpsert[Lotusia][Author[c]][c].hasData

\* toProfileRewindStatements: the decrements, and the records deleted by txid
\* among those of the profile and among those of the post.
ProfilesAfterRewind ==
  [l \in Platforms |-> [p \in Profiles |->
     LET e == queue[p]  row == profiles[l][p] IN
     IF e.queued /\ e.platform = l THEN [row EXCEPT !.n = Minus(@, e.n)] ELSE row]]
PostsAfterRewind ==
  [l \in Platforms |-> [p \in Profiles |-> [k \in Posts |->
     LET e == queuePosts[p][k]  row == posts[l][p][k] IN
     IF e.queued /\ e.platform = l THEN [row EXCEPT !.n = Minus(@, e.n)] ELSE row]]]
Deletes(e, o, platform) ==
  /\ e.queued /\ e.platform = platform
  /\ \E x \in IF o \in Ranks THEN e.ranks ELSE e.comments : TxOf[x] = TxOf[o]
\* (The mutant deletes the records of posts by post alone.)
IsDeleted_Mutant(o) ==
  LET at == records[o].at IN
  at.profile # NoProfile /\ at.post = NoPost /\ Deletes(queue[at.profile], o, at.platform)
IsDeleted(o) ==
  LET at == records[o].at IN
  /\ at.profile # NoProfile
  /\ \/ Deletes(queue[at.profile], o, at.platform)
     \/ at.post # NoPost /\ Deletes(queuePosts[at.profile][at.post], o, at.platform)
RecordsAfterRewind ==
  [o \in Outputs |-> IF records[o].exists /\ IsDeleted(o) THEN NoRecord(o)
                     ELSE records[o]]
\* An update of a row that does not exist fails.
CanRewind ==
  /\ \A p \in Profiles : queue[p].queued => profiles[queue[p].platform][p].exists
  /\ \A p \in Profiles : \A k \in Posts :
       queuePosts[p][k].queued => posts[queuePosts[p][k].platform][p][k].exists

QueueIsFull == ranksLeft = {} /\ commentsLeft = {}

\* The height of the highest block stored.
TipAfterSave == IF height = Unconfirmed THEN tip ELSE height
TipAfterRewind == IF height = Unconfirmed THEN tip ELSE height - 1

HandlerEnds ==
  /\ op' = "idle"
  /\ batch' = {} /\ connects' = {}
  /\ queue' = EmptyQueue /\ queuePosts' = NoQueuePosts
  /\ UNCHANGED <<ranksLeft, commentsLeft, fromRecords, height, mempool, mixed,
                 batches, restarts>>

Upsert ==
  /\ op = "upsert" /\ QueueIsFull
  /\ CanUpsert
  /\ profiles' = ProfilesAfterUpsert
  /\ posts' = PostsAfterUpsert
  /\ records' = RecordsAfterUpsert
  /\ applied' = [o \in Outputs |-> IF o \in batch THEN applied[o] + 1 ELSE applied[o]]
  /\ tip' = TipAfterSave
  /\ HandlerEnds

Rewind ==
  /\ op = "rewind" /\ QueueIsFull
  /\ CanRewind
  /\ profiles' = ProfilesAfterRewind
  /\ posts' = PostsAfterRewind
  /\ records' = RecordsAfterRewind
  /\ applied' = [o \in Outputs |-> IF o \in batch THEN applied[o] - 1 ELSE applied[o]]
  /\ tip' = TipAfterRewind
  /\ HandlerEnds

StatementFails ==
  /\ \/ op = "upsert" /\ QueueIsFull /\ ~CanUpsert
     \/ op = "rewind" /\ QueueIsFull /\ ~CanRewind
  /\ op' = "statementFailed"
  /\ UNCHANGED <<taskVars, queueVars, mempool, tip, dbVars, applied, mixed,
                 batches, restarts>>

-----------------------------------------------------------------------------

Init ==
  /\ op = "idle"
  /\ ranksLeft = {} /\ commentsLeft = {} /\ batch = {} /\ connects = {}
  /\ fromRecords = FALSE /\ height = Unconfirmed
  /\ queue = EmptyQueue /\ queuePosts = NoQueuePosts
  /\ mempool = {} /\ tip = 0
  /\ profiles = [l \in Platforms |-> [p \in Profiles |->
                   [exists |-> FALSE, n |-> Zero]]]
  /\ posts = [l \in Platforms |-> [p \in Profiles |-> [k \in Posts |->
                [exists |-> FALSE, hasData |-> FALSE, n |-> Zero]]]]
  /\ records = [o \in Outputs |-> NoRecord(o)]
  /\ applied = [o \in Outputs |-> 0]
  /\ mixed = FALSE
  /\ batches = 0 /\ restarts = 0

QueueStep ==
  \/ \E r \in Ranks : QueueRank(r)
  \/ \E c \in Comments : QueueComment(c)
  \/ Upsert \/ Rewind \/ StatementFails

Next == Handler \/ QueueStep \/ Restart

Spec == Init /\ [][Next]_vars

-----------------------------------------------------------------------------
(* Properties *)

TypeOK ==
  /\ op \in Ops
  /\ ranksLeft \in SUBSET Ranks /\ commentsLeft \in SUBSET Comments
  /\ batch \in SUBSET Outputs /\ connects \in SUBSET Outputs
  /\ fromRecords \in BOOLEAN /\ height \in 0..MaxHeight
  /\ queue \in [Profiles -> Entries]
  /\ queuePosts \in [Profiles -> [Posts -> Entries]]
  /\ mempool \in SUBSET Outputs /\ tip \in 0..MaxHeight
  /\ profiles \in [Platforms -> [Profiles -> ProfileRows]]
  /\ posts \in [Platforms -> [Profiles -> [Posts -> PostRows]]]
  /\ records \in [Outputs -> Records]
  /\ applied \in [Outputs -> Int]
  /\ mixed \in BOOLEAN
  /\ batches \in Nat /\ restarts \in Nat

\* No handler throws because it pushes a RANK output to an entry that a
\* comment created, which has no array for it: every queue is filled with the
\* RANK outputs first.
PushesSucceed == op # "pushFailed"

\* As long as no queue held two platforms under one id, no statement fails:
\* every row that is decremented exists, and a comment's record finds the post
\* that the comment is, with its data, even if a RANK created that post.
StatementsSucceed == ~mixed => op # "statementFailed"

\* The ranking of a profile or post is what was burned for it less what was
\* burned against it, as the schema says, in the queue and in the database,
\* however outputs are added and taken back.
IsNet(n) == n.ranking = n.satsPositive - n.satsNegative
RankingIsNet ==
  /\ \A p \in Profiles : /\ IsNet(queue[p].n)
                         /\ \A k \in Posts : IsNet(queuePosts[p][k].n)
  /\ \A l \in Platforms : \A p \in Profiles :
       /\ IsNet(profiles[l][p].n)
       /\ \A k \in Posts : IsNet(posts[l][p][k].n)

\* The outputs that count for a profile and for a post.
CountingForProfile(l, p) ==
  {r \in Ranks : Target[r].platform = l /\ Target[r].profile = p}
    \cup {c \in Comments : l = Lotusia /\ p = Author[c]}
CountingForPost(l, p, k) ==
  {r \in Ranks : Target[r] = [platform |-> l, profile |-> p, post |-> k]}
    \cup {c \in Comments : l = Lotusia /\ p = Author[c] /\ k = c}

\* What counters should be, given how often each output was applied.
Times(i, a) == [ranking |-> i * a.ranking,
                satsPositive |-> i * a.satsPositive,
                satsNegative |-> i * a.satsNegative,
                votesPositive |-> i * a.votesPositive,
                votesNegative |-> i * a.votesNegative]
Total(counters) == FoldFunction(Plus, Zero, counters)
Due(S) ==
  Total([o \in Outputs |-> IF o \in S THEN Times(applied[o], VoteOf(o)) ELSE Zero])

\* Between two handlers, as long as no queue held two platforms under one id,
\* the counters of a profile and of a post are the sums over the outputs that
\* were added and not taken back, whichever outputs shared a queue when they
\* were added, and whichever when they were taken back.
CountersMatchOutputs ==
  op = "idle" /\ ~mixed =>
    \A l \in Platforms : \A p \in Profiles :
      /\ profiles[l][p].n = Due(CountingForProfile(l, p))
      /\ \A k \in Posts : posts[l][p][k].n = Due(CountingForPost(l, p, k))

\* And an output that can have a record has one exactly when it counts, under
\* the profile and the post that it names.
RecordsMatchOutputs ==
  ~mixed =>
    \A o \in Outputs : Recorded(o) =>
      /\ applied[o] = IF records[o].exists THEN 1 ELSE 0
      /\ records[o].at = Target[o]

=============================================================================
