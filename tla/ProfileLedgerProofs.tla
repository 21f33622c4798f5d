------------------------ MODULE ProfileLedgerProofs ------------------------
(***************************************************************************)
(* The profile queue, for any transactions, platforms, profiles and posts. *)
(*                                                                         *)
(* IInv is inductive.  A queue is empty when its filling starts and gets   *)
(* the RANK outputs first, so that every entry a RANK output meets was     *)
(* made by another one; and whatever is added to an entry or a row, or     *)
(* taken from it, is net of the same parts.                                *)
(*                                                                         *)
(* AInv is inductive with it.  As long as no queue held two platforms      *)
(* under one profile id, an entry of the queue is made of exactly the      *)
(* outputs queued for it, with the sum of their votes; a row has the sum   *)
(* over the outputs that count; and an output has a record exactly when it *)
(* counts.  The sums are folds over the outputs, about which the lemmas    *)
(* that follow IInv say how they change with one output and with many.     *)
(***************************************************************************)
EXTENDS ProfileLedger, TLAPS, FiniteSetTheorems, WellFoundedInduction

\* A record names the profile its output names, and its post or none.
RecordsNameTargets ==
  \A o \in Outputs : /\ records[o].at.profile = Target[o].profile
                     /\ records[o].at.post \in {Target[o].post, NoPost}

\* A queue is filled from empty ...
QueueStartsEmpty ==
  op \in {"idle", "cleanup"} => queue = EmptyQueue /\ queuePosts = NoQueuePosts

\* ... and as long as RANK outputs are left, RANK outputs made its entries.
OnlyRanksQueued ==
  ranksLeft # {} =>
    \A id \in Profiles : /\ CanPush(queue[id])
                         /\ \A post \in Posts : CanPush(queuePosts[id][post])

IInv ==
  /\ TypeOK
  /\ RecordsNameTargets
  /\ QueueStartsEmpty
  /\ OnlyRanksQueued
  /\ PushesSucceed
  /\ RankingIsNet

-----------------------------------------------------------------------------
(* Counters and entries. *)

\* Sums and differences of counters that are net are net.
LEMMA CountersLemma ==
  ASSUME NEW a \in Counters, NEW b \in Counters
  PROVE  /\ Plus(a, b) \in Counters
         /\ Minus(a, b) \in Counters
         /\ IsNet(a) /\ IsNet(b) => IsNet(Plus(a, b)) /\ IsNet(Minus(a, b))
  BY DEF Counters, Plus, Minus, IsNet

LEMMA ZeroLemma == Zero \in Counters /\ IsNet(Zero)
  BY DEF Zero, Counters, IsNet

\* A vote of any sentiment is net, and so what an output adds.
LEMMA SentimentLemma ==
  ASSUME NEW s, NEW sats \in Nat
  PROVE  Vote(s, sats) \in Counters /\ IsNet(Vote(s, sats))
<1>1. CASE s = "positive"
  <2>1. Vote(s, sats) = [ranking |-> sats, satsPositive |-> sats, satsNegative |-> 0,
                         votesPositive |-> 1, votesNegative |-> 0]
    BY <1>1 DEF Vote, Zero
  <2> QED
    BY <2>1 DEF Counters, IsNet
<1>2. CASE s = "negative"
  <2>1. Vote(s, sats) = [ranking |-> -sats, satsPositive |-> 0, satsNegative |-> sats,
                         votesPositive |-> 0, votesNegative |-> 1]
    BY <1>2 DEF Vote, Zero
  <2> QED
    BY <2>1 DEF Counters, IsNet
<1>3. CASE s # "positive" /\ s # "negative"
  BY <1>3, ZeroLemma DEF Vote
<1> QED
  BY <1>1, <1>2, <1>3

LEMMA VoteLemma ==
  ASSUME NEW o \in Outputs
  PROVE  VoteOf(o) \in Counters /\ IsNet(VoteOf(o))
<1>1. Sats[o] \in Nat
  BY LedgerAssumption
<1> QED
  BY <1>1, SentimentLemma DEF VoteOf

\* An entry of the queue is one after an output is added to it.
LEMMA NoEntryLemma == NoEntry \in Entries /\ IsNet(NoEntry.n) /\ CanPush(NoEntry)
  BY ZeroLemma, LedgerAssumption DEF NoEntry, Entries, CanPush

LEMMA EntryLemma ==
  ASSUME NEW e \in Entries, NEW l \in Platforms
  PROVE  /\ Entry(e, l) \in Entries
         /\ IsNet(e.n) => IsNet(Entry(e, l).n)
  BY ZeroLemma DEF Entry, Entries, NoEntry

LEMMA WithRankLemma ==
  ASSUME NEW e \in Entries, NEW l \in Platforms, NEW r \in Ranks
  PROVE  /\ WithRank(e, l, r) \in Entries
         /\ CanPush(WithRank(e, l, r))
         /\ IsNet(e.n) => IsNet(WithRank(e, l, r).n)
<1> DEFINE f == Entry(e, l)
<1>1. f \in Entries /\ (IsNet(e.n) => IsNet(f.n))
  BY EntryLemma
<1>2. VoteOf(r) \in Counters /\ IsNet(VoteOf(r))
  BY VoteLemma DEF Outputs
<1>3. f.n \in Counters
  BY <1>1 DEF Entries
<1>4. /\ Plus(f.n, VoteOf(r)) \in Counters
      /\ IsNet(f.n) => IsNet(Plus(f.n, VoteOf(r)))
  BY <1>2, <1>3, CountersLemma
<1> HIDE DEF f
<1>5. [f EXCEPT !.hasRanks = TRUE, !.ranks = @ \cup {r}, !.n = Plus(@, VoteOf(r))]
        = [f EXCEPT !.hasRanks = TRUE, !.ranks = f.ranks \cup {r},
                    !.n = Plus(f.n, VoteOf(r))]
  BY <1>1 DEF Entries
<1>6. WithRank(e, l, r) = [f EXCEPT !.hasRanks = TRUE, !.ranks = f.ranks \cup {r},
                                    !.n = Plus(f.n, VoteOf(r))]
  BY <1>5 DEF WithRank, f
<1> DEFINE n == Plus(f.n, VoteOf(r))
           ranks == f.ranks \cup {r}
           g == [f EXCEPT !.hasRanks = TRUE, !.ranks = ranks, !.n = n]
<1>7. ranks \in SUBSET Ranks
  BY <1>1 DEF Entries
<1>8. n \in Counters /\ (IsNet(f.n) => IsNet(n))
  BY <1>4
<1>9. WithRank(e, l, r) = g
  BY <1>6
<1> HIDE DEF n, ranks
<1>10. g \in Entries /\ g.hasRanks /\ g.n = n
  BY <1>1, <1>7, <1>8 DEF Entries
<1> HIDE DEF g
<1> QED
  BY <1>1, <1>8, <1>9, <1>10 DEF CanPush

LEMMA SelfVotedLemma ==
  ASSUME NEW e \in Entries, NEW c \in Comments
  PROVE  /\ SelfVoted(e, c) \in Entries
         /\ IsNet(e.n) => IsNet(SelfVoted(e, c).n)
<1> DEFINE f == Entry(e, Lotusia)
<1>1. f \in Entries /\ (IsNet(e.n) => IsNet(f.n))
  BY EntryLemma, LedgerAssumption
<1>2. VoteOf(c) \in Counters /\ IsNet(VoteOf(c))
  BY VoteLemma DEF Outputs
<1>3. f.n \in Counters
  BY <1>1 DEF Entries
<1>4. /\ Plus(f.n, VoteOf(c)) \in Counters
      /\ IsNet(f.n) => IsNet(Plus(f.n, VoteOf(c)))
  BY <1>2, <1>3, CountersLemma
<1>5. SelfVoted(e, c) = [f EXCEPT !.n = Plus(f.n, VoteOf(c))]
  BY <1>1 DEF SelfVoted, Entries
<1> HIDE DEF f
<1> QED
  BY <1>1, <1>4, <1>5 DEF Entries

LEMMA RepliedByLemma ==
  ASSUME NEW e \in Entries, NEW l \in Platforms, NEW c \in Comments, NEW here \in BOOLEAN
  PROVE  /\ RepliedBy(e, l, c, here) \in Entries
         /\ IsNet(e.n) => IsNet(RepliedBy(e, l, c, here).n)
<1> DEFINE f == Entry(e, l)
<1>1. f \in Entries /\ (IsNet(e.n) => IsNet(f.n))
  BY EntryLemma
<1>2. RepliedBy(e, l, c, here)
        = [f EXCEPT !.comments = IF here THEN f.comments \cup {c} ELSE f.comments]
  BY <1>1 DEF RepliedBy, Entries
<1> HIDE DEF f
<1> QED
  BY <1>1, <1>2 DEF Entries
-----------------------------------------------------------------------------
(* The steps. *)

LEMMA EmptyQueueLemma ==
  /\ EmptyQueue \in [Profiles -> Entries]
  /\ NoQueuePosts \in [Profiles -> [Posts -> Entries]]
  /\ \A id \in Profiles :
       /\ CanPush(EmptyQueue[id]) /\ IsNet(EmptyQueue[id].n)
       /\ \A post \in Posts : /\ CanPush(NoQueuePosts[id][post])
                              /\ IsNet(NoQueuePosts[id][post].n)
  BY NoEntryLemma DEF EmptyQueue, NoQueuePosts

LEMMA InitLemma == Init => IInv
<1> SUFFICES ASSUME Init PROVE IInv
  OBVIOUS
<1> USE DEF Init
<1>1. \A o \in Outputs : NoRecord(o) \in Records
  BY LedgerAssumption DEF NoRecord, Records, Unconfirmed
<1>2. profiles \in [Platforms -> [Profiles -> ProfileRows]]
  BY ZeroLemma DEF ProfileRows
<1>3. posts \in [Platforms -> [Profiles -> [Posts -> PostRows]]]
  BY ZeroLemma DEF PostRows
<1>4. TypeOK
  <2>1. records \in [Outputs -> Records] /\ applied \in [Outputs -> Int]
    BY <1>1
  <2>2. /\ queue \in [Profiles -> Entries]
        /\ queuePosts \in [Profiles -> [Posts -> Entries]]
    BY EmptyQueueLemma
  <2>3. tip \in 0..MaxHeight /\ height \in 0..MaxHeight
    BY LedgerAssumption DEF Unconfirmed
  <2> QED
    BY <1>2, <1>3, <2>1, <2>2, <2>3 DEF TypeOK, Ops
<1>5. RecordsNameTargets
  BY DEF RecordsNameTargets, NoRecord
<1>6. RankingIsNet
  BY EmptyQueueLemma, ZeroLemma DEF RankingIsNet
<1> QED
  BY <1>4, <1>5, <1>6 DEF IInv, QueueStartsEmpty, OnlyRanksQueued, PushesSucceed

\* A handler starts with an empty queue.
LEMMA StartsBatchLemma ==
  ASSUME IInv, op \in {"idle", "cleanup"},
         NEW next \in {"upsert", "rewind"}, NEW S \in SUBSET Outputs,
         NEW reads \in BOOLEAN, NEW h \in 0..MaxHeight,
         StartsBatch(next, S, reads, h),
         connects' \in SUBSET Outputs, mempool' \in SUBSET Outputs
  PROVE  IInv'
<1> USE DEF StartsBatch, IInv, queueVars, dbVars
<1>1. TypeOK'
  BY DEF TypeOK, Ops, Outputs
<1>2. queue' = EmptyQueue /\ queuePosts' = NoQueuePosts
  BY DEF QueueStartsEmpty
<1>3. OnlyRanksQueued'
  BY <1>2, EmptyQueueLemma DEF OnlyRanksQueued
<1>4. RecordsNameTargets' /\ RankingIsNet'
  BY DEF RecordsNameTargets, RankingIsNet
<1> QED
  BY <1>1, <1>3, <1>4 DEF QueueStartsEmpty, PushesSucceed

LEMMA HandlerLemma == IInv /\ Handler => IInv'
<1> SUFFICES ASSUME IInv, Handler PROVE IInv'
  OBVIOUS
<1> USE DEF Unconfirmed
<1>0. /\ Unconfirmed \in 0..MaxHeight /\ tip \in 0..MaxHeight /\ mempool \in SUBSET Outputs
      /\ \A T : OutputsOf(T) \in SUBSET Outputs
      /\ \A h : RecordsAt(h) \in SUBSET Outputs
  BY LedgerAssumption DEF IInv, TypeOK, OutputsOf, RecordsAt
<1>1. ASSUME NEW T \in SUBSET Txs, AddsUnconfirmed(T) PROVE IInv'
  <2>1. /\ op = "idle" /\ StartsBatch("upsert", OutputsOf(T), FALSE, Unconfirmed)
        /\ connects' \in SUBSET Outputs /\ mempool' \in SUBSET Outputs
    BY <1>0, <1>1 DEF AddsUnconfirmed
  <2> HIDE DEF Unconfirmed
  <2> QED
    BY <1>0, <2>1, StartsBatchLemma
<1>2. ASSUME NEW T \in SUBSET Txs, BlockConnected(T) PROVE IInv'
  <2>1. tip + 1 \in 0..MaxHeight
    BY <1>0, <1>2, LedgerAssumption DEF BlockConnected
  <2> QED
    BY <1>0, <1>2, <2>1, StartsBatchLemma DEF BlockConnected
<1>3. ASSUME NEW t \in Txs, MempoolTxRemove(t) PROVE IInv'
  <2>1. /\ op = "idle"
        /\ StartsBatch("rewind", OutputsOf({t}) \cap mempool, FALSE, Unconfirmed)
        /\ connects' \in SUBSET Outputs /\ mempool' \in SUBSET Outputs
        /\ OutputsOf({t}) \cap mempool \in SUBSET Outputs
    BY <1>0, <1>3 DEF MempoolTxRemove
  <2> HIDE DEF Unconfirmed
  <2> QED
    BY <1>0, <2>1, StartsBatchLemma
<1>4. CASE RewindBlock
  BY <1>0, <1>4, StartsBatchLemma DEF RewindBlock
<1>5. CASE Cleanup
  <2>1. /\ op = "cleanup" /\ StartsBatch("rewind", RecordsAt(Unconfirmed), TRUE, Unconfirmed)
        /\ connects' \in SUBSET Outputs /\ mempool' \in SUBSET Outputs
    BY <1>0, <1>5 DEF Cleanup
  <2> HIDE DEF Unconfirmed
  <2> QED
    BY <1>0, <2>1, StartsBatchLemma
<1> QED
  BY <1>1, <1>2, <1>3, <1>4, <1>5 DEF Handler

\* The columns of an output.
LEMMA AtLemma ==
  ASSUME IInv, NEW o \in Outputs
  PROVE  /\ At(o).platform \in Platforms
         /\ At(o).profile \in Profiles \cup {NoProfile}
         /\ At(o).post \in Posts \cup {NoPost}
         /\ o \in Ranks => At(o).profile \in Profiles
         /\ At(o).profile = NoProfile => At(o).post = NoPost
<1>1. Target[o] \in Targets /\ records[o].at \in Targets
  BY LedgerAssumption DEF IInv, TypeOK, Records
<1>2. CASE fromRecords
  <2>1. At(o) = records[o].at
    BY <1>2 DEF At
  <2>2. /\ At(o).profile = Target[o].profile
        /\ At(o).post \in {Target[o].post, NoPost}
    BY <2>1 DEF IInv, RecordsNameTargets
  <2> QED
    BY <1>1, <2>1, <2>2, LedgerAssumption DEF Targets
<1>3. CASE ~fromRecords
  BY <1>1, <1>3, LedgerAssumption DEF At, Targets
<1> QED
  BY <1>2, <1>3

LEMMA QueueRankLemma ==
  ASSUME IInv, NEW r \in Ranks, QueueRank(r)
  PROVE  IInv'
<1> DEFINE at == At(r)
           id == at.profile
           e == queue[id]
           f == WithRank(e, at.platform, r)
           eP == queuePosts[id][at.post]
           fP == WithRank(eP, at.platform, r)
<1> USE DEF IInv
<1>1. at.platform \in Platforms /\ id \in Profiles /\ at.post \in Posts \cup {NoPost}
  BY AtLemma DEF Outputs
<1>2. e \in Entries /\ IsNet(e.n) /\ CanPush(e)
  BY <1>1 DEF TypeOK, RankingIsNet, OnlyRanksQueued, QueueRank
<1>3. f \in Entries /\ CanPush(f) /\ IsNet(f.n)
  BY <1>1, <1>2, WithRankLemma
<1>4. at.post # NoPost => eP \in Entries /\ IsNet(eP.n) /\ CanPush(eP)
  BY <1>1 DEF TypeOK, RankingIsNet, OnlyRanksQueued, QueueRank
<1>5. at.post # NoPost => fP \in Entries /\ CanPush(fP) /\ IsNet(fP.n)
  BY <1>1, <1>4, WithRankLemma
<1>6. op' = op
  BY <1>2, <1>4 DEF QueueRank
<1>7. /\ queue' = [queue EXCEPT ![id] = f]
      /\ queuePosts' = IF at.post = NoPost THEN queuePosts
                       ELSE [queuePosts EXCEPT ![id][at.post] = fP]
      /\ ranksLeft' = ranksLeft \ {r}
  BY DEF QueueRank
<1>8. /\ queue \in [Profiles -> Entries]
      /\ queuePosts \in [Profiles -> [Posts -> Entries]]
  BY DEF TypeOK
<1> HIDE DEF at, id, f, fP
<1>9. /\ queue' \in [Profiles -> Entries]
      /\ queuePosts' \in [Profiles -> [Posts -> Entries]]
  BY <1>1, <1>3, <1>5, <1>7, <1>8
<1>10. TypeOK'
  <2>1. mixed' \in BOOLEAN
    BY DEF TypeOK, QueueRank, MixesPlatforms
  <2> QED
    BY <1>6, <1>9, <2>1 DEF TypeOK, QueueRank, dbVars
<1>11. OnlyRanksQueued'
  BY <1>1, <1>3, <1>5, <1>7, <1>8 DEF OnlyRanksQueued, QueueRank
<1>12. RankingIsNet'
  <2>1. profiles' = profiles /\ posts' = posts
    BY DEF QueueRank, dbVars
  <2> QED
    BY <1>1, <1>3, <1>5, <1>7, <1>8, <2>1 DEF RankingIsNet
<1>13. RecordsNameTargets' /\ QueueStartsEmpty' /\ PushesSucceed'
  BY <1>6 DEF QueueRank, dbVars, RecordsNameTargets, QueueStartsEmpty, PushesSucceed
<1> QED
  BY <1>10, <1>11, <1>12, <1>13

LEMMA QueueCommentLemma ==
  ASSUME IInv, NEW c \in Comments, QueueComment(c)
  PROVE  IInv'
<1> DEFINE at == At(c)
           a == Author[c]
           id == at.profile
           queue1 == [queue EXCEPT ![a] = SelfVoted(queue[a], c)]
           own == [SelfVoted(queuePosts[a][c], c) EXCEPT !.hasData = TRUE]
           posts1 == [queuePosts EXCEPT ![a][c] = own]
           f == RepliedBy(queue1[id], at.platform, c, at.post = NoPost)
           fP == RepliedBy(posts1[id][at.post], at.platform, c, TRUE)
<1> USE DEF IInv
<1>1. /\ at.platform \in Platforms /\ id \in Profiles \cup {NoProfile}
      /\ at.post \in Posts \cup {NoPost}
      /\ at.post # NoPost => id # NoProfile
      /\ a \in Profiles /\ c \in Posts /\ NoProfile \notin Profiles
  BY AtLemma, LedgerAssumption DEF Outputs
<1>2. /\ queue \in [Profiles -> Entries]
      /\ queuePosts \in [Profiles -> [Posts -> Entries]]
      /\ \A x \in Profiles : /\ IsNet(queue[x].n)
                             /\ \A y \in Posts : IsNet(queuePosts[x][y].n)
  BY DEF TypeOK, RankingIsNet
<1>3. SelfVoted(queue[a], c) \in Entries /\ IsNet(SelfVoted(queue[a], c).n)
  BY <1>1, <1>2, SelfVotedLemma
<1>4. own \in Entries /\ IsNet(own.n)
  <2>1. /\ SelfVoted(queuePosts[a][c], c) \in Entries
        /\ IsNet(SelfVoted(queuePosts[a][c], c).n)
    BY <1>1, <1>2, SelfVotedLemma
  <2> QED
    BY <2>1 DEF Entries
<1> HIDE DEF at, a, own
<1>5. /\ queue1 \in [Profiles -> Entries]
      /\ \A x \in Profiles : IsNet(queue1[x].n)
  BY <1>1, <1>2, <1>3
<1>6. /\ posts1 \in [Profiles -> [Posts -> Entries]]
      /\ \A x \in Profiles : \A y \in Posts : IsNet(posts1[x][y].n)
  BY <1>1, <1>2, <1>4
<1>7. id # NoProfile => f \in Entries /\ IsNet(f.n)
  <2> HIDE DEF queue1
  <2> QED
    BY <1>1, <1>5, RepliedByLemma
<1>8. at.post # NoPost => fP \in Entries /\ IsNet(fP.n)
  <2> HIDE DEF posts1
  <2> QED
    BY <1>1, <1>6, RepliedByLemma
<1>9. /\ queue' = IF id = NoProfile THEN queue1 ELSE [queue1 EXCEPT ![id] = f]
      /\ queuePosts' = IF at.post = NoPost THEN posts1
                       ELSE [posts1 EXCEPT ![id][at.post] = fP]
      /\ op' = op /\ ranksLeft' = {}
      /\ profiles' = profiles /\ posts' = posts /\ records' = records
  BY DEF QueueComment, RanksFirst, dbVars, at, a, own
<1> HIDE DEF id, queue1, posts1, f, fP
<1>10. /\ queue' \in [Profiles -> Entries]
       /\ \A x \in Profiles : IsNet(queue'[x].n)
  BY <1>1, <1>5, <1>7, <1>9
<1>11. /\ queuePosts' \in [Profiles -> [Posts -> Entries]]
       /\ \A x \in Profiles : \A y \in Posts : IsNet(queuePosts'[x][y].n)
  BY <1>1, <1>6, <1>8, <1>9 DEF id
<1>12. TypeOK'
  <2>1. mixed' \in BOOLEAN
    BY DEF TypeOK, QueueComment, MixesPlatforms
  <2> QED
    BY <1>9, <1>10, <1>11, <2>1 DEF TypeOK, QueueComment, dbVars
<1>13. RankingIsNet'
  BY <1>9, <1>10, <1>11 DEF RankingIsNet
<1> QED
  BY <1>9, <1>12, <1>13 DEF RecordsNameTargets, QueueStartsEmpty, OnlyRanksQueued,
                            PushesSucceed, QueueComment

LEMMA UpsertLemma == IInv /\ Upsert => IInv'
<1> SUFFICES ASSUME IInv, Upsert PROVE IInv'
  OBVIOUS
<1> USE DEF IInv
<1>1. /\ op' = "idle" /\ queue' = EmptyQueue /\ queuePosts' = NoQueuePosts
      /\ ranksLeft' = ranksLeft /\ ranksLeft = {} /\ batch' = {} /\ connects' = {}
      /\ profiles' = ProfilesAfterUpsert /\ posts' = PostsAfterUpsert
      /\ records' = RecordsAfterUpsert
  BY DEF Upsert, HandlerEnds, QueueIsFull
<1>2. /\ profiles' \in [Platforms -> [Profiles -> ProfileRows]]
      /\ \A l \in Platforms : \A id \in Profiles : IsNet(profiles'[l][id].n)
  <2>1. ASSUME NEW l \in Platforms, NEW id \in Profiles
        PROVE  /\ ProfilesAfterUpsert[l][id] \in ProfileRows
               /\ IsNet(ProfilesAfterUpsert[l][id].n)
    <3> DEFINE e == queue[id]
               row == profiles[l][id]
    <3>1. /\ e \in Entries /\ IsNet(e.n) /\ row \in ProfileRows /\ IsNet(row.n)
          /\ e.n \in Counters /\ row.n \in Counters
      BY DEF TypeOK, RankingIsNet, Entries, ProfileRows
    <3>2. Plus(row.n, e.n) \in Counters /\ IsNet(Plus(row.n, e.n))
      BY <3>1, CountersLemma
    <3>3. ProfilesAfterUpsert[l][id] = IF e.queued /\ e.platform = l
                                       THEN [exists |-> TRUE, n |-> Plus(row.n, e.n)] ELSE row
      BY DEF ProfilesAfterUpsert
    <3> HIDE DEF e, row
    <3> QED
      BY <3>1, <3>2, <3>3 DEF ProfileRows
  <2> QED
    BY <1>1, <2>1 DEF ProfilesAfterUpsert
<1>3. /\ posts' \in [Platforms -> [Profiles -> [Posts -> PostRows]]]
      /\ \A l \in Platforms : \A id \in Profiles : \A post \in Posts :
           IsNet(posts'[l][id][post].n)
  <2>1. ASSUME NEW l \in Platforms, NEW id \in Profiles, NEW post \in Posts
        PROVE  /\ PostsAfterUpsert[l][id][post] \in PostRows
               /\ IsNet(PostsAfterUpsert[l][id][post].n)
    <3> DEFINE e == queuePosts[id][post]
               row == posts[l][id][post]
    <3>1. /\ e \in Entries /\ IsNet(e.n) /\ row \in PostRows /\ IsNet(row.n)
          /\ e.n \in Counters /\ row.n \in Counters
      BY DEF TypeOK, RankingIsNet, Entries, PostRows
    <3>2. Plus(row.n, e.n) \in Counters /\ IsNet(Plus(row.n, e.n))
      BY <3>1, CountersLemma
    <3>3. PostsAfterUpsert[l][id][post]
            = IF e.queued /\ e.platform = l
              THEN [exists |-> TRUE, n |-> Plus(row.n, e.n),
                    hasData |-> row.hasData \/ e.hasData] ELSE row
      BY DEF PostsAfterUpsert
    <3>4. (row.hasData \/ e.hasData) \in BOOLEAN
      OBVIOUS
    <3> HIDE DEF e, row
    <3> QED
      BY <3>1, <3>2, <3>3, <3>4 DEF PostRows
  <2> QED
    BY <1>1, <2>1 DEF PostsAfterUpsert
<1>4. /\ records' \in [Outputs -> Records]
      /\ RecordsNameTargets'
  <2>1. ASSUME NEW o \in Outputs
        PROVE  /\ RecordsAfterUpsert[o] \in Records
               /\ RecordsAfterUpsert[o].at.profile = Target[o].profile
               /\ RecordsAfterUpsert[o].at.post \in {Target[o].post, NoPost}
    <3> DEFINE id == Target[o].profile
    <3>1. /\ records[o] \in Records /\ height \in 0..MaxHeight /\ Target[o] \in Targets
          /\ records[o].at.profile = Target[o].profile
          /\ records[o].at.post \in {Target[o].post, NoPost}
      BY LedgerAssumption DEF TypeOK, RecordsNameTargets
    <3>2. CASE o \in connects
      <4>1. RecordsAfterUpsert[o] = [records[o] EXCEPT !.height = height]
        BY <3>2 DEF RecordsAfterUpsert
      <4> QED
        BY <3>1, <4>1 DEF Records
    <3>3. CASE o \notin connects /\ (o \notin batch \/ ~Recorded(o))
      <4>1. RecordsAfterUpsert[o] = records[o]
        BY <3>3 DEF RecordsAfterUpsert
      <4> QED
        BY <3>1, <4>1
    <3>4. CASE o \notin connects /\ o \in batch /\ Recorded(o)
      <4> DEFINE l == IF InPost(o) THEN queuePosts[id][Target[o].post].platform
                      ELSE queue[id].platform
                 post == IF InPost(o) THEN Target[o].post ELSE NoPost
      <4>1. id \in Profiles /\ Target[o].post \in Posts \cup {NoPost}
        BY <3>1, <3>4 DEF Recorded, Targets
      <4>2. l \in Platforms
        BY <4>1 DEF TypeOK, Entries, InPost
      <4>3. RecordsAfterUpsert[o]
              = [exists |-> TRUE, height |-> height,
                 at |-> [platform |-> l, profile |-> id, post |-> post]]
        BY <3>1, <3>4 DEF RecordsAfterUpsert, Targets
      <4>4. post \in {Target[o].post, NoPost}
        OBVIOUS
      <4> HIDE DEF l, post
      <4> QED
        BY <3>1, <4>1, <4>2, <4>3, <4>4 DEF Records, Targets
    <3> QED
      BY <3>2, <3>3, <3>4
  <2> QED
    BY <1>1, <2>1 DEF RecordsAfterUpsert, RecordsNameTargets
<1>5. tip' \in 0..MaxHeight /\ applied' \in [Outputs -> Int]
  BY DEF Upsert, TipAfterSave, TypeOK
<1>6. TypeOK'
  BY <1>1, <1>2, <1>3, <1>4, <1>5, EmptyQueueLemma
  DEF TypeOK, Ops, Upsert, HandlerEnds
<1>7. RankingIsNet'
  BY <1>1, <1>2, <1>3, EmptyQueueLemma DEF RankingIsNet
<1> QED
  BY <1>1, <1>4, <1>6, <1>7 DEF QueueStartsEmpty, OnlyRanksQueued, PushesSucceed

LEMMA RewindLemma == IInv /\ Rewind => IInv'
<1> SUFFICES ASSUME IInv, Rewind PROVE IInv'
  OBVIOUS
<1> USE DEF IInv
<1>1. /\ op' = "idle" /\ queue' = EmptyQueue /\ queuePosts' = NoQueuePosts
      /\ ranksLeft' = ranksLeft /\ ranksLeft = {} /\ batch' = {} /\ connects' = {}
      /\ profiles' = ProfilesAfterRewind /\ posts' = PostsAfterRewind
      /\ records' = RecordsAfterRewind
  BY DEF Rewind, HandlerEnds, QueueIsFull
<1>2. /\ profiles' \in [Platforms -> [Profiles -> ProfileRows]]
      /\ \A l \in Platforms : \A id \in Profiles : IsNet(profiles'[l][id].n)
  <2>1. ASSUME NEW l \in Platforms, NEW id \in Profiles
        PROVE  /\ ProfilesAfterRewind[l][id] \in ProfileRows
               /\ IsNet(ProfilesAfterRewind[l][id].n)
    <3> DEFINE e == queue[id]
               row == profiles[l][id]
    <3>1. /\ e \in Entries /\ IsNet(e.n) /\ row \in ProfileRows /\ IsNet(row.n)
          /\ e.n \in Counters /\ row.n \in Counters
      BY DEF TypeOK, RankingIsNet, Entries, ProfileRows
    <3>2. Minus(row.n, e.n) \in Counters /\ IsNet(Minus(row.n, e.n))
      BY <3>1, CountersLemma
    <3>3. ProfilesAfterRewind[l][id] = IF e.queued /\ e.platform = l
                                       THEN [row EXCEPT !.n = Minus(row.n, e.n)] ELSE row
      BY <3>1 DEF ProfilesAfterRewind, ProfileRows
    <3> HIDE DEF e, row
    <3> QED
      BY <3>1, <3>2, <3>3 DEF ProfileRows
  <2> QED
    BY <1>1, <2>1 DEF ProfilesAfterRewind
<1>3. /\ posts' \in [Platforms -> [Profiles -> [Posts -> PostRows]]]
      /\ \A l \in Platforms : \A id \in Profiles : \A post \in Posts :
           IsNet(posts'[l][id][post].n)
  <2>1. ASSUME NEW l \in Platforms, NEW id \in Profiles, NEW post \in Posts
        PROVE  /\ PostsAfterRewind[l][id][post] \in PostRows
               /\ IsNet(PostsAfterRewind[l][id][post].n)
    <3> DEFINE e == queuePosts[id][post]
               row == posts[l][id][post]
    <3>1. /\ e \in Entries /\ IsNet(e.n) /\ row \in PostRows /\ IsNet(row.n)
          /\ e.n \in Counters /\ row.n \in Counters
      BY DEF TypeOK, RankingIsNet, Entries, PostRows
    <3>2. Minus(row.n, e.n) \in Counters /\ IsNet(Minus(row.n, e.n))
      BY <3>1, CountersLemma
    <3>3. PostsAfterRewind[l][id][post]
            = IF e.queued /\ e.platform = l
              THEN [row EXCEPT !.n = Minus(row.n, e.n)] ELSE row
      BY <3>1 DEF PostsAfterRewind, PostRows
    <3> HIDE DEF e, row
    <3> QED
      BY <3>1, <3>2, <3>3 DEF PostRows
  <2> QED
    BY <1>1, <2>1 DEF PostsAfterRewind
<1>4. /\ records' \in [Outputs -> Records]
      /\ RecordsNameTargets'
  <2>1. \A o \in Outputs : NoRecord(o) \in Records
    BY LedgerAssumption DEF NoRecord, Records, Unconfirmed
  <2>2. \A o \in Outputs : RecordsAfterRewind[o] \in {NoRecord(o), records[o]}
    BY DEF RecordsAfterRewind
  <2>3. \A o \in Outputs : NoRecord(o).at = Target[o]
    BY DEF NoRecord
  <2>4. records \in [Outputs -> Records]
    BY DEF TypeOK
  <2>5. records' \in [Outputs -> Records]
    BY <1>1, <2>1, <2>2, <2>4 DEF RecordsAfterRewind
  <2>6. RecordsNameTargets'
    BY <1>1, <2>2, <2>3 DEF RecordsNameTargets
  <2> QED
    BY <2>5, <2>6
<1>5. tip' \in 0..MaxHeight /\ applied' \in [Outputs -> Int]
  <2>1. height \in 0..MaxHeight /\ tip \in 0..MaxHeight /\ MaxHeight \in Nat
    BY LedgerAssumption DEF TypeOK
  <2>2. tip' \in 0..MaxHeight
    BY <2>1 DEF Rewind, TipAfterRewind, Unconfirmed
  <2> QED
    BY <2>2 DEF Rewind, TypeOK
<1>6. TypeOK'
  BY <1>1, <1>2, <1>3, <1>4, <1>5, EmptyQueueLemma
  DEF TypeOK, Ops, Rewind, HandlerEnds
<1>7. RankingIsNet'
  BY <1>1, <1>2, <1>3, EmptyQueueLemma DEF RankingIsNet
<1> QED
  BY <1>1, <1>4, <1>6, <1>7 DEF QueueStartsEmpty, OnlyRanksQueued, PushesSucceed

LEMMA RestartLemma == IInv /\ Restart => IInv'
<1> SUFFICES ASSUME IInv, Restart PROVE IInv'
  OBVIOUS
<1> USE DEF IInv, Restart, dbVars
<1>1. TypeOK'
  BY EmptyQueueLemma DEF TypeOK, Ops
<1>2. RecordsNameTargets'
  BY DEF RecordsNameTargets
<1>3. RankingIsNet'
  BY EmptyQueueLemma DEF RankingIsNet
<1> QED
  BY <1>1, <1>2, <1>3 DEF QueueStartsEmpty, OnlyRanksQueued, PushesSucceed

LEMMA StutterLemma ==
  ASSUME IInv, StatementFails \/ UNCHANGED vars
  PROVE  IInv'
<1> USE DEF IInv, vars, taskVars, queueVars, dbVars, StatementFails
<1>1. TypeOK'
  BY DEF TypeOK, Ops
<1>2. RecordsNameTargets' /\ QueueStartsEmpty'
  BY DEF RecordsNameTargets, QueueStartsEmpty
<1>3. OnlyRanksQueued' /\ PushesSucceed'
  BY DEF OnlyRanksQueued, PushesSucceed
<1>4. RankingIsNet'
  BY DEF RankingIsNet
<1> QED
  BY <1>1, <1>2, <1>3, <1>4

-----------------------------------------------------------------------------
(* The theorems. *)

\* The inductive invariant holds in every reachable state.
THEOREM Invariance == Spec => []IInv
<1>1. IInv /\ [Next]_vars => IInv'
  <2> SUFFICES ASSUME IInv, [Next]_vars PROVE IInv'
    OBVIOUS
  <2>1. CASE Handler
    BY <2>1, HandlerLemma
  <2>2. ASSUME NEW r \in Ranks, QueueRank(r) PROVE IInv'
    BY <2>2, QueueRankLemma
  <2>3. ASSUME NEW c \in Comments, QueueComment(c) PROVE IInv'
    BY <2>3, QueueCommentLemma
  <2>4. CASE Upsert
    BY <2>4, UpsertLemma
  <2>5. CASE Rewind
    BY <2>5, RewindLemma
  <2>6. CASE StatementFails \/ UNCHANGED vars
    BY <2>6, StutterLemma
  <2>7. CASE Restart
    BY <2>7, RestartLemma
  <2> QED
    BY <2>1, <2>2, <2>3, <2>4, <2>5, <2>6, <2>7 DEF Next, QueueStep
<1> QED
  BY InitLemma, <1>1, PTL DEF Spec

\* The variables of the queue and of the tables keep their types.
THEOREM TypeCorrect == Spec => []TypeOK
<1>1. IInv => TypeOK
  BY DEF IInv
<1> QED
  BY <1>1, Invariance, PTL

\* No handler throws because it pushes to an array that is not there: for any
\* outputs, in any handler, the queue is filled with the RANK outputs first.
THEOREM PushesNeverFail == Spec => []PushesSucceed
<1>1. IInv => PushesSucceed
  BY DEF IInv
<1> QED
  BY <1>1, Invariance, PTL

\* The ranking of every profile and post is its positive less its negative
\* sats, whatever is added and taken back, and even if platforms are mixed.
THEOREM RankingAlwaysNet == Spec => []RankingIsNet
<1>1. IInv => RankingIsNet
  BY DEF IInv
<1> QED
  BY <1>1, Invariance, PTL

-----------------------------------------------------------------------------
(* Sums over the outputs.  The recursive function behind Total exists, and  *)
(* sums are taken apart, by induction over the subsets of the outputs: of a *)
(* set of subsets that is not empty, some member contains no other.         *)

LEMMA OutputsFinite == IsFiniteSet(Outputs)
  BY LedgerAssumption, FS_Union DEF Outputs

LEMMA SmallestSubset ==
  ASSUME NEW F \in SUBSET SUBSET Outputs, F # {}
  PROVE  \E s \in F : \A x \in s : s \ {x} \notin F
<1>1. IsWellFoundedOn(StrictSubsetOrdering(Outputs), SUBSET Outputs)
  BY OutputsFinite, FS_StrictSubsetOrderingWellFounded, FS_FiniteSubsetsOfFinite
<1>2. PICK s \in F : \A u \in F : <<u, s>> \notin StrictSubsetOrdering(Outputs)
  BY <1>1, WFMin
<1>3. ASSUME NEW x \in s PROVE s \ {x} \notin F
  <2>1. s \in SUBSET Outputs /\ s \ {x} \in SUBSET Outputs /\ s \ {x} # s
    OBVIOUS
  <2>2. <<s \ {x}, s>> \in StrictSubsetOrdering(Outputs)
    BY <2>1 DEF StrictSubsetOrdering
  <2> QED
    BY <1>2, <2>2
<1> QED
  BY <1>3

\* The element a fold takes out of a set, and the function it computes.
Taken(s) == CHOOSE x \in s : TRUE
SumsOf(n, S, sum) ==
  sum = [s \in SUBSET S |-> IF s = {} THEN Zero ELSE Plus(n[Taken(s)], sum[s \ {Taken(s)}])]
Sums(n, S) == CHOOSE sum : SumsOf(n, S, sum)

LEMMA TakenLemma ==
  ASSUME NEW s, s # {}
  PROVE  Taken(s) \in s
  BY DEF Taken

LEMMA TotalIsFold ==
  ASSUME NEW n, DOMAIN n = Outputs
  PROVE  Total(n) = Sums(n, Outputs)[Outputs]
  BY SMT DEF Total, FoldFunction, FoldFunctionOnSet, MapThenFoldSet, SumsOf, Sums, Taken

\* What such a function is, without the function itself.
LEMMA SumsOfApplied ==
  ASSUME NEW n, NEW S, NEW sum, SumsOf(n, S, sum), NEW s \in SUBSET S
  PROVE  sum[s] = IF s = {} THEN Zero ELSE Plus(n[Taken(s)], sum[s \ {Taken(s)}])
  BY DEF SumsOf

\* There is at most one ...
LEMMA SumsOfUnique ==
  ASSUME NEW n, NEW S \in SUBSET Outputs, NEW T \in SUBSET Outputs,
         NEW f, SumsOf(n, S, f), NEW g, SumsOf(n, T, g)
  PROVE  \A s \in SUBSET (S \cap T) : f[s] = g[s]
<1> DEFINE F == {s \in SUBSET (S \cap T) : f[s] # g[s]}
<1> SUFFICES ASSUME F # {} PROVE FALSE
  OBVIOUS
<1>1. F \in SUBSET SUBSET Outputs
  OBVIOUS
<1>2. PICK s \in F : \A x \in s : s \ {x} \notin F
  <2> HIDE DEF F
  <2> QED
    BY <1>1, SmallestSubset
<1>3. s \in SUBSET S /\ s \in SUBSET T /\ f[s] # g[s]
  BY <1>2
<1>4. f[s] = IF s = {} THEN Zero ELSE Plus(n[Taken(s)], f[s \ {Taken(s)}])
  <2>1. SumsOf(n, S, f) /\ s \in SUBSET S
    BY <1>3
  <2> QED
    BY ONLY <2>1, SumsOfApplied
<1>5. g[s] = IF s = {} THEN Zero ELSE Plus(n[Taken(s)], g[s \ {Taken(s)}])
  <2>1. SumsOf(n, T, g) /\ s \in SUBSET T
    BY <1>3
  <2> QED
    BY ONLY <2>1, SumsOfApplied
<1>6. s # {}
  BY <1>3, <1>4, <1>5
<1>7. Taken(s) \in s
  BY <1>6, TakenLemma
<1>8. f[s \ {Taken(s)}] = g[s \ {Taken(s)}]
  BY <1>2, <1>3, <1>7
<1> QED
  BY <1>3, <1>4, <1>5, <1>6, <1>8

\* ... and there is one: its value on a set is that of a function on the
\* subsets of that set.
LEMMA SumsExist ==
  ASSUME NEW n
  PROVE  \A S \in SUBSET Outputs : SumsOf(n, S, Sums(n, S))
<1> DEFINE F == {S \in SUBSET Outputs : ~ \E sum : SumsOf(n, S, sum)}
<1>1. F = {}
  <2> SUFFICES ASSUME F # {} PROVE FALSE
    OBVIOUS
  <2>1. F \in SUBSET SUBSET Outputs
    OBVIOUS
  <2>2. PICK S \in F : \A x \in S : S \ {x} \notin F
    <3> HIDE DEF F
    <3> QED
      BY <2>1, SmallestSubset
  <2>3. S \in SUBSET Outputs /\ ~ \E sum : SumsOf(n, S, sum)
    BY <2>2
  <2>4. \A x \in S : SumsOf(n, S \ {x}, Sums(n, S \ {x}))
    BY <2>2 DEF Sums
  <2> HIDE DEF F
  <2> DEFINE below(s) == Sums(n, S \ {CHOOSE x \in S : x \notin s})[s]
             top == IF S = {} THEN Zero ELSE Plus(n[Taken(S)], below(S \ {Taken(S)}))
             sum == [s \in SUBSET S |-> IF s = S THEN top ELSE below(s)]
  <2>5. ASSUME NEW s \in SUBSET S, s # S
        PROVE  sum[s] = IF s = {} THEN Zero ELSE Plus(n[Taken(s)], sum[s \ {Taken(s)}])
    <3> DEFINE x == CHOOSE z \in S : z \notin s
               B == S \ {x}
    <3>1. x \in S /\ x \notin s /\ s \in SUBSET B /\ sum[s] = Sums(n, B)[s]
      BY <2>5
    <3>2. SumsOf(n, B, Sums(n, B))
      BY <2>4, <3>1
    <3>3. CASE s = {}
      BY <3>1, <3>2, <3>3, SumsOfApplied
    <3>4. CASE s # {}
      <4> DEFINE u == s \ {Taken(s)}
                 y == CHOOSE z \in S : z \notin u
                 C == S \ {y}
      <4>1. Taken(s) \in s /\ u \in SUBSET B /\ u \in SUBSET S /\ u # S
        BY <3>1, <3>4, TakenLemma
      <4>2. y \in S /\ y \notin u /\ u \in SUBSET C /\ sum[u] = Sums(n, C)[u]
        BY <4>1
      <4>3. SumsOf(n, C, Sums(n, C))
        BY <2>4, <4>2
      <4>4. B \in SUBSET Outputs /\ C \in SUBSET Outputs /\ u \in SUBSET (B \cap C)
        BY <2>3, <4>1, <4>2
      <4> HIDE DEF B, C, sum
      <4>5. Sums(n, B)[u] = Sums(n, C)[u]
        BY <3>2, <4>3, <4>4, SumsOfUnique
      <4>6. Sums(n, B)[s] = Plus(n[Taken(s)], Sums(n, B)[u])
        BY <3>1, <3>2, <3>4, SumsOfApplied
      <4> QED
        BY <3>1, <3>4, <4>2, <4>5, <4>6
    <3> QED
      BY <3>3, <3>4
  <2>6. sum[S] = IF S = {} THEN Zero ELSE Plus(n[Taken(S)], sum[S \ {Taken(S)}])
    <3>1. CASE S = {}
      BY <3>1
    <3>2. CASE S # {}
      <4>1. Taken(S) \in S
        BY <3>2, TakenLemma
      <4>2. S \ {Taken(S)} \in SUBSET S /\ S \ {Taken(S)} # S
        BY <4>1
      <4>3. sum[S \ {Taken(S)}] = below(S \ {Taken(S)})
        BY <4>2
      <4>4. sum[S] = top
        OBVIOUS
      <4> HIDE DEF sum, below
      <4> QED
        BY <3>2, <4>3, <4>4
    <3> QED
      BY <3>1, <3>2
  <2>7. DOMAIN sum = SUBSET S /\ sum = [s \in SUBSET S |-> sum[s]]
    OBVIOUS
  <2> HIDE DEF sum
  <2>8. SumsOf(n, S, sum)
    BY <2>5, <2>6, <2>7 DEF SumsOf
  <2> QED
    BY <2>3, <2>8
<1> QED
  BY <1>1 DEF Sums

\* The sums of some counters, set by set.
LEMMA SumsApplied ==
  ASSUME NEW n, NEW s \in SUBSET Outputs
  PROVE  /\ s = {} => Sums(n, Outputs)[s] = Zero
         /\ s # {} => /\ Taken(s) \in s
                      /\ Sums(n, Outputs)[s]
                           = Plus(n[Taken(s)], Sums(n, Outputs)[s \ {Taken(s)}])
<1>1. SumsOf(n, Outputs, Sums(n, Outputs))
  BY SumsExist
<1>2. Sums(n, Outputs)[s] = IF s = {} THEN Zero
                            ELSE Plus(n[Taken(s)], Sums(n, Outputs)[s \ {Taken(s)}])
  BY <1>1, SumsOfApplied
<1> QED
  BY <1>2, TakenLemma

\* A sum of counters is counters.
LEMMA TotalType ==
  ASSUME NEW n \in [Outputs -> Counters]
  PROVE  /\ Total(n) \in Counters
         /\ \A s \in SUBSET Outputs : Sums(n, Outputs)[s] \in Counters
<1> DEFINE sum == Sums(n, Outputs)
           F == {s \in SUBSET Outputs : sum[s] \notin Counters}
<1>1. F = {}
  <2> SUFFICES ASSUME F # {} PROVE FALSE
    OBVIOUS
  <2>1. F \in SUBSET SUBSET Outputs
    OBVIOUS
  <2>2. PICK s \in F : \A x \in s : s \ {x} \notin F
    <3> HIDE DEF F
    <3> QED
      BY <2>1, SmallestSubset
  <2>3. s \in SUBSET Outputs /\ sum[s] \notin Counters
    BY <2>2
  <2>4. /\ s = {} => sum[s] = Zero
        /\ s # {} => /\ Taken(s) \in s
                     /\ sum[s] = Plus(n[Taken(s)], sum[s \ {Taken(s)}])
    BY <2>3, SumsApplied
  <2> HIDE DEF sum
  <2>5. s # {}
    BY <2>3, <2>4, ZeroLemma
  <2>6. sum[s \ {Taken(s)}] \in Counters /\ n[Taken(s)] \in Counters
    BY <2>2, <2>3, <2>4, <2>5
  <2> QED
    BY <2>3, <2>4, <2>5, <2>6, CountersLemma
<1>2. Total(n) = sum[Outputs]
  BY TotalIsFold
<1> QED
  BY <1>1, <1>2

\* One output counts for more: so does the sum.
LEMMA TotalStep ==
  ASSUME NEW n \in [Outputs -> Counters], NEW m \in [Outputs -> Counters],
         NEW x \in Outputs, NEW v \in Counters,
         m[x] = Plus(n[x], v), \A o \in Outputs : o # x => m[o] = n[o]
  PROVE  Total(m) = Plus(Total(n), v)
<1> DEFINE f == Sums(n, Outputs)
           g == Sums(m, Outputs)
           F == {s \in SUBSET Outputs : g[s] # IF x \in s THEN Plus(f[s], v) ELSE f[s]}
<1>1. F = {}
  <2> SUFFICES ASSUME F # {} PROVE FALSE
    OBVIOUS
  <2>1. F \in SUBSET SUBSET Outputs
    OBVIOUS
  <2>2. PICK s \in F : \A y \in s : s \ {y} \notin F
    <3> HIDE DEF F
    <3> QED
      BY <2>1, SmallestSubset
  <2> DEFINE t == Taken(s)
             u == s \ {t}
  <2>3. s \in SUBSET Outputs /\ g[s] # IF x \in s THEN Plus(f[s], v) ELSE f[s]
    BY <2>2
  <2>4. /\ s = {} => f[s] = Zero
        /\ s # {} => t \in s /\ f[s] = Plus(n[t], f[u])
    BY <2>3, SumsApplied
  <2>5. /\ s = {} => g[s] = Zero
        /\ s # {} => g[s] = Plus(m[t], g[u])
    BY <2>3, SumsApplied
  <2>6. s # {}
    BY <2>3, <2>4, <2>5
  <2>7. f[u] \in Counters /\ g[u] \in Counters
    BY <2>3, TotalType
  <2>8. g[u] = IF x \in u THEN Plus(f[u], v) ELSE f[u]
    BY <2>2, <2>3, <2>4, <2>6
  <2>9. t \in Outputs /\ n[t] \in Counters /\ m[t] \in Counters
    BY <2>3, <2>4, <2>6
  <2> HIDE DEF F, f, g
  <2>10. CASE t = x
    <3>1. x \in s /\ x \notin u
      BY <2>4, <2>6, <2>10
    <3>2. g[s] = Plus(Plus(n[t], v), f[u]) /\ f[s] = Plus(n[t], f[u])
      BY <2>4, <2>5, <2>6, <2>8, <2>10, <3>1
    <3>3. Plus(Plus(n[t], v), f[u]) = Plus(Plus(n[t], f[u]), v)
      BY <2>7, <2>9 DEF Plus, Counters
    <3> QED
      BY <2>3, <3>1, <3>2, <3>3
  <2>11. CASE t # x
    <3>1. m[t] = n[t] /\ (x \in s <=> x \in u)
      BY <2>9, <2>11
    <3>2. Plus(n[t], Plus(f[u], v)) = Plus(Plus(n[t], f[u]), v)
      BY <2>7, <2>9 DEF Plus, Counters
    <3> QED
      BY <2>3, <2>4, <2>5, <2>6, <2>8, <3>1, <3>2
  <2> QED
    BY <2>10, <2>11
<1>2. Total(n) = f[Outputs] /\ Total(m) = g[Outputs]
  BY TotalIsFold
<1> QED
  BY <1>1, <1>2

\* A sum of nothing, and a sum of sums.
LEMMA TotalZero ==
  ASSUME NEW n \in [Outputs -> Counters], \A o \in Outputs : n[o] = Zero
  PROVE  Total(n) = Zero
<1> DEFINE f == Sums(n, Outputs)
           F == {s \in SUBSET Outputs : f[s] # Zero}
<1>1. F = {}
  <2> SUFFICES ASSUME F # {} PROVE FALSE
    OBVIOUS
  <2>1. F \in SUBSET SUBSET Outputs
    OBVIOUS
  <2>2. PICK s \in F : \A x \in s : s \ {x} \notin F
    <3> HIDE DEF F
    <3> QED
      BY <2>1, SmallestSubset
  <2>3. s \in SUBSET Outputs /\ f[s] # Zero
    BY <2>2
  <2>4. /\ s = {} => f[s] = Zero
        /\ s # {} => /\ Taken(s) \in s
                     /\ f[s] = Plus(n[Taken(s)], f[s \ {Taken(s)}])
    BY <2>3, SumsApplied
  <2>5. f[s \ {Taken(s)}] = Zero /\ n[Taken(s)] = Zero
    BY <2>2, <2>3, <2>4
  <2>6. Plus(Zero, Zero) = Zero
    BY DEF Plus, Zero
  <2> QED
    BY <2>3, <2>4, <2>5, <2>6
<1>2. Total(n) = f[Outputs]
  BY TotalIsFold
<1> QED
  BY <1>1, <1>2

LEMMA TotalPlus ==
  ASSUME NEW n \in [Outputs -> Counters], NEW m \in [Outputs -> Counters],
         NEW k \in [Outputs -> Counters], \A o \in Outputs : k[o] = Plus(n[o], m[o])
  PROVE  Total(k) = Plus(Total(n), Total(m))
<1> DEFINE f == Sums(n, Outputs)
           g == Sums(m, Outputs)
           h == Sums(k, Outputs)
           F == {s \in SUBSET Outputs : h[s] # Plus(f[s], g[s])}
<1>1. F = {}
  <2> SUFFICES ASSUME F # {} PROVE FALSE
    OBVIOUS
  <2>1. F \in SUBSET SUBSET Outputs
    OBVIOUS
  <2>2. PICK s \in F : \A x \in s : s \ {x} \notin F
    <3> HIDE DEF F
    <3> QED
      BY <2>1, SmallestSubset
  <2> DEFINE t == Taken(s)
             u == s \ {t}
  <2>3. s \in SUBSET Outputs /\ h[s] # Plus(f[s], g[s])
    BY <2>2
  <2>4. s = {} => f[s] = Zero /\ g[s] = Zero /\ h[s] = Zero
    BY <2>3, SumsApplied
  <2>5. s # {}
    <3>1. Plus(Zero, Zero) = Zero
      BY DEF Plus, Zero
    <3> QED
      BY <2>3, <2>4, <3>1
  <2>6. t \in s /\ f[s] = Plus(n[t], f[u])
    BY <2>3, <2>5, SumsApplied
  <2>7. g[s] = Plus(m[t], g[u])
    BY <2>3, <2>5, SumsApplied
  <2>8. h[s] = Plus(k[t], h[u])
    BY <2>3, <2>5, SumsApplied
  <2>9. h[u] = Plus(f[u], g[u])
    BY <2>2, <2>3, <2>6
  <2>10. f[u] \in Counters /\ g[u] \in Counters
    BY <2>3, TotalType
  <2>11. n[t] \in Counters /\ m[t] \in Counters /\ k[t] = Plus(n[t], m[t])
    BY <2>3, <2>6
  <2> HIDE DEF F, f, g, h, t, u
  <2>12. Plus(Plus(n[t], m[t]), Plus(f[u], g[u])) = Plus(Plus(n[t], f[u]), Plus(m[t], g[u]))
    BY <2>10, <2>11 DEF Plus, Counters
  <2> QED
    BY <2>3, <2>6, <2>7, <2>8, <2>9, <2>11, <2>12
<1>2. Total(n) = f[Outputs] /\ Total(m) = g[Outputs] /\ Total(k) = h[Outputs]
  BY TotalIsFold
<1> QED
  BY <1>1, <1>2

-----------------------------------------------------------------------------
(* What the queue and the tables hold, as long as no queue held two         *)
(* platforms under one profile id.                                          *)

\* The outputs that are in the queue.
Queued == batch \ (ranksLeft \cup commentsLeft)

\* The outputs that make an entry or a row for a profile and for a post: those
\* that name it, and the comments of an author.
MakingProfile(l, p) ==
  {o \in Outputs : Target[o].platform = l /\ Target[o].profile = p}
    \cup {c \in Comments : l = Lotusia /\ p = Author[c]}
MakingPost(l, p, k) ==
  {o \in Outputs : Target[o] = [platform |-> l, profile |-> p, post |-> k]}
    \cup {c \in Comments : l = Lotusia /\ p = Author[c] /\ k = c}

\* Those of them that vote, whatever the platform.
VotingForProfile(p) ==
  {r \in Ranks : Target[r].profile = p} \cup {c \in Comments : Author[c] = p}
VotingForPost(p, k) ==
  {r \in Ranks : Target[r].profile = p /\ Target[r].post = k}
    \cup {c \in Comments : Author[c] = p /\ c = k}

\* The sum of the votes of some outputs.
Votes(S) == Total([o \in Outputs |-> IF o \in S THEN VoteOf(o) ELSE Zero])

\* An entry is what the outputs D in the queue made of it: `made' are those of
\* each platform, `ranks' and `comments' those it lists, `voting' those it
\* counts.
EntryIs(e, made, ranks, comments, voting) ==
  /\ e.queued => made[e.platform] # {}
  /\ \A l \in Platforms : made[l] # {} => e.queued /\ e.platform = l
  /\ ~e.queued => e = NoEntry
  /\ e.ranks = ranks /\ e.comments = comments
  /\ e.n = Votes(voting)
ProfileEntryIs(e, p, D) ==
  EntryIs(e, [l \in Platforms |-> D \cap MakingProfile(l, p)],
          {r \in D \cap Ranks : Target[r].profile = p},
          {c \in D \cap Comments : Target[c].profile = p /\ Target[c].post = NoPost},
          D \cap VotingForProfile(p))
PostEntryIs(e, p, k, D) ==
  EntryIs(e, [l \in Platforms |-> D \cap MakingPost(l, p, k)],
          {r \in D \cap Ranks : Target[r].profile = p /\ Target[r].post = k},
          {c \in D \cap Comments : Target[c].profile = p /\ Target[c].post = k},
          D \cap VotingForPost(p, k))


-----------------------------------------------------------------------------
(* The votes of a queue, and what it adds to the counters. *)

LEMMA VotesLemma ==
  ASSUME NEW S
  PROVE  /\ [o \in Outputs |-> IF o \in S THEN VoteOf(o) ELSE Zero] \in [Outputs -> Counters]
         /\ Votes(S) \in Counters
<1>1. [o \in Outputs |-> IF o \in S THEN VoteOf(o) ELSE Zero] \in [Outputs -> Counters]
  BY VoteLemma, ZeroLemma
<1> QED
  BY <1>1, TotalType DEF Votes

LEMMA ZeroPlus ==
  ASSUME NEW b \in Counters
  PROVE  Plus(Zero, b) = b
<1> DEFINE c == [ranking |-> b.ranking, satsPositive |-> b.satsPositive,
                 satsNegative |-> b.satsNegative, votesPositive |-> b.votesPositive,
                 votesNegative |-> b.votesNegative]
<1>1. /\ b.ranking \in Int /\ b.satsPositive \in Int /\ b.satsNegative \in Int
      /\ b.votesPositive \in Int /\ b.votesNegative \in Int /\ b = c
  BY DEF Counters
<1>2. Plus(Zero, b) = c
  BY <1>1 DEF Plus, Zero
<1> QED
  BY <1>1, <1>2

\* One more output votes.
LEMMA VotesStep ==
  ASSUME NEW S, NEW x \in Outputs, x \notin S
  PROVE  Votes(S \cup {x}) = Plus(Votes(S), VoteOf(x))
<1> DEFINE n == [o \in Outputs |-> IF o \in S THEN VoteOf(o) ELSE Zero]
           m == [o \in Outputs |-> IF o \in S \cup {x} THEN VoteOf(o) ELSE Zero]
<1>1. n \in [Outputs -> Counters] /\ m \in [Outputs -> Counters] /\ VoteOf(x) \in Counters
  BY VotesLemma, VoteLemma
<1>2. n[x] = Zero /\ m[x] = VoteOf(x) /\ \A o \in Outputs : o # x => m[o] = n[o]
  OBVIOUS
<1>3. Votes(S) = Total(n) /\ Votes(S \cup {x}) = Total(m)
  BY DEF Votes
<1> HIDE DEF n, m
<1>4. \A b \in Counters : Plus(Zero, b) = b
  BY ZeroPlus
<1>5. m[x] = Plus(n[x], VoteOf(x))
  BY <1>1, <1>2, <1>4
<1>6. Total(m) = Plus(Total(n), VoteOf(x))
  BY <1>1, <1>2, <1>5, TotalStep
<1> QED
  BY ONLY <1>3, <1>6

\* No output votes.
LEMMA VotesNone ==
  ASSUME NEW S, S \cap Outputs = {}
  PROVE  Votes(S) = Zero
  BY VotesLemma, TotalZero DEF Votes

\* What is due if each output was applied as often as `times' says.
DueOf(times, S) ==
  Total([o \in Outputs |-> IF o \in S THEN Times(times[o], VoteOf(o)) ELSE Zero])

LEMMA TimesLemma ==
  ASSUME NEW i \in Int, NEW a \in Counters
  PROVE  /\ Times(i, a) \in Counters
         /\ Times(i + 1, a) = Plus(Times(i, a), a)
<1>1. \A x \in Int : i * x \in Int /\ (i + 1) * x = i * x + x
  OBVIOUS
<1>2. /\ a.ranking \in Int /\ a.satsPositive \in Int /\ a.satsNegative \in Int
      /\ a.votesPositive \in Int /\ a.votesNegative \in Int
  BY DEF Counters
<1>3. Times(i, a) \in Counters
  BY <1>1, <1>2 DEF Times, Counters
<1>4. Times(i + 1, a) = Plus(Times(i, a), a)
  BY <1>1, <1>2 DEF Times, Plus
<1> QED
  BY <1>3, <1>4

LEMMA DueType ==
  ASSUME NEW times \in [Outputs -> Int], NEW S
  PROVE  /\ [o \in Outputs |-> IF o \in S THEN Times(times[o], VoteOf(o)) ELSE Zero]
              \in [Outputs -> Counters]
         /\ DueOf(times, S) \in Counters
<1>1. [o \in Outputs |-> IF o \in S THEN Times(times[o], VoteOf(o)) ELSE Zero]
        \in [Outputs -> Counters]
  BY VoteLemma, ZeroLemma, TimesLemma
<1> QED
  BY <1>1, TotalType DEF DueOf

\* `after' says that the outputs of D are applied once more.
OnceMore(times, after, D) ==
  /\ times \in [Outputs -> Int] /\ after \in [Outputs -> Int]
  /\ \A o \in Outputs : after[o] = IF o \in D THEN times[o] + 1 ELSE times[o]

\* Then their votes are due in addition.
LEMMA DueStep ==
  ASSUME NEW times, NEW after, NEW S, NEW D, OnceMore(times, after, D)
  PROVE  DueOf(after, S) = Plus(DueOf(times, S), Votes(D \cap S))
<1> DEFINE n == [o \in Outputs |-> IF o \in S THEN Times(times[o], VoteOf(o)) ELSE Zero]
           k == [o \in Outputs |-> IF o \in S THEN Times(after[o], VoteOf(o)) ELSE Zero]
           m == [o \in Outputs |-> IF o \in D \cap S THEN VoteOf(o) ELSE Zero]
<1> USE DEF OnceMore
<1>1. n \in [Outputs -> Counters] /\ k \in [Outputs -> Counters]
  BY DueType
<1>2. m \in [Outputs -> Counters]
  BY VotesLemma
<1>3. ASSUME NEW o \in Outputs PROVE k[o] = Plus(n[o], m[o])
  <2>1. VoteOf(o) \in Counters /\ times[o] \in Int
    BY VoteLemma
  <2>2. CASE o \in S /\ o \in D
    <3>1. k[o] = Times(times[o] + 1, VoteOf(o)) /\ n[o] = Times(times[o], VoteOf(o))
          /\ m[o] = VoteOf(o)
      BY <2>2
    <3> QED
      BY <2>1, <3>1, TimesLemma
  <2>3. CASE ~(o \in S /\ o \in D)
    <3>1. k[o] = n[o] /\ m[o] = Zero /\ n[o] \in Counters
      BY <1>1, <2>3
    <3> HIDE DEF k, n, m
    <3>2. Plus(n[o], Zero) = n[o]
      BY <3>1 DEF Plus, Zero, Counters
    <3> QED
      BY <3>1, <3>2
  <2> QED
    BY <2>2, <2>3
<1>4. DueOf(times, S) = Total(n) /\ DueOf(after, S) = Total(k)
      /\ Votes(D \cap S) = Total(m)
  BY DEF DueOf, Votes
<1> HIDE DEF n, k, m
<1> QED
  BY <1>1, <1>2, <1>3, <1>4, TotalPlus

\* Taking counters back undoes adding them.
LEMMA MinusPlus ==
  ASSUME NEW a \in Counters, NEW b \in Counters
  PROVE  Minus(Plus(a, b), b) = a /\ Plus(a, Zero) = a
  BY DEF Minus, Plus, Counters, Zero

-----------------------------------------------------------------------------
(* The entries of the queue, one output at a time. *)

\* An entry that is there for its platform, or is made for it, keeps the rest.
LEMMA EntryFields ==
  ASSUME NEW e \in Entries, NEW l \in Platforms,
         ~e.queued => e = NoEntry, ~MixesPlatforms(e, l)
  PROVE  /\ Entry(e, l) \in Entries
         /\ Entry(e, l).queued /\ Entry(e, l).platform = l
         /\ Entry(e, l).ranks = e.ranks /\ Entry(e, l).comments = e.comments
         /\ Entry(e, l).n = e.n /\ Entry(e, l).hasData = e.hasData
<1>1. CASE e.queued
  BY <1>1 DEF Entry, MixesPlatforms
<1>2. CASE ~e.queued
  <2>1. Entry(e, l) = [NoEntry EXCEPT !.queued = TRUE, !.platform = l]
    BY <1>2 DEF Entry
  <2>2. Entry(e, l) = [queued |-> TRUE, platform |-> l, hasRanks |-> FALSE, ranks |-> {},
                       comments |-> {}, hasData |-> FALSE, n |-> Zero]
    BY <2>1 DEF NoEntry
  <2>3. e = NoEntry
    BY <1>2
  <2> QED
    BY <2>2, <2>3, ZeroLemma DEF Entries, NoEntry
<1> QED
  BY <1>1, <1>2

LEMMA WithRankFields ==
  ASSUME NEW e \in Entries, NEW l \in Platforms, NEW r \in Ranks,
         ~e.queued => e = NoEntry, ~MixesPlatforms(e, l)
  PROVE  LET f == WithRank(e, l, r) IN
         /\ f.queued /\ f.platform = l
         /\ f.ranks = e.ranks \cup {r} /\ f.comments = e.comments
         /\ f.n = Plus(e.n, VoteOf(r)) /\ f.hasData = e.hasData
<1> DEFINE g == Entry(e, l)
<1>1. /\ g \in Entries /\ g.queued /\ g.platform = l
      /\ g.ranks = e.ranks /\ g.comments = e.comments /\ g.n = e.n /\ g.hasData = e.hasData
  BY EntryFields
<1>2. WithRank(e, l, r) = [g EXCEPT !.hasRanks = TRUE, !.ranks = @ \cup {r},
                                    !.n = Plus(@, VoteOf(r))]
  BY DEF WithRank
<1> HIDE DEF g
<1> QED
  BY <1>1, <1>2 DEF Entries

LEMMA SelfVotedFields ==
  ASSUME NEW e \in Entries, NEW c \in Comments,
         ~e.queued => e = NoEntry, ~MixesPlatforms(e, Lotusia)
  PROVE  LET f == SelfVoted(e, c) IN
         /\ f.queued /\ f.platform = Lotusia
         /\ f.ranks = e.ranks /\ f.comments = e.comments
         /\ f.n = Plus(e.n, VoteOf(c)) /\ f.hasData = e.hasData
<1> DEFINE g == Entry(e, Lotusia)
<1>1. /\ g \in Entries /\ g.queued /\ g.platform = Lotusia
      /\ g.ranks = e.ranks /\ g.comments = e.comments /\ g.n = e.n /\ g.hasData = e.hasData
  BY EntryFields, LedgerAssumption
<1>2. SelfVoted(e, c) = [g EXCEPT !.n = Plus(@, VoteOf(c))]
  BY DEF SelfVoted
<1> HIDE DEF g
<1> QED
  BY <1>1, <1>2 DEF Entries

\* An output that makes an entry for the entry's platform changes what the entry
\* is on that platform alone.
LEMMA EntryMade ==
  ASSUME NEW e, NEW l \in Platforms, ~MixesPlatforms(e, l),
         NEW made, NEW R, NEW C, NEW V, EntryIs(e, made, R, C, V),
         NEW f, f.queued, f.platform = l,
         NEW madeNow, madeNow[l] # {},
         \A k \in Platforms : k # l => madeNow[k] = made[k],
         NEW RNow, f.ranks = RNow, NEW CNow, f.comments = CNow,
         NEW VNow, f.n = Votes(VNow)
  PROVE  EntryIs(f, madeNow, RNow, CNow, VNow)
  BY DEF EntryIs, MixesPlatforms

\* An entry mixes no platforms if one that more outputs make does not.
LEMMA NoMixBelow ==
  ASSUME NEW l \in Platforms, NEW e, ~MixesPlatforms(e, l), NEW f \in Entries,
         NEW made, NEW R, NEW C, NEW V, EntryIs(e, made, R, C, V),
         NEW madeF, NEW RF, NEW CF, NEW VF, EntryIs(f, madeF, RF, CF, VF),
         \A k \in Platforms : madeF[k] \subseteq made[k]
  PROVE  ~MixesPlatforms(f, l)
<1> SUFFICES ASSUME f.queued PROVE f.platform = l
  BY DEF MixesPlatforms
<1>1. f.platform \in Platforms /\ madeF[f.platform] # {}
  BY DEF EntryIs, Entries
<1>2. made[f.platform] # {}
  BY <1>1
<1> QED
  BY <1>1, <1>2 DEF EntryIs, MixesPlatforms

\* The columns of an output and of a comment.
LEMMA TargetLemma ==
  ASSUME NEW o \in Outputs
  PROVE  /\ Target[o].platform \in Platforms
         /\ Target[o].profile \in Profiles \cup {NoProfile}
         /\ Target[o].post \in Posts \cup {NoPost}
         /\ Target[o] = [platform |-> Target[o].platform, profile |-> Target[o].profile,
                         post |-> Target[o].post]
         /\ o \in Ranks => Target[o].profile \in Profiles
         /\ Target[o].post # NoPost => Target[o].profile \in Profiles
         /\ o \in Comments => o \notin Ranks /\ o \in Posts /\ Author[o] \in Profiles
<1>1. Target[o] \in Targets
  BY LedgerAssumption
<1> QED
  BY <1>1, LedgerAssumption DEF Targets

\* A RANK output in the queue, in the entry of its profile ...
LEMMA RankInProfile ==
  ASSUME NEW D \in SUBSET Outputs, NEW r \in Ranks, r \notin D,
         NEW e \in Entries, ProfileEntryIs(e, Target[r].profile, D),
         ~MixesPlatforms(e, Target[r].platform)
  PROVE  ProfileEntryIs(WithRank(e, Target[r].platform, r), Target[r].profile, D \cup {r})
<1> DEFINE p == Target[r].profile
           l == Target[r].platform
           f == WithRank(e, l, r)
           made == [k \in Platforms |-> D \cap MakingProfile(k, p)]
           madeNow == [k \in Platforms |-> (D \cup {r}) \cap MakingProfile(k, p)]
           V == D \cap VotingForProfile(p)
           VNow == (D \cup {r}) \cap VotingForProfile(p)
           R == {x \in D \cap Ranks : Target[x].profile = p}
           RNow == {x \in (D \cup {r}) \cap Ranks : Target[x].profile = p}
           C == {x \in D \cap Comments : Target[x].profile = p /\ Target[x].post = NoPost}
           CNow == {x \in (D \cup {r}) \cap Comments :
                      Target[x].profile = p /\ Target[x].post = NoPost}
<1>1. r \in Outputs /\ r \notin Comments /\ l \in Platforms /\ p \in Profiles
  BY TargetLemma, LedgerAssumption DEF Outputs
<1>2. EntryIs(e, made, R, C, V)
  BY DEF ProfileEntryIs
<1>3. /\ f.queued /\ f.platform = l
      /\ f.ranks = e.ranks \cup {r} /\ f.comments = e.comments
      /\ f.n = Plus(e.n, VoteOf(r))
  BY <1>1, <1>2, WithRankFields DEF EntryIs
<1>4. madeNow[l] # {} /\ \A k \in Platforms : k # l => madeNow[k] = made[k]
  BY <1>1 DEF MakingProfile
<1>5. RNow = R \cup {r} /\ CNow = C
  BY <1>1
<1>6. VNow = V \cup {r} /\ r \notin V
  BY <1>1 DEF VotingForProfile
<1>7. f.n = Votes(VNow)
  <2>1. e.n = Votes(V)
    BY <1>2 DEF EntryIs
  <2> HIDE DEF V, VNow
  <2>2. Votes(VNow) = Plus(Votes(V), VoteOf(r))
    BY <1>1, <1>6, VotesStep
  <2> QED
    BY <1>3, <2>1, <2>2
<1>8. f.ranks = RNow /\ f.comments = CNow
  BY <1>2, <1>3, <1>5 DEF EntryIs
<1> HIDE DEF p, l, f, made, madeNow, V, VNow, R, RNow, C, CNow
<1>9. EntryIs(f, madeNow, RNow, CNow, VNow)
  BY <1>1, <1>2, <1>3, <1>4, <1>7, <1>8, EntryMade DEF l
<1> QED
  BY <1>9 DEF ProfileEntryIs, p, l, f, madeNow, VNow, RNow, CNow

\* ... and of its post; the other entries are none of its business.
LEMMA RankInPost ==
  ASSUME NEW D \in SUBSET Outputs, NEW r \in Ranks, r \notin D, Target[r].post # NoPost,
         NEW e \in Entries, PostEntryIs(e, Target[r].profile, Target[r].post, D),
         ~MixesPlatforms(e, Target[r].platform)
  PROVE  PostEntryIs(WithRank(e, Target[r].platform, r), Target[r].profile, Target[r].post,
                     D \cup {r})
<1> DEFINE p == Target[r].profile
           q == Target[r].post
           l == Target[r].platform
           f == WithRank(e, l, r)
           made == [k \in Platforms |-> D \cap MakingPost(k, p, q)]
           madeNow == [k \in Platforms |-> (D \cup {r}) \cap MakingPost(k, p, q)]
           V == D \cap VotingForPost(p, q)
           VNow == (D \cup {r}) \cap VotingForPost(p, q)
           R == {x \in D \cap Ranks : Target[x].profile = p /\ Target[x].post = q}
           RNow == {x \in (D \cup {r}) \cap Ranks : Target[x].profile = p /\ Target[x].post = q}
           C == {x \in D \cap Comments : Target[x].profile = p /\ Target[x].post = q}
           CNow == {x \in (D \cup {r}) \cap Comments :
                      Target[x].profile = p /\ Target[x].post = q}
<1>1. r \in Outputs /\ r \notin Comments /\ l \in Platforms /\ p \in Profiles
      /\ Target[r] = [platform |-> l, profile |-> p, post |-> q]
  BY TargetLemma, LedgerAssumption DEF Outputs
<1>2. EntryIs(e, made, R, C, V)
  BY DEF PostEntryIs
<1>3. /\ f.queued /\ f.platform = l
      /\ f.ranks = e.ranks \cup {r} /\ f.comments = e.comments
      /\ f.n = Plus(e.n, VoteOf(r))
  BY <1>1, <1>2, WithRankFields DEF EntryIs
<1>4. madeNow[l] # {} /\ \A k \in Platforms : k # l => madeNow[k] = made[k]
  BY <1>1 DEF MakingPost
<1>5. RNow = R \cup {r} /\ CNow = C
  BY <1>1
<1>6. VNow = V \cup {r} /\ r \notin V
  BY <1>1 DEF VotingForPost
<1>7. f.n = Votes(VNow)
  <2>1. e.n = Votes(V)
    BY <1>2 DEF EntryIs
  <2> HIDE DEF V, VNow
  <2>2. Votes(VNow) = Plus(Votes(V), VoteOf(r))
    BY <1>1, <1>6, VotesStep
  <2> QED
    BY <1>3, <2>1, <2>2
<1>8. f.ranks = RNow /\ f.comments = CNow
  BY <1>2, <1>3, <1>5 DEF EntryIs
<1> HIDE DEF p, q, l, f, made, madeNow, V, VNow, R, RNow, C, CNow
<1>9. EntryIs(f, madeNow, RNow, CNow, VNow)
  BY <1>1, <1>2, <1>3, <1>4, <1>7, <1>8, EntryMade DEF l
<1> QED
  BY <1>9 DEF PostEntryIs, p, q, l, f, madeNow, VNow, RNow, CNow

LEMMA RankElsewhere ==
  ASSUME NEW D \in SUBSET Outputs, NEW r \in Ranks, NEW e, NEW p \in Profiles
  PROVE  /\ p # Target[r].profile /\ ProfileEntryIs(e, p, D) => ProfileEntryIs(e, p, D \cup {r})
         /\ \A k \in Posts :
              (p # Target[r].profile \/ k # Target[r].post) /\ PostEntryIs(e, p, k, D)
                => PostEntryIs(e, p, k, D \cup {r})
<1>1. r \notin Comments
  BY LedgerAssumption
<1>2. ASSUME p # Target[r].profile, ProfileEntryIs(e, p, D)
      PROVE  ProfileEntryIs(e, p, D \cup {r})
  <2>1. [l \in Platforms |-> D \cap MakingProfile(l, p)]
          = [l \in Platforms |-> (D \cup {r}) \cap MakingProfile(l, p)]
    <3>1. \A l \in Platforms : D \cap MakingProfile(l, p) = (D \cup {r}) \cap MakingProfile(l, p)
      BY <1>1, <1>2 DEF MakingProfile
    <3> QED
      BY <3>1
  <2>2. D \cap VotingForProfile(p) = (D \cup {r}) \cap VotingForProfile(p)
    BY <1>1, <1>2 DEF VotingForProfile
  <2>3. {x \in D \cap Ranks : Target[x].profile = p}
          = {x \in (D \cup {r}) \cap Ranks : Target[x].profile = p}
    BY <1>2
  <2>4. {c \in D \cap Comments : Target[c].profile = p /\ Target[c].post = NoPost}
          = {c \in (D \cup {r}) \cap Comments : Target[c].profile = p /\ Target[c].post = NoPost}
    BY <1>1
  <2> QED
    BY <1>2, <2>1, <2>2, <2>3, <2>4 DEF ProfileEntryIs
<1>3. ASSUME NEW k \in Posts, p # Target[r].profile \/ k # Target[r].post,
             PostEntryIs(e, p, k, D)
      PROVE  PostEntryIs(e, p, k, D \cup {r})
  <2>1. [l \in Platforms |-> D \cap MakingPost(l, p, k)]
          = [l \in Platforms |-> (D \cup {r}) \cap MakingPost(l, p, k)]
    <3>1. \A l \in Platforms : D \cap MakingPost(l, p, k) = (D \cup {r}) \cap MakingPost(l, p, k)
      BY <1>1, <1>3 DEF MakingPost
    <3> QED
      BY <3>1
  <2>2. D \cap VotingForPost(p, k) = (D \cup {r}) \cap VotingForPost(p, k)
    BY <1>1, <1>3 DEF VotingForPost
  <2>3. {x \in D \cap Ranks : Target[x].profile = p /\ Target[x].post = k}
          = {x \in (D \cup {r}) \cap Ranks : Target[x].profile = p /\ Target[x].post = k}
    BY <1>3
  <2>4. {c \in D \cap Comments : Target[c].profile = p /\ Target[c].post = k}
          = {c \in (D \cup {r}) \cap Comments : Target[c].profile = p /\ Target[c].post = k}
    BY <1>1
  <2> QED
    BY <1>3, <2>1, <2>2, <2>3, <2>4 DEF PostEntryIs
<1> QED
  BY <1>2, <1>3

\* A comment in the queue, halfway: its author's entries have its vote, but the
\* profile it replies to does not know of it.
HalfProfileIs(e, p, D, c) ==
  EntryIs(e, [l \in Platforms |-> (D \cap MakingProfile(l, p)) \cup
                                    {x \in {c} : l = Lotusia /\ p = Author[c]}],
          {r \in D \cap Ranks : Target[r].profile = p},
          {x \in D \cap Comments : Target[x].profile = p /\ Target[x].post = NoPost},
          (D \cup {c}) \cap VotingForProfile(p))
HalfPostIs(e, p, k, D, c) ==
  EntryIs(e, [l \in Platforms |-> (D \cap MakingPost(l, p, k)) \cup
                                    {x \in {c} : l = Lotusia /\ p = Author[c] /\ k = c}],
          {r \in D \cap Ranks : Target[r].profile = p /\ Target[r].post = k},
          {x \in D \cap Comments : Target[x].profile = p /\ Target[x].post = k},
          (D \cup {c}) \cap VotingForPost(p, k))

LEMMA CommentHalfway ==
  ASSUME NEW D \in SUBSET Outputs, NEW c \in Comments, c \notin D,
         NEW p \in Profiles, NEW e \in Entries, ProfileEntryIs(e, p, D)
  PROVE  /\ p # Author[c] => HalfProfileIs(e, p, D, c)
         /\ p = Author[c] /\ ~MixesPlatforms(e, Lotusia) =>
              \A f : /\ f.queued /\ f.platform = Lotusia
                     /\ f.ranks = e.ranks /\ f.comments = e.comments
                     /\ f.n = Plus(e.n, VoteOf(c))
                     => HalfProfileIs(f, p, D, c)
<1> DEFINE made == [l \in Platforms |-> D \cap MakingProfile(l, p)]
           madeNow == [l \in Platforms |-> (D \cap MakingProfile(l, p)) \cup
                                             {x \in {c} : l = Lotusia /\ p = Author[c]}]
           V == D \cap VotingForProfile(p)
           VNow == (D \cup {c}) \cap VotingForProfile(p)
           R == {x \in D \cap Ranks : Target[x].profile = p}
           C == {x \in D \cap Comments : Target[x].profile = p /\ Target[x].post = NoPost}
<1>1. c \in Outputs /\ c \notin Ranks /\ Lotusia \in Platforms
  BY LedgerAssumption DEF Outputs
<1>2. EntryIs(e, made, R, C, V)
  BY DEF ProfileEntryIs
<1>3. ASSUME p # Author[c] PROVE HalfProfileIs(e, p, D, c)
  <2>1. made = madeNow
    BY <1>3
  <2>2. V = VNow
    BY <1>1, <1>3 DEF VotingForProfile
  <2> HIDE DEF made, madeNow, V, VNow, R, C
  <2>3. EntryIs(e, madeNow, R, C, VNow)
    BY <1>2, <2>1, <2>2
  <2> QED
    BY <2>3 DEF HalfProfileIs, madeNow, VNow, R, C
<1>4. ASSUME p = Author[c], ~MixesPlatforms(e, Lotusia),
             NEW f, f.queued, f.platform = Lotusia,
             f.ranks = e.ranks, f.comments = e.comments, f.n = Plus(e.n, VoteOf(c))
      PROVE  HalfProfileIs(f, p, D, c)
  <2>1. /\ madeNow[Lotusia] # {}
        /\ \A k \in Platforms : k # Lotusia => madeNow[k] = made[k]
    BY <1>1, <1>4
  <2>2. VNow = V \cup {c} /\ c \notin V
    BY <1>4 DEF VotingForProfile
  <2>3. e.n = Votes(V) /\ f.ranks = R /\ f.comments = C
    BY <1>2, <1>4 DEF EntryIs
  <2> HIDE DEF made, madeNow, V, VNow, R, C
  <2>4. f.n = Votes(VNow)
    BY <1>1, <1>4, <2>2, <2>3, VotesStep
  <2>5. EntryIs(f, madeNow, R, C, VNow)
    BY <1>1, <1>2, <1>4, <2>1, <2>3, <2>4, EntryMade
  <2> QED
    BY <2>5 DEF HalfProfileIs, madeNow, VNow, R, C
<1> QED
  BY <1>3, <1>4

LEMMA CommentHalfwayPost ==
  ASSUME NEW D \in SUBSET Outputs, NEW c \in Comments, c \notin D,
         NEW p \in Profiles, NEW k \in Posts, NEW e \in Entries, PostEntryIs(e, p, k, D)
  PROVE  /\ p # Author[c] \/ k # c => HalfPostIs(e, p, k, D, c)
         /\ p = Author[c] /\ k = c /\ ~MixesPlatforms(e, Lotusia) =>
              \A f : /\ f.queued /\ f.platform = Lotusia
                     /\ f.ranks = e.ranks /\ f.comments = e.comments
                     /\ f.n = Plus(e.n, VoteOf(c))
                     => HalfPostIs(f, p, k, D, c)
<1> DEFINE made == [l \in Platforms |-> D \cap MakingPost(l, p, k)]
           madeNow == [l \in Platforms |-> (D \cap MakingPost(l, p, k)) \cup
                                    {x \in {c} : l = Lotusia /\ p = Author[c] /\ k = c}]
           V == D \cap VotingForPost(p, k)
           VNow == (D \cup {c}) \cap VotingForPost(p, k)
           R == {x \in D \cap Ranks : Target[x].profile = p /\ Target[x].post = k}
           C == {x \in D \cap Comments : Target[x].profile = p /\ Target[x].post = k}
<1>1. c \in Outputs /\ c \notin Ranks /\ Lotusia \in Platforms
  BY LedgerAssumption DEF Outputs
<1>2. EntryIs(e, made, R, C, V)
  BY DEF PostEntryIs
<1>3. ASSUME p # Author[c] \/ k # c PROVE HalfPostIs(e, p, k, D, c)
  <2>1. made = madeNow
    BY <1>3
  <2>2. V = VNow
    BY <1>1, <1>3 DEF VotingForPost
  <2> HIDE DEF made, madeNow, V, VNow, R, C
  <2>3. EntryIs(e, madeNow, R, C, VNow)
    BY <1>2, <2>1, <2>2
  <2> QED
    BY <2>3 DEF HalfPostIs, madeNow, VNow, R, C
<1>4. ASSUME p = Author[c], k = c, ~MixesPlatforms(e, Lotusia),
             NEW f, f.queued, f.platform = Lotusia,
             f.ranks = e.ranks, f.comments = e.comments, f.n = Plus(e.n, VoteOf(c))
      PROVE  HalfPostIs(f, p, k, D, c)
  <2>1. /\ madeNow[Lotusia] # {}
        /\ \A x \in Platforms : x # Lotusia => madeNow[x] = made[x]
    BY <1>1, <1>4
  <2>2. VNow = V \cup {c} /\ c \notin V
    BY <1>4 DEF VotingForPost
  <2>3. e.n = Votes(V) /\ f.ranks = R /\ f.comments = C
    BY <1>2, <1>4 DEF EntryIs
  <2> HIDE DEF made, madeNow, V, VNow, R, C
  <2>4. f.n = Votes(VNow)
    BY <1>1, <1>4, <2>2, <2>3, VotesStep
  <2>5. EntryIs(f, madeNow, R, C, VNow)
    BY <1>1, <1>2, <1>4, <2>1, <2>3, <2>4, EntryMade
  <2> QED
    BY <2>5 DEF HalfPostIs, madeNow, VNow, R, C
<1> QED
  BY <1>3, <1>4

\* A comment in the queue, wholly: the profile and the post it replies to have it.
LEMMA CommentWhole ==
  ASSUME NEW D \in SUBSET Outputs, NEW c \in Comments, c \notin D,
         NEW p \in Profiles, NEW e \in Entries, HalfProfileIs(e, p, D, c)
  PROVE  /\ p # Target[c].profile => ProfileEntryIs(e, p, D \cup {c})
         /\ p = Target[c].profile /\ ~MixesPlatforms(e, Target[c].platform) =>
              \A f : /\ f.queued /\ f.platform = Target[c].platform
                     /\ f.ranks = e.ranks /\ f.n = e.n
                     /\ f.comments = IF Target[c].post = NoPost THEN e.comments \cup {c}
                                     ELSE e.comments
                     => ProfileEntryIs(f, p, D \cup {c})
<1> DEFINE half == [l \in Platforms |-> (D \cap MakingProfile(l, p)) \cup
                                          {x \in {c} : l = Lotusia /\ p = Author[c]}]
           made == [l \in Platforms |-> (D \cup {c}) \cap MakingProfile(l, p)]
           V == (D \cup {c}) \cap VotingForProfile(p)
           R == {x \in D \cap Ranks : Target[x].profile = p}
           RNow == {x \in (D \cup {c}) \cap Ranks : Target[x].profile = p}
           C == {x \in D \cap Comments : Target[x].profile = p /\ Target[x].post = NoPost}
           CNow == {x \in (D \cup {c}) \cap Comments :
                      Target[x].profile = p /\ Target[x].post = NoPost}
<1>1. c \in Outputs /\ c \notin Ranks /\ Target[c].platform \in Platforms
  BY LedgerAssumption, TargetLemma DEF Outputs
<1>2. EntryIs(e, half, R, C, V)
  BY DEF HalfProfileIs
<1>3. R = RNow
  BY <1>1
<1>4. ASSUME p # Target[c].profile PROVE ProfileEntryIs(e, p, D \cup {c})
  <2>1. made = half
    <3>1. \A l \in Platforms : (D \cup {c}) \cap MakingProfile(l, p)
            = (D \cap MakingProfile(l, p)) \cup {x \in {c} : l = Lotusia /\ p = Author[c]}
      BY <1>1, <1>4 DEF MakingProfile
    <3> QED
      BY <3>1
  <2>2. C = CNow
    BY <1>4
  <2> HIDE DEF half, made, V, R, RNow, C, CNow
  <2>3. EntryIs(e, made, RNow, CNow, V)
    BY <1>2, <1>3, <2>1, <2>2
  <2> QED
    BY <2>3 DEF ProfileEntryIs, made, V, RNow, CNow
<1>5. ASSUME p = Target[c].profile, ~MixesPlatforms(e, Target[c].platform),
             NEW f, f.queued, f.platform = Target[c].platform,
             f.ranks = e.ranks, f.n = e.n,
             f.comments = IF Target[c].post = NoPost THEN e.comments \cup {c} ELSE e.comments
      PROVE  ProfileEntryIs(f, p, D \cup {c})
  <2>1. made[Target[c].platform] # {}
    BY <1>1, <1>5 DEF MakingProfile
  <2>2. ASSUME NEW k \in Platforms, k # Target[c].platform PROVE made[k] = half[k]
    BY <1>1, <2>2 DEF MakingProfile
  <2>3. CNow = IF Target[c].post = NoPost THEN C \cup {c} ELSE C
    BY <1>5
  <2> HIDE DEF half, made, V, R, RNow, C, CNow
  <2>4. e.n = Votes(V) /\ e.ranks = R /\ e.comments = C
    BY <1>2 DEF EntryIs
  <2>5. f.n = Votes(V) /\ f.ranks = RNow /\ f.comments = CNow
    BY <1>3, <1>5, <2>3, <2>4
  <2>6. EntryIs(f, made, RNow, CNow, V)
    BY <1>1, <1>2, <1>5, <2>1, <2>2, <2>5, EntryMade
  <2> QED
    BY <2>6 DEF ProfileEntryIs, made, V, RNow, CNow
<1> QED
  BY <1>4, <1>5

LEMMA CommentWholePost ==
  ASSUME NEW D \in SUBSET Outputs, NEW c \in Comments, c \notin D,
         NEW p \in Profiles, NEW k \in Posts, NEW e \in Entries, HalfPostIs(e, p, k, D, c)
  PROVE  /\ p # Target[c].profile \/ k # Target[c].post => PostEntryIs(e, p, k, D \cup {c})
         /\ p = Target[c].profile /\ k = Target[c].post
            /\ ~MixesPlatforms(e, Target[c].platform) =>
              \A f : /\ f.queued /\ f.platform = Target[c].platform
                     /\ f.ranks = e.ranks /\ f.n = e.n
                     /\ f.comments = e.comments \cup {c}
                     => PostEntryIs(f, p, k, D \cup {c})
<1> DEFINE half == [l \in Platforms |-> (D \cap MakingPost(l, p, k)) \cup
                                    {x \in {c} : l = Lotusia /\ p = Author[c] /\ k = c}]
           made == [l \in Platforms |-> (D \cup {c}) \cap MakingPost(l, p, k)]
           V == (D \cup {c}) \cap VotingForPost(p, k)
           R == {x \in D \cap Ranks : Target[x].profile = p /\ Target[x].post = k}
           RNow == {x \in (D \cup {c}) \cap Ranks : Target[x].profile = p /\ Target[x].post = k}
           C == {x \in D \cap Comments : Target[x].profile = p /\ Target[x].post = k}
           CNow == {x \in (D \cup {c}) \cap Comments :
                      Target[x].profile = p /\ Target[x].post = k}
<1>1. c \in Outputs /\ c \notin Ranks /\ Target[c].platform \in Platforms
      /\ Target[c] = [platform |-> Target[c].platform, profile |-> Target[c].profile,
                      post |-> Target[c].post]
  BY LedgerAssumption, TargetLemma DEF Outputs
<1>2. EntryIs(e, half, R, C, V)
  BY DEF HalfPostIs
<1>3. R = RNow
  BY <1>1
<1>4. ASSUME p # Target[c].profile \/ k # Target[c].post
      PROVE  PostEntryIs(e, p, k, D \cup {c})
  <2>1. made = half
    <3>1. \A l \in Platforms : (D \cup {c}) \cap MakingPost(l, p, k)
            = (D \cap MakingPost(l, p, k)) \cup
                {x \in {c} : l = Lotusia /\ p = Author[c] /\ k = c}
      BY <1>1, <1>4 DEF MakingPost
    <3> QED
      BY <3>1
  <2>2. C = CNow
    BY <1>4
  <2> HIDE DEF half, made, V, R, RNow, C, CNow
  <2>3. EntryIs(e, made, RNow, CNow, V)
    BY <1>2, <1>3, <2>1, <2>2
  <2> QED
    BY <2>3 DEF PostEntryIs, made, V, RNow, CNow
<1>5. ASSUME p = Target[c].profile, k = Target[c].post,
             ~MixesPlatforms(e, Target[c].platform),
             NEW f, f.queued, f.platform = Target[c].platform,
             f.ranks = e.ranks, f.n = e.n, f.comments = e.comments \cup {c}
      PROVE  PostEntryIs(f, p, k, D \cup {c})
  <2>1. made[Target[c].platform] # {}
    BY <1>1, <1>5 DEF MakingPost
  <2>2. ASSUME NEW l \in Platforms, l # Target[c].platform PROVE made[l] = half[l]
    <3>1. Target[c] # [platform |-> l, profile |-> p, post |-> k]
      BY <1>1, <2>2
    <3> QED
      BY <1>1, <3>1 DEF MakingPost
  <2>3. CNow = C \cup {c}
    BY <1>5
  <2> HIDE DEF half, made, V, R, RNow, C, CNow
  <2>4. e.n = Votes(V) /\ e.ranks = R /\ e.comments = C
    BY <1>2 DEF EntryIs
  <2>5. f.n = Votes(V) /\ f.ranks = RNow /\ f.comments = CNow
    BY <1>3, <1>5, <2>3, <2>4
  <2>6. EntryIs(f, made, RNow, CNow, V)
    BY <1>1, <1>2, <1>5, <2>1, <2>2, <2>5, EntryMade
  <2> QED
    BY <2>6 DEF PostEntryIs, made, V, RNow, CNow
<1> QED
  BY <1>4, <1>5

-----------------------------------------------------------------------------
(* The invariant of the queue and the tables. *)

EntriesAgree ==
  \A p \in Profiles :
    /\ ProfileEntryIs(queue[p], p, Queued)
    /\ \A k \in Posts : PostEntryIs(queuePosts[p][k], p, k, Queued)
CommentsHaveData ==
  \A c \in Queued \cap Comments : queuePosts[Author[c]][c].hasData

\* The outputs of a transaction are in the mempool, in a batch and in a block
\* together.
TransactionsWhole ==
  \A o, x \in Outputs : TxOf[o] = TxOf[x] =>
    /\ o \in mempool <=> x \in mempool
    /\ o \in batch <=> x \in batch
    /\ o \in connects <=> x \in connects
    /\ records[o].exists = records[x].exists
    /\ records[o].height = records[x].height

\* The batch of each handler: an upsert adds outputs that have no record and
\* connects others, a rewind takes back outputs that count and that have left
\* the mempool.
BatchAgrees ==
  /\ op \notin {"pushFailed", "statementFailed"}
  /\ ranksLeft \subseteq batch /\ commentsLeft \subseteq batch
  /\ op \in {"idle", "cleanup"} => batch = {} /\ connects = {}
  /\ op = "upsert" => /\ \A o \in batch : ~records[o].exists
                      /\ \A o \in connects : records[o].exists /\ o \notin mempool
  /\ op = "rewind" => /\ connects = {}
                      /\ \A o \in batch : applied[o] >= 1 /\ o \notin mempool

\* The outputs in the mempool: they are about to be added, or count without a
\* block.
MempoolAgrees ==
  /\ op = "cleanup" => mempool = {}
  /\ \A o \in mempool :
       /\ IF o \in batch THEN op = "upsert" /\ height = Unconfirmed ELSE applied[o] >= 1
       /\ records[o].height = Unconfirmed

\* An output that can have a record has one exactly when it counts.
RecordsAgree ==
  \A o \in Outputs :
    /\ records[o].at = Target[o]
    /\ ~records[o].exists => records[o].height = Unconfirmed
    /\ Recorded(o) => applied[o] = IF records[o].exists THEN 1 ELSE 0
    /\ ~Recorded(o) => ~records[o].exists /\ applied[o] >= 0

\* An output that counts has its rows, and the counters of a row are the sum
\* over the outputs, at all times.
RowsAgree ==
  \A l \in Platforms : \A p \in Profiles :
    /\ \A o \in MakingProfile(l, p) : applied[o] >= 1 => profiles[l][p].exists
    /\ profiles[l][p].n = DueOf(applied, CountingForProfile(l, p))
    /\ \A k \in Posts :
         /\ \A o \in MakingPost(l, p, k) : applied[o] >= 1 => posts[l][p][k].exists
         /\ posts[l][p][k].n = DueOf(applied, CountingForPost(l, p, k))

Agreement ==
  /\ EntriesAgree
  /\ CommentsHaveData
  /\ TransactionsWhole
  /\ BatchAgrees
  /\ MempoolAgrees
  /\ RecordsAgree
  /\ RowsAgree
AInv == ~mixed => Agreement

LEMMA TypesLemma ==
  ASSUME IInv
  PROVE  /\ batch \in SUBSET Outputs /\ connects \in SUBSET Outputs
         /\ mempool \in SUBSET Outputs /\ ranksLeft \in SUBSET Ranks
         /\ commentsLeft \in SUBSET Comments
         /\ records \in [Outputs -> Records] /\ applied \in [Outputs -> Int]
         /\ \A o \in Outputs : records[o].height \in 0..MaxHeight
         /\ height \in 0..MaxHeight /\ tip \in 0..MaxHeight
  BY DEF IInv, TypeOK, Records

\* A queue that is empty holds no output.
LEMMA EmptyEntries ==
  /\ \A p \in Profiles : ProfileEntryIs(EmptyQueue[p], p, {})
  /\ \A p \in Profiles : \A k \in Posts : PostEntryIs(NoQueuePosts[p][k], p, k, {})
<1>1. Votes({}) = Zero
  BY VotesNone
<1>2. /\ NoEntry.queued = FALSE /\ NoEntry.ranks = {} /\ NoEntry.comments = {}
      /\ NoEntry.n = Zero
  BY DEF NoEntry
<1>3. ASSUME NEW made, NEW R, NEW C, NEW V, \A l \in Platforms : made[l] = {},
             R = {}, C = {}, V = {}
      PROVE  EntryIs(NoEntry, made, R, C, V)
  BY <1>1, <1>2, <1>3 DEF EntryIs
<1>4. ASSUME NEW p \in Profiles PROVE ProfileEntryIs(NoEntry, p, {})
  BY <1>3 DEF ProfileEntryIs
<1>5. ASSUME NEW p \in Profiles, NEW k \in Posts PROVE PostEntryIs(NoEntry, p, k, {})
  BY <1>3 DEF PostEntryIs
<1> QED
  BY <1>4, <1>5 DEF EmptyQueue, NoQueuePosts

\* Nothing is due if nothing was applied.
LEMMA NothingDue ==
  ASSUME NEW S
  PROVE  DueOf([o \in Outputs |-> 0], S) = Zero
<1> DEFINE times == [o \in Outputs |-> 0]
           n == [o \in Outputs |-> IF o \in S THEN Times(times[o], VoteOf(o)) ELSE Zero]
<1>1. n \in [Outputs -> Counters]
  <2>1. times \in [Outputs -> Int]
    OBVIOUS
  <2> HIDE DEF times
  <2> QED
    BY <2>1, DueType
<1>2. ASSUME NEW o \in Outputs PROVE n[o] = Zero
  <2>1. VoteOf(o) \in Counters /\ times[o] = 0
    BY VoteLemma
  <2>2. Times(0, VoteOf(o)) = Zero
    BY <2>1 DEF Times, Zero, Counters
  <2> QED
    BY <2>1, <2>2
<1>3. DueOf(times, S) = Total(n)
  BY DEF DueOf
<1> HIDE DEF n
<1> QED
  BY <1>1, <1>2, <1>3, TotalZero

LEMMA InitAgreement == Init => Agreement
<1> SUFFICES ASSUME Init PROVE Agreement
  OBVIOUS
<1> USE DEF Init
<1>1. EntriesAgree /\ CommentsHaveData
  <2>1. Queued = {}
    BY DEF Queued
  <2> QED
    BY <2>1, EmptyEntries DEF EntriesAgree, CommentsHaveData
<1>2. \A o \in Outputs : /\ records[o].exists = FALSE /\ records[o].height = Unconfirmed
                         /\ records[o].at = Target[o] /\ applied[o] = 0
  BY DEF NoRecord
<1>3. RecordsAgree
  <2> HIDE DEF Init
  <2> QED
    BY <1>2 DEF RecordsAgree
<1>4. TransactionsWhole
  <2>1. mempool = {} /\ batch = {} /\ connects = {}
    OBVIOUS
  <2> HIDE DEF Init
  <2> QED
    BY <1>2, <2>1 DEF TransactionsWhole
<1>5. BatchAgrees /\ MempoolAgrees
  BY DEF BatchAgrees, MempoolAgrees
<1>6. RowsAgree
  <2>1. ASSUME NEW l \in Platforms, NEW p \in Profiles
        PROVE  /\ profiles[l][p].n = Zero
               /\ \A k \in Posts : posts[l][p][k].n = Zero
    OBVIOUS
  <2>2. \A S : DueOf(applied, S) = Zero
    BY NothingDue
  <2>3. ASSUME NEW o \in Outputs PROVE ~(applied[o] >= 1)
    BY <1>2
  <2> HIDE DEF Init
  <2>4. ASSUME NEW l, NEW p
        PROVE  /\ MakingProfile(l, p) \subseteq Outputs
               /\ \A k : MakingPost(l, p, k) \subseteq Outputs
    BY DEF MakingProfile, MakingPost, Outputs
  <2> QED
    BY <2>1, <2>2, <2>3, <2>4 DEF RowsAgree
<1> QED
  BY <1>1, <1>3, <1>4, <1>5, <1>6 DEF Agreement

\* A handler chooses its batch and leaves the queue empty and the tables alone.
LEMMA StartsAgreement ==
  ASSUME IInv, IInv', Agreement, op \in {"idle", "cleanup"},
         NEW next \in {"upsert", "rewind"}, NEW S \in SUBSET Outputs,
         NEW reads, NEW h, StartsBatch(next, S, reads, h)
  PROVE  /\ EntriesAgree' /\ CommentsHaveData' /\ RecordsAgree' /\ RowsAgree'
         /\ op' = next /\ batch' = S /\ height' = h
         /\ ranksLeft' \subseteq batch' /\ commentsLeft' \subseteq batch'
         /\ records' = records /\ applied' = applied
         /\ batch = {} /\ connects = {}
<1> USE DEF StartsBatch, queueVars, dbVars, Agreement
<1>1. queue' = EmptyQueue /\ queuePosts' = NoQueuePosts
  BY DEF IInv, QueueStartsEmpty
<1>2. Queued' = {}
  BY DEF Queued, Outputs
<1>3. EntriesAgree' /\ CommentsHaveData'
  BY <1>1, <1>2, EmptyEntries DEF EntriesAgree, CommentsHaveData
<1>4. RecordsAgree' /\ RowsAgree'
  BY DEF RecordsAgree, RowsAgree
<1> QED
  BY <1>3, <1>4 DEF BatchAgrees

LEMMA HandlerAgreement ==
  ASSUME IInv, IInv', Agreement, Handler
  PROVE  Agreement'
<1> USE DEF Agreement
<1>0. /\ batch \in SUBSET Outputs /\ mempool \in SUBSET Outputs
      /\ \A T : OutputsOf(T) \in SUBSET Outputs
      /\ \A T : \A o, x \in Outputs :
           TxOf[o] = TxOf[x] => (o \in OutputsOf(T) <=> x \in OutputsOf(T))
      /\ tip \in 0..MaxHeight
  BY TypesLemma DEF OutputsOf
<1>1. ASSUME NEW T \in SUBSET Txs, AddsUnconfirmed(T) PROVE Agreement'
  <2> DEFINE S == OutputsOf(T)
  <2>1. /\ op = "idle" /\ StartsBatch("upsert", S, FALSE, Unconfirmed)
        /\ connects' = {} /\ mempool' = mempool \cup S
        /\ \A o \in S : ~records[o].exists /\ o \notin mempool
    BY <1>1 DEF AddsUnconfirmed, IsNew
  <2> HIDE DEF S
  <2>2. /\ EntriesAgree' /\ CommentsHaveData' /\ RecordsAgree' /\ RowsAgree'
        /\ op' = "upsert" /\ batch' = S /\ height' = Unconfirmed
        /\ ranksLeft' \subseteq batch' /\ commentsLeft' \subseteq batch'
        /\ records' = records /\ applied' = applied
        /\ batch = {} /\ connects = {}
    BY <1>0, <2>1, StartsAgreement DEF S
  <2>3. TransactionsWhole'
    BY <1>0, <2>1, <2>2 DEF TransactionsWhole, S
  <2>4. BatchAgrees'
    BY <2>1, <2>2 DEF BatchAgrees
  <2>5. \A o \in S : records[o].height = Unconfirmed
    BY <1>0, <2>1 DEF S, RecordsAgree
  <2>6. MempoolAgrees'
    BY <2>1, <2>2, <2>5 DEF MempoolAgrees
  <2> QED
    BY <2>2, <2>3, <2>4, <2>6
<1>2. ASSUME NEW T \in SUBSET Txs, BlockConnected(T) PROVE Agreement'
  <2> DEFINE S == OutputsOf(T) \ mempool
             K == OutputsOf(T) \cap mempool
  <2>1. /\ op = "idle" /\ StartsBatch("upsert", S, FALSE, tip + 1)
        /\ connects' = K /\ mempool' = mempool \ OutputsOf(T)
        /\ \A o \in K : records[o].exists
        /\ \A o \in S : ~records[o].exists
    BY <1>2 DEF BlockConnected
  <2>2. S \in SUBSET Outputs
    BY <1>0
  <2>3. /\ EntriesAgree' /\ CommentsHaveData' /\ RecordsAgree' /\ RowsAgree'
        /\ op' = "upsert" /\ batch' = S /\ height' = tip + 1
        /\ ranksLeft' \subseteq batch' /\ commentsLeft' \subseteq batch'
        /\ records' = records /\ applied' = applied
        /\ batch = {} /\ connects = {}
    <3> HIDE DEF S, K
    <3> QED
      BY <2>1, <2>2, StartsAgreement
  <2>4. TransactionsWhole'
    BY <1>0, <2>1, <2>3 DEF TransactionsWhole
  <2>5. BatchAgrees'
    BY <2>1, <2>3 DEF BatchAgrees
  <2>6. MempoolAgrees'
    BY <2>1, <2>3 DEF MempoolAgrees
  <2> QED
    BY <2>3, <2>4, <2>5, <2>6
<1>3. ASSUME NEW t \in Txs, MempoolTxRemove(t) PROVE Agreement'
  <2> DEFINE S == OutputsOf({t}) \cap mempool
  <2>1. /\ op = "idle" /\ StartsBatch("rewind", S, FALSE, Unconfirmed)
        /\ connects' = {} /\ mempool' = mempool \ OutputsOf({t})
    BY <1>3 DEF MempoolTxRemove
  <2>2. S \in SUBSET Outputs
    BY <1>0
  <2>3. /\ EntriesAgree' /\ CommentsHaveData' /\ RecordsAgree' /\ RowsAgree'
        /\ op' = "rewind" /\ batch' = S /\ height' = Unconfirmed
        /\ ranksLeft' \subseteq batch' /\ commentsLeft' \subseteq batch'
        /\ records' = records /\ applied' = applied
        /\ batch = {} /\ connects = {}
    <3> HIDE DEF S
    <3> QED
      BY <2>1, <2>2, StartsAgreement
  <2>4. TransactionsWhole'
    BY <1>0, <2>1, <2>3 DEF TransactionsWhole
  <2>5. \A o \in mempool : applied[o] >= 1
    BY <2>3 DEF MempoolAgrees
  <2>6. BatchAgrees'
    BY <2>1, <2>3, <2>5 DEF BatchAgrees
  <2>7. MempoolAgrees'
    BY <2>1, <2>3 DEF MempoolAgrees
  <2> QED
    BY <2>3, <2>4, <2>6, <2>7
<1>4. ASSUME NEW h \in {Unconfirmed, tip}, op \in {"idle", "cleanup"},
             StartsBatch("rewind", RecordsAt(h), TRUE, h),
             connects' = {}, mempool' = mempool,
             \A o \in mempool : o \notin RecordsAt(h)
      PROVE  Agreement'
  <2> DEFINE S == RecordsAt(h)
  <2>1. S \in SUBSET Outputs
    BY DEF RecordsAt
  <2>2. /\ EntriesAgree' /\ CommentsHaveData' /\ RecordsAgree' /\ RowsAgree'
        /\ op' = "rewind" /\ batch' = S /\ height' = h
        /\ ranksLeft' \subseteq batch' /\ commentsLeft' \subseteq batch'
        /\ records' = records /\ applied' = applied
        /\ batch = {} /\ connects = {}
    <3> HIDE DEF S
    <3>1. StartsBatch("rewind", S, TRUE, h)
      BY <1>4 DEF S
    <3> QED
      BY <1>4, <2>1, <3>1, StartsAgreement
  <2>3. TransactionsWhole'
    BY <1>4, <2>2 DEF TransactionsWhole, RecordsAt
  <2>4. \A o \in S : records[o].exists /\ o \in Outputs
    BY DEF RecordsAt
  <2>5. \A o \in S : applied[o] >= 1
    BY <2>4 DEF RecordsAgree
  <2>6. BatchAgrees'
    BY <1>4, <2>2, <2>5 DEF BatchAgrees
  <2>7. MempoolAgrees'
    BY <1>4, <2>2 DEF MempoolAgrees
  <2> QED
    BY <2>2, <2>3, <2>6, <2>7
<1>5. CASE RewindBlock
  <2>1. \A o \in mempool : o \notin RecordsAt(tip)
    BY <1>0, <1>5 DEF RewindBlock, MempoolAgrees, RecordsAt, Unconfirmed
  <2> QED
    BY <1>4, <1>5, <2>1 DEF RewindBlock
<1>6. CASE Cleanup
  <2>1. mempool = {}
    BY <1>6 DEF Cleanup, MempoolAgrees
  <2> QED
    BY <1>4, <1>6, <2>1 DEF Cleanup
<1> QED
  BY <1>1, <1>2, <1>3, <1>5, <1>6 DEF Handler

\* A restart forgets the queue, the batch and the mempool.
LEMMA RestartAgreement ==
  ASSUME IInv, Agreement, Restart
  PROVE  Agreement'
<1> USE DEF Restart, dbVars, Agreement
<1>1. Queued' = {}
  BY DEF Queued
<1>2. EntriesAgree' /\ CommentsHaveData'
  BY <1>1, EmptyEntries DEF EntriesAgree, CommentsHaveData
<1>3. TransactionsWhole' /\ BatchAgrees' /\ MempoolAgrees'
  BY DEF TransactionsWhole, BatchAgrees, MempoolAgrees
<1>4. RecordsAgree' /\ RowsAgree'
  BY DEF RecordsAgree, RowsAgree
<1> QED
  BY <1>2, <1>3, <1>4

LEMMA StutterAgreement ==
  ASSUME Agreement, UNCHANGED vars
  PROVE  Agreement'
<1> USE DEF vars, taskVars, queueVars, dbVars, Agreement
<1>1. Queued' = Queued
  BY DEF Queued
<1>2. EntriesAgree' /\ CommentsHaveData'
  BY <1>1 DEF EntriesAgree, CommentsHaveData
<1>3. TransactionsWhole' /\ BatchAgrees' /\ MempoolAgrees'
  BY DEF TransactionsWhole, BatchAgrees, MempoolAgrees
<1>4. RecordsAgree' /\ RowsAgree'
  BY DEF RecordsAgree, RowsAgree
<1> QED
  BY <1>2, <1>3, <1>4

\* The parts of the invariant that filling the queue leaves alone.
LEMMA QueueingAgreement ==
  ASSUME Agreement, op' = op,
         ranksLeft' \subseteq ranksLeft, commentsLeft' \subseteq commentsLeft,
         UNCHANGED <<batch, connects, height, mempool, records, profiles, posts, applied>>
  PROVE  /\ TransactionsWhole' /\ BatchAgrees' /\ MempoolAgrees'
         /\ RecordsAgree' /\ RowsAgree'
<1> USE DEF Agreement
<1>1. TransactionsWhole' /\ BatchAgrees' /\ MempoolAgrees'
  BY DEF TransactionsWhole, BatchAgrees, MempoolAgrees
<1>2. RecordsAgree' /\ RowsAgree'
  BY DEF RecordsAgree, RowsAgree
<1> QED
  BY <1>1, <1>2

\* A post of an unmixed profile is unmixed: what makes the entry of the post
\* makes that of the profile.
LEMMA PostUnmixed ==
  ASSUME NEW D, NEW p, NEW k, NEW l \in Platforms,
         NEW e, ProfileEntryIs(e, p, D), ~MixesPlatforms(e, l),
         NEW f \in Entries, PostEntryIs(f, p, k, D)
  PROVE  ~MixesPlatforms(f, l)
<1> DEFINE made == [x \in Platforms |-> D \cap MakingProfile(x, p)]
           madeF == [x \in Platforms |-> D \cap MakingPost(x, p, k)]
<1>1. \A x \in Platforms : madeF[x] \subseteq made[x]
  BY DEF MakingPost, MakingProfile
<1>2. \E R, C, V : EntryIs(e, made, R, C, V)
  BY DEF ProfileEntryIs
<1>3. \E R, C, V : EntryIs(f, madeF, R, C, V)
  BY DEF PostEntryIs
<1> HIDE DEF made, madeF
<1> QED
  BY <1>1, <1>2, <1>3, NoMixBelow

LEMMA QueueRankAgreement ==
  ASSUME IInv, IInv', Agreement, NEW r \in Ranks, QueueRank(r), ~mixed'
  PROVE  Agreement'
<1> DEFINE p == Target[r].profile
           l == Target[r].platform
           q == Target[r].post
           D == Queued
           e == queue[p]
           f == queuePosts[p][q]
<1>1. /\ r \in Outputs /\ l \in Platforms /\ p \in Profiles /\ q \in Posts \cup {NoPost}
      /\ r \notin Comments /\ At(r) = Target[r]
  BY TargetLemma, LedgerAssumption DEF Outputs, At, Agreement, RecordsAgree
<1>2. /\ op' = op /\ ranksLeft' = ranksLeft \ {r}
      /\ commentsLeft' = commentsLeft /\ r \in ranksLeft
      /\ UNCHANGED <<batch, connects, height, mempool, records, profiles, posts, applied>>
      /\ ~MixesPlatforms(e, l)
      /\ queue' = [queue EXCEPT ![p] = WithRank(e, l, r)]
      /\ queuePosts' = IF q = NoPost THEN queuePosts
                       ELSE [queuePosts EXCEPT ![p][q] = WithRank(f, l, r)]
  <2>1. op' = op
    BY DEF QueueRank, IInv, PushesSucceed
  <2> QED
    BY <1>1, <2>1 DEF QueueRank, dbVars
<1>3. /\ TransactionsWhole' /\ BatchAgrees' /\ MempoolAgrees'
      /\ RecordsAgree' /\ RowsAgree'
  BY <1>2, QueueingAgreement
<1>4. /\ queue \in [Profiles -> Entries] /\ queuePosts \in [Profiles -> [Posts -> Entries]]
      /\ D \in SUBSET Outputs /\ r \notin D /\ Queued' = D \cup {r}
  <2>1. r \in batch /\ r \notin commentsLeft
    BY <1>1, <1>2, TypesLemma DEF Agreement, BatchAgrees
  <2> QED
    BY <1>2, <2>1, TypesLemma DEF Queued, IInv, TypeOK
<1>5. \A x \in Profiles : /\ ProfileEntryIs(queue[x], x, D)
                          /\ \A y \in Posts : PostEntryIs(queuePosts[x][y], x, y, D)
  BY DEF Agreement, EntriesAgree
<1>6. q # NoPost => ~MixesPlatforms(f, l)
  <2> HIDE DEF p, q, l, D
  <2> QED
    BY <1>1, <1>2, <1>4, <1>5, PostUnmixed
<1>7. ASSUME NEW x \in Profiles PROVE ProfileEntryIs(queue'[x], x, D \cup {r})
  <2>1. CASE x = p
    <3>1. queue'[x] = WithRank(e, l, r) /\ e \in Entries
      BY <1>1, <1>2, <1>4, <2>1
    <3>2. ProfileEntryIs(e, p, D)
      BY <1>1, <1>5
    <3> HIDE DEF e, D
    <3> QED
      BY <1>2, <1>4, <2>1, <3>1, <3>2, RankInProfile
  <2>2. CASE x # p
    <3>1. queue'[x] = queue[x]
      BY <1>2, <1>4, <2>2
    <3> QED
      BY <1>4, <1>5, <2>2, <3>1, RankElsewhere
  <2> QED
    BY <2>1, <2>2
<1>8. ASSUME NEW x \in Profiles, NEW y \in Posts
      PROVE  PostEntryIs(queuePosts'[x][y], x, y, D \cup {r})
  <2>1. CASE x = p /\ y = q
    <3>1. q # NoPost
      BY <2>1, LedgerAssumption
    <3>2. queuePosts'[x][y] = WithRank(f, l, r) /\ f \in Entries
      BY <1>1, <1>2, <1>4, <2>1, <3>1
    <3>3. PostEntryIs(f, p, q, D)
      BY <1>1, <1>5, <2>1
    <3> HIDE DEF f, D
    <3> QED
      BY <1>4, <1>6, <2>1, <3>1, <3>2, <3>3, RankInPost
  <2>2. CASE x # p \/ y # q
    <3>1. queuePosts'[x][y] = queuePosts[x][y]
      BY <1>1, <1>2, <1>4, <2>2
    <3> QED
      BY <1>4, <1>5, <2>2, <3>1, RankElsewhere
  <2> QED
    BY <2>1, <2>2
<1>9. EntriesAgree'
  BY <1>4, <1>7, <1>8 DEF EntriesAgree
<1>10. CommentsHaveData'
  <2>1. ASSUME NEW c \in Queued' \cap Comments PROVE queuePosts'[Author[c]][c].hasData
    <3>1. c \in D /\ c \in Comments /\ Author[c] \in Profiles /\ c \in Posts
      BY <1>1, <1>4, <2>1, TargetLemma
    <3>2. queuePosts[Author[c]][c].hasData
      BY <3>1 DEF Agreement, CommentsHaveData
    <3>3. CASE q # NoPost /\ Author[c] = p /\ c = q
      <4>1. queuePosts'[Author[c]][c] = WithRank(f, l, r) /\ f \in Entries /\ f.hasData
        BY <1>1, <1>2, <1>4, <3>1, <3>2, <3>3
      <4>2. ~f.queued => f = NoEntry
        BY <1>1, <1>5, <3>1, <3>3 DEF PostEntryIs, EntryIs
      <4> QED
        BY <1>1, <1>6, <3>3, <4>1, <4>2, WithRankFields
    <3>4. CASE ~(q # NoPost /\ Author[c] = p /\ c = q)
      <4>1. queuePosts'[Author[c]][c] = queuePosts[Author[c]][c]
        BY <1>1, <1>2, <1>4, <3>1, <3>4
      <4> QED
        BY <3>2, <4>1
    <3> QED
      BY <3>3, <3>4
  <2> QED
    BY <2>1 DEF CommentsHaveData
<1> QED
  BY <1>3, <1>9, <1>10 DEF Agreement

LEMMA QueueCommentAgreement ==
  ASSUME IInv, IInv', Agreement, NEW c \in Comments, QueueComment(c), ~mixed'
  PROVE  Agreement'
<1> DEFINE a == Author[c]
           p == Target[c].profile
           l == Target[c].platform
           q == Target[c].post
           D == Queued
           queue1 == [queue EXCEPT ![a] = SelfVoted(queue[a], c)]
           own == [SelfVoted(queuePosts[a][c], c) EXCEPT !.hasData = TRUE]
           posts1 == [queuePosts EXCEPT ![a][c] = own]
           f == RepliedBy(queue1[p], l, c, q = NoPost)
           fP == RepliedBy(posts1[p][q], l, c, TRUE)
<1>1. /\ c \in Outputs /\ l \in Platforms /\ p \in Profiles \cup {NoProfile}
      /\ q \in Posts \cup {NoPost}
      /\ q # NoPost => p \in Profiles
      /\ a \in Profiles /\ c \in Posts /\ c \notin Ranks /\ At(c) = Target[c]
      /\ NoProfile \notin Profiles /\ NoPost \notin Posts /\ Lotusia \in Platforms
  BY TargetLemma, LedgerAssumption DEF Outputs, At, Agreement, RecordsAgree
<1>2. /\ op' = op /\ commentsLeft' = commentsLeft \ {c}
      /\ ranksLeft' = ranksLeft /\ c \in commentsLeft
      /\ UNCHANGED <<batch, connects, height, mempool, records, profiles, posts, applied>>
      /\ ~MixesPlatforms(queue[a], Lotusia)
      /\ p # NoProfile => ~MixesPlatforms(queue1[p], l)
      /\ queue' = IF p = NoProfile THEN queue1 ELSE [queue1 EXCEPT ![p] = f]
      /\ queuePosts' = IF q = NoPost THEN posts1 ELSE [posts1 EXCEPT ![p][q] = fP]
  BY <1>1 DEF QueueComment, dbVars
<1>3. /\ TransactionsWhole' /\ BatchAgrees' /\ MempoolAgrees'
      /\ RecordsAgree' /\ RowsAgree'
  BY <1>2, QueueingAgreement
<1>4. /\ queue \in [Profiles -> Entries] /\ queuePosts \in [Profiles -> [Posts -> Entries]]
      /\ D \in SUBSET Outputs /\ c \notin D /\ Queued' = D \cup {c}
  <2>1. c \in batch /\ c \notin ranksLeft
    BY <1>1, <1>2, TypesLemma DEF Agreement, BatchAgrees
  <2>2. Queued' = batch \ (ranksLeft \cup (commentsLeft \ {c}))
    BY <1>2 DEF Queued
  <2>3. batch \in SUBSET Outputs
    BY TypesLemma
  <2>4. D \in SUBSET Outputs /\ c \notin D /\ Queued' = D \cup {c}
    BY <1>2, <2>1, <2>2, <2>3 DEF Queued
  <2> QED
    BY <2>4 DEF IInv, TypeOK
<1>5. \A x \in Profiles : /\ ProfileEntryIs(queue[x], x, D)
                          /\ \A y \in Posts : PostEntryIs(queuePosts[x][y], x, y, D)
  BY DEF Agreement, EntriesAgree
<1>6. ~MixesPlatforms(queuePosts[a][c], Lotusia)
  <2> HIDE DEF a, D
  <2> QED
    BY <1>1, <1>2, <1>4, <1>5, PostUnmixed
<1>7. /\ SelfVoted(queue[a], c) \in Entries
      /\ SelfVoted(queuePosts[a][c], c) \in Entries
  BY <1>1, <1>4, SelfVotedLemma
<1>8. /\ LET g == SelfVoted(queue[a], c) IN
           /\ g.queued /\ g.platform = Lotusia
           /\ g.ranks = queue[a].ranks /\ g.comments = queue[a].comments
           /\ g.n = Plus(queue[a].n, VoteOf(c))
  <2>1. queue[a] \in Entries /\ (~queue[a].queued => queue[a] = NoEntry)
    BY <1>1, <1>4, <1>5 DEF ProfileEntryIs, EntryIs
  <2> HIDE DEF a
  <2> QED
    BY <1>2, <2>1, SelfVotedFields
<1>9. /\ own \in Entries /\ own.queued /\ own.platform = Lotusia /\ own.hasData
      /\ own.ranks = queuePosts[a][c].ranks /\ own.comments = queuePosts[a][c].comments
      /\ own.n = Plus(queuePosts[a][c].n, VoteOf(c))
  <2> DEFINE g == SelfVoted(queuePosts[a][c], c)
  <2>1. /\ queuePosts[a][c] \in Entries
        /\ ~queuePosts[a][c].queued => queuePosts[a][c] = NoEntry
    <3>1. queuePosts[a][c] \in Entries /\ PostEntryIs(queuePosts[a][c], a, c, D)
      BY <1>1, <1>4, <1>5
    <3> HIDE DEF a, D
    <3> QED
      BY <3>1 DEF PostEntryIs, EntryIs
  <2>2. /\ g.queued /\ g.platform = Lotusia
        /\ g.ranks = queuePosts[a][c].ranks /\ g.comments = queuePosts[a][c].comments
        /\ g.n = Plus(queuePosts[a][c].n, VoteOf(c))
    <3> HIDE DEF a
    <3> QED
      BY <1>6, <2>1, SelfVotedFields
  <2>3. g \in Entries
    BY <1>7
  <2>4. own = [g EXCEPT !.hasData = TRUE]
    OBVIOUS
  <2> HIDE DEF g, own, a
  <2> QED
    BY <2>2, <2>3, <2>4 DEF Entries
<1>10. ASSUME NEW x \in Profiles
       PROVE  queue1[x] \in Entries /\ HalfProfileIs(queue1[x], x, D, c)
  <2>1. queue[x] \in Entries /\ ProfileEntryIs(queue[x], x, D)
    BY <1>4, <1>5
  <2>2. queue1[x] = IF x = a THEN SelfVoted(queue[a], c) ELSE queue[x]
    BY <1>4
  <2> HIDE DEF queue1, D
  <2>3. CASE x = a
    <3>1. \A g : /\ g.queued /\ g.platform = Lotusia
                 /\ g.ranks = queue[a].ranks /\ g.comments = queue[a].comments
                 /\ g.n = Plus(queue[a].n, VoteOf(c))
                 => HalfProfileIs(g, a, D, c)
      BY <1>2, <1>4, <2>1, <2>3, CommentHalfway
    <3> QED
      BY <1>7, <1>8, <2>2, <2>3, <3>1
  <2>4. CASE x # a
    BY <1>4, <2>1, <2>2, <2>4, CommentHalfway
  <2> QED
    BY <2>3, <2>4
<1>11. ASSUME NEW x \in Profiles, NEW y \in Posts
       PROVE  posts1[x][y] \in Entries /\ HalfPostIs(posts1[x][y], x, y, D, c)
  <2>1. queuePosts[x][y] \in Entries /\ PostEntryIs(queuePosts[x][y], x, y, D)
    BY <1>4, <1>5
  <2>2. posts1[x][y] = IF x = a /\ y = c THEN own ELSE queuePosts[x][y]
    BY <1>4
  <2> HIDE DEF posts1, D, own
  <2>3. CASE x = a /\ y = c
    <3>1. \A g : /\ g.queued /\ g.platform = Lotusia
                 /\ g.ranks = queuePosts[a][c].ranks
                 /\ g.comments = queuePosts[a][c].comments
                 /\ g.n = Plus(queuePosts[a][c].n, VoteOf(c))
                 => HalfPostIs(g, a, c, D, c)
      BY <1>4, <1>6, <2>1, <2>3, CommentHalfwayPost
    <3> QED
      BY <1>9, <2>2, <2>3, <3>1
  <2>4. CASE x # a \/ y # c
    BY <1>4, <2>1, <2>2, <2>4, CommentHalfwayPost
  <2> QED
    BY <2>3, <2>4
<1>12. \A x \in Profiles : queue1[x] \in Entries /\ (~queue1[x].queued => queue1[x] = NoEntry)
  BY <1>10 DEF HalfProfileIs, EntryIs
<1>13. \A x \in Profiles : \A y \in Posts :
         posts1[x][y] \in Entries /\ (~posts1[x][y].queued => posts1[x][y] = NoEntry)
  BY <1>11 DEF HalfPostIs, EntryIs
<1>14. q # NoPost => ~MixesPlatforms(posts1[p][q], l)
  <2> SUFFICES ASSUME q # NoPost PROVE ~MixesPlatforms(posts1[p][q], l)
    OBVIOUS
  <2>1. p \in Profiles /\ q \in Posts /\ ~MixesPlatforms(queue1[p], l)
    BY <1>1, <1>2
  <2> DEFINE made == [x \in Platforms |-> (D \cap MakingProfile(x, p)) \cup
                                            {z \in {c} : x = Lotusia /\ p = Author[c]}]
             madeF == [x \in Platforms |-> (D \cap MakingPost(x, p, q)) \cup
                               {z \in {c} : x = Lotusia /\ p = Author[c] /\ q = c}]
  <2>2. \A x \in Platforms : madeF[x] \subseteq made[x]
    BY DEF MakingPost, MakingProfile
  <2>3. \E R, C, V : EntryIs(queue1[p], made, R, C, V)
    BY <1>10, <2>1 DEF HalfProfileIs
  <2>4. \E R, C, V : EntryIs(posts1[p][q], madeF, R, C, V)
    BY <1>11, <2>1 DEF HalfPostIs
  <2>5. posts1[p][q] \in Entries
    BY <1>11, <2>1
  <2> HIDE DEF made, madeF, queue1, posts1, p, q, l
  <2> QED
    BY <1>1, <2>1, <2>2, <2>3, <2>4, <2>5, NoMixBelow
<1>15. ASSUME NEW x \in Profiles PROVE ProfileEntryIs(queue'[x], x, D \cup {c})
  <2>1. CASE x = p
    <3>1. queue'[x] = f
      BY <1>1, <1>2, <1>4, <2>1
    <3>2. /\ f.queued /\ f.platform = l /\ f.ranks = queue1[p].ranks /\ f.n = queue1[p].n
          /\ f.comments = IF q = NoPost THEN queue1[p].comments \cup {c} ELSE queue1[p].comments
      <4>1. /\ queue1[p] \in Entries /\ (~queue1[p].queued => queue1[p] = NoEntry)
            /\ ~MixesPlatforms(queue1[p], l)
        BY <1>1, <1>2, <1>12, <2>1
      <4> DEFINE g == Entry(queue1[p], l)
      <4>2. f = [g EXCEPT !.comments = IF q = NoPost THEN @ \cup {c} ELSE @]
        BY DEF RepliedBy
      <4> HIDE DEF queue1, p, l, q, f
      <4>3. /\ g \in Entries /\ g.queued /\ g.platform = l /\ g.n = queue1[p].n
            /\ g.ranks = queue1[p].ranks /\ g.comments = queue1[p].comments
        BY <1>1, <4>1, EntryFields
      <4> HIDE DEF g
      <4> QED
        BY <4>2, <4>3 DEF Entries
    <3>3. /\ queue1[p] \in Entries /\ HalfProfileIs(queue1[p], p, D, c)
          /\ ~MixesPlatforms(queue1[p], l) /\ p \in Profiles
      BY <1>1, <1>2, <1>10, <2>1
    <3> HIDE DEF queue1, f, D
    <3> QED
      BY <1>4, <2>1, <3>1, <3>2, <3>3, CommentWhole
  <2>2. CASE x # p
    <3>1. queue'[x] = queue1[x]
      BY <1>2, <1>4, <2>2
    <3>2. queue1[x] \in Entries /\ HalfProfileIs(queue1[x], x, D, c)
      BY <1>10
    <3> HIDE DEF queue1, D
    <3> QED
      BY <1>4, <2>2, <3>1, <3>2, CommentWhole
  <2> QED
    BY <2>1, <2>2
<1>16. ASSUME NEW x \in Profiles, NEW y \in Posts
       PROVE  PostEntryIs(queuePosts'[x][y], x, y, D \cup {c})
  <2>1. CASE x = p /\ y = q
    <3>0. q # NoPost
      BY <1>1, <2>1
    <3>1. queuePosts'[x][y] = fP
      BY <1>1, <1>2, <1>4, <2>1, <3>0
    <3>2. /\ fP.queued /\ fP.platform = l /\ fP.ranks = posts1[p][q].ranks
          /\ fP.n = posts1[p][q].n /\ fP.comments = posts1[p][q].comments \cup {c}
      <4>1. /\ posts1[p][q] \in Entries
            /\ ~posts1[p][q].queued => posts1[p][q] = NoEntry
        BY <1>13, <2>1
      <4> DEFINE g == Entry(posts1[p][q], l)
      <4>2. fP = [g EXCEPT !.comments = @ \cup {c}]
        BY DEF RepliedBy
      <4> HIDE DEF posts1, p, l, q, fP
      <4>3. /\ g \in Entries /\ g.queued /\ g.platform = l /\ g.n = posts1[p][q].n
            /\ g.ranks = posts1[p][q].ranks /\ g.comments = posts1[p][q].comments
        BY <1>1, <1>14, <3>0, <4>1, EntryFields
      <4> HIDE DEF g
      <4> QED
        BY <4>2, <4>3 DEF Entries
    <3>3. posts1[p][q] \in Entries /\ HalfPostIs(posts1[p][q], p, q, D, c)
      BY <1>11, <2>1
    <3> HIDE DEF posts1, fP, D
    <3> QED
      BY <1>4, <1>14, <2>1, <3>0, <3>1, <3>2, <3>3, CommentWholePost
  <2>2. CASE x # p \/ y # q
    <3>1. queuePosts'[x][y] = posts1[x][y]
      BY <1>1, <1>2, <1>4, <2>2
    <3>2. posts1[x][y] \in Entries /\ HalfPostIs(posts1[x][y], x, y, D, c)
      BY <1>11
    <3> HIDE DEF posts1, D
    <3> QED
      BY <1>4, <2>2, <3>1, <3>2, CommentWholePost
  <2> QED
    BY <2>1, <2>2
<1>17. EntriesAgree'
  BY <1>4, <1>15, <1>16 DEF EntriesAgree
<1>18. CommentsHaveData'
  <2>1. ASSUME NEW x \in Queued' \cap Comments PROVE queuePosts'[Author[x]][x].hasData
    <3>1. x \in D \cup {c} /\ x \in Comments /\ Author[x] \in Profiles /\ x \in Posts
      BY <1>1, <1>4, <2>1, TargetLemma DEF Outputs
    <3>2. posts1[Author[x]][x].hasData
      <4>1. CASE x = c
        BY <1>1, <1>4, <1>9, <4>1
      <4>2. CASE x # c
        <5>1. queuePosts[Author[x]][x].hasData
          BY <3>1, <4>2 DEF Agreement, CommentsHaveData
        <5>2. posts1[Author[x]][x] = queuePosts[Author[x]][x]
          BY <1>1, <1>4, <3>1, <4>2
        <5> QED
          BY <5>1, <5>2
      <4> QED
        BY <4>1, <4>2
    <3>3. CASE q # NoPost /\ Author[x] = p /\ x = q
      <4>1. queuePosts'[Author[x]][x] = fP
        BY <1>1, <1>2, <1>4, <3>1, <3>3
      <4>2. /\ posts1[p][q] \in Entries /\ posts1[p][q].hasData
            /\ ~posts1[p][q].queued => posts1[p][q] = NoEntry
        BY <1>13, <3>1, <3>2, <3>3
      <4>3. fP.hasData = posts1[p][q].hasData
        <5> DEFINE g == Entry(posts1[p][q], l)
        <5>1. fP = [g EXCEPT !.comments = @ \cup {c}]
          BY DEF RepliedBy
        <5> HIDE DEF posts1, p, l, q, fP
        <5>2. g \in Entries /\ g.hasData = posts1[p][q].hasData
          BY <1>1, <1>14, <3>3, <4>2, EntryFields
        <5> HIDE DEF g
        <5> QED
          BY <5>1, <5>2 DEF Entries
      <4> QED
        BY <4>1, <4>2, <4>3
    <3>4. CASE ~(q # NoPost /\ Author[x] = p /\ x = q)
      <4>1. queuePosts'[Author[x]][x] = posts1[Author[x]][x]
        BY <1>1, <1>2, <1>4, <3>1, <3>4
      <4> QED
        BY <3>2, <4>1
    <3> QED
      BY <3>3, <3>4
  <2> QED
    BY <2>1 DEF CommentsHaveData
<1> QED
  BY <1>3, <1>17, <1>18 DEF Agreement

\* What the entries say, part by part.
LEMMA ProfileEntriesSay ==
  ASSUME IInv, Agreement, NEW p \in Profiles
  PROVE  LET e == queue[p] IN
         /\ e \in Entries
         /\ e.queued => \E o \in Queued : o \in MakingProfile(e.platform, p)
         /\ \A l \in Platforms : \A o \in Queued :
              o \in MakingProfile(l, p) => e.queued /\ e.platform = l
         /\ e.ranks = {r \in Queued \cap Ranks : Target[r].profile = p}
         /\ e.comments = {c \in Queued \cap Comments :
                            Target[c].profile = p /\ Target[c].post = NoPost}
         /\ e.n = Votes(Queued \cap VotingForProfile(p))
<1> DEFINE e == queue[p]
           D == Queued
           made == [l \in Platforms |-> D \cap MakingProfile(l, p)]
<1>1. e \in Entries
  BY DEF IInv, TypeOK
<1>2. EntryIs(e, made, {r \in D \cap Ranks : Target[r].profile = p},
              {c \in D \cap Comments : Target[c].profile = p /\ Target[c].post = NoPost},
              D \cap VotingForProfile(p))
  BY DEF Agreement, EntriesAgree, ProfileEntryIs
<1>3. /\ e.ranks = {r \in D \cap Ranks : Target[r].profile = p}
      /\ e.comments = {c \in D \cap Comments : Target[c].profile = p /\ Target[c].post = NoPost}
      /\ e.n = Votes(D \cap VotingForProfile(p))
  BY <1>2 DEF EntryIs
<1>4. /\ e.queued => made[e.platform] # {}
      /\ \A l \in Platforms : made[l] # {} => e.queued /\ e.platform = l
  BY <1>2 DEF EntryIs
<1>5. e.platform \in Platforms
  BY <1>1 DEF Entries
<1>6. \A l \in Platforms : made[l] = D \cap MakingProfile(l, p)
  OBVIOUS
<1> HIDE DEF e, D, made
<1>7. /\ e.queued => \E o \in D : o \in MakingProfile(e.platform, p)
      /\ \A l \in Platforms : \A o \in D :
           o \in MakingProfile(l, p) => e.queued /\ e.platform = l
  BY <1>4, <1>5, <1>6
<1> QED
  BY <1>1, <1>3, <1>7 DEF e, D

LEMMA PostEntriesSay ==
  ASSUME IInv, Agreement, NEW p \in Profiles, NEW k \in Posts
  PROVE  LET e == queuePosts[p][k] IN
         /\ e \in Entries
         /\ e.queued => \E o \in Queued : o \in MakingPost(e.platform, p, k)
         /\ \A l \in Platforms : \A o \in Queued :
              o \in MakingPost(l, p, k) => e.queued /\ e.platform = l
         /\ e.ranks = {r \in Queued \cap Ranks : Target[r].profile = p /\ Target[r].post = k}
         /\ e.comments = {c \in Queued \cap Comments :
                            Target[c].profile = p /\ Target[c].post = k}
         /\ e.n = Votes(Queued \cap VotingForPost(p, k))
<1> DEFINE e == queuePosts[p][k]
           D == Queued
           made == [l \in Platforms |-> D \cap MakingPost(l, p, k)]
<1>1. e \in Entries
  BY DEF IInv, TypeOK
<1>2. EntryIs(e, made, {r \in D \cap Ranks : Target[r].profile = p /\ Target[r].post = k},
              {c \in D \cap Comments : Target[c].profile = p /\ Target[c].post = k},
              D \cap VotingForPost(p, k))
  BY DEF Agreement, EntriesAgree, PostEntryIs
<1>3. /\ e.ranks = {r \in D \cap Ranks : Target[r].profile = p /\ Target[r].post = k}
      /\ e.comments = {c \in D \cap Comments : Target[c].profile = p /\ Target[c].post = k}
      /\ e.n = Votes(D \cap VotingForPost(p, k))
  BY <1>2 DEF EntryIs
<1>4. /\ e.queued => made[e.platform] # {}
      /\ \A l \in Platforms : made[l] # {} => e.queued /\ e.platform = l
  BY <1>2 DEF EntryIs
<1>5. e.platform \in Platforms
  BY <1>1 DEF Entries
<1>6. \A l \in Platforms : made[l] = D \cap MakingPost(l, p, k)
  OBVIOUS
<1> HIDE DEF e, D, made
<1>7. /\ e.queued => \E o \in D : o \in MakingPost(e.platform, p, k)
      /\ \A l \in Platforms : \A o \in D :
           o \in MakingPost(l, p, k) => e.queued /\ e.platform = l
  BY <1>4, <1>5, <1>6
<1> QED
  BY <1>1, <1>3, <1>7 DEF e, D

\* The votes that the queue adds to a row, or takes from it, are those of the
\* outputs in the queue that count for the row.
LEMMA ProfileVotes ==
  ASSUME IInv, Agreement, NEW l \in Platforms, NEW p \in Profiles
  PROVE  Votes(Queued \cap CountingForProfile(l, p))
           = IF queue[p].queued /\ queue[p].platform = l THEN queue[p].n ELSE Zero
<1> DEFINE e == queue[p]
           D == Queued
<1>1. /\ \A k \in Platforms : \A o \in D :
           o \in MakingProfile(k, p) => e.queued /\ e.platform = k
      /\ e.n = Votes(D \cap VotingForProfile(p))
  BY ProfileEntriesSay
<1>2. CountingForProfile(l, p) \subseteq MakingProfile(l, p)
  BY DEF CountingForProfile, MakingProfile, Outputs
<1> HIDE DEF e, D
<1>3. CASE e.queued /\ e.platform = l
  <2>1. ASSUME NEW o \in D PROVE o \in VotingForProfile(p) <=> o \in CountingForProfile(l, p)
    <3>1. ASSUME o \in VotingForProfile(p) PROVE o \in CountingForProfile(l, p)
      <4>1. CASE o \in Ranks /\ Target[o].profile = p
        <5>1. o \in Outputs /\ Target[o].platform \in Platforms
          BY <4>1, TargetLemma DEF Outputs
        <5>2. o \in MakingProfile(Target[o].platform, p)
          BY <4>1, <5>1 DEF MakingProfile
        <5>3. Target[o].platform = l
          BY <1>1, <1>3, <5>1, <5>2
        <5> QED
          BY <4>1, <5>3 DEF CountingForProfile
      <4>2. CASE o \in Comments /\ Author[o] = p
        <5>1. o \in MakingProfile(Lotusia, p) /\ Lotusia \in Platforms
          BY <4>2, LedgerAssumption DEF MakingProfile
        <5>2. Lotusia = l
          BY <1>1, <1>3, <5>1
        <5> QED
          BY <4>2, <5>2 DEF CountingForProfile
      <4> QED
        BY <3>1, <4>1, <4>2 DEF VotingForProfile
    <3>2. o \in CountingForProfile(l, p) => o \in VotingForProfile(p)
      BY DEF CountingForProfile, VotingForProfile
    <3> QED
      BY <3>1, <3>2
  <2>2. D \cap VotingForProfile(p) = D \cap CountingForProfile(l, p)
    BY <2>1
  <2> QED
    BY <1>1, <1>3, <2>2 DEF e, D
<1>4. CASE ~(e.queued /\ e.platform = l)
  <2>1. D \cap CountingForProfile(l, p) = {}
    BY <1>1, <1>2, <1>4
  <2> QED
    BY <1>4, <2>1, VotesNone DEF e, D
<1> QED
  BY <1>3, <1>4

LEMMA PostVotes ==
  ASSUME IInv, Agreement, NEW l \in Platforms, NEW p \in Profiles, NEW k \in Posts
  PROVE  Votes(Queued \cap CountingForPost(l, p, k))
           = IF queuePosts[p][k].queued /\ queuePosts[p][k].platform = l
             THEN queuePosts[p][k].n ELSE Zero
<1> DEFINE e == queuePosts[p][k]
           D == Queued
<1>1. /\ \A x \in Platforms : \A o \in D :
           o \in MakingPost(x, p, k) => e.queued /\ e.platform = x
      /\ e.n = Votes(D \cap VotingForPost(p, k))
  BY PostEntriesSay
<1>2. CountingForPost(l, p, k) \subseteq MakingPost(l, p, k)
  BY DEF CountingForPost, MakingPost, Outputs
<1> HIDE DEF e, D
<1>3. CASE e.queued /\ e.platform = l
  <2>1. ASSUME NEW o \in D PROVE o \in VotingForPost(p, k) <=> o \in CountingForPost(l, p, k)
    <3>1. ASSUME o \in VotingForPost(p, k) PROVE o \in CountingForPost(l, p, k)
      <4>1. CASE o \in Ranks /\ Target[o].profile = p /\ Target[o].post = k
        <5>1. /\ o \in Outputs /\ Target[o].platform \in Platforms
              /\ Target[o] = [platform |-> Target[o].platform, profile |-> p, post |-> k]
          BY <4>1, TargetLemma DEF Outputs
        <5>2. o \in MakingPost(Target[o].platform, p, k)
          BY <4>1, <5>1 DEF MakingPost
        <5>3. Target[o].platform = l
          BY <1>1, <1>3, <5>1, <5>2
        <5> QED
          BY <4>1, <5>1, <5>3 DEF CountingForPost
      <4>2. CASE o \in Comments /\ Author[o] = p /\ o = k
        <5>1. o \in MakingPost(Lotusia, p, k) /\ Lotusia \in Platforms
          BY <4>2, LedgerAssumption DEF MakingPost
        <5>2. Lotusia = l
          BY <1>1, <1>3, <5>1
        <5> QED
          BY <4>2, <5>2 DEF CountingForPost
      <4> QED
        BY <3>1, <4>1, <4>2 DEF VotingForPost
    <3>2. o \in CountingForPost(l, p, k) => o \in VotingForPost(p, k)
      BY DEF CountingForPost, VotingForPost
    <3> QED
      BY <3>1, <3>2
  <2>2. D \cap VotingForPost(p, k) = D \cap CountingForPost(l, p, k)
    BY <2>1
  <2> QED
    BY <1>1, <1>3, <2>2 DEF e, D
<1>4. CASE ~(e.queued /\ e.platform = l)
  <2>1. D \cap CountingForPost(l, p, k) = {}
    BY <1>1, <1>2, <1>4
  <2> QED
    BY <1>4, <2>1, VotesNone DEF e, D
<1> QED
  BY <1>3, <1>4

LEMMA FullQueue == QueueIsFull => Queued = batch
  BY DEF QueueIsFull, Queued

\* A post in the queue has its profile in the queue, on the same platform.
LEMMA PostHasProfile ==
  ASSUME IInv, Agreement, NEW p \in Profiles, NEW k \in Posts, queuePosts[p][k].queued
  PROVE  /\ queuePosts[p][k].platform \in Platforms
         /\ queue[p].queued /\ queue[p].platform = queuePosts[p][k].platform
<1>1. /\ queuePosts[p][k].platform \in Platforms
      /\ \E o \in Queued : o \in MakingPost(queuePosts[p][k].platform, p, k)
  BY PostEntriesSay DEF Entries
<1>2. \E o \in Queued : o \in MakingProfile(queuePosts[p][k].platform, p)
  BY <1>1 DEF MakingPost, MakingProfile
<1> QED
  BY <1>1, <1>2, ProfileEntriesSay

\* No statement fails.
LEMMA CanUpsertLemma ==
  ASSUME IInv, Agreement, op = "upsert", QueueIsFull
  PROVE  CanUpsert
<1>1. ASSUME NEW p \in Profiles, NEW k \in Posts, queuePosts[p][k].queued
      PROVE  ProfilesAfterUpsert[queuePosts[p][k].platform][p].exists
  BY <1>1, PostHasProfile DEF ProfilesAfterUpsert
<1>2. ASSUME NEW c \in batch \cap Comments
      PROVE  /\ PostsAfterUpsert[Lotusia][Author[c]][c].exists
             /\ PostsAfterUpsert[Lotusia][Author[c]][c].hasData
  <2> DEFINE e == queuePosts[Author[c]][c]
  <2>1. c \in Queued /\ Author[c] \in Profiles /\ c \in Posts /\ Lotusia \in Platforms
    BY <1>2, FullQueue, LedgerAssumption
  <2>2. c \in MakingPost(Lotusia, Author[c], c)
    BY <1>2 DEF MakingPost
  <2>3. e.queued /\ e.platform = Lotusia
    BY <2>1, <2>2, PostEntriesSay
  <2>4. e.hasData
    BY <1>2, <2>1 DEF Agreement, CommentsHaveData
  <2> QED
    BY <2>1, <2>3, <2>4 DEF PostsAfterUpsert
<1> QED
  BY <1>1, <1>2 DEF CanUpsert

LEMMA CanRewindLemma ==
  ASSUME IInv, Agreement, op = "rewind", QueueIsFull
  PROVE  CanRewind
<1>1. \A o \in Queued : applied[o] >= 1
  BY FullQueue DEF Agreement, BatchAgrees
<1>2. ASSUME NEW p \in Profiles, queue[p].queued
      PROVE  profiles[queue[p].platform][p].exists
  <2>1. /\ queue[p].platform \in Platforms
        /\ \E o \in Queued : o \in MakingProfile(queue[p].platform, p)
    BY <1>2, ProfileEntriesSay DEF Entries
  <2> QED
    BY <1>1, <2>1 DEF Agreement, RowsAgree
<1>3. ASSUME NEW p \in Profiles, NEW k \in Posts, queuePosts[p][k].queued
      PROVE  posts[queuePosts[p][k].platform][p][k].exists
  <2>1. /\ queuePosts[p][k].platform \in Platforms
        /\ \E o \in Queued : o \in MakingPost(queuePosts[p][k].platform, p, k)
    BY <1>3, PostEntriesSay DEF Entries
  <2> QED
    BY <1>1, <2>1 DEF Agreement, RowsAgree
<1> QED
  BY <1>2, <1>3 DEF CanRewind

\* A record is created as its output names it.
LEMMA RecordsUpserted ==
  ASSUME IInv, Agreement, op = "upsert", QueueIsFull, NEW o \in Outputs
  PROVE  /\ o \in connects => RecordsAfterUpsert[o] = [records[o] EXCEPT !.height = height]
         /\ o \in batch /\ Recorded(o) =>
              RecordsAfterUpsert[o] = [exists |-> TRUE, height |-> height, at |-> Target[o]]
         /\ o \notin connects /\ ~(o \in batch /\ Recorded(o)) =>
              RecordsAfterUpsert[o] = records[o]
<1> DEFINE p == Target[o].profile
           l == Target[o].platform
           q == Target[o].post
<1>1. /\ l \in Platforms /\ p \in Profiles \cup {NoProfile} /\ q \in Posts \cup {NoPost}
      /\ Target[o] = [platform |-> l, profile |-> p, post |-> q]
  BY TargetLemma
<1>2. ASSUME o \in batch, Recorded(o)
      PROVE  RecordsAfterUpsert[o] = [exists |-> TRUE, height |-> height, at |-> Target[o]]
  <2>1. o \notin connects
    BY <1>2 DEF Agreement, BatchAgrees
  <2>2. p \in Profiles /\ o \in Queued
    BY <1>1, <1>2, FullQueue DEF Recorded
  <2>3. o \in MakingProfile(l, p)
    BY DEF MakingProfile
  <2>4. queue[p].platform = l
    BY <1>1, <2>2, <2>3, ProfileEntriesSay
  <2>5. CASE q = NoPost
    <3>1. ~InPost(o)
      BY <2>5 DEF InPost
    <3>2. RecordsAfterUpsert[o]
            = [exists |-> TRUE, height |-> height,
               at |-> [Target[o] EXCEPT !.platform = queue[p].platform, !.post = NoPost]]
      BY <1>2, <2>1, <3>1 DEF RecordsAfterUpsert
    <3> QED
      BY <1>1, <2>4, <2>5, <3>2
  <2>6. CASE q # NoPost
    <3> DEFINE e == queuePosts[p][q]
    <3>1. q \in Posts /\ o \in MakingPost(l, p, q)
      BY <1>1, <2>6 DEF MakingPost
    <3>2. /\ e.platform = l
          /\ e.ranks = {r \in Queued \cap Ranks : Target[r].profile = p /\ Target[r].post = q}
          /\ e.comments = {c \in Queued \cap Comments :
                             Target[c].profile = p /\ Target[c].post = q}
      <4> HIDE DEF p, q, l
      <4> QED
        BY <1>1, <2>2, <3>1, PostEntriesSay
    <3>3. o \in e.ranks \cup e.comments
      BY <2>2, <3>2 DEF Outputs
    <3>4. InPost(o)
      BY <2>6, <3>3 DEF InPost
    <3>5. RecordsAfterUpsert[o]
            = [exists |-> TRUE, height |-> height,
               at |-> [Target[o] EXCEPT !.platform = e.platform]]
      BY <1>2, <2>1, <3>4 DEF RecordsAfterUpsert
    <3> QED
      BY <1>1, <3>2, <3>5
  <2> QED
    BY <2>5, <2>6
<1> QED
  BY <1>2 DEF RecordsAfterUpsert

\* A record is deleted if its output is taken back, and no other one is.
LEMMA RecordsRewound ==
  ASSUME IInv, Agreement, QueueIsFull, NEW o \in Outputs
  PROVE  RecordsAfterRewind[o]
           = IF records[o].exists /\ o \in batch THEN NoRecord(o) ELSE records[o]
<1> DEFINE p == Target[o].profile
           l == Target[o].platform
           q == Target[o].post
<1>1. /\ l \in Platforms /\ p \in Profiles \cup {NoProfile} /\ q \in Posts \cup {NoPost}
      /\ Target[o] = [platform |-> l, profile |-> p, post |-> q]
      /\ q # NoPost => p \in Profiles
  <2>1. q # NoPost => p \in Profiles
    BY TargetLemma
  <2> QED
    BY <2>1, TargetLemma
<1>2. records[o].at = Target[o]
  BY DEF Agreement, RecordsAgree
<1>3. SUFFICES ASSUME records[o].exists PROVE IsDeleted(o) <=> o \in batch
  BY DEF RecordsAfterRewind
<1>4. p \in Profiles
  BY <1>1, <1>3 DEF Agreement, RecordsAgree, Recorded
<1>5. Queued = batch
  BY FullQueue
<1>6. IsDeleted(o) <=> \/ Deletes(queue[p], o, l)
                       \/ q # NoPost /\ Deletes(queuePosts[p][q], o, l)
  BY <1>2, <1>4, LedgerAssumption DEF IsDeleted
<1>7. ASSUME NEW x \in batch, TxOf[x] = TxOf[o] PROVE o \in batch
  <2>1. x \in Outputs
    BY <1>7, TypesLemma
  <2> QED
    BY <1>7, <2>1 DEF Agreement, TransactionsWhole
<1>8. ASSUME IsDeleted(o) PROVE o \in batch
  <2>1. CASE Deletes(queue[p], o, l)
    <3>1. \A x \in queue[p].ranks \cup queue[p].comments : x \in batch
      <4> HIDE DEF p, q, l
      <4>1. /\ queue[p].ranks = {r \in Queued \cap Ranks : Target[r].profile = p}
            /\ queue[p].comments
                 = {c \in Queued \cap Comments :
                      Target[c].profile = p /\ Target[c].post = NoPost}
        BY <1>4, ProfileEntriesSay
      <4> QED
        BY <1>5, <4>1
    <3> QED
      BY <1>7, <2>1, <3>1 DEF Deletes
  <2>2. CASE q # NoPost /\ Deletes(queuePosts[p][q], o, l)
    <3>1. \A x \in queuePosts[p][q].ranks \cup queuePosts[p][q].comments : x \in batch
      <4> HIDE DEF p, q, l
      <4>1. q \in Posts
        BY <1>1, <2>2
      <4>2. /\ queuePosts[p][q].ranks
                 = {r \in Queued \cap Ranks : Target[r].profile = p /\ Target[r].post = q}
            /\ queuePosts[p][q].comments
                 = {c \in Queued \cap Comments : Target[c].profile = p /\ Target[c].post = q}
        BY <1>4, <4>1, PostEntriesSay
      <4> QED
        BY <1>5, <4>2
    <3> QED
      BY <1>7, <2>2, <3>1 DEF Deletes
  <2> QED
    BY <1>6, <1>8, <2>1, <2>2
<1>9. ASSUME o \in batch PROVE IsDeleted(o)
  <2>1. CASE o \in Ranks \/ q = NoPost
    <3> DEFINE e == queue[p]
    <3>1. o \in MakingProfile(l, p)
      BY DEF MakingProfile
    <3>2. /\ e.queued /\ e.platform = l
          /\ e.ranks = {r \in Queued \cap Ranks : Target[r].profile = p}
          /\ e.comments = {c \in Queued \cap Comments :
                             Target[c].profile = p /\ Target[c].post = NoPost}
      BY <1>1, <1>4, <1>5, <1>9, <3>1, ProfileEntriesSay
    <3>3. o \in IF o \in Ranks THEN e.ranks ELSE e.comments
      BY <1>5, <1>9, <2>1, <3>2 DEF Outputs
    <3> QED
      BY <1>6, <3>2, <3>3 DEF Deletes
  <2>2. CASE o \notin Ranks /\ q # NoPost
    <3> DEFINE e == queuePosts[p][q]
    <3>1. q \in Posts /\ o \in MakingPost(l, p, q)
      BY <1>1, <2>2 DEF MakingPost
    <3>2. /\ e.queued /\ e.platform = l
          /\ e.comments = {c \in Queued \cap Comments :
                             Target[c].profile = p /\ Target[c].post = q}
      <4> HIDE DEF p, q, l
      <4> QED
        BY <1>1, <1>4, <1>5, <1>9, <3>1, PostEntriesSay
    <3>3. o \in e.comments
      BY <1>5, <1>9, <2>2, <3>2 DEF Outputs
    <3> QED
      BY <1>6, <2>2, <3>2, <3>3 DEF Deletes
  <2> QED
    BY <2>1, <2>2
<1> QED
  BY <1>8, <1>9

\* What a handler leaves behind when it ends.
LEMMA EndsAgreement ==
  ASSUME IInv, Agreement, QueueIsFull, HandlerEnds
  PROVE  EntriesAgree' /\ CommentsHaveData' /\ BatchAgrees' /\ mempool' = mempool
<1> USE DEF HandlerEnds
<1>1. Queued' = {}
  BY DEF Queued
<1>2. EntriesAgree' /\ CommentsHaveData'
  BY <1>1, EmptyEntries DEF EntriesAgree, CommentsHaveData
<1>3. BatchAgrees'
  BY DEF BatchAgrees, QueueIsFull
<1> QED
  BY <1>2, <1>3

\* Outputs of one transaction are RANK outputs, or one and the same comment.
LEMMA SameTransaction ==
  ASSUME NEW o \in Outputs, NEW x \in Outputs, TxOf[o] = TxOf[x]
  PROVE  o = x \/ (Recorded(o) /\ Recorded(x))
  BY LedgerAssumption DEF Outputs, Recorded

LEMMA UpsertAgreement ==
  ASSUME IInv, IInv', Agreement, Upsert
  PROVE  Agreement'
<1>1. /\ op = "upsert" /\ QueueIsFull /\ HandlerEnds /\ Queued = batch
      /\ profiles' = ProfilesAfterUpsert /\ posts' = PostsAfterUpsert
      /\ records' = RecordsAfterUpsert
      /\ applied' = [o \in Outputs |-> IF o \in batch THEN applied[o] + 1 ELSE applied[o]]
  BY FullQueue DEF Upsert
<1>2. EntriesAgree' /\ CommentsHaveData' /\ BatchAgrees' /\ mempool' = mempool
  BY <1>1, EndsAgreement
<1>3. /\ batch \in SUBSET Outputs /\ connects \in SUBSET Outputs
      /\ mempool \in SUBSET Outputs /\ records \in [Outputs -> Records]
      /\ applied \in [Outputs -> Int] /\ applied' \in [Outputs -> Int]
      /\ batch' = {} /\ connects' = {} /\ op' = "idle"
  BY <1>1, TypesLemma DEF HandlerEnds
<1>4. /\ \A o \in batch : ~records[o].exists
      /\ \A o \in connects : records[o].exists /\ o \notin mempool /\ o \notin batch
  BY <1>1 DEF Agreement, BatchAgrees
<1>5. ASSUME NEW o \in Outputs
      PROVE  /\ applied'[o] = IF o \in batch THEN applied[o] + 1 ELSE applied[o]
             /\ applied[o] \in Int /\ applied[o] >= 0
  BY <1>1, <1>3 DEF Agreement, RecordsAgree
<1>6. ASSUME NEW o \in Outputs
      PROVE  /\ o \in connects => /\ records'[o].exists = records[o].exists
                                  /\ records'[o].height = height
                                  /\ records'[o].at = records[o].at
             /\ o \in batch /\ Recorded(o) =>
                  records'[o] = [exists |-> TRUE, height |-> height, at |-> Target[o]]
             /\ o \notin connects /\ ~(o \in batch /\ Recorded(o)) => records'[o] = records[o]
  <2>1. records[o] \in Records
    BY <1>3
  <2> QED
    BY <1>1, <2>1, RecordsUpserted DEF Records
<1>7. RecordsAgree'
  <2>1. ASSUME NEW o \in Outputs
        PROVE  /\ records'[o].at = Target[o]
               /\ ~records'[o].exists => records'[o].height = Unconfirmed
               /\ Recorded(o) => applied'[o] = IF records'[o].exists THEN 1 ELSE 0
               /\ ~Recorded(o) => ~records'[o].exists /\ applied'[o] >= 0
    <3>1. /\ records[o].at = Target[o]
          /\ ~records[o].exists => records[o].height = Unconfirmed
          /\ Recorded(o) => applied[o] = IF records[o].exists THEN 1 ELSE 0
          /\ ~Recorded(o) => ~records[o].exists /\ applied[o] >= 0
      BY DEF Agreement, RecordsAgree
    <3>2. CASE o \in connects
      BY <1>4, <1>5, <1>6, <3>1, <3>2
    <3>3. CASE o \in batch /\ Recorded(o)
      <4>1. records'[o] = [exists |-> TRUE, height |-> height, at |-> Target[o]]
        BY <1>6, <3>3
      <4>2. applied[o] = 0 /\ applied'[o] = 1
        BY <1>4, <1>5, <3>1, <3>3
      <4> QED
        BY <3>3, <4>1, <4>2
    <3>4. CASE o \notin connects /\ ~(o \in batch /\ Recorded(o))
      <4>1. records'[o] = records[o]
        BY <1>6, <3>4
      <4>2. IF o \in batch THEN ~Recorded(o) /\ applied'[o] = applied[o] + 1
            ELSE applied'[o] = applied[o]
        BY <1>5, <3>4
      <4> QED
        BY <1>5, <3>1, <4>1, <4>2
    <3> QED
      BY <3>2, <3>3, <3>4
  <2> QED
    BY <2>1 DEF RecordsAgree
<1>8. TransactionsWhole'
  <2>1. ASSUME NEW o \in Outputs, NEW x \in Outputs, TxOf[o] = TxOf[x]
        PROVE  /\ o \in mempool <=> x \in mempool
               /\ records'[o].exists = records'[x].exists
               /\ records'[o].height = records'[x].height
    <3>1. /\ o \in mempool <=> x \in mempool
          /\ o \in batch <=> x \in batch
          /\ o \in connects <=> x \in connects
          /\ records[o].exists = records[x].exists
          /\ records[o].height = records[x].height
      BY <2>1 DEF Agreement, TransactionsWhole
    <3>2. o = x \/ (Recorded(o) /\ Recorded(x))
      BY <2>1, SameTransaction
    <3>3. CASE o \in connects
      BY <1>6, <3>1, <3>3
    <3>4. CASE o \notin connects /\ o = x
      BY <3>4
    <3>5. CASE o \notin connects /\ Recorded(o) /\ Recorded(x) /\ o \in batch
      <4>1. /\ records'[o] = [exists |-> TRUE, height |-> height, at |-> Target[o]]
            /\ records'[x] = [exists |-> TRUE, height |-> height, at |-> Target[x]]
        BY <1>6, <3>1, <3>5
      <4> QED
        BY <3>1, <4>1
    <3>6. CASE o \notin connects /\ o \notin batch
      <4>1. records'[o] = records[o] /\ records'[x] = records[x]
        BY <1>6, <3>1, <3>6
      <4> QED
        BY <3>1, <4>1
    <3> QED
      BY <3>2, <3>3, <3>4, <3>5, <3>6
  <2> QED
    BY <1>2, <1>3, <2>1 DEF TransactionsWhole
<1>9. MempoolAgrees'
  <2>1. ASSUME NEW o \in mempool
        PROVE  applied'[o] >= 1 /\ records'[o].height = Unconfirmed
    <3>1. /\ IF o \in batch THEN height = Unconfirmed ELSE applied[o] >= 1
          /\ records[o].height = Unconfirmed
          /\ o \in Outputs
      BY <1>3 DEF Agreement, MempoolAgrees
    <3>2. o \notin connects
      BY <1>4
    <3>3. applied'[o] >= 1
      BY <1>5, <3>1
    <3>4. CASE o \in batch /\ Recorded(o)
      <4>1. records'[o] = [exists |-> TRUE, height |-> height, at |-> Target[o]]
        BY <1>6, <3>1, <3>4
      <4> QED
        BY <3>1, <3>3, <3>4, <4>1
    <3>5. CASE ~(o \in batch /\ Recorded(o))
      <4>1. records'[o] = records[o]
        BY <1>6, <3>1, <3>2, <3>5
      <4> QED
        BY <3>1, <3>3, <4>1
    <3> QED
      BY <3>4, <3>5
  <2> QED
    BY <1>2, <1>3, <2>1 DEF MempoolAgrees
<1>10. ASSUME NEW l \in Platforms, NEW p \in Profiles
       PROVE  /\ \A o \in MakingProfile(l, p) : applied'[o] >= 1 => profiles'[l][p].exists
              /\ profiles'[l][p].n = DueOf(applied', CountingForProfile(l, p))
  <2> DEFINE e == queue[p]
             row == profiles[l][p]
             now == profiles'[l][p]
             S == CountingForProfile(l, p)
  <2>1. /\ row.n = DueOf(applied, S) /\ DueOf(applied, S) \in Counters
        /\ \A o \in MakingProfile(l, p) : applied[o] >= 1 => row.exists
    BY <1>3, DueType DEF Agreement, RowsAgree
  <2>2. now = IF e.queued /\ e.platform = l
              THEN [exists |-> TRUE, n |-> Plus(row.n, e.n)] ELSE row
    BY <1>1 DEF ProfilesAfterUpsert
  <2>3. \A o \in batch : o \in MakingProfile(l, p) => e.queued /\ e.platform = l
    BY <1>1, ProfileEntriesSay
  <2>4. DueOf(applied', S) = Plus(DueOf(applied, S), Votes(batch \cap S))
    <3>1. /\ applied \in [Outputs -> Int] /\ applied' \in [Outputs -> Int]
          /\ \A o \in Outputs : applied'[o] = IF o \in batch THEN applied[o] + 1 ELSE applied[o]
      BY <1>3, <1>5
    <3>2. PICK a, b, D, T : a = applied /\ b = applied' /\ D = batch /\ T = S
      OBVIOUS
    <3> HIDE DEF S
    <3>3. OnceMore(a, b, D)
      BY ONLY <3>1, <3>2 DEF OnceMore
    <3>4. DueOf(b, T) = Plus(DueOf(a, T), Votes(D \cap T))
      BY ONLY <3>3, DueStep
    <3> QED
      BY ONLY <3>2, <3>4
  <2>5. Votes(batch \cap S) = IF e.queued /\ e.platform = l THEN e.n ELSE Zero
    BY <1>1, ProfileVotes
  <2>6. MakingProfile(l, p) \subseteq Outputs
    BY DEF MakingProfile, Outputs
  <2> HIDE DEF e, row, now, S
  <2>7. now.n = DueOf(applied', S)
    <3>1. Plus(DueOf(applied, S), Zero) = DueOf(applied, S)
      BY <2>1, MinusPlus, ZeroLemma
    <3> QED
      BY <2>1, <2>2, <2>4, <2>5, <3>1
  <2>8. ASSUME NEW o \in MakingProfile(l, p), applied'[o] >= 1 PROVE now.exists
    BY <1>5, <2>1, <2>2, <2>3, <2>6, <2>8
  <2> QED
    BY <2>7, <2>8 DEF now, S
<1>11. ASSUME NEW l \in Platforms, NEW p \in Profiles, NEW k \in Posts
       PROVE  /\ \A o \in MakingPost(l, p, k) : applied'[o] >= 1 => posts'[l][p][k].exists
              /\ posts'[l][p][k].n = DueOf(applied', CountingForPost(l, p, k))
  <2> DEFINE e == queuePosts[p][k]
             row == posts[l][p][k]
             now == posts'[l][p][k]
             S == CountingForPost(l, p, k)
  <2>1. /\ row.n = DueOf(applied, S) /\ DueOf(applied, S) \in Counters
        /\ \A o \in MakingPost(l, p, k) : applied[o] >= 1 => row.exists
    BY <1>3, DueType DEF Agreement, RowsAgree
  <2>2. now = IF e.queued /\ e.platform = l
              THEN [exists |-> TRUE, n |-> Plus(row.n, e.n),
                    hasData |-> row.hasData \/ e.hasData] ELSE row
    BY <1>1 DEF PostsAfterUpsert
  <2>3. \A o \in batch : o \in MakingPost(l, p, k) => e.queued /\ e.platform = l
    BY <1>1, PostEntriesSay
  <2>4. DueOf(applied', S) = Plus(DueOf(applied, S), Votes(batch \cap S))
    <3>1. /\ applied \in [Outputs -> Int] /\ applied' \in [Outputs -> Int]
          /\ \A o \in Outputs : applied'[o] = IF o \in batch THEN applied[o] + 1 ELSE applied[o]
      BY <1>3, <1>5
    <3>2. PICK a, b, D, T : a = applied /\ b = applied' /\ D = batch /\ T = S
      OBVIOUS
    <3> HIDE DEF S
    <3>3. OnceMore(a, b, D)
      BY ONLY <3>1, <3>2 DEF OnceMore
    <3>4. DueOf(b, T) = Plus(DueOf(a, T), Votes(D \cap T))
      BY ONLY <3>3, DueStep
    <3> QED
      BY ONLY <3>2, <3>4
  <2>5. Votes(batch \cap S) = IF e.queued /\ e.platform = l THEN e.n ELSE Zero
    BY <1>1, PostVotes
  <2>6. MakingPost(l, p, k) \subseteq Outputs
    BY DEF MakingPost, Outputs
  <2> HIDE DEF e, row, now, S
  <2>7. now.n = DueOf(applied', S)
    <3>1. Plus(DueOf(applied, S), Zero) = DueOf(applied, S)
      BY <2>1, MinusPlus, ZeroLemma
    <3> QED
      BY <2>1, <2>2, <2>4, <2>5, <3>1
  <2>8. ASSUME NEW o \in MakingPost(l, p, k), applied'[o] >= 1 PROVE now.exists
    BY <1>5, <2>1, <2>2, <2>3, <2>6, <2>8
  <2> QED
    BY <2>7, <2>8 DEF now, S
<1>12. RowsAgree'
  BY <1>10, <1>11 DEF RowsAgree
<1> QED
  BY <1>2, <1>7, <1>8, <1>9, <1>12 DEF Agreement

\* A rewind takes back what its batch had added.
LEMMA RewindAgreement ==
  ASSUME IInv, IInv', Agreement, Rewind
  PROVE  Agreement'
<1>1. /\ op = "rewind" /\ QueueIsFull /\ HandlerEnds /\ Queued = batch
      /\ profiles' = ProfilesAfterRewind /\ posts' = PostsAfterRewind
      /\ records' = RecordsAfterRewind
      /\ applied' = [o \in Outputs |-> IF o \in batch THEN applied[o] - 1 ELSE applied[o]]
  BY FullQueue DEF Rewind
<1>2. EntriesAgree' /\ CommentsHaveData' /\ BatchAgrees' /\ mempool' = mempool
  BY <1>1, EndsAgreement
<1>3. /\ batch \in SUBSET Outputs /\ mempool \in SUBSET Outputs
      /\ records \in [Outputs -> Records]
      /\ applied \in [Outputs -> Int] /\ applied' \in [Outputs -> Int]
      /\ batch' = {} /\ connects' = {} /\ op' = "idle"
  BY <1>1, TypesLemma DEF HandlerEnds
<1>4. connects = {} /\ \A o \in batch : applied[o] >= 1 /\ o \notin mempool
  BY <1>1 DEF Agreement, BatchAgrees
<1>5. ASSUME NEW o \in Outputs
      PROVE  /\ applied'[o] = IF o \in batch THEN applied[o] - 1 ELSE applied[o]
             /\ applied[o] = IF o \in batch THEN applied'[o] + 1 ELSE applied'[o]
             /\ applied[o] \in Int /\ applied'[o] \in Int /\ applied'[o] <= applied[o]
  BY <1>1, <1>3
<1>6. ASSUME NEW o \in Outputs
      PROVE  records'[o] = IF records[o].exists /\ o \in batch THEN NoRecord(o)
                           ELSE records[o]
  BY <1>1, RecordsRewound
<1>7. RecordsAgree'
  <2>1. ASSUME NEW o \in Outputs
        PROVE  /\ records'[o].at = Target[o]
               /\ ~records'[o].exists => records'[o].height = Unconfirmed
               /\ Recorded(o) => applied'[o] = IF records'[o].exists THEN 1 ELSE 0
               /\ ~Recorded(o) => ~records'[o].exists /\ applied'[o] >= 0
    <3>1. /\ records[o].at = Target[o]
          /\ ~records[o].exists => records[o].height = Unconfirmed
          /\ Recorded(o) => applied[o] = IF records[o].exists THEN 1 ELSE 0
          /\ ~Recorded(o) => ~records[o].exists /\ applied[o] >= 0
      BY DEF Agreement, RecordsAgree
    <3>2. CASE o \in batch /\ Recorded(o)
      <4>1. applied[o] = 1 /\ records[o].exists /\ applied'[o] = 0
        BY <1>4, <1>5, <3>1, <3>2
      <4>2. records'[o] = NoRecord(o)
        BY <1>6, <3>2, <4>1
      <4> QED
        BY <3>2, <4>1, <4>2 DEF NoRecord
    <3>3. CASE o \in batch /\ ~Recorded(o)
      <4>1. records'[o] = records[o]
        BY <1>6, <3>1, <3>3
      <4>2. applied'[o] >= 0
        BY <1>4, <1>5, <3>3
      <4> QED
        BY <3>1, <3>3, <4>1, <4>2
    <3>4. CASE o \notin batch
      <4>1. records'[o] = records[o] /\ applied'[o] = applied[o]
        BY <1>5, <1>6, <3>4
      <4> QED
        BY <3>1, <4>1
    <3> QED
      BY <3>2, <3>3, <3>4
  <2> QED
    BY <2>1 DEF RecordsAgree
<1>8. TransactionsWhole'
  <2>1. ASSUME NEW o \in Outputs, NEW x \in Outputs, TxOf[o] = TxOf[x]
        PROVE  /\ o \in mempool <=> x \in mempool
               /\ records'[o].exists = records'[x].exists
               /\ records'[o].height = records'[x].height
    <3>1. /\ o \in mempool <=> x \in mempool
          /\ o \in batch <=> x \in batch
          /\ records[o].exists = records[x].exists
          /\ records[o].height = records[x].height
      BY <2>1 DEF Agreement, TransactionsWhole
    <3>2. CASE records[o].exists /\ o \in batch
      <4>1. records'[o] = NoRecord(o) /\ records'[x] = NoRecord(x)
        BY <1>6, <3>1, <3>2
      <4> QED
        BY <3>1, <4>1 DEF NoRecord
    <3>3. CASE ~(records[o].exists /\ o \in batch)
      <4>1. records'[o] = records[o] /\ records'[x] = records[x]
        BY <1>6, <3>1, <3>3
      <4> QED
        BY <3>1, <4>1
    <3> QED
      BY <3>2, <3>3
  <2> QED
    BY <1>2, <1>3, <2>1 DEF TransactionsWhole
<1>9. MempoolAgrees'
  <2>1. ASSUME NEW o \in mempool
        PROVE  applied'[o] >= 1 /\ records'[o].height = Unconfirmed
    <3>1. o \in Outputs /\ o \notin batch
      BY <1>3, <1>4
    <3>2. applied[o] >= 1 /\ records[o].height = Unconfirmed
      BY <3>1 DEF Agreement, MempoolAgrees
    <3> QED
      BY <1>5, <1>6, <3>1, <3>2
  <2> QED
    BY <1>2, <1>3, <2>1 DEF MempoolAgrees
<1>10. ASSUME NEW S \in SUBSET Outputs
       PROVE  /\ DueOf(applied, S) = Plus(DueOf(applied', S), Votes(batch \cap S))
              /\ DueOf(applied', S) \in Counters
  <2>1. PICK a, b, D : a = applied' /\ b = applied /\ D = batch
    OBVIOUS
  <2>2. /\ \A o \in Outputs : applied[o] = IF o \in batch THEN applied'[o] + 1
                                           ELSE applied'[o]
        /\ applied \in [Outputs -> Int] /\ applied' \in [Outputs -> Int]
    BY <1>3, <1>5
  <2>3. OnceMore(a, b, D)
    BY ONLY <2>1, <2>2 DEF OnceMore
  <2>4. a \in [Outputs -> Int]
    BY ONLY <2>1, <2>2
  <2>5. DueOf(b, S) = Plus(DueOf(a, S), Votes(D \cap S)) /\ DueOf(a, S) \in Counters
    BY ONLY <2>3, <2>4, DueStep, DueType
  <2> QED
    BY ONLY <2>1, <2>5
<1>11. ASSUME NEW l \in Platforms, NEW p \in Profiles
       PROVE  /\ \A o \in MakingProfile(l, p) : applied'[o] >= 1 => profiles'[l][p].exists
              /\ profiles'[l][p].n = DueOf(applied', CountingForProfile(l, p))
  <2> DEFINE e == queue[p]
             row == profiles[l][p]
             now == profiles'[l][p]
             S == CountingForProfile(l, p)
  <2>1. /\ row.n = DueOf(applied, S) /\ row \in ProfileRows
        /\ \A o \in MakingProfile(l, p) : applied[o] >= 1 => row.exists
    BY DEF Agreement, RowsAgree, IInv, TypeOK
  <2>2. now = IF e.queued /\ e.platform = l THEN [row EXCEPT !.n = Minus(@, e.n)] ELSE row
    BY <1>1 DEF ProfilesAfterRewind
  <2>3. /\ DueOf(applied, S) = Plus(DueOf(applied', S), Votes(batch \cap S))
        /\ DueOf(applied', S) \in Counters
    <3>1. S \in SUBSET Outputs
      BY DEF CountingForProfile, Outputs
    <3> HIDE DEF S
    <3> QED
      BY <1>10, <3>1
  <2>4. Votes(batch \cap S) = IF e.queued /\ e.platform = l THEN e.n ELSE Zero
    BY <1>1, ProfileVotes
  <2>5. MakingProfile(l, p) \subseteq Outputs /\ e.n \in Counters
    <3>1. e \in Entries
      BY ProfileEntriesSay
    <3> QED
      BY <3>1 DEF MakingProfile, Outputs, Entries
  <2> HIDE DEF e, row, now, S
  <2>6. now.n = DueOf(applied', S)
    <3>1. CASE e.queued /\ e.platform = l
      <4>1. Votes(batch \cap S) = e.n /\ now.n = Minus(row.n, e.n)
        BY <2>1, <2>2, <2>4, <3>1 DEF ProfileRows
      <4> QED
        BY <2>1, <2>3, <2>5, <4>1, MinusPlus
    <3>2. CASE ~(e.queued /\ e.platform = l)
      <4>1. Votes(batch \cap S) = Zero /\ now = row
        BY <2>2, <2>4, <3>2
      <4> QED
        BY <2>1, <2>3, <4>1, MinusPlus, ZeroLemma
    <3> QED
      BY <3>1, <3>2
  <2>7. ASSUME NEW o \in MakingProfile(l, p), applied'[o] >= 1 PROVE now.exists
    <3>1. row.exists
      BY <1>5, <2>1, <2>5, <2>7
    <3> QED
      BY <2>1, <2>2, <3>1 DEF ProfileRows
  <2> QED
    BY <2>6, <2>7 DEF now, S
<1>12. ASSUME NEW l \in Platforms, NEW p \in Profiles, NEW k \in Posts
       PROVE  /\ \A o \in MakingPost(l, p, k) : applied'[o] >= 1 => posts'[l][p][k].exists
              /\ posts'[l][p][k].n = DueOf(applied', CountingForPost(l, p, k))
  <2> DEFINE e == queuePosts[p][k]
             row == posts[l][p][k]
             now == posts'[l][p][k]
             S == CountingForPost(l, p, k)
  <2>1. /\ row.n = DueOf(applied, S) /\ row \in PostRows
        /\ \A o \in MakingPost(l, p, k) : applied[o] >= 1 => row.exists
    BY DEF Agreement, RowsAgree, IInv, TypeOK
  <2>2. now = IF e.queued /\ e.platform = l THEN [row EXCEPT !.n = Minus(@, e.n)] ELSE row
    BY <1>1 DEF PostsAfterRewind
  <2>3. /\ DueOf(applied, S) = Plus(DueOf(applied', S), Votes(batch \cap S))
        /\ DueOf(applied', S) \in Counters
    <3>1. S \in SUBSET Outputs
      BY DEF CountingForPost, Outputs
    <3> HIDE DEF S
    <3> QED
      BY <1>10, <3>1
  <2>4. Votes(batch \cap S) = IF e.queued /\ e.platform = l THEN e.n ELSE Zero
    BY <1>1, PostVotes
  <2>5. MakingPost(l, p, k) \subseteq Outputs /\ e.n \in Counters
    <3>1. e \in Entries
      BY PostEntriesSay
    <3> QED
      BY <3>1 DEF MakingPost, Outputs, Entries
  <2> HIDE DEF e, row, now, S
  <2>6. now.n = DueOf(applied', S)
    <3>1. CASE e.queued /\ e.platform = l
      <4>1. Votes(batch \cap S) = e.n /\ now.n = Minus(row.n, e.n)
        BY <2>1, <2>2, <2>4, <3>1 DEF PostRows
      <4> QED
        BY <2>1, <2>3, <2>5, <4>1, MinusPlus
    <3>2. CASE ~(e.queued /\ e.platform = l)
      <4>1. Votes(batch \cap S) = Zero /\ now = row
        BY <2>2, <2>4, <3>2
      <4> QED
        BY <2>1, <2>3, <4>1, MinusPlus, ZeroLemma
    <3> QED
      BY <3>1, <3>2
  <2>7. ASSUME NEW o \in MakingPost(l, p, k), applied'[o] >= 1 PROVE now.exists
    <3>1. row.exists
      BY <1>5, <2>1, <2>5, <2>7
    <3> QED
      BY <2>1, <2>2, <3>1 DEF PostRows
  <2> QED
    BY <2>6, <2>7 DEF now, S
<1>13. RowsAgree'
  BY <1>11, <1>12 DEF RowsAgree
<1> QED
  BY <1>2, <1>7, <1>8, <1>9, <1>13 DEF Agreement

-----------------------------------------------------------------------------
(* The theorems about the tables. *)

\* No step loses the agreement, unless it mixes platforms in the queue: what a
\* queue of two platforms writes is not what its outputs name.
LEMMA AgreementStep ==
  ASSUME IInv, IInv', AInv, [Next]_vars
  PROVE  AInv'
<1>1. SUFFICES ASSUME ~mixed' PROVE Agreement'
  BY DEF AInv
<1>2. CASE Handler
  <2>1. mixed' = mixed
    BY <1>2 DEF Handler, AddsUnconfirmed, BlockConnected, MempoolTxRemove, RewindBlock,
                Cleanup, StartsBatch
  <2> QED
    BY <1>1, <1>2, <2>1, HandlerAgreement DEF AInv
<1>3. ASSUME NEW r \in Ranks, QueueRank(r) PROVE Agreement'
  <2>1. ~mixed
    BY <1>1, <1>3 DEF QueueRank
  <2> QED
    BY <1>1, <1>3, <2>1, QueueRankAgreement DEF AInv
<1>4. ASSUME NEW c \in Comments, QueueComment(c) PROVE Agreement'
  <2>1. ~mixed
    BY <1>1, <1>4 DEF QueueComment
  <2> QED
    BY <1>1, <1>4, <2>1, QueueCommentAgreement DEF AInv
<1>5. CASE Upsert
  <2>1. mixed' = mixed
    BY <1>5 DEF Upsert, HandlerEnds
  <2> QED
    BY <1>1, <1>5, <2>1, UpsertAgreement DEF AInv
<1>6. CASE Rewind
  <2>1. mixed' = mixed
    BY <1>6 DEF Rewind, HandlerEnds
  <2> QED
    BY <1>1, <1>6, <2>1, RewindAgreement DEF AInv
<1>7. CASE StatementFails
  <2>1. mixed' = mixed
    BY <1>7 DEF StatementFails
  <2>2. Agreement
    BY <1>1, <2>1 DEF AInv
  <2> QED
    BY <1>7, <2>2, CanUpsertLemma, CanRewindLemma DEF StatementFails
<1>8. CASE Restart
  <2>1. mixed' = mixed
    BY <1>8 DEF Restart
  <2> QED
    BY <1>1, <1>8, <2>1, RestartAgreement DEF AInv
<1>9. CASE UNCHANGED vars
  <2>1. mixed' = mixed
    BY <1>9 DEF vars
  <2> QED
    BY <1>1, <1>9, <2>1, StutterAgreement DEF AInv
<1> QED
  BY <1>2, <1>3, <1>4, <1>5, <1>6, <1>7, <1>8, <1>9 DEF Next, QueueStep

\* As long as no queue held two platforms under one id, the queue, the mempool,
\* the records and the rows agree in every reachable state.
THEOREM AgreementInvariance == Spec => []AInv
<1>1. Init => AInv
  BY InitAgreement DEF AInv
<1>2. IInv /\ IInv' /\ AInv /\ [Next]_vars => AInv'
  BY AgreementStep
<1> QED
  BY <1>1, <1>2, Invariance, PTL DEF Spec

\* Then no database transaction of a handler fails: every row that a statement
\* increments, decrements or refers to is there, whatever the handlers were and
\* wherever the process was restarted.
THEOREM StatementsNeverFail == Spec => []StatementsSucceed
<1>1. AInv => StatementsSucceed
  BY DEF AInv, Agreement, BatchAgrees, StatementsSucceed
<1> QED
  BY <1>1, AgreementInvariance, PTL

\* And an output has a record exactly when it counts, once, under the profile
\* and post it names.
THEOREM RecordsAlwaysMatch == Spec => []RecordsMatchOutputs
<1>1. AInv => RecordsMatchOutputs
  BY DEF AInv, Agreement, RecordsAgree, RecordsMatchOutputs
<1> QED
  BY <1>1, AgreementInvariance, PTL

\* And the counters of every profile and post are the sums over the outputs
\* that were added and not taken back, however they shared a queue.
THEOREM CountersAlwaysMatch == Spec => []CountersMatchOutputs
<1>1. \A S : Due(S) = DueOf(applied, S)
  BY DEF Due, DueOf
<1>2. AInv => CountersMatchOutputs
  <2> SUFFICES ASSUME AInv, ~mixed PROVE CountersMatchOutputs
    BY DEF CountersMatchOutputs
  <2>1. RowsAgree
    BY DEF AInv, Agreement
  <2> QED
    BY <1>1, <2>1 DEF RowsAgree, CountersMatchOutputs
<1> QED
  BY <1>2, AgreementInvariance, PTL

=============================================================================
