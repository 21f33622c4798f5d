----------------------------- MODULE Engagement -----------------------------
(***************************************************************************)
(* The row of WalletEngagement of one wallet (src/lib/database.ts,         *)
(* src/lib/engagement.ts).  Rows of different wallets do not touch each    *)
(* other.                                                                  *)
(*                                                                         *)
(* Three writers read the row, compute, and write it back some time later: *)
(* the handler of a vote, which awaits its update; the update for a        *)
(* comment, which nobody awaits; and the backfill script, in a process of  *)
(* its own.  What is computed after a read is computed at once: of time,   *)
(* only the day matters.  The points and the tier are functions of the     *)
(* counters and left out, with the referrals, which only the script knows. *)
(***************************************************************************)
EXTENDS Naturals, FiniteSets

\* A definition named X_Mutant is a wrong version of X, a bug that a property
\* must reject.  Nothing uses it.

CONSTANTS
  VoteTxs,       \* transactions of the wallet with RANK outputs
  CommentTxs,    \* transactions of the wallet with a comment
  Outputs,       \* number of RANK outputs of each vote
  Sats,          \* what each transaction burns
  MaxDay,        \* bounds on days,
  MaxAdded,      \* messages mempooltxadd,
  MaxBackfills,  \* runs of the script,
  MaxFailures    \* failed statements and crashes

ASSUME ConstantsAssumption ==
  /\ VoteTxs \cap CommentTxs = {}
  /\ Outputs \in [VoteTxs -> Nat \ {0}]
  /\ Sats \in [VoteTxs \cup CommentTxs -> Nat]
  /\ IsFiniteSet(VoteTxs \cup CommentTxs)
  /\ {MaxDay, MaxAdded, MaxBackfills, MaxFailures} \subseteq Nat

Txs == VoteTxs \cup CommentTxs
Days == Nat \ {0}
Never == 0   \* a date that is null

VARIABLES
  today,      \* the day, in UTC
  stored,     \* transactions with a record in RankTransaction or RankComment
  timestamp,  \* the day of the record's timestamp; null until confirmed
  row,        \* WalletEngagement of the wallet; a missing row reads as a new one
  handler,    \* nngMempoolTxAdd
  updates,    \* the updates for comments, not awaited
  script,     \* the backfill script
  added, backfills, failures,   \* counters for the bounds
  counted, voteDays   \* history: what the updates of votes have written, that
                      \* is, the outputs and sats counted, and their days

recordVars == <<stored, timestamp>>
rowVars == <<row, counted, voteDays>>
boundVars == <<added, backfills, failures>>
vars == <<today, recordVars, rowVars, handler, updates, script, boundVars>>

NewRow == [lifetimeVotes |-> 0, lifetimeComments |-> 0, totalBurnedSats |-> 0,
           currentStreak |-> 0, longestStreak |-> 0, lastVoteDate |-> Never]

Idle == [step |-> "idle"]

\* Math.max (mutant: always the first argument).
Larger_Mutant(m, n) == m
Larger(m, n) == IF m >= n THEN m ELSE n

\* A vote extends the streak the day after the last one (mutant: whenever
\* there was one), and starts another when a day was missed.
StreakAfterVote_Mutant(old, day) ==
  IF old.lastVoteDate = Never THEN 1
  ELSE IF day = old.lastVoteDate THEN old.currentStreak
  ELSE old.currentStreak + 1
StreakAfterVote(old, day) ==
  IF old.lastVoteDate = Never THEN 1
  ELSE IF day = old.lastVoteDate THEN old.currentStreak
  ELSE IF day = old.lastVoteDate + 1 THEN old.currentStreak + 1
  ELSE 1

\* The length of the run of days without a gap that ends with a day.
RunTo(last, dates) == Cardinality({d \in dates : d <= last /\ d..last \subseteq dates})

Latest(dates) == CHOOSE d \in dates : \A e \in dates : e <= d

\* computeStreakFromDates: the latest run, if it ended yesterday or later.
StreakFromDates(dates, day) ==
  IF dates = {} \/ Latest(dates) + 1 < day THEN 0 ELSE RunTo(Latest(dates), dates)

\* What the updates compute.
VoteUpdate(r, tx, day) ==
  LET streak == StreakAfterVote(r, day) IN
    [r EXCEPT !.lifetimeVotes = @ + Outputs[tx], !.totalBurnedSats = @ + Sats[tx],
              !.currentStreak = streak, !.longestStreak = Larger(streak, @),
              !.lastVoteDate = day]
CommentUpdate(r, tx) ==
  [r EXCEPT !.lifetimeComments = @ + 1, !.totalBurnedSats = @ + Sats[tx]]

\* The columns that an update of a vote, or of a comment, sets (mutant: it
\* sets all of them).
WithVote(r, u) ==
  [r EXCEPT !.lifetimeVotes = u.lifetimeVotes, !.totalBurnedSats = u.totalBurnedSats,
            !.currentStreak = u.currentStreak, !.longestStreak = u.longestStreak,
            !.lastVoteDate = u.lastVoteDate]
WithComment_Mutant(r, u) == u
WithComment(r, u) ==
  [r EXCEPT !.lifetimeComments = u.lifetimeComments, !.totalBurnedSats = u.totalBurnedSats]

-----------------------------------------------------------------------------
(* The indexer: engagement is counted when a transaction enters the mempool, *)
(* and at no other time.                                                     *)

\* The records are committed, then the vote is counted; a comment is left to
\* an update of its own, of which there is one at a time per transaction.
MempoolTxAdd(tx) ==
  /\ handler = Idle
  /\ tx \notin stored
  /\ added < MaxAdded
  /\ added' = added + 1
  /\ stored' = stored \cup {tx}
  /\ \/ /\ tx \in VoteTxs
        /\ handler' = [step |-> "read", tx |-> tx]
        /\ UNCHANGED updates
     \/ /\ tx \in CommentTxs
        /\ updates[tx] = Idle
        /\ updates' = [updates EXCEPT ![tx] = [step |-> "read"]]
        /\ UNCHANGED handler
  /\ UNCHANGED <<today, timestamp, rowVars, script, backfills, failures>>

\* incrementWalletEngagementForVote, up to its await.
VoteReads ==
  /\ handler.step = "read"
  /\ handler' = [step |-> "write", tx |-> handler.tx,
                 update |-> VoteUpdate(row, handler.tx, today)]
  /\ UNCHANGED <<today, recordVars, rowVars, updates, script, boundVars>>

VoteWrites ==
  /\ handler.step = "write"
  /\ row' = WithVote(row, handler.update)
  /\ counted' = [outputs |-> counted.outputs + Outputs[handler.tx],
                 sats |-> counted.sats + Sats[handler.tx]]
  /\ voteDays' = voteDays \cup {handler.update.lastVoteDate}
  /\ handler' = Idle
  /\ UNCHANGED <<today, recordVars, updates, script, boundVars>>

\* incrementWalletEngagementForComment
CommentReads(tx) ==
  /\ updates[tx].step = "read"
  /\ updates' = [updates EXCEPT ![tx] = [step |-> "write", update |-> CommentUpdate(row, tx)]]
  /\ UNCHANGED <<today, recordVars, rowVars, handler, script, boundVars>>

CommentWrites(tx) ==
  /\ updates[tx].step = "write"
  /\ row' = WithComment(row, updates[tx].update)
  /\ updates' = [updates EXCEPT ![tx] = Idle]
  /\ UNCHANGED <<today, recordVars, counted, voteDays, handler, script, boundVars>>

\* A failed statement is logged, and its update is lost.
UpdateFails ==
  /\ failures < MaxFailures
  /\ failures' = failures + 1
  /\ \/ /\ handler # Idle
        /\ handler' = Idle
        /\ UNCHANGED updates
     \/ \E tx \in CommentTxs :
          /\ updates[tx] # Idle
          /\ updates' = [updates EXCEPT ![tx] = Idle]
          /\ UNCHANGED handler
  /\ UNCHANGED <<today, recordVars, rowVars, script, added, backfills>>

\* A block confirms records, or brings ones that were not in the mempool; its
\* timestamp may be a day off.
BlockConnected(S, day) ==
  /\ handler = Idle
  /\ \A tx \in S : timestamp[tx] = Never
  /\ day <= today + 1 /\ today <= day + 1
  /\ stored' = stored \cup S
  /\ timestamp' = [tx \in Txs |-> IF tx \in S THEN day ELSE timestamp[tx]]
  /\ UNCHANGED <<today, rowVars, handler, updates, script, boundVars>>

\* Records leave the mempool, or are rewound with their block.
RecordsLeave(S) ==
  /\ handler = Idle
  /\ S \subseteq stored
  /\ stored' = stored \ S
  /\ timestamp' = [tx \in Txs |-> IF tx \in S THEN Never ELSE timestamp[tx]]
  /\ UNCHANGED <<today, rowVars, handler, updates, script, boundVars>>

\* The process ends, and starts again: init() takes the unconfirmed records
\* away, and inserts those of the mempool, S, without counting them.
Restart(S) ==
  /\ failures < MaxFailures
  /\ failures' = failures + 1
  /\ \A tx \in S : timestamp[tx] = Never
  /\ stored' = S \cup {tx \in stored : timestamp[tx] # Never}
  /\ handler' = Idle
  /\ updates' = [tx \in CommentTxs |-> Idle]
  /\ UNCHANGED <<today, timestamp, rowVars, script, added, backfills>>

-----------------------------------------------------------------------------
(* The backfill script.  Its queries run in parallel; those that no property *)
(* tells apart are one.                                                      *)

Queries == {"records", "existing"}

BackfillStarts ==
  /\ script = Idle
  /\ backfills < MaxBackfills
  /\ backfills' = backfills + 1
  /\ stored \cap VoteTxs # {}
  /\ script' = [step |-> "query", pending |-> Queries, found |-> NewRow, dates |-> {}]
  /\ UNCHANGED <<today, recordVars, rowVars, handler, updates, added, failures>>

\* Unconfirmed votes count, but have no date.
VotesFound == stored \cap VoteTxs
Total(amount, S) == Cardinality(UNION {{tx} \X (1..amount[tx]) : tx \in S})
DatesFound == {timestamp[tx] : tx \in VotesFound} \ {Never}

BackfillQuery(query) ==
  /\ script.step = "query"
  /\ query \in script.pending
  /\ script' =
       LET rest == [script EXCEPT !.pending = @ \ {query}] IN
       CASE query = "records" ->
              [rest EXCEPT !.found.lifetimeVotes = Total(Outputs, VotesFound),
                           !.found.lifetimeComments = Cardinality(stored \cap CommentTxs),
                           !.found.totalBurnedSats = Total(Sats, VotesFound),
                           !.dates = DatesFound]
         [] query = "existing" -> [rest EXCEPT !.found.longestStreak = row.longestStreak]
  /\ UNCHANGED <<today, recordVars, rowVars, handler, updates, boundVars>>

\* The longest streak after a backfill (mutant: the one there was).
BackfilledLongest_Mutant(streak, longest) == longest
BackfilledLongest(streak, longest) == Larger(streak, longest)

BackfillWrites ==
  /\ script.step = "query"
  /\ script.pending = {}
  /\ \E last \in script.dates \cup {Never} :
       LET streak == StreakFromDates(script.dates, today) IN
       /\ \A d \in script.dates : d <= last
       /\ row' = [script.found EXCEPT !.currentStreak = streak,
                                      !.longestStreak = BackfilledLongest(streak, @),
                                      !.lastVoteDate = last]
  /\ script' = [step |-> "reset"]
  /\ UNCHANGED <<today, recordVars, counted, voteDays, handler, updates, boundVars>>

\* A streak that is reset.
StreakAfterReset(streak) == 0

\* resetBrokenStreaks with a cutoff 48 hours ago: the time of the day decides
\* for a vote of two days ago.
BackfillResets ==
  /\ script.step = "reset"
  /\ script' = Idle
  /\ \/ /\ row.lastVoteDate # Never /\ row.lastVoteDate + 2 <= today
        /\ row' = [row EXCEPT !.currentStreak = StreakAfterReset(@)]
     \/ /\ row.lastVoteDate # Never => row.lastVoteDate + 2 >= today
        /\ UNCHANGED row
  /\ UNCHANGED <<today, recordVars, counted, voteDays, handler, updates, boundVars>>

\* A failure while the wallet is computed is logged, and the script goes on.
BackfillFails ==
  /\ failures < MaxFailures
  /\ failures' = failures + 1
  /\ script.step = "query"
  /\ script' = [step |-> "reset"]
  /\ UNCHANGED <<today, recordVars, rowVars, handler, updates, added, backfills>>

-----------------------------------------------------------------------------

NextDay ==
  /\ today < MaxDay
  /\ today' = today + 1
  /\ UNCHANGED <<recordVars, rowVars, handler, updates, script, boundVars>>

Init ==
  /\ today = 1
  /\ stored = {}
  /\ timestamp = [tx \in Txs |-> Never]
  /\ row = NewRow
  /\ handler = Idle
  /\ updates = [tx \in CommentTxs |-> Idle]
  /\ script = Idle
  /\ added = 0 /\ backfills = 0 /\ failures = 0
  /\ counted = [outputs |-> 0, sats |-> 0] /\ voteDays = {}

IndexerStep ==
  \/ \E tx \in Txs : MempoolTxAdd(tx)
  \/ VoteReads \/ VoteWrites
  \/ \E tx \in CommentTxs : CommentReads(tx) \/ CommentWrites(tx)
  \/ UpdateFails
  \/ \E S \in SUBSET Txs, day \in 1..MaxDay : BlockConnected(S, day)
  \/ \E S \in SUBSET Txs : RecordsLeave(S) \/ Restart(S)

ScriptStep ==
  \/ BackfillStarts
  \/ \E query \in Queries : BackfillQuery(query)
  \/ BackfillWrites \/ BackfillResets \/ BackfillFails

Next == NextDay \/ IndexerStep \/ ScriptStep

Spec == Init /\ [][Next]_vars

-----------------------------------------------------------------------------
(* Properties *)

RowType ==
  [lifetimeVotes : Nat, lifetimeComments : Nat, totalBurnedSats : Nat,
   currentStreak : Nat, longestStreak : Nat, lastVoteDate : Nat]

HandlerType ==
  {Idle} \cup [step : {"read"}, tx : VoteTxs]
         \cup [step : {"write"}, tx : VoteTxs, update : RowType]

UpdateType == {Idle} \cup [step : {"read"}] \cup [step : {"write"}, update : RowType]

ScriptType ==
  {Idle, [step |-> "reset"]}
    \cup [step : {"query"}, pending : SUBSET Queries, found : RowType, dates : SUBSET Days]

TypeOK ==
  /\ today \in Days
  /\ stored \in SUBSET Txs
  /\ timestamp \in [Txs -> Nat]
  /\ row \in RowType
  /\ handler \in HandlerType
  /\ updates \in [CommentTxs -> UpdateType]
  /\ script \in ScriptType
  /\ added \in Nat /\ backfills \in Nat /\ failures \in Nat
  /\ counted \in [outputs : Nat, sats : Nat]
  /\ voteDays \in SUBSET Days

\* No interleaving of the three writers leaves a streak that is longer than
\* the longest one.
StreakWithinLongest == row.currentStreak <= row.longestStreak

\* Updates for comments that overlap the updates for votes lose none of the
\* votes, nor do crashes; only the script does.
VotesAreKept == backfills = 0 => row.lifetimeVotes = counted.outputs

\* Day by day the streak is what the script would compute from the days of
\* the counted votes, for a row the script has not touched: the two ways to
\* compute a streak agree, over gaps and idle days.
StreakAgrees ==
  backfills = 0 =>
    StreakFromDates(voteDays, today) =
      IF row.lastVoteDate + 1 >= today THEN row.currentStreak ELSE 0

\* The longest streak is the longest run of days that votes were counted for,
\* while the script has not touched the row.
LongestAgrees ==
  backfills = 0 =>
    /\ \A d \in voteDays : RunTo(d, voteDays) <= row.longestStreak
    /\ voteDays # {} => \E d \in voteDays : RunTo(d, voteDays) = row.longestStreak

-----------------------------------------------------------------------------
(* What a comment of the repository says. *)

\* src/schema.prisma:298 "Running total of sats burned across all RANK
\* transactions": it contains the votes that were counted, once no update is
\* in progress, for a row the script has not touched.
BurnedContainsVotes ==
  backfills = 0 /\ handler = Idle /\ (\A tx \in CommentTxs : updates[tx] = Idle) =>
    row.totalBurnedSats >= counted.sats

=============================================================================
