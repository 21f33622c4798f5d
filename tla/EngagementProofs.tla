-------------------------- MODULE EngagementProofs --------------------------
(***************************************************************************)
(* The engagement of a wallet, for any transactions, days, failures and    *)
(* runs of the script: IInv is inductive.  The streak and the longest      *)
(* streak hold whatever the script does; the rest is about rows that it    *)
(* has not touched, and rests on UpdateIsCurrent: an update of a vote is   *)
(* still right when it is written, because updates for comments leave the  *)
(* columns of votes alone.                                                 *)
(***************************************************************************)
EXTENDS Engagement, FiniteSetTheorems, TLAPS

\* The streak that is about to be written is not longer than the longest.
UpdateWithinLongest ==
  handler.step = "write" => handler.update.currentStreak <= handler.update.longestStreak

\* It is written with the day it was read at.
UpdateDated == handler.step = "write" => handler.update.lastVoteDate \in Days

\* The script has touched no row before its first run.
ScriptHasRun == backfills = 0 => script = Idle

\* What is about to be written is computed from the row as it is.
UpdateIsCurrent ==
  backfills = 0 /\ handler.step = "write" =>
    /\ handler.update.lifetimeVotes = row.lifetimeVotes + Outputs[handler.tx]
    /\ handler.update.currentStreak = StreakAfterVote(row, handler.update.lastVoteDate)
    /\ row.lastVoteDate <= handler.update.lastVoteDate
    /\ handler.update.lastVoteDate <= today

\* The row knows the last of the counted days, and the run that it ends.
DaysAreCounted ==
  backfills = 0 =>
    /\ voteDays \subseteq 1..row.lastVoteDate
    /\ row.lastVoteDate <= today
    /\ row.lastVoteDate = Never => row.currentStreak = 0
    /\ row.lastVoteDate # Never => /\ row.lastVoteDate \in voteDays
                                   /\ row.currentStreak = RunTo(row.lastVoteDate, voteDays)

IInv ==
  /\ TypeOK
  /\ StreakWithinLongest
  /\ UpdateWithinLongest
  /\ UpdateDated
  /\ ScriptHasRun
  /\ VotesAreKept
  /\ UpdateIsCurrent
  /\ DaysAreCounted

-----------------------------------------------------------------------------
(* Runs of days.                                                           *)

\* A run is as long as a number.
LEMMA RunType ==
  ASSUME NEW D \in SUBSET Nat, IsFiniteSet(D), NEW last \in Nat
  PROVE  RunTo(last, D) \in Nat
  BY FS_Subset, FS_CardinalityType DEF RunTo

\* The day after extends the run by one.
LEMMA RunExtended ==
  ASSUME NEW last \in Nat \ {0}, NEW D \in SUBSET (1..last), last \in D
  PROVE  RunTo(last + 1, D \cup {last + 1}) = RunTo(last, D) + 1
<1> DEFINE R == {d \in D : d <= last /\ d..last \subseteq D}
           E == D \cup {last + 1}
           L == {d \in E : d <= last + 1 /\ d..(last + 1) \subseteq E}
<1>1. \A d \in D : d \in L <=> d \in R
  <2>1. TAKE d \in D
  <2>2. d \in Nat /\ d <= last /\ d..(last + 1) = (d..last) \cup {last + 1}
    OBVIOUS
  <2>3. last + 1 \notin d..last
    BY <2>2
  <2>4. d..(last + 1) \subseteq E <=> d..last \subseteq D
    BY <2>2, <2>3
  <2> QED BY <2>2, <2>4
<1>2. last + 1 \in L
  <2>1. (last + 1)..(last + 1) = {last + 1}
    OBVIOUS
  <2> QED BY <2>1
<1>3. R \subseteq D /\ L \subseteq D \cup {last + 1}
  OBVIOUS
<1>4. last + 1 \notin D /\ IsFiniteSet(1..last)
  <2>1. last + 1 \notin D
    OBVIOUS
  <2> QED BY <2>1, FS_Interval
<1>5. RunTo(last, D) = Cardinality(R) /\ RunTo(last + 1, E) = Cardinality(L)
  BY DEF RunTo
<1> HIDE DEF R, L
<1>6. L = R \cup {last + 1}
  BY <1>1, <1>2, <1>3
<1>7. IsFiniteSet(R) /\ last + 1 \notin R
  <2>1. R \in SUBSET (1..last)
    BY <1>3
  <2>2. IsFiniteSet(R)
    BY <1>4, <2>1, FS_Subset
  <2> QED BY <1>3, <1>4, <2>2
<1> QED BY <1>5, <1>6, <1>7, FS_AddElement

\* After a day that was missed the run starts again.
LEMMA RunRestarted ==
  ASSUME NEW last \in Nat, NEW D \in SUBSET (1..last),
         NEW day \in Nat \ {0}, last + 1 < day \/ D = {}, last < day
  PROVE  RunTo(day, D \cup {day}) = 1
<1> DEFINE E == D \cup {day}
           L == {d \in E : d <= day /\ d..day \subseteq E}
<1>1. \A d \in D : d \notin L
  <2>1. TAKE d \in D
  <2>2. d \in Nat /\ d <= last /\ last + 1 < day
    OBVIOUS
  <2>3. last + 1 \in d..day /\ last + 1 \notin E
    BY <2>2
  <2> QED BY <2>3
<1>2. day \in L
  <2>1. day..day = {day}
    OBVIOUS
  <2> QED BY <2>1
<1>3. L \subseteq D \cup {day} /\ RunTo(day, E) = Cardinality(L)
  BY DEF RunTo
<1> HIDE DEF L
<1>4. L = {day}
  BY <1>1, <1>2, <1>3
<1> QED BY <1>3, <1>4, FS_Singleton

\* The latest of the days is the one that none is after.
LEMMA LatestIs ==
  ASSUME NEW last \in Nat, NEW D \in SUBSET (1..last), last \in D
  PROVE  Latest(D) = last
<1>1. \A e \in D : e <= last
  OBVIOUS
<1>2. PICK m \in D : m = Latest(D) /\ \A e \in D : e <= m
  <2>1. \E d \in D : \A e \in D : e <= d
    BY <1>1
  <2> DEFINE P(d) == \A e \in D : e <= d
  <2>2. \E d \in D : P(d)
    BY <2>1
  <2> HIDE DEF P
  <2>3. (CHOOSE d \in D : P(d)) \in D /\ P(CHOOSE d \in D : P(d))
    BY <2>2
  <2> USE DEF P
  <2> QED BY <2>3 DEF Latest
<1>3. last <= m /\ m <= last /\ m \in Nat
  BY <1>1, <1>2
<1> QED BY <1>2, <1>3

\* The streak of the script is a number, and the latest date one of the dates.
LEMMA ScriptStreakType ==
  ASSUME NEW D \in SUBSET Days, NEW last \in D \cup {Never}, \A d \in D : d <= last,
         NEW day \in Days
  PROVE  StreakFromDates(D, day) \in Nat
<1>1. CASE D = {}
  BY <1>1 DEF StreakFromDates
<1>2. CASE D # {}
  <2>1. last \in D /\ last \in Nat /\ D \in SUBSET (1..last)
    <3>1. PICK d \in D : TRUE
      BY <1>2
    <3>2. last # Never
      BY <3>1 DEF Days, Never
    <3>3. last \in D /\ last \in Nat
      BY <3>2 DEF Days
    <3>4. \A e \in D : e \in 1..last
      BY <3>3 DEF Days
    <3> QED BY <3>3, <3>4
  <2>2. Latest(D) = last
    BY <2>1, LatestIs
  <2>3. IsFiniteSet(D)
    <3>1. IsFiniteSet(1..last)
      BY <2>1, FS_Interval
    <3> QED BY <2>1, <3>1, FS_Subset
  <2>4. RunTo(last, D) \in Nat
    BY <2>1, <2>3, RunType DEF Days
  <2> QED BY <2>2, <2>4 DEF StreakFromDates
<1> QED BY <1>1, <1>2

\* A vote leaves the run that ends with its day, whatever the days before it.
LEMMA VoteEndsRun ==
  ASSUME NEW r \in RowType, NEW D \in SUBSET (1..r.lastVoteDate),
         r.lastVoteDate # Never => /\ r.lastVoteDate \in D
                                   /\ r.currentStreak = RunTo(r.lastVoteDate, D),
         NEW day \in Days, r.lastVoteDate <= day
  PROVE  StreakAfterVote(r, day) = RunTo(day, D \cup {day})
<1> DEFINE last == r.lastVoteDate
<1>1. last \in Nat /\ day \in Nat \ {0}
  BY DEF RowType, Days
<1>2. CASE last = Never
  <2>1. D = {}
    BY <1>2 DEF Never
  <2>2. RunTo(day, D \cup {day}) = 1
    <3>1. 0 \in Nat /\ D \in SUBSET (1..0) /\ 0 < day
      BY <1>1, <2>1
    <3> QED BY <1>1, <2>1, <3>1, RunRestarted
  <2> QED BY <1>2, <2>2 DEF StreakAfterVote
<1>3. CASE last # Never /\ day = last
  <2>1. D \cup {day} = D
    BY <1>3
  <2> QED BY <1>3, <2>1 DEF StreakAfterVote
<1>4. CASE last # Never /\ day = last + 1
  <2>1. RunTo(last + 1, D \cup {last + 1}) = RunTo(last, D) + 1
    BY <1>1, <1>4, RunExtended DEF Never
  <2> QED BY <1>1, <1>4, <2>1 DEF StreakAfterVote
<1>5. CASE last # Never /\ day # last /\ day # last + 1
  <2>1. last < day /\ last + 1 < day
    BY <1>1, <1>5
  <2>2. RunTo(day, D \cup {day}) = 1
    BY <1>1, <2>1, RunRestarted
  <2> QED BY <1>5, <2>2 DEF StreakAfterVote
<1> QED BY <1>2, <1>3, <1>4, <1>5

\* A later day leaves the run that ends with a day as it is.
LEMMA RunUntouched ==
  ASSUME NEW D \in SUBSET Nat, NEW day \in Nat, NEW d \in D, d < day
  PROVE  RunTo(d, D \cup {day}) = RunTo(d, D)
<1> DEFINE E == D \cup {day}
<1>1. \A e \in E : e <= d => e \in D
  OBVIOUS
<1>2. \A e \in D : e..d \subseteq E <=> e..d \subseteq D
  OBVIOUS
<1>3. {e \in E : e <= d /\ e..d \subseteq E} = {e \in D : e <= d /\ e..d \subseteq D}
  BY <1>1, <1>2
<1> QED BY <1>3 DEF RunTo

-----------------------------------------------------------------------------
(* Rows and totals.                                                        *)

\* A total over transactions is a number.
LEMMA TotalType ==
  ASSUME NEW S, IsFiniteSet(S), NEW amount, \A tx \in S : amount[tx] \in Nat
  PROVE  Total(amount, S) \in Nat
<1> DEFINE F == [tx \in S |-> {tx} \X (1..amount[tx])]
           T == {{tx} \X (1..amount[tx]) : tx \in S}
<1>1. F \in Surjection(S, T)
  BY DEF Surjection
<1>2. IsFiniteSet(T)
  BY <1>1, FS_Surjection
<1>3. ASSUME NEW U \in T PROVE IsFiniteSet(U)
  <2>1. PICK tx \in S : U = {tx} \X (1..amount[tx])
    OBVIOUS
  <2>2. IsFiniteSet({tx}) /\ IsFiniteSet(1..amount[tx])
    <3>1. 1 \in Int /\ amount[tx] \in Int
      OBVIOUS
    <3> QED BY <3>1, FS_Singleton, FS_Interval
  <2> QED BY <2>1, <2>2, FS_Product
<1>4. IsFiniteSet(UNION T)
  BY <1>2, <1>3, FS_UNION
<1> QED BY <1>4, FS_CardinalityType DEF Total

\* An update of a vote sets the streaks and leaves the comments alone.
LEMMA WithVoteIs ==
  ASSUME NEW r \in RowType, NEW u \in RowType
  PROVE  /\ WithVote(r, u) \in RowType
         /\ WithVote(r, u).lifetimeVotes = u.lifetimeVotes
         /\ WithVote(r, u).currentStreak = u.currentStreak
         /\ WithVote(r, u).longestStreak = u.longestStreak
         /\ WithVote(r, u).lastVoteDate = u.lastVoteDate
  BY DEF WithVote, RowType

\* An update of a comment leaves the votes and the streaks alone.
LEMMA WithCommentIs ==
  ASSUME NEW r \in RowType, NEW u \in RowType
  PROVE  /\ WithComment(r, u) \in RowType
         /\ WithComment(r, u).lifetimeVotes = r.lifetimeVotes
         /\ WithComment(r, u).currentStreak = r.currentStreak
         /\ WithComment(r, u).longestStreak = r.longestStreak
         /\ WithComment(r, u).lastVoteDate = r.lastVoteDate
  BY DEF WithComment, RowType

\* What a vote computes from the row.
LEMMA VoteUpdateIs ==
  ASSUME NEW r \in RowType, NEW tx \in VoteTxs, NEW day \in Days
  PROVE  /\ VoteUpdate(r, tx, day) \in RowType
         /\ VoteUpdate(r, tx, day).lifetimeVotes = r.lifetimeVotes + Outputs[tx]
         /\ VoteUpdate(r, tx, day).currentStreak = StreakAfterVote(r, day)
         /\ VoteUpdate(r, tx, day).lastVoteDate = day
         /\ VoteUpdate(r, tx, day).currentStreak <= VoteUpdate(r, tx, day).longestStreak
<1> DEFINE votes == r.lifetimeVotes + Outputs[tx]
           sats == r.totalBurnedSats + Sats[tx]
           streak == StreakAfterVote(r, day)
           longest == Larger(streak, r.longestStreak)
           u == [r EXCEPT !.lifetimeVotes = votes, !.totalBurnedSats = sats,
                          !.currentStreak = streak, !.longestStreak = longest,
                          !.lastVoteDate = day]
<1>1. streak \in Nat
  BY DEF StreakAfterVote, RowType, Days
<1>2. longest \in Nat /\ streak <= longest
  BY <1>1 DEF Larger, RowType
<1>3. votes \in Nat /\ sats \in Nat /\ day \in Nat
  BY ConstantsAssumption DEF Days, RowType
<1>4. VoteUpdate(r, tx, day) = u
  BY DEF VoteUpdate
<1> HIDE DEF votes, sats, streak, longest
<1>5. /\ u \in RowType
      /\ u.lifetimeVotes = votes
      /\ u.currentStreak = streak
      /\ u.longestStreak = longest
      /\ u.lastVoteDate = day
  BY <1>1, <1>2, <1>3 DEF RowType
<1> HIDE DEF u
<1> QED BY <1>2, <1>4, <1>5 DEF votes, streak

\* What a comment computes from the row.
LEMMA CommentUpdateIs ==
  ASSUME NEW r \in RowType, NEW tx \in CommentTxs
  PROVE  CommentUpdate(r, tx) \in RowType
<1> DEFINE comments == r.lifetimeComments + 1
           sats == r.totalBurnedSats + Sats[tx]
<1>1. comments \in Nat /\ sats \in Nat
  BY ConstantsAssumption DEF RowType
<1>2. CommentUpdate(r, tx) =
        [r EXCEPT !.lifetimeComments = comments, !.totalBurnedSats = sats]
  BY DEF CommentUpdate
<1> HIDE DEF comments, sats
<1>3. [r EXCEPT !.lifetimeComments = comments, !.totalBurnedSats = sats] \in RowType
  BY <1>1 DEF RowType
<1> QED BY <1>2, <1>3

-----------------------------------------------------------------------------
(* The invariant.                                                          *)

LEMMA InitInv == Init => IInv
<1> SUFFICES ASSUME Init PROVE IInv
  OBVIOUS
<1>1. NewRow \in RowType
  BY DEF NewRow, RowType, Never
<1>2. TypeOK
  BY <1>1 DEF Init, TypeOK, Days, Txs, Never, HandlerType, UpdateType, ScriptType
<1>3. StreakWithinLongest /\ VotesAreKept
  BY DEF Init, NewRow, StreakWithinLongest, VotesAreKept
<1>4. UpdateWithinLongest /\ UpdateDated /\ ScriptHasRun /\ UpdateIsCurrent
  BY DEF Init, Idle, UpdateWithinLongest, UpdateDated, ScriptHasRun, UpdateIsCurrent
<1>5. DaysAreCounted
  BY DEF Init, NewRow, Never, DaysAreCounted
<1> QED BY <1>2, <1>3, <1>4, <1>5 DEF IInv

\* A step that leaves the row, the handler and the script alone keeps all but
\* the types; the day may change.
LEMMA RowUntouched ==
  ASSUME IInv, TypeOK', today <= today', UNCHANGED <<rowVars, handler, script, backfills>>
  PROVE  IInv'
<1>1. today \in Nat /\ today' \in Nat /\ row.lastVoteDate \in Nat
  BY DEF IInv, TypeOK, Days, RowType
<1>2. StreakWithinLongest' /\ VotesAreKept'
  BY DEF IInv, rowVars, StreakWithinLongest, VotesAreKept
<1>3. UpdateWithinLongest' /\ UpdateDated' /\ ScriptHasRun'
  BY DEF IInv, UpdateWithinLongest, UpdateDated, ScriptHasRun
<1>4. UpdateIsCurrent'
  BY <1>1 DEF IInv, rowVars, UpdateIsCurrent, UpdateDated, Days
<1>5. DaysAreCounted'
  BY <1>1 DEF IInv, rowVars, DaysAreCounted
<1> QED BY <1>2, <1>3, <1>4, <1>5 DEF IInv

LEMMA NextDayInv == IInv /\ NextDay => IInv'
<1> SUFFICES ASSUME IInv, NextDay PROVE IInv'
  OBVIOUS
<1>1. today' \in Days /\ today <= today'
  BY DEF IInv, TypeOK, NextDay, Days
<1>2. TypeOK'
  BY <1>1 DEF IInv, TypeOK, NextDay, recordVars, rowVars, boundVars
<1> QED BY <1>1, <1>2, RowUntouched DEF NextDay, boundVars

\* The handler of a vote has computed nothing yet.
LEMMA MempoolTxAddInv ==
  ASSUME IInv, NEW tx \in Txs, MempoolTxAdd(tx)
  PROVE  IInv'
<1>1. TypeOK'
  <2>1. handler' \in HandlerType
    BY DEF IInv, TypeOK, MempoolTxAdd, HandlerType
  <2>2. updates' \in [CommentTxs -> UpdateType]
    BY DEF IInv, TypeOK, MempoolTxAdd, UpdateType
  <2>3. stored' \in SUBSET Txs /\ added' \in Nat
    BY DEF IInv, TypeOK, MempoolTxAdd
  <2> QED BY <2>1, <2>2, <2>3 DEF IInv, TypeOK, MempoolTxAdd, rowVars
<1>2. handler' = handler \/ handler' = [step |-> "read", tx |-> tx]
  BY DEF MempoolTxAdd
<1>3. UNCHANGED <<today, rowVars, script, backfills>>
  BY DEF MempoolTxAdd
<1>4. UpdateWithinLongest' /\ UpdateDated' /\ UpdateIsCurrent'
  BY <1>2, <1>3 DEF IInv, UpdateWithinLongest, UpdateDated, UpdateIsCurrent, rowVars
<1>5. StreakWithinLongest' /\ VotesAreKept' /\ ScriptHasRun' /\ DaysAreCounted'
  BY <1>3 DEF IInv, rowVars, StreakWithinLongest, VotesAreKept, ScriptHasRun, DaysAreCounted
<1> QED BY <1>1, <1>4, <1>5 DEF IInv

\* What is computed is computed from the row as it is.
LEMMA VoteReadsInv ==
  ASSUME IInv, VoteReads
  PROVE  IInv'
<1> DEFINE tx == handler.tx
           u == VoteUpdate(row, tx, today)
<1>1. tx \in VoteTxs /\ row \in RowType /\ today \in Days
  BY DEF IInv, TypeOK, HandlerType, Idle, VoteReads
<1>2. /\ u \in RowType
      /\ u.lifetimeVotes = row.lifetimeVotes + Outputs[tx]
      /\ u.currentStreak = StreakAfterVote(row, today)
      /\ u.lastVoteDate = today
      /\ u.currentStreak <= u.longestStreak
  BY <1>1, VoteUpdateIs
<1> HIDE DEF u
<1>3. handler' = [step |-> "write", tx |-> tx, update |-> u]
  BY DEF VoteReads, u
<1>4. UNCHANGED <<today, recordVars, rowVars, updates, script, boundVars>>
  BY DEF VoteReads
<1>5. TypeOK'
  <2>1. handler' \in HandlerType
    BY <1>1, <1>2, <1>3 DEF HandlerType
  <2> QED BY <1>4, <2>1 DEF IInv, TypeOK, recordVars, rowVars, boundVars
<1>6. UpdateWithinLongest' /\ UpdateDated'
  BY <1>1, <1>2, <1>3 DEF UpdateWithinLongest, UpdateDated
<1>7. UpdateIsCurrent'
  <2>1. backfills = 0 => row.lastVoteDate <= today
    BY DEF IInv, DaysAreCounted
  <2>2. today <= today
    BY <1>1 DEF Days
  <2> QED BY <1>1, <1>2, <1>3, <1>4, <2>1, <2>2 DEF UpdateIsCurrent, rowVars, boundVars
<1>8. StreakWithinLongest' /\ VotesAreKept' /\ ScriptHasRun' /\ DaysAreCounted'
  BY <1>4 DEF IInv, rowVars, boundVars, StreakWithinLongest, VotesAreKept, ScriptHasRun,
     DaysAreCounted
<1> QED BY <1>5, <1>6, <1>7, <1>8 DEF IInv

\* The update is still right when it is written: its streak is the run of the
\* counted days that ends with its own.
LEMMA VoteWritesInv ==
  ASSUME IInv, VoteWrites
  PROVE  IInv'
<1> DEFINE tx == handler.tx
           u == handler.update
           day == u.lastVoteDate
<1>1. /\ tx \in VoteTxs /\ u \in RowType /\ row \in RowType
      /\ handler.step = "write"
  BY DEF IInv, TypeOK, HandlerType, Idle, VoteWrites
<1>2. row' = WithVote(row, u) /\ row' \in RowType
  BY <1>1, WithVoteIs DEF VoteWrites
<1>3. /\ row'.lifetimeVotes = u.lifetimeVotes
      /\ row'.currentStreak = u.currentStreak
      /\ row'.longestStreak = u.longestStreak
      /\ row'.lastVoteDate = day
  BY <1>1, <1>2, WithVoteIs
<1>4. /\ counted' = [outputs |-> counted.outputs + Outputs[tx],
                     sats |-> counted.sats + Sats[tx]]
      /\ voteDays' = voteDays \cup {day}
      /\ handler' = Idle
      /\ UNCHANGED <<today, recordVars, updates, script, boundVars>>
  BY DEF VoteWrites
<1>5. UpdateWithinLongest' /\ UpdateDated' /\ UpdateIsCurrent'
  BY <1>4 DEF UpdateWithinLongest, UpdateDated, UpdateIsCurrent, Idle
<1>6. StreakWithinLongest' /\ ScriptHasRun'
  BY <1>1, <1>3, <1>4 DEF IInv, UpdateWithinLongest, StreakWithinLongest, ScriptHasRun,
     boundVars
<1>7. day \in Days
  BY <1>1 DEF IInv, UpdateDated
<1>8. TypeOK'
  <2>1. counted' \in [outputs : Nat, sats : Nat]
    BY <1>1, <1>4, ConstantsAssumption DEF IInv, TypeOK
  <2>2. voteDays' \in SUBSET Days
    BY <1>4, <1>7 DEF IInv, TypeOK
  <2>3. handler' \in HandlerType
    BY <1>4 DEF HandlerType
  <2> QED BY <1>2, <1>4, <2>1, <2>2, <2>3 DEF IInv, TypeOK, recordVars, boundVars
<1>9. VotesAreKept'
  <2>1. SUFFICES ASSUME backfills' = 0
                 PROVE  row'.lifetimeVotes = counted'.outputs
    BY DEF VotesAreKept
  <2>2. backfills = 0
    BY <1>4, <2>1 DEF boundVars
  <2>3. row.lifetimeVotes = counted.outputs
    BY <2>2 DEF IInv, VotesAreKept
  <2>4. u.lifetimeVotes = row.lifetimeVotes + Outputs[tx]
    BY <1>1, <2>2 DEF IInv, UpdateIsCurrent
  <2> QED BY <1>3, <1>4, <2>3, <2>4
<1>10. DaysAreCounted'
  <2>1. SUFFICES ASSUME backfills' = 0
                 PROVE  /\ voteDays' \subseteq 1..day
                        /\ day <= today'
                        /\ day # Never
                        /\ day \in voteDays'
                        /\ row'.currentStreak = RunTo(day, voteDays')
    BY <1>3 DEF DaysAreCounted
  <2>2. backfills = 0
    BY <1>4, <2>1 DEF boundVars
  <2>3. /\ u.currentStreak = StreakAfterVote(row, day)
        /\ row.lastVoteDate <= day
        /\ day <= today
    BY <1>1, <2>2 DEF IInv, UpdateIsCurrent
  <2>4. /\ voteDays \in SUBSET (1..row.lastVoteDate)
        /\ row.lastVoteDate # Never => /\ row.lastVoteDate \in voteDays
                                       /\ row.currentStreak = RunTo(row.lastVoteDate, voteDays)
    BY <2>2 DEF IInv, DaysAreCounted
  <2>5. StreakAfterVote(row, day) = RunTo(day, voteDays \cup {day})
    BY <1>1, <1>7, <2>3, <2>4, VoteEndsRun
  <2>6. row.lastVoteDate \in Nat /\ day \in Nat \ {0}
    BY <1>1, <1>7 DEF RowType, Days
  <2>7. voteDays' \subseteq 1..day
    <3>1. 1..row.lastVoteDate \subseteq 1..day /\ day \in 1..day
      BY <2>3, <2>6
    <3> HIDE DEF day
    <3> QED BY <1>4, <2>4, <3>1
  <2> QED BY <1>3, <1>4, <2>3, <2>5, <2>6, <2>7 DEF Never
<1> QED BY <1>5, <1>6, <1>8, <1>9, <1>10 DEF IInv

LEMMA CommentReadsInv ==
  ASSUME IInv, NEW tx \in CommentTxs, CommentReads(tx)
  PROVE  IInv'
<1>1. CommentUpdate(row, tx) \in RowType
  BY CommentUpdateIs DEF IInv, TypeOK
<1>2. updates' \in [CommentTxs -> UpdateType]
  BY <1>1 DEF IInv, TypeOK, CommentReads, UpdateType
<1>3. UNCHANGED <<today, recordVars, rowVars, handler, script, boundVars>>
  BY DEF CommentReads
<1>4. TypeOK'
  BY <1>2, <1>3 DEF IInv, TypeOK, recordVars, rowVars, boundVars
<1>5. today <= today'
  BY <1>3 DEF IInv, TypeOK, Days
<1> QED BY <1>3, <1>4, <1>5, RowUntouched DEF boundVars

\* A comment leaves the columns of the votes alone.
LEMMA CommentWritesInv ==
  ASSUME IInv, NEW tx \in CommentTxs, CommentWrites(tx)
  PROVE  IInv'
<1>1. row \in RowType /\ updates[tx].update \in RowType
  BY DEF IInv, TypeOK, UpdateType, Idle, CommentWrites
<1>2. /\ row' \in RowType
      /\ row'.lifetimeVotes = row.lifetimeVotes
      /\ row'.currentStreak = row.currentStreak
      /\ row'.longestStreak = row.longestStreak
      /\ row'.lastVoteDate = row.lastVoteDate
  BY <1>1, WithCommentIs DEF CommentWrites
<1>3. UNCHANGED <<today, recordVars, counted, voteDays, handler, script, boundVars>>
  BY DEF CommentWrites
<1>4. updates' \in [CommentTxs -> UpdateType]
  BY DEF IInv, TypeOK, CommentWrites, UpdateType
<1>5. TypeOK'
  BY <1>2, <1>3, <1>4 DEF IInv, TypeOK, recordVars, boundVars
<1>6. StreakWithinLongest' /\ VotesAreKept'
  BY <1>2, <1>3 DEF IInv, boundVars, StreakWithinLongest, VotesAreKept
<1>7. UpdateWithinLongest' /\ UpdateDated' /\ ScriptHasRun'
  BY <1>3 DEF IInv, boundVars, UpdateWithinLongest, UpdateDated, ScriptHasRun
<1>8. UpdateIsCurrent'
  BY <1>2, <1>3 DEF IInv, boundVars, UpdateIsCurrent, StreakAfterVote
<1>9. DaysAreCounted'
  BY <1>2, <1>3 DEF IInv, boundVars, DaysAreCounted
<1> QED BY <1>5, <1>6, <1>7, <1>8, <1>9 DEF IInv

\* A handler or a process that ends takes its update along.
LEMMA HandlerEnds ==
  ASSUME IInv, TypeOK', handler' = Idle \/ handler' = handler,
         UNCHANGED <<today, rowVars, script, backfills>>
  PROVE  IInv'
<1>1. UpdateWithinLongest' /\ UpdateDated' /\ UpdateIsCurrent'
  BY DEF IInv, UpdateWithinLongest, UpdateDated, UpdateIsCurrent, rowVars, Idle
<1>2. StreakWithinLongest' /\ VotesAreKept' /\ ScriptHasRun' /\ DaysAreCounted'
  BY DEF IInv, rowVars, StreakWithinLongest, VotesAreKept, ScriptHasRun, DaysAreCounted
<1> QED BY <1>1, <1>2 DEF IInv

LEMMA UpdateFailsInv ==
  ASSUME IInv, UpdateFails
  PROVE  IInv'
<1>1. handler' = Idle \/ handler' = handler
  BY DEF UpdateFails
<1>2. handler' \in HandlerType /\ updates' \in [CommentTxs -> UpdateType]
  BY <1>1 DEF IInv, TypeOK, UpdateFails, HandlerType, UpdateType
<1>3. UNCHANGED <<today, recordVars, rowVars, script, added, backfills>> /\ failures' \in Nat
  BY DEF IInv, TypeOK, UpdateFails
<1>4. TypeOK'
  BY <1>2, <1>3 DEF IInv, TypeOK, recordVars, rowVars
<1> QED BY <1>1, <1>3, <1>4, HandlerEnds

LEMMA BlockConnectedInv ==
  ASSUME IInv, NEW S \in SUBSET Txs, NEW day \in 1..MaxDay, BlockConnected(S, day)
  PROVE  IInv'
<1>1. stored' \in SUBSET Txs /\ timestamp' \in [Txs -> Nat]
  BY ConstantsAssumption DEF IInv, TypeOK, BlockConnected
<1>2. UNCHANGED <<today, rowVars, handler, updates, script, boundVars>>
  BY DEF BlockConnected
<1>3. TypeOK'
  BY <1>1, <1>2 DEF IInv, TypeOK, rowVars, boundVars
<1> QED BY <1>2, <1>3, HandlerEnds DEF boundVars

LEMMA RecordsLeaveInv ==
  ASSUME IInv, NEW S \in SUBSET Txs, RecordsLeave(S)
  PROVE  IInv'
<1>1. stored' \in SUBSET Txs /\ timestamp' \in [Txs -> Nat]
  BY DEF IInv, TypeOK, RecordsLeave, Never
<1>2. UNCHANGED <<today, rowVars, handler, updates, script, boundVars>>
  BY DEF RecordsLeave
<1>3. TypeOK'
  BY <1>1, <1>2 DEF IInv, TypeOK, rowVars, boundVars
<1> QED BY <1>2, <1>3, HandlerEnds DEF boundVars

LEMMA RestartInv ==
  ASSUME IInv, NEW S \in SUBSET Txs, Restart(S)
  PROVE  IInv'
<1>1. stored' \in SUBSET Txs /\ failures' \in Nat
  BY DEF IInv, TypeOK, Restart
<1>2. handler' \in HandlerType /\ updates' \in [CommentTxs -> UpdateType]
  BY DEF Restart, HandlerType, UpdateType
<1>3. UNCHANGED <<today, timestamp, rowVars, script, added, backfills>>
  BY DEF Restart
<1>4. TypeOK'
  BY <1>1, <1>2, <1>3 DEF IInv, TypeOK, rowVars
<1> QED BY <1>3, <1>4, HandlerEnds DEF Restart

-----------------------------------------------------------------------------
(* The script: it has run once it is not idle, so that only the streaks and  *)
(* the types are left to show.                                               *)

\* What the script writes keeps the rest of the invariant, if it has run.
LEMMA ScriptWrites ==
  ASSUME IInv, TypeOK', StreakWithinLongest', backfills # 0,
         UNCHANGED <<handler, backfills>>
  PROVE  IInv'
  BY DEF IInv, UpdateWithinLongest, UpdateDated, ScriptHasRun, VotesAreKept, UpdateIsCurrent,
     DaysAreCounted

LEMMA BackfillStartsInv ==
  ASSUME IInv, BackfillStarts
  PROVE  IInv'
<1>1. /\ UNCHANGED <<today, recordVars, rowVars, handler, updates, added, failures>>
      /\ script' = [step |-> "query", pending |-> Queries, found |-> NewRow, dates |-> {}]
      /\ backfills' = backfills + 1
  BY DEF BackfillStarts
<1>2. script' \in ScriptType
  <2>1. NewRow \in RowType
    BY DEF NewRow, RowType, Never
  <2> QED BY <1>1, <2>1 DEF ScriptType
<1>3. backfills' \in Nat /\ backfills' # 0
  BY <1>1 DEF IInv, TypeOK
<1>4. TypeOK'
  BY <1>1, <1>2, <1>3 DEF IInv, TypeOK, recordVars, rowVars
<1>5. StreakWithinLongest' /\ UpdateWithinLongest' /\ UpdateDated'
  BY <1>1 DEF IInv, rowVars, StreakWithinLongest, UpdateWithinLongest, UpdateDated
<1>6. ScriptHasRun' /\ VotesAreKept' /\ UpdateIsCurrent' /\ DaysAreCounted'
  BY <1>3 DEF ScriptHasRun, VotesAreKept, UpdateIsCurrent, DaysAreCounted
<1> QED BY <1>4, <1>5, <1>6 DEF IInv

\* The totals over the records are numbers, whatever records there are.
LEMMA FoundType ==
  ASSUME TypeOK
  PROVE  /\ Total(Outputs, VotesFound) \in Nat
         /\ Total(Sats, VotesFound) \in Nat
         /\ Cardinality(stored \cap CommentTxs) \in Nat
         /\ DatesFound \in SUBSET Days
<1>1. IsFiniteSet(VoteTxs \cup CommentTxs) /\ VotesFound \in SUBSET (VoteTxs \cup CommentTxs)
      /\ stored \cap CommentTxs \in SUBSET (VoteTxs \cup CommentTxs)
  BY ConstantsAssumption DEF VotesFound
<1>2. IsFiniteSet(VotesFound) /\ IsFiniteSet(stored \cap CommentTxs)
  BY <1>1, FS_Subset
<1>3. \A tx \in VotesFound : Outputs[tx] \in Nat /\ Sats[tx] \in Nat
  BY ConstantsAssumption DEF VotesFound
<1>4. Total(Outputs, VotesFound) \in Nat /\ Total(Sats, VotesFound) \in Nat
  BY <1>2, <1>3, TotalType
<1>5. Cardinality(stored \cap CommentTxs) \in Nat
  BY <1>2, FS_CardinalityType
<1>6. DatesFound \in SUBSET Days
  BY DEF TypeOK, DatesFound, VotesFound, Days, Never, Txs
<1> QED BY <1>4, <1>5, <1>6

LEMMA BackfillQueryInv ==
  ASSUME IInv, NEW query \in Queries, BackfillQuery(query)
  PROVE  IInv'
<1> DEFINE rest == [script EXCEPT !.pending = @ \ {query}]
           votes == Total(Outputs, VotesFound)
           comments == Cardinality(stored \cap CommentTxs)
           sats == Total(Sats, VotesFound)
           Query == [step : {"query"}, pending : SUBSET Queries, found : RowType,
                     dates : SUBSET Days]
<1>1. UNCHANGED <<today, recordVars, rowVars, handler, updates, boundVars>>
  BY DEF BackfillQuery
<1>2. script \in Query
  BY DEF IInv, TypeOK, ScriptType, Idle, BackfillQuery
<1>3. rest \in Query
  BY <1>2
<1>4. /\ votes \in Nat /\ comments \in Nat /\ sats \in Nat
      /\ DatesFound \in SUBSET Days
      /\ row \in RowType
  BY FoundType DEF IInv, TypeOK
<1>5. script' \in Query
  <2> HIDE DEF rest, votes, comments, sats
  <2>1. CASE query = "records"
    <3>1. script' = [rest EXCEPT !.found.lifetimeVotes = votes,
                                 !.found.lifetimeComments = comments,
                                 !.found.totalBurnedSats = sats,
                                 !.dates = DatesFound]
      BY <2>1 DEF BackfillQuery, rest, votes, comments, sats
    <3>2. script' = [rest EXCEPT !.found = [rest.found EXCEPT !.lifetimeVotes = votes,
                                                              !.lifetimeComments = comments,
                                                              !.totalBurnedSats = sats],
                                 !.dates = DatesFound]
      BY <1>3, <3>1 DEF RowType
    <3>3. [rest.found EXCEPT !.lifetimeVotes = votes, !.lifetimeComments = comments,
                             !.totalBurnedSats = sats] \in RowType
      BY <1>3, <1>4 DEF RowType
    <3> QED BY <1>3, <1>4, <3>2, <3>3
  <2>2. CASE query = "existing"
    <3>1. script' = [rest EXCEPT !.found.longestStreak = row.longestStreak]
      BY <2>2 DEF BackfillQuery, rest
    <3>2. script' = [rest EXCEPT !.found = [rest.found EXCEPT !.longestStreak =
                                                                row.longestStreak]]
      BY <1>3, <3>1 DEF RowType
    <3>3. [rest.found EXCEPT !.longestStreak = row.longestStreak] \in RowType
      BY <1>3, <1>4 DEF RowType
    <3> QED BY <1>3, <3>2, <3>3
  <2> QED BY <2>1, <2>2 DEF Queries
<1>6. TypeOK'
  BY <1>1, <1>5 DEF IInv, TypeOK, recordVars, rowVars, boundVars, ScriptType
<1>7. backfills # 0
  BY <1>2 DEF IInv, ScriptHasRun, Idle
<1>8. StreakWithinLongest'
  BY <1>1 DEF IInv, rowVars, StreakWithinLongest
<1> QED BY <1>1, <1>6, <1>7, <1>8, ScriptWrites DEF boundVars

\* The longest streak that the script writes is at least the streak.
LEMMA BackfillWritesInv ==
  ASSUME IInv, BackfillWrites
  PROVE  IInv'
<1> DEFINE D == script.dates
           streak == StreakFromDates(D, today)
           longest == BackfilledLongest(streak, script.found.longestStreak)
<1>1. /\ script.found \in RowType /\ D \in SUBSET Days /\ today \in Days
      /\ script # Idle
  BY DEF IInv, TypeOK, ScriptType, Idle, BackfillWrites
<1>2. PICK last \in D \cup {Never} :
        /\ \A d \in D : d <= last
        /\ row' = [script.found EXCEPT !.currentStreak = streak,
                                       !.longestStreak = longest,
                                       !.lastVoteDate = last]
  BY DEF BackfillWrites
<1>3. streak \in Nat /\ last \in Nat
  BY <1>1, <1>2, ScriptStreakType DEF Days, Never
<1>4. longest \in Nat /\ streak <= longest
  BY <1>1, <1>3 DEF BackfilledLongest, Larger, RowType
<1>5. row' \in RowType /\ row'.currentStreak <= row'.longestStreak
  <2> HIDE DEF streak, longest
  <2> QED BY <1>1, <1>2, <1>3, <1>4 DEF RowType
<1>6. /\ UNCHANGED <<today, recordVars, counted, voteDays, handler, updates, boundVars>>
      /\ script' = [step |-> "reset"]
  BY DEF BackfillWrites
<1>7. TypeOK'
  BY <1>5, <1>6 DEF IInv, TypeOK, recordVars, boundVars, ScriptType
<1>8. StreakWithinLongest'
  BY <1>5 DEF StreakWithinLongest
<1>9. backfills # 0
  BY <1>1 DEF IInv, ScriptHasRun
<1> QED BY <1>6, <1>7, <1>8, <1>9, ScriptWrites DEF boundVars

LEMMA BackfillResetsInv ==
  ASSUME IInv, BackfillResets
  PROVE  IInv'
<1>1. script # Idle /\ row \in RowType
  BY DEF IInv, TypeOK, BackfillResets, Idle
<1>2. row' = row \/ row' = [row EXCEPT !.currentStreak = 0]
  BY DEF BackfillResets, StreakAfterReset
<1>3. row' \in RowType /\ row'.currentStreak <= row'.longestStreak
  BY <1>1, <1>2 DEF IInv, StreakWithinLongest, RowType
<1>4. /\ UNCHANGED <<today, recordVars, counted, voteDays, handler, updates, boundVars>>
      /\ script' = Idle
  BY DEF BackfillResets
<1>5. TypeOK'
  BY <1>3, <1>4 DEF IInv, TypeOK, recordVars, boundVars, ScriptType
<1>6. StreakWithinLongest'
  BY <1>3 DEF StreakWithinLongest
<1>7. backfills # 0
  BY <1>1 DEF IInv, ScriptHasRun
<1> QED BY <1>4, <1>5, <1>6, <1>7, ScriptWrites DEF boundVars

LEMMA BackfillFailsInv ==
  ASSUME IInv, BackfillFails
  PROVE  IInv'
<1>1. script # Idle
  BY DEF BackfillFails, Idle
<1>2. /\ UNCHANGED <<today, recordVars, rowVars, handler, updates, added, backfills>>
      /\ failures' = failures + 1 /\ script' = [step |-> "reset"]
  BY DEF BackfillFails
<1>3. TypeOK'
  BY <1>2 DEF IInv, TypeOK, recordVars, rowVars, ScriptType
<1>4. StreakWithinLongest' /\ backfills # 0
  BY <1>1, <1>2 DEF IInv, rowVars, StreakWithinLongest, ScriptHasRun
<1> QED BY <1>2, <1>3, <1>4, ScriptWrites

-----------------------------------------------------------------------------
(* Theorems *)

LEMMA NextInv == IInv /\ [Next]_vars => IInv'
<1> SUFFICES ASSUME IInv, [Next]_vars PROVE IInv'
  OBVIOUS
<1>1. CASE NextDay
  BY <1>1, NextDayInv
<1>2. CASE IndexerStep
  BY <1>2, MempoolTxAddInv, VoteReadsInv, VoteWritesInv, CommentReadsInv, CommentWritesInv,
     UpdateFailsInv, BlockConnectedInv, RecordsLeaveInv, RestartInv DEF IndexerStep
<1>3. CASE ScriptStep
  BY <1>3, BackfillStartsInv, BackfillQueryInv, BackfillWritesInv, BackfillResetsInv,
     BackfillFailsInv DEF ScriptStep
<1>4. CASE UNCHANGED vars
  <2>1. UNCHANGED <<today, rowVars, handler, script, backfills>>
    BY <1>4 DEF vars, boundVars
  <2>2. TypeOK'
    BY <1>4 DEF IInv, TypeOK, vars, recordVars, rowVars, boundVars
  <2> QED BY <2>1, <2>2, HandlerEnds
<1> QED BY <1>1, <1>2, <1>3, <1>4 DEF Next

\* The invariant holds in every state.
THEOREM Invariance == Spec => []IInv
  BY InitInv, NextInv, PTL DEF Spec

\* Every variable has its type, for any transactions, days and failures.
THEOREM TypeCorrect == Spec => []TypeOK
<1>1. IInv => TypeOK
  BY DEF IInv
<1> QED BY <1>1, Invariance, PTL

\* The streak is never longer than the longest one, however the updates and
\* the script overlap.
THEOREM StreaksAreWithinLongest == Spec => []StreakWithinLongest
<1>1. IInv => StreakWithinLongest
  BY DEF IInv
<1> QED BY <1>1, Invariance, PTL

\* Updates for comments and crashes lose no vote that was counted.
THEOREM CountedVotesAreKept == Spec => []VotesAreKept
<1>1. IInv => VotesAreKept
  BY DEF IInv
<1> QED BY <1>1, Invariance, PTL

\* The streak that votes extend day by day is what the script would compute
\* from their days.
THEOREM StreaksAgree == Spec => []StreakAgrees
<1>1. ASSUME IInv, backfills = 0
      PROVE  StreakFromDates(voteDays, today) =
               IF row.lastVoteDate + 1 >= today THEN row.currentStreak ELSE 0
  <2> DEFINE last == row.lastVoteDate
  <2>1. /\ last \in Nat /\ today \in Nat \ {0} /\ last <= today
        /\ voteDays \in SUBSET (1..last)
    BY <1>1 DEF IInv, TypeOK, RowType, Days, DaysAreCounted
  <2>2. CASE last = Never
    <3>1. voteDays = {} /\ row.currentStreak = 0
      BY <1>1, <2>1, <2>2 DEF IInv, DaysAreCounted, Never
    <3> QED BY <3>1 DEF StreakFromDates
  <2>3. CASE last # Never
    <3>1. last \in voteDays /\ row.currentStreak = RunTo(last, voteDays)
      BY <1>1, <2>3 DEF IInv, DaysAreCounted
    <3>2. Latest(voteDays) = last /\ voteDays # {}
      BY <2>1, <3>1, LatestIs
    <3>3. last + 1 < today <=> ~ (last + 1 >= today)
      BY <2>1
    <3> QED BY <3>1, <3>2, <3>3 DEF StreakFromDates
  <2> QED BY <2>2, <2>3
<1>2. IInv => StreakAgrees
  BY <1>1 DEF StreakAgrees
<1> QED BY <1>2, Invariance, PTL

-----------------------------------------------------------------------------
(* The longest streak: LInv is inductive beside IInv.                      *)

\* While no vote is counted there is no longest streak; afterwards it is the
\* longest of the runs.
LongestIsRun ==
  LongestAgrees /\ (backfills = 0 /\ voteDays = {} => row.longestStreak = 0)

\* The longest streak about to be written is computed from the row as it is.
UpdateHasLongest ==
  backfills = 0 /\ handler.step = "write" =>
    handler.update.longestStreak = Larger(handler.update.currentStreak, row.longestStreak)

LInv == LongestIsRun /\ UpdateHasLongest

\* A step after which the script has run, or that leaves the votes of the row
\* and what is about to be written alone.
LEMMA LongestUntouched ==
  ASSUME LInv,
         \/ backfills' # 0
         \/ /\ backfills' = backfills /\ voteDays' = voteDays
            /\ row'.longestStreak = row.longestStreak
            /\ handler' = handler \/ handler'.step # "write"
  PROVE  LInv'
  BY DEF LInv, LongestIsRun, LongestAgrees, UpdateHasLongest

\* What a vote computes is the longest of its streak and the streaks before.
LEMMA VoteReadsLongest ==
  ASSUME IInv, LInv, VoteReads
  PROVE  LInv'
<1> DEFINE u == VoteUpdate(row, handler.tx, today)
<1>1. row \in RowType
  BY DEF IInv, TypeOK
<1>2. u.longestStreak = Larger(u.currentStreak, row.longestStreak)
  BY <1>1 DEF VoteUpdate, RowType
<1> HIDE DEF u
<1>3. handler' = [step |-> "write", tx |-> handler.tx, update |-> u]
  BY DEF VoteReads, u
<1>4. handler'.update = u
  BY <1>3
<1>5. row' = row /\ voteDays' = voteDays /\ backfills' = backfills
  BY DEF VoteReads, rowVars, boundVars
<1> QED BY <1>2, <1>4, <1>5 DEF LInv, LongestIsRun, LongestAgrees, UpdateHasLongest

\* A vote changes no run but the one that it ends.
LEMMA VoteWritesLongest ==
  ASSUME IInv, LInv, VoteWrites
  PROVE  LInv'
<1> DEFINE u == handler.update
           day == u.lastVoteDate
           E == voteDays \cup {day}
<1>1. /\ row \in RowType /\ u \in RowType /\ day \in Days
      /\ handler.step = "write"
  BY DEF IInv, TypeOK, HandlerType, Idle, VoteWrites, UpdateDated
<1>2. /\ row'.longestStreak = u.longestStreak /\ voteDays' = E
      /\ backfills' = backfills /\ handler'.step # "write"
  BY <1>1, WithVoteIs DEF VoteWrites, boundVars, Idle
<1>3. CASE backfills # 0
  BY <1>2, <1>3, LongestUntouched
<1>4. CASE backfills = 0
  <2>1. /\ voteDays \in SUBSET (1..row.lastVoteDate)
        /\ row.lastVoteDate # Never =>
             /\ row.lastVoteDate \in voteDays
             /\ row.currentStreak = RunTo(row.lastVoteDate, voteDays)
        /\ u.currentStreak = StreakAfterVote(row, day)
        /\ row.lastVoteDate <= day
    BY <1>1, <1>4 DEF IInv, DaysAreCounted, UpdateIsCurrent
  <2>2. u.currentStreak = RunTo(day, E)
    BY <1>1, <2>1, VoteEndsRun
  <2>3. u.longestStreak = Larger(u.currentStreak, row.longestStreak)
    BY <1>1, <1>4 DEF LInv, UpdateHasLongest
  <2>4. row.longestStreak \in Nat /\ u.currentStreak \in Nat
    BY <1>1 DEF RowType
  <2>5. ASSUME NEW d \in voteDays, d # day
        PROVE  RunTo(d, E) = RunTo(d, voteDays)
    <3>1. row.lastVoteDate \in Nat /\ day \in Nat
      BY <1>1 DEF RowType, Days
    <3>2. voteDays \in SUBSET Nat /\ d < day
      BY <2>1, <2>5, <3>1
    <3> QED BY <3>1, <3>2, RunUntouched
  <2>6. ASSUME NEW d \in E PROVE RunTo(d, E) <= u.longestStreak
    <3>1. CASE d = day
      BY <2>2, <2>3, <2>4, <3>1 DEF Larger
    <3>2. CASE d # day
      <4>1. RunTo(d, E) = RunTo(d, voteDays) /\ RunTo(d, voteDays) <= row.longestStreak
        BY <1>4, <2>5, <3>2 DEF LInv, LongestIsRun, LongestAgrees
      <4>2. RunTo(d, voteDays) \in Nat
        <5>1. row.lastVoteDate \in Nat
          BY <1>1 DEF RowType
        <5>2. IsFiniteSet(1..row.lastVoteDate)
          BY <5>1, FS_Interval
        <5>3. IsFiniteSet(voteDays) /\ voteDays \in SUBSET Nat /\ d \in Nat
          <6>1. IsFiniteSet(voteDays)
            BY <2>1, <5>2, FS_Subset
          <6> QED BY <2>1, <3>2, <5>1, <6>1
        <5> QED BY <5>3, RunType
      <4> QED BY <2>3, <2>4, <4>1, <4>2 DEF Larger
    <3> QED BY <3>1, <3>2
  <2>7. \E d \in E : RunTo(d, E) = u.longestStreak
    <3>1. CASE u.longestStreak = u.currentStreak
      BY <2>2, <3>1
    <3>2. CASE u.longestStreak # u.currentStreak
      <4>1. u.longestStreak = row.longestStreak /\ row.longestStreak # 0
        BY <2>3, <2>4, <3>2 DEF Larger
      <4>2. PICK d \in voteDays : RunTo(d, voteDays) = row.longestStreak
        BY <1>4, <4>1 DEF LInv, LongestIsRun, LongestAgrees
      <4>3. d # day
        <5>1. SUFFICES ASSUME d = day PROVE FALSE
          OBVIOUS
        <5>2. E = voteDays
          BY <5>1
        <5> QED BY <2>2, <3>2, <4>1, <4>2, <5>1, <5>2
      <4> QED BY <2>5, <4>1, <4>2, <4>3
    <3> QED BY <3>1, <3>2
  <2>8. LongestIsRun'
    BY <1>2, <2>6, <2>7 DEF LongestIsRun, LongestAgrees
  <2> QED BY <1>2, <2>8 DEF LInv, UpdateHasLongest
<1> QED BY <1>3, <1>4

LEMMA CommentWritesLongest ==
  ASSUME IInv, LInv, NEW tx \in CommentTxs, CommentWrites(tx)
  PROVE  LInv'
<1>1. row \in RowType /\ updates[tx].update \in RowType
  BY DEF IInv, TypeOK, UpdateType, Idle, CommentWrites
<1>2. /\ row'.longestStreak = row.longestStreak /\ voteDays' = voteDays
      /\ handler' = handler /\ backfills' = backfills
  BY <1>1, WithCommentIs DEF CommentWrites, boundVars
<1> QED BY <1>2, LongestUntouched

LEMMA NextLongest == IInv /\ LInv /\ [Next]_vars => LInv'
<1> SUFFICES ASSUME IInv, LInv, [Next]_vars PROVE LInv'
  OBVIOUS
<1>1. CASE NextDay
  BY <1>1, LongestUntouched DEF NextDay, rowVars, boundVars
<1>2. ASSUME NEW tx \in Txs, MempoolTxAdd(tx) PROVE LInv'
  <2>1. handler' = handler \/ handler'.step # "write"
    BY <1>2 DEF MempoolTxAdd
  <2> QED BY <1>2, <2>1, LongestUntouched DEF MempoolTxAdd, rowVars
<1>3. ASSUME NEW tx \in CommentTxs, CommentReads(tx) PROVE LInv'
  BY <1>3, LongestUntouched DEF CommentReads, rowVars, boundVars
<1>4. CASE UpdateFails
  <2>1. handler' = handler \/ handler'.step # "write"
    BY <1>4 DEF UpdateFails, Idle
  <2> QED BY <1>4, <2>1, LongestUntouched DEF UpdateFails, rowVars
<1>5. ASSUME NEW S, NEW day, BlockConnected(S, day) PROVE LInv'
  BY <1>5, LongestUntouched DEF BlockConnected, rowVars, boundVars
<1>6. ASSUME NEW S, RecordsLeave(S) PROVE LInv'
  BY <1>6, LongestUntouched DEF RecordsLeave, rowVars, boundVars
<1>7. ASSUME NEW S, Restart(S) PROVE LInv'
  <2>1. handler'.step # "write"
    BY <1>7 DEF Restart, Idle
  <2> QED BY <1>7, <2>1, LongestUntouched DEF Restart, rowVars
<1>8. CASE IndexerStep
  BY <1>2, <1>3, <1>4, <1>5, <1>6, <1>7, <1>8, VoteReadsLongest, VoteWritesLongest,
     CommentWritesLongest DEF IndexerStep
<1>9. CASE ScriptStep
  <2>1. script # Idle /\ backfills' = backfills => backfills' # 0
    BY DEF IInv, ScriptHasRun
  <2>2. CASE BackfillStarts
    <3>1. backfills' # 0
      BY <2>2 DEF IInv, TypeOK, BackfillStarts
    <3> QED BY <3>1, LongestUntouched
  <2>3. ASSUME NEW query, BackfillQuery(query) PROVE LInv'
    BY <2>1, <2>3, LongestUntouched DEF BackfillQuery, boundVars, Idle
  <2>4. CASE BackfillWrites
    BY <2>1, <2>4, LongestUntouched DEF BackfillWrites, boundVars, Idle
  <2>5. CASE BackfillResets
    BY <2>1, <2>5, LongestUntouched DEF BackfillResets, boundVars, Idle
  <2>6. CASE BackfillFails
    BY <2>1, <2>6, LongestUntouched DEF BackfillFails, Idle
  <2> QED BY <1>9, <2>2, <2>3, <2>4, <2>5, <2>6 DEF ScriptStep
<1>10. CASE UNCHANGED vars
  BY <1>10, LongestUntouched DEF vars, rowVars, boundVars
<1> QED BY <1>1, <1>8, <1>9, <1>10 DEF Next

\* The longest streak is the longest run of the days of the counted votes, as
\* long as the script has not touched the row.
THEOREM LongestAgreesAlways == Spec => []LongestAgrees
<1>1. Init => LInv
  BY DEF Init, NewRow, Idle, LInv, LongestIsRun, LongestAgrees, UpdateHasLongest
<1>2. LInv => LongestAgrees
  BY DEF LInv, LongestIsRun
<1>3. IInv /\ LInv /\ [Next]_vars => LInv'
  BY NextLongest
<1> QED BY <1>1, <1>2, <1>3, Invariance, PTL DEF Spec
=============================================================================
