--------------------------- MODULE RequestsProofs ---------------------------
(***************************************************************************)
(* The requests of several statements, for any votes, threads, days and    *)
(* clocks, and then all parts of a client's view together.                 *)
(*                                                                         *)
(* ReadsInv keeps what a request has between its statements: while nothing *)
(* was added or removed the changes it read are those of votes that are    *)
(* all there, the ranking of a profile is the sum of its votes, the chain  *)
(* of ancestors so far is linked to the post that was asked for.  What an  *)
(* answer says of totals follows when the last statement is read.          *)
(***************************************************************************)
EXTENDS MCRequests, FeedProofs, ApiProofs

-----------------------------------------------------------------------------
(* Net sums of votes. *)

Value(b) == IF b.positive THEN b.sats ELSE -b.sats
Values == [b \in Ballots |-> Value(b)]

LEMMA ValuesAreInt == \A b \in Ballots : Values[b] \in Int
  BY ReadsAssumption DEF Values, Value

NetsOf(S, sums) ==
  sums = [s \in SUBSET S |-> IF s = {} THEN 0 ELSE Value(Taken(s)) + sums[s \ {Taken(s)}]]

LEMMA NetIsSum ==
  ASSUME NEW S \in SUBSET Ballots
  PROVE  Net(S) = SumOver(Values, S)
<1>1. Net(S) = (CHOOSE sums : NetsOf(S, sums))[S]
  BY SMT DEF Net, MapThenSumSet, MapThenFoldSet, NetsOf, Taken, Value
<1>2. \A s \in SUBSET S : s # {} => Value(Taken(s)) = Values[Taken(s)]
  BY TakenLemma DEF Values
<1>3. \A sums : NetsOf(S, sums) <=> SumsOf(Values, S, sums)
  <2> TAKE sums
  <2>1. [s \in SUBSET S |-> IF s = {} THEN 0 ELSE Value(Taken(s)) + sums[s \ {Taken(s)}]]
        = [s \in SUBSET S |-> IF s = {} THEN 0 ELSE Values[Taken(s)] + sums[s \ {Taken(s)}]]
    BY <1>2
  <2> QED
    BY <2>1 DEF NetsOf, SumsOf
<1>4. IsFiniteSet(S)
  BY ReadsAssumption, FS_Subset
<1>5. SumsOf(Values, S, Sums(Values, S))
  BY <1>4, SumsExist
<1>6. SumsOf(Values, S, CHOOSE sums : NetsOf(S, sums))
  BY <1>3, <1>5
<1>7. (CHOOSE sums : NetsOf(S, sums))[S] = Sums(Values, S)[S]
  BY <1>4, <1>5, <1>6, SumsOfUnique
<1> QED
  BY <1>1, <1>7 DEF SumOver

\* The votes of a set are those of two halves of it.
LEMMA NetOfParts ==
  ASSUME NEW A \in SUBSET Ballots, NEW B \in SUBSET Ballots, A \cap B = {}
  PROVE  Net(A \cup B) = Net(A) + Net(B) /\ Net(A) \in Int /\ Net(B) \in Int
<1>1. IsFiniteSet(A) /\ IsFiniteSet(B) /\ A \cup B \in SUBSET Ballots
  BY ReadsAssumption, FS_Subset
<1>2. SumOver(Values, A \cup B) = SumOver(Values, A) + SumOver(Values, B)
  BY <1>1, SumUnion, ValuesAreInt
<1>3. SumOver(Values, A) \in Int /\ SumOver(Values, B) \in Int
  BY <1>1, SumType, ValuesAreInt
<1> QED
  BY <1>1, <1>2, <1>3, NetIsSum

LEMMA WalletsFinite ==
  ASSUME NEW S \in SUBSET Ballots
  PROVE  IsFiniteSet(S) /\ IsFiniteSet(WalletsOf(S))
<1>1. IsFiniteSet(S)
  BY ReadsAssumption, FS_Subset
<1> DEFINE f == [b \in S |-> b.wallet]
<1>2. f \in Surjection(S, WalletsOf(S))
  BY DEF Surjection, WalletsOf
<1> HIDE DEF f
<1>3. IsFiniteSet(WalletsOf(S))
  BY <1>1, <1>2, FS_Surjection
<1> QED
  BY <1>1, <1>3

\* What the voters gave, voter by voter.
VotesGiven(voters) == MapThenSumSet(LAMBDA w : voters[w], DOMAIN voters)

LEMMA VotersSum ==
  ASSUME NEW S \in SUBSET Ballots, NEW voters,
         voters = [w \in WalletsOf(S) |-> Net({b \in S : b.wallet = w})]
  PROVE  VotesGiven(voters) = Net(S)
<1> DEFINE W == WalletsOf(S)
           share == [w \in W |-> {b \in S : b.wallet = w}]
<1>1. IsFiniteSet(S) /\ IsFiniteSet(W)
  BY ReadsAssumption, WalletsFinite
<1>2. VotesGiven(voters) = SumOver(voters, DOMAIN voters)
  BY SMT DEF VotesGiven, MapThenSumSet, MapThenFoldSet, SumOver, Sums, SumsOf, Taken
<1>3. DOMAIN voters = W
  OBVIOUS
<1>4. \A w \in W : share[w] \in SUBSET S /\ voters[w] = SumOver(Values, share[w])
  <2> TAKE w \in W
  <2>1. share[w] = {b \in S : b.wallet = w} /\ share[w] \in SUBSET Ballots
    OBVIOUS
  <2> QED
    BY <2>1, NetIsSum
<1>5. \A w, z \in W : w # z => share[w] \cap share[z] = {}
  OBVIOUS
<1>6. UNION {share[w] : w \in W} = S
  <2>1. ASSUME NEW b \in S PROVE b \in UNION {share[w] : w \in W}
    <3>1. b.wallet \in W /\ b \in share[b.wallet]
      BY DEF WalletsOf
    <3> HIDE DEF W, share
    <3> QED
      BY <3>1
  <2>2. \A w \in W : share[w] \in SUBSET S
    BY <1>4
  <2> HIDE DEF W, share
  <2> QED
    BY <2>1, <2>2
<1>7. \A b \in S : Values[b] \in Int
  BY ValuesAreInt
<1> HIDE DEF W, share
<1>8. /\ \A w \in W : share[w] \in SUBSET S
      /\ \A w \in W : voters[w] = SumOver(Values, share[w])
  BY <1>4
<1>9. SumOver(voters, W) = SumOver(Values, UNION {share[w] : w \in W})
  BY ONLY <1>1, <1>5, <1>7, <1>8, SumOfSums
<1> QED
  BY <1>2, <1>3, <1>6, <1>9, NetIsSum

-----------------------------------------------------------------------------
(* The invariant *)

Untouched == crossed \cap {"added", "removed"} = {}
OfOneDay == crossed \subseteq {"added"}

\* Each day in whose summary a vote was is the midnight after it, or the one
\* before when that is its own time.
CountedOnDays ==
  \A b \in Ballots : \A day \in counted[b] :
    /\ day \in Nat /\ day % DayLength = 0
    /\ votes[b] >= 0 /\ day - DayLength <= votes[b] /\ votes[b] <= day

ClocksAndDays ==
  /\ clock \in 0..MaxClock
  /\ votes \in [Ballots -> -2..MaxClock]
  /\ crossed \subseteq {"added", "confirmed", "removed", "midnight"}
  /\ counted \in [Ballots -> SUBSET Nat]
  /\ CountedOnDays

\* The change of each group is that of votes which are all there.
ChangesOfVotes(r) ==
  /\ ToSet(r.first) \subseteq DOMAIN r.changes
  /\ Untouched => \A x \in DOMAIN r.changes : \E Y \in SUBSET Present :
                    r.changes[x] = Net({b \in Y : b.item.id = x})

UpvotesOfDay(r) ==
  /\ r.up \in SUBSET Ballots
  /\ OfOneDay => r.up = {b \in Yesterday : b.positive}

RankingOfRow(r) == r.item \in Items /\ (Untouched => r.ranking = Total(r.item))

Ancestors == [post : Replies, reply : BOOLEAN, meta : BOOLEAN]

\* Each of a chain is the parent of the next, the last one that of post.
Linked(chain, post) ==
  \A i \in DOMAIN chain :
    Parent[IF i = Len(chain) THEN post ELSE chain[i + 1].post] = chain[i].post

\* What is read of a thread so far, and the post to be read next.
ThreadSoFar(r) ==
  /\ DOMAIN r = {"at", "post", "depth", "next", "ancestors", "alone"}
  /\ r.depth \in Nat \ {0} /\ r.next \in Replies
  /\ r.ancestors \in Seq(Ancestors) /\ Linked(r.ancestors, r.post)
  /\ Len(r.ancestors) < r.depth
  /\ r.next = Parent[IF r.ancestors = <<>> THEN r.post ELSE r.ancestors[1].post]

Between ==
  /\ request.at \in {"idle", "items", "ranked", "downvotes", "summary", "voters",
                     "profile", "ancestors", "post"}
  /\ request.at = "idle" => request = Idle
  /\ request.at = "items" => ChangesOfVotes(request)
  /\ request.at = "downvotes" => UpvotesOfDay(request)
  /\ request.at = "voters" => RankingOfRow(request)
  /\ request.at = "ancestors" => ThreadSoFar(request)

AnswersOfReads == ChangesFitTotals /\ SummaryIsOfOneMoment /\ VotersAddUp /\ AncestorsAreComplete

ReadsInv == ClocksAndDays /\ Between /\ AnswersOfReads

-----------------------------------------------------------------------------
(* Votes and the clock *)

\* What a step of the tables says of the clock.
LEMMA SameDay ==
  ASSUME NEW c \in Nat, (c + 1) % DayLength # 0
  PROVE  (c + 1) \div DayLength = c \div DayLength
<1>1. PICK D : D = DayLength
  OBVIOUS
<1>2. D \in Nat \ {0}
  BY <1>1, ReadsAssumption
<1>3. c = D * (c \div D) + (c % D) /\ c % D \in 0..(D - 1) /\ c \div D \in Nat
  BY <1>2
<1>4. c + 1 = D * ((c + 1) \div D) + ((c + 1) % D) /\ (c + 1) % D \in 0..(D - 1)
      /\ (c + 1) \div D \in Nat
  BY <1>2
<1>5. (c + 1) % D \in 1..(D - 1)
  BY <1>1, <1>4
<1>6. PICK a, b, r, s : a = c \div D /\ b = (c + 1) \div D /\ r = c % D /\ s = ((c + 1) % D) - 1
  OBVIOUS
<1>7. a \in Int /\ b \in Int /\ r \in 0..(D - 1) /\ s \in 0..(D - 1) /\ a * D + r = b * D + s
  BY <1>2, <1>3, <1>4, <1>5, <1>6
<1>8. a = b
  BY ONLY <1>2, <1>7
<1> QED
  BY <1>1, <1>6, <1>8

LEMMA DaysBefore ==
  ASSUME ClocksAndDays
  PROVE  /\ ThisDay \in Nat /\ ThisDay % DayLength = 0
         /\ \A b \in Yesterday : /\ b \in Ballots /\ votes[b] >= 0
                                 /\ ThisDay - DayLength <= votes[b] /\ votes[b] <= ThisDay
<1>1. clock \in Nat /\ DayLength \in Nat \ {0}
  BY ReadsAssumption DEF ClocksAndDays
<1>2. PICK q : q = clock \div DayLength
  OBVIOUS
<1>3. q \in Nat
  BY <1>1, <1>2
<1>4. ThisDay = q * DayLength
  BY <1>2 DEF ThisDay
<1>5. q * DayLength \in Nat /\ (q * DayLength) % DayLength = 0
  BY <1>1, <1>3
<1>6. \A b \in Yesterday : /\ b \in Ballots /\ votes[b] >= 0
                           /\ ThisDay - DayLength <= votes[b] /\ votes[b] <= ThisDay
  BY <1>1, <1>4, <1>5 DEF Yesterday, ClocksAndDays
<1> QED
  BY <1>4, <1>5, <1>6

Tables == Vote \/ ConfirmVote \/ Rewind \/ ClockTicks

LEMMA TablesKeepDays ==
  ASSUME ClocksAndDays, Tables
  PROVE  ClocksAndDays'
<1>1. MaxClock \in Nat
  BY ReadsAssumption
<1>2. CASE Vote
  <2>1. PICK b \in Ballots : votes[b] = Absent /\ votes' = [votes EXCEPT ![b] = Pending]
    BY <1>2 DEF Vote
  <2>2. clock' = clock /\ counted' = counted
    BY <1>2 DEF Vote
  <2>3. crossed' \subseteq {"added", "confirmed", "removed", "midnight"}
    BY <1>2 DEF Vote, Crosses, ClocksAndDays
  <2>4. votes' \in [Ballots -> -2..MaxClock]
    BY <1>1, <2>1 DEF ClocksAndDays, Pending
  <2>5. counted[b] = {}
    BY <2>1 DEF ClocksAndDays, CountedOnDays, Absent
  <2>6. CountedOnDays'
    BY <2>1, <2>2, <2>5 DEF ClocksAndDays, CountedOnDays
  <2> QED
    BY <2>2, <2>3, <2>4, <2>6 DEF ClocksAndDays
<1>3. CASE ConfirmVote
  <2>1. PICK b \in Ballots : votes[b] = Pending /\ votes' = [votes EXCEPT ![b] = clock]
    BY <1>3 DEF ConfirmVote
  <2>2. clock' = clock /\ counted' = counted
    BY <1>3 DEF ConfirmVote
  <2>3. crossed' \subseteq {"added", "confirmed", "removed", "midnight"}
    BY <1>3 DEF ConfirmVote, Crosses, ClocksAndDays
  <2>4. votes' \in [Ballots -> -2..MaxClock]
    BY <1>1, <2>1 DEF ClocksAndDays
  <2>5. counted[b] = {}
    BY <2>1 DEF ClocksAndDays, CountedOnDays, Pending
  <2>6. CountedOnDays'
    BY <2>1, <2>2, <2>5 DEF ClocksAndDays, CountedOnDays
  <2> QED
    BY <2>2, <2>3, <2>4, <2>6 DEF ClocksAndDays
<1>4. CASE Rewind
  <2>1. PICK b \in Ballots : /\ votes[b] # Absent /\ votes' = [votes EXCEPT ![b] = Absent]
                             /\ counted' = [counted EXCEPT ![b] = {}]
    BY <1>4 DEF Rewind
  <2>2. clock' = clock
    BY <1>4 DEF Rewind
  <2>3. crossed' \subseteq {"added", "confirmed", "removed", "midnight"}
    BY <1>4 DEF Rewind, Crosses, ClocksAndDays
  <2>4. votes' \in [Ballots -> -2..MaxClock] /\ counted' \in [Ballots -> SUBSET Nat]
    BY <1>1, <2>1 DEF ClocksAndDays, Absent
  <2>5. CountedOnDays'
    BY <2>1 DEF ClocksAndDays, CountedOnDays
  <2> QED
    BY <2>2, <2>3, <2>4, <2>5 DEF ClocksAndDays
<1>5. CASE ClockTicks
  <2>1. clock' \in 0..MaxClock
    BY <1>1, <1>5 DEF ClockTicks, ClocksAndDays
  <2>2. votes' = votes /\ counted' = counted
    BY <1>5 DEF ClockTicks
  <2>3. crossed' \subseteq {"added", "confirmed", "removed", "midnight"}
    BY <1>5 DEF ClockTicks, Crosses, ClocksAndDays
  <2> QED
    BY <2>1, <2>2, <2>3 DEF ClocksAndDays, CountedOnDays
<1> QED
  BY <1>2, <1>3, <1>4, <1>5 DEF Tables

\* As long as nothing came or went, what is there stays the same.
LEMMA TablesKeepPresent ==
  ASSUME ClocksAndDays, Tables, request # Idle, Untouched'
  PROVE  Untouched /\ Present' = Present
<1>1. CASE Vote
  BY <1>1 DEF Vote, Crosses, Untouched
<1>2. CASE ConfirmVote
  <2>1. PICK b \in Ballots : votes[b] = Pending /\ votes' = [votes EXCEPT ![b] = clock]
    BY <1>2 DEF ConfirmVote
  <2>2. Untouched
    BY <1>2 DEF ConfirmVote, Crosses, Untouched
  <2>3. \A c \in Ballots : votes'[c] # Absent <=> votes[c] # Absent
    BY <2>1 DEF ClocksAndDays, Pending, Absent
  <2> QED
    BY <2>2, <2>3 DEF Present
<1>3. CASE Rewind
  BY <1>3 DEF Rewind, Crosses, Untouched
<1>4. CASE ClockTicks
  BY <1>4 DEF ClockTicks, Crosses, Untouched, Present
<1> QED
  BY <1>1, <1>2, <1>3, <1>4 DEF Tables

\* As long as nothing but a vote without a time came, neither does what the day
\* before has.
LEMMA TablesKeepYesterday ==
  ASSUME ClocksAndDays, Tables, request # Idle, OfOneDay'
  PROVE  OfOneDay /\ Yesterday' = Yesterday
<1>1. CASE Vote
  <2>1. PICK b \in Ballots : votes[b] = Absent /\ votes' = [votes EXCEPT ![b] = Pending]
    BY <1>1 DEF Vote
  <2>2. OfOneDay /\ clock' = clock
    BY <1>1 DEF Vote, Crosses, OfOneDay
  <2>3. ThisDay' = ThisDay
    BY <2>2 DEF ThisDay
  <2>4. \A c \in Ballots : c # b => votes'[c] = votes[c]
    BY <2>1 DEF ClocksAndDays
  <2>5. ~(votes[b] >= 0) /\ ~(votes'[b] >= 0)
    BY <2>1 DEF ClocksAndDays, Absent, Pending
  <2> QED
    BY <2>2, <2>3, <2>4, <2>5 DEF Yesterday
<1>2. CASE ConfirmVote
  BY <1>2 DEF ConfirmVote, Crosses, OfOneDay
<1>3. CASE Rewind
  BY <1>3 DEF Rewind, Crosses, OfOneDay
<1>4. CASE ClockTicks
  <2>1. clock' = clock + 1 /\ votes' = votes /\ clock \in Nat
    BY <1>4, ReadsAssumption DEF ClockTicks, ClocksAndDays
  <2>2. (clock + 1) % DayLength # 0 /\ OfOneDay
    <3>1. clock' % DayLength # 0
      BY <1>4 DEF ClockTicks, Crosses, OfOneDay
    <3>2. crossed' = crossed
      BY <1>4, <3>1 DEF ClockTicks
    <3> QED
      BY <2>1, <3>1, <3>2 DEF OfOneDay
  <2>3. (clock + 1) \div DayLength = clock \div DayLength
    BY <2>1, <2>2, SameDay
  <2>4. ThisDay' = ThisDay
    BY <2>1, <2>3 DEF ThisDay
  <2> QED
    BY <2>1, <2>2, <2>4 DEF Yesterday
<1> QED
  BY <1>1, <1>2, <1>3, <1>4 DEF Tables

\* Hence what a request has read says the same of the tables as before.
LEMMA TablesKeepReadsInv ==
  ASSUME ReadsInv, Tables
  PROVE  ReadsInv'
<1>1. ClocksAndDays'
  BY TablesKeepDays DEF ReadsInv
<1>2. request' = request
  BY DEF Tables, Vote, ConfirmVote, Rewind, ClockTicks
<1>3. CASE request = Idle
  <2>1. request'.at = "idle"
    BY <1>2, <1>3 DEF Idle
  <2> QED
    BY <1>1, <1>2, <1>3, <2>1 DEF ReadsInv, Between, AnswersOfReads, ChangesFitTotals,
      SummaryIsOfOneMoment, VotersAddUp, AncestorsAreComplete
<1>4. CASE request # Idle
  <2>1. Untouched' => Untouched /\ Present' = Present
    BY <1>4, TablesKeepPresent DEF ReadsInv
  <2>2. OfOneDay' => OfOneDay /\ Yesterday' = Yesterday
    BY <1>4, TablesKeepYesterday DEF ReadsInv
  <2>3. ChangesOfVotes(request) => ChangesOfVotes(request)'
    BY <1>2, <2>1 DEF ChangesOfVotes
  <2>4. UpvotesOfDay(request) => UpvotesOfDay(request)'
    BY <1>2, <2>2 DEF UpvotesOfDay
  <2>5. RankingOfRow(request) => RankingOfRow(request)'
    BY <1>2, <2>1 DEF RankingOfRow, Total
  <2>6. ThreadSoFar(request) => ThreadSoFar(request)'
    BY <1>2 DEF ThreadSoFar, Linked
  <2>7. Between'
    BY <1>2, <2>3, <2>4, <2>5, <2>6 DEF ReadsInv, Between
  <2>8. ChangesFitTotals'
    BY <1>2, <2>1 DEF ReadsInv, AnswersOfReads, ChangesFitTotals, Untouched
  <2>9. SummaryIsOfOneMoment'
    BY <1>2, <2>2 DEF ReadsInv, AnswersOfReads, SummaryIsOfOneMoment, OfOneDay
  <2>10. VotersAddUp'
    BY <1>2, <2>1 DEF ReadsInv, AnswersOfReads, VotersAddUp, Untouched, MapThenSumSet, MapThenFoldSet
  <2>11. AncestorsAreComplete'
    BY <1>2 DEF ReadsInv, AnswersOfReads, AncestorsAreComplete
  <2> QED
    BY <1>1, <2>7, <2>8, <2>9, <2>10, <2>11 DEF ReadsInv, AnswersOfReads
<1> QED
  BY <1>3, <1>4

-----------------------------------------------------------------------------
(* Requests *)

\* What a request keeps when it goes to a phase that has no answer.
LEMMA NoAnswer ==
  ASSUME NEW r, request' = r, r.at \notin {"ranked", "summary", "profile", "post"}
  PROVE  AnswersOfReads'
  BY DEF AnswersOfReads, ChangesFitTotals, SummaryIsOfOneMoment, VotersAddUp, AncestorsAreComplete

LEMMA ReadOnlyKeepsDays ==
  ASSUME ClocksAndDays, ReadOnly, counted' = counted
  PROVE  ClocksAndDays' /\ Present' = Present /\ (Untouched' <=> Untouched)
  BY DEF ClocksAndDays, ReadOnly, CountedOnDays, Present, Untouched

\* The items of ballots are finitely many.
LEMMA GroupsFinite ==
  ASSUME NEW S \in SUBSET Ballots
  PROVE  IsFiniteSet({b.item.id : b \in S})
<1> DEFINE f == [b \in S |-> b.item.id]
<1>1. IsFiniteSet(S)
  BY WalletsFinite
<1>2. f \in Surjection(S, {b.item.id : b \in S})
  BY DEF Surjection
<1> HIDE DEF f
<1> QED
  BY <1>1, <1>2, FS_Surjection

LEMMA FirstOfOrder ==
  ASSUME NEW S, IsFiniteSet(S), NEW order \in SetToSeqs(S), NEW n \in Nat
  PROVE  ToSet(SubSeq(order, 1, IF Len(order) < n THEN Len(order) ELSE n)) \subseteq S
<1>1. PICK k : k = Cardinality(S)
  OBVIOUS
<1>2. k \in Nat /\ order \in [1..k -> S]
  BY <1>1, FS_CardinalityType DEF SetToSeqs
<1>3. order \in Seq(S) /\ Len(order) = k
  BY <1>2
<1>4. PICK m : m = IF Len(order) < n THEN Len(order) ELSE n
  OBVIOUS
<1>5. m \in 0..k
  BY <1>2, <1>3, <1>4
<1>6. SubSeq(order, 1, m) = [i \in 1..m |-> order[i]]
  BY <1>3, <1>5
<1>7. \A i \in 1..m : order[i] \in S
  BY <1>2, <1>5
<1> QED
  BY <1>4, <1>6, <1>7 DEF ToSet

LEMMA RankGroupsKeeps ==
  ASSUME ReadsInv, RankGroups
  PROVE  ReadsInv'
<1>1. ClocksAndDays' /\ Present' = Present
  BY ReadOnlyKeepsDays DEF ReadsInv, RankGroups
<1>2. PICK top \in BOOLEAN,
           changes \in {[x \in {b.item.id : b \in Yesterday} |->
                           Change({b \in Yesterday : b.item.id = x})]} :
        \E order \in SetToSeqs(DOMAIN changes) :
          request' = [at |-> "items", top |-> top, changes |-> changes,
                      first |-> SubSeq(order, 1, IF Len(order) < ResultCount
                                                 THEN Len(order) ELSE ResultCount)]
  BY DEF RankGroups
<1>3. PICK order \in SetToSeqs(DOMAIN changes) :
        request' = [at |-> "items", top |-> top, changes |-> changes,
                    first |-> SubSeq(order, 1, IF Len(order) < ResultCount
                                               THEN Len(order) ELSE ResultCount)]
  BY <1>2
<1>4. Yesterday \in SUBSET Ballots /\ Yesterday \in SUBSET Present
  BY DEF Yesterday, Present, Absent
<1>5. DOMAIN changes = {b.item.id : b \in Yesterday}
  OBVIOUS
<1>6. ToSet(request'.first) \subseteq DOMAIN changes
  <2>1. IsFiniteSet(DOMAIN changes)
    BY <1>4, <1>5, GroupsFinite
  <2>2. ToSet(SubSeq(order, 1, IF Len(order) < ResultCount THEN Len(order) ELSE ResultCount))
          \subseteq DOMAIN changes
    BY <2>1, FirstOfOrder, ReadsAssumption
  <2> QED
    BY <1>3, <2>2
<1>7. \A x \in DOMAIN changes : changes[x] = Net({b \in Yesterday : b.item.id = x})
  BY DEF Change
<1>8. request'.at = "items" /\ request'.changes = changes
  BY <1>3
<1>9. ChangesOfVotes(request)'
  BY <1>1, <1>4, <1>6, <1>7, <1>8 DEF ChangesOfVotes
<1>10. Between'
  BY <1>8, <1>9 DEF Between
<1>11. AnswersOfReads'
  BY <1>8, NoAnswer
<1> QED
  BY <1>1, <1>10, <1>11 DEF ReadsInv

LEMMA RankItemsKeeps ==
  ASSUME ReadsInv, RankItems
  PROVE  ReadsInv'
<1>1. ClocksAndDays' /\ Present' = Present /\ (Untouched' <=> Untouched)
  BY ReadOnlyKeepsDays DEF ReadsInv, RankItems
<1>2. request.at = "items" /\ ChangesOfVotes(request)
  BY DEF RankItems, ReadsInv, Between
<1>3. PICK row \in [ToSet(request.first) -> Items] :
        /\ \A x \in DOMAIN row : row[x].id = x
        /\ request' =
             [at |-> "ranked",
              shown |-> {[item |-> row[x], changed |-> request.changes[x], total |-> Total(row[x])] :
                 x \in {x \in DOMAIN row : IF request.top THEN request.changes[x] > 0
                                                         ELSE request.changes[x] < 0}}]
  BY DEF RankItems
<1>4. request'.at = "ranked"
  BY <1>3
<1>5. ASSUME Untouched, NEW s \in request'.shown, s.item.id \notin SharedIds
      PROVE  \E rest \in SUBSET {b \in Present : b.item = s.item} :
               s.total - s.changed = Net(rest)
  <2>1. PICK x \in DOMAIN row :
          s = [item |-> row[x], changed |-> request.changes[x], total |-> Total(row[x])]
    BY <1>3, <1>5
  <2>2. s.item = row[x] /\ s.item \in Items /\ s.item.id = x /\ x \in DOMAIN request.changes
        /\ s.total = Total(s.item) /\ s.changed = request.changes[x]
    BY <1>2, <1>3, <2>1 DEF ChangesOfVotes
  <2>3. PICK Y \in SUBSET Present : request.changes[x] = Net({b \in Y : b.item.id = x})
    BY <1>2, <1>5, <2>2 DEF ChangesOfVotes
  <2>4. \A b \in Ballots : b.item.id = x <=> b.item = s.item
    BY <1>5, <2>2, ReadsAssumption DEF SharedIds, Ids
  <2>5. PICK A, B : A = {b \in Y : b.item.id = x} /\ B = {b \in Present : b.item = s.item} \ A
    OBVIOUS
  <2>6. /\ A \in SUBSET Ballots /\ B \in SUBSET Ballots /\ A \cap B = {}
        /\ B \in SUBSET {b \in Present : b.item = s.item}
        /\ A \cup B = {b \in Present : b.item = s.item}
    BY <2>3, <2>4, <2>5 DEF Present
  <2>7. Net(A \cup B) = Net(A) + Net(B) /\ Net(A) \in Int /\ Net(B) \in Int
    BY <2>6, NetOfParts
  <2>8. s.total = Net(A \cup B) /\ s.changed = Net(A)
    BY <2>2, <2>3, <2>5, <2>6 DEF Total
  <2>9. s.total - s.changed = Net(B)
    BY <2>7, <2>8
  <2> QED
    BY <2>6, <2>9
<1>6. ChangesFitTotals'
  BY <1>1, <1>5 DEF ChangesFitTotals, Untouched
<1>7. Between'
  BY <1>4 DEF Between
<1>8. SummaryIsOfOneMoment' /\ VotersAddUp' /\ AncestorsAreComplete'
  BY <1>4 DEF SummaryIsOfOneMoment, VotersAddUp, AncestorsAreComplete
<1> QED
  BY <1>1, <1>6, <1>7, <1>8 DEF ReadsInv, AnswersOfReads

\* The days that a statement of the summary adds.
LEMMA CountsKeepsDays ==
  ASSUME ClocksAndDays, NEW S \in SUBSET Yesterday, Counts(S), ReadOnly
  PROVE  ClocksAndDays' /\ Yesterday' = Yesterday /\ (OfOneDay' <=> OfOneDay)
<1>1. /\ ThisDay \in Nat /\ ThisDay % DayLength = 0
      /\ \A b \in Yesterday : /\ b \in Ballots /\ votes[b] >= 0
                              /\ ThisDay - DayLength <= votes[b] /\ votes[b] <= ThisDay
  BY DaysBefore
<1>2. clock' = clock /\ votes' = votes /\ crossed' = crossed
  BY DEF ReadOnly
<1>3. PICK day : day = ThisDay
  OBVIOUS
<1>4. counted' = [b \in Ballots |-> IF b \in S THEN counted[b] \cup {day} ELSE counted[b]]
  BY <1>3 DEF Counts
<1>5. counted' \in [Ballots -> SUBSET Nat]
  BY <1>1, <1>3, <1>4 DEF ClocksAndDays
<1>6. CountedOnDays'
  <2> SUFFICES ASSUME NEW b \in Ballots, NEW d \in counted'[b]
               PROVE  /\ d \in Nat /\ d % DayLength = 0
                      /\ votes[b] >= 0 /\ d - DayLength <= votes[b] /\ votes[b] <= d
    BY <1>2 DEF CountedOnDays
  <2>1. CASE d \in counted[b]
    BY <2>1 DEF ClocksAndDays, CountedOnDays
  <2>2. CASE d \notin counted[b]
    <3>1. b \in S /\ d = day
      BY <1>4, <2>2
    <3> QED
      BY <1>1, <1>3, <3>1
  <2> QED
    BY <2>1, <2>2
<1>7. ThisDay' = ThisDay
  BY <1>2 DEF ThisDay
<1> QED
  BY <1>2, <1>5, <1>6, <1>7 DEF ClocksAndDays, Yesterday, OfOneDay

LEMMA ChartUpvotesKeeps ==
  ASSUME ReadsInv, ChartUpvotes
  PROVE  ReadsInv'
<1>1. PICK up : /\ up = {b \in Yesterday : b.positive} /\ Counts(up)
                /\ request' = [at |-> "downvotes", up |-> up]
  BY DEF ChartUpvotes
<1>2. ClocksAndDays' /\ Yesterday' = Yesterday
  BY <1>1, CountsKeepsDays DEF ReadsInv, ChartUpvotes
<1>3. request'.at = "downvotes" /\ request'.up = up
  BY <1>1
<1>4. UpvotesOfDay(request)'
  BY <1>1, <1>2, <1>3 DEF UpvotesOfDay, Yesterday
<1>5. Between'
  BY <1>3, <1>4 DEF Between
<1>6. AnswersOfReads'
  BY <1>3, NoAnswer
<1> QED
  BY <1>2, <1>5, <1>6 DEF ReadsInv

LEMMA ChartDownvotesKeeps ==
  ASSUME ReadsInv, ChartDownvotes
  PROVE  ReadsInv'
<1>1. PICK down : /\ down = {b \in Yesterday : ~b.positive} /\ Counts(down)
                  /\ request' = [at |-> "summary",
                                 wallets |-> UniqueWallets(request.up, down),
                                 votes |-> Cardinality(request.up) + Cardinality(down)]
  BY DEF ChartDownvotes
<1>2. ClocksAndDays' /\ Yesterday' = Yesterday /\ (OfOneDay' <=> OfOneDay)
  BY <1>1, CountsKeepsDays DEF ReadsInv, ChartDownvotes
<1>3. UpvotesOfDay(request)
  BY DEF ChartDownvotes, ReadsInv, Between
<1>4. /\ request'.at = "summary"
      /\ request'.wallets = UniqueWallets(request.up, down)
      /\ request'.votes = Cardinality(request.up) + Cardinality(down)
  BY <1>1
<1>5. ASSUME OfOneDay
      PROVE  /\ request'.votes = Cardinality(Yesterday)
             /\ request'.wallets = Cardinality(WalletsOf(Yesterday))
  <2>1. PICK up : up = request.up
    OBVIOUS
  <2>2. /\ up = {b \in Yesterday : b.positive}
        /\ up \in SUBSET Ballots /\ down \in SUBSET Ballots
    BY <1>1, <1>3, <1>5, <2>1 DEF UpvotesOfDay, Yesterday
  <2>3. up \cup down = Yesterday /\ up \cap down = {}
    BY <1>1, <2>2
  <2>4. IsFiniteSet(up) /\ IsFiniteSet(down)
    BY <2>2, WalletsFinite
  <2>5. Cardinality(up \cup down) = Cardinality(up) + Cardinality(down)
    <3>1. Cardinality(up) \in Nat /\ Cardinality(down) \in Nat /\ Cardinality(up \cap down) = 0
      BY <2>3, <2>4, FS_EmptySet, FS_CardinalityType
    <3>2. Cardinality(up \cup down)
            = Cardinality(up) + Cardinality(down) - Cardinality(up \cap down)
      BY ONLY <2>4, FS_Union
    <3> QED
      BY <3>1, <3>2
  <2>6. WalletsOf(up) \cup WalletsOf(down) = WalletsOf(Yesterday)
    BY <2>3 DEF WalletsOf
  <2> QED
    BY <1>4, <2>1, <2>3, <2>5, <2>6 DEF UniqueWallets
<1>6. SummaryIsOfOneMoment'
  BY <1>2, <1>5 DEF SummaryIsOfOneMoment, OfOneDay
<1>7. Between'
  BY <1>4 DEF Between
<1>8. ChangesFitTotals' /\ VotersAddUp' /\ AncestorsAreComplete'
  BY <1>4 DEF ChangesFitTotals, VotersAddUp, AncestorsAreComplete
<1> QED
  BY <1>2, <1>6, <1>7, <1>8 DEF ReadsInv, AnswersOfReads

LEMMA ProfileRowKeeps ==
  ASSUME ReadsInv, ProfileRow
  PROVE  ReadsInv'
<1>1. ClocksAndDays' /\ Present' = Present
  BY ReadOnlyKeepsDays DEF ReadsInv, ProfileRow
<1>2. PICK item \in Items : request' = [at |-> "voters", item |-> item, ranking |-> Total(item)]
  BY DEF ProfileRow
<1>3. request'.at = "voters" /\ request'.item = item /\ request'.ranking = Total(item)
  BY <1>2
<1>4. RankingOfRow(request)'
  BY <1>1, <1>3 DEF RankingOfRow, Total
<1>5. Between'
  BY <1>3, <1>4 DEF Between
<1>6. AnswersOfReads'
  BY <1>3, NoAnswer
<1> QED
  BY <1>1, <1>5, <1>6 DEF ReadsInv

LEMMA ProfileVotersKeeps ==
  ASSUME ReadsInv, ProfileVoters
  PROVE  ReadsInv'
<1>1. ClocksAndDays' /\ Present' = Present /\ (Untouched' <=> Untouched)
  BY ReadOnlyKeepsDays DEF ReadsInv, ProfileVoters
<1>2. PICK found : found = {b \in Present : b.item.id = request.item.id}
  OBVIOUS
<1>3. PICK voters \in {[w \in WalletsOf(found) |-> VoterRanking({b \in found : b.wallet = w})], <<>>} :
        request' = [at |-> "profile", item |-> request.item, ranking |-> request.ranking,
                    failed |-> voters = <<>> /\ found # {}, voters |-> voters]
  BY <1>2 DEF ProfileVoters
<1>4. RankingOfRow(request)
  BY DEF ProfileVoters, ReadsInv, Between
<1>5. /\ request'.at = "profile" /\ request'.item = request.item
      /\ request'.ranking = request.ranking /\ request'.voters = voters
      /\ request'.failed <=> voters = <<>> /\ found # {}
  BY <1>3
<1>6. found \in SUBSET Ballots
  BY <1>2 DEF Present
<1>7. ASSUME Untouched, ~(voters = <<>> /\ found # {}), request.item.id \notin SharedIds
      PROVE  VotesGiven(voters) = request.ranking
  <2>1. voters = [w \in WalletsOf(found) |-> Net({b \in found : b.wallet = w})]
    <3>1. CASE voters = <<>>
      <4>1. found = {} /\ WalletsOf(found) = {}
        BY <1>7, <3>1 DEF WalletsOf
      <4>2. voters = [w \in {} |-> Net({b \in found : b.wallet = w})]
        BY <3>1
      <4> QED
        BY <4>1, <4>2
    <3> QED
      BY <1>3, <3>1 DEF VoterRanking
  <2>2. VotesGiven(voters) = Net(found)
    BY <1>6, <2>1, VotersSum
  <2>3. \A b \in Ballots : b.item.id = request.item.id <=> b.item = request.item
    BY <1>4, <1>7, ReadsAssumption DEF SharedIds, Ids, RankingOfRow
  <2>4. found = {b \in Present : b.item = request.item}
    BY <1>2, <2>3 DEF Present
  <2> QED
    BY <1>4, <1>7, <2>2, <2>4 DEF RankingOfRow, Total
<1>8. VotersAddUp'
  <2>1. \/ ~(/\ request'.at = "profile" /\ ~request'.failed
             /\ crossed' \cap {"added", "removed"} = {} /\ request'.item.id \notin SharedIds)
        \/ VotesGiven(request'.voters) = request'.ranking
    BY <1>1, <1>5, <1>7 DEF Untouched
  <2> QED
    BY <2>1 DEF VotersAddUp, VotesGiven, MapThenSumSet, MapThenFoldSet
<1>9. Between'
  BY <1>5 DEF Between
<1>10. ChangesFitTotals' /\ SummaryIsOfOneMoment' /\ AncestorsAreComplete'
  BY <1>5 DEF ChangesFitTotals, SummaryIsOfOneMoment, AncestorsAreComplete
<1> QED
  BY <1>1, <1>8, <1>9, <1>10 DEF ReadsInv, AnswersOfReads

LEMMA ReadPostKeeps ==
  ASSUME ReadsInv, ReadPost
  PROVE  ReadsInv'
<1>1. ClocksAndDays'
  BY ReadOnlyKeepsDays DEF ReadsInv, ReadPost
<1>2. PICK p \in Replies, depth \in {1, MaxDepth}, replies \in BOOLEAN, alone \in BOOLEAN :
        /\ replies => Parent[p] # 0
        /\ request' = [at |-> IF replies THEN "ancestors" ELSE "post",
                       post |-> p, depth |-> depth, next |-> Parent[p], ancestors |-> <<>>,
                       alone |-> alone]
  <2>1. PICK p \in Replies, depth \in {1, MaxDepth}, commented \in BOOLEAN :
          request' =
            [at |-> IF commented /\ Parent[p] # 0 THEN "ancestors" ELSE "post",
             post |-> p, depth |-> depth, next |-> Parent[p], ancestors |-> <<>>,
             alone |-> ~(commented /\ Parent[p] # 0) \/ Author[Parent[p]] = Author[p]]
    BY DEF ReadPost
  <2>2. PICK replies \in BOOLEAN : replies <=> commented /\ Parent[p] # 0
    OBVIOUS
  <2>3. PICK alone \in BOOLEAN :
          alone <=> (~(commented /\ Parent[p] # 0) \/ Author[Parent[p]] = Author[p])
    OBVIOUS
  <2> QED
    BY <2>1, <2>2, <2>3
<1>3. CASE replies
  <2>1. /\ request'.at = "ancestors" /\ request'.ancestors = <<>> /\ request'.post = p
        /\ request'.next = Parent[p] /\ request'.depth = depth
        /\ DOMAIN request' = {"at", "post", "depth", "next", "ancestors", "alone"}
    BY <1>2, <1>3
  <2>2. Parent[p] \in Replies /\ depth \in Nat \ {0}
    BY <1>2, <1>3, ReadsAssumption
  <2>3. <<>> \in Seq(Ancestors) /\ Len(<<>>) = 0 /\ DOMAIN <<>> = {}
    OBVIOUS
  <2>4. ThreadSoFar(request)'
    BY <2>1, <2>2, <2>3 DEF ThreadSoFar, Linked
  <2>5. Between'
    BY <2>1, <2>4 DEF Between
  <2>6. AnswersOfReads'
    BY <2>1, NoAnswer
  <2> QED
    BY <1>1, <2>5, <2>6 DEF ReadsInv
<1>4. CASE ~replies
  <2>1. request'.at = "post" /\ request'.ancestors = <<>>
    BY <1>2, <1>4
  <2> QED
    BY <1>1, <2>1 DEF ReadsInv, Between, AnswersOfReads, ChangesFitTotals,
      SummaryIsOfOneMoment, VotersAddUp, AncestorsAreComplete
<1> QED
  BY <1>3, <1>4

\* A chain with one more ancestor above it.
LEMMA OneMoreLink ==
  ASSUME NEW chain \in Seq(Ancestors), NEW post, Linked(chain, post),
         NEW a \in Ancestors,
         a.post = Parent[IF chain = <<>> THEN post ELSE chain[1].post]
  PROVE  /\ <<a>> \o chain \in Seq(Ancestors) /\ Len(<<a>> \o chain) = Len(chain) + 1
         /\ (<<a>> \o chain)[1] = a /\ Linked(<<a>> \o chain, post)
<1>1. PICK n : n = Len(chain)
  OBVIOUS
<1>2. PICK new : new = <<a>> \o chain
  OBVIOUS
<1>3. n \in Nat /\ DOMAIN chain = 1..n /\ (chain = <<>> <=> n = 0)
  BY <1>1
<1>4. /\ new \in Seq(Ancestors) /\ Len(new) = n + 1 /\ DOMAIN new = 1..(n + 1) /\ new[1] = a
      /\ \A i \in 2..(n + 1) : new[i] = chain[i - 1]
  BY <1>1, <1>2
<1>5. ASSUME NEW i \in 1..(n + 1)
      PROVE  Parent[IF i = n + 1 THEN post ELSE new[i + 1].post] = new[i].post
  <2>1. CASE i = 1
    <3>1. CASE n = 0
      BY <1>3, <1>4, <2>1, <3>1
    <3>2. CASE n > 0
      <4>1. new[i + 1] = chain[1] /\ chain # <<>> /\ i # n + 1
        BY <1>3, <1>4, <2>1, <3>2
      <4> QED
        BY <1>4, <2>1, <4>1
    <3> QED
      BY <1>3, <3>1, <3>2
  <2>2. CASE i > 1
    <3>1. PICK j \in 1..n : i = j + 1
      BY <1>3, <2>2
    <3>2. Parent[IF j = n THEN post ELSE chain[j + 1].post] = chain[j].post
      BY <1>1, <1>3 DEF Linked
    <3>3. new[i] = chain[j] /\ (j # n => new[i + 1] = chain[j + 1])
      BY <1>3, <1>4, <3>1
    <3> QED
      BY <1>3, <3>1, <3>2, <3>3
  <2> QED
    BY <1>3, <2>1, <2>2
<1> QED
  BY <1>1, <1>2, <1>4, <1>5 DEF Linked

LEMMA ReadAncestorKeeps ==
  ASSUME ReadsInv, ReadAncestor
  PROVE  ReadsInv'
<1>1. ClocksAndDays'
  BY ReadOnlyKeepsDays DEF ReadsInv, ReadAncestor
<1>2. ThreadSoFar(request)
  BY DEF ReadAncestor, ReadsInv, Between
<1>3. PICK chain, p, post, depth :
        chain = request.ancestors /\ p = request.next /\ post = request.post /\ depth = request.depth
  OBVIOUS
<1>4. PICK reply, meta, new :
        /\ reply \in BOOLEAN /\ meta \in BOOLEAN
        /\ reply => Parent[p] # 0
        /\ new = <<[post |-> p, reply |-> reply, meta |-> meta]>> \o chain
        /\ request' = [request EXCEPT !.ancestors = new, !.next = Parent[p],
                         !.at = IF reply /\ Len(new) < depth THEN "ancestors" ELSE "post"]
  <2>1. PICK commented \in BOOLEAN :
          LET reply == commented /\ Parent[p] # 0
              ancestors == <<[post |-> p, reply |-> reply, meta |-> HasMeta(p)]>> \o chain
          IN request' = [request EXCEPT !.ancestors = ancestors, !.next = Parent[p],
                          !.at = IF GoesOn(reply, ancestors) THEN "ancestors" ELSE "post"]
    BY <1>3 DEF ReadAncestor
  <2>2. PICK reply : reply = (commented /\ Parent[p] # 0)
    OBVIOUS
  <2>3. PICK meta : meta = HasMeta(p)
    OBVIOUS
  <2>4. reply \in BOOLEAN /\ meta \in BOOLEAN
    BY <2>2, <2>3 DEF HasMeta
  <2>5. PICK new : new = <<[post |-> p, reply |-> reply, meta |-> meta]>> \o chain
    OBVIOUS
  <2>6. request' = [request EXCEPT !.ancestors = new, !.next = Parent[p],
                     !.at = IF GoesOn(reply, new) THEN "ancestors" ELSE "post"]
    BY <2>1, <2>2, <2>3, <2>5
  <2>7. reply => Parent[p] # 0
    BY <2>2
  <2> QED
    BY <1>3, <2>4, <2>5, <2>6, <2>7 DEF GoesOn
<1>5. PICK a : a = [post |-> p, reply |-> reply, meta |-> meta]
  OBVIOUS
<1>6. a \in Ancestors /\ a.post = p /\ a.reply = reply
  BY <1>2, <1>3, <1>4, <1>5 DEF Ancestors, ThreadSoFar
<1>7. /\ chain \in Seq(Ancestors) /\ Len(chain) < depth /\ depth \in Nat \ {0}
      /\ Linked(chain, post)
      /\ p = Parent[IF chain = <<>> THEN post ELSE chain[1].post] /\ p \in Replies
      /\ DOMAIN request = {"at", "post", "depth", "next", "ancestors", "alone"}
  BY <1>2, <1>3 DEF ThreadSoFar
<1>8. /\ new \in Seq(Ancestors) /\ Len(new) = Len(chain) + 1 /\ new[1] = a
      /\ Linked(new, post)
  <2>1. new = <<a>> \o chain
    BY <1>4, <1>5
  <2>2. /\ <<a>> \o chain \in Seq(Ancestors) /\ Len(<<a>> \o chain) = Len(chain) + 1
        /\ (<<a>> \o chain)[1] = a /\ Linked(<<a>> \o chain, post)
    <3>1. a.post = Parent[IF chain = <<>> THEN post ELSE chain[1].post]
      BY <1>6, <1>7
    <3> QED
      BY ONLY <1>6, <1>7, <3>1, OneMoreLink
  <2> QED
    BY ONLY <2>1, <2>2
<1>9. /\ request'.at = IF reply /\ Len(new) < depth THEN "ancestors" ELSE "post"
      /\ request'.ancestors = new /\ request'.next = Parent[p]
      /\ request'.post = post /\ request'.depth = depth
      /\ DOMAIN request' = {"at", "post", "depth", "next", "ancestors", "alone"}
  BY <1>3, <1>4, <1>7
<1>10. Len(new) \in Nat /\ Len(new) <= depth /\ new # <<>>
  BY <1>7, <1>8
<1>11. CASE reply /\ Len(new) < depth
  <2>1. Parent[p] \in Replies
    BY <1>4, <1>7, <1>11, ReadsAssumption
  <2>2. request'.at = "ancestors"
    BY <1>9, <1>11
  <2>3. ThreadSoFar(request)'
    BY <1>6, <1>7, <1>8, <1>9, <1>10, <1>11, <2>1 DEF ThreadSoFar
  <2>4. Between'
    BY <2>2, <2>3 DEF Between
  <2>5. AnswersOfReads'
    BY <2>2, NoAnswer
  <2> QED
    BY <1>1, <2>4, <2>5 DEF ReadsInv
<1>12. CASE ~(reply /\ Len(new) < depth)
  <2>1. request'.at = "post"
    BY <1>9, <1>12
  <2>2. new[1].reply => Len(new) = depth
    BY <1>6, <1>7, <1>8, <1>10, <1>12
  <2>3. AncestorsAreComplete'
    BY <1>8, <1>9, <1>10, <2>2 DEF AncestorsAreComplete, Linked
  <2>4. Between' /\ ChangesFitTotals' /\ SummaryIsOfOneMoment' /\ VotersAddUp'
    BY <2>1 DEF Between, ChangesFitTotals, SummaryIsOfOneMoment, VotersAddUp
  <2> QED
    BY <1>1, <2>3, <2>4 DEF ReadsInv, AnswersOfReads
<1> QED
  BY <1>11, <1>12

LEMMA AnsweredKeeps ==
  ASSUME ReadsInv, Answered
  PROVE  ReadsInv'
<1>1. request' = Idle /\ request'.at = "idle" /\ crossed' = {}
  BY DEF Answered, Idle
<1>2. ClocksAndDays'
  BY <1>1 DEF Answered, ReadsInv, ClocksAndDays, CountedOnDays
<1>3. Between'
  BY <1>1 DEF Between
<1> QED
  BY <1>1, <1>2, <1>3, NoAnswer DEF ReadsInv

LEMMA ReadsInitInv == ReadsInit => ReadsInv
<1> SUFFICES ASSUME ReadsInit PROVE ReadsInv
  OBVIOUS
<1>1. request = Idle /\ request.at = "idle"
  BY DEF ReadsInit, Idle
<1>2. ClocksAndDays
  BY ReadsAssumption DEF ReadsInit, ClocksAndDays, CountedOnDays, Absent
<1> QED
  BY <1>1, <1>2 DEF ReadsInv, Between, AnswersOfReads, ChangesFitTotals, SummaryIsOfOneMoment,
    VotersAddUp, AncestorsAreComplete

LEMMA ReadsNextInv == ReadsInv /\ [ReadsNext]_readVars => ReadsInv'
<1> SUFFICES ASSUME ReadsInv, [ReadsNext]_readVars PROVE ReadsInv'
  OBVIOUS
<1>1. CASE Tables
  BY <1>1, TablesKeepReadsInv
<1>2. CASE RankGroups \/ RankItems
  BY <1>2, RankGroupsKeeps, RankItemsKeeps
<1>3. CASE ChartUpvotes \/ ChartDownvotes
  BY <1>3, ChartUpvotesKeeps, ChartDownvotesKeeps
<1>4. CASE ProfileRow \/ ProfileVoters
  BY <1>4, ProfileRowKeeps, ProfileVotersKeeps
<1>5. CASE ReadPost \/ ReadAncestor \/ Answered
  BY <1>5, ReadPostKeeps, ReadAncestorKeeps, AnsweredKeeps
<1>6. CASE UNCHANGED readVars
  <2>1. /\ clock' = clock /\ votes' = votes /\ request' = request
        /\ crossed' = crossed /\ counted' = counted
    BY <1>6 DEF readVars
  <2>2. ClocksAndDays' /\ Present' = Present /\ Yesterday' = Yesterday
        /\ (Untouched' <=> Untouched) /\ (OfOneDay' <=> OfOneDay)
    BY <2>1 DEF ReadsInv, ClocksAndDays, CountedOnDays, Present, Yesterday, ThisDay,
      Untouched, OfOneDay
  <2>3. Between'
    BY <2>1, <2>2 DEF ReadsInv, Between, ChangesOfVotes, UpvotesOfDay, RankingOfRow, Total,
      ThreadSoFar, Linked
  <2>4. ChangesFitTotals' /\ SummaryIsOfOneMoment' /\ AncestorsAreComplete'
    BY <2>1, <2>2 DEF ReadsInv, AnswersOfReads, ChangesFitTotals, SummaryIsOfOneMoment,
      AncestorsAreComplete
  <2>5. VotersAddUp'
    BY <2>1 DEF ReadsInv, AnswersOfReads, VotersAddUp, MapThenSumSet, MapThenFoldSet
  <2> QED
    BY <2>2, <2>3, <2>4, <2>5 DEF ReadsInv, AnswersOfReads
<1> QED
  BY <1>1, <1>2, <1>3, <1>4, <1>5, <1>6 DEF ReadsNext, Tables

LEMMA ReadsInvariance == ReadsSpec => []ReadsInv
  BY ReadsInitInv, ReadsNextInv, PTL DEF ReadsSpec

\* The midnights that have a vote in the day before them, or at its end.
LEMMA DaysOfAVote ==
  ASSUME NEW v \in Nat, NEW d \in Nat, NEW e \in Nat, d < e,
         d % DayLength = 0, e % DayLength = 0,
         v <= d, e - DayLength <= v
  PROVE  v % DayLength = 0 /\ d = v /\ e = v + DayLength
<1>1. PICK D : D = DayLength
  OBVIOUS
<1>2. D \in Nat \ {0} /\ d % D = 0 /\ e % D = 0 /\ e - D <= v
  BY <1>1, ReadsAssumption
<1>3. PICK a \in Nat, b \in Nat : d = a * D /\ e = b * D
  BY ONLY <1>2
<1>4. a * D < b * D
  BY <1>3
<1>5. a < b
  BY ONLY <1>2, <1>4, a \in Nat, b \in Nat
<1>6. a * D + D <= b * D
  BY ONLY <1>2, <1>5, a \in Nat, b \in Nat
<1>7. d = v /\ e = v + D
  BY <1>2, <1>3, <1>6
<1> QED
  BY <1>1, <1>2, <1>7

LEMMA DaysCountOnce == ReadsInv => CountedOnce
<1> SUFFICES ASSUME ReadsInv, NEW b \in Ballots, Cardinality(counted[b]) > 1
             PROVE  votes[b] % DayLength = 0 /\ Cardinality(counted[b]) = 2
  BY DEF CountedOnce
<1>1. PICK S, v : S = counted[b] /\ v = votes[b]
  OBVIOUS
<1>2. \A d \in S : d \in Nat /\ d % DayLength = 0 /\ v >= 0 /\ d - DayLength <= v /\ v <= d
  BY <1>1 DEF ReadsInv, ClocksAndDays, CountedOnDays
<1>3. v \in Int /\ Cardinality(S) > 1
  BY <1>1, ReadsAssumption DEF ReadsInv, ClocksAndDays
<1>4. PICK d \in S, e \in S : d # e
  <2> SUFFICES ASSUME \A d, e \in S : d = e PROVE FALSE
    OBVIOUS
  <2>1. CASE S = {}
    BY <1>3, <2>1, FS_EmptySet
  <2>2. CASE S # {}
    <3>1. PICK d : S = {d}
      BY <2>2
    <3> QED
      <4>1. Cardinality({d}) = 1
        BY ONLY FS_Singleton
      <4> QED
        BY <1>3, <3>1, <4>1
  <2> QED
    BY <2>1, <2>2
<1>5. v \in Nat
  BY <1>2, <1>3, <1>4
<1>6. \A x, y \in S : x < y => v % DayLength = 0 /\ x = v /\ y = v + DayLength
  BY <1>2, <1>5, DaysOfAVote
<1>7. v % DayLength = 0 /\ S = {v, v + DayLength}
  <2>1. d < e \/ e < d
    BY <1>2, <1>4
  <2>2. v % DayLength = 0 /\ v \in S /\ v + DayLength \in S /\ DayLength \in Nat \ {0}
    BY <1>6, <2>1, ReadsAssumption
  <2>3. ASSUME NEW x \in S PROVE x \in {v, v + DayLength}
    <3>1. x < v \/ v < x \/ x = v
      BY <1>2, <1>5
    <3> QED
      BY <1>6, <2>2, <3>1
  <2> QED
    BY <2>2, <2>3
<1>8. Cardinality({v, v + DayLength}) = 2
  <2>1. v # v + DayLength
    BY <1>5, ReadsAssumption
  <2> QED
    <3>1. PICK w : w = v + DayLength
      OBVIOUS
    <3>2. {v, w} = {v} \cup {w} /\ {v} \cap {w} = {}
      BY <2>1, <3>1
    <3>3. /\ IsFiniteSet({v}) /\ IsFiniteSet({w}) /\ Cardinality({v} \cap {w}) = 0
          /\ Cardinality({v}) = 1 /\ Cardinality({w}) = 1
      BY <3>2, FS_Singleton, FS_EmptySet
    <3>4. Cardinality({v} \cup {w}) = Cardinality({v}) + Cardinality({w}) - Cardinality({v} \cap {w})
      BY ONLY <3>3, FS_Union
    <3>5. Cardinality({v} \cup {w}) = 2
      BY ONLY <3>3, <3>4
    <3> QED
      BY <3>1, <3>2, <3>5
<1> QED
  BY <1>1, <1>7, <1>8

LEMMA ReadsInvImpliesTypes == ReadsInv => ReadsTypeOK
  BY DEF ReadsInv, ClocksAndDays, CountedOnDays, Between, ReadsTypeOK

\* The clock, the votes and the request keep their types, and the summaries
\* count votes by whole days.
THEOREM ReadsTypeCorrect == ReadsSpec => []ReadsTypeOK
  BY ReadsInvImpliesTypes, ReadsInvariance, PTL

LEMMA ReadsInvImpliesFit == ReadsInv => AnswersFit
  BY DaysCountOnce DEF ReadsInv, AnswersOfReads, AnswersFit

\* The parts of an answer fit together, however many votes and posts there are
\* and however long a day is: changes and totals, the two sides of a summary,
\* the days of a vote, voters and their profile, a post and its ancestors.
THEOREM AnswersAlwaysFit == ReadsSpec => []AnswersFit
  BY ReadsInvImpliesFit, ReadsInvariance, PTL

-----------------------------------------------------------------------------
(* All parts together: a step of one leaves the others as they are.       *)

RequestsInv == AuthInv /\ ApiInv /\ FeedInv /\ ReadsInv

\* A process that ended serves nobody.
LEMMA EndedIsSound == ApiEnded => ApiInv
<1> SUFFICES ASSUME ApiEnded PROVE ApiInv
  OBVIOUS
<1>1. ProcessOK
  <2>1. stage = 5 /\ exit = 0 /\ closing = [c \in Closers |-> 6]
    BY PartsAreFive DEF ApiEnded
  <2>2. "startup" \in Closers /\ closing["startup"] > Len(Parts)
    BY <2>1, PartsAreFive DEF Closers
  <2>3. closing \in [Closers -> 0..6]
    BY <2>1
  <2>4. listening \in BOOLEAN /\ client \in BOOLEAN /\ synced \in BOOLEAN
    BY DEF ApiEnded
  <2>5. OnlyUncaughtCrash
    BY <2>1, <2>2 DEF OnlyUncaughtCrash
  <2> QED
    BY <2>1, <2>3, <2>4, <2>5 DEF ProcessOK, NoExit
<1>2. requests \in [Slots -> InFlightRequests \cup {Free}] /\ RequestsOK
  BY DEF ApiEnded, RequestsOK
<1> QED
  BY <1>1, <1>2 DEF ApiInv

LEMMA RequestsInitially == MCInit => RequestsInv
  BY AuthInitially, ApiInitially, EndedIsSound, FeedInitInv, ReadsInitInv DEF MCInit, RequestsInv

LEMMA RequestsStep ==
  ASSUME RequestsInv, [MCNext]_allVars
  PROVE  RequestsInv'
<1>1. AuthInv'
  <2>1. [AuthNext]_authVars
    BY DEF MCNext, AuthPart, ApiPart, FeedPart, ReadsPart, allVars, others
  <2> QED
    BY <2>1, AuthKeeps DEF RequestsInv
<1>2. ApiInv'
  <2>1. [ApiNext]_apiVars
    BY DEF MCNext, AuthPart, ApiPart, FeedPart, ReadsPart, allVars, others
  <2> QED
    BY <2>1, ApiKeeps DEF RequestsInv
<1>3. FeedInv'
  <2>1. [FeedNext]_feedVars
    BY DEF MCNext, AuthPart, ApiPart, FeedPart, ReadsPart, allVars, others
  <2> QED
    BY <2>1, FeedStep, FeedStutters DEF RequestsInv
<1>4. ReadsInv'
  <2>1. [ReadsNext]_readVars
    BY DEF MCNext, AuthPart, ApiPart, FeedPart, ReadsPart, allVars, others
  <2> QED
    BY <2>1, ReadsNextInv DEF RequestsInv
<1> QED
  BY <1>1, <1>2, <1>3, <1>4 DEF RequestsInv

LEMMA RequestsInvariance == MCSpec => []RequestsInv
<1>1. RequestsInv /\ [MCNext]_allVars => RequestsInv'
  BY RequestsStep
<1> QED
  BY <1>1, RequestsInitially, PTL DEF MCSpec

\* In what a client meets, whichever part of it runs, the variables of all parts
\* keep their types.
THEOREM RequestsTypeCorrect == MCSpec => []RequestsTypeOK
<1>1. AuthInv => AuthTypeOK
  BY DEF AuthInv
<1>2. ApiInv => ApiTypeOK
  BY ApiInvImpliesTypes
<1>3. FeedInv => FeedTypeOK
  BY FeedInvImpliesTypes
<1>4. ReadsInv => ReadsTypeOK
  BY ReadsInvImpliesTypes
<1>5. RequestsInv => RequestsTypeOK
  BY <1>1, <1>2, <1>3, <1>4 DEF RequestsInv, RequestsTypeOK
<1> QED
  BY <1>5, RequestsInvariance, PTL

\* Whichever part of it runs, what a client meets is right: who was authorized had
\* passed a challenge, each request is with the handler it asked for, answers tell
\* of failures but where they are dropped or come after it, only a close, the
\* start-up, a challenge without a checkpoint or an error of a handler that nobody
\* catches end the process, pages miss and repeat only what moved, and the parts of
\* an answer fit together.
THEOREM PartsKeepPromises ==
  MCSpec => [](/\ GrantsWereChallenged /\ ServedByItsHandler /\ FailuresAreTold
               /\ OnlyUncaughtCrash /\ PagesFollowMoves /\ AnswersFit)
<1>1. AuthInv => GrantsWereChallenged
  BY DEF AuthInv
<1>2. ApiInv => ServedByItsHandler /\ FailuresAreTold
  BY ApiInvImpliesServed, ApiInvImpliesTold
<1>3. ApiInv => OnlyUncaughtCrash
  BY DEF ApiInv, ProcessOK
<1>4. FeedInv => PagesFollowMoves
  BY SeenSoFarFollows
<1>5. ReadsInv => AnswersFit
  BY ReadsInvImpliesFit
<1>6. RequestsInv => /\ GrantsWereChallenged /\ ServedByItsHandler /\ FailuresAreTold
                     /\ OnlyUncaughtCrash /\ PagesFollowMoves /\ AnswersFit
  BY <1>1, <1>2, <1>3, <1>4, <1>5 DEF RequestsInv
<1> QED
  BY <1>6, RequestsInvariance, PTL

=============================================================================
