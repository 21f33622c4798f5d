------------------------------- MODULE Reads --------------------------------
(***************************************************************************)
(* The requests of src/lib/database.ts that read with several statements:  *)
(* the ranked statistics, the wallet summary of a chart, a profile with    *)
(* its voters and a post with its ancestors.                               *)
(*                                                                         *)
(* A transaction of the database client reads what is committed when each  *)
(* statement runs, so that votes and comments come and go, and the clock   *)
(* may pass midnight, between the statements of one request.  Rows of      *)
(* profiles and of posts are never removed; all those named here exist.    *)
(* Texts, page sizes and what a single statement returns by itself are     *)
(* left out.                                                               *)
(***************************************************************************)
EXTENDS Integers, SequencesExt

\* A definition named X_Mutant is a wrong version of X.

CONSTANTS
  Items,         \* profiles, or posts: [platform, id]
  Ballots,       \* votes: [item, wallet, positive, sats]
  DayLength,     \* the length of a day
  MaxClock,      \* bound on the clock
  ResultCount,   \* API_STATS_RESULT_COUNT
  Replies,       \* posts that are comments, numbered from their roots upwards
  Parent,        \* the post that a comment replies to, 0 when it replies to none
  Author,        \* the profile that wrote it
  Mine,          \* the posts that the wallet of the reader voted for
  MaxDepth       \* the ancestors that are read of a post; a feed reads one

ASSUME ReadsAssumption ==
  /\ DayLength \in Nat \ {0} /\ MaxClock \in Nat /\ MaxDepth \in Nat \ {0}
  /\ Replies \subseteq Nat \ {0} /\ Parent \in [Replies -> Replies \cup {0}]
  /\ \A p \in Replies : Parent[p] < p
  /\ ResultCount \in Nat
  /\ IsFiniteSet(Ballots)
  /\ \A b \in Ballots : b.item \in Items /\ b.positive \in BOOLEAN /\ b.sats \in Nat

VARIABLES
  clock,     \* the clock
  votes,     \* RankTransaction: the time of each vote
  request,   \* a request between its statements, or its answer
  crossed,   \* history: what changed since the first statement of the request
  counted    \* history: the days in whose summaries a vote was

readVars == <<clock, votes, request, crossed, counted>>

Absent == -2
Pending == -1
Idle == [at |-> "idle"]

Ids == {i.id : i \in Items}
SharedIds == {x \in Ids : \E i, j \in Items : i # j /\ i.id = x /\ j.id = x}
Present == {b \in Ballots : votes[b] # Absent}
Net(S) == MapThenSumSet(LAMBDA b : IF b.positive THEN b.sats ELSE -b.sats, S)

\* The ranking of the row of an item.
Total(item) == Net({b \in Present : b.item = item})

\* The midnight before now.
ThisDay == (clock \div DayLength) * DayLength

\* The default range of statistics and charts: yesterday, both midnights
\* included.
Yesterday == {b \in Ballots : votes[b] >= 0 /\ votes[b] >= ThisDay - DayLength /\ votes[b] <= ThisDay}

-----------------------------------------------------------------------------
(* Tables *)

Crosses(change) == crossed' = IF request = Idle THEN {} ELSE crossed \cup {change}

Vote ==
  /\ \E b \in Ballots : votes[b] = Absent /\ votes' = [votes EXCEPT ![b] = Pending]
  /\ Crosses("added")
  /\ UNCHANGED <<clock, request, counted>>

ConfirmVote ==
  /\ \E b \in Ballots : votes[b] = Pending /\ votes' = [votes EXCEPT ![b] = clock]
  /\ Crosses("confirmed")
  /\ UNCHANGED <<clock, request, counted>>

\* A vote that is rewound is forgotten, with the summaries it was in.
Rewind ==
  /\ \E b \in Ballots :
       /\ votes[b] # Absent
       /\ votes' = [votes EXCEPT ![b] = Absent]
       /\ counted' = [counted EXCEPT ![b] = {}]
  /\ Crosses("removed")
  /\ UNCHANGED <<clock, request>>

ClockTicks ==
  /\ clock < MaxClock
  /\ clock' = clock + 1
  /\ IF clock' % DayLength = 0 THEN Crosses("midnight") ELSE UNCHANGED crossed
  /\ UNCHANGED <<votes, request, counted>>

-----------------------------------------------------------------------------
(* getStatsPlatformRanked *)

ReadOnly == UNCHANGED <<clock, votes, crossed>>

\* The change of a group (the mutant adds what was burned against it).
Change_Mutant(S) == MapThenSumSet(LAMBDA b : b.sats, S)
Change(S) == Net(S)

\* Votes are grouped by the id alone, and the first groups are kept.
RankGroups ==
  /\ request = Idle
  /\ \E top \in BOOLEAN :
       LET changes == [x \in {b.item.id : b \in Yesterday} |->
                         Change({b \in Yesterday : b.item.id = x})]
           before(x, y) == IF top THEN changes[x] > changes[y] ELSE changes[x] < changes[y]
       IN \E order \in SetToSeqs(DOMAIN changes) :
            /\ \A i, j \in 1..Len(order) : i < j => ~before(order[j], order[i])
            /\ request' = [at |-> "items", top |-> top, changes |-> changes,
                           first |-> SubSeq(order, 1, IF Len(order) < ResultCount
                                                      THEN Len(order) ELSE ResultCount)]
  /\ ReadOnly /\ UNCHANGED counted

\* Each id gets the first row that has it; those whose ranking did not move the
\* way that was asked for are left out.
RankItems ==
  /\ request.at = "items"
  /\ \E row \in [ToSet(request.first) -> Items] :
       /\ \A x \in DOMAIN row : row[x].id = x
       /\ request' =
            [at |-> "ranked",
             shown |-> {[item |-> row[x], changed |-> request.changes[x], total |-> Total(row[x])] :
                x \in {x \in DOMAIN row : IF request.top THEN request.changes[x] > 0
                                                        ELSE request.changes[x] < 0}}]
  /\ ReadOnly /\ UNCHANGED counted

-----------------------------------------------------------------------------
(* apiChartWalletSummary *)

Counts(S) == counted' = [b \in Ballots |-> IF b \in S THEN counted[b] \cup {ThisDay} ELSE counted[b]]

ChartUpvotes ==
  /\ request = Idle
  /\ LET up == {b \in Yesterday : b.positive}
     IN request' = [at |-> "downvotes", up |-> up] /\ Counts(up)
  /\ ReadOnly

WalletsOf(S) == {b.wallet : b \in S}

\* A wallet with votes on both sides counts once.
UniqueWallets(up, down) == Cardinality(WalletsOf(up) \cup WalletsOf(down))

ChartDownvotes ==
  /\ request.at = "downvotes"
  /\ LET down == {b \in Yesterday : ~b.positive}
     IN /\ request' = [at |-> "summary",
                       wallets |-> UniqueWallets(request.up, down),
                       votes |-> Cardinality(request.up) + Cardinality(down)]
        /\ Counts(down)
  /\ ReadOnly

-----------------------------------------------------------------------------
(* apiGetPlatformProfile with getProfileVoterDetails *)

ProfileRow ==
  /\ request = Idle
  /\ \E item \in Items : request' = [at |-> "voters", item |-> item, ranking |-> Total(item)]
  /\ ReadOnly /\ UNCHANGED counted

\* The votes for a profile, by wallet.  The query does not name the platform.
VoterRanking(votesOf) == Net(votesOf)

\* A failure of this statement leaves the profile without voters.
ProfileVoters ==
  /\ request.at = "voters"
  /\ LET found == {b \in Present : b.item.id = request.item.id}
     IN \E voters \in {[w \in WalletsOf(found) |-> VoterRanking({b \in found : b.wallet = w})], <<>>} :
          request' = [at |-> "profile", item |-> request.item, ranking |-> request.ranking,
                      failed |-> voters = <<>> /\ found # {}, voters |-> voters]
  /\ ReadOnly /\ UNCHANGED counted

-----------------------------------------------------------------------------
(* apiGetPlatformProfilePost with fetchAncestorChain *)

\* The post and its comment.  Comments come and go as blocks do: a statement may
\* find that of a post or not, its row it always finds.  A reply to a post of
\* one's own is shown as one that stands alone, and gets its ancestors anyway.
ReadPost ==
  /\ request = Idle
  /\ \E p \in Replies, depth \in {1, MaxDepth}, commented \in BOOLEAN :
       LET replies == commented /\ Parent[p] # 0
       IN request' =
            [at |-> IF replies THEN "ancestors" ELSE "post",
             post |-> p, depth |-> depth, next |-> Parent[p], ancestors |-> <<>>,
             alone |-> ~replies \/ Author[Parent[p]] = Author[p]]
  /\ ReadOnly /\ UNCHANGED counted

\* The votes of the reader are looked up by the keys of the first ancestor,
\* whichever the ancestor.
HasMeta(p) == p = Parent[request.post] /\ p \in Mine

\* Whether another ancestor is read.
GoesOn(reply, ancestors) == reply /\ Len(ancestors) < request.depth

ReadAncestor ==
  /\ request.at = "ancestors"
  /\ \E commented \in BOOLEAN :
     LET p == request.next
         reply == commented /\ Parent[p] # 0
         ancestors == <<[post |-> p, reply |-> reply, meta |-> HasMeta(p)]>> \o request.ancestors
     IN request' = [request EXCEPT !.ancestors = ancestors, !.next = Parent[p],
                                   !.at = IF GoesOn(reply, ancestors) THEN "ancestors" ELSE "post"]
  /\ ReadOnly /\ UNCHANGED counted

Answered ==
  /\ request.at \in {"ranked", "summary", "profile", "post"}
  /\ request' = Idle /\ crossed' = {}
  /\ UNCHANGED <<clock, votes, counted>>

-----------------------------------------------------------------------------

ReadsInit ==
  /\ clock = 0
  /\ votes = [b \in Ballots |-> Absent]
  /\ request = Idle
  /\ crossed = {}
  /\ counted = [b \in Ballots |-> {}]

ReadsNext ==
  \/ Vote \/ ConfirmVote \/ Rewind \/ ClockTicks
  \/ RankGroups \/ RankItems \/ ChartUpvotes \/ ChartDownvotes
  \/ ProfileRow \/ ProfileVoters \/ ReadPost \/ ReadAncestor \/ Answered

ReadsSpec == ReadsInit /\ [][ReadsNext]_readVars

-----------------------------------------------------------------------------
(* Properties *)

ReadsTypeOK ==
  /\ clock \in 0..MaxClock
  /\ votes \in [Ballots -> -2..MaxClock]
  /\ request.at \in {"idle", "items", "ranked", "downvotes", "summary", "voters",
                     "profile", "ancestors", "post"}
  /\ crossed \subseteq {"added", "confirmed", "removed", "midnight"}
  /\ \A b \in Ballots : \A day \in counted[b] : day % DayLength = 0

\* An item is never said to have changed by more than the row next to it allows:
\* what it was said to have before is what the other votes left.  Not so when
\* platforms share its id, or votes came or went between the two statements.
ChangesFitTotals ==
  (request.at = "ranked" /\ crossed \cap {"added", "removed"} = {}) =>
    \A s \in request.shown : s.item.id \notin SharedIds =>
      \E others \in SUBSET {b \in Present : b.item = s.item} :
        s.total - s.changed = Net(others)

\* The summary is that of the votes of one day, as they were at one moment,
\* unless votes were confirmed or removed or midnight passed in between.
SummaryIsOfOneMoment ==
  (request.at = "summary" /\ crossed \subseteq {"added"}) =>
    /\ request.votes = Cardinality(Yesterday)
    /\ request.wallets = Cardinality(WalletsOf(Yesterday))

\* The summaries of different days do not count a vote twice, unless its block
\* has the timestamp of a midnight, which ends one day and begins the next.
CountedOnce ==
  \A b \in Ballots : Cardinality(counted[b]) > 1 =>
    votes[b] % DayLength = 0 /\ Cardinality(counted[b]) = 2

\* The rankings that the voters gave add up to that of the profile, unless votes
\* came or went in between or a profile of another platform has the same id.
VotersAddUp ==
  (/\ request.at = "profile" /\ ~request.failed
   /\ crossed \cap {"added", "removed"} = {} /\ request.item.id \notin SharedIds) =>
    MapThenSumSet(LAMBDA w : request.voters[w], DOMAIN request.voters) = request.ranking

\* The ancestors are those of the post without a gap, the nearest last.  They
\* begin at a root, at a post whose comment was gone, or as deep as was asked.
AncestorsAreComplete ==
  (request.at = "post" /\ request.ancestors # <<>>) =>
    LET chain == request.ancestors
    IN /\ \A i \in DOMAIN chain :
            Parent[IF i = Len(chain) THEN request.post ELSE chain[i + 1].post] = chain[i].post
       /\ Len(chain) <= request.depth
       /\ chain[1].reply => Len(chain) = request.depth

\* The parts of an answer that comes from several statements fit together
\* whenever nothing came in between, and where something did, as far as the
\* parts above say.
AnswersFit ==
  /\ ChangesFitTotals
  /\ SummaryIsOfOneMoment
  /\ CountedOnce
  /\ VotersAddUp
  /\ AncestorsAreComplete

=============================================================================
