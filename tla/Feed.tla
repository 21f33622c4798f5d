-------------------------------- MODULE Feed --------------------------------
(***************************************************************************)
(* The feeds of src/lib/database.ts with the scores of                     *)
(* src/util/feedRanking.ts, read page by page while votes come and go.     *)
(*                                                                         *)
(* Scores are integers: the logarithm of a total and what an age leaves of *)
(* a score are looked up in tables of scaled values, and the sigmoid of    *)
(* the velocity counts quarters.  What the feeds show of a post besides    *)
(* its place is left out.                                                  *)
(***************************************************************************)
EXTENDS Integers, SequencesExt

\* A definition named X_Mutant is a wrong version of X.

CONSTANTS
  PostKeys,         \* keys of posts
  Amounts,          \* the burns of a vote
  Histories,        \* sequences of confirmed votes, one to start from
  MaxMoves,         \* bound on the changes of votes
  MaxTime,          \* bound on the clock
  Log,              \* the logarithms of 1, 2, ...: its length bounds the burns of a post
  Left,             \* what an age leaves of a score
  Day, Week,        \* the length of a day; the days of the default window
  VelocityWindow,   \* FEED_RANKING_VELOCITY_WINDOW_HOURS
  VelocityThreshold,\* FEED_RANKING_VELOCITY_THRESHOLD
  MinPosts, ZMax,   \* FEED_RANKING_ZSCORE_MIN_POSTS and _MAX
  MinEngagement,    \* FEED_RANKING_CONTROVERSIAL_MIN_ENGAGEMENT, in hundredths
  CandidatePages,   \* the pages a ranked candidate set has
  MaxFeedSize,      \* the largest page of a feed
  MaxListSize, DefaultListSize, \* the largest and the default page of a list
  AskedSizes,       \* the page sizes clients ask for
  Spans             \* the spans they ask for: "today", "all", or "none"

ASSUME FeedAssumption ==
  /\ Day \in Nat \ {0} /\ MinPosts \in Nat /\ CandidatePages \in Nat \ {0} /\ ZMax \in Nat
  /\ MaxMoves \in Nat /\ MaxTime \in Nat /\ IsFiniteSet(PostKeys) /\ Amounts \subseteq Nat
  /\ {MaxFeedSize, MaxListSize, DefaultListSize} \subseteq Nat \ {0} /\ AskedSizes \subseteq Nat
  /\ Log \in Seq(Nat) /\ \A x, y \in DOMAIN Log : x < y => Log[x] < Log[y]
  /\ Left \in [0..MaxTime -> Nat \ {0}]

VARIABLES
  now,    \* the clock
  moves,  \* counts the changes of votes, up to MaxMoves
  burns,  \* RankTransaction and RankComment: votes for posts, posts that burn for themselves
  rows,   \* Post: the totals, and when it was first and last voted
  reader, \* a client that reads a feed page by page
  trend   \* a request for the trending posts

feedVars == <<now, moves, burns, rows, reader, trend>>

Unconfirmed == -1   \* a timestamp that is null
NoRow == [first |-> -1]
NoReader == [sort |-> "none"]
NoTrend == [at |-> "none"]

Smaller(a, b) == IF a <= b THEN a ELSE b
Larger(a, b) == IF a >= b THEN a ELSE b

-----------------------------------------------------------------------------
(* Scores *)

AggregateScore(r) == Log[1 + r.pos] - Log[1 + r.neg]

Decayed(score, anchor) == score * Left[now - anchor]

VelocityDampening(burned, median) ==
  IF median <= 0 THEN 4
  ELSE LET ratio == burned \div median
       IN IF ratio < VelocityThreshold THEN 4 ELSE IF ratio = VelocityThreshold THEN 2 ELSE 1

\* The composite score of a post.
Score(r, anchor, burned, median) ==
  Decayed(AggregateScore(r), anchor) * VelocityDampening(burned, median)

\* The places of the scores after the cap: more than ZMax standard deviations
\* above the mean is one place, above all others (the mutant caps what is as far
\* below as well).
Capped_Mutant(scores) ==
  LET n == Len(scores)
      total == MapThenSumSet(LAMBDA i : scores[i], 1..n)
      dev == [i \in 1..n |-> n * scores[i] - total]
      squares == MapThenSumSet(LAMBDA i : dev[i] * dev[i], 1..n)
  IN IF n < MinPosts THEN scores
     ELSE [i \in 1..n |-> IF n * dev[i] * dev[i] > ZMax * ZMax * squares
                          THEN Max({scores[j] : j \in 1..n}) ELSE scores[i]]
Capped(scores) ==
  LET n == Len(scores)
      total == MapThenSumSet(LAMBDA i : scores[i], 1..n)
      dev == [i \in 1..n |-> n * scores[i] - total]
      squares == MapThenSumSet(LAMBDA i : dev[i] * dev[i], 1..n)
      beyond(i) == dev[i] > 0 /\ n * dev[i] * dev[i] > ZMax * ZMax * squares
  IN IF n < MinPosts THEN scores
     ELSE IF squares = 0 THEN [i \in 1..n |-> 0]
     ELSE [i \in 1..n |-> IF beyond(i) THEN Max({scores[j] : j \in 1..n}) ELSE scores[i]]

\* Balance times engagement, in hundredths.
ControversyScore(r) ==
  IF r.pos <= 0 \/ r.neg <= 0 THEN 0
  ELSE ((10 * Smaller(r.pos, r.neg)) \div Larger(r.pos, r.neg)) * Log[1 + r.pos + r.neg]

-----------------------------------------------------------------------------
(* Queries *)

Today == (now \div Day) * Day
\* The feeds that sort the first of the posts again.
Rescored == {"curated", "controversial"}

StartOf(span) == CASE span = "today" -> Today
                   [] span = "week" -> Today - Week * Day

\* What is unconfirmed has no timestamp and is in no window.
Since(p, start) ==
  {i \in DOMAIN burns :
     burns[i].post = p /\ burns[i].time # Unconfirmed /\ burns[i].time >= start}

\* The groups of rankTransaction, which has the votes but not the comments.
VotesSince(p, start) == {i \in Since(p, start) : ~burns[i].comment}
BurnedSince(p, start) == MapThenSumSet(LAMBDA i : burns[i].sats, VotesSince(p, start))
Voted(start) == {p \in PostKeys : VotesSince(p, start) # {}}

\* The element in the middle of the sums of some groups, 1 without a group.
Median(groups, start) ==
  LET sums == LET posts == SetToSeq(groups)
              IN [i \in DOMAIN posts |-> BurnedSince(posts[i], start)]
  IN IF groups = {} THEN 1 ELSE SortSeq(sums, <)[1 + Len(sums) \div 2]

\* Without a span these feeds show a week, and the others everything.
EffectiveSpan(sort, span) ==
  IF span # "none" THEN span ELSE IF sort \in Rescored THEN "week" ELSE "all"

Matching(sort, span) ==
  {p \in PostKeys :
     /\ rows[p] # NoRow
     /\ span = "all" \/ Since(p, StartOf(span)) # {}
     /\ sort = "controversial" => rows[p].pos > 0 /\ rows[p].neg > 0}

Ranking(p) == rows[p].pos - rows[p].neg

\* orderBy: p comes strictly before q.
Before(sort, p, q) ==
  CASE sort = "recent" -> rows[p].last > rows[q].last
    [] sort = "controversial" ->
         \/ rows[p].pos > rows[q].pos
         \/ rows[p].pos = rows[q].pos /\ rows[p].neg > rows[q].neg
    [] OTHER -> Ranking(p) > Ranking(q)

\* What the database may return: posts that no key tells apart in any order.
Orders(sort, S) ==
  {s \in SetToSeqs(S) : \A i, j \in 1..Len(s) : i < j => ~Before(sort, s[j], s[i])}

\* Array.sort by descending keys, which leaves equal ones in their order, of what
\* a filter left: the entries at some places of a list.
SortedPlaces(places, key) ==
  CHOOSE s \in SetToSeqs(places) : \A i, j \in DOMAIN s : i < j =>
    key[s[i]] > key[s[j]] \/ (key[s[i]] = key[s[j]] /\ s[i] < s[j])
SortedBy(list, places, key) ==
  LET order == SortedPlaces(places, key) IN [i \in DOMAIN order |-> list[order[i]]]

Candidates(order, size) == SubSeq(order, 1, Smaller(CandidatePages * size, Len(order)))

\* The candidates with the rows they had when they were found, scored by the
\* votes that the velocity window has now.
Curated(found) ==
  LET start == now - VelocityWindow
      median == Median(Voted(start), start)
      score(f) == Score(f.row, f.row.first, BurnedSince(f.post, start), median)
  IN SortedBy([i \in DOMAIN found |-> found[i].post], DOMAIN found,
              Capped([i \in DOMAIN found |-> score(found[i])]))

Controversial(candidates) ==
  LET score == [i \in DOMAIN candidates |-> ControversyScore(rows[candidates[i]])]
  IN SortedBy(candidates, {i \in DOMAIN candidates : score[i] >= MinEngagement}, score)

\* The list of which the reader gets a page, but for the curated feed.
ListOf(sort, order, size) ==
  IF sort = "controversial" THEN Controversial(Candidates(order, size)) ELSE order

\* skip and take (one mutant skips a row too few, the other a page too many).
PageTwice_Mutant(list, page, size) ==
  SubSeq(list, Larger(1, (page - 1) * size), Smaller(page * size, Len(list)))
PageOf_Mutant(list, page, size) ==
  SubSeq(list, page * size + 1, Smaller((page + 1) * size, Len(list)))
PageOf(list, page, size) ==
  SubSeq(list, (page - 1) * size + 1, Smaller(page * size, Len(list)))

TotalPages(items, size) == (items + size - 1) \div size

FeedSize(asked) == Smaller(MaxFeedSize, Larger(1, asked))
ListSize(asked) == IF asked = 0 THEN DefaultListSize ELSE Smaller(MaxListSize, asked)

-----------------------------------------------------------------------------
(* Votes *)

Moves == moves < MaxMoves /\ moves' = moves + 1

\* The burns of one side are added to it (the mutant adds all to one side).
Added_Mutant(b) ==
  rows' = [rows EXCEPT ![b.post] =
    LET r == IF @ = NoRow THEN [pos |-> 0, neg |-> 0, first |-> now, last |-> now] ELSE @
    IN [r EXCEPT !.pos = @ + b.sats, !.last = now]]
Added(b) ==
  rows' = [rows EXCEPT ![b.post] =
    LET r == IF @ = NoRow THEN [pos |-> 0, neg |-> 0, first |-> now, last |-> now] ELSE @
    IN [r EXCEPT !.pos = IF b.positive THEN @ + b.sats ELSE @,
                 !.neg = IF b.positive THEN @ ELSE @ + b.sats,
                 !.last = now]]

\* The bound of the totals of a post: the length of the table of logarithms.
Within(p, sats) ==
  (IF rows[p] = NoRow THEN 0 ELSE rows[p].pos + rows[p].neg) + sats < Len(Log)

Cast ==
  /\ Moves
  /\ \E p \in PostKeys, sats \in Amounts, positive \in BOOLEAN :
       /\ Within(p, sats)
       /\ LET b == [post |-> p, sats |-> sats, positive |-> positive,
                    time |-> Unconfirmed, comment |-> FALSE]
          IN burns' = Append(burns, b) /\ Added(b)
  /\ UNCHANGED <<now, reader, trend>>

\* A block confirms a vote, and the row keeps the times it has.
Confirm ==
  /\ Moves
  /\ \E i \in DOMAIN burns :
       /\ burns[i].time = Unconfirmed
       /\ burns' = [burns EXCEPT ![i].time = now]
  /\ UNCHANGED <<now, rows, reader, trend>>

\* A vote leaves the mempool or is rewound.  The row of its post stays, with
\* the times of the vote.
RemoveVote ==
  /\ Moves
  /\ \E i \in DOMAIN burns :
       LET b == burns[i]
           r == rows[b.post]
       IN /\ b.time \in {Unconfirmed, now} /\ ~b.comment
          /\ burns' = RemoveAt(burns, i)
          /\ rows' = [rows EXCEPT ![b.post] =
               [r EXCEPT !.pos = IF b.positive THEN @ - b.sats ELSE @,
                         !.neg = IF b.positive THEN @ ELSE @ - b.sats]]
  /\ UNCHANGED <<now, reader, trend>>

Tick ==
  /\ now < MaxTime
  /\ now' = now + 1
  /\ UNCHANGED <<moves, burns, rows, reader, trend>>

-----------------------------------------------------------------------------
(* Readers *)

FeedSorts == {"recent", "ranking", "curated", "controversial"}

\* A request counts what matches, finds the rows of its page, and reads the
\* velocity of the votes, which only the curated feed uses.  total and matched
\* count what matched in the first two, and found has the rows until the third.
\* page is the last one read.  list is the whole list it was cut from, kept the posts of
\* every list so far, seen and repeated those it was shown; pulled are the posts
\* that had another before them in one list and no more in the next, pushed the
\* opposite, and grew tells that more matched than were counted.
Reader(sort, span, size) ==
  [sort |-> sort, span |-> span, size |-> size, page |-> 0, total |-> -1,
   matched |-> 0, found |-> <<>>, more |-> TRUE, list |-> <<>>, seen |-> {}, repeated |-> {}, kept |-> PostKeys,
   pulled |-> {}, pushed |-> {}, grew |-> FALSE]

\* A client at a time: no request writes what another one reads.
Opens(r) ==
  /\ reader = NoReader /\ trend = NoTrend
  /\ reader' = r
  /\ UNCHANGED <<now, moves, burns, rows, trend>>

\* The client opens a feed.
OpenFeed ==
  \E asked \in AskedSizes, sort \in FeedSorts, span \in Spans :
    Opens(Reader(sort, EffectiveSpan(sort, span), FeedSize(asked)))

\* Or the list of the posts of a profile, which shows them all by their ranking.
OpenPosts ==
  \E asked \in AskedSizes : Opens(Reader("posts", "all", ListSize(asked)))

Count ==
  /\ reader # NoReader /\ reader.more /\ reader.total = -1
  /\ reader' = [reader EXCEPT !.total = Cardinality(Matching(reader.sort, reader.span))]
  /\ UNCHANGED <<now, moves, burns, rows, trend>>

\* Whether p comes before q in a list.
Leads(list, p, q) ==
  \E i, j \in DOMAIN list : i < j /\ list[i] = p /\ list[j] = q

\* The reader with a page of the list new.
WithPage(r, new) ==
  LET page == r.page + 1
      shown == ToSet(PageOf(new, page, r.size))
      moved(from, to) ==
        {p \in PostKeys : \E q \in PostKeys \ {p} : Leads(from, q, p) /\ ~Leads(to, q, p)}
  IN [r EXCEPT
       !.page = page, !.total = -1, !.found = <<>>, !.list = new,
       !.more = page < TotalPages(r.total, r.size),
       !.seen = @ \cup shown, !.repeated = @ \cup (shown \cap r.seen),
       !.kept = @ \cap ToSet(new),
       !.pulled = @ \cup (IF page = 1 THEN {} ELSE moved(r.list, new)),
       !.pushed = @ \cup (IF page = 1 THEN {} ELSE moved(new, r.list)),
       !.grew = @ \/ r.matched > r.total]

FindRows ==
  /\ reader # NoReader /\ reader.total >= 0 /\ reader.found = <<>>
  /\ \E order \in Orders(reader.sort, Matching(reader.sort, reader.span)) :
       LET r == [reader EXCEPT !.matched = Len(order)]
           candidates == Candidates(order, reader.size)
       IN reader' =
            IF reader.sort = "curated" /\ order # <<>>
            THEN [r EXCEPT !.found = [i \in DOMAIN candidates |->
                    [post |-> candidates[i], row |-> rows[candidates[i]]]]]
            ELSE WithPage(r, ListOf(reader.sort, order, reader.size))
  /\ UNCHANGED <<now, moves, burns, rows, trend>>

FindVelocity ==
  /\ reader # NoReader /\ reader.found # <<>>
  /\ reader' = WithPage(reader, Curated(reader.found))
  /\ UNCHANGED <<now, moves, burns, rows, trend>>

\* The client has read the last page, or has seen enough.
Leave ==
  /\ reader # NoReader /\ reader.total = -1 /\ reader.page > 0
  /\ reader' = NoReader
  /\ UNCHANGED <<now, moves, burns, rows, trend>>

-----------------------------------------------------------------------------
(* Trending posts *)

\* The groups with the largest burns in the window and their median, then the
\* burns of the velocity window, then, in a transaction, the rows of the posts.
TrendGroups ==
  /\ trend = NoTrend /\ reader = NoReader
  /\ \E window \in {VelocityWindow, Week * Day}, limit \in 1..MaxFeedSize :
       LET start == now - window
           ordered == {s \in SetToSeqs(Voted(start)) : \A i, j \in 1..Len(s) :
                         i < j => BurnedSince(s[i], start) >= BurnedSince(s[j], start)}
       IN \E s \in ordered :
            LET groups == Candidates(s, limit)
            IN /\ groups # <<>>
               /\ trend' = [at |-> "velocity", groups |-> groups, limit |-> limit,
                            median |-> Median(ToSet(groups), start),
                            start |-> now - VelocityWindow]
  /\ UNCHANGED <<now, moves, burns, rows, reader>>

TrendVelocity ==
  /\ trend.at = "velocity"
  /\ trend' = [at |-> "posts", groups |-> trend.groups, limit |-> trend.limit,
               median |-> trend.median,
               burned |-> [p \in PostKeys |-> BurnedSince(p, trend.start)]]
  /\ UNCHANGED <<now, moves, burns, rows, reader>>

\* The burns of the window and the totals of the rows need not agree.
TrendPosts ==
  /\ trend.at = "posts"
  /\ LET scores == [i \in DOMAIN trend.groups |->
                      LET p == trend.groups[i]
                      IN Score(rows[p], rows[p].last, trend.burned[p], trend.median)]
         sorted == SortedBy(trend.groups, DOMAIN trend.groups, scores)
     IN trend' = [at |-> "shown",
                  shown |-> SubSeq(sorted, 1, Smaller(trend.limit, Len(sorted)))]
  /\ UNCHANGED <<now, moves, burns, rows, reader>>

TrendShown ==
  /\ trend.at = "shown"
  /\ trend' = NoTrend
  /\ UNCHANGED <<now, moves, burns, rows, reader>>

-----------------------------------------------------------------------------

TotalOf(h, p, positive) ==
  MapThenSumSet(LAMBDA i : h[i].sats, {i \in DOMAIN h : h[i].post = p /\ h[i].positive = positive})

ASSUME HistoriesAssumption ==
  \A h \in Histories :
    /\ h \in Seq([post : PostKeys, sats : Nat, positive : BOOLEAN, time : 0..MaxTime,
                   comment : BOOLEAN])
    /\ \A i \in DOMAIN h : h[i].time <= Last(h).time
    /\ \A p \in PostKeys : TotalOf(h, p, TRUE) + TotalOf(h, p, FALSE) < Len(Log)

\* The rows after the votes of a history.
FeedInit ==
  /\ burns \in Histories
  /\ moves = 0
  /\ now = IF burns = <<>> THEN 0 ELSE Last(burns).time
  /\ rows = [p \in PostKeys |->
       LET times == {burns[i].time : i \in {i \in DOMAIN burns : burns[i].post = p}}
       IN IF times = {} THEN NoRow
          ELSE [pos |-> TotalOf(burns, p, TRUE), neg |-> TotalOf(burns, p, FALSE),
                first |-> Min(times), last |-> Max(times)]]
  /\ reader = NoReader
  /\ trend = NoTrend

FeedNext ==
  \/ Cast \/ Confirm \/ RemoveVote \/ Tick
  \/ OpenFeed \/ OpenPosts \/ Count \/ FindRows \/ FindVelocity \/ Leave
  \/ TrendGroups \/ TrendVelocity \/ TrendPosts \/ TrendShown

FeedSpec == FeedInit /\ [][FeedNext]_feedVars

-----------------------------------------------------------------------------
(* Properties *)

FeedTypeOK ==
  /\ now \in 0..MaxTime
  /\ moves \in 0..MaxMoves
  /\ \A i \in DOMAIN burns :
       burns[i].post \in PostKeys /\ burns[i].time \in -1..MaxTime /\ burns[i].sats \in Nat
  /\ \A p \in PostKeys : rows[p] # NoRow =>
       /\ rows[p].pos \in Nat /\ rows[p].neg \in Nat
       /\ rows[p].first \in 0..MaxTime /\ rows[p].last \in 0..MaxTime
  /\ reader # NoReader => reader.total >= -1 /\ reader.seen \subseteq PostKeys
  /\ trend.at \in {"none", "velocity", "posts", "shown"}

\* A client that read to the last page has seen each post that was listed all
\* the time, unless a post before it moved behind it between two pages, or more
\* posts matched than had been counted for the last page.  Votes for other
\* posts, time that passes and a new choice among equal keys can do no more.
NoneIsMissed ==
  (reader # NoReader /\ ~reader.more /\ ~reader.grew) =>
    reader.kept \ reader.pulled \subseteq reader.seen

\* A client sees a post twice only if another one moved before it.
RepeatsWerePushed ==
  reader # NoReader => reader.repeated \subseteq reader.pushed

\* What a client of skip and take misses or sees twice while votes move the
\* posts are posts that moved, and no others.
PagesFollowMoves == NoneIsMissed /\ RepeatsWerePushed

\* A step that gives the reader a page.
PageFound == reader # NoReader /\ reader' # NoReader /\ reader'.page > reader.page

\* A page that is said to have a successor is full, unless posts ceased to
\* match between the count and the rows.  Not so beyond the candidates of the curated
\* feed, and in the controversial one, which counts what it then leaves out.
PagesAreFull ==
  [][ (PageFound /\ reader'.more) =>
        \/ Len(PageOf(reader'.list, reader'.page, reader.size)) = reader.size
        \/ reader'.matched < reader.total
        \/ reader.sort = "curated" /\ reader'.page > CandidatePages
        \/ reader.sort = "controversial" ]_feedVars

\* No post with more burned against it than for it is before one with more for.
VerdictsKept(list, row) ==
  \A i, j \in DOMAIN list : i < j =>
    ~(row[list[i]].pos < row[list[i]].neg /\ row[list[j]].pos > row[list[j]].neg)

\* The rows that a reader of the curated feed has found.
RowFound == [p \in {f.post : f \in ToSet(reader.found)} |->
               (CHOOSE f \in ToSet(reader.found) : f.post = p).row]

\* Neither decay nor dampening nor the cap turns a verdict, whatever the votes
\* between the queries of a request.
VerdictsAreKept ==
  [][ /\ (PageFound /\ reader.found # <<>>) => VerdictsKept(reader'.list, RowFound)
      /\ (trend.at = "posts" /\ trend'.at = "shown") => VerdictsKept(trend'.shown, rows) ]_feedVars

=============================================================================
