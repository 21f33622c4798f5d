----------------------------- MODULE ApiProofs -----------------------------
(***************************************************************************)
(* The HTTP API, for any number of requests in flight and any signals.     *)
(*                                                                         *)
(* A client reaches the handler it asked for because its path, which names *)
(* no literal where its route has a parameter, is told apart from those of *)
(* the routes mounted before: by the method, by its length, or at one      *)
(* place.  What a handler can say of its calls follows from what is left   *)
(* of them: ApiInv keeps that each is one the handler may await, that only *)
(* a handler that drops errors goes on after one, and that only two have   *)
(* anything left to await after they wrote.  The request whose failure     *)
(* ended the process is left as it was when it failed.                     *)
(***************************************************************************)
EXTENDS Api, AuthCache, SequenceTheorems, TLAPS

-----------------------------------------------------------------------------
(* What the handlers await. *)

\* The handlers that leave an error to the process, those that go on after they
\* wrote something, and the one that cannot send what it found, which writes
\* nothing.
NotCaught == {"charts", "unsubscribe"} \cup MayThrow
Halfway == {"instance", "subscribe"}
OnlyReads == {"posts"}

Calls == [uses : {"database", "temporal", "push"}, writes : BOOLEAN,
          onFailure : {Uncaught, Ignored, 400, 404, 500}]

\* Calls that handler h may have still to await.
Plan(h, calls) ==
  /\ calls \in Seq(Calls)
  /\ \A i \in DOMAIN calls :
       /\ calls[i].onFailure = Ignored => h \in DropsErrors
       /\ calls[i].onFailure = Uncaught => h \in NotCaught
       /\ calls[i].writes => h \notin OnlyReads
       /\ calls[i].writes /\ i < Len(calls) => h \in Halfway

\* A handler as its definition says, under the name h: what it answers, how it
\* may end the process, and that its calls are a plan.
Sound(h, handler) ==
  /\ handler.success \in {200, 201}
  /\ handler.found = handler.success \/ (handler.found = 400 /\ h \in OnlyReads)
  /\ handler.refusals \subseteq {200, 400, 404}
  /\ handler.throws => h \in MayThrow
  /\ handler.awaits \/ h \in AnswerFirst
  /\ \A calls \in handler.calls : Plan(h, calls)

Planned(h) == Sound(h, HandlerOf[h])

\* A call that a handler may end with, and one that it may go on after.
EndsWith(h, call) ==
  /\ call \in Calls
  /\ call.onFailure = Ignored => h \in DropsErrors
  /\ call.onFailure = Uncaught => h \in NotCaught
  /\ call.writes => h \notin OnlyReads

GoesOnAfter(h, call) == EndsWith(h, call) /\ (call.writes => h \in Halfway)

LEMMA OneCall ==
  ASSUME NEW h, NEW a, EndsWith(h, a)
  PROVE  Plan(h, <<a>>)
  BY DEF Plan, EndsWith

LEMMA TwoCalls ==
  ASSUME NEW h, NEW a, NEW b, GoesOnAfter(h, a), EndsWith(h, b)
  PROVE  Plan(h, <<a, b>>)
  BY DEF Plan, EndsWith, GoesOnAfter

LEMMA ThreeCalls ==
  ASSUME NEW h, NEW a, NEW b, NEW c,
         GoesOnAfter(h, a), GoesOnAfter(h, b), EndsWith(h, c)
  PROVE  Plan(h, <<a, b, c>>)
  BY DEF Plan, EndsWith, GoesOnAfter

\* Which handler may make which call.
LEMMA CallsFit ==
  ASSUME NEW h
  PROVE  /\ GoesOnAfter(h, Query(404)) /\ EndsWith(h, Query(404)) /\ EndsWith(h, Query(400))
         /\ EndsWith(h, Remote(400)) /\ EndsWith(h, Notify(400))
         /\ h \notin OnlyReads => EndsWith(h, Write(400)) /\ EndsWith(h, Write(500))
         /\ h \in Halfway => GoesOnAfter(h, Write(400))
         /\ h \in Halfway /\ h \in NotCaught => GoesOnAfter(h, Write(Uncaught))
         /\ h \in DropsErrors => EndsWith(h, Query(Ignored))
         /\ h \in DropsErrors /\ h \in Halfway => GoesOnAfter(h, Write(Ignored))
         /\ h \in NotCaught => /\ EndsWith(h, Query(Uncaught))
                               /\ EndsWith(h, Remote(Uncaught))
         /\ h \in NotCaught /\ h \notin OnlyReads => EndsWith(h, Write(Uncaught))
  BY DEF EndsWith, GoesOnAfter, Calls, Query, Write, Remote, Notify, Ignored, Uncaught,
         Halfway, OnlyReads

\* The lists of calls that the handlers have.
LEMMA Plans ==
  ASSUME NEW h
  PROVE  /\ Plan(h, <<Query(404)>>)
         /\ Plan(h, <<Query(400)>>)
         /\ h \notin OnlyReads => Plan(h, <<Write(500)>>) /\ Plan(h, <<Write(400)>>)
         /\ Plan(h, <<Query(404), Query(404)>>)
         /\ h \in DropsErrors => Plan(h, <<Query(404), Query(Ignored)>>)
         /\ h \in DropsErrors => Plan(h, <<Query(Ignored)>>)
         /\ h \in Halfway => Plan(h, <<Write(400), Remote(400)>>)
         /\ h \in DropsErrors /\ h \in Halfway
              => Plan(h, <<Write(Ignored), Write(400), Notify(400)>>)
         /\ h \in NotCaught => Plan(h, <<Remote(Uncaught)>>)
         /\ h \in NotCaught => Plan(h, <<Query(Uncaught)>>)
         /\ h \in NotCaught /\ h \notin OnlyReads => Plan(h, <<Write(Uncaught)>>)
         /\ h \in NotCaught /\ h \in Halfway => Plan(h, <<Write(Uncaught), Remote(Uncaught)>>)
         /\ Plan(h, <<>>)
<1>1. Plan(h, <<Query(404)>>)
  BY CallsFit, OneCall
<1>2. Plan(h, <<Query(400)>>)
  BY CallsFit, OneCall
<1>3. ASSUME h \notin OnlyReads PROVE Plan(h, <<Write(500)>>)
  BY <1>3, CallsFit, OneCall
<1>4. ASSUME h \notin OnlyReads PROVE Plan(h, <<Write(400)>>)
  BY <1>4, CallsFit, OneCall
<1>5. Plan(h, <<Query(404), Query(404)>>)
  BY CallsFit, TwoCalls
<1>6. ASSUME h \in DropsErrors PROVE Plan(h, <<Query(404), Query(Ignored)>>)
  BY <1>6, CallsFit, TwoCalls
<1>7. ASSUME h \in DropsErrors PROVE Plan(h, <<Query(Ignored)>>)
  BY <1>7, CallsFit, OneCall
<1>8. ASSUME h \in Halfway PROVE Plan(h, <<Write(400), Remote(400)>>)
  BY <1>8, CallsFit, TwoCalls
<1>9. ASSUME h \in DropsErrors /\ h \in Halfway
      PROVE  Plan(h, <<Write(Ignored), Write(400), Notify(400)>>)
  BY <1>9, CallsFit, ThreeCalls
<1>10. ASSUME h \in NotCaught PROVE Plan(h, <<Remote(Uncaught)>>)
  BY <1>10, CallsFit, OneCall
<1>11. ASSUME h \in NotCaught PROVE Plan(h, <<Query(Uncaught)>>)
  BY <1>11, CallsFit, OneCall
<1>12. ASSUME h \in NotCaught, h \notin OnlyReads PROVE Plan(h, <<Write(Uncaught)>>)
  BY <1>12, CallsFit, OneCall
<1>13. ASSUME h \in NotCaught, h \in Halfway
       PROVE  Plan(h, <<Write(Uncaught), Remote(Uncaught)>>)
  BY <1>13, CallsFit, TwoCalls
<1>14. Plan(h, <<>>)
  BY EmptySeq DEF Plan
<1> QED
  BY <1>1, <1>2, <1>3, <1>4, <1>5, <1>6, <1>7, <1>8, <1>9, <1>10, <1>11, <1>12, <1>13, <1>14

\* Each handler is planned: first its definition, then its name.
LEMMA HandlersPlanned == \A h \in Handlers : Planned(h)
<1> USE DEF Handler, AfterChallenge, BeforeChallenge, Throwing, Unawaited
<1>1. Sound("feedPosts", FeedPosts)
  <2>1. /\ FeedPosts.success = 200 /\ FeedPosts.found = 200 /\ FeedPosts.refusals = {404}
        /\ FeedPosts.calls = {<<Query(404)>>}
        /\ FeedPosts.throws = FALSE /\ FeedPosts.awaits = TRUE
    BY DEF FeedPosts
  <2>2. \A calls \in {<<Query(404)>>} : Plan("feedPosts", calls)
    BY Plans
  <2> QED
    BY <2>1, <2>2 DEF Sound
<1>2. Sound("feedTrending", FeedTrending)
  <2>1. /\ FeedTrending.success = 200 /\ FeedTrending.found = 200 /\ FeedTrending.refusals = {}
        /\ FeedTrending.calls = {<<Query(404)>>}
        /\ FeedTrending.throws = FALSE /\ FeedTrending.awaits = TRUE
    BY DEF FeedTrending
  <2>2. \A calls \in {<<Query(404)>>} : Plan("feedTrending", calls)
    BY Plans
  <2> QED
    BY <2>1, <2>2 DEF Sound
<1>3. Sound("feedLeaderboard", FeedLeaderboard)
  <2>1. /\ FeedLeaderboard.success = 200 /\ FeedLeaderboard.found = 200 /\ FeedLeaderboard.refusals = {400}
        /\ FeedLeaderboard.calls = {<<Query(404), Query(Ignored)>>}
        /\ FeedLeaderboard.throws = FALSE /\ FeedLeaderboard.awaits = TRUE
    BY DEF FeedLeaderboard
  <2>2. \A calls \in {<<Query(404), Query(Ignored)>>} : Plan("feedLeaderboard", calls)
    BY Plans DEF DropsErrors
  <2> QED
    BY <2>1, <2>2 DEF Sound
<1>4. Sound("walletSummary", WalletActivity)
  <2>1. /\ WalletActivity.success = 200 /\ WalletActivity.found = 200 /\ WalletActivity.refusals = {400}
        /\ WalletActivity.calls = {<<Query(400)>>}
        /\ WalletActivity.throws = FALSE /\ WalletActivity.awaits = TRUE
    BY DEF WalletActivity
  <2>2. \A calls \in {<<Query(400)>>} : Plan("walletSummary", calls)
    BY Plans
  <2> QED
    BY <2>1, <2>2 DEF Sound
<1>5. Sound("walletActivity", WalletActivity)
  <2>1. /\ WalletActivity.success = 200 /\ WalletActivity.found = 200 /\ WalletActivity.refusals = {400}
        /\ WalletActivity.calls = {<<Query(400)>>}
        /\ WalletActivity.throws = FALSE /\ WalletActivity.awaits = TRUE
    BY DEF WalletActivity
  <2>2. \A calls \in {<<Query(400)>>} : Plan("walletActivity", calls)
    BY Plans
  <2> QED
    BY <2>1, <2>2 DEF Sound
<1>6. Sound("walletEngagement", WalletEngagement)
  <2>1. /\ WalletEngagement.success = 200 /\ WalletEngagement.found = 200 /\ WalletEngagement.refusals = {400}
        /\ WalletEngagement.calls = {<<Write(500)>>}
        /\ WalletEngagement.throws = FALSE /\ WalletEngagement.awaits = TRUE
    BY DEF WalletEngagement
  <2>2. \A calls \in {<<Write(500)>>} : Plan("walletEngagement", calls)
    BY Plans DEF OnlyReads
  <2> QED
    BY <2>1, <2>2 DEF Sound
<1>7. Sound("charts", Charts)
  <2>1. /\ Charts.success = 200 /\ Charts.found = 200 /\ Charts.refusals = {400}
        /\ Charts.calls = {<<Remote(Uncaught)>>, <<Query(Uncaught)>>, <<>>}
        /\ Charts.throws = FALSE /\ Charts.awaits = TRUE
    BY DEF Charts
  <2>2. \A calls \in {<<Remote(Uncaught)>>, <<Query(Uncaught)>>, <<>>} :
          Plan("charts", calls)
    BY Plans DEF NotCaught
  <2> QED
    BY <2>1, <2>2 DEF Sound
<1>8. Sound("txs", Txs)
  <2>1. /\ Txs.success = 200 /\ Txs.found = 200 /\ Txs.refusals = {}
        /\ Txs.calls = {<<Query(Ignored)>>}
        /\ Txs.throws = FALSE /\ Txs.awaits = TRUE
    BY DEF Txs
  <2>2. \A calls \in {<<Query(Ignored)>>} : Plan("txs", calls)
    BY Plans DEF DropsErrors
  <2> QED
    BY <2>1, <2>2 DEF Sound
<1>9. Sound("votes", Votes)
  <2>1. /\ Votes.success = 200 /\ Votes.found = 200 /\ Votes.refusals = {}
        /\ Votes.calls = {<<Query(Ignored)>>}
        /\ Votes.throws = FALSE /\ Votes.awaits = TRUE
    BY DEF Votes
  <2>2. \A calls \in {<<Query(Ignored)>>} : Plan("votes", calls)
    BY Plans DEF DropsErrors
  <2> QED
    BY <2>1, <2>2 DEF Sound
<1>10. Sound("instance", Instance)
  <2>1. /\ Instance.success = 200 /\ Instance.found = 200 /\ Instance.refusals = {400}
        /\ Instance.calls = {<<Write(400), Remote(400)>>, <<Write(Uncaught), Remote(Uncaught)>>}
        /\ Instance.throws = TRUE /\ Instance.awaits = TRUE
    BY DEF Instance
  <2>2. \A calls \in {<<Write(400), Remote(400)>>, <<Write(Uncaught), Remote(Uncaught)>>} :
          Plan("instance", calls)
    BY Plans DEF Halfway, MayThrow, NotCaught, OnlyReads
  <2> QED
    BY <2>1, <2>2 DEF Sound, MayThrow
<1>11. Sound("profiles", Profiles)
  <2>1. /\ Profiles.success = 200 /\ Profiles.found = 200 /\ Profiles.refusals = {}
        /\ Profiles.calls = {<<Query(Ignored)>>}
        /\ Profiles.throws = FALSE /\ Profiles.awaits = TRUE
    BY DEF Profiles
  <2>2. \A calls \in {<<Query(Ignored)>>} : Plan("profiles", calls)
    BY Plans DEF DropsErrors
  <2> QED
    BY <2>1, <2>2 DEF Sound
<1>12. Sound("search", Search)
  <2>1. /\ Search.success = 200 /\ Search.found = 200 /\ Search.refusals = {200}
        /\ Search.calls = {<<Query(404)>>}
        /\ Search.throws = FALSE /\ Search.awaits = TRUE
    BY DEF Search
  <2>2. \A calls \in {<<Query(404)>>} : Plan("search", calls)
    BY Plans
  <2> QED
    BY <2>1, <2>2 DEF Sound
<1>13. Sound("stats", StatsOf)
  <2>1. /\ StatsOf.success = 200 /\ StatsOf.found = 200 /\ StatsOf.refusals = {404}
        /\ StatsOf.calls = {<<Query(404), Query(404)>>}
        /\ StatsOf.throws = FALSE /\ StatsOf.awaits = TRUE
    BY DEF StatsOf
  <2>2. \A calls \in {<<Query(404), Query(404)>>} : Plan("stats", calls)
    BY Plans
  <2> QED
    BY <2>1, <2>2 DEF Sound
<1>14. Sound("profile", Profile)
  <2>1. /\ Profile.success = 200 /\ Profile.found = 200 /\ Profile.refusals = {}
        /\ Profile.calls = {<<Query(404), Query(Ignored)>>, <<Query(404), Query(404)>>}
        /\ Profile.throws = FALSE /\ Profile.awaits = TRUE
    BY DEF Profile
  <2>2. \A calls \in {<<Query(404), Query(Ignored)>>, <<Query(404), Query(404)>>} :
          Plan("profile", calls)
    BY Plans DEF DropsErrors
  <2> QED
    BY <2>1, <2>2 DEF Sound
<1>15. Sound("profilePosts", ProfilePosts)
  <2>1. /\ ProfilePosts.success = 200 /\ ProfilePosts.found = 200 /\ ProfilePosts.refusals = {}
        /\ ProfilePosts.calls = {<<Query(Ignored)>>}
        /\ ProfilePosts.throws = FALSE /\ ProfilePosts.awaits = TRUE
    BY DEF ProfilePosts
  <2>2. \A calls \in {<<Query(Ignored)>>} : Plan("profilePosts", calls)
    BY Plans DEF DropsErrors
  <2> QED
    BY <2>1, <2>2 DEF Sound
<1>16. Sound("post", Post)
  <2>1. /\ Post.success = 200 /\ Post.found = 200 /\ Post.refusals = {}
        /\ Post.calls = {<<Query(404), Query(Ignored)>>}
        /\ Post.throws = FALSE /\ Post.awaits = TRUE
    BY DEF Post
  <2>2. \A calls \in {<<Query(404), Query(Ignored)>>} : Plan("post", calls)
    BY Plans DEF DropsErrors
  <2> QED
    BY <2>1, <2>2 DEF Sound
<1>17. Sound("posts", Posts)
  <2>1. /\ Posts.success = 200 /\ Posts.found = 400 /\ Posts.refusals = {400}
        /\ Posts.calls = {<<Query(Ignored)>>}
        /\ Posts.throws = TRUE /\ Posts.awaits = TRUE
    BY DEF Posts
  <2>2. \A calls \in {<<Query(Ignored)>>} : Plan("posts", calls)
    BY Plans DEF DropsErrors
  <2> QED
    BY <2>1, <2>2 DEF Sound, OnlyReads, MayThrow
<1>18. Sound("subscribe", Subscribe)
  <2>1. /\ Subscribe.success = 201 /\ Subscribe.found = 201 /\ Subscribe.refusals = {400}
        /\ Subscribe.calls = {<<Write(Ignored), Write(400), Notify(400)>>}
        /\ Subscribe.throws = FALSE /\ Subscribe.awaits = TRUE
    BY DEF Subscribe
  <2>2. \A calls \in {<<Write(Ignored), Write(400), Notify(400)>>} :
          Plan("subscribe", calls)
    BY Plans DEF DropsErrors, Halfway, OnlyReads
  <2> QED
    BY <2>1, <2>2 DEF Sound
<1>19. Sound("subscribeTopic", SubscribeTopic)
  <2>1. /\ SubscribeTopic.success = 201 /\ SubscribeTopic.found = 201 /\ SubscribeTopic.refusals = {400}
        /\ SubscribeTopic.calls = {<<Write(400)>>, <<>>}
        /\ SubscribeTopic.throws = TRUE /\ SubscribeTopic.awaits = TRUE
    BY DEF SubscribeTopic
  <2>2. \A calls \in {<<Write(400)>>, <<>>} : Plan("subscribeTopic", calls)
    BY Plans DEF OnlyReads
  <2> QED
    BY <2>1, <2>2 DEF Sound, MayThrow
<1>20. Sound("unsubscribeTopic", UnsubscribeTopic)
  <2>1. /\ UnsubscribeTopic.success = 200 /\ UnsubscribeTopic.found = 200 /\ UnsubscribeTopic.refusals = {}
        /\ UnsubscribeTopic.calls = {<<Write(Uncaught)>>, <<>>}
        /\ UnsubscribeTopic.throws = TRUE /\ UnsubscribeTopic.awaits = FALSE
    BY DEF UnsubscribeTopic
  <2>2. \A calls \in {<<Write(Uncaught)>>, <<>>} : Plan("unsubscribeTopic", calls)
    BY Plans DEF MayThrow, NotCaught, OnlyReads
  <2> QED
    BY <2>1, <2>2 DEF Sound, MayThrow, AnswerFirst
<1>21. Sound("unsubscribe", Unsubscribe)
  <2>1. /\ Unsubscribe.success = 200 /\ Unsubscribe.found = 200 /\ Unsubscribe.refusals = {}
        /\ Unsubscribe.calls = {<<Write(Uncaught)>>, <<>>}
        /\ Unsubscribe.throws = FALSE /\ Unsubscribe.awaits = FALSE
    BY DEF Unsubscribe
  <2>2. \A calls \in {<<Write(Uncaught)>>, <<>>} : Plan("unsubscribe", calls)
    BY Plans DEF MayThrow, NotCaught, OnlyReads
  <2> QED
    BY <2>1, <2>2 DEF Sound, AnswerFirst
<1> HIDE DEF Handler, AfterChallenge, BeforeChallenge, Throwing, Unawaited
<1>22. Handlers =
         {"feedPosts", "feedTrending", "feedLeaderboard", "walletSummary",
          "walletActivity", "walletEngagement", "charts", "txs",
          "votes", "instance", "profiles", "search",
          "stats", "profile", "profilePosts", "post",
          "posts", "subscribe", "subscribeTopic", "unsubscribeTopic",
          "unsubscribe"}
  BY DEF Handlers, HandlerOf
<1>23. /\ HandlerOf["feedPosts"] = FeedPosts
       /\ HandlerOf["feedTrending"] = FeedTrending
       /\ HandlerOf["feedLeaderboard"] = FeedLeaderboard
       /\ HandlerOf["walletSummary"] = WalletActivity
       /\ HandlerOf["walletActivity"] = WalletActivity
       /\ HandlerOf["walletEngagement"] = WalletEngagement
       /\ HandlerOf["charts"] = Charts
  BY DEF HandlerOf
<1>24. /\ HandlerOf["txs"] = Txs
       /\ HandlerOf["votes"] = Votes
       /\ HandlerOf["instance"] = Instance
       /\ HandlerOf["profiles"] = Profiles
       /\ HandlerOf["search"] = Search
       /\ HandlerOf["stats"] = StatsOf
       /\ HandlerOf["profile"] = Profile
  BY DEF HandlerOf
<1>25. /\ HandlerOf["profilePosts"] = ProfilePosts
       /\ HandlerOf["post"] = Post
       /\ HandlerOf["posts"] = Posts
       /\ HandlerOf["subscribe"] = Subscribe
       /\ HandlerOf["subscribeTopic"] = SubscribeTopic
       /\ HandlerOf["unsubscribeTopic"] = UnsubscribeTopic
       /\ HandlerOf["unsubscribe"] = Unsubscribe
  BY DEF HandlerOf
<1>26. /\ Planned("feedPosts")
       /\ Planned("feedTrending")
       /\ Planned("feedLeaderboard")
       /\ Planned("walletSummary")
       /\ Planned("walletActivity")
       /\ Planned("walletEngagement")
       /\ Planned("charts")
  BY <1>1, <1>2, <1>3, <1>4, <1>5, <1>6, <1>7, <1>23 DEF Planned
<1>27. /\ Planned("txs")
       /\ Planned("votes")
       /\ Planned("instance")
       /\ Planned("profiles")
       /\ Planned("search")
       /\ Planned("stats")
       /\ Planned("profile")
  BY <1>8, <1>9, <1>10, <1>11, <1>12, <1>13, <1>14, <1>24 DEF Planned
<1>28. /\ Planned("profilePosts")
       /\ Planned("post")
       /\ Planned("posts")
       /\ Planned("subscribe")
       /\ Planned("subscribeTopic")
       /\ Planned("unsubscribeTopic")
       /\ Planned("unsubscribe")
  BY <1>15, <1>16, <1>17, <1>18, <1>19, <1>20, <1>21, <1>25 DEF Planned
<1> QED
  BY <1>22, <1>26, <1>27, <1>28

\* What is left after the first call.
LEMMA TailPlanned ==
  ASSUME NEW h, NEW calls, Plan(h, calls), calls # <<>>
  PROVE  /\ Head(calls) \in Calls /\ Head(calls) = calls[1]
         /\ Plan(h, Tail(calls))
         /\ Head(calls).onFailure = Ignored => h \in DropsErrors
         /\ Head(calls).onFailure = Uncaught => h \in NotCaught
         /\ Head(calls).writes /\ Tail(calls) # <<>> => h \in Halfway
         /\ Head(calls).writes => h \notin OnlyReads
<1>1. calls \in Seq(Calls) /\ Len(calls) \in Nat \ {0}
  BY EmptySeq DEF Plan
<1>2. /\ Head(calls) = calls[1] /\ Head(calls) \in Calls /\ 1 \in DOMAIN calls
      /\ Tail(calls) \in Seq(Calls) /\ Len(Tail(calls)) = Len(calls) - 1
      /\ \A i \in DOMAIN Tail(calls) :
           /\ i \in Nat \ {0} /\ i < Len(calls)
           /\ i + 1 \in DOMAIN calls /\ Tail(calls)[i] = calls[i + 1]
  BY <1>1
<1>3. Plan(h, Tail(calls))
  BY <1>1, <1>2 DEF Plan
<1>4. Tail(calls) # <<>> => 1 < Len(calls)
  BY <1>1, <1>2
<1> QED
  BY <1>2, <1>3, <1>4 DEF Plan

-----------------------------------------------------------------------------
(* Dispatch: the handler that a client of an endpoint reaches. *)

\* The routes in the order of mounting.
LEMMA MountedTable ==
  /\ Len(Mounted) = 24 /\ DOMAIN Mounted = 1..24
  /\ Mounted[1] = Route("feedPosts", "GET", <<{"feed"}, {"posts"}>>, 0)
  /\ Mounted[2] = Route("feedTrending", "GET", <<{"feed"}, {"trending"}>>, 2)
  /\ Mounted[3] = Route("feedLeaderboard", "GET", <<{"feed"}, {"leaderboard"}, AnySegment>>, 1)
  /\ Mounted[4] = Route("walletSummary", "GET",
                          <<{"wallet"}, {"summary"}, AnySegment, AnySegment>>, 2)
  /\ Mounted[5] = Route("walletActivity", "GET", <<{"wallet"}, AnySegment, AnySegment>>, 2)
  /\ Mounted[6] = Route("walletEngagement", "GET", <<{"wallet"}, {"engagement"}, AnySegment>>, 0)
  /\ Mounted[7] = Route("referralGenerate", "POST", <<{"referral"}, {"generate"}>>, 0)
  /\ Mounted[8] = Route("referralRedeem", "POST", <<{"referral"}, {"redeem"}>>, 0)
  /\ Mounted[9] = Route("referralGenesis", "POST", <<{"admin"}, {"referral"}, {"genesis"}>>, 0)
  /\ Mounted[10] = Route("charts", "GET", <<{"charts"}, AnySegment, AnySegment>>, 1)
  /\ Mounted[11] = Route("txs", "GET", <<{"txs"}, AnySegment, AnySegment>>, 2)
  /\ Mounted[12] = Route("votes", "GET", <<{"votes"}>>, 2)
  /\ Mounted[13] = Route("instance", "POST", <<{"instance"}>>, 0)
  /\ Mounted[14] = Route("profiles", "GET", <<{"profiles"}>>, 2)
  /\ Mounted[15] = Route("search", "GET", <<{"search"}, AnySegment, AnySegment>>, 0)
  /\ Mounted[16] = Route("stats", "GET", <<{"stats"}, {"profiles", "posts"}, AnySegment>>, 3)
  /\ Mounted[17] = Route("profile", "GET", <<AnySegment, AnySegment>>, 0)
  /\ Mounted[18] = Route("profilePosts", "GET", <<AnySegment, AnySegment, {"posts"}>>, 2)
  /\ Mounted[19] = Route("post", "GET", <<AnySegment, AnySegment, AnySegment>>, 0)
  /\ Mounted[20] = Route("posts", "POST", <<{"posts"}, AnySegment, AnySegment>>, 0)
  /\ Mounted[21] = Route("subscribe", "POST", <<{"push"}, {"subscription"}, AnySegment>>, 0)
  /\ Mounted[22] = Route("subscribeTopic", "POST",
                          <<{"push"}, {"subscription"}, AnySegment, {"topic"}, AnySegment>>, 0)
  /\ Mounted[23] = Route("unsubscribeTopic", "DELETE",
                          <<{"push"}, {"subscription"}, AnySegment, {"topic"}, AnySegment>>, 0)
  /\ Mounted[24] = Route("unsubscribe", "DELETE", <<{"push"}, {"subscription"}, AnySegment>>, 0)
  BY DEF Mounted, FeedRoutes, WalletRoutes, ReferralRoutes, SystemRoutes, ProfileRoutes,
         PushRoutes

\* The place of a route by its name.
Place ==
  [feedPosts |-> 1, feedTrending |-> 2, feedLeaderboard |-> 3,
   walletSummary |-> 4, walletActivity |-> 5, walletEngagement |-> 6,
   referralGenerate |-> 7, referralRedeem |-> 8, referralGenesis |-> 9,
   charts |-> 10, txs |-> 11, votes |-> 12, instance |-> 13,
   profiles |-> 14, search |-> 15, stats |-> 16, profile |-> 17,
   profilePosts |-> 18, post |-> 19, posts |-> 20,
   subscribe |-> 21, subscribeTopic |-> 22, unsubscribeTopic |-> 23, unsubscribe |-> 24]

\* The names of the routes differ.
LEMMA PlacesDiffer == \A i \in 1..24 : Place[Mounted[i].name] = i
<1>1. \A name, method, required, optional :
        Route(name, method, required, optional).name = name
  BY DEF Route
<1> QED
  BY <1>1, MountedTable DEF Place

\* A route is found by its name.
LEMMA RouteFound ==
  ASSUME NEW i \in 1..24
  PROVE  RouteOf(Mounted[i].name) = Mounted[i]
<1>1. DOMAIN Mounted = 1..24
  BY MountedTable
<1>2. \A r \in {Mounted[j] : j \in DOMAIN Mounted} :
        r.name = Mounted[i].name => r = Mounted[i]
  <2> TAKE r \in {Mounted[j] : j \in DOMAIN Mounted}
  <2>1. PICK j \in 1..24 : r = Mounted[j]
    BY <1>1
  <2>2. Place[r.name] = j /\ Place[Mounted[i].name] = i
    BY <2>1, PlacesDiffer
  <2> QED
    BY <2>1, <2>2
<1> QED
  BY <1>1, <1>2 DEF RouteOf

\* What a route is, and what it accepts at a place of the path.
IsRoute(i, method, len, optional) ==
  LET r == Mounted[i] IN
  /\ r.method = method /\ r.optional = optional
  /\ Len(r.required) = len /\ DOMAIN r.required = 1..len
Accepts(i, k) == Mounted[i].required[k]

LEMMA FeedTable ==
  /\ IsRoute(1, "GET", 2, 0)
  /\ Accepts(1, 1) = {"feed"} /\ Accepts(1, 2) = {"posts"}
  /\ IsRoute(2, "GET", 2, 2)
  /\ Accepts(2, 1) = {"feed"} /\ Accepts(2, 2) = {"trending"}
  /\ IsRoute(3, "GET", 3, 1)
  /\ Accepts(3, 1) = {"feed"} /\ Accepts(3, 2) = {"leaderboard"}
  /\ Accepts(3, 3) = AnySegment
  BY MountedTable DEF IsRoute, Accepts, Route

LEMMA WalletTable ==
  /\ IsRoute(4, "GET", 4, 2)
  /\ Accepts(4, 1) = {"wallet"} /\ Accepts(4, 2) = {"summary"}
  /\ Accepts(4, 3) = AnySegment /\ Accepts(4, 4) = AnySegment
  /\ IsRoute(5, "GET", 3, 2)
  /\ Accepts(5, 1) = {"wallet"} /\ Accepts(5, 2) = AnySegment
  /\ Accepts(5, 3) = AnySegment
  /\ IsRoute(6, "GET", 3, 0)
  /\ Accepts(6, 1) = {"wallet"} /\ Accepts(6, 2) = {"engagement"}
  /\ Accepts(6, 3) = AnySegment
  BY MountedTable DEF IsRoute, Accepts, Route

LEMMA ReferralTable ==
  /\ IsRoute(7, "POST", 2, 0)
  /\ Accepts(7, 1) = {"referral"} /\ Accepts(7, 2) = {"generate"}
  /\ IsRoute(8, "POST", 2, 0)
  /\ Accepts(8, 1) = {"referral"} /\ Accepts(8, 2) = {"redeem"}
  /\ IsRoute(9, "POST", 3, 0)
  /\ Accepts(9, 1) = {"admin"} /\ Accepts(9, 2) = {"referral"}
  /\ Accepts(9, 3) = {"genesis"}
  BY MountedTable DEF IsRoute, Accepts, Route

LEMMA SystemTable ==
  /\ IsRoute(10, "GET", 3, 1)
  /\ Accepts(10, 1) = {"charts"} /\ Accepts(10, 2) = AnySegment
  /\ Accepts(10, 3) = AnySegment
  /\ IsRoute(11, "GET", 3, 2)
  /\ Accepts(11, 1) = {"txs"} /\ Accepts(11, 2) = AnySegment
  /\ Accepts(11, 3) = AnySegment
  /\ IsRoute(12, "GET", 1, 2)
  /\ Accepts(12, 1) = {"votes"}
  /\ IsRoute(13, "POST", 1, 0)
  /\ Accepts(13, 1) = {"instance"}
  BY MountedTable DEF IsRoute, Accepts, Route

LEMMA ProfileTable ==
  /\ IsRoute(14, "GET", 1, 2)
  /\ Accepts(14, 1) = {"profiles"}
  /\ IsRoute(15, "GET", 3, 0)
  /\ Accepts(15, 1) = {"search"} /\ Accepts(15, 2) = AnySegment
  /\ Accepts(15, 3) = AnySegment
  /\ IsRoute(16, "GET", 3, 3)
  /\ Accepts(16, 1) = {"stats"} /\ Accepts(16, 2) = {"profiles", "posts"}
  /\ Accepts(16, 3) = AnySegment
  /\ IsRoute(17, "GET", 2, 0)
  /\ Accepts(17, 1) = AnySegment /\ Accepts(17, 2) = AnySegment
  /\ IsRoute(18, "GET", 3, 2)
  /\ Accepts(18, 1) = AnySegment /\ Accepts(18, 2) = AnySegment
  /\ Accepts(18, 3) = {"posts"}
  /\ IsRoute(19, "GET", 3, 0)
  /\ Accepts(19, 1) = AnySegment /\ Accepts(19, 2) = AnySegment
  /\ Accepts(19, 3) = AnySegment
  /\ IsRoute(20, "POST", 3, 0)
  /\ Accepts(20, 1) = {"posts"} /\ Accepts(20, 2) = AnySegment
  /\ Accepts(20, 3) = AnySegment
  BY MountedTable DEF IsRoute, Accepts, Route

LEMMA PushTable ==
  /\ IsRoute(21, "POST", 3, 0)
  /\ Accepts(21, 1) = {"push"} /\ Accepts(21, 2) = {"subscription"}
  /\ Accepts(21, 3) = AnySegment
  /\ IsRoute(22, "POST", 5, 0)
  /\ Accepts(22, 1) = {"push"} /\ Accepts(22, 2) = {"subscription"}
  /\ Accepts(22, 3) = AnySegment /\ Accepts(22, 4) = {"topic"}
  /\ Accepts(22, 5) = AnySegment
  /\ IsRoute(23, "DELETE", 5, 0)
  /\ Accepts(23, 1) = {"push"} /\ Accepts(23, 2) = {"subscription"}
  /\ Accepts(23, 3) = AnySegment /\ Accepts(23, 4) = {"topic"}
  /\ Accepts(23, 5) = AnySegment
  /\ IsRoute(24, "DELETE", 3, 0)
  /\ Accepts(24, 1) = {"push"} /\ Accepts(24, 2) = {"subscription"}
  /\ Accepts(24, 3) = AnySegment
  BY MountedTable DEF IsRoute, Accepts, Route

LEMMA AnyTable == "other" \in AnySegment
  BY DEF AnySegment, Segments

\* A route accepts something at each place.
AcceptsAtEach(i) ==
  LET r == Mounted[i] IN
  /\ Len(r.required) \in Nat /\ r.optional \in Nat
  /\ DOMAIN r.required = 1..Len(r.required)
  /\ \A k \in DOMAIN r.required : Accepts(i, k) # {}

LEMMA WellFormed == \A i \in 1..24 : AcceptsAtEach(i)
<1> USE AnyTable DEF AcceptsAtEach, IsRoute
<1>1. AcceptsAtEach(1) /\ AcceptsAtEach(2) /\ AcceptsAtEach(3)
  BY FeedTable
<1>2. AcceptsAtEach(4) /\ AcceptsAtEach(5) /\ AcceptsAtEach(6)
  BY WalletTable
<1>3. AcceptsAtEach(7) /\ AcceptsAtEach(8) /\ AcceptsAtEach(9)
  BY ReferralTable
<1>4. AcceptsAtEach(10) /\ AcceptsAtEach(11) /\ AcceptsAtEach(12) /\ AcceptsAtEach(13)
  BY SystemTable
<1>5. AcceptsAtEach(14) /\ AcceptsAtEach(15) /\ AcceptsAtEach(16) /\ AcceptsAtEach(17)
  BY ProfileTable
<1>6. AcceptsAtEach(18) /\ AcceptsAtEach(19) /\ AcceptsAtEach(20)
  BY ProfileTable
<1>7. AcceptsAtEach(21) /\ AcceptsAtEach(22) /\ AcceptsAtEach(23) /\ AcceptsAtEach(24)
  BY PushTable
<1> HIDE DEF AcceptsAtEach
<1> QED
  BY <1>1, <1>2, <1>3, <1>4, <1>5, <1>6, <1>7

\* The path of a client has at each place what its route accepts there, and no
\* literal of any route where that is a parameter, or beyond.
LEMMA ClientPath ==
  ASSUME NEW i \in 1..24, NEW n \in Nat
  PROVE  LET path == PathFor(Mounted[i].name, n)  len == Len(Mounted[i].required) IN
         /\ Len(path) = len + n
         /\ \A k \in 1..len : /\ path[k] \in Accepts(i, k)
                              /\ "other" \in Accepts(i, k) => path[k] = "other"
<1> DEFINE e == Mounted[i].name
           pattern == RouteOf(e).required
           path == PathFor(e, n)
           segment(k) == IF k \notin DOMAIN pattern \/ "other" \in pattern[k] THEN "other"
                         ELSE CHOOSE s \in pattern[k] : TRUE
<1>1. path = [k \in 1..(Len(pattern) + n) |-> segment(k)]
  BY DEF PathFor
<1>2. /\ pattern = Mounted[i].required
      /\ Len(pattern) \in Nat /\ DOMAIN pattern = 1..Len(pattern)
      /\ \A k \in DOMAIN pattern : pattern[k] # {}
  BY RouteFound, WellFormed DEF Accepts, AcceptsAtEach
<1>3. Len(path) = Len(pattern) + n
  BY <1>1, <1>2
<1>4. ASSUME NEW k \in 1..Len(pattern)
      PROVE  path[k] \in pattern[k] /\ ("other" \in pattern[k] => path[k] = "other")
  BY <1>1, <1>2
<1> QED
  BY <1>2, <1>3, <1>4 DEF Accepts

\* Place k tells a client of route i from one of route j.
Tells(i, j, k) ==
  /\ k <= Len(Mounted[i].required) /\ k <= Len(Mounted[j].required)
  /\ \/ Accepts(i, k) \cap Accepts(j, k) = {}
     \/ "other" \in Accepts(i, k) /\ "other" \notin Accepts(j, k)

\* A path that a client of route i may write is not one for route j.
Apart(i, j) ==
  LET r == Mounted[i]  s == Mounted[j] IN
  \/ r.method # s.method
  \/ Len(r.required) > Len(s.required) + s.optional
  \/ Len(r.required) + r.optional < Len(s.required)
  \/ \E k \in Nat \ {0} : Tells(i, j, k)

LEMMA ApartLemma ==
  ASSUME NEW i \in 1..24, NEW j \in 1..24, Apart(i, j), NEW n \in 0..Mounted[i].optional
  PROVE  ~Matches(Mounted[j], Mounted[i].method, PathFor(Mounted[i].name, n))
<1> DEFINE r == Mounted[i]
           s == Mounted[j]
           path == PathFor(r.name, n)
<1>0. \/ r.method # s.method
      \/ Len(r.required) > Len(s.required) + s.optional
      \/ Len(r.required) + r.optional < Len(s.required)
      \/ \E k \in Nat \ {0} : Tells(i, j, k)
  BY DEF Apart
<1>1. /\ Len(r.required) \in Nat /\ r.optional \in Nat
      /\ Len(s.required) \in Nat /\ s.optional \in Nat
      /\ DOMAIN s.required = 1..Len(s.required)
      /\ n \in Nat /\ n <= r.optional
  <2>1. AcceptsAtEach(i) /\ AcceptsAtEach(j)
    BY WellFormed
  <2> QED
    BY <2>1 DEF AcceptsAtEach
<1>2. /\ Len(path) = Len(r.required) + n
      /\ \A k \in 1..Len(r.required) : /\ path[k] \in Accepts(i, k)
                                       /\ "other" \in Accepts(i, k) => path[k] = "other"
  BY <1>1, ClientPath
<1> HIDE DEF path, r, s
<1>3. SUFFICES ASSUME Matches(s, r.method, path) PROVE FALSE
  BY DEF path, r, s
<1>4. /\ r.method = s.method
      /\ Len(path) >= Len(s.required) /\ Len(path) <= Len(s.required) + s.optional
      /\ \A k \in 1..Len(s.required) : path[k] \in Accepts(j, k)
  <2>1. /\ s.method = r.method
        /\ Len(path) \in Len(s.required)..(Len(s.required) + s.optional)
        /\ \A k \in DOMAIN s.required : path[k] \in s.required[k]
    BY <1>3 DEF Matches
  <2>2. \A k : Accepts(j, k) = s.required[k]
    BY DEF Accepts, s
  <2> QED
    BY <1>1, <2>1, <2>2
<1>5. PICK k \in Nat \ {0} : Tells(i, j, k)
  <2>1. PICK m, o, len :
          m = Len(r.required) /\ o = Len(s.required) /\ len = Len(path)
    OBVIOUS
  <2>2. /\ m \in Nat /\ r.optional \in Nat /\ o \in Nat /\ s.optional \in Nat
        /\ n \in Nat /\ n <= r.optional
    BY <1>1, <2>1
  <2>3. len = m + n /\ len >= o /\ len <= o + s.optional
    BY <1>2, <1>4, <2>1
  <2>4. ~(m > o + s.optional) /\ ~(m + r.optional < o)
    BY <2>2, <2>3
  <2> QED
    BY <1>0, <1>4, <2>1, <2>4
<1>6. k \in 1..Len(r.required) /\ k \in 1..Len(s.required)
  BY <1>1, <1>5 DEF Tells, r, s
<1> QED
  BY <1>2, <1>4, <1>5, <1>6 DEF Tells

\* The first route that matches serves the request.
LEMMA FirstMatch ==
  ASSUME NEW i \in 1..24, NEW method, NEW path, Matches(Mounted[i], method, path),
         \A j \in 1..(i - 1) : ~Matches(Mounted[j], method, path)
  PROVE  Dispatch(method, path) = Mounted[i].name
<1> DEFINE matching == {j \in DOMAIN Mounted : Matches(Mounted[j], method, path)}
           first == CHOOSE j \in matching : \A k \in matching : j <= k
<1>1. i \in matching /\ \A k \in matching : i <= k
  BY MountedTable
<1>2. \A j \in matching : (\A k \in matching : j <= k) => j = i
  BY <1>1, MountedTable
<1>3. first = i
  BY <1>1, <1>2
<1> QED
  BY <1>1, <1>3 DEF Dispatch

\* A client whose path is none for the routes before its own reaches its own.
LEMMA Served ==
  ASSUME NEW i \in 1..24, \A j \in 1..(i - 1) : Apart(i, j),
         NEW n \in 0..Mounted[i].optional
  PROVE  ServerOf(Mounted[i].name, n) = Mounted[i].name
<1> DEFINE path == PathFor(Mounted[i].name, n)
           len == Len(Mounted[i].required)
<1>1. /\ len \in Nat /\ Mounted[i].optional \in Nat /\ DOMAIN Mounted[i].required = 1..len
      /\ n \in Nat /\ n <= Mounted[i].optional
  <2>1. AcceptsAtEach(i)
    BY WellFormed
  <2> QED
    BY <2>1 DEF AcceptsAtEach
<1>2. Len(path) = len + n /\ \A k \in 1..len : path[k] \in Mounted[i].required[k]
  BY <1>1, ClientPath DEF Accepts
<1>3. ASSUME NEW j \in 1..(i - 1) PROVE ~Matches(Mounted[j], Mounted[i].method, path)
  <2>1. j \in 1..24 /\ Apart(i, j)
    OBVIOUS
  <2> QED
    BY <2>1, ApartLemma
<1> HIDE DEF path
<1>4. Dispatch(Mounted[i].method, path) = Mounted[i].name
  <2>1. Matches(Mounted[i], Mounted[i].method, path)
    BY <1>1, <1>2 DEF Matches
  <2> QED
    BY <1>3, <2>1, FirstMatch
<1> QED
  BY <1>4, RouteFound DEF ServerOf, path

\* The literal that a route begins with; three of them begin with a parameter.
Opening ==
  <<"feed", "feed", "feed", "wallet", "wallet", "wallet", "referral", "referral", "admin",
    "charts", "txs", "votes", "instance", "profiles", "search", "stats",
    "other", "other", "other", "posts", "push", "push", "push", "push">>

BeginsWithIt(i) ==
  /\ Accepts(i, 1) = IF i \in 17..19 THEN AnySegment ELSE {Opening[i]}
  /\ Len(Mounted[i].required) >= 1

LEMMA OpeningTable == \A i \in 1..24 : BeginsWithIt(i)
<1> USE DEF BeginsWithIt, IsRoute, Opening
<1>1. BeginsWithIt(1) /\ BeginsWithIt(2) /\ BeginsWithIt(3)
  BY FeedTable
<1>2. BeginsWithIt(4) /\ BeginsWithIt(5) /\ BeginsWithIt(6)
  BY WalletTable
<1>3. BeginsWithIt(7) /\ BeginsWithIt(8) /\ BeginsWithIt(9)
  BY ReferralTable
<1>4. BeginsWithIt(10) /\ BeginsWithIt(11) /\ BeginsWithIt(12) /\ BeginsWithIt(13)
  BY SystemTable
<1>5. BeginsWithIt(14) /\ BeginsWithIt(15) /\ BeginsWithIt(16) /\ BeginsWithIt(17)
  BY ProfileTable
<1>6. BeginsWithIt(18) /\ BeginsWithIt(19) /\ BeginsWithIt(20)
  BY ProfileTable
<1>7. BeginsWithIt(21) /\ BeginsWithIt(22) /\ BeginsWithIt(23) /\ BeginsWithIt(24)
  BY PushTable
<1> HIDE DEF BeginsWithIt, IsRoute, Opening
<1> QED
  BY <1>1, <1>2, <1>3, <1>4, <1>5, <1>6, <1>7

\* Routes with different openings are apart.
LEMMA ApartByOpening ==
  ASSUME NEW i \in 1..24, NEW j \in 1..24, j \notin 17..19,
         i \in 17..19 \/ Opening[i] # Opening[j]
  PROVE  Apart(i, j)
<1>1. /\ Accepts(i, 1) = IF i \in 17..19 THEN AnySegment ELSE {Opening[i]}
      /\ Accepts(j, 1) = {Opening[j]}
      /\ Len(Mounted[i].required) >= 1 /\ Len(Mounted[j].required) >= 1
  BY OpeningTable DEF BeginsWithIt
<1>2. Opening[j] # "other"
  BY DEF Opening
<1>3. Tells(i, j, 1)
  BY <1>1, <1>2, AnyTable DEF Tells
<1> QED
  BY <1>3 DEF Apart

\* The routes of a router that begin alike.
LEMMA ApartInRouter ==
  /\ Apart(2, 1) /\ Apart(3, 1) /\ Apart(3, 2)
  /\ Apart(5, 4) /\ Apart(6, 4)
  /\ Apart(8, 7)
  /\ Apart(18, 17) /\ Apart(19, 17) /\ Apart(19, 18)
  /\ Apart(22, 21) /\ Apart(23, 21) /\ Apart(23, 22)
  /\ Apart(24, 21) /\ Apart(24, 22) /\ Apart(24, 23)
<1> USE DEF Apart, IsRoute
<1>1. Tells(2, 1, 2) /\ Tells(3, 1, 2) /\ Tells(3, 2, 2)
  BY FeedTable DEF Tells
<1>2. Tells(5, 4, 2) /\ Tells(6, 4, 2)
  BY WalletTable, AnyTable DEF Tells
<1>3. Tells(8, 7, 2)
  BY ReferralTable DEF Tells
<1>4. Tells(19, 18, 3)
  BY ProfileTable, AnyTable DEF Tells
<1>5. Apart(18, 17) /\ Apart(19, 17)
  BY ProfileTable
<1>6. Apart(22, 21) /\ Apart(23, 21) /\ Apart(23, 22)
  BY PushTable
<1>7. Apart(24, 21) /\ Apart(24, 22) /\ Apart(24, 23)
  BY PushTable
<1>8. 2 \in Nat \ {0} /\ 3 \in Nat \ {0}
  OBVIOUS
<1> QED
  BY <1>1, <1>2, <1>3, <1>4, <1>5, <1>6, <1>7, <1>8

\* All routes are apart from those before them, but the engagement of a wallet.
LEMMA AllApart ==
  ASSUME NEW i \in 1..24, NEW j \in 1..(i - 1), i # 6 \/ j # 5
  PROVE  Apart(i, j)
<1>1. CASE j \in 17..19 /\ i \in 20..24
  <2>1. \A k \in 17..19 : Mounted[k].method = "GET"
    BY ProfileTable DEF IsRoute
  <2>2. \A k \in 20..24 : Mounted[k].method # "GET"
    BY ProfileTable, PushTable DEF IsRoute
  <2> QED
    BY <1>1, <2>1, <2>2 DEF Apart
<1>2. CASE j \in 17..19 /\ i \in 17..19
  BY <1>2, ApartInRouter
<1>3. CASE j \notin 17..19 /\ i \in 17..19
  BY <1>3, ApartByOpening
<1>4. CASE j \notin 17..19 /\ i \notin 17..19 /\ Opening[i] # Opening[j]
  BY <1>4, ApartByOpening
<1>5. CASE j \notin 17..19 /\ i \notin 17..19 /\ Opening[i] = Opening[j]
  <2>1. \/ i \in 1..3 /\ j \in 1..3
        \/ i \in 4..6 /\ j \in 4..6
        \/ i \in 7..8 /\ j \in 7..8
        \/ i \in 21..24 /\ j \in 21..24
    BY <1>5 DEF Opening
  <2> QED
    BY <2>1, ApartInRouter
<1> QED
  BY <1>1, <1>2, <1>3, <1>4, <1>5

\* Every client of an endpoint, with any number of its optional segments,
\* reaches its handler; but the engagement of a wallet is served as activity.
LEMMA Dispatched ==
  ASSUME NEW e \in Handlers, NEW n \in 0..RouteOf(e).optional
  PROVE  ServerOf(e, n) = IF e = "walletEngagement" THEN "walletActivity" ELSE e
<1>1. PICK i \in 1..24 : i = Place[e] /\ Mounted[i].name = e
  BY MountedTable DEF Handlers, HandlerOf, Place, Route
<1>2. n \in 0..Mounted[i].optional
  BY <1>1, RouteFound
<1>3. CASE e # "walletEngagement"
  <2>1. i # 6
    BY <1>1, <1>3, MountedTable DEF Route
  <2>2. \A j \in 1..(i - 1) : Apart(i, j)
    BY <2>1, AllApart
  <2> QED
    BY <1>1, <1>2, <1>3, <2>2, Served
<1>4. CASE e = "walletEngagement"
  <2> DEFINE path == PathFor(Mounted[6].name, n)
  <2>1. i = 6
    BY <1>1, <1>4 DEF Place
  <2>2. n = 0 /\ Mounted[6].method = "GET"
    BY <1>2, <2>1, WalletTable DEF IsRoute
  <2>3. /\ Len(path) = 3 /\ path[1] = "wallet"
        /\ path[2] = "engagement" /\ path[3] \in AnySegment
    <3>1. Len(Mounted[6].required) = 3
      BY WalletTable DEF IsRoute
    <3>2. n \in Nat /\ 6 \in 1..24
      BY <2>2
    <3>3. /\ Len(path) = Len(Mounted[6].required) + n
          /\ \A k \in 1..Len(Mounted[6].required) : path[k] \in Accepts(6, k)
      BY <3>2, ClientPath
    <3> HIDE DEF path
    <3>4. path[1] \in Accepts(6, 1) /\ path[2] \in Accepts(6, 2) /\ path[3] \in Accepts(6, 3)
      BY <3>1, <3>3
    <3> QED
      BY <2>2, <3>1, <3>3, <3>4, WalletTable
  <2>4. \A j \in 1..4 : ~Matches(Mounted[j], "GET", path)
    <3>1. n \in 0..Mounted[6].optional
      BY <1>2, <2>1
    <3>2. ASSUME NEW j \in 1..4
          PROVE  ~Matches(Mounted[j], Mounted[6].method, PathFor(Mounted[6].name, n))
      <4>1. 6 \in 1..24 /\ j \in 1..24 /\ j \in 1..(6 - 1) /\ j # 5
        OBVIOUS
      <4>2. Apart(6, j)
        BY <4>1, AllApart
      <4> QED
        BY <3>1, <4>1, <4>2, ApartLemma
    <3> QED
      BY <2>2, <3>2
  <2> HIDE DEF path
  <2>5. Matches(Mounted[5], "GET", path)
    <3>1. "engagement" \in AnySegment
      BY DEF AnySegment, Segments
    <3>2. /\ Mounted[5].method = "GET" /\ Mounted[5].optional = 2
          /\ Len(Mounted[5].required) = 3 /\ DOMAIN Mounted[5].required = 1..3
          /\ Mounted[5].required[1] = {"wallet"}
          /\ Mounted[5].required[2] = AnySegment /\ Mounted[5].required[3] = AnySegment
      BY WalletTable DEF IsRoute, Accepts
    <3> QED
      BY <2>3, <3>1, <3>2 DEF Matches
  <2>6. Dispatch("GET", path) = Mounted[5].name
    BY <2>4, <2>5, FirstMatch
  <2>7. Mounted[5].name = "walletActivity"
    BY MountedTable DEF Route
  <2> QED
    BY <1>1, <1>4, <2>1, <2>2, <2>6, <2>7, RouteFound DEF ServerOf, path
<1> QED
  BY <1>3, <1>4

LEMMA OptionalsNumbered == \A e \in Handlers : 0 \in 0..RouteOf(e).optional
<1> TAKE e \in Handlers
<1>1. PICK i \in 1..24 : Mounted[i].name = e
  BY MountedTable DEF Handlers, HandlerOf, Route
<1>2. RouteOf(e) = Mounted[i] /\ AcceptsAtEach(i)
  BY <1>1, RouteFound, WellFormed
<1> QED
  BY <1>2 DEF AcceptsAtEach

-----------------------------------------------------------------------------
(* The invariant of ApiSpec. *)

\* Who serves endpoint e.
ServedBy(e) == IF e = "walletEngagement" THEN "walletActivity" ELSE e

Answers == {0, 200, 201, 400, 401, 404, 500}

InFlightRequests ==
  [endpoint : Handlers, handler : Handlers, calls : Seq(Calls), answer : Answers,
   failed : BOOLEAN, wrote : BOOLEAN]

\* A request of a client: its handler is the one it asked for, which has answered
\* before its calls only if it does not await them.
RequestServed(r) ==
  /\ r \in InFlightRequests
  /\ r.handler = ServedBy(r.endpoint)
  /\ r.calls # <<>> => r.answer < 400 /\ (r.answer = 0 \/ r.handler \in AnswerFirst)

\* What it still awaits is in the handler's plan.  A call of it may have failed,
\* yet the handler goes on or says that all went well, only where errors are
\* dropped; something may be written, yet the handler goes on or says that it
\* failed, only where a call follows the first that writes.
RequestOK(r) ==
  /\ RequestServed(r)
  /\ Plan(r.handler, r.calls)
  /\ r.failed /\ (r.calls # <<>> \/ r.answer < 400) => r.handler \in DropsErrors
  /\ r.wrote => r.handler \notin OnlyReads
  /\ r.wrote /\ (r.calls # <<>> \/ r.answer >= 400) => r.handler \in Halfway

\* A request whose failure ended the process.
RequestEnded(r) == exit = 1 /\ RequestServed(r) /\ r.calls # <<>>

RequestsOK ==
  \A s \in Slots : requests[s] # Free => RequestOK(requests[s]) \/ RequestEnded(requests[s])

\* The start-up and the shutdown.  While the process runs nothing ended it,
\* and only a call of close() that is through ends it well.
ProcessOK ==
  /\ stage \in 0..5
  /\ listening \in BOOLEAN /\ client \in BOOLEAN /\ synced \in BOOLEAN
  /\ closing \in [Closers -> 0..6]
  /\ exit \in {0, 1, NoExit}
  /\ OnlyUncaughtCrash

ApiInv ==
  /\ ProcessOK
  /\ requests \in [Slots -> InFlightRequests \cup {Free}]
  /\ RequestsOK

LEMMA PartsAreFive == Len(Parts) = 5 /\ DOMAIN Parts = 1..5
  BY DEF Parts

LEMMA FreeIsNoRequest == Free \notin InFlightRequests
<1>1. Free.endpoint = "none"
  BY DEF Free
<1>2. "none" \notin Handlers
  BY DEF Handlers, HandlerOf
<1> QED
  BY <1>1, <1>2 DEF InFlightRequests

LEMMA ServerIsHandler ==
  ASSUME NEW e \in Handlers
  PROVE  ServedBy(e) \in Handlers
  BY DEF ServedBy, Handlers, HandlerOf

LEMMA ApiInitially == ApiInit => ApiInv
<1> SUFFICES ASSUME ApiInit PROVE ApiInv
  OBVIOUS
<1>1. ProcessOK
  <2>1. stage = 0 /\ exit = 2 /\ closing = [c \in Closers |-> 0]
    BY DEF ApiInit, NoExit
  <2>2. listening \in BOOLEAN /\ client \in BOOLEAN /\ synced \in BOOLEAN
    BY DEF ApiInit
  <2>3. closing \in [Closers -> 0..6]
    BY <2>1
  <2> QED
    BY <2>1, <2>2, <2>3 DEF ProcessOK, OnlyUncaughtCrash, NoExit
<1>2. requests \in [Slots -> InFlightRequests \cup {Free}] /\ RequestsOK
  BY DEF ApiInit, RequestsOK
<1> QED
  BY <1>1, <1>2 DEF ApiInv

\* While the process runs none of its requests has ended it.
LEMMA RunningOK ==
  ASSUME ApiInv, Running, NEW s \in Slots, requests[s] # Free
  PROVE  RequestOK(requests[s])
  BY DEF ApiInv, RequestsOK, RequestEnded, Running, NoExit

\* A step that puts a good request, or none, into a slot.
LEMMA SlotChanges ==
  ASSUME NEW s \in Slots, NEW r, RequestOK(r) \/ r = Free,
         ApiInv, Running,
         requests' = [requests EXCEPT ![s] = r]
  PROVE  /\ requests' \in [Slots -> InFlightRequests \cup {Free}]
         /\ RequestsOK'
<1>1. r \in InFlightRequests \cup {Free}
  BY DEF RequestOK, RequestServed
<1>2. /\ requests \in [Slots -> InFlightRequests \cup {Free}]
      /\ \A t \in Slots : requests[t] # Free => RequestOK(requests[t])
  BY RunningOK DEF ApiInv
<1>3. \A t \in Slots : requests'[t] = IF t = s THEN r ELSE requests[t]
  BY <1>2
<1> QED
  BY <1>1, <1>2, <1>3 DEF RequestsOK

\* A step that ends the process and leaves the requests as they are.
LEMMA CrashKeepsRequests ==
  ASSUME ApiInv, Running, requests' = requests
  PROVE  /\ requests' \in [Slots -> InFlightRequests \cup {Free}]
         /\ RequestsOK'
<1>1. \A s \in Slots : requests[s] # Free => RequestOK(requests[s])
  BY RunningOK
<1> QED
  BY <1>1 DEF ApiInv, RequestsOK

\* A request as it is received.
LEMMA RequestReceived ==
  ASSUME NEW e \in Handlers, NEW answer \in Answers, NEW calls,
         Plan(ServedBy(e), calls),
         calls # <<>> => answer < 400 /\ (answer = 0 \/ ServedBy(e) \in AnswerFirst)
  PROVE  RequestOK(Request(e, ServedBy(e), calls, answer))
<1>1. calls \in Seq(Calls) /\ ServedBy(e) \in Handlers
  BY ServerIsHandler DEF Plan
<1> QED
  BY <1>1 DEF RequestOK, RequestServed, Request, InFlightRequests, Answers

LEMMA ReceiveStep ==
  ASSUME ApiInv, NEW s \in Slots, Receive(s)
  PROVE  ApiInv'
<1> DEFINE Got(e, h) ==
      \/ \E status \in HandlerOf[h].refusals :
           requests' = [requests EXCEPT ![s] = Request(e, h, <<>>, status)]
      \/ \E calls \in HandlerOf[h].calls :
           requests' = [requests EXCEPT ![s] = Accepted(e, h, calls)]
<1>0. PICK e \in Handlers : \E n \in 0..RouteOf(e).optional : Got(e, ServerOf(e, n))
  BY DEF Receive
<1>1. PICK n \in 0..RouteOf(e).optional : Got(e, ServerOf(e, n))
  BY <1>0
<1>2. ServerOf(e, n) = ServedBy(e) /\ ServedBy(e) \in Handlers
  BY Dispatched, ServerIsHandler DEF ServedBy
<1>3. Planned(ServedBy(e))
  BY <1>2, HandlersPlanned
<1>4. PICK r : RequestOK(r) /\ requests' = [requests EXCEPT ![s] = r]
  <2>1. CASE \E status \in HandlerOf[ServedBy(e)].refusals :
               requests' = [requests EXCEPT ![s] = Request(e, ServedBy(e), <<>>, status)]
    <3>1. PICK status \in HandlerOf[ServedBy(e)].refusals :
            requests' = [requests EXCEPT ![s] = Request(e, ServedBy(e), <<>>, status)]
      BY <2>1
    <3>2. status \in Answers
      BY <1>3 DEF Planned, Sound, Answers
    <3>3. Plan(ServedBy(e), <<>>)
      BY Plans
    <3>4. RequestOK(Request(e, ServedBy(e), <<>>, status))
      BY <3>2, <3>3, RequestReceived
    <3> QED
      BY <3>1, <3>4
  <2>2. CASE \E calls \in HandlerOf[ServedBy(e)].calls :
               requests' = [requests EXCEPT ![s] = Accepted(e, ServedBy(e), calls)]
    <3>1. PICK calls \in HandlerOf[ServedBy(e)].calls :
            requests' = [requests EXCEPT ![s] = Accepted(e, ServedBy(e), calls)]
      BY <2>2
    <3>2. PICK answer : answer =
            IF calls = <<>> \/ ~HandlerOf[ServedBy(e)].awaits
            THEN HandlerOf[ServedBy(e)].success ELSE 0
      OBVIOUS
    <3>3. /\ answer \in Answers /\ answer < 400
          /\ calls # <<>> => answer = 0 \/ ServedBy(e) \in AnswerFirst
      BY <1>3, <3>2 DEF Planned, Sound, Answers
    <3>4. Accepted(e, ServedBy(e), calls) = Request(e, ServedBy(e), calls, answer)
      BY <3>2 DEF Accepted
    <3>5. Plan(ServedBy(e), calls)
      BY <1>3 DEF Planned, Sound
    <3>6. RequestOK(Request(e, ServedBy(e), calls, answer))
      BY <3>3, <3>5, RequestReceived
    <3> QED
      BY <3>1, <3>4, <3>6
  <2> QED
    BY <1>1, <1>2, <2>1, <2>2
<1>5. ProcessOK'
  BY DEF ApiInv, ProcessOK, OnlyUncaughtCrash, Receive, Running, NoExit
<1>6. Running
  BY DEF Receive
<1> QED
  BY <1>4, <1>5, <1>6, SlotChanges DEF ApiInv

LEMMA ChallengeStep ==
  ASSUME ApiInv, NEW s \in Slots, Challenge(s)
  PROVE  ApiInv'
<1>1. CASE ~synced
  <2>1. /\ Running /\ Crash("challenge")
        /\ UNCHANGED <<requests, stage, listening, client, synced, closing>>
    BY <1>1 DEF Challenge
  <2>2. ProcessOK'
    BY <1>1, <2>1 DEF ApiInv, ProcessOK, OnlyUncaughtCrash, Crash, NoExit
  <2> QED
    BY <2>1, <2>2, CrashKeepsRequests DEF ApiInv
<1>2. CASE synced
  <2>1. PICK e \in Handlers :
          requests' = [requests EXCEPT ![s] = Request(e, ServerOf(e, 0), <<>>, 401)]
    BY <1>2 DEF Challenge
  <2>2. ServerOf(e, 0) = ServedBy(e)
    BY OptionalsNumbered, Dispatched DEF ServedBy
  <2>3. PICK r : r = Request(e, ServedBy(e), <<>>, 401)
    OBVIOUS
  <2>4. RequestOK(r)
    <3>1. Plan(ServedBy(e), <<>>) /\ 401 \in Answers
      BY Plans DEF Answers
    <3> QED
      BY <2>3, <3>1, RequestReceived
  <2>5. ProcessOK'
    BY <1>2 DEF ApiInv, ProcessOK, OnlyUncaughtCrash, Challenge, Running, NoExit
  <2>6. requests' = [requests EXCEPT ![s] = r] /\ Running
    BY <2>1, <2>2, <2>3 DEF Challenge
  <2> QED
    BY <2>4, <2>5, <2>6, SlotChanges DEF ApiInv
<1> QED
  BY <1>1, <1>2 DEF ApiInv, ProcessOK

\* A request that makes a handler throw is not one of those in flight.
LEMMA ThrowsStep ==
  ASSUME ApiInv, NEW s \in Slots, Throws(s)
  PROVE  ApiInv'
<1>0. PICK e \in Handlers :
        \E n \in 0..RouteOf(e).optional :
          HandlerOf[ServerOf(e, n)].throws /\ Crash(ServerOf(e, n))
  BY DEF Throws
<1>1. PICK n \in 0..RouteOf(e).optional :
        HandlerOf[ServerOf(e, n)].throws /\ Crash(ServerOf(e, n))
  BY <1>0
<1>2. ServerOf(e, n) = ServedBy(e) /\ ServedBy(e) \in Handlers
  BY Dispatched, ServerIsHandler DEF ServedBy
<1>3. ServedBy(e) \in MayThrow
  BY <1>1, <1>2, HandlersPlanned DEF Planned, Sound
<1>4. /\ Running /\ exit' = 1 /\ cause' \in MayThrow
      /\ UNCHANGED <<stage, listening, client, synced, closing, requests>>
  BY <1>1, <1>2, <1>3 DEF Throws, Crash
<1>5. ProcessOK'
  BY <1>4 DEF ApiInv, ProcessOK, OnlyUncaughtCrash, NoExit
<1> QED
  BY <1>4, <1>5, CrashKeepsRequests DEF ApiInv

\* A request in flight whose first call went well, or whose failure the handler
\* ignores.
LEMMA Proceeds ==
  ASSUME NEW r, RequestOK(r), r.calls # <<>>, NEW ok \in BOOLEAN,
         ok \/ Head(r.calls).onFailure = Ignored,
         NEW status \in {HandlerOf[r.handler].success, HandlerOf[r.handler].found},
         ok \/ status = HandlerOf[r.handler].success
  PROVE  RequestOK(Proceed(r, ok, status))
<1>1. /\ Head(r.calls) \in Calls
      /\ Plan(r.handler, Tail(r.calls))
      /\ Head(r.calls).onFailure = Ignored => r.handler \in DropsErrors
      /\ Head(r.calls).writes /\ Tail(r.calls) # <<>> => r.handler \in Halfway
      /\ Head(r.calls).writes => r.handler \notin OnlyReads
  BY TailPlanned DEF RequestOK
<1>2. /\ r.handler \in Handlers /\ r.answer \in Answers /\ r.answer < 400
      /\ r.answer = 0 \/ r.handler \in AnswerFirst
  BY DEF RequestOK, RequestServed, InFlightRequests
<1>3. status \in {200, 201} \/ (status = 400 /\ r.handler \in OnlyReads)
  BY <1>2, HandlersPlanned DEF Planned, Sound
<1>4. PICK q : q = Proceed(r, ok, status)
  OBVIOUS
<1>5. q = [r EXCEPT !.calls = Tail(r.calls),
                    !.answer = IF r.answer = 0 /\ Tail(r.calls) = <<>>
                               THEN status ELSE r.answer,
                    !.failed = r.failed \/ ~ok,
                    !.wrote = r.wrote \/ (ok /\ Head(r.calls).writes)]
  BY <1>4 DEF Proceed
<1>6. r \in InFlightRequests
  BY DEF RequestOK, RequestServed
<1>7. /\ q.endpoint = r.endpoint /\ q.handler = r.handler /\ q.calls = Tail(r.calls)
      /\ q.answer = IF r.answer = 0 /\ Tail(r.calls) = <<>> THEN status ELSE r.answer
      /\ q.failed = (r.failed \/ ~ok)
      /\ q.wrote = (r.wrote \/ (ok /\ Head(r.calls).writes))
      /\ q = [endpoint |-> q.endpoint, handler |-> q.handler, calls |-> q.calls,
              answer |-> q.answer, failed |-> q.failed, wrote |-> q.wrote]
  BY <1>5, <1>6 DEF InFlightRequests
<1>8. /\ q.answer \in Answers
      /\ q.answer < 400 \/ (q.calls = <<>> /\ q.answer = 400 /\ q.handler \in OnlyReads)
      /\ q.calls # <<>> => q.answer = r.answer
  BY <1>2, <1>3, <1>7 DEF Answers
<1>9. q \in InFlightRequests
  <2>1. Head(r.calls).writes \in BOOLEAN
    BY <1>1 DEF Calls
  <2>2. r.failed \in BOOLEAN /\ r.wrote \in BOOLEAN /\ r.endpoint \in Handlers
    BY <1>6 DEF InFlightRequests
  <2>3. q.failed \in BOOLEAN /\ q.wrote \in BOOLEAN
    BY <1>7, <2>1, <2>2
  <2>4. q.calls \in Seq(Calls)
    BY <1>1, <1>7 DEF Plan
  <2> QED
    BY <1>2, <1>7, <1>8, <2>2, <2>3, <2>4 DEF InFlightRequests
<1>10. q.failed => q.handler \in DropsErrors
  BY <1>1, <1>2, <1>7 DEF RequestOK
<1>11. /\ q.wrote => q.handler \notin OnlyReads
       /\ q.wrote /\ q.calls # <<>> => q.handler \in Halfway
  BY <1>1, <1>7 DEF RequestOK
<1>12. ~(q.answer >= 400) \/ q.handler \in OnlyReads
  BY <1>8 DEF Answers
<1>13. q.handler = ServedBy(q.endpoint)
  BY <1>7 DEF RequestOK, RequestServed
<1>14. RequestServed(q)
  BY <1>2, <1>7, <1>8, <1>9, <1>13 DEF RequestServed
<1> QED
  BY <1>1, <1>4, <1>7, <1>10, <1>11, <1>12, <1>14 DEF RequestOK

\* A request whose first call failed, which its handler tells the client.
LEMMA Refused ==
  ASSUME NEW r, RequestOK(r), r.calls # <<>>,
         Head(r.calls).onFailure \notin {Ignored, Uncaught}
  PROVE  RequestOK([r EXCEPT !.calls = <<>>, !.answer = Head(r.calls).onFailure,
                             !.failed = TRUE])
<1>1. Head(r.calls) \in Calls
  BY TailPlanned DEF RequestOK
<1>2. PICK answer : answer = Head(r.calls).onFailure
  OBVIOUS
<1>3. answer \in {400, 404, 500}
  BY <1>1, <1>2 DEF Calls
<1>4. PICK q : q = [r EXCEPT !.calls = <<>>, !.answer = answer, !.failed = TRUE]
  OBVIOUS
<1>5. r \in InFlightRequests /\ r.handler = ServedBy(r.endpoint)
  BY DEF RequestOK, RequestServed
<1>6. /\ q.endpoint = r.endpoint /\ q.handler = r.handler /\ q.calls = <<>>
      /\ q.answer = answer /\ q.failed = TRUE /\ q.wrote = r.wrote
  BY <1>4, <1>5 DEF InFlightRequests
<1>7. q \in InFlightRequests
  <2>1. answer \in Answers /\ <<>> \in Seq(Calls)
    BY <1>3 DEF Answers
  <2>2. q = [endpoint |-> r.endpoint, handler |-> r.handler, calls |-> <<>>,
             answer |-> answer, failed |-> TRUE, wrote |-> r.wrote]
    BY <1>4, <1>5 DEF InFlightRequests
  <2>3. r.endpoint \in Handlers /\ r.handler \in Handlers /\ r.wrote \in BOOLEAN
    BY <1>5 DEF InFlightRequests
  <2> QED
    BY <2>1, <2>2, <2>3 DEF InFlightRequests
<1>8. Plan(q.handler, q.calls)
  BY <1>6, Plans
<1>9. ~(q.answer < 400)
  BY <1>3, <1>6
<1>10. q.wrote => q.handler \in Halfway /\ q.handler \notin OnlyReads
  BY <1>6 DEF RequestOK
<1>11. RequestServed(q)
  BY <1>5, <1>6, <1>7 DEF RequestServed
<1>12. RequestOK(q)
  BY <1>6, <1>8, <1>9, <1>10, <1>11 DEF RequestOK
<1> QED
  BY <1>2, <1>4, <1>12

LEMMA CallReturnsStep ==
  ASSUME ApiInv, NEW s \in Slots, CallReturns(s)
  PROVE  ApiInv'
<1>1. /\ requests[s] # Free /\ requests[s].calls # <<>> /\ Running
  BY DEF CallReturns, InFlight
<1>2. PICK status \in {HandlerOf[requests[s].handler].success,
                       HandlerOf[requests[s].handler].found} :
        requests' = [requests EXCEPT ![s] = Proceed(requests[s], TRUE, status)]
  BY DEF CallReturns
<1>3. RequestOK(Proceed(requests[s], TRUE, status))
  BY <1>1, RunningOK, Proceeds
<1>4. ProcessOK'
  BY DEF ApiInv, ProcessOK, OnlyUncaughtCrash, CallReturns, Running, NoExit
<1> QED
  BY <1>1, <1>2, <1>3, <1>4, SlotChanges DEF ApiInv

\* A failure that is not caught ends the process: its request is RequestEnded.
LEMMA UncaughtStep ==
  ASSUME ApiInv, NEW s \in Slots, CallFails(s), Head(requests[s].calls).onFailure = Uncaught
  PROVE  ApiInv'
<1>1. /\ Running /\ requests[s] # Free /\ requests[s].calls # <<>>
      /\ exit' = 1 /\ cause' = requests[s].handler
      /\ requests' = [requests EXCEPT ![s].failed = TRUE]
      /\ UNCHANGED <<stage, listening, client, synced, closing>>
  BY DEF CallFails, InFlight, Crash
<1>2. RequestOK(requests[s]) /\ requests[s] \in InFlightRequests
  BY <1>1, RunningOK DEF RequestOK, RequestServed
<1>3. requests[s].handler \in NotCaught
  BY <1>1, <1>2, TailPlanned DEF RequestOK
<1>4. PICK r : r = [requests[s] EXCEPT !.failed = TRUE]
  OBVIOUS
<1>5. /\ r.endpoint = requests[s].endpoint /\ r.handler = requests[s].handler
      /\ r.calls = requests[s].calls /\ r.answer = requests[s].answer
      /\ r.failed = TRUE /\ r \in InFlightRequests
  BY <1>2, <1>4 DEF InFlightRequests
<1>6. RequestServed(r) /\ r.calls # <<>>
  BY <1>1, <1>2, <1>5 DEF RequestOK, RequestServed
<1>7. requests \in [Slots -> InFlightRequests \cup {Free}]
  BY DEF ApiInv
<1>8. /\ requests'[s] = r
      /\ \A t \in Slots \ {s} : requests'[t] = requests[t]
      /\ requests' \in [Slots -> InFlightRequests \cup {Free}]
  BY <1>1, <1>4, <1>5, <1>7
<1>9. RequestsOK'
  <2>1. \A t \in Slots \ {s} : requests[t] # Free => RequestOK(requests[t])
    BY <1>1, RunningOK
  <2> QED
    BY <1>1, <1>6, <1>8, <2>1 DEF RequestsOK, RequestEnded
<1>10. ProcessOK'
  <2>1. /\ InFlight(s)' /\ requests'[s].failed /\ requests'[s].handler = cause'
    BY <1>1, <1>2, <1>5, <1>6, <1>8, FreeIsNoRequest DEF InFlight
  <2>2. OnlyUncaughtCrash'
    BY <1>1, <1>3, <2>1 DEF OnlyUncaughtCrash, NotCaught
  <2> QED
    BY <1>1, <2>2 DEF ApiInv, ProcessOK
<1> QED
  BY <1>8, <1>9, <1>10 DEF ApiInv

LEMMA CallFailsStep ==
  ASSUME ApiInv, NEW s \in Slots, CallFails(s)
  PROVE  ApiInv'
<1>1. requests[s] # Free /\ requests[s].calls # <<>> /\ Running
  BY DEF CallFails, InFlight
<1>2. RequestOK(requests[s])
  BY <1>1, RunningOK
<1>3. CASE Head(requests[s].calls).onFailure = Uncaught
  BY <1>3, UncaughtStep
<1>4. CASE Head(requests[s].calls).onFailure = Ignored
  <2>1. /\ requests' = [requests EXCEPT ![s] =
             Proceed(requests[s], FALSE, HandlerOf[requests[s].handler].success)]
        /\ UNCHANGED <<exit, cause, stage, listening, client, synced, closing>>
    <3>1. Ignored # Uncaught
      BY DEF Ignored, Uncaught
    <3> QED
      BY <1>4, <3>1 DEF CallFails
  <2>2. RequestOK(Proceed(requests[s], FALSE, HandlerOf[requests[s].handler].success))
    BY <1>1, <1>2, <1>4, Proceeds
  <2>3. ProcessOK'
    BY <1>1, <2>1 DEF ApiInv, ProcessOK, OnlyUncaughtCrash, Running, NoExit
  <2> QED
    BY <1>1, <2>1, <2>2, <2>3, SlotChanges DEF ApiInv
<1>5. CASE Head(requests[s].calls).onFailure \notin {Ignored, Uncaught}
  <2>1. /\ requests' = [requests EXCEPT ![s] =
             [requests[s] EXCEPT !.calls = <<>>,
                !.answer = Head(requests[s].calls).onFailure, !.failed = TRUE]]
        /\ UNCHANGED <<exit, cause, stage, listening, client, synced, closing>>
    BY <1>5 DEF CallFails
  <2>2. PICK r : r = [requests[s] EXCEPT !.calls = <<>>,
             !.answer = Head(requests[s].calls).onFailure, !.failed = TRUE]
    OBVIOUS
  <2>3. RequestOK(r)
    BY <1>1, <1>2, <1>5, <2>2, Refused
  <2>4. ProcessOK'
    BY <1>1, <2>1 DEF ApiInv, ProcessOK, OnlyUncaughtCrash, Running, NoExit
  <2> QED
    BY <1>1, <2>1, <2>2, <2>3, <2>4, SlotChanges DEF ApiInv
<1> QED
  BY <1>3, <1>4, <1>5

LEMMA DoneStep ==
  ASSUME ApiInv, NEW s \in Slots, Done(s)
  PROVE  ApiInv'
<1>1. ProcessOK'
  BY DEF ApiInv, ProcessOK, OnlyUncaughtCrash, Done, Running, NoExit
<1>2. requests' = [requests EXCEPT ![s] = Free] /\ Running
  BY DEF Done
<1> QED
  BY <1>1, <1>2, SlotChanges DEF ApiInv

LEMMA StartPartStep ==
  ASSUME ApiInv, StartPart
  PROVE  ApiInv'
<1>1. stage' \in 0..5
  BY PartsAreFive DEF ApiInv, ProcessOK, StartPart
<1>2. listening' \in BOOLEAN /\ synced' \in BOOLEAN /\ client' \in BOOLEAN
  BY DEF ApiInv, ProcessOK, StartPart
<1>3. exit' = NoExit /\ UNCHANGED <<closing, exit, cause, requests>>
  BY DEF StartPart, Running
<1>4. ProcessOK'
  BY <1>1, <1>2, <1>3 DEF ApiInv, ProcessOK, OnlyUncaughtCrash, NoExit
<1>5. RequestsOK' /\ requests' \in [Slots -> InFlightRequests \cup {Free}]
  BY <1>3, CrashKeepsRequests DEF StartPart
<1> QED
  BY <1>4, <1>5 DEF ApiInv

\* A call of close() while the process runs.
LEMMA CloserAdvances ==
  ASSUME ApiInv, NEW c \in Closers, NEW n \in 0..6, Running,
         closing' = [closing EXCEPT ![c] = n], listening' \in BOOLEAN,
         UNCHANGED <<stage, client, synced, exit, cause, requests>>
  PROVE  ApiInv'
<1>1. closing' \in [Closers -> 0..6]
  BY DEF ApiInv, ProcessOK
<1>2. ProcessOK'
  BY <1>1 DEF ApiInv, ProcessOK, OnlyUncaughtCrash, Running, NoExit
<1> QED
  BY <1>2, CrashKeepsRequests DEF ApiInv

LEMMA StartFailsStep ==
  ASSUME ApiInv, StartFails
  PROVE  ApiInv'
<1>1. CASE CloseCalled("startup") /\ UNCHANGED <<exit, cause>>
  <2>1. "startup" \in Closers /\ 1 \in 0..6
    BY DEF Closers
  <2>2. listening' = FALSE
    BY <1>1 DEF CloseCalled
  <2>3. /\ Running /\ closing' = [closing EXCEPT !["startup"] = 1]
        /\ UNCHANGED <<stage, client, synced, exit, cause, requests>>
    BY <1>1 DEF StartFails, CloseCalled
  <2> QED
    BY <2>1, <2>2, <2>3, CloserAdvances
<1>2. CASE Crash("startup") /\ UNCHANGED <<closing, listening>>
  <2>1. ProcessOK'
    BY <1>2 DEF ApiInv, ProcessOK, OnlyUncaughtCrash, StartFails, Crash, NoExit
  <2>2. Running /\ requests' = requests
    BY DEF StartFails
  <2> QED
    BY <2>1, <2>2, CrashKeepsRequests DEF ApiInv
<1> QED
  BY <1>1, <1>2 DEF StartFails

LEMMA SignalStep ==
  ASSUME ApiInv, NEW c \in Signals, Signal(c)
  PROVE  ApiInv'
<1>1. c \in Closers /\ 1 \in 0..6
  BY DEF Closers
<1>2. listening' = FALSE
  BY DEF Signal, CloseCalled
<1>3. /\ Running /\ closing' = [closing EXCEPT ![c] = 1]
      /\ UNCHANGED <<stage, client, synced, exit, cause, requests>>
  BY DEF Signal, CloseCalled
<1> QED
  BY <1>1, <1>2, <1>3, CloserAdvances

LEMMA CloseStepStep ==
  ASSUME ApiInv, NEW c \in Closers, CloseStep(c)
  PROVE  ApiInv'
<1>1. closing \in [Closers -> 0..6] /\ closing[c] \in 1..5 /\ listening \in BOOLEAN
  BY PartsAreFive DEF ApiInv, ProcessOK, CloseStep, PartCloses
<1>2. PICK n \in 0..6 : closing' = [closing EXCEPT ![c] = n]
  BY <1>1, PartsAreFive DEF CloseStep, PartCloses
<1> QED
  BY <1>1, <1>2, CloserAdvances DEF CloseStep, PartCloses

LEMMA ExitStep ==
  ASSUME ApiInv, NEW c \in Closers, Exit(c)
  PROVE  ApiInv'
<1>1. \E d \in Closers : closing'[d] > Len(Parts)
  BY PartsAreFive DEF Exit
<1>2. ProcessOK'
  BY <1>1 DEF ApiInv, ProcessOK, OnlyUncaughtCrash, Exit
<1>3. Running /\ requests' = requests
  BY DEF Exit
<1> QED
  BY <1>2, <1>3, CrashKeepsRequests DEF ApiInv

LEMMA CheckpointStep ==
  ASSUME ApiInv, CheckpointChanges
  PROVE  ApiInv'
<1>1. ProcessOK'
  BY DEF ApiInv, ProcessOK, OnlyUncaughtCrash, CheckpointChanges, Running, NoExit
<1>2. Running /\ requests' = requests
  BY DEF CheckpointChanges
<1> QED
  BY <1>1, <1>2, CrashKeepsRequests DEF ApiInv

LEMMA ApiStutters ==
  ASSUME ApiInv, UNCHANGED apiVars
  PROVE  ApiInv'
<1> USE DEF apiVars
<1>1. ProcessOK'
  BY DEF ApiInv, ProcessOK, OnlyUncaughtCrash, InFlight
<1>2. RequestsOK' /\ requests' \in [Slots -> InFlightRequests \cup {Free}]
  BY DEF ApiInv, RequestsOK, RequestEnded
<1> QED BY <1>1, <1>2 DEF ApiInv

LEMMA ApiKeeps == ApiInv /\ [ApiNext]_apiVars => ApiInv'
<1> SUFFICES ASSUME ApiInv, [ApiNext]_apiVars PROVE ApiInv'
  OBVIOUS
<1>1. CASE StartPart
  BY <1>1, StartPartStep
<1>2. CASE StartFails
  BY <1>2, StartFailsStep
<1>3. CASE CheckpointChanges
  BY <1>3, CheckpointStep
<1>4. CASE Ended \/ UNCHANGED apiVars
  BY <1>4, ApiStutters DEF Ended
<1>5. CASE \E c \in Signals : Signal(c)
  BY <1>5, SignalStep
<1>6. CASE \E c \in Closers : CloseStep(c) \/ Exit(c)
  BY <1>6, CloseStepStep, ExitStep
<1>7. CASE \E s \in Slots : Receive(s) \/ Challenge(s) \/ Throws(s) \/ Serve(s) \/ Done(s)
  BY <1>7, ReceiveStep, ChallengeStep, ThrowsStep, CallReturnsStep, CallFailsStep, DoneStep
     DEF Serve
<1> QED
  BY <1>1, <1>2, <1>3, <1>4, <1>5, <1>6, <1>7 DEF ApiNext

\* Every request in flight is with the handler it asked for, within its plan.
THEOREM ApiInvariance == ApiSpec => []ApiInv
  BY ApiInitially, ApiKeeps, PTL DEF ApiSpec

LEMMA ApiInvImpliesTypes == ApiInv => ApiTypeOK
  BY PartsAreFive DEF ApiInv, ProcessOK, RequestsOK, RequestOK, RequestEnded, RequestServed,
     InFlightRequests, Answers, ApiTypeOK

\* A request is with a handler of the API and has an answer that it can give.
THEOREM ApiTypeCorrect == ApiSpec => []ApiTypeOK
  BY ApiInvImpliesTypes, ApiInvariance, PTL

LEMMA ApiInvImpliesServed == ApiInv => ServedByItsHandler
  BY DEF ApiInv, RequestsOK, RequestOK, RequestEnded, RequestServed, ServedBy,
     ServedByItsHandler

\* A client is served by the handler it asked for, with any number of optional
\* parameters; only the engagement of a wallet is served as its activity.
THEOREM OwnHandlerServes == ApiSpec => []ServedByItsHandler
  BY ApiInvImpliesServed, ApiInvariance, PTL

LEMMA ApiInvImpliesTold == ApiInv => FailuresAreTold
<1>1. ASSUME ApiInv, NEW s \in Slots, requests[s] # Free, requests[s].answer # 0
      PROVE  /\ requests[s].answer < 400 /\ requests[s].failed
                  => \/ requests[s].handler \in DropsErrors
                     \/ requests[s].handler \in AnswerFirst /\ ~Running
             /\ ~(requests[s].answer < 400) /\ requests[s].wrote
                  => requests[s].handler \in {"instance", "subscribe"}
  <2>1. CASE RequestOK(requests[s])
    <3>1. ~(requests[s].answer < 400) => requests[s].answer >= 400
      BY <2>1 DEF RequestOK, RequestServed, InFlightRequests, Answers
    <3> QED
      BY <2>1, <3>1 DEF RequestOK, Halfway
  <2>2. CASE RequestEnded(requests[s])
    BY <1>1, <2>2 DEF RequestEnded, RequestServed, Running, NoExit
  <2> QED
    BY <1>1, <2>1, <2>2 DEF ApiInv, RequestsOK
<1> QED
  BY <1>1 DEF FailuresAreTold

\* An answer tells whether a call of its handler failed, and whether one of them
\* wrote, but for the handlers that drop errors, the two that go on after they
\* wrote, and the two that answer first, when the process has ended by that.
THEOREM FailuresAlwaysTold == ApiSpec => []FailuresAreTold
  BY ApiInvImpliesTold, ApiInvariance, PTL

\* Only a handler that throws, a failed call that it does not catch, a challenge
\* without a checkpoint or a failed start-up ends the process with code 1; it ends
\* with 0 only when a call of close() is through.
THEOREM OnlyUncaughtCrashes == ApiSpec => []OnlyUncaughtCrash
  BY ApiInvariance, PTL DEF ApiInv, ProcessOK

-----------------------------------------------------------------------------
(* The authorization cache, for any instances, wallets, blocks and TTL:    *)
(* what a grant says of the last challenge follows from what the entries   *)
(* say of it, and a step that records a challenge replaces the entry and   *)
(* the grant as well; so the three properties together are inductive.      *)

AuthInv == AuthTypeOK /\ EntriesWereChallenged /\ GrantsWereChallenged

\* A checkpoint that is not null has a positive height.
LEMMA CheckpointHeight ==
  ASSUME checkpoint \in Blocks \cup {NoBlock}, checkpoint # NoBlock
  PROVE  checkpoint.height \in Heights /\ checkpoint.height \in Nat \ {0}
BY AuthAssumption DEF Heights

\* A challenge needs a checkpoint.
LEMMA ChallengeHasCheckpoint ==
  ASSUME NEW h \in Headers, Cached(h) \/ PassesChallenge(h)
  PROVE  checkpoint # NoBlock
BY DEF Cached, PassesChallenge

\* The initial state: no entry, no challenge, no grant.
LEMMA AuthInitially == AuthInit => AuthInv
BY DEF AuthInit, AuthInv, AuthTypeOK, EntriesWereChallenged, GrantsWereChallenged

\* A request that neither passed a challenge nor had an entry changes nothing
\* but, perhaps, that an expired entry is gone.
LEMMA RefusedKeeps ==
  ASSUME AuthInv, NEW i \in Instances, NEW h \in Headers,
         IsRequestAuthorized(i, h), ~Authorizes(i, h)
  PROVE  AuthInv'
<1>1. challenges' = challenges /\ granted' = granted /\ checkpoint' = checkpoint
  BY DEF IsRequestAuthorized, Authorizes
<1>2. cache' = cache \/ cache' = [cache EXCEPT ![i] = NoEntry]
  BY DEF IsRequestAuthorized, Authorizes, CacheAfter
<1>3. AuthTypeOK'
  BY <1>1, <1>2 DEF AuthInv, AuthTypeOK
<1>4. EntriesWereChallenged'
  <2> SUFFICES ASSUME NEW j \in Instances, cache'[j] # NoEntry
               PROVE  /\ challenges[j][cache'[j].wallet] # Never
                      /\ challenges[j][cache'[j].wallet] + TTL = cache'[j].expiresAt
    BY <1>1 DEF EntriesWereChallenged
  <2>1. cache'[j] = cache[j]
    BY <1>2 DEF AuthInv, AuthTypeOK
  <2> QED BY <2>1 DEF AuthInv, EntriesWereChallenged
<1>5. GrantsWereChallenged'
  BY <1>1 DEF AuthInv, GrantsWereChallenged
<1> QED BY <1>3, <1>4, <1>5 DEF AuthInv

\* A request with an entry: only the grant changes.
LEMMA CachedKeeps ==
  ASSUME AuthInv, NEW i \in Instances, NEW h \in Headers,
         IsRequestAuthorized(i, h), h.instance = i, Cached(h)
  PROVE  AuthInv'
<1>1. cache' = cache /\ challenges' = challenges /\ checkpoint' = checkpoint
  BY DEF IsRequestAuthorized, CacheAfter
<1>2. granted' = [instance |-> i, wallet |-> h.wallet, height |-> checkpoint.height]
  BY DEF IsRequestAuthorized, Authorizes
<1>3. checkpoint.height \in Heights /\ checkpoint.height \in Nat \ {0}
  BY CheckpointHeight DEF Cached, AuthInv, AuthTypeOK
<1>4. h.wallet \in Wallets
  BY DEF Headers
<1>5. AuthTypeOK'
  <2>1. granted' \in Grants
    BY <1>2, <1>3, <1>4 DEF Grants
  <2> QED BY <1>1, <2>1 DEF AuthInv, AuthTypeOK
<1>6. EntriesWereChallenged'
  BY <1>1 DEF AuthInv, EntriesWereChallenged
<1>7. GrantsWereChallenged'
  <2>1. /\ cache[i] # NoEntry /\ cache[i].wallet = h.wallet
        /\ cache[i].expiresAt >= checkpoint.height
    BY DEF Cached, Unexpired
  <2>2. /\ challenges[i][h.wallet] # Never
        /\ challenges[i][h.wallet] + TTL = cache[i].expiresAt
    BY <2>1 DEF AuthInv, EntriesWereChallenged
  <2>3. challenges[i][h.wallet] # Never /\ checkpoint.height <= challenges[i][h.wallet] + TTL
    BY <2>1, <2>2
  <2> QED BY <1>1, <1>2, <2>3 DEF GrantsWereChallenged
<1> QED BY <1>5, <1>6, <1>7 DEF AuthInv

\* A request that passes a challenge: its entry, its challenge and its grant are
\* all of this checkpoint.
LEMMA ChallengeKeeps ==
  ASSUME AuthInv, NEW i \in Instances, NEW h \in Headers,
         IsRequestAuthorized(i, h), h.instance = i, ~Cached(h), PassesChallenge(h)
  PROVE  AuthInv'
<1> DEFINE entry == [wallet |-> h.wallet, expiresAt |-> checkpoint.height + TTL]
<1>1. cache' = [cache EXCEPT ![i] = entry]
  BY ChallengeHasCheckpoint DEF IsRequestAuthorized, CacheAfter
<1>2. challenges' = [challenges EXCEPT ![i][h.wallet] = checkpoint.height]
  BY DEF IsRequestAuthorized
<1>3. granted' = [instance |-> i, wallet |-> h.wallet, height |-> checkpoint.height]
  BY DEF IsRequestAuthorized, Authorizes
<1>4. checkpoint.height \in Heights /\ checkpoint.height \in Nat \ {0}
  BY CheckpointHeight DEF PassesChallenge, AuthInv, AuthTypeOK
<1>5. h.wallet \in Wallets
  BY DEF Headers
<1>6. challenges'[i][h.wallet] = checkpoint.height
  BY <1>2, <1>5 DEF AuthInv, AuthTypeOK
<1>7. AuthTypeOK'
  <2>1. granted' \in Grants
    BY <1>3, <1>4, <1>5 DEF Grants
  <2>2. entry \in Entries
    BY <1>4, <1>5, AuthAssumption DEF Entries
  <2>3. cache' \in [Instances -> Entries \cup {NoEntry}]
    BY <1>1, <2>2 DEF AuthInv, AuthTypeOK
  <2>4. challenges' \in [Instances -> [Wallets -> {Never} \cup Heights]]
    BY <1>2, <1>4, <1>5 DEF AuthInv, AuthTypeOK
  <2>5. checkpoint' = checkpoint
    BY DEF IsRequestAuthorized
  <2> QED BY <2>1, <2>3, <2>4, <2>5 DEF AuthInv, AuthTypeOK
<1>8. EntriesWereChallenged'
  <2> SUFFICES ASSUME NEW j \in Instances, cache'[j] # NoEntry
               PROVE  /\ challenges'[j][cache'[j].wallet] # Never
                      /\ challenges'[j][cache'[j].wallet] + TTL = cache'[j].expiresAt
    BY DEF EntriesWereChallenged
  <2>1. CASE j = i
    <3>1. cache'[j].wallet = h.wallet /\ cache'[j].expiresAt = checkpoint.height + TTL
      BY <1>1, <2>1 DEF AuthInv, AuthTypeOK
    <3> QED BY <1>4, <1>6, <2>1, <3>1 DEF Never
  <2>2. CASE j # i
    <3>1. cache'[j] = cache[j] /\ challenges'[j] = challenges[j]
      BY <1>1, <1>2, <2>2 DEF AuthInv, AuthTypeOK
    <3> QED BY <3>1 DEF AuthInv, EntriesWereChallenged
  <2> QED BY <2>1, <2>2
<1>9. GrantsWereChallenged'
  <2>1. checkpoint.height <= checkpoint.height + TTL
    BY <1>4, AuthAssumption
  <2> QED BY <1>3, <1>4, <1>6, <2>1 DEF GrantsWereChallenged, Never
<1> QED BY <1>7, <1>8, <1>9 DEF AuthInv

\* The checkpoint moves: nothing of the cache does.
LEMMA CheckpointMovesKeeps == AuthInv /\ CheckpointMoves => AuthInv'
<1> SUFFICES ASSUME AuthInv, CheckpointMoves PROVE AuthInv'
  OBVIOUS
<1>1. checkpoint' \in Blocks \cup {NoBlock}
  BY DEF CheckpointMoves
<1>2. cache' = cache /\ challenges' = challenges /\ granted' = granted
  BY DEF CheckpointMoves
<1> QED BY <1>1, <1>2 DEF AuthInv, AuthTypeOK, EntriesWereChallenged, GrantsWereChallenged

LEMMA AuthKeeps == AuthInv /\ [AuthNext]_authVars => AuthInv'
<1> SUFFICES ASSUME AuthInv, [AuthNext]_authVars PROVE AuthInv'
  OBVIOUS
<1>1. ASSUME NEW i \in Instances, NEW h \in Headers, IsRequestAuthorized(i, h)
      PROVE  AuthInv'
  BY <1>1, RefusedKeeps, CachedKeeps, ChallengeKeeps DEF Authorizes
<1>2. CASE CheckpointMoves
  BY <1>2, CheckpointMovesKeeps
<1>3. CASE UNCHANGED authVars
  BY <1>3 DEF authVars, AuthInv, AuthTypeOK, EntriesWereChallenged, GrantsWereChallenged
<1> QED BY <1>1, <1>2, <1>3 DEF AuthNext

LEMMA AuthInvariance == AuthSpec => []AuthInv
BY AuthInitially, AuthKeeps, PTL DEF AuthSpec

\* Entries, challenges and grants keep their types; no grant is recorded
\* while the checkpoint is null.
THEOREM AuthTypeCorrect == AuthSpec => []AuthTypeOK
<1>1. AuthInv => AuthTypeOK
  BY DEF AuthInv
<1> QED BY <1>1, AuthInvariance, PTL

\* Each entry is of the last challenge its instance passed for its wallet.
THEOREM EntriesChallenged == AuthSpec => []EntriesWereChallenged
<1>1. AuthInv => EntriesWereChallenged
  BY DEF AuthInv
<1> QED BY <1>1, AuthInvariance, PTL

\* No request is authorized without a challenge, nor TTL blocks above it.
THEOREM GrantsChallenged == AuthSpec => []GrantsWereChallenged
<1>1. AuthInv => GrantsWereChallenged
  BY DEF AuthInv
<1> QED BY <1>1, AuthInvariance, PTL

=============================================================================
