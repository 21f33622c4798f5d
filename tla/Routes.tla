------------------------------- MODULE Routes -------------------------------
(***************************************************************************)
(* The routes of the HTTP API, in the order in which src/lib/api/router.ts *)
(* mounts them.  Express gives a request to the first route whose method   *)
(* and pattern match, so that a pattern of parameters hides the patterns   *)
(* registered after it.                                                    *)
(*                                                                         *)
(* A path is a sequence of segments.  A pattern gives for each place the   *)
(* segments it accepts: one for a literal, all for a parameter.            *)
(***************************************************************************)
EXTENDS Integers, Sequences

\* A definition named X_Mutant is a wrong version of X.

\* Every literal of a pattern, and one segment that is no literal.
Segments ==
  {"feed", "posts", "trending", "leaderboard", "wallet", "summary", "engagement",
   "admin", "referral", "generate", "redeem", "genesis", "charts", "txs", "votes",
   "instance", "profiles", "search", "stats", "push", "subscription", "topic",
   "other"}

AnySegment == Segments

\* A route with its required and its optional segments.
Route(name, method, required, optional) ==
  [name |-> name, method |-> method, required |-> required, optional |-> optional]

FeedRoutes == <<
  Route("feedPosts", "GET", <<{"feed"}, {"posts"}>>, 0),
  Route("feedTrending", "GET", <<{"feed"}, {"trending"}>>, 2),
  Route("feedLeaderboard", "GET", <<{"feed"}, {"leaderboard"}, AnySegment>>, 1) >>

WalletRoutes == <<
  Route("walletSummary", "GET", <<{"wallet"}, {"summary"}, AnySegment, AnySegment>>, 2),
  Route("walletActivity", "GET", <<{"wallet"}, AnySegment, AnySegment>>, 2),
  Route("walletEngagement", "GET", <<{"wallet"}, {"engagement"}, AnySegment>>, 0) >>

ReferralRoutes == <<
  Route("referralGenerate", "POST", <<{"referral"}, {"generate"}>>, 0),
  Route("referralRedeem", "POST", <<{"referral"}, {"redeem"}>>, 0),
  Route("referralGenesis", "POST", <<{"admin"}, {"referral"}, {"genesis"}>>, 0) >>

SystemRoutes == <<
  Route("charts", "GET", <<{"charts"}, AnySegment, AnySegment>>, 1),
  Route("txs", "GET", <<{"txs"}, AnySegment, AnySegment>>, 2),
  Route("votes", "GET", <<{"votes"}>>, 2),
  Route("instance", "POST", <<{"instance"}>>, 0) >>

ProfileRoutes == <<
  Route("profiles", "GET", <<{"profiles"}>>, 2),
  Route("search", "GET", <<{"search"}, AnySegment, AnySegment>>, 0),
  Route("stats", "GET", <<{"stats"}, {"profiles", "posts"}, AnySegment>>, 3),
  Route("profile", "GET", <<AnySegment, AnySegment>>, 0),
  Route("profilePosts", "GET", <<AnySegment, AnySegment, {"posts"}>>, 2),
  Route("post", "GET", <<AnySegment, AnySegment, AnySegment>>, 0),
  Route("posts", "POST", <<{"posts"}, AnySegment, AnySegment>>, 0) >>

PushRoutes == <<
  Route("subscribe", "POST", <<{"push"}, {"subscription"}, AnySegment>>, 0),
  Route("subscribeTopic", "POST", <<{"push"}, {"subscription"}, AnySegment, {"topic"}, AnySegment>>, 0),
  Route("unsubscribeTopic", "DELETE", <<{"push"}, {"subscription"}, AnySegment, {"topic"}, AnySegment>>, 0),
  Route("unsubscribe", "DELETE", <<{"push"}, {"subscription"}, AnySegment>>, 0) >>

\* The order of mounting (the mutant mounts the profiles first).
Mounted_Mutant ==
  ProfileRoutes \o FeedRoutes \o WalletRoutes \o ReferralRoutes \o SystemRoutes \o PushRoutes
Mounted ==
  FeedRoutes \o WalletRoutes \o ReferralRoutes \o SystemRoutes \o ProfileRoutes \o PushRoutes

Endpoints == {Mounted[i].name : i \in DOMAIN Mounted}
RouteOf(e) == CHOOSE r \in {Mounted[i] : i \in DOMAIN Mounted} : r.name = e

Matches(route, method, path) ==
  /\ route.method = method
  /\ Len(path) \in Len(route.required)..(Len(route.required) + route.optional)
  /\ \A i \in DOMAIN route.required : path[i] \in route.required[i]

\* The name of the route that serves a request, or "none": then the request
\* falls through to the rate limiter, the only requests it ever counts.
Dispatch(method, path) ==
  LET matching == {i \in DOMAIN Mounted : Matches(Mounted[i], method, path)}
  IN IF matching = {} THEN "none"
     ELSE Mounted[CHOOSE i \in matching : \A j \in matching : i <= j].name

\* A request as a client of endpoint e writes it, with n optional segments: no
\* parameter is a literal of another route.
PathFor(e, n) ==
  LET pattern == RouteOf(e).required
      segment(i) == IF i \notin DOMAIN pattern \/ "other" \in pattern[i] THEN "other"
                    ELSE CHOOSE s \in pattern[i] : TRUE
  IN [i \in 1..(Len(pattern) + n) |-> segment(i)]

\* Who serves a client of endpoint e.
ServerOf(e, n) == Dispatch(RouteOf(e).method, PathFor(e, n))

=============================================================================
