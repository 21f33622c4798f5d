-------------------------------- MODULE Api --------------------------------
(***************************************************************************)
(* The HTTP API inside its process: the start-up of src/index.ts, requests *)
(* that are dispatched, checked and served call by call, and the shutdown. *)
(*                                                                         *)
(* A handler is the list of the calls it awaits.  Any of them may fail;    *)
(* what then happens is the status in the handler's catch, nothing (the    *)
(* error is dropped and the handler goes on), or a rejection that nobody   *)
(* handles, which ends the process.  What the calls read and write is in   *)
(* Feed, Reads, Subscriptions and Engagement; the referral routes are in   *)
(* Referral, and the answer of the authorization cache, here a choice      *)
(* wherever there is a checkpoint, in AuthCache.                           *)
(***************************************************************************)
EXTENDS Routes, FiniteSets

\* A definition named X_Mutant is a wrong version of X.

CONSTANTS
  Slots,    \* requests in flight
  Signals   \* SIGINT and SIGTERM, each of which is handled once

Parts == <<"database", "subscriptions", "indexer", "api", "temporal">>
Closers == Signals \cup {"startup"}

Free == [endpoint |-> "none"]

VARIABLES
  stage,      \* how many of Parts were initialised, in this order
  listening,  \* the server accepts connections
  client,     \* Temporal.client is set
  synced,     \* RuntimeState.checkpoint is not null
  closing,    \* the part each call of close() awaits, 0 before the call
  exit,       \* the exit code, or NoExit while the process runs
  cause,      \* history: what ended the process
  requests    \* the request in each slot

apiVars == <<stage, listening, client, synced, closing, exit, cause, requests>>

NoExit == 2
Running == exit = NoExit

-----------------------------------------------------------------------------
(* Handlers *)

\* An awaited call, and what the handler makes of its failure.
Query(onFailure) == [uses |-> "database", writes |-> FALSE, onFailure |-> onFailure]
Write(onFailure) == [uses |-> "database", writes |-> TRUE, onFailure |-> onFailure]
Remote(onFailure) == [uses |-> "temporal", writes |-> FALSE, onFailure |-> onFailure]
Notify(onFailure) == [uses |-> "push", writes |-> FALSE, onFailure |-> onFailure]

Ignored == 1
Uncaught == 0

\* A handler: the statuses of its early returns, the calls that may follow its
\* checks, the status when all went well, the one when that found something, and
\* whether what a client sends can make it throw outside every try.
Handler(refusals, calls, success) ==
  [refusals |-> refusals, calls |-> calls, success |-> success, found |-> success,
   throws |-> FALSE, authorized |-> FALSE, checksFirst |-> FALSE, awaits |-> TRUE]
Throwing(h) == [h EXCEPT !.throws = TRUE]

\* Its client has to be authorized, before the other checks or after them.
AfterChallenge(h) == [h EXCEPT !.authorized = TRUE]
BeforeChallenge(h) == [h EXCEPT !.authorized = TRUE, !.checksFirst = TRUE]

\* A page that is an object cannot be made a number.
FeedPosts == Handler({404}, {<<Query(404)>>}, 200)
FeedTrending == Handler({}, {<<Query(404)>>}, 200)
FeedLeaderboard == Handler({400}, {<<Query(404), Query(Ignored)>>}, 200)

WalletActivity == AfterChallenge(Handler({400}, {<<Query(400)>>}, 200))
WalletEngagement == Handler({400}, {<<Write(500)>>}, 200)

\* Nothing of the charts is caught: neither the query of a workflow nor the
\* summary.  Other kinds of data are answered with an empty object.
Charts == Handler({400}, {<<Remote(Uncaught)>>, <<Query(Uncaught)>>, <<>>}, 200)

\* The database methods of the lists drop their errors and return an empty
\* list; those of a profile or a post drop the errors in their transaction.
Txs == Handler({}, {<<Query(Ignored)>>}, 200)
Votes == Handler({}, {<<Query(Ignored)>>}, 200)
Profiles == Handler({}, {<<Query(Ignored)>>}, 200)
ProfilePosts == Handler({}, {<<Query(Ignored)>>}, 200)
\* (A wallet that is an object cannot be logged after the query for it failed.)
Profile == Handler({}, {<<Query(404), Query(Ignored)>>, <<Query(404), Query(404)>>}, 200)
Post == Handler({}, {<<Query(404), Query(Ignored)>>}, 200)

\* A post that is found has two BigInts, which no JSON can be made of.  A body may
\* claim a length that no array has.
Posts == Throwing([Handler({400}, {<<Query(Ignored)>>}, 200) EXCEPT !.found = 400])

Search == Handler({200}, {<<Query(404)>>}, 200)
\* The groups of the votes, then the rows of the first of them (the mutant
\* does not catch the latter).
StatsOf_Mutant == Handler({404}, {<<Query(404), Query(Uncaught)>>}, 200)
StatsOf == Handler({404}, {<<Query(404), Query(404)>>}, 200)

\* The catch logs the body, and throws when a value in it is no string.
Instance == Throwing(
  Handler({400}, {<<Write(400), Remote(400)>>, <<Write(Uncaught), Remote(Uncaught)>>}, 200))

Subscribe == BeforeChallenge(
  Handler({400}, {<<Write(Ignored), Write(400), Notify(400)>>}, 201))
\* A topic has to be a string, and is used as one before the authorization.
\* Without a subscription nothing is written.  (The mutant notifies the client
\* of the new topic, as Subscribe does.)
SubscribeTopic_Mutant ==
  BeforeChallenge(Throwing(Handler({400}, {<<Write(400), Notify(400)>>, <<>>}, 201)))
SubscribeTopic == BeforeChallenge(Throwing(Handler({400}, {<<Write(400)>>, <<>>}, 201)))

\* The promise is put into the answer, not awaited; that of an unknown id or
\* instance has nothing to write.
Unawaited(h) == [h EXCEPT !.awaits = FALSE]
UnsubscribeTopic ==
  AfterChallenge(Throwing(Unawaited(Handler({}, {<<Write(Uncaught)>>, <<>>}, 200))))
Unsubscribe == AfterChallenge(Unawaited(Handler({}, {<<Write(Uncaught)>>, <<>>}, 200)))

HandlerOf ==
  [feedPosts |-> FeedPosts, feedTrending |-> FeedTrending,
   feedLeaderboard |-> FeedLeaderboard,
   walletSummary |-> WalletActivity, walletActivity |-> WalletActivity,
   walletEngagement |-> WalletEngagement,
   charts |-> Charts, txs |-> Txs, votes |-> Votes, instance |-> Instance,
   profiles |-> Profiles, search |-> Search, stats |-> StatsOf, profile |-> Profile,
   profilePosts |-> ProfilePosts, post |-> Post, posts |-> Posts,
   subscribe |-> Subscribe, subscribeTopic |-> SubscribeTopic,
   unsubscribeTopic |-> UnsubscribeTopic, unsubscribe |-> Unsubscribe]

\* All endpoints but those of Referral.
Handlers == DOMAIN HandlerOf

-----------------------------------------------------------------------------
(* The life of the process *)

Crash(why) ==
  /\ exit' = 1
  /\ cause' = why

CloseCalled(c) ==
  /\ closing[c] = 0
  /\ closing' = [closing EXCEPT ![c] = 1]
  /\ listening' = FALSE

StartPart ==
  /\ Running /\ stage < Len(Parts) /\ closing["startup"] = 0
  /\ stage' = stage + 1
  /\ listening' = (listening \/ Parts[stage'] = "api")
  /\ synced' = (synced \/ Parts[stage'] = "indexer")
  /\ client' \in (IF Parts[stage'] = "temporal" THEN BOOLEAN ELSE {client})
  /\ UNCHANGED <<closing, exit, cause, requests>>

\* An error with a code is passed to close() (where the listing of the codes
\* makes it a name); any other cannot be taken apart in the catch.  A port in
\* use is an event that nobody handles.  Temporal only logs.
StartFails ==
  /\ Running /\ stage < 4 /\ closing["startup"] = 0
  /\ \/ /\ Parts[stage + 1] \in {"database", "indexer"}
        /\ CloseCalled("startup")
        /\ UNCHANGED <<exit, cause>>
     \/ /\ Parts[stage + 1] # "database"
        /\ Crash("startup")
        /\ UNCHANGED <<closing, listening>>
  /\ UNCHANGED <<stage, client, synced, requests>>

Signal(c) ==
  /\ Running
  /\ CloseCalled(c)
  /\ UNCHANGED <<stage, client, synced, exit, cause, requests>>

\* close() awaits each part in turn; the first error skips the others.  Then
\* the process exits with 0, whichever call gets there first (the mutant first
\* waits for the requests in flight).
PartCloses(c) ==
  /\ closing[c] \in DOMAIN Parts
  /\ \/ closing' = [closing EXCEPT ![c] = @ + 1]
     \/ closing' = [closing EXCEPT ![c] = Len(Parts) + 1]
  /\ UNCHANGED <<exit, cause>>

CloseStep(c) ==
  /\ Running
  /\ PartCloses(c)
  /\ UNCHANGED <<stage, listening, client, synced, requests>>

Exit_Mutant(c) ==
  /\ Running /\ closing[c] = Len(Parts) + 1
  /\ \A s \in Slots : requests[s] = Free
  /\ exit' = 0
  /\ cause' = "close"
  /\ UNCHANGED <<stage, listening, client, synced, closing, requests>>
Exit(c) ==
  /\ Running /\ closing[c] = Len(Parts) + 1
  /\ exit' = 0
  /\ cause' = "close"
  /\ UNCHANGED <<stage, listening, client, synced, closing, requests>>

\* The last stored block is disconnected, or a block is connected after that.
CheckpointChanges ==
  /\ Running /\ stage >= 3
  /\ synced' = ~synced
  /\ UNCHANGED <<stage, listening, client, closing, exit, cause, requests>>

-----------------------------------------------------------------------------
(* Requests *)

\* A request in flight: who serves it, the calls it has still to await, and
\* its answer, 0 before.  failed and wrote tell how its calls went.
Request(e, h, calls, answer) ==
  [endpoint |-> e, handler |-> h, calls |-> calls, answer |-> answer,
   failed |-> FALSE, wrote |-> FALSE]

\* A handler without a call to await has answered when it returns.
Accepted(e, h, calls) ==
  Request(e, h, calls,
          IF calls = <<>> \/ ~HandlerOf[h].awaits THEN HandlerOf[h].success ELSE 0)

\* A request that passes the authorization, if it needs one, or is refused for
\* another reason.
Receive(s) ==
  /\ Running /\ listening /\ requests[s] = Free
  /\ \E e \in Handlers : \E n \in 0..RouteOf(e).optional :
       LET h == ServerOf(e, n)
           handler == HandlerOf[h]
       IN \/ /\ handler.authorized => synced \/ handler.checksFirst
             /\ \E status \in handler.refusals :
                  requests' = [requests EXCEPT ![s] = Request(e, h, <<>>, status)]
          \/ /\ handler.authorized => synced
             /\ \E calls \in handler.calls :
                  requests' = [requests EXCEPT ![s] = Accepted(e, h, calls)]
  /\ UNCHANGED <<stage, listening, client, synced, closing, exit, cause>>

\* sendAuthChallenge reads the checkpoint.  Without one it throws, in an async
\* function that nobody awaits.
Challenge(s) ==
  /\ Running /\ listening /\ requests[s] = Free
  /\ \E e \in Handlers :
       LET h == ServerOf(e, 0) IN
       /\ HandlerOf[h].authorized
       /\ IF ~synced
          THEN Crash("challenge") /\ UNCHANGED requests
          ELSE /\ requests' = [requests EXCEPT ![s] = Request(e, h, <<>>, 401)]
               /\ UNCHANGED <<exit, cause>>
  /\ UNCHANGED <<stage, listening, client, synced, closing>>

\* A request makes its handler throw before it answers or awaits anything.
Throws(s) ==
  /\ Running /\ listening /\ requests[s] = Free
  /\ \E e \in Handlers : \E n \in 0..RouteOf(e).optional :
       HandlerOf[ServerOf(e, n)].throws /\ Crash(ServerOf(e, n))
  /\ UNCHANGED <<stage, listening, client, synced, closing, requests>>

InFlight(s) == requests[s] # Free /\ requests[s].calls # <<>>

\* The request after its first call went well, or its failure was ignored; when
\* that was the last, it is answered with a status.
Proceed(r, ok, status) ==
  LET rest == Tail(r.calls)
  IN [r EXCEPT !.calls = rest,
               !.answer = IF @ = 0 /\ rest = <<>> THEN status ELSE @,
               !.failed = @ \/ ~ok,
               !.wrote = @ \/ (ok /\ Head(r.calls).writes)]

CallReturns(s) ==
  /\ Running /\ InFlight(s)
  /\ Head(requests[s].calls).uses = "temporal" => client
  /\ LET h == HandlerOf[requests[s].handler] IN
     \E status \in {h.success, h.found} :
       requests' = [requests EXCEPT ![s] = Proceed(@, TRUE, status)]
  /\ UNCHANGED <<stage, listening, client, synced, closing, exit, cause>>

CallFails(s) ==
  /\ Running /\ InFlight(s)
  /\ LET r == requests[s]
         onFailure == Head(r.calls).onFailure
     IN IF onFailure = Uncaught
        THEN /\ Crash(r.handler)
             /\ requests' = [requests EXCEPT ![s].failed = TRUE]
        ELSE /\ requests' = [requests EXCEPT ![s] =
                  IF onFailure = Ignored THEN Proceed(r, FALSE, HandlerOf[r.handler].success)
                  ELSE [r EXCEPT !.calls = <<>>, !.answer = onFailure, !.failed = TRUE]]
             /\ UNCHANGED <<exit, cause>>
  /\ UNCHANGED <<stage, listening, client, synced, closing>>

\* The client has its answer and nothing of the handler is left.
Done(s) ==
  /\ Running
  /\ requests[s] # Free /\ requests[s].calls = <<>> /\ requests[s].answer # 0
  /\ requests' = [requests EXCEPT ![s] = Free]
  /\ UNCHANGED <<stage, listening, client, synced, closing, exit, cause>>

Ended == ~Running /\ UNCHANGED apiVars

ApiInit ==
  /\ stage = 0
  /\ listening = FALSE /\ client = FALSE /\ synced = FALSE
  /\ closing = [c \in Closers |-> 0]
  /\ exit = NoExit /\ cause = "none"
  /\ requests = [s \in Slots |-> Free]

Serve(s) == CallReturns(s) \/ CallFails(s)

ApiNext ==
  \/ StartPart \/ StartFails \/ CheckpointChanges \/ Ended
  \/ \E c \in Signals : Signal(c)
  \/ \E c \in Closers : CloseStep(c) \/ Exit(c)
  \/ \E s \in Slots : Receive(s) \/ Challenge(s) \/ Throws(s) \/ Serve(s) \/ Done(s)

\* A statement or a call over the network returns or fails, by its timeout at
\* the latest; the parts are closed as soon as the call before has settled.
ApiFairness ==
  /\ \A s \in Slots : WF_apiVars(Serve(s)) /\ WF_apiVars(Done(s))
  /\ \A c \in Closers : WF_apiVars(CloseStep(c) \/ Exit(c))

ApiSpec == ApiInit /\ [][ApiNext]_apiVars /\ ApiFairness

-----------------------------------------------------------------------------
(* Properties *)

ApiTypeOK ==
  /\ stage \in 0..Len(Parts)
  /\ listening \in BOOLEAN /\ client \in BOOLEAN /\ synced \in BOOLEAN
  /\ closing \in [Closers -> 0..(Len(Parts) + 1)]
  /\ exit \in {0, 1, NoExit}
  /\ \A s \in Slots : requests[s] # Free =>
       /\ requests[s].endpoint \in Handlers /\ requests[s].handler \in Handlers
       /\ requests[s].answer \in {0, 200, 201, 400, 401, 404, 500}
       /\ requests[s].failed \in BOOLEAN /\ requests[s].wrote \in BOOLEAN

\* A client is served by the handler it asked for, with any number of optional
\* parameters, although the profile routes match almost every path.  The one
\* exception is the engagement of a wallet, whose path the wallet's activity
\* was registered for first.
ServedByItsHandler ==
  \A s \in Slots : requests[s] # Free =>
    \/ requests[s].handler = requests[s].endpoint
    \/ requests[s].endpoint = "walletEngagement" /\ requests[s].handler = "walletActivity"

\* An answer tells what happened.  It says success although a call failed only
\* where the database methods drop their errors, where the registration of an
\* instance is not looked at, or where the engagement of a wallet is left out; and
\* from the DELETE routes, which answer before they write, in the state in which
\* the failure has ended the process.  It says failure although something was
\* written only for an instance whose command could not be sent to Temporal and a
\* subscription whose first notification could not be sent.
DropsErrors ==
  {"txs", "votes", "profiles", "profilePosts", "posts", "profile", "post",
   "feedLeaderboard", "subscribe"}
AnswerFirst == {"unsubscribe", "unsubscribeTopic"}
FailuresAreTold ==
  \A s \in Slots : (requests[s] # Free /\ requests[s].answer # 0) =>
    LET r == requests[s] IN
    IF r.answer < 400
    THEN r.failed => r.handler \in DropsErrors \/ (r.handler \in AnswerFirst /\ ~Running)
    ELSE r.wrote => r.handler \in {"instance", "subscribe"}

\* The process ends with code 1 only by the handlers that a client can make
\* throw, by a failed call of those that do not catch it, by a challenge without
\* a checkpoint, or during the start-up; every other end is a close, and exits
\* with 0, failed start-ups included.
MayThrow == {"subscribeTopic", "unsubscribeTopic", "posts", "instance"}
OnlyUncaughtCrash ==
  /\ exit = 1 =>
       \/ cause \in MayThrow
       \/ /\ cause \in {"charts", "unsubscribe"}
          /\ \E s \in Slots : /\ InFlight(s) /\ requests[s].failed
                             /\ requests[s].handler = cause
       \/ cause = "challenge" /\ ~synced
       \/ cause = "startup" /\ stage < 4
  /\ exit = 0 => \E c \in Closers : closing[c] > Len(Parts)

\* The handler of a request that was received answers it, or the process ends,
\* however its calls fail and whether or not the process is being closed; and
\* whatever fails while the parts are closed, a signal ends the process, though
\* clients may ask for more until it does.
ServesUntilClosed ==
  /\ \A s \in Slots :
       (requests[s] # Free /\ requests[s].answer = 0) ~>
         (requests[s] = Free \/ requests[s].answer # 0 \/ ~Running)
  /\ \A c \in Closers : closing[c] > 0 ~> ~Running

=============================================================================
