# A TLA+ model of rank-backend-ts

rank-backend-ts indexes RANK votes and RNKC comments of the Lotus chain from a
lotusd node into PostgreSQL and serves them over HTTP. This directory holds TLA+
modules of its stateful parts, TLC configurations that check them on small
instances, and TLAPS proofs of the main results for every value of the constants.
`PROJECT.json` maps each definition to the lines it stands for.

How to run: `tlc -config MCIndexer_gap.cfg MCIndexer.tla` for a run, `tlapm
IndexerProofs.tla` for a proof.

## 1. The system

One Node.js process runs everything; a backfill script is a second one. Start-up is
sequential (`src/index.ts`): database, push caches, indexer, HTTP API, Temporal.
Nothing installs an `unhandledRejection` handler, so that on Node 20 a rejected promise
that nobody handles ends the process.

| Component | State it keeps | Operations | Talks to |
|---|---|---|---|
| Indexer (`lib/indexer.ts`) | mempool cache, index by txid, profile queue, checkpoint | `init()` (cleanup, reconciliation, block sync, mempool sync, subscription), four event handlers | lotusd (RPC, events), Database |
| Chain tables (`lib/database.ts`, `schema.prisma`) | `Block`, `RankTransaction`, `RankComment`, `Profile`, `Post` | `upsertProfiles`, `rewindProfiles`, `saveBlock`, `saveBlockRange`, `deleteBlockByHeight` | PostgreSQL |
| Profile queue (`indexer.ts`) | a map of profiles with sums | `add*ToProfileQueue`, `toProfile*Statements` | the five operations above |
| Wallet engagement (`lib/engagement.ts`, `database.ts`) | `WalletEngagement` | update for a vote, update for a comment, backfill script | indexer, a process of its own |
| Push subscriptions (`lib/push.ts`, `api/routes/push.ts`) | three maps; `ExtensionInstance`, `ExtensionPushSubscription`, `ExtensionTopicSubscription` | subscribe, subscribeTopic, unsubscribeTopic, unsubscribe, `init()` | push API, Database |
| Referral codes (`api/routes/referral.ts`) | `ReferralCode`, `FaucetClaim` | generate, generate a genesis batch, redeem | REST API, Database, Temporal |
| Authorization cache (`api/authCache.ts`) | cached authorizations | lookup, challenge, insertion, expiry by height | checkpoint of the indexer |
| HTTP API (`api/router.ts`, `api/routes/*`, `index.ts`) | the server, requests in flight, the closing of the parts | 24 endpoints, start-up, shutdown | everything above |
| Feed and ranking (`routes/feed.ts`, `util/feedRanking.ts`, `database.ts`) | none; clients hold their place | pages of posts, trending posts, scores | Database |
| Profiles, statistics, search (`api/routes/*`, `database.ts`) | none | queries of one or several statements | Database |
| Temporal (`lib/temporal/*`) | a client and a worker | activities that read | Temporal server |
| NNG codecs, configuration, validators | none | generated accessors, constants, formatting | |

Which behaviours are hard, and what makes each component correct:

- **Indexer.** The node publishes while `init()` runs but the subscription comes
  last; reorganisations interleave with mempool events; a transaction can be
  inserted by the mempool sync, by an event or by its block; `rewindBlock` takes two
  transactions; a crash loses the cache but not the rows. Correct means that
  counters, rows, cache and blocks agree with each other at all times, that the
  database is the image of one chain and one mempool, and that it catches up.
- **Wallet engagement.** Read-modify-write by three writers, one of which nobody
  awaits and one of which is another process; streaks kept by date differences.
  Correct means no counted vote is lost and the two ways to compute a streak agree.
- **Push subscriptions.** Maps are changed before or after awaits, the DELETE routes
  do not await, and `init()` fills the maps partly. Correct means that memory and
  database name the same ids and topics, and that each instance gets its own.
- **Referral codes.** Each handler is a sequence of statements without a transaction
  around them. Correct means that a code is redeemed once, that a claim rests on a
  redeemed code of somebody else, and that the first drip is ordered once.
- **Profile queue.** Sums are added and taken back by different handlers, which group
  the same outputs differently, with entries keyed by the profile id alone and columns
  that lead from one statement to the next. Correct means that counters are the sums
  over the outputs that count, and that no statement misses its row.
- **Authorization cache.** Entries expire by the height of a checkpoint that can go back
  or be null. Correct means that nobody is authorized without a challenge of his own,
  or beyond its lifetime.
- **HTTP API.** Each call of a handler may fail, and what then happens differs from
  handler to handler; parts start and stop around the requests. Correct means that a
  request is answered by its handler, that failures are told where they should be, and
  that the process ends when it is asked to and not otherwise.
- **Feed.** A client reads page by page with `skip` and `take` while posts move. Correct
  means that only moves cost a client something.
- **Requests of several statements.** A transaction of Prisma reads what is committed at
  each statement. Correct means that the parts of an answer fit together whenever
  nothing came in between.

The hazards in `PROJECT.json` name the line where each of these bites and the
properties that would catch it, or say why none does yet.

## 2. The modules

| Module | What it is |
|---|---|
| `Indexer` | node, indexer and chain tables, one action per transaction of the database |
| `IndexerSync` | the indexer compared with the node; the refinement of `IndexedView` |
| `IndexedView` | the abstract specification: one linked chain, one mempool, each output counted once |
| `IndexerProofs` | proofs about `Indexer`; that the database is the image of the node; the refinement |
| `Engagement`, `EngagementProofs` | the row of one wallet under its three writers |
| `Subscriptions` | the maps and tables of the push subscriptions under overlapping requests |
| `SubscriptionClients` | what holds for the clients that await the answers to their requests |
| `SubscriptionsProofs` | proofs about both |
| `Referral`, `ReferralProofs` | referral codes and claims under overlapping requests |
| `ProfileLedger`, `ProfileLedgerProofs` | the profile queue and the counters and records it is written to |
| `AuthCache` | the authorization cache over the checkpoint |
| `Routes`, `Api` | the routes as Express matches them; the process with its requests from start to end |
| `ApiProofs` | proofs about `Api` and `AuthCache` |
| `Feed`, `FeedProofs` | the feeds and their scores, with a client that reads them |
| `Reads` | the requests that read with several statements |
| `RequestsProofs` | proofs about `Reads`, and about the parts of the API together |
| `MC*` | small instances for TLC |

All types are proved. Those of the parts of the API are also checked by a run, together, as
`RequestsTypeOK`.

A definition `X_Mutant` beside `X` is a plausible wrong version of `X`; some property
rejects it. Nothing uses it otherwise.

### Indexer

State. `chain` and `nodeMempool` are the node's; `inbox` is what it has published to
the subscribed indexer and was not handled yet; `phase` is where the indexer's one
thread of control is; `mempool`, `txidIndex` and `checkpoint` are its fields;
`blockTable` and `rows` are the tables, where `rows[o]` is the height of the record
of an output, *unconfirmed* or absent; `applied[o]` says how many times, net, the
increments of an output are in the counters of profiles and posts. The sums
themselves are left out: an output is counted, or it is not.

Four kinds of outputs behave differently in the database: a RANK output and a comment
on a profile are inserted by `createMany`, which fails on an existing key; a comment on
a post by `connectOrCreate`, which does not; a comment that replies to nothing has no
record but is counted.

Actions. `Start`, `Cleanup`, `GetBestBlock` (one level of its recursion),
`InitRewindRecords` and `InitDeleteBlock` (the two transactions of `rewindBlock`),
`InitSyncBlocks` (one range), `InitSyncMempool`, `Subscribe`; `nngMempoolTxAdd`,
`nngMempoolTxRemove`, `nngBlockConnected`, `nngBlockDisconnected` with
`DisconnectDeleteBlock`; `Crash`. A step whose transaction Postgres refuses, or
whose code throws, ends the process. The node's four actions are external.

Assumed of what is not under `src/`: lotusd publishes an event for each change, in
order, and answers RPCs from its present state; the client library (a submodule
that is not here) queues events and runs one handler at a time (`src/README.md:7`
"NNG messages are queued and processed in order"); somebody starts a process that
ended.

### Engagement

State. `row` is the row of one wallet; `handler` and `updates` are updates in progress
for a vote and for comments, each with the row it computed; `script` is the backfill.
`counted` and `voteDays` record, for the properties, what the updates of votes wrote.
Dates are days: the code truncates to UTC midnight. A transaction has RANK outputs or
a comment, never both (`processTransaction`), and one wallet. The totals and dates
that the script reads in parallel are one query, the existing row another: no
property tells the former apart.

### Subscriptions

State. The maps `subscriptions`, `instanceSubscriptions`, `topicSubscriptions`; the rows
of the three tables; the requests in progress. A statement commits some time after
it was sent, and the code behind its `await` runs some time after that, so that both
are actions where the code changes a map. `TopicThrows` is a topic that is not a string, on
which both topic routes throw before their `try` and before the authorization
(`routes/push.ts:157`, `:197`).

`SubscriptionClients` is about clients that wait for the answer to a request before they send
the next, and send topics as strings; the run has clients of both sorts, told apart by
`Clients`. `Awaited` says no more than such a client can do: the DELETE routes answer
before their statement commits (`routes/push.ts:212-221`, `:255-263`), so that its next request may
come while that one is pending. Then a topic or a row can be written in the other order
than the maps, and a delete that finds another id in its row is rejected and ends the process. `exposed`
records the instances of which a request did that, or unsubscribed a topic with an id
that is not the row's, or named no topic. `AwaitedMemoryAgrees` says what holds for all: at rest memory has the id of the row
or none, and no removed id is under a topic; and for an instance not exposed, that its
topics are active in its row. `OnlyFailuresEndProcess` says that the process ends by a failure,
or by the pending DELETE of an exposed instance, and by nothing else.

### Referral

State. Both tables, the requests in progress, the drips ordered, and two sets that stand
for time: codes that have expired, and redemptions of the last 24 hours. Each
statement is an action; what a request read before may be stale at the next.

### ProfileLedger

State. `queue` and `queuePosts` are the profile queue; `profiles`, `posts` and `records` the
tables, with the sums and the columns; `op` and the variables beside it the batch in
progress. A handler chooses its outputs, `QueueRank` and `QueueComment` fill the queue
in any order the code allows, and `Upsert` or `Rewind` is the transaction made of it, which
fails where a foreign key or a missing row makes it fail. `Indexer` has these handlers
in the order of the node's events and counts outputs; here they come in any order that
keeps records and cache consistent, which is more than the node does. `applied` is the
count of `Indexer`: `CountersMatchOutputs` is what justifies counting there.

### AuthCache

State. `checkpoint` and `cache`; `challenges` and `granted` are history. `IsRequestAuthorized` is
the whole lookup, which has no `await` in it. The signature is a Boolean of the header. A
null checkpoint throws, which the caller of the challenge answers, and the sender of
one (`sendAuthChallenge`) does not: that one is in `Api`.

### Routes and Api

`Routes` has the patterns of all routers in the order of mounting, and `Dispatch` as Express
does it. In `Api` a handler is a record: its early returns, the calls it awaits and what it
makes of the failure of each (a status, nothing, or a rejection nobody handles),
whether it is authorized before or after its checks, whether it answers before its calls
are through (`Unawaited`, the two DELETE routes of push), and whether what a client sends can make
it throw outside every `try` (`Throwing`, the action `Throws`): a topic that is not a string, a body with
a length that no array has, a value that the `catch` cannot log. A request whose failure ends the
process stays as it was, with `failed` set, so that a success told too early is seen. `requests` are in flight in slots;
`stage`, `listening`, `client` and `synced` are what start-up has done so far; `closing[c]` is how
far each call of `close()` is, of which the signals and a failed start-up make one each.

### Feed

State. `burns` and `rows` are votes and posts; `reader` is a client with the page it is at
and, for `PagesFollowMoves` (nothing is missed, and nothing repeated, but what moved), what it has
seen and what moved; `trend` is a request for the trending
posts between its statements. Queries have the code's order, and any order among ties.
Scores are integers: `Log` is a table of scaled logarithms, whose length bounds the
burns of one post (`Within`), `Left` a table of what each age leaves of a score, and the sigmoid
counts quarters. The proofs assume of the tables only that the first grows and that the
second is positive; TLC runs with tenths of the binary logarithm and powers of two. The
curated feed has two queries between which votes may come.

### Reads

State. `votes` with their times, `clock`, and `request`, a request between its statements.
`crossed` is what happened since its first one; `AnswersFit` says in terms of it when the
parts of an answer must agree: the changes of the statistics with the totals, the summary
of a chart with one moment, a vote with one day, the voters with their profile, the
ancestors with each other. Comments of a thread come and go, so that each step
of the walk to the root may find one or not.

### MCRequests

The four modules above share no variable. `MCRequests` runs one of them in a behaviour,
the others at rest, so that each state space is added and none multiplied.

## 3. The runs

| Run | Question | Answer |
|---|---|---|
| `gap` | Do tables, counters and cache stay consistent when events are lost during `init()` and the process crashes anywhere? | yes: `Ledger`, `CacheIsUnconfirmed`, `ConfirmedInItsBlock`, `WholeBlocks`, `RewindFindsItsBlock`, `ConfirmedUntilRewound` |
| `sync` | When no event is lost, is the database what the handled part of the event stream says, does the indexer implement `IndexedView`, and does the database catch up once the node rests? | yes, the last under weak fairness of the indexer |
| `heights` | Does reconciliation compare each height, as its doc says? | **no**: a lost event leaves a height that no start repairs |
| `cleanup` | Does the cleanup take back all unconfirmed state, as its comment says? | **no**: a comment that replies to nothing is never taken back |
| `redemptions` | Are codes, claims and drips right under competing requests and failures? | yes |
| `wallet` | One referral per wallet, as the schema says? | **no**: two requests of a wallet spend a code each |
| `overlap` | Are maps and tables consistent for any overlap of requests, and how far do they agree for clients that await their answers? | yes; topics agree but for an instance whose client overtook a DELETE, or named another id or no topic |
| `restart` | Does a start load the topics, as the comment says? | **no**: `subscribeTopic` returns at once while the map by instance is empty |
| `streaks` | Do votes, comments, crashes and a backfill leave counters and streaks right? | yes |
| `counters` | Are the counters of profiles and posts the sums over the outputs that count, and does every statement find its rows? | yes, while no batch mixes two platforms under one profile id |
| `requests` | Does a client get what it may expect: its handler, an answer, an authorization that was challenged, pages and parts that fit? | yes, with the exceptions that each property names |
| `burned` | Does the total of sats contain every counted vote? | **no**: an update for a comment that nobody awaits overwrites it |

The five answers *no* are the findings of `PROJECT.json`, each with the line that says
otherwise. Runs of the second kind stop at their counterexample.

Bounds, and why they are enough:

- Indexer: three transactions of one output each; two branches that leave the same
  block, one of them longer (`A1 A2` against `A1 B2 B3`), `t1` mined on both, `t2`
  mined at different heights, `t3` on one; a range size of 2, so that the sync needs a full range and
  an empty one; `Buried = 1`, so that a reorganisation goes one block deep or two; six or
  seven changes of the node and one crash. Seven changes suffice for connect,
  disconnect, connect two, and mempool events around them; the mutants of each
  property, which need a reorganisation and a return to the mempool, are all found.
  The kinds of `t2` and `t3` differ by run so that each of the four kinds occurs.
- `QuietInit` (runs `sync`, `cleanup`): the node does not change while `init()`
  runs. Without it the strong properties are false, which is what `heights` shows; `gap`
  has what is left then. In `sync` and `heights`, `CrashPhases` leaves out a
  crash between the two transactions of `rewindBlock`: it can leave a stored block without
  records (section 5). `gap` and `cleanup` crash anywhere.
- Referral: two wallets, two requests at a time, one failure or crash; two codes, or three
  without a failure. A race needs two requests; the proofs cover any number.
- Subscriptions: two instances, three ids, two requests, one topic, one failure or crash.
  Symmetry only where there is no liveness property.
- Engagement: a vote with two outputs and a comment, four days, three mempool messages (a
  record may leave and return), one backfill, one failure or crash. Four days give two
  runs of days with a gap, or a run of four.

- ProfileLedger: five transactions with three RANK outputs and three comments, so that one
  batch has two profiles, a vote meets the post that a comment is, a comment replies to
  a post, to a profile and to nobody; both platforms and all sentiments; two heights, four
  batches and a restart: an output is added, confirmed, rewound and added again.
- AuthCache: two instances, two wallets, three heights with a fork at the second and
  `TTL = 1`: an entry can expire, and the checkpoint can go below the challenge and above it
  on another branch. The proofs cover any chain and any lifetime.
- Api: one request at a time and two signals. Requests share nothing but the process, and
  a second slot only multiplies states.
- Feed: three posts, two of them contested, pages of two and three, one page of candidates,
  two changes of votes and one tick. Three posts on pages of two make a second page that
  a move can shift; three candidates are `MinPosts`, with `ZMax = 1` low enough that one of
  them is capped (three scores never are 2.5 deviations apart). `VelocityThreshold = 2` of votes
  of one unit is reached by a post with three.
- Reads: three items of which two share an id, three votes of two wallets, days of two ticks
  and one midnight; a thread of three posts with the ancestors of one or of two read.

`CHECK_DEADLOCK FALSE` in the indexer's configurations: an indexer in step with a node that
has used up its changes has nothing to do. In `overlap`: requests run out of fresh ids. In `counters`:
the bound on batches is used up.

Fairness. `FairSpec` has weak fairness of `IndexerStep` alone, as one action: the
indexer is one thread of control that goes on when it can, and a process that ended
is started again. Nothing is assumed of the node, nor of crashes. `ApiFairness` has weak
fairness of the calls of each request (a statement or a call over the network returns
or fails, by its timeout at the latest), of the answer that reaches the client, and of
each call of `close()`, whose steps settle for the same reason. Nothing is assumed of
clients or signals, nor that a call goes well.

## 4. The proofs

Each proof module defines an inductive invariant, shows that the initial states satisfy it
and that every step keeps it, with a lemma for each action, and derives the theorems. They
hold for every value of the constants that satisfies the assumptions of the modules
(`ConstantsAssumption`, `LedgerAssumption` and so on), which TLC evaluates on every run.
Bounds on events, crashes and failures are arbitrary there.

- **IndexerProofs**: types; `Ledger`; `CacheIsUnconfirmed`; `ConfirmedInItsBlock`; `WholeBlocks`;
  `RewindFindsItsBlock`; and the action property `ConfirmedUntilRewound`. These are not
  inductive: that a block meets no foreign record needs that a height is stored
  once and that a transaction is mined once in the active chain; that the mempool
  sync starts from nothing needs that memory is empty, and that the cleanup has been
  done; that deleting a block takes no counted record along needs that its records
  went first. `IInv` adds seven such facts to the properties. Any tree of blocks, any
  range size, events lost during `init()`, crashes anywhere.
- **IndexerProofs**, second half: `CaughtUpByInbox`, `LinkedBlocks`, `CheckpointIsHighest`,
  `CompleteUnlessRewinding`, and the refinement `ImplementsView`. These are about an indexer
  that loses no event, and the theorems say so: `NothingLost`, their hypothesis, is what the
  run `sync` has for constants (`QuietInit`, and no crash between the two transactions of
  `rewindBlock`). Without it they are false, which is the finding of `heights`. The
  invariant (`SyncInv`) says that the database is the image of a state that a node can be in,
  and how far that is from the node's own: once subscribed, the events in `inbox` lead from
  the one to the other (`Leads`); during `init()`, when the node rests, the two become equal bit by bit
  (`Reconciles`: no mempool, then a common beginning of the chains, then the whole chain). Handling an
  event takes the image one state further, and the node lengthens the path at its other
  end. `ViewImplemented` shows that each step of the indexer is then a step of `IndexedView`
  or leaves the view unchanged; the initial states map to its initial states.
- **ReferralProofs**: `ClaimIsRedeemed`, `DripOnce`, `RedeemedHasClaim`, `RedeemedForGood`.
  The invariant says what a request at each step may still rely on: that its code has
  another referrer, that it redeemed the code, that it alone may order the drip.
- **SubscriptionsProofs**: `InstanceIndexed`, `TopicsWereAsked`, `RowIsKnown`. The argument is
  that an id belongs to one instance from the moment it is drawn, wherever it
  occurs. For `AwaitedMemoryAgrees` and `OnlyFailuresEndProcess` a second invariant, `AwaitedInv`,
  says that an instance has at most one request that is not answered, and what memory and row
  have at each step of it; pending DELETEs beside it change neither the id in memory
  nor, while the instance is not exposed, the topics of its row. The requests of other
  instances touch neither, for the reason above.
- **EngagementProofs**: `StreakWithinLongest`, `VotesAreKept`, `StreakAgrees`, `LongestAgrees`. The streak of a
  row is the run of counted days that ends with its last vote; four lemmas say how runs
  of days grow. A vote's update is still right when it is written since comments leave
  its columns alone, the one fact that fails for the sats. `LInv`, inductive beside `IInv`,
  adds that the longest streak is attained by a run and exceeded by none.
- **ProfileLedgerProofs**: `PushesSucceed`, `RankingIsNet`, for any batches: a queue is empty when
  its filling starts, and as long as RANK outputs are left, only RANK outputs made its
  entries. `StatementsSucceed`, `RecordsMatchOutputs` and `CountersMatchOutputs` as long as no batch
  mixed two platforms under one profile id, which is how the properties are stated. Their
  invariant `AInv` relates three things: the tables and what is `applied` (rows exist for
  what was counted, counters are the sums due for it, records have the columns of their
  outputs); the queue and the part of the batch that filled it so far (its entries are the
  sums due for that part, so that a statement finds its row, or an earlier statement makes
  it); and batch, mempool and records (an upsert adds what has no record, a rewind takes back
  what counts and has left the mempool, the outputs of a transaction go together). The sums are folds over finite sets
  of outputs. What the proof needs of them (a sum over a set is that without an element
  plus its part; sums over disjoint sets add up; equal parts have equal sums) is proved
  from the definition of the fold by a least counterexample: a smallest subset for which
  the fact fails has an element, and without it the fact holds. `LedgerAssumption` has the sets of
  outputs finite, as those of any chain are.
- **ApiProofs**: `ServedByItsHandler`, `FailuresAreTold`, `OnlyUncaughtCrash`, for any number of
  requests in flight and any signals. Who serves a client is a fact about the 24 routes
  (`Dispatched`): the client of a route is no client of any route mounted before, because
  the two differ in the method, in the lengths that they match, or at one place where the former
  has a parameter or another literal (`Apart`); the one pair that does not is the engagement
  and the activity of a wallet. What an answer tells follows from what is left to await: each
  list of calls is a plan of its handler (`Plan`: what it ignores, leaves uncaught, and may go on
  after), what is left of a plan is one, and the invariant has for each request that it
  failed or wrote before its last call only where its handler goes on after that. A request whose
  failure ended the process is an exception of its own (`RequestEnded`), from which the cause
  of the end is read off.
- **ApiProofs**, last part: `EntriesWereChallenged`, `GrantsWereChallenged`, for any set of blocks and
  any moves of the checkpoint that the action allows. The two are inductive together
  with the types, since a challenge that is passed replaces the entry and the last
  grant along with the height they rest on; nothing is needed of the chain.
- **FeedProofs**: `PagesFollowMoves`, `PagesAreFull`, `VerdictsAreKept`, for any posts, histories, page
  sizes, moves and tables. `FeedInv` has three parts. `RowsAreSums`: the row of a post is the sum
  of the burns for it, so that an undone vote leaves no less than the others gave, and a
  post that was burned for has a row (sums are taken apart by a least counterexample, as in
  `ProfileLedgerProofs`). `ReaderInv`: of the list last read, each post that was there from the start
  and stands before the end of the last page was seen or was pulled, and each that was
  seen and not pushed stands there. It survives a new list because a post that stands
  earlier in it has lost one that was before it (`MoveIsNoticed`, by the pigeonhole principle):
  that is what "pulled" means. At the last page the whole list stands before its end, and
  nothing can be missed. `TrendInv`: the posts between two statements of a request for trending
  posts have rows, also after votes were undone. A verdict is kept
  since a score has the sign of its votes (the logarithms grow, and what decay and dampening
  leave is positive) and the cap is monotone (`CappedKeys`), though it may tie a negative score
  with a positive one. The sort is stable and its candidates come in the order of their rankings
  (`FoundInOrder`, which `ReaderInv` keeps between the two queries), so that a tie leaves the
  positive one first. That sorted lists exist is proved from their definition by `CHOOSE`.
- **RequestsProofs**: `AnswersFit`, for any ballots, threads, clocks and length of a day. `ReadsInv`
  says what a request has between its statements: as long as no vote was added or removed,
  each change it read is the net of a set of votes that are all there; the upvotes of a
  summary are those of its day as long as votes were only added; the ranking of a profile
  is the sum of its votes; the ancestors so far are linked, each the parent of the next,
  and fewer than asked for. A vote is in the summaries of two days only at a midnight,
  since two midnights that both have it are one day apart and its time is the earlier
  (`DaysCountOnce`). Then `RequestsTypeOK`, and the safety properties of the parts, of `MCSpec`: a step of one part
  is a step or a stutter of each, so that the conjunction of their invariants (`RequestsInv`) is
  one, also of the ended process that the other parts run beside.

Each proof module also has the types (`TypeCorrect`, `ApiTypeCorrect`, `FeedTypeCorrect` and so on).

Checked by TLC only: the two liveness properties (`EventuallyInSync`, `ServesUntilClosed`). Liveness
under fairness is out of the prover's reach, and so is `ENABLED`. Theorems of induction cannot be cited, since they take an operator for a
parameter; where a proof needs induction it argues with a least counterexample.

## 5. Known limits of the code that no run checks

- A crash between the two transactions of `rewindBlock`, on a node that is back on the same
  block at the next start, keeps a stored block without its records
  (`src/lib/indexer.ts:661`). `WholeBlocks` is what is left of completeness.
- Outstanding codes are counted before the new one is created (`referral.ts:72`), so that
  overlapping requests may pass the limit by their number.
- After a restart, `unsubscribe` finds no id for a stored subscription (`push.ts:475`), and
  overlapping subscriptions of one instance may leave different ids in memory and row
  (`push.ts:423`). A rejected statement of a DELETE route ends the process
  (`routes/push.ts:255`); the model has it as part of `StatementFails`. The same route answers before
  it has deleted the row: a client that then subscribes again can end the process without
  any failure (`exposed`).
- A topic that is no string, a body with a length that no array has, and a value that cannot be logged
  end the process from handlers that seem to catch everything (`routes/push.ts:157`,
  `routes/profiles.ts:271`, `routes/system.ts:206`).
- `POST /posts` spreads the BigInts `firstVoted` and `lastVoted` into its answer (`database.ts:1116`), so that no
  JSON can be made of a post that was found, and the answer is 400.
- A backfill that overlaps a vote may write back a longest streak that is out of date.
- Votes inserted by a block or by a start are counted in the chain tables but not in
  the engagement, until a backfill.
- The engagement of a wallet is hidden by the activity route, whose pattern matches its
  path and was registered first (`routes/wallet.ts:29` and `:95`): the exception in
  `ServedByItsHandler`.
- Failures of the lists of transactions, votes, profiles and posts are dropped for empty
  lists with status 200; those of charts end the process; the DELETE routes of push answer before theirs; a start-up that fails exits
  with 0. They are the exceptions in `FailuresAreTold` and `OnlyUncaughtCrash`.
- A request for an instance or a subscription that is refused because a call after the
  statement failed has been stored (`FailuresAreTold`).
- The curated feed says that there is a next page beyond its candidates, and the
  controversial one counts posts that it then leaves out (`PagesAreFull`).
- Statistics and voters of a profile mix platforms that share its id (`database.ts:1582`,
  `:3448`); the answer leaves `satsPositive` and `satsNegative` of a voter at 0.
- The change in percent divides by a previous ranking of 0 (`database.ts:1598`). A range of a
  day includes both midnights (`:641`).
- The reader's own votes are looked up for the first ancestor only (`database.ts:3522`), where the doc
  at `:3511` says each.
- A rewind does not restore `lastVoted` of profiles and posts (`database.ts:2085`): they stay
  first in a feed sorted by recency, and decay from a vote that is gone.
- A code can expire between its check and its redemption (`referral.ts:195`).
- Subscribing again leaves the old id in the map of subscriptions until the next restart
  (`push.ts:426`); only `getStats` reads it.
- After a backfill `lastVoteDate` is the time of a block, which may be of tomorrow; the next
  vote then starts the streak anew (`database.ts:2538`).
- Blocks stored by `init()` say they have no comments: `saveBlockRange` leaves `rnkcsLength` at
  its default (`indexer.ts:618`).
- A negative page size passes `normalizePaginationParams` (`database.ts:3639`): the first page comes
  from the other end of the order, a later one is an empty list.
- The rate limiter is mounted behind the routes and counts only what no route serves
  (`router.ts:277`), and the validators of `Parameters` (`router.ts:37`) are never called.
- Far beyond the velocity threshold the sigmoid is 0 in floating point, and a score with
  it, on either side; in `Feed` it never is, so that `VerdictsAreKept` is about ratios below
  several hundred.

## 6. Not modelled

- Lists that a single statement returns: their calls are in `Api`, their content in no module.
- The leaderboard, the texts and the metadata of posts; the formats that validators accept;
  the codecs; the configuration.
- Temporal: its workflows run in a server elsewhere. A drip, a query and a signal are
  calls to it that may fail.
- `checkFaucetMilestone` and the expiry cleanup of the push subscriptions have no caller.
- `ranksLength`/`rnkcsLength`, points and tiers.
- Delivery of notifications; statistics of the push manager.
- The cryptography of signatures.

## 7. The plan

Done, in this order: `Indexer` with `IndexerSync` and `IndexedView` (the core: everything else
reads what it writes), `Referral`, `Subscriptions`, `Engagement`, `ProfileLedger`, `AuthCache`, `Routes`
and `Api`, `Feed`, `Reads`, and proofs of all of them.

Next:

1. Notifications to topics, and the subscriptions that a failed delivery removes.
2. The counters of `ProfileLedger` shown to refine `applied` of `Indexer`, in one module.
3. The scores of `engagement.ts` as step functions of the counters.
