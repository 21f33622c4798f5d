---------------------------- MODULE Subscriptions ----------------------------
(***************************************************************************)
(* Push subscriptions (src/lib/push.ts and src/lib/api/routes/push.ts):    *)
(* three maps in memory beside three tables of the database.               *)
(*                                                                         *)
(* A request gives way to the others at each await.  A statement of the    *)
(* database commits at some time after it was sent, and the code after the *)
(* await runs at some time after that; where that code changes the maps    *)
(* the two are two actions, and other requests come in between.  The       *)
(* DELETE routes do not await the manager: a rejection there is handled by *)
(* nobody and ends the process.                                            *)
(***************************************************************************)
EXTENDS Naturals, FiniteSets

\* A definition named X_Mutant is a wrong version of X, a bug that a property
\* must reject.  Nothing uses it.

CONSTANTS
  Instances,    \* ids of extension instances
  Ids,          \* subscription ids (randomUUID)
  Topics,
  Endpoints,    \* endpoint URLs of browsers
  Requests,     \* requests that may be in progress together
  None,         \* undefined, null, no row
  MaxFailures   \* bound on failed statements and crashes

ASSUME ConstantsAssumption ==
  /\ None \notin Instances \cup Ids \cup Topics
  /\ None \notin [id : Ids, endpoint : Endpoints]
  /\ MaxFailures \in Nat

VARIABLES
  up,                     \* the process has started
  subscriptions,          \* memory: the instance of each subscription id
  instanceSubscriptions,  \* memory: the subscription id of each instance
  topicSubscriptions,     \* memory: the subscription ids of each topic
  instances,              \* ExtensionInstance: ids
  pushRow,                \* ExtensionPushSubscription, by instance
  topicRow,               \* ExtensionTopicSubscription.isActive, by instance and topic
  request,                \* the requests in progress
  failures                \* number of failed statements and crashes (bound)

memVars == <<subscriptions, instanceSubscriptions, topicSubscriptions>>
dbVars == <<instances, pushRow, topicRow>>
vars == <<up, memVars, dbVars, request, failures>>

Idle == [step |-> "idle"]

\* The statement, or the code after it, that a request comes to next.
SubscribeSteps == {"register", "upsert", "resume"}
TopicSteps == {"topicUpsert", "topicResume", "topicDeactivate"}

\* Its parameters.
RequestStates ==
  {Idle}
    \cup [step : SubscribeSteps, instance : Instances, id : Ids, endpoint : Endpoints]
    \cup [step : TopicSteps, instance : Instances, id : Ids, topic : Topics \cup {None}]
    \cup [step : {"delete"}, instance : Instances, id : Ids]

HasId(i, id) == pushRow[i] # None /\ pushRow[i].id = id

\* randomUUID draws an id that occurs nowhere.
Fresh(id) ==
  /\ subscriptions[id] = None
  /\ \A t \in Topics : id \notin topicSubscriptions[t]
  /\ \A i \in Instances : ~HasId(i, id)
  /\ \A q \in Requests : request[q] # Idle => request[q].id # id

InProgress(i) == \E q \in Requests : request[q] # Idle /\ request[q].instance = i
MayStart(q) == up /\ request[q] = Idle

GoTo(q, step) == request' = [request EXCEPT ![q].step = step]

\* The request is over.
Answer(q) == request' = [request EXCEPT ![q] = Idle]

\* Memory is gone, and the requests with it.
ProcessEnds ==
  /\ up' = FALSE
  /\ subscriptions' = [id \in Ids |-> None]
  /\ instanceSubscriptions' = [i \in Instances |-> None]
  /\ topicSubscriptions' = [t \in Topics |-> {}]
  /\ request' = [q \in Requests |-> Idle]

-----------------------------------------------------------------------------
(* POST /subscription/:instanceId *)

Subscribe(q, i, id, endpoint) ==
  /\ MayStart(q)
  /\ Fresh(id)
  /\ request' = [request EXCEPT ![q] =
       [step |-> "register", instance |-> i, id |-> id, endpoint |-> endpoint]]
  /\ UNCHANGED <<up, memVars, dbVars, failures>>

\* registerExtension returns its error, and nobody looks at it.
RegisterExtension(q) ==
  /\ request[q].step = "register"
  /\ instances' \in {instances, instances \cup {request[q].instance}}
  /\ GoTo(q, "upsert")
  /\ UNCHANGED <<up, memVars, pushRow, topicRow, failures>>

\* The row of an instance, created or updated (mutant: an update keeps the id).
RowAfterUpsert_Mutant(i, id, endpoint) ==
  [id |-> IF pushRow[i] = None THEN id ELSE pushRow[i].id, endpoint |-> endpoint]
RowAfterUpsert(i, id, endpoint) == [id |-> id, endpoint |-> endpoint]

\* The instance has to exist, and no other row may have the endpoint.
UpsertPushSubscription(q) ==
  LET i == request[q].instance
      e == request[q].endpoint
      allowed == /\ i \in instances
                 /\ \A j \in Instances \ {i} : pushRow[j] # None => pushRow[j].endpoint # e
  IN
  /\ request[q].step = "upsert"
  /\ \/ /\ allowed
        /\ pushRow' = [pushRow EXCEPT ![i] = RowAfterUpsert(i, request[q].id, e)]
        /\ GoTo(q, "resume")
     \/ /\ ~allowed
        /\ Answer(q)
        /\ UNCHANGED pushRow
  /\ UNCHANGED <<up, memVars, instances, topicRow, failures>>

\* The notification that is sent next reads the maps, and changes nothing.
SubscribeResumes(q) ==
  LET i == request[q].instance  id == request[q].id IN
  /\ request[q].step = "resume"
  /\ subscriptions' = [subscriptions EXCEPT ![id] = i]
  /\ instanceSubscriptions' = [instanceSubscriptions EXCEPT ![i] = id]
  /\ Answer(q)
  /\ UNCHANGED <<up, topicSubscriptions, dbVars, failures>>

-----------------------------------------------------------------------------
(* POST /subscription/:instanceId/topic/:topic *)

\* Without an id in memory the request is answered at once, and succeeds.
SubscribeTopic(q, i, t) ==
  /\ MayStart(q)
  /\ instanceSubscriptions[i] # None
  /\ request' = [request EXCEPT ![q] =
       [step |-> "topicUpsert", instance |-> i, id |-> instanceSubscriptions[i], topic |-> t]]
  /\ UNCHANGED <<up, memVars, dbVars, failures>>

UpsertTopicSubscription(q) ==
  /\ request[q].step = "topicUpsert"
  /\ topicRow' = [topicRow EXCEPT ![request[q].instance][request[q].topic] = "active"]
  /\ GoTo(q, "topicResume")
  /\ UNCHANGED <<up, memVars, instances, pushRow, failures>>

SubscribeTopicResumes(q) ==
  /\ request[q].step = "topicResume"
  /\ topicSubscriptions' = [topicSubscriptions EXCEPT ![request[q].topic] = @ \cup {request[q].id}]
  /\ Answer(q)
  /\ UNCHANGED <<up, subscriptions, instanceSubscriptions, dbVars, failures>>

-----------------------------------------------------------------------------
(* DELETE /subscription/:subscriptionId/topic/:topic.  The topic comes from  *)
(* the query string, and may be missing there.                               *)

UnsubscribeTopic(q, id, t) ==
  LET i == subscriptions[id] IN
  /\ i # None
  /\ MayStart(q)
  /\ topicSubscriptions' = [s \in Topics |-> IF s = t THEN topicSubscriptions[s] \ {id}
                                                      ELSE topicSubscriptions[s]]
  /\ request' = [request EXCEPT ![q] =
       [step |-> "topicDeactivate", instance |-> i, id |-> id, topic |-> t]]
  /\ UNCHANGED <<up, subscriptions, instanceSubscriptions, dbVars, failures>>

\* The same upsert; without a topic it is rejected.
DeactivateTopic(q) ==
  LET t == request[q].topic IN
  /\ request[q].step = "topicDeactivate"
  /\ \/ /\ t # None
        /\ topicRow' = [topicRow EXCEPT ![request[q].instance][t] = "inactive"]
        /\ Answer(q)
        /\ UNCHANGED <<up, memVars>>
     \/ /\ t = None
        /\ ProcessEnds
        /\ UNCHANGED topicRow
  /\ UNCHANGED <<instances, pushRow, failures>>

-----------------------------------------------------------------------------
(* DELETE /subscription/:instanceId *)

\* removeSubscription takes the id out of the three maps; in the mutants, the
\* index by instance, or the topics, are forgotten.
WithoutInstance_Mutant(i) == instanceSubscriptions
WithoutInstance(i) == [instanceSubscriptions EXCEPT ![i] = None]
WithoutTopics_Mutant(id) == topicSubscriptions
WithoutTopics(id) == [t \in Topics |-> topicSubscriptions[t] \ {id}]

Unsubscribe(q, i) ==
  LET id == instanceSubscriptions[i] IN
  /\ MayStart(q)
  /\ id # None
  /\ instanceSubscriptions' = WithoutInstance(i)
  /\ topicSubscriptions' = WithoutTopics(id)
  /\ subscriptions' = [subscriptions EXCEPT ![id] = None]
  /\ request' = [request EXCEPT ![q] = [step |-> "delete", instance |-> i, id |-> id]]
  /\ UNCHANGED <<up, dbVars, failures>>

\* Deleting a row that is not there is rejected.
DeletePushSubscription(q) ==
  LET i == request[q].instance IN
  /\ request[q].step = "delete"
  /\ \/ /\ HasId(i, request[q].id)
        /\ pushRow' = [pushRow EXCEPT ![i] = None]
        /\ Answer(q)
        /\ UNCHANGED <<up, memVars>>
     \/ /\ ~HasId(i, request[q].id)
        /\ ProcessEnds
        /\ UNCHANGED pushRow
  /\ UNCHANGED <<instances, topicRow, failures>>

-----------------------------------------------------------------------------
(* The process *)

\* The instance of the row with an id (mutant: of no row).
RowOwner_Mutant(id) == None
RowOwner(id) ==
  IF \E i \in Instances : HasId(i, id) THEN CHOOSE i \in Instances : HasId(i, id) ELSE None

\* init() fills the map by subscription id.  It asks to subscribe the topics
\* too, which needs the map by instance, and that is empty.
Start ==
  /\ ~up
  /\ up' = TRUE
  /\ subscriptions' = [id \in Ids |-> RowOwner(id)]
  /\ UNCHANGED <<instanceSubscriptions, topicSubscriptions, dbVars, request, failures>>

\* A failed upsert ends its request (mutant: the error is swallowed).
UpsertFails_Mutant(q) ==
  GoTo(q, IF request[q].step = "upsert" THEN "resume" ELSE "topicResume")
UpsertFails(q) == Answer(q)

\* A statement fails: the POST routes answer with an error, the DELETE routes
\* have answered already.
StatementFails(q) ==
  /\ failures < MaxFailures
  /\ failures' = failures + 1
  /\ \/ /\ request[q].step \in {"upsert", "topicUpsert"}
        /\ UpsertFails(q)
        /\ UNCHANGED <<up, memVars>>
     \/ /\ request[q].step \in {"topicDeactivate", "delete"}
        /\ ProcessEnds
  /\ UNCHANGED dbVars

\* A topic that is not a string makes either topic route throw before its try,
\* and before the authorization.
TopicThrows ==
  /\ up
  /\ ProcessEnds
  /\ UNCHANGED <<dbVars, failures>>

Crash ==
  /\ up
  /\ failures < MaxFailures
  /\ failures' = failures + 1
  /\ ProcessEnds
  /\ UNCHANGED dbVars

-----------------------------------------------------------------------------

Init ==
  /\ up = FALSE
  /\ subscriptions = [id \in Ids |-> None]
  /\ instanceSubscriptions = [i \in Instances |-> None]
  /\ topicSubscriptions = [t \in Topics |-> {}]
  /\ instances = {}
  /\ pushRow = [i \in Instances |-> None]
  /\ topicRow = [i \in Instances |-> [t \in Topics |-> "none"]]
  /\ request = [q \in Requests |-> Idle]
  /\ failures = 0

RequestStep(q) ==
  \/ \E i \in Instances, id \in Ids, e \in Endpoints : Subscribe(q, i, id, e)
  \/ RegisterExtension(q) \/ UpsertPushSubscription(q) \/ SubscribeResumes(q)
  \/ \E i \in Instances, t \in Topics : SubscribeTopic(q, i, t)
  \/ UpsertTopicSubscription(q) \/ SubscribeTopicResumes(q)
  \/ \E id \in Ids, t \in Topics \cup {None} : UnsubscribeTopic(q, id, t)
  \/ DeactivateTopic(q)
  \/ \E i \in Instances : Unsubscribe(q, i)
  \/ DeletePushSubscription(q)
  \/ StatementFails(q)

\* What happens when clients send topics as strings.
StringsNext == Start \/ Crash \/ \E q \in Requests : RequestStep(q)

Next == StringsNext \/ TopicThrows

Spec == Init /\ [][Next]_vars

\* A client sends its next request when the last one is answered.  The DELETE
\* routes answer before their statement commits, so that it may still be pending.
AwaitedSteps == SubscribeSteps \cup {"topicUpsert", "topicResume"}
AwaitsAnswer(i) ==
  \E q \in Requests : request[q].step \in AwaitedSteps /\ request[q].instance = i

Starts(q) == request[q] = Idle /\ request'[q] # Idle
Awaited == \A q \in Requests : Starts(q) => ~AwaitsAnswer(request'[q].instance)

-----------------------------------------------------------------------------
(* Properties *)

TypeOK ==
  /\ up \in BOOLEAN
  /\ subscriptions \in [Ids -> Instances \cup {None}]
  /\ instanceSubscriptions \in [Instances -> Ids \cup {None}]
  /\ topicSubscriptions \in [Topics -> SUBSET Ids]
  /\ instances \in SUBSET Instances
  /\ pushRow \in [Instances -> {None} \cup [id : Ids, endpoint : Endpoints]]
  /\ topicRow \in [Instances -> [Topics -> {"none", "active", "inactive"}]]
  /\ request \in [Requests -> RequestStates]
  /\ failures \in Nat

\* The id that memory has for an instance is one that memory knows, and knows
\* to be that instance's: what unsubscribe removes is the caller's own.
InstanceIndexed ==
  \A i \in Instances :
    instanceSubscriptions[i] # None => subscriptions[instanceSubscriptions[i]] = i

\* Memory lists a subscription under a topic only if the database has been
\* told of that topic for its instance, whatever overlaps and fails.
TopicsWereAsked ==
  \A t \in Topics : \A id \in topicSubscriptions[t] :
    subscriptions[id] # None => topicRow[subscriptions[id]][t] # "none"

\* A row's id is in memory from its continuation on, unless a request of the
\* instance is on its way: an id the client got can be unsubscribed from.
RowIsKnown ==
  up => \A i \in Instances : pushRow[i] # None =>
    \/ subscriptions[pushRow[i].id] = i
    \/ \E q \in Requests : /\ request[q].step \in {"resume", "delete"}
                           /\ request[q].id = pushRow[i].id

AtRest(i) == up /\ ~InProgress(i)

\* Memory has for an instance the id of its row, or none.
IdMatches(i) ==
  instanceSubscriptions[i] # None => HasId(i, instanceSubscriptions[i])

\* The topics that memory has for an instance are active in the database.
TopicsMatch(i) ==
  \A t \in Topics :
    instanceSubscriptions[i] # None /\ instanceSubscriptions[i] \in topicSubscriptions[t] =>
      topicRow[i][t] = "active"

\* A topic lists no id that was removed, when the requests are done.
NoRemovedTopics ==
  (\A i \in Instances : AtRest(i)) =>
    \A t \in Topics : \A id \in topicSubscriptions[t] : subscriptions[id] # None

-----------------------------------------------------------------------------
(* What comments of the repository say. *)

\* src/lib/push.ts:333 "loading all subscriptions and their associated topics
\* from the database into the runtime caches": right after a start.
TopicsRestored ==
  [][~up /\ up' => \A i \in Instances, t \in Topics :
       pushRow[i] # None /\ topicRow[i][t] = "active" =>
         pushRow[i].id \in topicSubscriptions'[t]]_vars

=============================================================================
