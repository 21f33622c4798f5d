------------------------- MODULE SubscriptionsProofs -------------------------
(***************************************************************************)
(* The safety of the push subscriptions, for any number of instances, ids  *)
(* and requests in progress, and any number of failures: IInv is           *)
(* inductive.  The argument is that an id belongs to one instance from the *)
(* moment it is drawn, wherever it occurs: in a row, in a map, in a        *)
(* request.                                                                *)
(***************************************************************************)
EXTENDS SubscriptionClients, TLAPS

\* No two rows have the same id.
RowIdsDiffer ==
  \A i, j \in Instances :
    pushRow[i] # None /\ pushRow[j] # None /\ pushRow[i].id = pushRow[j].id => i = j

\* The id of a request to subscribe is in no map and in no other request, and
\* in no row but its own.
SubscribeIdIsOwn ==
  \A q \in Requests : request[q].step \in SubscribeSteps =>
    /\ subscriptions[request[q].id] = None
    /\ \A t \in Topics : request[q].id \notin topicSubscriptions[t]
    /\ \A i \in Instances : HasId(i, request[q].id) =>
         i = request[q].instance /\ request[q].step = "resume"
    /\ \A p \in Requests \ {q} : request[p] # Idle => request[p].id # request[q].id

\* The id another request works on is its own instance's, if it is in memory.
HeldIdIsOwn ==
  \A q \in Requests : request[q].step \in TopicSteps \cup {"delete"} =>
    subscriptions[request[q].id] \in {None, request[q].instance}

\* A topic is in the database before memory lists the subscription under it.
TopicFirstInRow ==
  \A q \in Requests : request[q].step \in {"topicUpsert", "topicResume"} =>
    /\ request[q].topic \in Topics
    /\ request[q].step = "topicResume" => topicRow[request[q].instance][request[q].topic] # "none"

\* While the process is down nothing is in memory.
DownIsEmpty ==
  ~up => /\ \A i \in Instances : instanceSubscriptions[i] = None
         /\ \A t \in Topics : topicSubscriptions[t] = {}
         /\ \A q \in Requests : request[q] = Idle

IInv ==
  /\ TypeOK
  /\ InstanceIndexed
  /\ TopicsWereAsked
  /\ RowIsKnown
  /\ RowIdsDiffer
  /\ SubscribeIdIsOwn
  /\ HeldIdIsOwn
  /\ TopicFirstInRow
  /\ DownIsEmpty

\* Nothing is stored, and the process is down.
LEMMA InitInv == Init => IInv
<1> SUFFICES ASSUME Init PROVE IInv
  OBVIOUS
<1>1. \A q \in Requests : request[q] = Idle /\ request[q].step = "idle"
  BY DEF Init, Idle
<1>2. TypeOK
  BY DEF Init, TypeOK, RequestStates
<1>3. InstanceIndexed /\ TopicsWereAsked /\ RowIsKnown /\ RowIdsDiffer
  BY DEF Init, InstanceIndexed, TopicsWereAsked, RowIsKnown, RowIdsDiffer
<1>4. SubscribeIdIsOwn /\ HeldIdIsOwn /\ TopicFirstInRow
  BY <1>1 DEF SubscribeIdIsOwn, SubscribeSteps, HeldIdIsOwn, TopicSteps, TopicFirstInRow
<1>5. DownIsEmpty
  BY <1>1 DEF Init, DownIsEmpty
<1> QED BY <1>2, <1>3, <1>4, <1>5 DEF IInv

-----------------------------------------------------------------------------
(* What moving a request on does to it.                                    *)

\* The parameters of a request, by what it is about to do.
LEMMA RequestParameters ==
  ASSUME TypeOK, NEW q \in Requests
  PROVE  /\ request[q].step \in SubscribeSteps =>
              request[q] \in [step : SubscribeSteps, instance : Instances, id : Ids,
                              endpoint : Endpoints]
         /\ request[q].step \in TopicSteps =>
              request[q] \in [step : TopicSteps, instance : Instances, id : Ids,
                              topic : Topics \cup {None}]
         /\ request[q].step = "delete" =>
              request[q] \in [step : {"delete"}, instance : Instances, id : Ids]
         /\ request[q] # Idle =>
              request[q].step \in SubscribeSteps \cup TopicSteps \cup {"delete"}
         /\ request[q].step \in SubscribeSteps \cup TopicSteps \cup {"delete"} =>
              request[q] # Idle
  BY DEF TypeOK, RequestStates, Idle, SubscribeSteps, TopicSteps

\* The next statement of a request: its parameters stay.
LEMMA GoToRequest ==
  ASSUME TypeOK, NEW q \in Requests, NEW s, GoTo(q, s),
         \/ request[q].step \in SubscribeSteps /\ s \in SubscribeSteps
         \/ request[q].step \in TopicSteps /\ s \in TopicSteps
  PROVE  /\ request' \in [Requests -> RequestStates]
         /\ request'[q] = [request[q] EXCEPT !.step = s]
         /\ request'[q].step = s
         /\ request'[q].instance = request[q].instance
         /\ request'[q].id = request[q].id
         /\ request[q].step \in TopicSteps => request'[q].topic = request[q].topic
         /\ request[q] # Idle /\ request'[q] # Idle
         /\ \A p \in Requests \ {q} : request'[p] = request[p]
<1>1. request' = [request EXCEPT ![q] = [request[q] EXCEPT !.step = s]]
  BY DEF GoTo
<1>2. CASE request[q].step \in SubscribeSteps /\ s \in SubscribeSteps
  <2>1. /\ request[q] \in [step : SubscribeSteps, instance : Instances, id : Ids,
                           endpoint : Endpoints]
        /\ request[q].step \notin TopicSteps
    BY <1>2, RequestParameters DEF SubscribeSteps, TopicSteps
  <2>2. [request[q] EXCEPT !.step = s] \in [step : SubscribeSteps, instance : Instances,
                                            id : Ids, endpoint : Endpoints]
    BY <1>2, <2>1
  <2> QED BY <1>1, <1>2, <2>1, <2>2 DEF TypeOK, RequestStates, Idle, SubscribeSteps
<1>3. CASE request[q].step \in TopicSteps /\ s \in TopicSteps
  <2>1. request[q] \in [step : TopicSteps, instance : Instances, id : Ids,
                        topic : Topics \cup {None}]
    BY <1>3, RequestParameters
  <2>2. [request[q] EXCEPT !.step = s] \in [step : TopicSteps, instance : Instances,
                                            id : Ids, topic : Topics \cup {None}]
    BY <1>3, <2>1
  <2> QED BY <1>1, <1>3, <2>1, <2>2 DEF TypeOK, RequestStates, Idle, TopicSteps
<1> QED BY <1>2, <1>3

\* The answer to a request ends it.
LEMMA AnswerRequest ==
  ASSUME TypeOK, NEW q \in Requests, Answer(q)
  PROVE  /\ request' \in [Requests -> RequestStates]
         /\ request'[q] = Idle /\ request'[q].step = "idle"
         /\ \A p \in Requests \ {q} : request'[p] = request[p]
  BY DEF TypeOK, Answer, RequestStates, Idle

-----------------------------------------------------------------------------
(* Every action keeps IInv.                                                *)

\* The end of the process empties the memory, in which the rows need not be
\* known any more; the rows are those there were, or fewer.
LEMMA ProcessEndsInv ==
  ASSUME IInv, ProcessEnds, UNCHANGED <<instances, topicRow>>, failures' \in Nat,
         pushRow' = pushRow
  PROVE  IInv'
<1> USE DEF ProcessEnds, Idle
<1>1. TypeOK'
  BY DEF IInv, TypeOK, RequestStates
<1>2. InstanceIndexed' /\ TopicsWereAsked' /\ RowIsKnown' /\ RowIdsDiffer'
  BY DEF IInv, InstanceIndexed, TopicsWereAsked, RowIsKnown, RowIdsDiffer
<1>3. SubscribeIdIsOwn' /\ HeldIdIsOwn' /\ TopicFirstInRow' /\ DownIsEmpty'
  BY DEF SubscribeIdIsOwn, SubscribeSteps, HeldIdIsOwn, TopicSteps, TopicFirstInRow, DownIsEmpty
<1> QED BY <1>1, <1>2, <1>3 DEF IInv

\* A request that ends, without a change of anything else, unless a row is
\* waiting for it to be known.
LEMMA AnswerInv ==
  ASSUME IInv, NEW q \in Requests, Answer(q), UNCHANGED <<up, memVars, instances, topicRow>>,
         failures' \in Nat,
         pushRow' = pushRow,
         request[q].step \notin {"resume", "delete"}
  PROVE  IInv'
<1> USE DEF memVars
<1>1. /\ request' \in [Requests -> RequestStates]
      /\ request'[q] = Idle /\ request'[q].step = "idle"
      /\ \A p \in Requests \ {q} : request'[p] = request[p]
  BY AnswerRequest DEF IInv
<1>2. TypeOK' /\ InstanceIndexed' /\ TopicsWereAsked' /\ RowIdsDiffer'
  BY <1>1 DEF IInv, TypeOK, InstanceIndexed, TopicsWereAsked, RowIdsDiffer
<1>3. RowIsKnown'
  BY <1>1 DEF IInv, RowIsKnown
<1>4. SubscribeIdIsOwn'
  BY <1>1 DEF IInv, SubscribeIdIsOwn, SubscribeSteps, HasId
<1>5. HeldIdIsOwn' /\ TopicFirstInRow'
  BY <1>1 DEF IInv, HeldIdIsOwn, TopicSteps, TopicFirstInRow
<1>6. DownIsEmpty'
  BY <1>1 DEF IInv, DownIsEmpty
<1> QED BY <1>2, <1>3, <1>4, <1>5, <1>6 DEF IInv

\* A subscription draws an id that occurs nowhere.
LEMMA SubscribeInv ==
  ASSUME IInv, NEW q \in Requests, NEW i \in Instances, NEW id \in Ids, NEW e \in Endpoints,
         Subscribe(q, i, id, e)
  PROVE  IInv'
<1> USE DEF memVars, dbVars
<1>1. /\ request' \in [Requests -> RequestStates]
      /\ request'[q] # Idle /\ request'[q].step = "register"
      /\ request'[q].id = id /\ request'[q].instance = i
      /\ \A p \in Requests \ {q} : request'[p] = request[p]
  BY DEF Subscribe, IInv, TypeOK, RequestStates, SubscribeSteps, Idle
<1>2. up /\ request[q] = Idle /\ request[q].step = "idle" /\ Fresh(id)
  BY DEF Subscribe, MayStart, Idle
<1>3. TypeOK' /\ InstanceIndexed' /\ TopicsWereAsked' /\ RowIdsDiffer'
  BY <1>1 DEF Subscribe, IInv, TypeOK, InstanceIndexed, TopicsWereAsked, RowIdsDiffer
<1>4. RowIsKnown'
  BY <1>1, <1>2 DEF Subscribe, IInv, RowIsKnown
<1>5. SubscribeIdIsOwn'
  BY <1>1, <1>2 DEF Subscribe, IInv, SubscribeIdIsOwn, SubscribeSteps, HasId, Fresh
<1>6. HeldIdIsOwn' /\ TopicFirstInRow' /\ DownIsEmpty'
  BY <1>1, <1>2 DEF Subscribe, IInv, HeldIdIsOwn, TopicSteps, TopicFirstInRow, DownIsEmpty
<1> QED BY <1>3, <1>4, <1>5, <1>6 DEF IInv

\* What registerExtension does is of no consequence to IInv.
LEMMA RegisterInv ==
  ASSUME IInv, NEW q \in Requests, RegisterExtension(q)
  PROVE  IInv'
<1> USE DEF memVars
<1>1. request[q].step = "register" /\ GoTo(q, "upsert")
  BY DEF RegisterExtension
<1>2. /\ request' \in [Requests -> RequestStates]
      /\ request'[q].step = "upsert"
      /\ request'[q].instance = request[q].instance
      /\ request'[q].id = request[q].id
      /\ request[q] # Idle /\ request'[q] # Idle
      /\ \A p \in Requests \ {q} : request'[p] = request[p]
  BY <1>1, GoToRequest DEF IInv, SubscribeSteps
<1>3. instances' \in SUBSET Instances
  BY <1>1, RequestParameters DEF RegisterExtension, IInv, TypeOK, SubscribeSteps
<1>4. TypeOK' /\ InstanceIndexed' /\ TopicsWereAsked' /\ RowIsKnown' /\ RowIdsDiffer'
  BY <1>1, <1>2, <1>3 DEF RegisterExtension, IInv, TypeOK, InstanceIndexed, TopicsWereAsked,
     RowIsKnown, RowIdsDiffer
<1>5. SubscribeIdIsOwn'
  BY <1>1, <1>2 DEF RegisterExtension, IInv, SubscribeIdIsOwn, SubscribeSteps, HasId
<1>6. HeldIdIsOwn' /\ TopicFirstInRow' /\ DownIsEmpty'
  BY <1>1, <1>2 DEF RegisterExtension, IInv, HeldIdIsOwn, TopicSteps, TopicFirstInRow, DownIsEmpty
<1> QED BY <1>4, <1>5, <1>6 DEF IInv

\* The upsert gives the row of the instance the id of the request, and memory
\* comes to know it when the request resumes.
LEMMA UpsertInv ==
  ASSUME IInv, NEW q \in Requests, UpsertPushSubscription(q)
  PROVE  IInv'
<1> USE DEF memVars
<1> DEFINE i == request[q].instance
           id == request[q].id
<1>1. /\ request[q].step = "upsert"
      /\ failures' \in Nat
      /\ UNCHANGED <<up, memVars, instances, topicRow>>
  BY DEF UpsertPushSubscription, IInv, TypeOK
<1>2. i \in Instances /\ id \in Ids /\ request[q].endpoint \in Endpoints
  BY <1>1, RequestParameters DEF IInv, SubscribeSteps
<1>3. CASE Answer(q) /\ UNCHANGED pushRow
  BY <1>1, <1>3, AnswerInv
<1>4. CASE /\ pushRow' = [pushRow EXCEPT ![i] = RowAfterUpsert(i, id, request[q].endpoint)]
           /\ GoTo(q, "resume")
  <2>1. /\ request' \in [Requests -> RequestStates]
        /\ request'[q].step = "resume"
        /\ request'[q].instance = i
        /\ request'[q].id = id
        /\ request[q] # Idle /\ request'[q] # Idle
        /\ \A p \in Requests \ {q} : request'[p] = request[p]
    BY <1>1, <1>4, GoToRequest DEF IInv, SubscribeSteps
  <2>2. /\ pushRow' \in [Instances -> {None} \cup [id : Ids, endpoint : Endpoints]]
        /\ pushRow'[i].id = id
        /\ \A j \in Instances \ {i} : pushRow'[j] = pushRow[j]
    BY <1>2, <1>4 DEF RowAfterUpsert, IInv, TypeOK
  <2>3. \A j \in Instances : pushRow[j] # None => pushRow[j].id # id
    BY <1>1 DEF IInv, SubscribeIdIsOwn, SubscribeSteps, HasId
  <2>4. TypeOK' /\ InstanceIndexed' /\ TopicsWereAsked'
    BY <1>1, <2>1, <2>2 DEF IInv, TypeOK, InstanceIndexed, TopicsWereAsked
  <2>5. RowIdsDiffer'
    BY <2>2, <2>3 DEF IInv, RowIdsDiffer
  <2>6. RowIsKnown'
    <3> SUFFICES ASSUME up, NEW j \in Instances, pushRow'[j] # None
                 PROVE  \/ subscriptions[pushRow'[j].id] = j
                        \/ \E p \in Requests : /\ request'[p].step \in {"resume", "delete"}
                                               /\ request'[p].id = pushRow'[j].id
      BY <1>1 DEF RowIsKnown
    <3>1. CASE j = i
      BY <2>1, <2>2, <3>1
    <3>2. CASE j # i
      BY <1>1, <2>1, <2>2, <3>2 DEF IInv, RowIsKnown
    <3> QED BY <3>1, <3>2
  <2>7. SubscribeIdIsOwn'
    BY <1>1, <2>1, <2>2 DEF IInv, SubscribeIdIsOwn, SubscribeSteps, HasId
  <2>8. HeldIdIsOwn' /\ TopicFirstInRow' /\ DownIsEmpty'
    BY <1>1, <2>1 DEF IInv, HeldIdIsOwn, TopicSteps, TopicFirstInRow, DownIsEmpty
  <2> QED BY <2>4, <2>5, <2>6, <2>7, <2>8 DEF IInv
<1> QED BY <1>3, <1>4 DEF UpsertPushSubscription

\* Memory learns the id of the request, which nothing else has.
LEMMA ResumesInv ==
  ASSUME IInv, NEW q \in Requests, SubscribeResumes(q)
  PROVE  IInv'
<1> USE DEF dbVars
<1> DEFINE i == request[q].instance
           id == request[q].id
<1>1. /\ request[q].step = "resume" /\ request[q].step \in SubscribeSteps /\ request[q] # Idle
      /\ subscriptions' = [subscriptions EXCEPT ![id] = i]
      /\ instanceSubscriptions' = [instanceSubscriptions EXCEPT ![i] = id]
      /\ Answer(q)
      /\ UNCHANGED <<up, topicSubscriptions, dbVars, failures>>
  BY DEF SubscribeResumes, SubscribeSteps, Idle
<1>2. i \in Instances /\ id \in Ids
  BY <1>1, RequestParameters DEF IInv
<1>3. /\ request' \in [Requests -> RequestStates]
      /\ request'[q] = Idle /\ request'[q].step = "idle"
      /\ \A p \in Requests \ {q} : request'[p] = request[p]
  BY <1>1, AnswerRequest DEF IInv
<1>4. /\ subscriptions[id] = None
      /\ \A t \in Topics : id \notin topicSubscriptions[t]
      /\ \A j \in Instances : HasId(j, id) => j = i
      /\ \A p \in Requests \ {q} : request[p] # Idle => request[p].id # id
  BY <1>1 DEF IInv, SubscribeIdIsOwn
<1>5. /\ subscriptions'[id] = i
      /\ \A k \in Ids \ {id} : subscriptions'[k] = subscriptions[k]
  BY <1>1, <1>2 DEF IInv, TypeOK
<1>6. TypeOK'
  BY <1>1, <1>2, <1>3 DEF IInv, TypeOK
<1>7. InstanceIndexed'
  BY <1>1, <1>2, <1>4, <1>5, ConstantsAssumption DEF IInv, TypeOK, InstanceIndexed
<1>8. TopicsWereAsked' /\ RowIdsDiffer'
  BY <1>1, <1>4, <1>5 DEF IInv, TypeOK, TopicsWereAsked, RowIdsDiffer
<1>9. RowIsKnown'
  <2> SUFFICES ASSUME up, NEW j \in Instances, pushRow[j] # None
               PROVE  \/ subscriptions'[pushRow[j].id] = j
                      \/ \E p \in Requests : /\ request'[p].step \in {"resume", "delete"}
                                             /\ request'[p].id = pushRow[j].id
    BY <1>1 DEF RowIsKnown
  <2>1. CASE pushRow[j].id = id
    BY <1>4, <1>5, <2>1 DEF HasId
  <2>2. CASE pushRow[j].id # id
    <3>1. pushRow[j].id \in Ids
      BY DEF IInv, TypeOK
    <3> QED BY <1>3, <1>5, <2>2, <3>1 DEF IInv, RowIsKnown
  <2> QED BY <2>1, <2>2
<1>10. \A p \in Requests \ {q} : request[p] # Idle => request[p].id \in Ids \ {id}
  BY <1>4, RequestParameters DEF IInv
<1>11. SubscribeIdIsOwn'
  BY <1>1, <1>3, <1>5, <1>10, RequestParameters
     DEF IInv, SubscribeIdIsOwn, SubscribeSteps, HasId
<1>12. HeldIdIsOwn'
  BY <1>3, <1>5, <1>10, RequestParameters DEF IInv, HeldIdIsOwn, TopicSteps
<1>13. TopicFirstInRow' /\ DownIsEmpty'
  BY <1>1, <1>3 DEF IInv, TopicFirstInRow, DownIsEmpty
<1> QED BY <1>6, <1>7, <1>8, <1>9, <1>11, <1>12, <1>13 DEF IInv

-----------------------------------------------------------------------------
(* Topics *)

\* A request that starts on an id which memory has for its instance.
LEMMA StartOnHeldId ==
  ASSUME IInv, NEW q \in Requests, NEW i \in Instances, NEW id \in Ids,
         up, request[q] = Idle, subscriptions[id] = i,
         request' \in [Requests -> RequestStates],
         request'[q].step \in TopicSteps \cup {"delete"},
         request'[q].instance = i, request'[q].id = id,
         \A p \in Requests \ {q} : request'[p] = request[p],
         UNCHANGED <<up, pushRow, topicRow>>,
         subscriptions' = subscriptions \/ subscriptions' = [subscriptions EXCEPT ![id] = None],
         \A t \in Topics : topicSubscriptions'[t] \subseteq topicSubscriptions[t],
         request'[q].step = "topicUpsert" => request'[q].topic \in Topics,
         request'[q].step # "topicResume"
  PROVE  SubscribeIdIsOwn' /\ HeldIdIsOwn' /\ TopicFirstInRow' /\ DownIsEmpty'
<1>1. subscriptions \in [Ids -> Instances \cup {None}]
  BY DEF IInv, TypeOK
<1>2. \A p \in Requests : request[p].step \in SubscribeSteps =>
        request[p].id # id /\ request[p].id \in Ids
  BY RequestParameters, ConstantsAssumption DEF IInv, SubscribeIdIsOwn
<1>3. request'[q].step \notin SubscribeSteps
  BY DEF SubscribeSteps, TopicSteps
<1>4. SubscribeIdIsOwn'
  BY <1>1, <1>2, <1>3 DEF IInv, SubscribeIdIsOwn, HasId
<1>5. HeldIdIsOwn'
  BY <1>1, RequestParameters DEF IInv, HeldIdIsOwn
<1>6. TopicFirstInRow'
  BY DEF IInv, TopicFirstInRow
<1>7. DownIsEmpty'
  BY DEF DownIsEmpty
<1> QED BY <1>4, <1>5, <1>6, <1>7

\* subscribeTopic goes on with the id that memory has for its instance.
LEMMA SubscribeTopicInv ==
  ASSUME IInv, NEW q \in Requests, NEW i \in Instances, NEW t \in Topics,
         SubscribeTopic(q, i, t)
  PROVE  IInv'
<1> USE DEF memVars, dbVars
<1> DEFINE id == instanceSubscriptions[i]
<1>1. /\ up /\ request[q] = Idle /\ request[q].step = "idle"
      /\ id \in Ids /\ subscriptions[id] = i
  BY DEF SubscribeTopic, MayStart, IInv, TypeOK, InstanceIndexed, Idle
<1>2. /\ request' \in [Requests -> RequestStates]
      /\ request'[q].step = "topicUpsert"
      /\ request'[q].instance = i /\ request'[q].id = id /\ request'[q].topic = t
      /\ \A p \in Requests \ {q} : request'[p] = request[p]
  BY <1>1 DEF SubscribeTopic, IInv, TypeOK, RequestStates, TopicSteps
<1>3. UNCHANGED <<up, memVars, dbVars, failures>>
  BY DEF SubscribeTopic
<1>4. TypeOK' /\ InstanceIndexed' /\ TopicsWereAsked' /\ RowIsKnown' /\ RowIdsDiffer'
  BY <1>1, <1>2, <1>3 DEF IInv, TypeOK, InstanceIndexed, TopicsWereAsked, RowIsKnown, RowIdsDiffer
<1>5. SubscribeIdIsOwn' /\ HeldIdIsOwn' /\ TopicFirstInRow' /\ DownIsEmpty'
  <2>1. request'[q].step \in TopicSteps \cup {"delete"} /\ request'[q].step # "topicResume"
    BY <1>2 DEF TopicSteps
  <2> QED BY <1>1, <1>2, <1>3, <2>1, StartOnHeldId
<1> QED BY <1>4, <1>5 DEF IInv

\* The database is told of the topic.
LEMMA UpsertTopicInv ==
  ASSUME IInv, NEW q \in Requests, UpsertTopicSubscription(q)
  PROVE  IInv'
<1> USE DEF memVars
<1> DEFINE i == request[q].instance
           t == request[q].topic
<1>1. /\ request[q].step = "topicUpsert" /\ request[q].step \in TopicSteps
      /\ topicRow' = [topicRow EXCEPT ![i][t] = "active"]
      /\ GoTo(q, "topicResume")
      /\ UNCHANGED <<up, memVars, instances, pushRow, failures>>
  BY DEF UpsertTopicSubscription, TopicSteps
<1>2. i \in Instances /\ t \in Topics
  BY <1>1, RequestParameters DEF IInv, TopicFirstInRow
<1>3. /\ request' \in [Requests -> RequestStates]
      /\ request'[q].step = "topicResume"
      /\ request'[q].instance = i /\ request'[q].id = request[q].id /\ request'[q].topic = t
      /\ request[q] # Idle /\ request'[q] # Idle
      /\ \A p \in Requests \ {q} : request'[p] = request[p]
  BY <1>1, GoToRequest DEF IInv, TopicSteps
<1>4. /\ topicRow' \in [Instances -> [Topics -> {"none", "active", "inactive"}]]
      /\ topicRow'[i][t] = "active"
      /\ \A j \in Instances, s \in Topics :
           topicRow'[j][s] = topicRow[j][s] \/ topicRow'[j][s] = "active"
  BY <1>1, <1>2 DEF IInv, TypeOK
<1>5. TypeOK' /\ InstanceIndexed' /\ RowIdsDiffer'
  BY <1>1, <1>3, <1>4 DEF IInv, TypeOK, InstanceIndexed, RowIdsDiffer
<1>6. TopicsWereAsked'
  BY <1>1, <1>4 DEF IInv, TypeOK, TopicsWereAsked
<1>7. SubscribeIdIsOwn'
  BY <1>1, <1>3 DEF IInv, SubscribeIdIsOwn, SubscribeSteps, HasId
<1>8. HeldIdIsOwn' /\ DownIsEmpty'
  BY <1>1, <1>3 DEF IInv, HeldIdIsOwn, TopicSteps, DownIsEmpty
<1>9. TopicFirstInRow'
  <2>1. SUFFICES ASSUME NEW p \in Requests,
                        request'[p].step \in {"topicUpsert", "topicResume"}
                 PROVE  /\ request'[p].topic \in Topics
                        /\ request'[p].step = "topicResume" =>
                             topicRow'[request'[p].instance][request'[p].topic] # "none"
    BY DEF TopicFirstInRow
  <2>2. CASE p = q
    BY <1>2, <1>3, <1>4, <2>2
  <2>3. CASE p # q
    <3>1. /\ request'[p] = request[p] /\ request[p].topic \in Topics
          /\ request[p].step = "topicResume" =>
               topicRow[request[p].instance][request[p].topic] # "none"
      BY <1>3, <2>1, <2>3 DEF IInv, TopicFirstInRow
    <3>2. request[p].instance \in Instances
      BY <2>1, <3>1, RequestParameters DEF IInv, TopicSteps
    <3> QED BY <1>4, <3>1, <3>2
  <2> QED BY <2>2, <2>3
<1>10. RowIsKnown'
  BY <1>1, <1>3 DEF IInv, RowIsKnown
<1> QED BY <1>5, <1>6, <1>7, <1>8, <1>9, <1>10 DEF IInv

\* Memory lists the id under the topic, whatever became of the id meanwhile.
LEMMA TopicResumesInv ==
  ASSUME IInv, NEW q \in Requests, SubscribeTopicResumes(q)
  PROVE  IInv'
<1> USE DEF dbVars
<1> DEFINE i == request[q].instance
           id == request[q].id
           t == request[q].topic
<1>1. /\ request[q].step = "topicResume" /\ request[q].step \in TopicSteps /\ request[q] # Idle
      /\ topicSubscriptions' = [topicSubscriptions EXCEPT ![t] = @ \cup {id}]
      /\ Answer(q)
      /\ UNCHANGED <<up, subscriptions, instanceSubscriptions, dbVars, failures>>
  BY DEF SubscribeTopicResumes, TopicSteps, Idle
<1>2. i \in Instances /\ id \in Ids /\ t \in Topics /\ topicRow[i][t] # "none"
  BY <1>1, RequestParameters DEF IInv, TopicFirstInRow
<1>3. /\ request' \in [Requests -> RequestStates]
      /\ request'[q] = Idle /\ request'[q].step = "idle"
      /\ \A p \in Requests \ {q} : request'[p] = request[p]
  BY <1>1, AnswerRequest DEF IInv
<1>4. /\ topicSubscriptions' \in [Topics -> SUBSET Ids]
      /\ \A s \in Topics, k \in Ids :
           k \in topicSubscriptions'[s] => k \in topicSubscriptions[s] \/ (s = t /\ k = id)
  BY <1>1, <1>2 DEF IInv, TypeOK
<1>5. TypeOK' /\ InstanceIndexed' /\ RowIsKnown' /\ RowIdsDiffer'
  BY <1>1, <1>3, <1>4 DEF IInv, TypeOK, InstanceIndexed, RowIsKnown, RowIdsDiffer
<1>6. TopicsWereAsked'
  <2>1. subscriptions[id] \in {None, i}
    BY <1>1 DEF IInv, HeldIdIsOwn
  <2>2. \A s \in Topics : \A k \in topicSubscriptions'[s] :
          k \in topicSubscriptions[s] \/ (s = t /\ k = id)
    BY <1>4
  <2> QED BY <1>1, <1>2, <2>1, <2>2 DEF IInv, TopicsWereAsked
<1>7. SubscribeIdIsOwn'
  <2>1. \A p \in Requests : request[p].step \in SubscribeSteps =>
          request[p].id # id /\ request[p].id \in Ids
    BY <1>1, RequestParameters DEF IInv, SubscribeIdIsOwn, SubscribeSteps
  <2> QED BY <1>1, <1>3, <1>4, <2>1 DEF IInv, SubscribeIdIsOwn, SubscribeSteps, HasId
<1>8. HeldIdIsOwn' /\ TopicFirstInRow' /\ DownIsEmpty'
  BY <1>1, <1>3 DEF IInv, HeldIdIsOwn, TopicSteps, TopicFirstInRow, DownIsEmpty
<1> QED BY <1>5, <1>6, <1>7, <1>8 DEF IInv

\* unsubscribeTopic takes the id out of a topic, or of none.
LEMMA UnsubscribeTopicInv ==
  ASSUME IInv, NEW q \in Requests, NEW id \in Ids, NEW t \in Topics \cup {None},
         UnsubscribeTopic(q, id, t)
  PROVE  IInv'
<1> USE DEF dbVars
<1> DEFINE i == subscriptions[id]
<1>1. up /\ request[q] = Idle /\ request[q].step = "idle" /\ i \in Instances
  BY DEF UnsubscribeTopic, MayStart, IInv, TypeOK, Idle
<1>2. /\ request' \in [Requests -> RequestStates]
      /\ request'[q].step = "topicDeactivate"
      /\ request'[q].instance = i /\ request'[q].id = id
      /\ \A p \in Requests \ {q} : request'[p] = request[p]
  BY <1>1 DEF UnsubscribeTopic, IInv, TypeOK, RequestStates, TopicSteps
<1>3. /\ UNCHANGED <<up, subscriptions, instanceSubscriptions, dbVars, failures>>
      /\ topicSubscriptions' \in [Topics -> SUBSET Ids]
      /\ \A s \in Topics : topicSubscriptions'[s] \subseteq topicSubscriptions[s]
  BY DEF UnsubscribeTopic, IInv, TypeOK
<1>4. TypeOK' /\ InstanceIndexed' /\ RowIsKnown' /\ RowIdsDiffer'
  BY <1>1, <1>2, <1>3 DEF IInv, TypeOK, InstanceIndexed, RowIsKnown, RowIdsDiffer
<1>5. TopicsWereAsked'
  BY <1>3 DEF IInv, TopicsWereAsked
<1>6. SubscribeIdIsOwn' /\ HeldIdIsOwn' /\ TopicFirstInRow' /\ DownIsEmpty'
  <2>1. /\ request'[q].step \in TopicSteps \cup {"delete"}
        /\ request'[q].step \notin {"topicUpsert", "topicResume"}
    BY <1>2 DEF TopicSteps
  <2> QED BY <1>1, <1>2, <1>3, <2>1, StartOnHeldId
<1> QED BY <1>4, <1>5, <1>6 DEF IInv

\* The row of the topic becomes inactive, or the rejection ends the process.
LEMMA DeactivateInv ==
  ASSUME IInv, NEW q \in Requests, DeactivateTopic(q)
  PROVE  IInv'
<1> DEFINE i == request[q].instance
           t == request[q].topic
<1>1. request[q].step = "topicDeactivate" /\ request[q].step \in TopicSteps
  BY DEF DeactivateTopic, TopicSteps
<1>2. failures' \in Nat /\ UNCHANGED <<instances, pushRow>>
  BY DEF DeactivateTopic, IInv, TypeOK
<1>3. CASE ProcessEnds /\ UNCHANGED topicRow
  BY <1>2, <1>3, ProcessEndsInv
<1>4. CASE /\ t # None
           /\ topicRow' = [topicRow EXCEPT ![i][t] = "inactive"]
           /\ Answer(q)
           /\ UNCHANGED <<up, memVars>>
  <2> USE DEF memVars
  <2>1. i \in Instances /\ t \in Topics
    BY <1>1, <1>4, RequestParameters DEF IInv
  <2>2. /\ request' \in [Requests -> RequestStates]
        /\ request'[q] = Idle /\ request'[q].step = "idle"
        /\ \A p \in Requests \ {q} : request'[p] = request[p]
    BY <1>4, AnswerRequest DEF IInv
  <2>3. /\ topicRow' \in [Instances -> [Topics -> {"none", "active", "inactive"}]]
        /\ \A j \in Instances, s \in Topics :
             topicRow'[j][s] = topicRow[j][s] \/ topicRow'[j][s] = "inactive"
    BY <1>4, <2>1 DEF IInv, TypeOK
  <2>4. TypeOK' /\ InstanceIndexed' /\ RowIsKnown' /\ RowIdsDiffer'
    BY <1>1, <1>2, <1>4, <2>2, <2>3 DEF IInv, TypeOK, InstanceIndexed, RowIsKnown, RowIdsDiffer
  <2>5. TopicsWereAsked'
    BY <1>4, <2>3 DEF IInv, TypeOK, TopicsWereAsked
  <2>6. SubscribeIdIsOwn' /\ HeldIdIsOwn' /\ DownIsEmpty'
    BY <1>2, <1>4, <2>2 DEF IInv, SubscribeIdIsOwn, SubscribeSteps, HasId, HeldIdIsOwn,
       TopicSteps, DownIsEmpty
  <2>7. TopicFirstInRow'
    BY <2>2, <2>3, RequestParameters DEF IInv, TopicFirstInRow, TopicSteps
  <2> QED BY <2>4, <2>5, <2>6, <2>7 DEF IInv
<1> QED BY <1>3, <1>4 DEF DeactivateTopic

-----------------------------------------------------------------------------
(* Unsubscribing, and the process *)

\* unsubscribe empties the maps first; the row is known to the request until
\* the database has deleted it.
LEMMA UnsubscribeInv ==
  ASSUME IInv, NEW q \in Requests, NEW i \in Instances, Unsubscribe(q, i)
  PROVE  IInv'
<1> USE DEF dbVars
<1> DEFINE id == instanceSubscriptions[i]
<1>1. /\ up /\ request[q] = Idle /\ request[q].step = "idle"
      /\ id \in Ids /\ subscriptions[id] = i
  BY DEF Unsubscribe, MayStart, IInv, TypeOK, InstanceIndexed, Idle
<1>2. /\ request' \in [Requests -> RequestStates]
      /\ request'[q].step = "delete"
      /\ request'[q].instance = i /\ request'[q].id = id
      /\ \A p \in Requests \ {q} : request'[p] = request[p]
  BY <1>1 DEF Unsubscribe, IInv, TypeOK, RequestStates
<1>3. /\ UNCHANGED <<up, dbVars, failures>>
      /\ subscriptions' = [subscriptions EXCEPT ![id] = None]
      /\ instanceSubscriptions' = [instanceSubscriptions EXCEPT ![i] = None]
      /\ topicSubscriptions' \in [Topics -> SUBSET Ids]
      /\ \A s \in Topics : topicSubscriptions'[s] = topicSubscriptions[s] \ {id}
  BY DEF Unsubscribe, WithoutInstance, WithoutTopics, IInv, TypeOK
<1>4. TypeOK' /\ InstanceIndexed' /\ TopicsWereAsked' /\ RowIdsDiffer'
  <2>1. TypeOK' /\ RowIdsDiffer'
    BY <1>2, <1>3 DEF IInv, TypeOK, RowIdsDiffer
  <2>2. \A j \in Instances \ {i} : instanceSubscriptions[j] # None =>
          instanceSubscriptions[j] \in Ids \ {id}
    BY <1>1 DEF IInv, TypeOK, InstanceIndexed
  <2>3. InstanceIndexed'
    BY <1>3, <2>2 DEF IInv, TypeOK, InstanceIndexed
  <2>4. TopicsWereAsked'
    BY <1>1, <1>3 DEF IInv, TypeOK, TopicsWereAsked
  <2> QED BY <2>1, <2>3, <2>4
<1>5. RowIsKnown'
  <2> SUFFICES ASSUME NEW j \in Instances, pushRow[j] # None
               PROVE  \/ subscriptions'[pushRow[j].id] = j
                      \/ \E p \in Requests : /\ request'[p].step \in {"resume", "delete"}
                                             /\ request'[p].id = pushRow[j].id
    BY <1>3 DEF RowIsKnown
  <2>1. CASE pushRow[j].id = id
    BY <1>2, <2>1
  <2>2. CASE pushRow[j].id # id
    <3>1. pushRow[j].id \in Ids
      BY DEF IInv, TypeOK
    <3>2. subscriptions'[pushRow[j].id] = subscriptions[pushRow[j].id]
      BY <1>3, <2>2, <3>1 DEF IInv, TypeOK
    <3> QED BY <1>1, <1>2, <3>2 DEF IInv, RowIsKnown
  <2> QED BY <2>1, <2>2
<1>6. SubscribeIdIsOwn' /\ HeldIdIsOwn' /\ TopicFirstInRow' /\ DownIsEmpty'
  BY <1>1, <1>2, <1>3, StartOnHeldId
<1> QED BY <1>4, <1>5, <1>6 DEF IInv

\* The row goes, or the rejection ends the process.
LEMMA DeleteInv ==
  ASSUME IInv, NEW q \in Requests, DeletePushSubscription(q)
  PROVE  IInv'
<1> DEFINE i == request[q].instance
           id == request[q].id
<1>1. request[q].step = "delete" /\ failures' \in Nat /\ UNCHANGED <<instances, topicRow>>
  BY DEF DeletePushSubscription, IInv, TypeOK
<1>2. CASE ProcessEnds /\ UNCHANGED pushRow
  BY <1>1, <1>2, ProcessEndsInv
<1>3. CASE /\ HasId(i, id)
           /\ pushRow' = [pushRow EXCEPT ![i] = None]
           /\ Answer(q)
           /\ UNCHANGED <<up, memVars>>
  <2> USE DEF memVars
  <2>1. i \in Instances /\ pushRow[i] # None /\ pushRow[i].id = id
    BY <1>1, <1>3, RequestParameters DEF IInv, HasId
  <2>2. /\ request' \in [Requests -> RequestStates]
        /\ request'[q] = Idle /\ request'[q].step = "idle"
        /\ \A p \in Requests \ {q} : request'[p] = request[p]
    BY <1>3, AnswerRequest DEF IInv
  <2>3. /\ pushRow' \in [Instances -> {None} \cup [id : Ids, endpoint : Endpoints]]
        /\ \A j \in Instances : pushRow'[j] # None => j # i /\ pushRow'[j] = pushRow[j]
    BY <1>3, <2>1 DEF IInv, TypeOK
  <2>4. TypeOK' /\ InstanceIndexed' /\ TopicsWereAsked'
    BY <1>1, <1>3, <2>2, <2>3 DEF IInv, TypeOK, InstanceIndexed, TopicsWereAsked
  <2>5. RowIdsDiffer'
    BY <2>3 DEF IInv, RowIdsDiffer
  <2>6. RowIsKnown'
    <3>1. \A j \in Instances : pushRow'[j] # None => pushRow[j].id # id
      BY <2>1, <2>3 DEF IInv, RowIdsDiffer
    <3> QED BY <1>3, <2>2, <2>3, <3>1 DEF IInv, RowIsKnown
  <2>7. SubscribeIdIsOwn'
    BY <1>3, <2>2, <2>3 DEF IInv, SubscribeIdIsOwn, SubscribeSteps, HasId
  <2>8. HeldIdIsOwn' /\ TopicFirstInRow' /\ DownIsEmpty'
    BY <1>1, <1>3, <2>2 DEF IInv, HeldIdIsOwn, TopicSteps, TopicFirstInRow, DownIsEmpty
  <2> QED BY <2>4, <2>5, <2>6, <2>7, <2>8 DEF IInv
<1> QED BY <1>2, <1>3 DEF DeletePushSubscription

\* The ids of the rows differ, so that each row is known under its instance.
LEMMA StartInv ==
  ASSUME IInv, Start
  PROVE  IInv'
<1> USE DEF dbVars
<1>1. /\ ~up /\ up'
      /\ subscriptions' = [id \in Ids |-> RowOwner(id)]
      /\ UNCHANGED <<instanceSubscriptions, topicSubscriptions, dbVars, request, failures>>
  BY DEF Start
<1>2. /\ \A i \in Instances : instanceSubscriptions[i] = None
      /\ \A t \in Topics : topicSubscriptions[t] = {}
      /\ \A q \in Requests : request[q] = Idle /\ request[q].step = "idle"
  BY <1>1 DEF IInv, DownIsEmpty, Idle
<1>3. \A id \in Ids : RowOwner(id) \in Instances \cup {None}
  BY DEF RowOwner
<1>4. \A i \in Instances : pushRow[i] # None =>
        pushRow[i].id \in Ids /\ RowOwner(pushRow[i].id) = i
  BY DEF RowOwner, HasId, IInv, TypeOK, RowIdsDiffer
<1>5. TypeOK'
  BY <1>1, <1>3 DEF IInv, TypeOK
<1>6. InstanceIndexed' /\ TopicsWereAsked' /\ RowIsKnown' /\ RowIdsDiffer'
  BY <1>1, <1>2, <1>4 DEF IInv, InstanceIndexed, TopicsWereAsked, RowIsKnown, RowIdsDiffer
<1>7. SubscribeIdIsOwn' /\ HeldIdIsOwn' /\ TopicFirstInRow' /\ DownIsEmpty'
  BY <1>1, <1>2 DEF SubscribeIdIsOwn, SubscribeSteps, HeldIdIsOwn, TopicSteps, TopicFirstInRow,
     DownIsEmpty
<1> QED BY <1>5, <1>6, <1>7 DEF IInv

\* A failed statement is answered, or ends the process; so does a crash.
LEMMA FailureInv ==
  ASSUME IInv, Crash \/ \E q \in Requests : StatementFails(q)
  PROVE  IInv'
<1>1. failures' \in Nat /\ UNCHANGED <<instances, pushRow, topicRow>>
  BY DEF Crash, StatementFails, dbVars, IInv, TypeOK
<1>2. CASE Crash
  BY <1>1, <1>2, ProcessEndsInv DEF Crash
<1>3. CASE \E q \in Requests : StatementFails(q)
  <2> PICK q \in Requests : StatementFails(q)
    BY <1>3
  <2>1. CASE ProcessEnds
    BY <1>1, <2>1, ProcessEndsInv
  <2>2. CASE /\ request[q].step \in {"upsert", "topicUpsert"}
             /\ UpsertFails(q)
             /\ UNCHANGED <<up, memVars>>
    BY <1>1, <2>2, AnswerInv DEF UpsertFails
  <2> QED BY <2>1, <2>2 DEF StatementFails
<1> QED BY <1>2, <1>3

-----------------------------------------------------------------------------

LEMMA NextInv == IInv /\ [Next]_vars => IInv'
<1> SUFFICES ASSUME IInv, [Next]_vars PROVE IInv'
  OBVIOUS
<1>1. CASE UNCHANGED vars
  <2> USE <1>1 DEF vars, memVars, dbVars
  <2>1. TypeOK' /\ InstanceIndexed' /\ TopicsWereAsked' /\ RowIsKnown' /\ RowIdsDiffer'
    BY DEF IInv, TypeOK, InstanceIndexed, TopicsWereAsked, RowIsKnown, RowIdsDiffer
  <2>2. SubscribeIdIsOwn' /\ HeldIdIsOwn' /\ TopicFirstInRow' /\ DownIsEmpty'
    BY DEF IInv, SubscribeIdIsOwn, HasId, HeldIdIsOwn, TopicFirstInRow, DownIsEmpty
  <2> QED BY <2>1, <2>2 DEF IInv
<1>2. CASE Start
  BY <1>2, StartInv
<1>3. CASE Crash
  BY <1>3, FailureInv
<1>4. CASE \E q \in Requests : RequestStep(q)
  <2> PICK q \in Requests : RequestStep(q)
    BY <1>4
  <2>1. CASE \E i \in Instances, id \in Ids, e \in Endpoints : Subscribe(q, i, id, e)
    BY <2>1, SubscribeInv
  <2>2. CASE RegisterExtension(q) \/ UpsertPushSubscription(q) \/ SubscribeResumes(q)
    BY <2>2, RegisterInv, UpsertInv, ResumesInv
  <2>3. CASE \E i \in Instances, t \in Topics : SubscribeTopic(q, i, t)
    BY <2>3, SubscribeTopicInv
  <2>4. CASE UpsertTopicSubscription(q) \/ SubscribeTopicResumes(q)
    BY <2>4, UpsertTopicInv, TopicResumesInv
  <2>5. CASE \E id \in Ids, t \in Topics \cup {None} : UnsubscribeTopic(q, id, t)
    BY <2>5, UnsubscribeTopicInv
  <2>6. CASE DeactivateTopic(q) \/ DeletePushSubscription(q)
    BY <2>6, DeactivateInv, DeleteInv
  <2>7. CASE \E i \in Instances : Unsubscribe(q, i)
    BY <2>7, UnsubscribeInv
  <2>8. CASE StatementFails(q)
    BY <2>8, FailureInv
  <2> QED BY <2>1, <2>2, <2>3, <2>4, <2>5, <2>6, <2>7, <2>8 DEF RequestStep
<1>5. CASE TopicThrows
  BY <1>5, ProcessEndsInv DEF TopicThrows, dbVars, IInv, TypeOK
<1> QED BY <1>1, <1>2, <1>3, <1>4, <1>5 DEF Next, StringsNext

-----------------------------------------------------------------------------

\* The inductive invariant of the push subscriptions.
THEOREM Invariance == Spec => []IInv
<1>1. Init => IInv
  BY InitInv
<1>2. IInv /\ [Next]_vars => IInv'
  BY NextInv
<1> QED BY <1>1, <1>2, PTL DEF Spec

\* Every table, map and request keeps its type.
THEOREM TypeCorrect == Spec => []TypeOK
<1>1. IInv => TypeOK
  BY DEF IInv
<1> QED BY <1>1, Invariance, PTL

\* What DELETE /subscription/:instanceId removes is the caller's own, for any
\* number of overlapping requests.
THEOREM InstancesAreIndexed == Spec => []InstanceIndexed
<1>1. IInv => InstanceIndexed
  BY DEF IInv
<1> QED BY <1>1, Invariance, PTL

\* A topic that memory lists for a subscription is in the database for its
\* instance, for any number of overlapping requests and failures.
THEOREM ListedTopicsWereAsked == Spec => []TopicsWereAsked
<1>1. IInv => TopicsWereAsked
  BY DEF IInv
<1> QED BY <1>1, Invariance, PTL

\* A stored subscription is known to memory under its instance, or a request
\* on its way is about to make it so, or to delete it; over restarts too.
THEOREM RowsAreKnown == Spec => []RowIsKnown
<1>1. IInv => RowIsKnown
  BY DEF IInv
<1> QED BY <1>1, Invariance, PTL

-----------------------------------------------------------------------------
(* Clients that await their answers: AwaitedInv is inductive beside IInv.   *)

\* An instance has at most one request that is not answered.
OneUnanswered ==
  \A p, q \in Requests :
    request[p].step \in AwaitedSteps /\ request[q].step \in AwaitedSteps
      /\ request[p].instance = request[q].instance => p = q

\* One that is not exposed has at most one request in progress.
OneRequestEach ==
  \A p, q \in Requests :
    request[p] # Idle /\ request[q] # Idle /\ request[p].instance = request[q].instance
      /\ request[p].instance \notin exposed => p = q

\* Memory has for an instance the id of its row, but while the row has a new
\* one that memory does not know yet.
MemoryHasRowId ==
  \A i \in Instances : instanceSubscriptions[i] # None =>
    \/ HasId(i, instanceSubscriptions[i])
    \/ \E q \in Requests : request[q].step = "resume" /\ request[q].instance = i

\* The topics that memory has for an instance that is not exposed are active in
\* the database.
ListedTopicsAreActive ==
  \A i \in Instances \ exposed, t \in Topics :
    instanceSubscriptions[i] # None /\ instanceSubscriptions[i] \in topicSubscriptions[t] =>
      topicRow[i][t] = "active"

\* The ids that topics list are known.
ListedIdsAreKnown ==
  \A t \in Topics : \A id \in topicSubscriptions[t] : subscriptions[id] # None

\* What a request in progress may rely on, whatever overlaps with it,
Needs(q) ==
  LET i == request[q].instance
      id == request[q].id
  IN  /\ request[q].step = "resume" => HasId(i, id)
      /\ request[q].step \in {"topicUpsert", "topicResume"} => subscriptions[id] = i
      /\ request[q].step = "delete" => instanceSubscriptions[i] # id

\* and what it may rely on besides while its instance is not exposed.
ReliesOn(q) ==
  LET i == request[q].instance
      id == request[q].id
      t == request[q].topic
  IN  i \notin exposed =>
        /\ request[q].step \in {"topicDeactivate", "delete"} => HasId(i, id)
        /\ request[q].step = "topicResume" => topicRow[i][t] = "active"
        /\ request[q].step = "topicDeactivate" =>
             t # None /\ id \notin topicSubscriptions[t]

RequestsRelyOn == \A q \in Requests : Needs(q) /\ ReliesOn(q)

AwaitedInv ==
  /\ OneUnanswered
  /\ OneRequestEach
  /\ MemoryHasRowId
  /\ ListedTopicsAreActive
  /\ ListedIdsAreKnown
  /\ RequestsRelyOn

\* Nothing is stored, and the process is down.
LEMMA AwaitedInit == Init => AwaitedInv
<1> SUFFICES ASSUME Init PROVE AwaitedInv
  OBVIOUS
<1>1. \A q \in Requests : request[q] = Idle /\ request[q].step = "idle"
  BY DEF Init, Idle
<1>2. /\ OneUnanswered /\ OneRequestEach /\ MemoryHasRowId
      /\ ListedTopicsAreActive /\ ListedIdsAreKnown
  BY <1>1 DEF Init, OneUnanswered, AwaitedSteps, SubscribeSteps, OneRequestEach, MemoryHasRowId,
     ListedTopicsAreActive, ListedIdsAreKnown
<1>3. RequestsRelyOn
  BY <1>1 DEF RequestsRelyOn, Needs, ReliesOn
<1> QED BY <1>2, <1>3 DEF AwaitedInv

\* Nothing is in memory, and no request in progress: after the process ended,
\* and after it started again.
LEMMA EmptyAwaited ==
  ASSUME \A q \in Requests : request'[q] = Idle,
         \A i \in Instances : instanceSubscriptions'[i] = None,
         \A t \in Topics : topicSubscriptions'[t] = {}
  PROVE  AwaitedInv'
<1>1. \A q \in Requests : request'[q] = Idle /\ request'[q].step = "idle"
  BY DEF Idle
<1>2. /\ OneUnanswered' /\ OneRequestEach' /\ MemoryHasRowId'
      /\ ListedTopicsAreActive' /\ ListedIdsAreKnown'
  BY <1>1 DEF OneUnanswered, AwaitedSteps, SubscribeSteps, OneRequestEach, MemoryHasRowId,
     ListedTopicsAreActive, ListedIdsAreKnown
<1>3. RequestsRelyOn'
  BY <1>1 DEF RequestsRelyOn, Needs, ReliesOn
<1> QED BY <1>2, <1>3 DEF AwaitedInv

LEMMA ProcessEndsAwaited ==
  ASSUME ProcessEnds
  PROVE  AwaitedInv'
<1>1. /\ \A q \in Requests : request'[q] = Idle
      /\ \A i \in Instances : instanceSubscriptions'[i] = None
      /\ \A t \in Topics : topicSubscriptions'[t] = {}
  BY DEF ProcessEnds
<1> QED BY <1>1, EmptyAwaited

-----------------------------------------------------------------------------
(* The history of the clients.                                             *)

\* A request that starts without exposing its instance finds nothing pending.
LEMMA Unexposed ==
  ASSUME ExposedGrows, NEW q \in Requests, Starts(q)
  PROVE  /\ exposed \subseteq exposed'
         /\ request'[q].instance \notin exposed' =>
              /\ ~InProgress(request'[q].instance)
              /\ request'[q].step = "topicDeactivate" =>
                   HasId(request'[q].instance, request'[q].id) /\ request'[q].topic # None
<1>1. exposed \subseteq exposed'
  BY DEF ExposedGrows
<1>2. request'[q].instance \notin exposed' => ~Exposes(q)
  BY DEF ExposedGrows
<1>3. Exposes(q) \/ (/\ ~InProgress(request'[q].instance)
                     /\ request'[q].step = "topicDeactivate" =>
                          HasId(request'[q].instance, request'[q].id) /\ request'[q].topic # None)
  BY DEF Exposes
<1> QED BY <1>1, <1>2, <1>3

\* Requests that go on or end expose nobody.
LEMMA NobodyExposed ==
  ASSUME ExposedGrows, \A q \in Requests : request[q] = Idle => request'[q] = Idle
  PROVE  exposed' = exposed
<1>1. \A q \in Requests : ~Exposes(q)
  BY DEF Exposes, Starts
<1> QED BY <1>1 DEF ExposedGrows

-----------------------------------------------------------------------------
(* What the requests rely on.                                              *)

\* The other requests are those of other instances or of exposed ones, and rely
\* on what is not touched.
LEMMA OthersRely ==
  ASSUME IInv, AwaitedInv, NEW p \in Requests, request'[p] = request[p],
         exposed \subseteq exposed',
         NEW i \in Instances,
         request[p] # Idle /\ request[p].instance \notin exposed' => request[p].instance # i,
         \A j \in Instances : j # i => pushRow'[j] = pushRow[j] /\ topicRow'[j] = topicRow[j],
         \A t \in Topics : \A id \in topicSubscriptions'[t] :
           id \in topicSubscriptions[t] \/ subscriptions[id] = i
  PROVE  ReliesOn(p)'
<1> DEFINE j == request[p].instance
           id == request[p].id
           t == request[p].topic
<1> SUFFICES ASSUME j \notin exposed'
             PROVE  /\ request[p].step \in {"topicDeactivate", "delete"} => HasId(j, id)'
                    /\ request[p].step = "topicResume" => topicRow'[j][t] = "active"
                    /\ request[p].step = "topicDeactivate" =>
                         t # None /\ id \notin topicSubscriptions'[t]
  BY DEF ReliesOn, HasId
<1>1. CASE request[p].step \in TopicSteps \cup {"delete"}
  <2>1. request[p] # Idle /\ j \in Instances /\ j # i /\ id \in Ids
    BY <1>1, RequestParameters DEF IInv
  <2>2. request[p].step \in TopicSteps => t \in Topics \cup {None}
    BY <1>1, RequestParameters DEF IInv
  <2>3. /\ request[p].step \in {"topicDeactivate", "delete"} => HasId(j, id)
        /\ request[p].step = "topicResume" => topicRow[j][t] = "active"
        /\ request[p].step = "topicDeactivate" => t # None /\ id \notin topicSubscriptions[t]
    BY DEF AwaitedInv, RequestsRelyOn, ReliesOn
  <2>4. pushRow'[j] = pushRow[j] /\ topicRow'[j] = topicRow[j]
    BY <2>1
  <2>5. request[p].step \in {"topicDeactivate", "delete"} => HasId(j, id)'
    BY <2>3, <2>4 DEF HasId
  <2>6. request[p].step = "topicResume" => topicRow'[j][t] = "active"
    BY <2>3, <2>4
  <2>7. request[p].step = "topicDeactivate" => t # None /\ id \notin topicSubscriptions'[t]
    <3>1. request[p].step = "topicDeactivate" => subscriptions[id] # i
      BY <2>1, ConstantsAssumption DEF IInv, HeldIdIsOwn, TopicSteps
    <3>2. CASE request[p].step = "topicDeactivate"
      BY <2>2, <2>3, <3>1, <3>2 DEF TopicSteps
    <3> QED BY <3>2
  <2> QED BY <2>5, <2>6, <2>7
<1>2. CASE request[p].step \notin TopicSteps \cup {"delete"}
  BY <1>2 DEF TopicSteps
<1> QED BY <1>1, <1>2

\* A request starts on an instance that awaits no answer: what is not about
\* that instance stays as it is.
LEMMA StartAwaited ==
  ASSUME IInv, AwaitedInv, ExposedGrows, NEW q \in Requests, NEW i \in Instances,
         request[q] = Idle, ~AwaitsAnswer(i),
         request'[q] # Idle, request'[q].instance = i,
         \A p \in Requests \ {q} : request'[p] = request[p],
         UNCHANGED dbVars,
         \A id \in Ids : subscriptions[id] \notin {None, i} => subscriptions'[id] = subscriptions[id],
         \A t \in Topics : topicSubscriptions'[t] \subseteq topicSubscriptions[t],
         \A j \in Instances : instanceSubscriptions'[j] \in {None, instanceSubscriptions[j]}
  PROVE  /\ OneUnanswered'
         /\ OneRequestEach'
         /\ MemoryHasRowId'
         /\ ListedTopicsAreActive'
         /\ Needs(q)' /\ ReliesOn(q)' => RequestsRelyOn'
<1> USE DEF dbVars
<1>1. \A p \in Requests : request[p].step \in AwaitedSteps => request[p].instance # i
  BY DEF AwaitsAnswer
<1>2. request[q].step = "idle"
  BY DEF Idle
<1>3. Starts(q)
  BY DEF Starts
<1>4. exposed \subseteq exposed' /\ (i \notin exposed' => ~InProgress(i))
  BY <1>3, Unexposed
<1>5. OneUnanswered'
  BY <1>1 DEF AwaitedInv, OneUnanswered
<1>6. OneRequestEach'
  <2>1. \A p \in Requests : request[p] # Idle /\ i \notin exposed' => request[p].instance # i
    BY <1>4 DEF InProgress
  <2> QED BY <1>4, <2>1 DEF AwaitedInv, OneRequestEach
<1>7. MemoryHasRowId'
  BY <1>2 DEF AwaitedInv, MemoryHasRowId, HasId
<1>8. ListedTopicsAreActive'
  BY <1>4 DEF AwaitedInv, ListedTopicsAreActive
<1>9. ASSUME NEW p \in Requests \ {q} PROVE Needs(p)'
  <2>1. request'[p] = request[p] /\ Needs(p)
    BY DEF AwaitedInv, RequestsRelyOn
  <2>2. request[p].step = "resume" => HasId(request[p].instance, request[p].id)'
    BY <2>1 DEF Needs, HasId
  <2>3. request[p].step \in {"topicUpsert", "topicResume"} =>
          subscriptions'[request[p].id] = request[p].instance
    <3> SUFFICES ASSUME request[p].step \in {"topicUpsert", "topicResume"}
                 PROVE  subscriptions'[request[p].id] = request[p].instance
      OBVIOUS
    <3>1. request[p].id \in Ids /\ request[p].instance \in Instances
      BY RequestParameters DEF IInv, TopicSteps
    <3>2. subscriptions[request[p].id] = request[p].instance /\ request[p].instance # i
      BY <1>1, <2>1 DEF Needs, AwaitedSteps
    <3> QED BY <3>1, <3>2, ConstantsAssumption
  <2>4. request[p].step = "delete" =>
          instanceSubscriptions'[request[p].instance] # request[p].id
    <3> SUFFICES ASSUME request[p].step = "delete"
                 PROVE  instanceSubscriptions'[request[p].instance] # request[p].id
      OBVIOUS
    <3>1. request[p].id \in Ids /\ request[p].instance \in Instances
      BY RequestParameters DEF IInv
    <3>2. instanceSubscriptions[request[p].instance] # request[p].id
      BY <2>1 DEF Needs
    <3> QED BY <3>1, <3>2, ConstantsAssumption
  <2> QED BY <2>1, <2>2, <2>3, <2>4 DEF Needs, HasId
<1>10. ASSUME NEW p \in Requests \ {q} PROVE ReliesOn(p)'
  <2>1. request[p] # Idle /\ request[p].instance \notin exposed' => request[p].instance # i
    BY <1>4 DEF InProgress
  <2>2. \A t \in Topics : \A id \in topicSubscriptions'[t] :
          id \in topicSubscriptions[t] \/ subscriptions[id] = i
    OBVIOUS
  <2> QED BY <1>4, <2>1, <2>2, OthersRely
<1> QED BY <1>5, <1>6, <1>7, <1>8, <1>9, <1>10 DEF RequestsRelyOn

LEMMA SubscribeAwaited ==
  ASSUME IInv, AwaitedInv, Awaited, ExposedGrows, NEW q \in Requests, NEW i \in Instances,
         NEW id \in Ids, NEW e \in Endpoints, Subscribe(q, i, id, e)
  PROVE  AwaitedInv'
<1> USE DEF memVars
<1>1. /\ request[q] = Idle
      /\ request'[q] # Idle /\ request'[q].step = "register" /\ request'[q].instance = i
      /\ \A p \in Requests \ {q} : request'[p] = request[p]
      /\ UNCHANGED <<up, memVars, dbVars, failures>>
  BY DEF Subscribe, MayStart, IInv, TypeOK, Idle
<1>2. ~AwaitsAnswer(i)
  BY <1>1 DEF Awaited, Starts
<1>3. Needs(q)' /\ ReliesOn(q)'
  BY <1>1 DEF Needs, ReliesOn
<1>4. OneUnanswered' /\ OneRequestEach' /\ MemoryHasRowId' /\ ListedTopicsAreActive' /\ RequestsRelyOn'
  BY <1>1, <1>2, <1>3, StartAwaited
<1>5. ListedIdsAreKnown'
  BY <1>1 DEF AwaitedInv, ListedIdsAreKnown
<1> QED BY <1>4, <1>5 DEF AwaitedInv

LEMMA SubscribeTopicAwaited ==
  ASSUME IInv, AwaitedInv, Awaited, ExposedGrows, NEW q \in Requests, NEW i \in Instances,
         NEW t \in Topics, SubscribeTopic(q, i, t)
  PROVE  AwaitedInv'
<1> USE DEF memVars
<1>1. /\ request[q] = Idle
      /\ request'[q] # Idle /\ request'[q].step = "topicUpsert" /\ request'[q].instance = i
      /\ request'[q].id = instanceSubscriptions[i]
      /\ \A p \in Requests \ {q} : request'[p] = request[p]
      /\ UNCHANGED <<up, memVars, dbVars, failures>>
  BY DEF SubscribeTopic, MayStart, IInv, TypeOK, Idle
<1>2. ~AwaitsAnswer(i)
  BY <1>1 DEF Awaited, Starts
<1>3. subscriptions[instanceSubscriptions[i]] = i
  BY DEF SubscribeTopic, IInv, InstanceIndexed
<1>4. Needs(q)' /\ ReliesOn(q)'
  BY <1>1, <1>3 DEF Needs, ReliesOn
<1>5. OneUnanswered' /\ OneRequestEach' /\ MemoryHasRowId' /\ ListedTopicsAreActive' /\ RequestsRelyOn'
  BY <1>1, <1>2, <1>4, StartAwaited
<1>6. ListedIdsAreKnown'
  BY <1>1 DEF AwaitedInv, ListedIdsAreKnown
<1> QED BY <1>5, <1>6 DEF AwaitedInv

LEMMA UnsubscribeTopicAwaited ==
  ASSUME IInv, AwaitedInv, Awaited, ExposedGrows, NEW q \in Requests, NEW id \in Ids,
         NEW t \in Topics \cup {None}, UnsubscribeTopic(q, id, t)
  PROVE  AwaitedInv'
<1> DEFINE i == subscriptions[id]
<1>1. /\ request[q] = Idle /\ i \in Instances
      /\ request'[q] # Idle /\ request'[q].step = "topicDeactivate" /\ request'[q].instance = i
      /\ request'[q].id = id /\ request'[q].topic = t
      /\ \A p \in Requests \ {q} : request'[p] = request[p]
      /\ UNCHANGED <<up, subscriptions, instanceSubscriptions, dbVars, failures>>
  BY DEF UnsubscribeTopic, MayStart, IInv, TypeOK, Idle
<1>2. ~AwaitsAnswer(i) /\ Starts(q)
  BY <1>1 DEF Awaited, Starts
<1>3. i \notin exposed' => HasId(i, id) /\ t # None
  BY <1>1, <1>2, Unexposed
<1>4. /\ t # None => id \notin topicSubscriptions'[t]
      /\ \A s \in Topics : topicSubscriptions'[s] \subseteq topicSubscriptions[s]
  BY DEF UnsubscribeTopic
<1>5. Needs(q)' /\ ReliesOn(q)'
  BY <1>1, <1>3, <1>4 DEF Needs, ReliesOn, HasId, dbVars
<1>6. OneUnanswered' /\ OneRequestEach' /\ MemoryHasRowId' /\ ListedTopicsAreActive' /\ RequestsRelyOn'
  <2> HIDE DEF i
  <2> QED BY <1>1, <1>2, <1>4, <1>5, StartAwaited
<1>7. ListedIdsAreKnown'
  BY <1>1, <1>4 DEF AwaitedInv, ListedIdsAreKnown
<1> QED BY <1>6, <1>7 DEF AwaitedInv

\* The id that memory lets go of is the row's.
LEMMA UnsubscribeAwaited ==
  ASSUME IInv, AwaitedInv, Awaited, ExposedGrows, NEW q \in Requests, NEW i \in Instances,
         Unsubscribe(q, i)
  PROVE  AwaitedInv'
<1> DEFINE id == instanceSubscriptions[i]
<1>1. /\ request[q] = Idle /\ id \in Ids /\ id # None /\ subscriptions[id] = i
      /\ request'[q] # Idle /\ request'[q].step = "delete" /\ request'[q].instance = i
      /\ request'[q].id = id
      /\ \A p \in Requests \ {q} : request'[p] = request[p]
      /\ UNCHANGED <<up, dbVars, failures>>
  BY DEF Unsubscribe, MayStart, IInv, TypeOK, InstanceIndexed, Idle
<1>2. ~AwaitsAnswer(i)
  BY <1>1 DEF Awaited, Starts
<1>3. HasId(i, id)
  BY <1>1, <1>2 DEF AwaitedInv, MemoryHasRowId, AwaitsAnswer, AwaitedSteps, SubscribeSteps
<1>4. /\ \A k \in Ids : k # id => subscriptions'[k] = subscriptions[k]
      /\ \A s \in Topics : topicSubscriptions'[s] = topicSubscriptions[s] \ {id}
      /\ \A j \in Instances : instanceSubscriptions'[j] \in {None, instanceSubscriptions[j]}
      /\ instanceSubscriptions'[i] = None
  BY <1>1 DEF Unsubscribe, WithoutInstance, WithoutTopics, IInv, TypeOK
<1>5. Needs(q)' /\ ReliesOn(q)'
  BY <1>1, <1>3, <1>4 DEF Needs, ReliesOn, HasId, dbVars
<1>6. OneUnanswered' /\ OneRequestEach' /\ MemoryHasRowId' /\ ListedTopicsAreActive' /\ RequestsRelyOn'
  BY <1>1, <1>2, <1>4, <1>5, StartAwaited
<1>7. ListedIdsAreKnown'
  BY <1>4 DEF IInv, TypeOK, AwaitedInv, ListedIdsAreKnown
<1> QED BY <1>6, <1>7 DEF AwaitedInv

\* A request goes on or ends: it stays the only one its instance may have, and
\* those that are not exposed rely on nothing that it touches.
LEMMA StepAwaited ==
  ASSUME IInv, AwaitedInv, exposed' = exposed, NEW q \in Requests, request[q] # Idle,
         \/ request'[q] = Idle
         \/ /\ request'[q].instance = request[q].instance
            /\ request[q].step \in AwaitedSteps,
         \A p \in Requests \ {q} : request'[p] = request[p],
         \A j \in Instances : j # request[q].instance =>
           pushRow'[j] = pushRow[j] /\ topicRow'[j] = topicRow[j],
         \A t \in Topics : \A id \in topicSubscriptions'[t] :
           id \in topicSubscriptions[t] \/ subscriptions[id] = request[q].instance,
         \A p \in Requests : Needs(p)',
         ReliesOn(q)'
  PROVE  OneUnanswered' /\ OneRequestEach' /\ RequestsRelyOn'
<1> DEFINE i == request[q].instance
<1>1. i \in Instances
  BY RequestParameters DEF IInv, SubscribeSteps, TopicSteps
<1>2. \A p \in Requests \ {q} : request[p] # Idle /\ request[p].instance \notin exposed' =>
        request[p].instance # i
  BY DEF AwaitedInv, OneRequestEach
<1>3. OneRequestEach'
  BY <1>2 DEF AwaitedInv, OneRequestEach
<1>4. OneUnanswered'
  BY DEF AwaitedInv, OneUnanswered, AwaitedSteps, SubscribeSteps, Idle
<1> HIDE DEF i
<1>5. \A p \in Requests \ {q} : ReliesOn(p)'
  BY <1>1, <1>2, OthersRely DEF i
<1> QED BY <1>3, <1>4, <1>5 DEF RequestsRelyOn

\* What the others need stays where memory and rows are not touched.
LEMMA NeedsStay ==
  ASSUME AwaitedInv, NEW p \in Requests, request'[p] = request[p],
         UNCHANGED <<subscriptions, instanceSubscriptions, pushRow>>
  PROVE  Needs(p)'
  BY DEF AwaitedInv, RequestsRelyOn, Needs, HasId

\* A request that ends, without a change of anything else.
LEMMA AnswerAwaited ==
  ASSUME IInv, AwaitedInv, exposed' = exposed, NEW q \in Requests, Answer(q),
         request[q].step \notin {"idle", "resume"}, UNCHANGED <<memVars, pushRow, topicRow>>
  PROVE  AwaitedInv'
<1> USE DEF memVars
<1>1. /\ request[q] # Idle /\ request'[q] = Idle /\ request'[q].step = "idle"
      /\ \A p \in Requests \ {q} : request'[p] = request[p]
  BY AnswerRequest DEF IInv, Idle
<1>2. Needs(q)' /\ ReliesOn(q)'
  BY <1>1 DEF Needs, ReliesOn
<1>3. \A p \in Requests : Needs(p)'
  BY <1>1, <1>2, NeedsStay
<1>4. OneUnanswered' /\ OneRequestEach' /\ RequestsRelyOn'
  BY <1>1, <1>2, <1>3, StepAwaited
<1>5. MemoryHasRowId' /\ ListedTopicsAreActive' /\ ListedIdsAreKnown'
  BY <1>1 DEF AwaitedInv, MemoryHasRowId, ListedTopicsAreActive, ListedIdsAreKnown, HasId
<1> QED BY <1>4, <1>5 DEF AwaitedInv

LEMMA RegisterAwaited ==
  ASSUME IInv, AwaitedInv, exposed' = exposed, NEW q \in Requests, RegisterExtension(q)
  PROVE  AwaitedInv'
<1> USE DEF memVars
<1>1. /\ request[q].step = "register" /\ GoTo(q, "upsert")
      /\ UNCHANGED <<memVars, pushRow, topicRow>>
  BY DEF RegisterExtension
<1>2. /\ request[q] # Idle /\ request'[q].step = "upsert"
      /\ request'[q].instance = request[q].instance
      /\ \A p \in Requests \ {q} : request'[p] = request[p]
  BY <1>1, GoToRequest DEF IInv, SubscribeSteps
<1>3. Needs(q)' /\ ReliesOn(q)'
  BY <1>2 DEF Needs, ReliesOn
<1>4. \A p \in Requests : Needs(p)'
  BY <1>1, <1>2, <1>3, NeedsStay
<1>5. request[q].step \in AwaitedSteps
  BY <1>1 DEF AwaitedSteps, SubscribeSteps
<1>6. OneUnanswered' /\ OneRequestEach' /\ RequestsRelyOn'
  BY <1>1, <1>2, <1>3, <1>4, <1>5, StepAwaited
<1>7. MemoryHasRowId' /\ ListedTopicsAreActive' /\ ListedIdsAreKnown'
  BY <1>1, <1>2 DEF AwaitedInv, MemoryHasRowId, ListedTopicsAreActive, ListedIdsAreKnown, HasId
<1> QED BY <1>6, <1>7 DEF AwaitedInv

\* The row has the id of the request from now on, which is about to resume.
LEMMA UpsertAwaited ==
  ASSUME IInv, AwaitedInv, exposed' = exposed, NEW q \in Requests, UpsertPushSubscription(q)
  PROVE  AwaitedInv'
<1> USE DEF memVars
<1> DEFINE i == request[q].instance
           id == request[q].id
<1>1. /\ request[q].step = "upsert" /\ request[q].step \in AwaitedSteps
      /\ UNCHANGED <<up, memVars, instances, topicRow>>
  BY DEF UpsertPushSubscription, AwaitedSteps, SubscribeSteps
<1>2. i \in Instances /\ id \in Ids /\ request[q].endpoint \in Endpoints
  BY <1>1, RequestParameters DEF IInv, SubscribeSteps
<1>3. CASE Answer(q) /\ UNCHANGED pushRow
  BY <1>1, <1>3, AnswerAwaited
<1>4. CASE /\ pushRow' = [pushRow EXCEPT ![i] = RowAfterUpsert(i, id, request[q].endpoint)]
           /\ GoTo(q, "resume")
  <2>1. /\ request'[q].step = "resume" /\ request[q] # Idle
        /\ request'[q].instance = i /\ request'[q].id = id
        /\ \A p \in Requests \ {q} : request'[p] = request[p]
    BY <1>1, <1>4, GoToRequest DEF IInv, SubscribeSteps
  <2>2. /\ pushRow'[i] # None /\ pushRow'[i].id = id
        /\ \A j \in Instances \ {i} : pushRow'[j] = pushRow[j]
    <3>1. pushRow'[i] = [id |-> id, endpoint |-> request[q].endpoint]
      BY <1>2, <1>4 DEF RowAfterUpsert, IInv, TypeOK
    <3>2. pushRow'[i] # None /\ pushRow'[i].id = id
      BY <1>2, <3>1, ConstantsAssumption
    <3>3. \A j \in Instances \ {i} : pushRow'[j] = pushRow[j]
      BY <1>2, <1>4 DEF IInv, TypeOK
    <3> QED BY <3>2, <3>3
  <2>3. Needs(q)' /\ ReliesOn(q)'
    BY <2>1, <2>2 DEF Needs, ReliesOn, HasId
  <2>4. ASSUME NEW p \in Requests \ {q} PROVE Needs(p)'
    <3>1. Needs(p) /\ request'[p] = request[p]
      BY <2>1 DEF AwaitedInv, RequestsRelyOn
    <3>2. request[p].step = "resume" => request[p].instance \in Instances \ {i}
      BY <1>1, RequestParameters DEF IInv, AwaitedInv, OneUnanswered, AwaitedSteps, SubscribeSteps
    <3>3. request[p].step = "resume" => HasId(request[p].instance, request[p].id)'
      BY <2>2, <3>1, <3>2 DEF Needs, HasId
    <3> QED BY <1>1, <3>1, <3>3 DEF Needs, HasId
  <2>5. OneUnanswered' /\ OneRequestEach' /\ RequestsRelyOn'
    <3>1. \A p \in Requests : Needs(p)'
      BY <2>3, <2>4
    <3> QED BY <1>1, <2>1, <2>2, <2>3, <3>1, StepAwaited
  <2>6. MemoryHasRowId'
    BY <1>1, <2>1, <2>2 DEF AwaitedInv, MemoryHasRowId, HasId
  <2>7. ListedTopicsAreActive' /\ ListedIdsAreKnown'
    BY <1>1 DEF AwaitedInv, ListedTopicsAreActive, ListedIdsAreKnown
  <2> QED BY <2>5, <2>6, <2>7 DEF AwaitedInv
<1> QED BY <1>3, <1>4 DEF UpsertPushSubscription

\* Memory has the id of the row, which no topic lists and no DELETE names.
LEMMA ResumesAwaited ==
  ASSUME IInv, AwaitedInv, exposed' = exposed, NEW q \in Requests, SubscribeResumes(q)
  PROVE  AwaitedInv'
<1> USE DEF dbVars
<1> DEFINE i == request[q].instance
           id == request[q].id
<1>1. /\ request[q].step = "resume" /\ request[q] # Idle
      /\ Answer(q) /\ UNCHANGED <<up, topicSubscriptions, dbVars, failures>>
  BY DEF SubscribeResumes, Idle
<1>2. i \in Instances /\ id \in Ids
  BY <1>1, RequestParameters DEF IInv, SubscribeSteps
<1>3. /\ request'[q] = Idle /\ request'[q].step = "idle"
      /\ \A p \in Requests \ {q} : request'[p] = request[p]
  BY <1>1, AnswerRequest DEF IInv
<1>4. /\ subscriptions[id] = None
      /\ \A t \in Topics : id \notin topicSubscriptions[t]
      /\ \A p \in Requests \ {q} : request[p] # Idle => request[p].id # id
  BY <1>1 DEF IInv, SubscribeIdIsOwn, SubscribeSteps
<1>5. /\ subscriptions'[id] = i
      /\ \A k \in Ids \ {id} : subscriptions'[k] = subscriptions[k]
      /\ instanceSubscriptions'[i] = id
      /\ \A j \in Instances \ {i} : instanceSubscriptions'[j] = instanceSubscriptions[j]
  BY <1>2 DEF SubscribeResumes, IInv, TypeOK
<1>6. HasId(i, id)
  BY <1>1 DEF AwaitedInv, RequestsRelyOn, Needs
<1>7. Needs(q)' /\ ReliesOn(q)'
  BY <1>3 DEF Needs, ReliesOn
<1>8. ASSUME NEW p \in Requests \ {q} PROVE Needs(p)'
  <2>1. Needs(p) /\ request'[p] = request[p]
    BY <1>3 DEF AwaitedInv, RequestsRelyOn
  <2>2. request[p].step = "resume" => HasId(request[p].instance, request[p].id)'
    BY <1>1, <2>1 DEF Needs, HasId
  <2>3. request[p].step \in {"topicUpsert", "topicResume"} =>
          subscriptions'[request[p].id] = request[p].instance
    <3>1. request[p].step \in {"topicUpsert", "topicResume"} =>
            request[p].id \in Ids /\ request[p].id # id
      BY <1>4, RequestParameters DEF IInv, TopicSteps
    <3> QED BY <1>5, <2>1, <3>1 DEF Needs
  <2>4. request[p].step = "delete" =>
          instanceSubscriptions'[request[p].instance] # request[p].id
    <3>1. request[p].step = "delete" =>
            request[p].id # id /\ request[p].instance \in Instances
      BY <1>4, RequestParameters DEF IInv
    <3> QED BY <1>5, <2>1, <3>1 DEF Needs
  <2> QED BY <2>1, <2>2, <2>3, <2>4 DEF Needs, HasId
<1>9. OneUnanswered' /\ OneRequestEach' /\ RequestsRelyOn'
  <2>1. \A p \in Requests : Needs(p)'
    BY <1>7, <1>8
  <2> QED BY <1>1, <1>3, <1>7, <2>1, StepAwaited
<1>10. MemoryHasRowId'
  BY <1>1, <1>3, <1>5, <1>6 DEF AwaitedInv, MemoryHasRowId, HasId
<1>11. ListedTopicsAreActive'
  BY <1>1, <1>4, <1>5 DEF AwaitedInv, ListedTopicsAreActive
<1>12. ListedIdsAreKnown'
  BY <1>1, <1>4, <1>5 DEF IInv, TypeOK, AwaitedInv, ListedIdsAreKnown
<1> QED BY <1>9, <1>10, <1>11, <1>12 DEF AwaitedInv

LEMMA UpsertTopicAwaited ==
  ASSUME IInv, AwaitedInv, exposed' = exposed, NEW q \in Requests, UpsertTopicSubscription(q)
  PROVE  AwaitedInv'
<1> USE DEF memVars
<1> DEFINE i == request[q].instance
           t == request[q].topic
<1>1. /\ request[q].step = "topicUpsert" /\ request[q].step \in TopicSteps
      /\ request[q].step \in AwaitedSteps
      /\ topicRow' = [topicRow EXCEPT ![i][t] = "active"]
      /\ GoTo(q, "topicResume")
      /\ UNCHANGED <<up, memVars, instances, pushRow, failures>>
  BY DEF UpsertTopicSubscription, TopicSteps, AwaitedSteps
<1>2. i \in Instances /\ t \in Topics
  BY <1>1, RequestParameters DEF IInv, TopicFirstInRow
<1>3. /\ request'[q].step = "topicResume"
      /\ request'[q].instance = i /\ request'[q].id = request[q].id /\ request'[q].topic = t
      /\ request[q] # Idle /\ request'[q] # Idle
      /\ \A p \in Requests \ {q} : request'[p] = request[p]
  BY <1>1, GoToRequest DEF IInv, TopicSteps
<1>4. /\ topicRow'[i][t] = "active"
      /\ \A j \in Instances \ {i} : topicRow'[j] = topicRow[j]
      /\ \A j \in Instances, s \in Topics :
           topicRow'[j][s] = topicRow[j][s] \/ topicRow'[j][s] = "active"
  BY <1>1, <1>2 DEF IInv, TypeOK
<1>5. Needs(q)' /\ ReliesOn(q)'
  BY <1>1, <1>3, <1>4 DEF AwaitedInv, RequestsRelyOn, Needs, ReliesOn
<1>6. OneUnanswered' /\ OneRequestEach' /\ RequestsRelyOn'
  <2>1. \A p \in Requests : Needs(p)'
    BY <1>1, <1>3, <1>5, NeedsStay
  <2> QED BY <1>1, <1>3, <1>4, <1>5, <2>1, StepAwaited
<1>7. MemoryHasRowId'
  BY <1>1, <1>3 DEF AwaitedInv, MemoryHasRowId, HasId
<1>8. ListedTopicsAreActive' /\ ListedIdsAreKnown'
  BY <1>1, <1>4 DEF AwaitedInv, ListedTopicsAreActive, ListedIdsAreKnown
<1> QED BY <1>6, <1>7, <1>8 DEF AwaitedInv

\* The topic that memory lists is active, and its id is known.
LEMMA TopicResumesAwaited ==
  ASSUME IInv, AwaitedInv, exposed' = exposed, NEW q \in Requests, SubscribeTopicResumes(q)
  PROVE  AwaitedInv'
<1> USE DEF dbVars
<1> DEFINE i == request[q].instance
           id == request[q].id
           t == request[q].topic
<1>1. /\ request[q].step = "topicResume" /\ request[q].step \in TopicSteps /\ request[q] # Idle
      /\ Answer(q)
      /\ UNCHANGED <<up, subscriptions, instanceSubscriptions, dbVars, failures>>
  BY DEF SubscribeTopicResumes, TopicSteps, Idle
<1>2. /\ i \in Instances /\ id \in Ids /\ t \in Topics
      /\ subscriptions[id] = i
      /\ i \notin exposed => topicRow[i][t] = "active"
  BY <1>1, RequestParameters DEF IInv, TopicFirstInRow, AwaitedInv, RequestsRelyOn, Needs, ReliesOn
<1>3. /\ request'[q] = Idle /\ request'[q].step = "idle"
      /\ \A p \in Requests \ {q} : request'[p] = request[p]
  BY <1>1, AnswerRequest DEF IInv
<1>4. \A s \in Topics : \A k \in topicSubscriptions'[s] :
        k \in topicSubscriptions[s] \/ (s = t /\ k = id)
  BY <1>2 DEF SubscribeTopicResumes, IInv, TypeOK
<1>5. Needs(q)' /\ ReliesOn(q)'
  BY <1>3 DEF Needs, ReliesOn
<1>6. OneUnanswered' /\ OneRequestEach' /\ RequestsRelyOn'
  <2>1. \A s \in Topics : \A k \in topicSubscriptions'[s] :
          k \in topicSubscriptions[s] \/ subscriptions[k] = i
    BY <1>2, <1>4
  <2>2. \A p \in Requests : Needs(p)'
    BY <1>1, <1>3, <1>5, NeedsStay
  <2> HIDE DEF id
  <2> QED BY <1>1, <1>3, <1>5, <2>1, <2>2, StepAwaited
<1>7. MemoryHasRowId'
  BY <1>1, <1>3 DEF AwaitedInv, MemoryHasRowId, HasId
<1>8. ListedTopicsAreActive'
  <2> SUFFICES ASSUME NEW j \in Instances \ exposed, NEW s \in Topics,
                      instanceSubscriptions[j] # None,
                      instanceSubscriptions[j] \in topicSubscriptions'[s]
               PROVE  topicRow[j][s] = "active"
    BY <1>1 DEF ListedTopicsAreActive
  <2>1. subscriptions[instanceSubscriptions[j]] = j
    BY DEF IInv, InstanceIndexed
  <2> QED BY <1>2, <1>4, <2>1 DEF AwaitedInv, ListedTopicsAreActive
<1>9. ListedIdsAreKnown'
  BY <1>1, <1>2, <1>4, ConstantsAssumption DEF AwaitedInv, ListedIdsAreKnown
<1> QED BY <1>6, <1>7, <1>8, <1>9 DEF AwaitedInv

\* The topic is inactive, which memory had let go of when the request started;
\* if the instance is not exposed, nobody has listed it again.
LEMMA DeactivateAwaited ==
  ASSUME IInv, AwaitedInv, NEW q \in Requests, DeactivateTopic(q),
         up' = up => exposed' = exposed
  PROVE  AwaitedInv' /\ (up' = up \/ request[q].instance \in exposed)
<1> USE DEF memVars
<1> DEFINE i == request[q].instance
           id == request[q].id
           t == request[q].topic
<1>1. request[q].step = "topicDeactivate" /\ request[q].step \in TopicSteps
  BY DEF DeactivateTopic, TopicSteps
<1>2. i \notin exposed => t # None /\ id \notin topicSubscriptions[t] /\ HasId(i, id)
  BY <1>1 DEF AwaitedInv, RequestsRelyOn, ReliesOn
<1>3. CASE t = None
  <2>1. ProcessEnds
    BY <1>3 DEF DeactivateTopic
  <2> QED BY <1>2, <1>3, <2>1, ProcessEndsAwaited
<1>4. CASE t # None
  <2>1. /\ topicRow' = [topicRow EXCEPT ![i][t] = "inactive"]
        /\ Answer(q)
        /\ UNCHANGED <<up, memVars, instances, pushRow, failures>>
    BY <1>4 DEF DeactivateTopic
  <2>2. i \in Instances /\ t \in Topics
    BY <1>1, <1>4, RequestParameters DEF IInv
  <2>3. /\ request[q] # Idle /\ request'[q] = Idle /\ request'[q].step = "idle"
        /\ \A p \in Requests \ {q} : request'[p] = request[p]
    BY <1>1, <2>1, AnswerRequest DEF IInv, Idle
  <2>4. \A j \in Instances, s \in Topics : topicRow'[j][s] = topicRow[j][s] \/ (j = i /\ s = t)
    BY <2>1, <2>2 DEF IInv, TypeOK
  <2>5. \A j \in Instances : j # i => topicRow'[j] = topicRow[j]
    BY <2>1, <2>2 DEF IInv, TypeOK
  <2>6. Needs(q)' /\ ReliesOn(q)'
    BY <2>3 DEF Needs, ReliesOn
  <2>7. exposed' = exposed
    BY <2>1
  <2>8. OneUnanswered' /\ OneRequestEach' /\ RequestsRelyOn'
    <3>1. \A p \in Requests : Needs(p)'
      BY <2>1, <2>3, <2>6, NeedsStay
    <3> QED BY <2>1, <2>3, <2>5, <2>6, <2>7, <3>1, StepAwaited
  <2>9. MemoryHasRowId' /\ ListedIdsAreKnown'
    BY <1>1, <2>1, <2>3 DEF AwaitedInv, MemoryHasRowId, ListedIdsAreKnown, HasId
  <2>10. ListedTopicsAreActive'
    <3>1. CASE i \notin exposed
      <4>1. instanceSubscriptions[i] # None => HasId(i, instanceSubscriptions[i])
        <5>1. \A p \in Requests : request[p].step = "resume" => request[p].instance # i
          BY <1>1, <2>3, <3>1, RequestParameters DEF IInv, AwaitedInv, OneRequestEach,
             SubscribeSteps
        <5> QED BY <2>2, <5>1 DEF AwaitedInv, MemoryHasRowId
      <4>2. instanceSubscriptions[i] # None => instanceSubscriptions[i] = id
        BY <1>2, <3>1, <4>1 DEF HasId
      <4> QED BY <1>2, <2>1, <2>4, <2>7, <3>1, <4>2 DEF AwaitedInv, ListedTopicsAreActive
    <3>2. CASE i \in exposed
      BY <2>1, <2>4, <2>7, <3>2 DEF AwaitedInv, ListedTopicsAreActive
    <3> QED BY <3>1, <3>2
  <2> QED BY <2>1, <2>8, <2>9, <2>10 DEF AwaitedInv
<1> QED BY <1>3, <1>4

\* Memory has let go of the id of the row that goes; if the instance is not
\* exposed the row is there.
LEMMA DeleteAwaited ==
  ASSUME IInv, AwaitedInv, NEW q \in Requests, DeletePushSubscription(q),
         up' = up => exposed' = exposed
  PROVE  AwaitedInv' /\ (up' = up \/ request[q].instance \in exposed)
<1> USE DEF memVars
<1> DEFINE i == request[q].instance
           id == request[q].id
<1>1. request[q].step = "delete" /\ i \in Instances /\ id \in Ids
  BY RequestParameters DEF DeletePushSubscription, IInv
<1>2. /\ i \notin exposed => HasId(i, id)
      /\ instanceSubscriptions[i] # id
  BY <1>1 DEF AwaitedInv, RequestsRelyOn, Needs, ReliesOn
<1>3. CASE ~HasId(i, id)
  <2>1. ProcessEnds
    BY <1>3 DEF DeletePushSubscription
  <2> QED BY <1>2, <1>3, <2>1, ProcessEndsAwaited
<1>4. CASE HasId(i, id)
  <2>1. /\ pushRow' = [pushRow EXCEPT ![i] = None]
        /\ Answer(q)
        /\ UNCHANGED <<up, memVars, instances, topicRow, failures>>
    BY <1>4 DEF DeletePushSubscription
  <2>2. /\ request[q] # Idle /\ request'[q] = Idle /\ request'[q].step = "idle"
        /\ \A p \in Requests \ {q} : request'[p] = request[p]
    BY <1>1, <2>1, AnswerRequest DEF IInv, Idle
  <2>3. \A j \in Instances : j # i => pushRow'[j] = pushRow[j]
    BY <2>1 DEF IInv, TypeOK
  <2>4. \A p \in Requests : request[p].step = "resume" =>
          request[p].instance \in Instances \ {i} /\ HasId(request[p].instance, request[p].id)
    <3> SUFFICES ASSUME NEW p \in Requests, request[p].step = "resume"
                 PROVE  /\ request[p].instance \in Instances \ {i}
                        /\ HasId(request[p].instance, request[p].id)
      OBVIOUS
    <3>1. HasId(request[p].instance, request[p].id) /\ request[p].instance \in Instances
      BY RequestParameters DEF IInv, AwaitedInv, RequestsRelyOn, Needs, SubscribeSteps
    <3>2. request[p].id # id
      BY <1>1, <2>2 DEF IInv, SubscribeIdIsOwn, SubscribeSteps
    <3> QED BY <1>4, <3>1, <3>2 DEF HasId
  <2>5. Needs(q)' /\ ReliesOn(q)'
    BY <2>2 DEF Needs, ReliesOn
  <2>6. ASSUME NEW p \in Requests \ {q} PROVE Needs(p)'
    <3>1. Needs(p) /\ request'[p] = request[p]
      BY <2>2 DEF AwaitedInv, RequestsRelyOn
    <3>2. request[p].step = "resume" => HasId(request[p].instance, request[p].id)'
      BY <2>3, <2>4, <3>1 DEF HasId
    <3> QED BY <2>1, <3>1, <3>2 DEF Needs, HasId
  <2>7. exposed' = exposed
    BY <2>1
  <2>8. OneUnanswered' /\ OneRequestEach' /\ RequestsRelyOn'
    <3>1. \A p \in Requests : Needs(p)'
      BY <2>5, <2>6
    <3> QED BY <2>1, <2>2, <2>3, <2>5, <2>7, <3>1, StepAwaited
  <2>9. MemoryHasRowId'
    <3>1. instanceSubscriptions[i] = None
      BY <1>1, <1>2, <1>4, <2>4 DEF AwaitedInv, MemoryHasRowId, HasId
    <3> QED BY <1>1, <2>1, <2>2, <2>3, <3>1 DEF AwaitedInv, MemoryHasRowId, HasId
  <2>10. ListedTopicsAreActive' /\ ListedIdsAreKnown'
    BY <2>1, <2>7 DEF AwaitedInv, ListedTopicsAreActive, ListedIdsAreKnown
  <2> QED BY <2>1, <2>8, <2>9, <2>10 DEF AwaitedInv
<1> QED BY <1>3, <1>4

-----------------------------------------------------------------------------

\* The steps of a request that are no rejection leave the process running.
LEMMA StepsStayUp ==
  ASSUME NEW q \in Requests,
         \/ RegisterExtension(q) \/ UpsertPushSubscription(q) \/ SubscribeResumes(q)
         \/ UpsertTopicSubscription(q) \/ SubscribeTopicResumes(q)
  PROVE  up' = up
  BY DEF RegisterExtension, UpsertPushSubscription, SubscribeResumes, UpsertTopicSubscription,
     SubscribeTopicResumes

\* A request that goes on or ends starts none.
LEMMA StepStartsNone ==
  ASSUME IInv, NEW q \in Requests, request[q] # Idle,
         \/ \E s : GoTo(q, s)
         \/ Answer(q)
  PROVE  \A p \in Requests : request[p] = Idle => request'[p] = Idle
  BY DEF GoTo, Answer, IInv, TypeOK

\* A step of clients that await their answers: AwaitedInv stays, and nothing
\* but a failure, or a request of an exposed instance, ends the process.
LEMMA NextAwaited ==
  ASSUME IInv, AwaitedInv, StringsNext, Awaited, up' => ExposedGrows
  PROVE  AwaitedInv' /\ (up /\ ~up' => EndsByFailure)
<1>1. CASE Start
  <2>1. /\ up'
        /\ \A i \in Instances : instanceSubscriptions'[i] = None
        /\ \A t \in Topics : topicSubscriptions'[t] = {}
        /\ \A q \in Requests : request'[q] = Idle
    BY <1>1 DEF Start, IInv, DownIsEmpty
  <2> QED BY <2>1, EmptyAwaited
<1>2. CASE Crash
  <2>1. ProcessEnds /\ failures' = failures + 1
    BY <1>2 DEF Crash
  <2> QED BY <2>1, ProcessEndsAwaited DEF IInv, TypeOK, EndsByFailure
<1>3. CASE \E q \in Requests : RequestStep(q)
  <2> PICK q \in Requests : RequestStep(q)
    BY <1>3
  <2>0. request[q] # Idle => up
    BY DEF IInv, DownIsEmpty
  <2>1. CASE \E i \in Instances, id \in Ids, e \in Endpoints : Subscribe(q, i, id, e)
    <3>1. up /\ up'
      BY <2>1 DEF Subscribe, MayStart
    <3>2. AwaitedInv'
      BY <2>1, <3>1, SubscribeAwaited
    <3> QED BY <3>1, <3>2
  <2>2. CASE RegisterExtension(q) \/ UpsertPushSubscription(q) \/ SubscribeResumes(q)
    <3>1. request[q] # Idle /\ (Answer(q) \/ \E s : GoTo(q, s))
      BY <2>2 DEF RegisterExtension, UpsertPushSubscription, SubscribeResumes, Idle
    <3>2. up' = up
      BY <2>2, StepsStayUp
    <3>3. exposed' = exposed
      BY <2>0, <3>1, <3>2, StepStartsNone, NobodyExposed
    <3> QED BY <2>2, <3>2, <3>3, RegisterAwaited, UpsertAwaited, ResumesAwaited
  <2>3. CASE \E i \in Instances, t \in Topics : SubscribeTopic(q, i, t)
    <3>1. up /\ up'
      BY <2>3 DEF SubscribeTopic, MayStart
    <3>2. AwaitedInv'
      BY <2>3, <3>1, SubscribeTopicAwaited
    <3> QED BY <3>1, <3>2
  <2>4. CASE UpsertTopicSubscription(q) \/ SubscribeTopicResumes(q)
    <3>1. request[q] # Idle /\ (Answer(q) \/ \E s : GoTo(q, s))
      BY <2>4 DEF UpsertTopicSubscription, SubscribeTopicResumes, Idle
    <3>2. up' = up
      BY <2>4, StepsStayUp
    <3>3. exposed' = exposed
      BY <2>0, <3>1, <3>2, StepStartsNone, NobodyExposed
    <3> QED BY <2>4, <3>2, <3>3, UpsertTopicAwaited, TopicResumesAwaited
  <2>5. CASE \E id \in Ids, t \in Topics \cup {None} : UnsubscribeTopic(q, id, t)
    <3>1. up /\ up'
      BY <2>5 DEF UnsubscribeTopic, MayStart
    <3>2. AwaitedInv'
      BY <2>5, <3>1, UnsubscribeTopicAwaited
    <3> QED BY <3>1, <3>2
  <2>6. CASE DeactivateTopic(q) \/ DeletePushSubscription(q)
    <3>1. /\ request[q] # Idle /\ request[q].step \in {"topicDeactivate", "delete"}
          /\ Answer(q) \/ ProcessEnds
      BY <2>6 DEF DeactivateTopic, DeletePushSubscription, Idle
    <3>2. up' = up => exposed' = exposed
      <4>1. up' = up => Answer(q)
        BY <2>0, <3>1 DEF ProcessEnds
      <4> QED BY <2>0, <3>1, <4>1, StepStartsNone, NobodyExposed
    <3>3. AwaitedInv' /\ (up' = up \/ request[q].instance \in exposed)
      BY <2>6, <3>2, DeactivateAwaited, DeleteAwaited
    <3> QED BY <3>1, <3>3 DEF EndsByFailure
  <2>7. CASE \E i \in Instances : Unsubscribe(q, i)
    <3>1. up /\ up'
      BY <2>7 DEF Unsubscribe, MayStart
    <3>2. AwaitedInv'
      BY <2>7, <3>1, UnsubscribeAwaited
    <3> QED BY <3>1, <3>2
  <2>8. CASE StatementFails(q)
    <3>1. failures' > failures /\ UNCHANGED dbVars
      BY <2>8 DEF StatementFails, IInv, TypeOK
    <3>2. CASE ProcessEnds
      BY <3>1, <3>2, ProcessEndsAwaited DEF EndsByFailure
    <3>3. CASE /\ request[q].step \in {"upsert", "topicUpsert"}
               /\ UpsertFails(q)
               /\ UNCHANGED <<up, memVars>>
      <4>1. request[q] # Idle /\ Answer(q) /\ up'
        BY <2>0, <3>3 DEF UpsertFails, Idle
      <4>2. exposed' = exposed
        BY <4>1, StepStartsNone, NobodyExposed
      <4> QED BY <3>1, <3>3, <4>1, <4>2, AnswerAwaited DEF dbVars
    <3> QED BY <2>8, <3>2, <3>3 DEF StatementFails
  <2> QED BY <2>1, <2>2, <2>3, <2>4, <2>5, <2>6, <2>7, <2>8 DEF RequestStep
<1> QED BY <1>1, <1>2, <1>3 DEF StringsNext

LEMMA StutterAwaited ==
  ASSUME AwaitedInv, UNCHANGED vars, UNCHANGED exposed
  PROVE  AwaitedInv'
<1> USE DEF vars, memVars, dbVars
<1>1. /\ OneUnanswered' /\ OneRequestEach' /\ MemoryHasRowId'
      /\ ListedTopicsAreActive' /\ ListedIdsAreKnown'
  BY DEF AwaitedInv, OneUnanswered, OneRequestEach, MemoryHasRowId, HasId,
     ListedTopicsAreActive, ListedIdsAreKnown
<1>2. RequestsRelyOn'
  BY DEF AwaitedInv, RequestsRelyOn, Needs, ReliesOn, HasId
<1> QED BY <1>1, <1>2 DEF AwaitedInv

\* A step with clients of either sort.
LEMMA ClientsStep ==
  ASSUME IInv, awaiting => AwaitedInv, [ClientsNext]_clientVars
  PROVE  IInv' /\ (awaiting' => AwaitedInv')
<1>1. CASE ClientsNext /\ awaiting
  BY <1>1, NextInv, NextAwaited DEF ClientsNext, Next
<1>2. CASE ClientsNext /\ ~awaiting
  BY <1>2, NextInv DEF ClientsNext
<1>3. CASE UNCHANGED clientVars
  BY <1>3, NextInv, StutterAwaited DEF clientVars
<1> QED BY <1>1, <1>2, <1>3

\* The inductive invariant with clients of both sorts.
THEOREM ClientsInvariance == ClientsSpec => [](IInv /\ (awaiting => AwaitedInv))
<1>1. ClientsInit => IInv /\ (awaiting => AwaitedInv)
  BY InitInv, AwaitedInit DEF ClientsInit
<1>2. IInv /\ (awaiting => AwaitedInv) /\ [ClientsNext]_clientVars
        => IInv' /\ (awaiting' => AwaitedInv')
  BY ClientsStep
<1> QED BY <1>1, <1>2, PTL DEF ClientsSpec

\* Clients that await their answers find, when nothing is pending, memory and
\* database agreed on the ids, and on the topics of an instance that was not
\* exposed, and no removed id under a topic, for any number of clients, restarts
\* and failures, and DELETEs that are answered before they are written.
THEOREM AwaitedAgree == ClientsSpec => []AwaitedMemoryAgrees
<1>1. ASSUME IInv, awaiting => AwaitedInv PROVE AwaitedMemoryAgrees
  <2> SUFFICES ASSUME awaiting
               PROVE  /\ \A i \in Instances : AtRest(i) => IdMatches(i)
                      /\ \A i \in Instances \ exposed : AtRest(i) => TopicsMatch(i)
                      /\ NoRemovedTopics
    BY DEF AwaitedMemoryAgrees
  <2>1. AwaitedInv
    BY <1>1
  <2>2. \A q \in Requests : request[q].step = "resume" => request[q] # Idle
    BY DEF Idle
  <2>3. \A i \in Instances : AtRest(i) => IdMatches(i)
    BY <2>1, <2>2 DEF IdMatches, AtRest, InProgress, AwaitedInv, MemoryHasRowId
  <2>4. \A i \in Instances \ exposed : AtRest(i) => TopicsMatch(i)
    BY <2>1 DEF TopicsMatch, AwaitedInv, ListedTopicsAreActive
  <2>5. NoRemovedTopics
    BY <2>1 DEF NoRemovedTopics, AwaitedInv, ListedIdsAreKnown
  <2> QED BY <2>3, <2>4, <2>5
<1> QED BY <1>1, ClientsInvariance, PTL

\* The requests of such clients end the process only when their instance is
\* exposed: an answered DELETE was overtaken, or a topic was not named.
THEOREM OnlyFailuresEnd == ClientsSpec => OnlyFailuresEndProcess
<1>1. IInv /\ (awaiting => AwaitedInv) /\ [ClientsNext]_clientVars
        => [awaiting /\ up /\ ~up' => EndsByFailure]_clientVars
  BY NextAwaited DEF ClientsNext
<1> QED BY <1>1, ClientsInvariance, PTL DEF ClientsSpec, OnlyFailuresEndProcess

=============================================================================
