------------------------- MODULE SubscriptionClients -------------------------
(***************************************************************************)
(* The push subscriptions with their clients.  Those of a behaviour all    *)
(* send topics as strings and wait for the answer to a request before they *)
(* send the next, or need not: what they can count on.                     *)
(***************************************************************************)
EXTENDS Subscriptions

CONSTANT Clients  \* what the clients may be: a subset of BOOLEAN

VARIABLES
  awaiting,  \* all clients await their answers, and send topics as strings
  exposed    \* history: the instances that Exposes was true of, since the start

clientVars == <<vars, awaiting, exposed>>

\* Waiting for the answers is not enough in two cases: a request overtakes a
\* DELETE of the same instance that was answered and is still to be written, and
\* a topic is unsubscribed with an id that is not the row's, or is not named.
Exposes(q) ==
  LET r == request'[q] IN
  /\ Starts(q)
  /\ \/ InProgress(r.instance)
     \/ r.step = "topicDeactivate" /\ (~HasId(r.instance, r.id) \/ r.topic = None)

\* The end of the process empties the memory, and the history with it.
ExposedGrows ==
  exposed' = exposed \cup {request'[q].instance : q \in {p \in Requests : Exposes(p)}}

ClientsInit == Init /\ awaiting \in Clients /\ exposed = {}
ClientsNext ==
  /\ IF awaiting THEN StringsNext /\ Awaited ELSE Next
  /\ IF awaiting /\ up' THEN ExposedGrows ELSE exposed' = {}
  /\ UNCHANGED awaiting
ClientsSpec == ClientsInit /\ [][ClientsNext]_clientVars

-----------------------------------------------------------------------------
(* What clients that await their answers can count on. *)

\* When nothing of an instance is pending, memory has the id of its row or none,
\* and no topic that its row does not have, unless the instance was exposed; and
\* when nothing at all is pending no removed id is left under a topic.
AwaitedMemoryAgrees ==
  awaiting =>
    /\ \A i \in Instances : AtRest(i) => IdMatches(i)
    /\ \A i \in Instances \ exposed : AtRest(i) => TopicsMatch(i)
    /\ NoRemovedTopics

\* Only failures end the process, and the pending DELETEs of an exposed instance.
EndsByFailure ==
  \/ failures' > failures
  \/ \E q \in Requests : /\ request[q].step \in {"topicDeactivate", "delete"}
                         /\ request[q].instance \in exposed
OnlyFailuresEndProcess == [][awaiting /\ up /\ ~up' => EndsByFailure]_clientVars

=============================================================================
