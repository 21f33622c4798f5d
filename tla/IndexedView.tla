---------------------------- MODULE IndexedView ----------------------------
(***************************************************************************)
(* What the indexer promises its readers: the database is, at any time,    *)
(* the image of one linked chain of blocks and one set of unconfirmed      *)
(* outputs, and the counters contain the outputs of the two, each once.    *)
(* How far that chain is behind the node's is not said.                    *)
(***************************************************************************)
EXTENDS Naturals, Sequences

CONSTANTS Outpoints, Blocks, Genesis, Parent,
          BlockOutputs   \* [Blocks -> SUBSET Outpoints]

VARIABLES
  confirmed,   \* the chain of indexed blocks above genesis
  pending,     \* unconfirmed outputs
  counted      \* outputs whose increments are in the counters

view == <<confirmed, pending, counted>>

ChainOutputs(c) == UNION {BlockOutputs[c[i]] : i \in 1..Len(c)}

Linked(c) ==
  \A i \in 1..Len(c) : Parent[c[i]] = IF i = 1 THEN Genesis ELSE c[i - 1]

Init == confirmed = <<>> /\ pending = {} /\ counted = {}

\* One block, or a range of them, is indexed; outputs that were pending are
\* confirmed, the others are counted now.
Extend ==
  /\ confirmed' \in Seq(Blocks)
  /\ Linked(confirmed')
  /\ Len(confirmed') > Len(confirmed)
  /\ SubSeq(confirmed', 1, Len(confirmed)) = confirmed
  /\ pending' = pending \ ChainOutputs(confirmed')
  /\ counted' = counted \cup ChainOutputs(confirmed')

\* The last block is taken back with all of its outputs.
Retract ==
  /\ confirmed # <<>>
  /\ confirmed' = SubSeq(confirmed, 1, Len(confirmed) - 1)
  /\ counted' = counted \ BlockOutputs[confirmed[Len(confirmed)]]
  /\ UNCHANGED pending

\* Unconfirmed outputs arrive, each counted for the first time.
Arrive(new) ==
  /\ new \cap counted = {}
  /\ pending' = pending \cup new
  /\ counted' = counted \cup new
  /\ UNCHANGED confirmed

\* Unconfirmed outputs are dropped.
Leave(gone) ==
  /\ gone \subseteq pending
  /\ pending' = pending \ gone
  /\ counted' = counted \ gone
  /\ UNCHANGED confirmed

Next ==
  \/ Extend
  \/ Retract
  \/ \E set \in SUBSET Outpoints : Arrive(set) \/ Leave(set)

Spec == Init /\ [][Next]_view

=============================================================================
