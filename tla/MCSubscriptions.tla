--------------------------- MODULE MCSubscriptions ---------------------------
(***************************************************************************)
(* Two instances, each with a request in progress, or one instance with    *)
(* two; ids enough to subscribe again.                                     *)
(***************************************************************************)
EXTENDS SubscriptionClients, TLC

CONSTANTS i1, i2, s1, s2, s3, q1, q2,
          Unused  \* instances and ids left out of a run

MCInstances == {i1, i2} \ Unused
MCIds == {s1, s2, s3} \ Unused
MCRequests == {q1, q2}

Symmetry ==
  Permutations(MCInstances) \cup Permutations(MCIds) \cup Permutations(MCRequests)

=============================================================================
