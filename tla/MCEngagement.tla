---------------------------- MODULE MCEngagement ----------------------------
(***************************************************************************)
(* A vote with two outputs and a comment of one wallet; the vote can come  *)
(* again after its records left.                                           *)
(***************************************************************************)
EXTENDS Engagement, TLC

CONSTANTS v1, c1

MCOutputs == [v \in {v1} |-> 2]
MCSats == [tx \in {v1, c1} |-> IF tx = c1 THEN 1 ELSE 2]

=============================================================================
