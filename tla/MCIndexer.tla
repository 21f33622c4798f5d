----------------------------- MODULE MCIndexer -----------------------------
(***************************************************************************)
(* A small instance of the indexer.  Two branches leave the first block:   *)
(*                                                                         *)
(*      Genesis - A1 - A2           t1, t2 are mined in A2; t1, t3 in B2,  *)
(*                  \- B2 - B3      t2 in B3                               *)
(*                                                                         *)
(* t1 has a RANK output, t2 a comment that replies to someone, t3 whatever *)
(* kind the configuration gives it.                                        *)
(***************************************************************************)
EXTENDS IndexerSync, TLC

CONSTANTS t1, t2, t3,        \* transactions
          r1, c2, c3,        \* their outputs
          A1, A2, B2, B3,    \* blocks
          Kind2, Kind3       \* the kinds of c2 and c3

MCTxs == {t1, t2, t3}
MCOutpoints == {r1, c2, c3}
MCTxOf == (r1 :> t1) @@ (c2 :> t2) @@ (c3 :> t3)
MCKind == (r1 :> "rank") @@ (c2 :> Kind2) @@ (c3 :> Kind3)

MCAllPhases == Phases
MCSafePhases == Phases \ {"delete", "disconnect"}

MCBlocks == {A1, A2, B2, B3}
MCParent == (A1 :> Genesis) @@ (A2 :> A1) @@ (B2 :> A1) @@ (B3 :> B2)
MCHeight == (Genesis :> 0) @@ (A1 :> 1) @@ (A2 :> 2) @@ (B2 :> 2) @@ (B3 :> 3)
MCBlockTxs == (A1 :> {}) @@ (A2 :> {t1, t2}) @@ (B2 :> {t1, t3}) @@ (B3 :> {t2})

=============================================================================
