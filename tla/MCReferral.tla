----------------------------- MODULE MCReferral -----------------------------
(***************************************************************************)
(* Two wallets, three codes, one address, two requests at a time.          *)
(***************************************************************************)
EXTENDS Referral, TLC

CONSTANTS w1, w2, k1, k2, k3, q1, q2,
          Unused   \* codes left out of a run

MCWallets == {w1, w2}
MCCodes == {k1, k2, k3} \ Unused
MCRequests == {q1, q2}

Symmetry == Permutations(MCWallets) \cup Permutations(MCCodes) \cup Permutations(MCRequests)

=============================================================================
