-------------------------- MODULE MCProfileLedger --------------------------
(***************************************************************************)
(* A small instance of the profile queue:                                  *)
(*   t1  votes for the post k1 of p1 on Twitter, and views p2 there;       *)
(*   t2  votes against the Lotusia post that the comment c1 is;            *)
(*   c1  is a comment by p2 that replies to k1;                            *)
(*   c2  is a comment by p1 that replies to p2;                            *)
(*   c3  is a comment by p1 that replies to nobody.                        *)
(***************************************************************************)
EXTENDS ProfileLedger, TLC

CONSTANTS t1, t2, tc, td, te, r1, r2, r3, c1, c2, c3, p1, p2, k1, twitter

MCTxs == {t1, t2, tc, td, te}
MCRanks == {r1, r2, r3}
MCTxOf == (r1 :> t1) @@ (r2 :> t1) @@ (r3 :> t2) @@ (c1 :> tc) @@ (c2 :> td)
            @@ (c3 :> te)
To(l, id, post) == [platform |-> l, profile |-> id, post |-> post]
MCTarget == (r1 :> To(twitter, p1, k1)) @@ (r2 :> To(twitter, p2, NoPost))
              @@ (r3 :> To(Lotusia, p2, c1)) @@ (c1 :> To(twitter, p1, k1))
              @@ (c2 :> To(Lotusia, p2, NoPost))
              @@ (c3 :> To(Lotusia, NoProfile, NoPost))
MCAuthor == (c1 :> p2) @@ (c2 :> p1) @@ (c3 :> p1)
MCSats == (r1 :> 5) @@ (r2 :> 0) @@ (r3 :> 3) @@ (c1 :> 7) @@ (c2 :> 4) @@ (c3 :> 1)
MCSentiment == (r1 :> "positive") @@ (r2 :> "neutral") @@ (r3 :> "negative")
=============================================================================
