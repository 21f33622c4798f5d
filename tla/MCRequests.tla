----------------------------- MODULE MCRequests -----------------------------
(***************************************************************************)
(* What a client of the HTTP API meets, one part in a behaviour: the       *)
(* authorization cache, the process with its handlers, the feeds, or the   *)
(* requests of several statements.  The parts share no variable; in the    *)
(* others the process is one that ended, which does nothing.               *)
(***************************************************************************)
EXTENDS AuthCache, Api, Feed, Reads

CONSTANTS w1, w2, h1, h2

VARIABLE part

others == <<authVars, apiVars, feedVars, readVars>>
allVars == <<part, others>>

\* Three blocks, the second of which may be replaced.
MCBlocks == [hash : {h1}, height : 1..3] \cup {[hash |-> h2, height |-> 2]}

\* A confirmed vote, and a post that burned for itself.
Confirmed(p, sats, positive) ==
  [post |-> p, sats |-> sats, positive |-> positive, time |-> 0, comment |-> FALSE]
Burned(p, sats) == [Confirmed(p, sats, TRUE) EXCEPT !.comment = TRUE]

\* Two contested posts, of which one has neither gained nor lost, and a reply.
MCHistories ==
  { << Confirmed("p1", 3, TRUE), Confirmed("p1", 1, FALSE), Burned("p2", 1),
       Confirmed("p3", 1, TRUE), Confirmed("p3", 1, FALSE) >> }

\* Amounts count units of FEED_RANKING_LOG_BASE_SATS, with log2 in tenths, and time
\* counts half lives.
MCLog == <<0, 10, 16, 20, 23, 26, 28, 30, 32>>
MCLeft == [age \in 0..MaxTime |-> 2^(MaxTime - age)]

\* Two platforms have a profile a, one of them a profile b.
MCItems == { [platform |-> "x", id |-> "a"], [platform |-> "y", id |-> "a"],
             [platform |-> "x", id |-> "b"] }
MCBallots ==
  { [item |-> [platform |-> "x", id |-> "b"], wallet |-> w1, positive |-> TRUE, sats |-> 1],
    [item |-> [platform |-> "x", id |-> "b"], wallet |-> w1, positive |-> FALSE, sats |-> 2],
    [item |-> [platform |-> "y", id |-> "a"], wallet |-> w2, positive |-> TRUE, sats |-> 1] }

\* A thread of three posts, whose last two have one author.
MCReplies == 1..3
MCParent == [p \in 1..3 |-> p - 1]
MCAuthor == [p \in 0..3 |-> IF p \in {2, 3} THEN "a" ELSE "b"]

ApiEnded ==
  /\ stage = Len(Parts) /\ listening = FALSE /\ client = FALSE /\ synced = FALSE
  /\ closing = [c \in Closers |-> Len(Parts) + 1]
  /\ exit = 0 /\ cause = "close"
  /\ requests = [s \in Slots |-> Free]

MCInit ==
  /\ part \in {"auth", "api", "feed", "reads"}
  /\ AuthInit /\ FeedInit /\ ReadsInit
  /\ IF part = "api" THEN ApiInit ELSE ApiEnded

AuthPart == part = "auth" /\ AuthNext /\ UNCHANGED <<part, apiVars, feedVars, readVars>>
ApiPart == part = "api" /\ ApiNext /\ UNCHANGED <<part, authVars, feedVars, readVars>>
FeedPart == part = "feed" /\ FeedNext /\ UNCHANGED <<part, authVars, apiVars, readVars>>
ReadsPart == part = "reads" /\ ReadsNext /\ UNCHANGED <<part, authVars, apiVars, feedVars>>

MCNext == AuthPart \/ ApiPart \/ FeedPart \/ ReadsPart

MCSpec == MCInit /\ [][MCNext]_allVars /\ ApiFairness

-----------------------------------------------------------------------------

\* The variables of each part keep their types.
RequestsTypeOK == AuthTypeOK /\ ApiTypeOK /\ FeedTypeOK /\ ReadsTypeOK

=============================================================================
