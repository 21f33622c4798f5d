------------------------------ MODULE Referral ------------------------------
(***************************************************************************)
(* Referral codes and faucet claims (src/lib/api/routes/referral.ts over   *)
(* the tables ReferralCode and FaucetClaim).                               *)
(*                                                                         *)
(* A request is a handler of its own.  It gives way to the others at each  *)
(* await, so an action below is one statement of the database with the     *)
(* check of its result; what a handler has read may be stale when it acts  *)
(* on it.  Requests that fail validation, or the first check, leave no     *)
(* trace and are not modelled.                                             *)
(***************************************************************************)
EXTENDS Naturals, FiniteSets

\* A definition named X_Mutant is a wrong version of X, a bug that a property
\* must reject.  Nothing uses it.

CONSTANTS
  Wallets,         \* script payloads
  Stewardship,     \* REFERRAL_GENESIS_REFERRER
  Nobody,          \* null
  Codes,           \* codes that the HMAC may yield
  Addresses,       \* client IP addresses
  Requests,        \* requests that may be in progress together
  MaxOutstanding,  \* REFERRAL_MAX_OUTSTANDING
  IpLimit,         \* REFERRAL_REDEEM_IP_LIMIT
  BatchLimit,      \* largest batch of genesis codes
  MaxFailures      \* bound on failed statements and crashes

ASSUME ConstantsAssumption ==
  /\ Stewardship \notin Wallets
  /\ Nobody \notin Wallets \cup Codes \cup {Stewardship}
  /\ MaxOutstanding \in Nat /\ IpLimit \in Nat /\ BatchLimit \in Nat
  /\ MaxFailures \in Nat

VARIABLES
  referrer,     \* ReferralCode.referrerPayload, Nobody: no such row
  redeemer,     \* ReferralCode.redeemerPayload, set together with redeemedAt
  redeemerIp,   \* ReferralCode.redeemerIp
  expired,      \* codes whose expiresAt has passed
  recent,       \* codes redeemed within the last 24 hours
  claims,       \* FaucetClaim: the code of each wallet, Nobody: no such row
  drips,        \* first drips that Temporal was told to pay, per wallet
  request,      \* the requests in progress
  failures,     \* number of failed statements and crashes (bound)
  interrupted   \* codes whose redemption such a failure interrupted (history)

codeVars == <<referrer, redeemer, redeemerIp>>
timeVars == <<expired, recent>>
vars == <<codeVars, timeVars, claims, drips, request, failures, interrupted>>

Idle == [step |-> "idle"]

\* What a request does next, and its parameters.
GenerateSteps == {"countOutstanding", "create"}
RedeemSteps == {"getCode", "getClaim", "redeem", "claim", "drip"}
RequestStates ==
  {Idle}
    \cup [step : GenerateSteps, wallet : Wallets]
    \cup [step : RedeemSteps, wallet : Wallets, code : Codes, ip : Addresses]

GoTo(q, step) == request' = [request EXCEPT ![q].step = step]
\* The request is over, answered or failed.
Answer(q) == request' = [request EXCEPT ![q] = Idle]

Outstanding(w) == {c \in Codes : referrer[c] = w /\ redeemer[c] = Nobody /\ c \notin expired}
RecentRedemptions(ip) == {c \in recent : redeemerIp[c] = ip}
Fresh == {c \in Codes : referrer[c] = Nobody}

-----------------------------------------------------------------------------
(* POST /referral/generate *)

\* The count of the referrer's votes was high enough: whose is, the indexer
\* decides, so any wallet's may be.
Generate(q, w) ==
  /\ request[q] = Idle
  /\ request' = [request EXCEPT ![q] = [step |-> "countOutstanding", wallet |-> w]]
  /\ UNCHANGED <<codeVars, timeVars, claims, drips, failures, interrupted>>

CountOutstanding(q) ==
  /\ request[q].step = "countOutstanding"
  /\ IF Cardinality(Outstanding(request[q].wallet)) < MaxOutstanding
     THEN GoTo(q, "create") ELSE Answer(q)
  /\ UNCHANGED <<codeVars, timeVars, claims, drips, failures, interrupted>>

CreateReferralCode(q) ==
  /\ request[q].step = "create"
  /\ \E c \in Codes :
       \/ c \in Fresh /\ referrer' = [referrer EXCEPT ![c] = request[q].wallet]
       \/ c \notin Fresh /\ UNCHANGED referrer   \* the key is taken: create throws
  /\ Answer(q)
  /\ UNCHANGED <<redeemer, redeemerIp, timeVars, claims, drips, failures, interrupted>>

-----------------------------------------------------------------------------
(* POST /referral/redeem *)

Redeem(q, w, c, ip) ==
  /\ request[q] = Idle
  /\ Cardinality(RecentRedemptions(ip)) < IpLimit
  /\ request' = [request EXCEPT ![q] =
                   [step |-> "getCode", wallet |-> w, code |-> c, ip |-> ip]]
  /\ UNCHANGED <<codeVars, timeVars, claims, drips, failures, interrupted>>

GetReferralCode(q) ==
  LET c == request[q].code IN
  /\ request[q].step = "getCode"
  /\ IF /\ referrer[c] \notin {Nobody, request[q].wallet}
        /\ redeemer[c] = Nobody
        /\ c \notin expired
     THEN GoTo(q, "getClaim") ELSE Answer(q)
  /\ UNCHANGED <<codeVars, timeVars, claims, drips, failures, interrupted>>

GetFaucetClaim(q) ==
  /\ request[q].step = "getClaim"
  /\ IF claims[request[q].wallet] = Nobody THEN GoTo(q, "redeem") ELSE Answer(q)
  /\ UNCHANGED <<codeVars, timeVars, claims, drips, failures, interrupted>>

\* The row that the update of redeemReferralCode looks for: unredeemed still
\* (mutant: by the code alone).
Redeemable_Mutant(c) == referrer[c] # Nobody
Redeemable(c) == referrer[c] # Nobody /\ redeemer[c] = Nobody

\* The claim is created before the drip is ordered (mutant: it is forgotten).
AfterRedeem_Mutant == "drip"
AfterRedeem == "claim"

RedeemReferralCode(q) ==
  LET c == request[q].code IN
  /\ request[q].step = "redeem"
  /\ \/ /\ Redeemable(c)
        /\ redeemer' = [redeemer EXCEPT ![c] = request[q].wallet]
        /\ redeemerIp' = [redeemerIp EXCEPT ![c] = request[q].ip]
        /\ recent' = recent \cup {c}
        /\ GoTo(q, AfterRedeem)
     \/ /\ ~Redeemable(c)
        /\ Answer(q)
        /\ UNCHANGED <<redeemer, redeemerIp, recent>>
  /\ UNCHANGED <<referrer, expired, claims, drips, failures, interrupted>>

\* The wallet is the key of FaucetClaim: a second claim throws (in the
\* mutant the insertion became an upsert).
Claimable_Mutant(w) == TRUE
Claimable(w) == claims[w] = Nobody

CreateFaucetClaim(q) ==
  LET w == request[q].wallet IN
  /\ request[q].step = "claim"
  /\ \/ /\ Claimable(w)
        /\ claims' = [claims EXCEPT ![w] = request[q].code]
        /\ GoTo(q, "drip")
     \/ /\ ~Claimable(w)
        /\ Answer(q)
        /\ UNCHANGED claims
  /\ UNCHANGED <<codeVars, timeVars, drips, failures, interrupted>>

\* The signal to Temporal is sent once; its failure is logged and forgotten.
SignalDrip(q) ==
  /\ request[q].step = "drip"
  /\ \/ drips' = [drips EXCEPT ![request[q].wallet] = @ + 1]
     \/ UNCHANGED drips
  /\ Answer(q)
  /\ UNCHANGED <<codeVars, timeVars, claims, failures, interrupted>>

-----------------------------------------------------------------------------
(* POST /admin/referral/genesis: one createMany *)

CreateReferralCodeBatch(batch) ==
  /\ batch # {} /\ Cardinality(batch) <= BatchLimit
  /\ referrer' = [c \in Codes |-> IF c \in batch THEN Stewardship ELSE referrer[c]]
  /\ UNCHANGED <<redeemer, redeemerIp, timeVars, claims, drips, request,
                 failures, interrupted>>

-----------------------------------------------------------------------------
(* Time, the indexer, and failures *)

Expire(c) ==
  /\ c \notin expired /\ referrer[c] # Nobody
  /\ expired' = expired \cup {c}
  /\ UNCHANGED <<codeVars, recent, claims, drips, request, failures, interrupted>>

DayPasses(c) ==
  /\ c \in recent
  /\ recent' = recent \ {c}
  /\ UNCHANGED <<codeVars, expired, claims, drips, request, failures, interrupted>>

Redeemed(Q) == {request[q].code : q \in {p \in Q : request[p].step = "claim"}}

\* A statement of a request fails, and the request with it.
StatementFails(q) ==
  /\ failures < MaxFailures
  /\ request[q].step \notin {"idle", "drip"}
  /\ Answer(q)
  /\ failures' = failures + 1
  /\ interrupted' = interrupted \cup Redeemed({q})
  /\ UNCHANGED <<codeVars, timeVars, claims, drips>>

\* The process ends, and every request with it.
Crash ==
  /\ failures < MaxFailures
  /\ request' = [q \in Requests |-> Idle]
  /\ failures' = failures + 1
  /\ interrupted' = interrupted \cup Redeemed(Requests)
  /\ UNCHANGED <<codeVars, timeVars, claims, drips>>

-----------------------------------------------------------------------------

Init ==
  /\ referrer = [c \in Codes |-> Nobody]
  /\ redeemer = [c \in Codes |-> Nobody]
  /\ redeemerIp = [c \in Codes |-> Nobody]
  /\ expired = {} /\ recent = {}
  /\ claims = [w \in Wallets |-> Nobody]
  /\ drips = [w \in Wallets |-> 0]
  /\ request = [q \in Requests |-> Idle]
  /\ failures = 0 /\ interrupted = {}

RequestStep(q) ==
  \/ \E w \in Wallets : Generate(q, w)
  \/ CountOutstanding(q) \/ CreateReferralCode(q)
  \/ \E w \in Wallets, c \in Codes, ip \in Addresses : Redeem(q, w, c, ip)
  \/ GetReferralCode(q) \/ GetFaucetClaim(q)
  \/ RedeemReferralCode(q) \/ CreateFaucetClaim(q) \/ SignalDrip(q)
  \/ StatementFails(q)

Next ==
  \/ \E q \in Requests : RequestStep(q)
  \/ \E batch \in SUBSET Fresh : CreateReferralCodeBatch(batch)
  \/ \E c \in Codes : Expire(c) \/ DayPasses(c)
  \/ Crash

Spec == Init /\ [][Next]_vars

-----------------------------------------------------------------------------
(* Properties *)

TypeOK ==
  /\ referrer \in [Codes -> Wallets \cup {Stewardship, Nobody}]
  /\ redeemer \in [Codes -> Wallets \cup {Nobody}]
  /\ redeemerIp \in [Codes -> Addresses \cup {Nobody}]
  /\ expired \in SUBSET Codes /\ recent \in SUBSET Codes
  /\ claims \in [Wallets -> Codes \cup {Nobody}]
  /\ drips \in [Wallets -> Nat]
  /\ request \in [Requests -> RequestStates]
  /\ failures \in Nat /\ interrupted \in SUBSET Codes

\* A claim rests on a code that this very wallet redeemed and somebody else
\* created, however many requests compete for the code and for the wallet.
ClaimIsRedeemed ==
  \A w \in Wallets : claims[w] # Nobody =>
    /\ redeemer[claims[w]] = w
    /\ referrer[claims[w]] \notin {Nobody, w}

\* The first drip of a wallet is ordered once at most, and never without a
\* claim, although two requests of one wallet can both pass every check.
DripOnce ==
  \A w \in Wallets :
    /\ drips[w] <= 1
    /\ drips[w] = 1 => claims[w] # Nobody

\* A wallet that redeemed a code has a claim, or a request about to create
\* it, unless a failure fell exactly between the two statements: they are not
\* in one transaction.
RedeemedHasClaim ==
  \A c \in Codes : redeemer[c] # Nobody =>
    \/ claims[redeemer[c]] # Nobody
    \/ \E q \in Requests : request[q].step = "claim" /\ request[q].code = c
    \/ c \in interrupted

\* A code is redeemed once: no request takes it over from the first, and a
\* claim never moves to another code.
RedeemedForGood ==
  [][/\ \A c \in Codes : redeemer[c] # Nobody => redeemer'[c] = redeemer[c]
     /\ \A w \in Wallets : claims[w] # Nobody => claims'[w] = claims[w]]_vars

\* src/schema.prisma:261 "one referral per wallet".
OneReferralPerWallet ==
  \A w \in Wallets : Cardinality({c \in Codes : redeemer[c] = w}) <= 1

=============================================================================
