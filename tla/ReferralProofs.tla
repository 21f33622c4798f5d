--------------------------- MODULE ReferralProofs ---------------------------
(***************************************************************************)
(* The safety of the referral codes, for any number of wallets, codes and  *)
(* requests: IInv is inductive, and the invariants that MCReferral checks  *)
(* are among its conjuncts.  Nothing is assumed of what a request read     *)
(* some statements ago, but that a code keeps its referrer.                *)
(***************************************************************************)
EXTENDS Referral, TLAPS

\* A code that passed the checks was created by another wallet.
CheckedCode ==
  \A q \in Requests : request[q].step \in {"getClaim", "redeem", "claim"} =>
    referrer[request[q].code] \notin {Nobody, request[q].wallet}

\* A request about to create the claim has redeemed its code.
PendingClaim ==
  \A q \in Requests : request[q].step = "claim" =>
    redeemer[request[q].code] = request[q].wallet

\* A request about to order the drip is the only one of its wallet, and
\* nobody has ordered it before.
PendingDrip ==
  \A q \in Requests : request[q].step = "drip" =>
    /\ claims[request[q].wallet] # Nobody
    /\ drips[request[q].wallet] = 0
    /\ \A p \in Requests \ {q} :
         request[p].step = "drip" => request[p].wallet # request[q].wallet

IInv ==
  /\ TypeOK
  /\ ClaimIsRedeemed
  /\ DripOnce
  /\ RedeemedHasClaim
  /\ CheckedCode
  /\ PendingClaim
  /\ PendingDrip

\* The tables start empty.
LEMMA InitInv == Init => IInv
  BY ConstantsAssumption DEF Init, IInv, TypeOK, RequestStates, Idle, ClaimIsRedeemed, DripOnce,
     RedeemedHasClaim, CheckedCode, PendingClaim, PendingDrip

-----------------------------------------------------------------------------
(* What moving a request on does to it.                                    *)

\* A request in the middle of a redemption has a wallet and a code.
LEMMA RedeemRequest ==
  ASSUME TypeOK, NEW q \in Requests, request[q].step \in RedeemSteps
  PROVE  request[q] \in [step : RedeemSteps, wallet : Wallets, code : Codes, ip : Addresses]
  BY DEF TypeOK, RequestStates, Idle, GenerateSteps, RedeemSteps

\* The next statement of a request: its parameters stay.
LEMMA GoToRequest ==
  ASSUME TypeOK, NEW q \in Requests, NEW s \in RedeemSteps,
         request[q].step \in RedeemSteps, GoTo(q, s)
  PROVE  /\ request' \in [Requests -> RequestStates]
         /\ request'[q].step = s
         /\ request'[q].wallet = request[q].wallet
         /\ request'[q].code = request[q].code
         /\ \A p \in Requests \ {q} : request'[p] = request[p]
<1>1. request[q] \in [step : RedeemSteps, wallet : Wallets, code : Codes, ip : Addresses]
  BY RedeemRequest
<1>2. request' = [request EXCEPT ![q] = [request[q] EXCEPT !.step = s]]
  BY DEF GoTo
<1>3. [request[q] EXCEPT !.step = s]
        \in [step : RedeemSteps, wallet : Wallets, code : Codes, ip : Addresses]
  BY <1>1
<1> QED BY <1>1, <1>2, <1>3 DEF TypeOK, RequestStates

\* The answer to a request ends it.
LEMMA AnswerRequest ==
  ASSUME TypeOK, NEW q \in Requests, Answer(q)
  PROVE  /\ request' \in [Requests -> RequestStates]
         /\ request'[q].step = "idle"
         /\ \A p \in Requests \ {q} : request'[p] = request[p]
  BY DEF TypeOK, Answer, RequestStates, Idle

-----------------------------------------------------------------------------
(* Every action keeps IInv.                                                *)

\* A step of a request that only reads, and brings it neither to the claim nor
\* to the drip.
LEMMA ReadInv ==
  ASSUME IInv, NEW q \in Requests,
         UNCHANGED <<codeVars, timeVars, claims, drips, failures, interrupted>>,
         request' \in [Requests -> RequestStates],
         \A p \in Requests \ {q} : request'[p] = request[p],
         request[q].step # "claim",
         request'[q].step \notin {"claim", "drip"},
         request'[q].step \in {"getClaim", "redeem"} =>
           referrer[request'[q].code] \notin {Nobody, request'[q].wallet}
  PROVE  IInv'
<1> USE DEF codeVars, timeVars
<1>1. TypeOK' /\ ClaimIsRedeemed' /\ DripOnce'
  BY DEF IInv, TypeOK, ClaimIsRedeemed, DripOnce
<1>2. RedeemedHasClaim'
  BY DEF IInv, RedeemedHasClaim
<1>3. CheckedCode' /\ PendingClaim'
  BY DEF IInv, CheckedCode, PendingClaim
<1>4. PendingDrip'
  BY DEF IInv, PendingDrip
<1> QED BY <1>1, <1>2, <1>3, <1>4 DEF IInv

\* POST /referral/generate reads, then creates a code that nobody has.
LEMMA GenerateInv ==
  ASSUME IInv, NEW q \in Requests,
         \/ \E w \in Wallets : Generate(q, w)
         \/ CountOutstanding(q)
  PROVE  IInv'
<1>1. CASE \E w \in Wallets : Generate(q, w)
  <2> PICK w \in Wallets : Generate(q, w)
    BY <1>1
  <2>1. /\ request' \in [Requests -> RequestStates]
        /\ request'[q].step = "countOutstanding"
        /\ \A p \in Requests \ {q} : request'[p] = request[p]
    BY DEF Generate, IInv, TypeOK, RequestStates, GenerateSteps
  <2> QED BY <2>1, ReadInv DEF Generate, Idle
<1>2. CASE CountOutstanding(q)
  <2>1. TypeOK /\ request[q].step = "countOutstanding"
    BY <1>2 DEF CountOutstanding, IInv
  <2>2. CASE Answer(q)
    BY <1>2, <2>1, <2>2, AnswerRequest, ReadInv DEF CountOutstanding
  <2>3. CASE GoTo(q, "create")
    <3>1. request[q] \in [step : GenerateSteps, wallet : Wallets]
      BY <2>1 DEF TypeOK, RequestStates, Idle, RedeemSteps
    <3>2. [request[q] EXCEPT !.step = "create"] \in [step : GenerateSteps, wallet : Wallets]
      BY <3>1 DEF GenerateSteps
    <3>3. request' = [request EXCEPT ![q] = [request[q] EXCEPT !.step = "create"]]
      BY <2>3 DEF GoTo
    <3>4. /\ request' \in [Requests -> RequestStates]
          /\ request'[q].step = "create"
          /\ \A p \in Requests \ {q} : request'[p] = request[p]
      BY <2>1, <3>1, <3>2, <3>3 DEF TypeOK, RequestStates
    <3> QED BY <1>2, <2>1, <3>4, ReadInv DEF CountOutstanding
  <2> QED BY <1>2, <2>2, <2>3 DEF CountOutstanding
<1> QED BY <1>1, <1>2

\* New codes take nothing away: the referrer of a code never changes.
LEMMA NewCodesInv ==
  ASSUME IInv,
         referrer' \in [Codes -> Wallets \cup {Stewardship, Nobody}],
         \A c \in Codes : referrer[c] # Nobody => referrer'[c] = referrer[c],
         UNCHANGED <<redeemer, redeemerIp, timeVars, claims, drips, failures, interrupted>>,
         request' \in [Requests -> RequestStates],
         \A q \in Requests : \/ request'[q] = request[q]
                             \/ request'[q].step = "idle" /\ request[q].step = "create"
  PROVE  IInv'
<1> USE DEF timeVars
<1>1. TypeOK' /\ DripOnce'
  BY DEF IInv, TypeOK, DripOnce
<1>2. ClaimIsRedeemed'
  BY DEF IInv, TypeOK, ClaimIsRedeemed
<1>3. RedeemedHasClaim'
  BY DEF IInv, RedeemedHasClaim
<1>4. CheckedCode'
  <2> SUFFICES ASSUME NEW q \in Requests, request'[q].step \in {"getClaim", "redeem", "claim"}
               PROVE  referrer'[request'[q].code] \notin {Nobody, request'[q].wallet}
    BY DEF CheckedCode
  <2>1. request'[q] = request[q]
    OBVIOUS
  <2>2. request[q].code \in Codes
    BY <2>1, RedeemRequest DEF IInv, RedeemSteps
  <2> QED BY <2>1, <2>2 DEF IInv, CheckedCode
<1>5. PendingClaim' /\ PendingDrip'
  BY DEF IInv, PendingClaim, PendingDrip
<1> QED BY <1>1, <1>2, <1>3, <1>4, <1>5 DEF IInv

\* The insertion of a code by its owner's request.
LEMMA CreateReferralCodeInv ==
  ASSUME IInv, NEW q \in Requests, CreateReferralCode(q)
  PROVE  IInv'
<1>1. TypeOK /\ request[q].step = "create" /\ Answer(q)
  BY DEF IInv, CreateReferralCode
<1>2. request[q].wallet \in Wallets
  BY <1>1 DEF TypeOK, RequestStates, Idle, RedeemSteps
<1>3. /\ referrer' \in [Codes -> Wallets \cup {Stewardship, Nobody}]
      /\ \A c \in Codes : referrer[c] # Nobody => referrer'[c] = referrer[c]
  BY <1>1, <1>2 DEF CreateReferralCode, Fresh, TypeOK
<1> QED BY <1>1, <1>3, AnswerRequest, NewCodesInv DEF CreateReferralCode

\* The insertion of the genesis codes.
LEMMA BatchInv ==
  ASSUME IInv, NEW batch \in SUBSET Fresh, CreateReferralCodeBatch(batch)
  PROVE  IInv'
<1>1. /\ referrer' \in [Codes -> Wallets \cup {Stewardship, Nobody}]
      /\ \A c \in Codes : referrer[c] # Nobody => referrer'[c] = referrer[c]
  BY DEF IInv, TypeOK, CreateReferralCodeBatch, Fresh
<1> QED BY <1>1, NewCodesInv DEF CreateReferralCodeBatch, IInv, TypeOK

\* The checks of POST /referral/redeem.
LEMMA RedeemChecksInv ==
  ASSUME IInv, NEW q \in Requests,
         \/ \E w \in Wallets, c \in Codes, ip \in Addresses : Redeem(q, w, c, ip)
         \/ GetReferralCode(q) \/ GetFaucetClaim(q)
  PROVE  IInv'
<1>1. CASE \E w \in Wallets, c \in Codes, ip \in Addresses : Redeem(q, w, c, ip)
  <2> PICK w \in Wallets, c \in Codes, ip \in Addresses : Redeem(q, w, c, ip)
    BY <1>1
  <2>1. /\ request' \in [Requests -> RequestStates]
        /\ request'[q].step = "getCode"
        /\ \A p \in Requests \ {q} : request'[p] = request[p]
    BY DEF Redeem, IInv, TypeOK, RequestStates, RedeemSteps
  <2> QED BY <2>1, ReadInv DEF Redeem, Idle
<1>2. CASE GetReferralCode(q)
  <2>1. TypeOK /\ request[q].step = "getCode" /\ request[q].step \in RedeemSteps
    BY <1>2 DEF GetReferralCode, IInv, RedeemSteps
  <2>2. CASE Answer(q)
    BY <1>2, <2>1, <2>2, AnswerRequest, ReadInv DEF GetReferralCode
  <2>3. CASE GoTo(q, "getClaim") /\ referrer[request[q].code] \notin {Nobody, request[q].wallet}
    <3>1. "getClaim" \in RedeemSteps
      BY DEF RedeemSteps
    <3> QED BY <1>2, <2>1, <2>3, <3>1, GoToRequest, ReadInv DEF GetReferralCode
  <2> QED BY <1>2, <2>2, <2>3 DEF GetReferralCode
<1>3. CASE GetFaucetClaim(q)
  <2>1. TypeOK /\ request[q].step = "getClaim" /\ request[q].step \in RedeemSteps
    BY <1>3 DEF GetFaucetClaim, IInv, RedeemSteps
  <2>2. CASE Answer(q)
    BY <1>3, <2>1, <2>2, AnswerRequest, ReadInv DEF GetFaucetClaim
  <2>3. CASE GoTo(q, "redeem")
    <3>1. "redeem" \in RedeemSteps
      BY DEF RedeemSteps
    <3>2. referrer[request[q].code] \notin {Nobody, request[q].wallet}
      BY <2>1 DEF IInv, CheckedCode
    <3> QED BY <1>3, <2>1, <2>3, <3>1, <3>2, GoToRequest, ReadInv DEF GetFaucetClaim
  <2> QED BY <1>3, <2>2, <2>3 DEF GetFaucetClaim
<1> QED BY <1>1, <1>2, <1>3

\* A redemption: the code had no redeemer, so that no claim and no other
\* request rests on it.
LEMMA RedeemReferralCodeInv ==
  ASSUME IInv, NEW q \in Requests, RedeemReferralCode(q)
  PROVE  IInv'
<1> DEFINE c == request[q].code
           w == request[q].wallet
<1>1. TypeOK /\ request[q].step = "redeem" /\ "redeem" \in RedeemSteps /\ "claim" \in RedeemSteps
  BY DEF RedeemReferralCode, IInv, RedeemSteps
<1>2. c \in Codes /\ w \in Wallets /\ request[q].ip \in Addresses
  BY <1>1, RedeemRequest
<1>3. CASE Redeemable(c) /\ GoTo(q, "claim")
           /\ redeemer' = [redeemer EXCEPT ![c] = w]
           /\ redeemerIp' = [redeemerIp EXCEPT ![c] = request[q].ip]
           /\ recent' = recent \cup {c}
  <2>1. /\ request' \in [Requests -> RequestStates]
        /\ request'[q].step = "claim" /\ request'[q].wallet = w /\ request'[q].code = c
        /\ \A p \in Requests \ {q} : request'[p] = request[p]
    BY <1>1, <1>3, GoToRequest
  <2>2. UNCHANGED <<referrer, expired, claims, drips, failures, interrupted>>
    BY DEF RedeemReferralCode
  <2>3. redeemer[c] = Nobody /\ redeemer'[c] = w
        /\ \A d \in Codes \ {c} : redeemer'[d] = redeemer[d]
    BY <1>1, <1>2, <1>3 DEF Redeemable, TypeOK
  <2>4. Nobody \notin Wallets
    BY ConstantsAssumption
  <2>5. TypeOK'
    BY <1>1, <1>2, <1>3, <2>1, <2>2 DEF TypeOK
  <2>6. DripOnce'
    BY <2>2 DEF IInv, DripOnce
  <2>7. ClaimIsRedeemed'
    BY <1>1, <2>2, <2>3, <2>4 DEF IInv, ClaimIsRedeemed, TypeOK
  <2>8. RedeemedHasClaim'
    <3> SUFFICES ASSUME NEW d \in Codes, redeemer'[d] # Nobody
                 PROVE  \/ claims'[redeemer'[d]] # Nobody
                        \/ \E p \in Requests : request'[p].step = "claim" /\ request'[p].code = d
                        \/ d \in interrupted'
      BY DEF RedeemedHasClaim
    <3>1. CASE d = c
      BY <2>1, <3>1
    <3>2. CASE d # c
      BY <1>1, <2>1, <2>2, <2>3, <3>2 DEF IInv, RedeemedHasClaim
    <3> QED BY <3>1, <3>2
  <2>9. CheckedCode'
    BY <1>1, <2>1, <2>2 DEF IInv, CheckedCode
  <2>10. PendingClaim'
    <3> SUFFICES ASSUME NEW p \in Requests, request'[p].step = "claim"
                 PROVE  redeemer'[request'[p].code] = request'[p].wallet
      BY DEF PendingClaim
    <3>1. CASE p = q
      BY <2>1, <2>3, <3>1
    <3>2. CASE p # q
      <4>1. request'[p] = request[p] /\ request[p].step \in RedeemSteps
        BY <2>1, <3>2 DEF RedeemSteps
      <4>2. request[p].code \in Codes /\ request[p].wallet \in Wallets
        BY <1>1, <4>1, RedeemRequest
      <4> QED BY <2>3, <2>4, <4>1, <4>2 DEF IInv, PendingClaim
    <3> QED BY <3>1, <3>2
  <2>11. PendingDrip'
    BY <2>1, <2>2 DEF IInv, PendingDrip
  <2> QED BY <2>5, <2>6, <2>7, <2>8, <2>9, <2>10, <2>11 DEF IInv
<1>4. CASE Answer(q) /\ UNCHANGED <<redeemer, redeemerIp, recent>>
  BY <1>1, <1>4, AnswerRequest, ReadInv DEF RedeemReferralCode, codeVars, timeVars
<1> QED BY <1>3, <1>4 DEF RedeemReferralCode, AfterRedeem

\* A claim is created once for a wallet, on the code that it has redeemed.
LEMMA CreateFaucetClaimInv ==
  ASSUME IInv, NEW q \in Requests, CreateFaucetClaim(q)
  PROVE  IInv'
<1> DEFINE c == request[q].code
           w == request[q].wallet
<1> USE DEF codeVars, timeVars
<1>1. /\ TypeOK /\ request[q].step = "claim" /\ "claim" \in RedeemSteps /\ "drip" \in RedeemSteps
      /\ UNCHANGED <<codeVars, timeVars, drips, failures, interrupted>>
  BY DEF CreateFaucetClaim, IInv, RedeemSteps
<1>2. c \in Codes /\ w \in Wallets /\ Nobody \notin Codes
  BY <1>1, RedeemRequest, ConstantsAssumption
<1>3. redeemer[c] = w /\ referrer[c] \notin {Nobody, w}
  BY <1>1 DEF IInv, PendingClaim, CheckedCode
<1>4. CASE claims[w] = Nobody /\ claims' = [claims EXCEPT ![w] = c] /\ GoTo(q, "drip")
  <2>1. /\ request' \in [Requests -> RequestStates]
        /\ request'[q].step = "drip" /\ request'[q].wallet = w /\ request'[q].code = c
        /\ \A p \in Requests \ {q} : request'[p] = request[p]
    BY <1>1, <1>4, GoToRequest
  <2>2. claims'[w] = c /\ \A v \in Wallets \ {w} : claims'[v] = claims[v]
    BY <1>1, <1>2, <1>4 DEF TypeOK
  <2>3. TypeOK'
    BY <1>1, <1>2, <1>4, <2>1 DEF TypeOK
  <2>4. ClaimIsRedeemed'
    BY <1>1, <1>3, <2>2 DEF IInv, ClaimIsRedeemed
  <2>5. DripOnce'
    BY <1>1, <1>2, <2>2 DEF IInv, DripOnce
  <2>6. RedeemedHasClaim'
    <3> SUFFICES ASSUME NEW d \in Codes, redeemer[d] # Nobody
                 PROVE  \/ claims'[redeemer[d]] # Nobody
                        \/ \E p \in Requests : request'[p].step = "claim" /\ request'[p].code = d
                        \/ d \in interrupted
      BY <1>1 DEF RedeemedHasClaim
    <3>1. redeemer[d] \in Wallets
      BY <1>1 DEF TypeOK
    <3>2. CASE redeemer[d] = w
      BY <1>2, <2>2, <3>2
    <3>3. CASE redeemer[d] # w
      <4>1. d # c
        BY <1>3, <3>3
      <4> QED BY <1>1, <2>1, <2>2, <3>1, <3>3, <4>1 DEF IInv, RedeemedHasClaim
    <3> QED BY <3>2, <3>3
  <2>7. CheckedCode' /\ PendingClaim'
    BY <1>1, <2>1 DEF IInv, CheckedCode, PendingClaim
  <2>8. drips[w] = 0
    BY <1>1, <1>2, <1>4 DEF IInv, DripOnce, TypeOK
  <2>9. PendingDrip'
    <3>1. \A p \in Requests : request[p].step = "drip" => request[p].wallet # w
      BY <1>4 DEF IInv, PendingDrip
    <3> SUFFICES ASSUME NEW p \in Requests, request'[p].step = "drip"
                 PROVE  /\ claims'[request'[p].wallet] # Nobody
                        /\ drips[request'[p].wallet] = 0
                        /\ \A r \in Requests \ {p} :
                             request'[r].step = "drip" => request'[r].wallet # request'[p].wallet
      BY <1>1 DEF PendingDrip
    <3>2. CASE p = q
      BY <1>2, <2>1, <2>2, <2>8, <3>1, <3>2
    <3>3. CASE p # q
      <4>1. request'[p] = request[p] /\ request[p].wallet # w
        BY <2>1, <3>1, <3>3
      <4>2. request[p].wallet \in Wallets
        BY <1>1, <4>1, RedeemRequest DEF RedeemSteps
      <4> QED BY <1>1, <2>1, <2>2, <4>1, <4>2 DEF IInv, PendingDrip
    <3> QED BY <3>2, <3>3
  <2> QED BY <2>3, <2>4, <2>5, <2>6, <2>7, <2>9 DEF IInv
<1>5. CASE claims[w] # Nobody /\ Answer(q) /\ UNCHANGED claims
  <2>1. /\ request' \in [Requests -> RequestStates]
        /\ request'[q].step = "idle"
        /\ \A p \in Requests \ {q} : request'[p] = request[p]
    BY <1>1, <1>5, AnswerRequest
  <2>2. TypeOK' /\ ClaimIsRedeemed' /\ DripOnce'
    BY <1>1, <1>5, <2>1 DEF IInv, TypeOK, ClaimIsRedeemed, DripOnce
  <2>3. RedeemedHasClaim'
    BY <1>1, <1>3, <1>5, <2>1 DEF IInv, RedeemedHasClaim
  <2>4. CheckedCode' /\ PendingClaim' /\ PendingDrip'
    BY <1>1, <1>5, <2>1 DEF IInv, CheckedCode, PendingClaim, PendingDrip
  <2> QED BY <2>2, <2>3, <2>4 DEF IInv
<1> QED BY <1>4, <1>5 DEF CreateFaucetClaim, Claimable

\* The drip is ordered, or lost, once.
LEMMA SignalDripInv ==
  ASSUME IInv, NEW q \in Requests, SignalDrip(q)
  PROVE  IInv'
<1> DEFINE w == request[q].wallet
<1> USE DEF codeVars, timeVars
<1>1. /\ TypeOK /\ request[q].step = "drip" /\ "drip" \in RedeemSteps
      /\ UNCHANGED <<codeVars, timeVars, claims, failures, interrupted>>
  BY DEF SignalDrip, IInv, RedeemSteps
<1>2. w \in Wallets /\ claims[w] # Nobody /\ drips[w] = 0
  BY <1>1, RedeemRequest DEF IInv, PendingDrip
<1>3. /\ request' \in [Requests -> RequestStates]
      /\ request'[q].step = "idle"
      /\ \A p \in Requests \ {q} : request'[p] = request[p]
  BY <1>1, AnswerRequest DEF SignalDrip
<1>4. drips' \in [Wallets -> Nat] /\ drips'[w] \in {0, 1}
      /\ \A v \in Wallets \ {w} : drips'[v] = drips[v]
  BY <1>1, <1>2 DEF SignalDrip, TypeOK
<1>5. TypeOK' /\ ClaimIsRedeemed'
  BY <1>1, <1>3, <1>4 DEF IInv, TypeOK, ClaimIsRedeemed
<1>6. DripOnce'
  BY <1>1, <1>2, <1>4 DEF IInv, DripOnce
<1>7. RedeemedHasClaim' /\ CheckedCode' /\ PendingClaim'
  BY <1>1, <1>3 DEF IInv, RedeemedHasClaim, CheckedCode, PendingClaim
<1>8. PendingDrip'
  <2> SUFFICES ASSUME NEW p \in Requests \ {q}, request[p].step = "drip"
               PROVE  /\ claims[request[p].wallet] # Nobody
                      /\ drips'[request[p].wallet] = 0
                      /\ \A r \in Requests \ {p} :
                           request'[r].step = "drip" => request'[r].wallet # request[p].wallet
    BY <1>1, <1>3 DEF PendingDrip
  <2>1. request[p].wallet \in Wallets /\ request[p].wallet # w
    BY <1>1, RedeemRequest DEF IInv, PendingDrip
  <2> QED BY <1>3, <1>4, <2>1 DEF IInv, PendingDrip
<1> QED BY <1>5, <1>6, <1>7, <1>8 DEF IInv

\* A request, or all of them, ends; what a redemption lost is on record.
LEMMA FailureInv ==
  ASSUME IInv, (\E q \in Requests : StatementFails(q)) \/ Crash
  PROVE  IInv'
<1> USE DEF codeVars, timeVars
<1>1. PICK Q \in SUBSET Requests :
        /\ request' = [q \in Requests |-> IF q \in Q THEN Idle ELSE request[q]]
        /\ interrupted' = interrupted \cup Redeemed(Q)
        /\ failures' = failures + 1
        /\ UNCHANGED <<codeVars, timeVars, claims, drips>>
  <2>1. CASE Crash
    <3> WITNESS Requests \in SUBSET Requests
    <3> QED BY <2>1 DEF Crash
  <2>2. CASE \E q \in Requests : StatementFails(q)
    <3> PICK q \in Requests : StatementFails(q)
      BY <2>2
    <3> WITNESS {q} \in SUBSET Requests
    <3>1. request' = [p \in Requests |-> IF p \in {q} THEN Idle ELSE request[p]]
      BY DEF StatementFails, Answer, IInv, TypeOK
    <3> QED BY <3>1 DEF StatementFails
  <2> QED BY <2>1, <2>2
<1>2. \A q \in Requests : request'[q] = IF q \in Q THEN Idle ELSE request[q]
  BY <1>1
<1>3. TypeOK
  BY DEF IInv
<1>4. Redeemed(Q) \in SUBSET Codes
  <2> SUFFICES ASSUME NEW q \in Q, request[q].step = "claim" PROVE request[q].code \in Codes
    BY DEF Redeemed
  <2> QED BY <1>3, RedeemRequest DEF RedeemSteps
<1>5. TypeOK'
  BY <1>1, <1>3, <1>4 DEF TypeOK, RequestStates
<1>6. ClaimIsRedeemed' /\ DripOnce'
  BY <1>1 DEF IInv, ClaimIsRedeemed, DripOnce
<1>7. RedeemedHasClaim'
  <2> SUFFICES ASSUME NEW c \in Codes, redeemer[c] # Nobody, claims[redeemer[c]] = Nobody,
                      c \notin interrupted'
               PROVE  \E q \in Requests : request'[q].step = "claim" /\ request'[q].code = c
    BY <1>1 DEF RedeemedHasClaim
  <2>1. PICK q \in Requests : request[q].step = "claim" /\ request[q].code = c
    BY <1>1 DEF IInv, RedeemedHasClaim
  <2>2. q \notin Q
    BY <1>1, <2>1 DEF Redeemed
  <2> QED BY <1>2, <2>1, <2>2
<1>8. CheckedCode' /\ PendingClaim'
  BY <1>1, <1>2 DEF IInv, CheckedCode, PendingClaim, Idle
<1>9. PendingDrip'
  BY <1>1, <1>2 DEF IInv, PendingDrip, Idle
<1> QED BY <1>5, <1>6, <1>7, <1>8, <1>9 DEF IInv

\* The passage of time is nothing that the invariant depends on.
LEMMA TimeInv ==
  ASSUME IInv, UNCHANGED <<codeVars, claims, drips, request, failures, interrupted>>,
         expired' \in SUBSET Codes, recent' \in SUBSET Codes
  PROVE  IInv'
  BY DEF codeVars, IInv, TypeOK, ClaimIsRedeemed, DripOnce, RedeemedHasClaim,
     CheckedCode, PendingClaim, PendingDrip

-----------------------------------------------------------------------------
(* The theorems.                                                           *)

\* Every step of the requests, of the administrator and of time keeps IInv.
LEMMA NextInv == IInv /\ [Next]_vars => IInv'
<1> SUFFICES ASSUME IInv, [Next]_vars PROVE IInv'
  OBVIOUS
<1>1. CASE \E q \in Requests : RequestStep(q)
  BY <1>1, GenerateInv, CreateReferralCodeInv, RedeemChecksInv, RedeemReferralCodeInv,
     CreateFaucetClaimInv, SignalDripInv, FailureInv DEF RequestStep
<1>2. CASE \E batch \in SUBSET Fresh : CreateReferralCodeBatch(batch)
  BY <1>2, BatchInv
<1>3. CASE \E c \in Codes : Expire(c) \/ DayPasses(c)
  BY <1>3, TimeInv DEF Expire, DayPasses, IInv, TypeOK
<1>4. CASE Crash
  BY <1>4, FailureInv
<1>5. CASE UNCHANGED vars
  BY <1>5, TimeInv DEF vars, timeVars, IInv, TypeOK
<1> QED BY <1>1, <1>2, <1>3, <1>4, <1>5 DEF Next

\* The inductive invariant, whatever the constants.
THEOREM Invariance == Spec => []IInv
  BY InitInv, NextInv, PTL DEF Spec

\* The tables and the requests keep their types.
THEOREM TypeCorrect == Spec => []TypeOK
<1>1. IInv => TypeOK
  BY DEF IInv
<1> QED BY <1>1, Invariance, PTL

\* A claim always rests on a code that its wallet redeemed and another created.
THEOREM ClaimsAreRedeemed == Spec => []ClaimIsRedeemed
<1>1. IInv => ClaimIsRedeemed
  BY DEF IInv
<1> QED BY <1>1, Invariance, PTL

\* No interleaving of redemptions orders the first drip of a wallet twice.
THEOREM DripsOnce == Spec => []DripOnce
<1>1. IInv => DripOnce
  BY DEF IInv
<1> QED BY <1>1, Invariance, PTL

\* A code is redeemed without a claim only if a failure came in between.
THEOREM RedeemedHasItsClaim == Spec => []RedeemedHasClaim
<1>1. IInv => RedeemedHasClaim
  BY DEF IInv
<1> QED BY <1>1, Invariance, PTL

\* The first redemption of a code is its last, and a claim keeps its code.
THEOREM RedemptionsAreForGood == Spec => RedeemedForGood
<1>1. IInv /\ [Next]_vars =>
        [/\ \A c \in Codes : redeemer[c] # Nobody => redeemer'[c] = redeemer[c]
         /\ \A w \in Wallets : claims[w] # Nobody => claims'[w] = claims[w]]_vars
  <2> SUFFICES ASSUME IInv, Next
               PROVE  /\ \A c \in Codes : redeemer[c] # Nobody => redeemer'[c] = redeemer[c]
                      /\ \A w \in Wallets : claims[w] # Nobody => claims'[w] = claims[w]
    OBVIOUS
  <2> USE DEF IInv, TypeOK, codeVars
  <2>1. CASE \E q \in Requests : RedeemReferralCode(q)
    BY <2>1 DEF RedeemReferralCode, Redeemable
  <2>2. CASE \E q \in Requests : CreateFaucetClaim(q)
    BY <2>2 DEF CreateFaucetClaim, Claimable
  <2>3. CASE UNCHANGED <<redeemer, claims>>
    BY <2>3
  <2> QED BY <2>1, <2>2, <2>3
      DEF Next, RequestStep, Generate, CountOutstanding, CreateReferralCode, Redeem,
          GetReferralCode, GetFaucetClaim, SignalDrip, StatementFails, Crash,
          CreateReferralCodeBatch, Expire, DayPasses
<1> QED BY <1>1, Invariance, PTL DEF Spec, RedeemedForGood

=============================================================================
