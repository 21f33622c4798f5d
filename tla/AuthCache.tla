----------------------------- MODULE AuthCache -----------------------------
(***************************************************************************)
(* The authorization cache (src/lib/api/authCache.ts) over the checkpoint  *)
(* of the indexer (src/lib/state.ts).                                      *)
(*                                                                         *)
(* A client signs its instance, its wallet and the latest block.  Once the *)
(* signature was checked, the instance is authorized for that wallet until *)
(* the checkpoint is more than TTL blocks higher than it was then.  The    *)
(* checkpoint moves with the chain, down as well as up, and is null before *)
(* the first sync and after the last stored block was disconnected.        *)
(*                                                                         *)
(* The payload string that an entry keeps is left out: the test that reads *)
(* it also asks for another wallet than the entry's, which the lines above *)
(* it have excluded.                                                       *)
(***************************************************************************)
EXTENDS Integers, FiniteSets

\* A definition named X_Mutant is a wrong version of X.

CONSTANTS
  Instances,   \* ids of extension instances
  Wallets,     \* script payloads
  Blocks,      \* blocks of all branches: [hash, height]
  TTL          \* API_AUTH_CACHE_ENTRY_TTL

ASSUME AuthAssumption == TTL \in Nat /\ \A b \in Blocks : b.height \in Nat \ {0}

Heights == {b.height : b \in Blocks}
NoBlock == [height |-> 0]   \* a null checkpoint, or a header without a block
NoEntry == [expiresAt |-> -1]

\* What a header says.  Any other header is refused.
Headers == [instance : Instances, wallet : Wallets,
            block : Blocks \cup {NoBlock}, signed : BOOLEAN]

VARIABLES
  checkpoint,  \* RuntimeState.checkpoint
  cache,       \* AuthorizationCache.cache
  challenges,  \* history: the height of the last challenge passed, by wallet
  granted      \* history: the last request that was authorized

authVars == <<checkpoint, cache, challenges, granted>>

Entries == [wallet : Wallets, expiresAt : Nat]
Grants == [instance : Instances, wallet : Wallets, height : Heights]
Never == 0
NoGrant == [height |-> 0]

-----------------------------------------------------------------------------

\* isAuthCacheEntryExpired.
Unexpired(i) == cache[i] # NoEntry /\ cache[i].expiresAt >= checkpoint.height

\* An entry for another wallet does not count (in the mutant it does).
Cached_Mutant(h) ==
  /\ checkpoint # NoBlock
  /\ Unexpired(h.instance)
Cached(h) ==
  /\ checkpoint # NoBlock
  /\ Unexpired(h.instance)
  /\ cache[h.instance].wallet = h.wallet

\* authBlockDataSig: the signature of the header is one of its wallet.
AuthBlockDataSig(h) == h.signed

\* handleAuthChallenge.  With a null checkpoint it throws, and the request is
\* refused.
PassesChallenge(h) ==
  /\ checkpoint # NoBlock
  /\ h.block = checkpoint
  /\ AuthBlockDataSig(h)

Authorizes(i, h) == h.instance = i /\ (Cached(h) \/ PassesChallenge(h))

\* The cache after a request.  A null checkpoint throws before an entry is
\* removed.
CacheAfter(i, h) ==
  IF h.instance # i \/ checkpoint = NoBlock \/ Cached(h) THEN cache
  ELSE IF PassesChallenge(h) THEN
    [cache EXCEPT ![i] = [wallet |-> h.wallet, expiresAt |-> checkpoint.height + TTL]]
  ELSE IF Unexpired(i) THEN cache
  ELSE [cache EXCEPT ![i] = NoEntry]

\* isRequestAuthorized, which no other step can interrupt.
IsRequestAuthorized(i, h) ==
  /\ cache' = CacheAfter(i, h)
  /\ challenges' =
       IF h.instance = i /\ ~Cached(h) /\ PassesChallenge(h)
       THEN [challenges EXCEPT ![i][h.wallet] = checkpoint.height]
       ELSE challenges
  /\ granted' = IF Authorizes(i, h)
                THEN [instance |-> i, wallet |-> h.wallet, height |-> checkpoint.height]
                ELSE granted
  /\ UNCHANGED checkpoint

\* The indexer syncs, connects a block, or disconnects one; what is left then
\* is the highest stored block, or none.
CheckpointMoves ==
  /\ \/ \E b \in Blocks :
          /\ checkpoint = NoBlock \/ b.height - checkpoint.height \in {-1, 1}
          /\ checkpoint' = b
     \/ checkpoint.height = 1 /\ checkpoint' = NoBlock
  /\ UNCHANGED <<cache, challenges, granted>>

AuthInit ==
  /\ checkpoint = NoBlock
  /\ cache = [i \in Instances |-> NoEntry]
  /\ challenges = [i \in Instances |-> [w \in Wallets |-> Never]]
  /\ granted = NoGrant

AuthNext ==
  \/ \E i \in Instances, h \in Headers : IsRequestAuthorized(i, h)
  \/ CheckpointMoves

AuthSpec == AuthInit /\ [][AuthNext]_authVars

-----------------------------------------------------------------------------
(* Properties *)

AuthTypeOK ==
  /\ checkpoint \in Blocks \cup {NoBlock}
  /\ cache \in [Instances -> Entries \cup {NoEntry}]
  /\ challenges \in [Instances -> [Wallets -> {Never} \cup Heights]]
  /\ granted \in Grants \cup {NoGrant}

\* Each entry comes from the last challenge that this instance passed for this
\* wallet, TTL blocks before the entry expires, however the chain was
\* reorganised since.
EntriesWereChallenged ==
  \A i \in Instances : cache[i] # NoEntry =>
    /\ challenges[i][cache[i].wallet] # Never
    /\ challenges[i][cache[i].wallet] + TTL = cache[i].expiresAt

\* A request is authorized only for an instance and a wallet that passed a
\* challenge, and at most TTL blocks above the block that was signed: not for
\* the wallet of an entry that was replaced, and not after the expiry.
GrantsWereChallenged ==
  granted # NoGrant =>
    /\ challenges[granted.instance][granted.wallet] # Never
    /\ granted.height <= challenges[granted.instance][granted.wallet] + TTL

=============================================================================
