----------------------------- MODULE TokenCache -----------------------------
(***************************************************************************)
(* src/lib/credentials/token-cache.ts over a provider that keeps its last  *)
(* token in a credentials file (cachedExchangeProvider).                   *)
(*                                                                         *)
(* A provider call in flight is state of its own: it reads the file, may   *)
(* exchange for a new token, writes the file and settles, while the cache  *)
(* is read, invalidated and refreshed by others.  JavaScript runs a        *)
(* promise's settlement and the resumption of everyone who awaits it with  *)
(* nothing in between, so both are one action of AuthedRequests, which     *)
(* composes the operators below with the requests that call them.          *)
(***************************************************************************)
EXTENDS Integers, FiniteSets

CONSTANTS
  NONE,
  Slots,               \* bound: provider calls in flight at once
  AdvisoryThreshold,   \* ADVISORY_REFRESH_THRESHOLD_IN_SECONDS
  MandatoryThreshold,  \* MANDATORY_REFRESH_THRESHOLD_IN_SECONDS
  AdvisoryBackoff,     \* ADVISORY_REFRESH_BACKOFF_IN_SECONDS
  Life                 \* expires_in; beyond the clock's bound it is "no expiry"

ASSUME CacheAssumption ==
  /\ Slots \subseteq Nat /\ IsFiniteSet(Slots) /\ NONE \notin Slots
  /\ MandatoryThreshold \in Nat /\ AdvisoryThreshold \in Nat /\ AdvisoryBackoff \in Nat
  /\ MandatoryThreshold < AdvisoryThreshold
  /\ Life \in Nat

VARIABLES
  now,
  cached, pendingRefresh, nextForce, lastAdvisoryError,
  calls,   \* provider calls: [at, force, advisory, token]
  disk,    \* the token in the credentials file
  minted   \* tokens issued so far, which numbers them

Token == [serial : Nat, expiresAt : Int]

ASSUME NoTokenAssumption == NONE \notin Token

cacheVars    == <<cached, pendingRefresh, nextForce, lastAdvisoryError>>
providerVars == <<calls, disk, minted>>

NoCall == [at |-> "none", force |-> FALSE, advisory |-> FALSE, token |-> NONE]

InFlight(c) == calls[c].at # "none"

CacheTypeOK ==
  /\ now \in Nat
  /\ cached \in Token \cup {NONE}
  /\ pendingRefresh \in Slots \cup {NONE}
  /\ nextForce \in BOOLEAN
  /\ lastAdvisoryError \in Nat
  /\ calls \in [Slots -> [at : {"none", "reading", "exchanging", "served", "exchanged"},
                          force : BOOLEAN, advisory : BOOLEAN, token : Token \cup {NONE}]]
  /\ disk \in Token \cup {NONE}
  /\ minted \in Nat
  /\ \A c \in Slots : calls[c].token # NONE <=> calls[c].at \in {"served", "exchanged"}

CacheInit ==
  /\ now = AdvisoryBackoff   \* lastAdvisoryError = 0 is long ago
  /\ cached = NONE /\ pendingRefresh = NONE /\ nextForce = FALSE /\ lastAdvisoryError = 0
  /\ calls = [c \in Slots |-> NoCall]
  /\ disk \in {NONE, [serial |-> 1, expiresAt |-> now + Life]}
  /\ minted = 1

-----------------------------------------------------------------------------
(* TokenCache *)

ExpiresWithin(seconds) == cached # NONE /\ cached.expiresAt - now <= seconds

MustRefresh      == nextForce \/ cached = NONE \/ ExpiresWithin(MandatoryThreshold)
InAdvisoryWindow == ~MustRefresh /\ ExpiresWithin(AdvisoryThreshold)

\* Variants: every refresh calls the provider; a forced refresh joins like any other.
JoinsNever == FALSE
JoinsEvenForced == pendingRefresh # NONE

\* refresh(force) returns the promise that is pending already.
Joins == pendingRefresh # NONE /\ ~nextForce

\* backgroundRefresh goes on to call the provider.
RefreshesBehind == pendingRefresh = NONE /\ now - lastAdvisoryError >= AdvisoryBackoff

\* doRefresh: slots are only names, the first one that is free will do.
DoRefresh(c, force, advisory) ==
  /\ ~InFlight(c) /\ \A d \in Slots : d < c => InFlight(d)
  /\ calls' = [calls EXCEPT ![c] =
                 [at |-> "reading", force |-> force, advisory |-> advisory, token |-> NONE]]
  /\ pendingRefresh' = c

\* Variant: the force is taken back once a token is there.
ResolveDroppingForce(c) ==
  /\ calls[c].at \in {"served", "exchanged"}
  /\ cached' = calls[c].token
  /\ pendingRefresh' = NONE
  /\ nextForce' = FALSE
  /\ calls' = [calls EXCEPT ![c] = NoCall]
  /\ UNCHANGED lastAdvisoryError

\* doRefresh's fulfilment handler, whichever call is the pending one by then.
Resolve(c) ==
  /\ calls[c].at \in {"served", "exchanged"}
  /\ cached' = calls[c].token
  /\ pendingRefresh' = NONE
  /\ calls' = [calls EXCEPT ![c] = NoCall]
  /\ UNCHANGED <<nextForce, lastAdvisoryError>>

\* Variant: the rejection handler leaves the settled promise pending.
RejectKeepingPending(c) ==
  /\ calls[c].at \in {"reading", "exchanging"}
  /\ lastAdvisoryError' = IF calls[c].advisory THEN now ELSE lastAdvisoryError
  /\ calls' = [calls EXCEPT ![c] = NoCall]
  /\ UNCHANGED <<cached, pendingRefresh, nextForce>>

\* Its rejection handler, and the one backgroundRefresh adds.
Reject(c) ==
  /\ calls[c].at \in {"reading", "exchanging"}
  /\ pendingRefresh' = NONE
  /\ lastAdvisoryError' = IF calls[c].advisory THEN now ELSE lastAdvisoryError
  /\ calls' = [calls EXCEPT ![c] = NoCall]
  /\ UNCHANGED <<cached, nextForce>>

Invalidate == cached' = NONE /\ nextForce' = TRUE

-----------------------------------------------------------------------------
(* cachedExchangeProvider *)

DiskIsFresh == disk # NONE /\ now < disk.expiresAt - MandatoryThreshold

\* The file answers unless the call is forced or the file is no use.
ReadFile(c) ==
  /\ calls[c].at = "reading"
  /\ calls' = [calls EXCEPT ![c] =
                 IF DiskIsFresh /\ ~@.force
                 THEN [@ EXCEPT !.at = "served", !.token = disk]
                 ELSE [@ EXCEPT !.at = "exchanging"]]
  /\ UNCHANGED <<now, cacheVars, disk, minted>>

\* The token endpoint issues a token.
Exchange(c) ==
  /\ calls[c].at = "exchanging"
  /\ minted' = minted + 1
  /\ calls' = [calls EXCEPT ![c].at = "exchanged",
                            ![c].token = [serial |-> minted + 1, expiresAt |-> now + Life]]
  /\ UNCHANGED <<now, cacheVars, disk>>

\* What an exchange returned is written back, or the write fails and is ignored.
WriteBack(c) ==
  disk' \in IF calls[c].at = "exchanged" THEN {calls[c].token, disk} ELSE {disk}

=============================================================================
