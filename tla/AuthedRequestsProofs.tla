------------------------ MODULE AuthedRequestsProofs ------------------------
(***************************************************************************)
(* Theorems about AuthedRequests, for any requests, retries and thresholds *)
(* and any number of provider calls.                                       *)
(***************************************************************************)
EXTENDS AuthedRequests, FiniteSetTheorems, TLAPS

-----------------------------------------------------------------------------
(* What the steps of a request do to its record.                            *)

RequestRecords ==
  [at : {"new", "auth", "await", "fetch", "sleep"} \cup Done, retriesRemaining : 0..MaxRetries,
   aborted : BOOLEAN, didRefreshFor401 : BOOLEAN, forced : BOOLEAN,
   call : Slots \cup {NONE}, token : Token \cup {NONE}]

WellFormed(q) ==
  /\ q \in RequestRecords
  /\ q.at = "await" <=> q.call # NONE
  /\ q.at = "fetch" <=> q.token # NONE

CallRecords ==
  [at : {"none", "reading", "exchanging", "served", "exchanged"},
   force : BOOLEAN, advisory : BOOLEAN, token : Token \cup {NONE}]

LEMMA RetryOps ==
  ASSUME NEW q, WellFormed(q), q.at = "fetch"
  PROVE  /\ WellFormed(RetryOrThrow(q)) /\ RetryOrThrow(q).at \in {"sleep", "failed"}
         /\ RetryOrThrow(q).didRefreshFor401 = q.didRefreshFor401
  <1> USE DEF WellFormed, RequestRecords, Done
  <1>1. CASE q.retriesRemaining > 0
    <2>1. q.retriesRemaining - 1 \in 0..MaxRetries
      BY <1>1, RequestAssumption
    <2> QED
      BY <1>1, <2>1 DEF RetryOrThrow
  <1>2. CASE ~(q.retriesRemaining > 0)
    BY <1>2 DEF RetryOrThrow
  <1> QED
    BY <1>1, <1>2

LEMMA MarkOps ==
  ASSUME NEW q, WellFormed(q), q.at = "fetch"
  PROVE  LET m == [q EXCEPT !.didRefreshFor401 = TRUE]
         IN  WellFormed(m) /\ m.at = "fetch" /\ m.didRefreshFor401
  BY DEF WellFormed, RequestRecords, Done

LEMMA TokenOps ==
  ASSUME NEW q, WellFormed(q), q.at \in {"auth", "await"}, NEW t \in Token
  PROVE  /\ WellFormed(WithToken(q, t)) /\ WithToken(q, t).at \in {"fetch", "failed"}
         /\ WithToken(q, t).didRefreshFor401 = q.didRefreshFor401
  BY NoTokenAssumption DEF WellFormed, RequestRecords, WithToken, Done

LEMMA AwaitOps ==
  ASSUME NEW q, WellFormed(q), q.at = "auth", NEW c \in Slots, nextForce \in BOOLEAN
  PROVE  /\ WellFormed(Awaiting(q, c)) /\ Awaiting(q, c).at = "await"
         /\ Awaiting(q, c).call = c
         /\ Awaiting(q, c).didRefreshFor401 = q.didRefreshFor401
  BY CacheAssumption DEF WellFormed, RequestRecords, Awaiting, Done

-----------------------------------------------------------------------------
(* Type correctness.                                                        *)

\* TypeOK in the terms of the lemmas above: the cache, the provider, the requests.
CacheTypes ==
  /\ now \in Nat
  /\ cached \in Token \cup {NONE} /\ pendingRefresh \in Slots \cup {NONE}
  /\ nextForce \in BOOLEAN /\ lastAdvisoryError \in Nat

ProviderTypes ==
  /\ calls \in [Slots -> CallRecords]
  /\ \A c \in Slots : calls[c].token # NONE <=> calls[c].at \in {"served", "exchanged"}
  /\ disk \in Token \cup {NONE} /\ minted \in Nat

RequestTypes ==
  /\ req \in [Requests -> RequestRecords]
  /\ \A r \in Requests : WellFormed(req[r])
  /\ revoked \subseteq Nat /\ refused \subseteq Nat /\ owed \subseteq Requests

LEMMA TypeParts == TypeOK <=> CacheTypes /\ ProviderTypes /\ RequestTypes
  BY DEF TypeOK, CacheTypeOK, CacheTypes, ProviderTypes, RequestTypes,
         CallRecords, RequestRecords, WellFormed

LEMMA TypePartsNext == TypeOK' <=> CacheTypes' /\ ProviderTypes' /\ RequestTypes'
  BY DEF TypeOK, CacheTypeOK, CacheTypes, ProviderTypes, RequestTypes,
         CallRecords, RequestRecords, WellFormed

LEMMA TypeInit == Init => TypeOK
  <1> SUFFICES ASSUME Init PROVE CacheTypes /\ ProviderTypes /\ RequestTypes
    BY TypeParts
  <1> USE DEF Init, CacheInit
  <1>1. CacheTypes
    BY CacheAssumption DEF CacheTypes
  <1>2. now + Life \in Int
    BY CacheAssumption
  <1>3. ProviderTypes
    BY <1>2, NoTokenAssumption DEF ProviderTypes, CallRecords, NoCall, Token
  <1>4. RequestTypes
    BY RequestAssumption, CacheAssumption
    DEF RequestTypes, RequestRecords, WellFormed, NewRequest, Done
  <1> QED
    BY <1>1, <1>3, <1>4

LEMMA DoRefreshTypes ==
  ASSUME ProviderTypes, NEW c \in Slots, NEW force \in BOOLEAN, NEW advisory \in BOOLEAN,
         DoRefresh(c, force, advisory), UNCHANGED <<disk, minted>>
  PROVE  ProviderTypes'
  BY DEF DoRefresh, ProviderTypes, CallRecords

LEMMA SettleTypes ==
  ASSUME ProviderTypes, NEW c \in Slots, calls' = [calls EXCEPT ![c] = NoCall],
         disk' \in Token \cup {NONE}, UNCHANGED minted
  PROVE  ProviderTypes'
  BY DEF ProviderTypes, CallRecords, NoCall

LEMMA ReplacedRequest ==
  ASSUME RequestTypes, NEW r \in Requests, NEW q, WellFormed(q),
         req' = [req EXCEPT ![r] = q],
         revoked' \subseteq Nat, refused' \subseteq Nat, owed' \subseteq Requests
  PROVE  RequestTypes'
  BY DEF RequestTypes, WellFormed

\* A token that some record or the cache holds has a number.
LEMMA TokenFields == ASSUME NEW t \in Token PROVE t.serial \in Nat /\ t.expiresAt \in Int
  BY DEF Token

LEMMA TypePreserved == TypeOK /\ [Next]_vars => TypeOK'
  <1> SUFFICES ASSUME CacheTypes, ProviderTypes, RequestTypes, [Next]_vars
               PROVE  CacheTypes' /\ ProviderTypes' /\ RequestTypes'
    BY TypeParts, TypePartsNext
  <1> USE DEF requestVars, cacheVars, providerVars
  <1> DEFINE Goal == CacheTypes' /\ ProviderTypes' /\ RequestTypes'
  <1>1. ASSUME NEW r \in Requests, Starts(r) PROVE Goal
    <2>1. WellFormed([req[r] EXCEPT !.at = "auth"])
      BY <1>1 DEF Starts, RequestTypes, WellFormed, RequestRecords, Done
    <2>2. RequestTypes'
      BY <1>1, <2>1, ReplacedRequest DEF Starts, RequestTypes
    <2> QED
      BY <1>1, <2>2 DEF Starts, CacheTypes, ProviderTypes
  <1>2. ASSUME NEW r \in Requests, TakesCached(r) PROVE Goal
    <2>1. cached \in Token
      BY <1>2 DEF TakesCached, MustRefresh, CacheTypes
    <2>2. WellFormed([req[r] EXCEPT !.forced = FALSE]) /\ [req[r] EXCEPT !.forced = FALSE].at = "auth"
      BY <1>2 DEF TakesCached, RequestTypes, WellFormed, RequestRecords, Done
    <2>3. RequestTypes'
      BY <1>2, <2>1, <2>2, TokenOps, ReplacedRequest DEF TakesCached, RequestTypes
    <2>4. CASE \E c \in Slots : DoRefresh(c, FALSE, TRUE)
      <3>1. ProviderTypes'
        BY <1>2, <2>4, DoRefreshTypes DEF TakesCached
      <3> QED
        BY <1>2, <2>3, <2>4, <3>1 DEF TakesCached, DoRefresh, CacheTypes
    <2>5. CASE UNCHANGED <<pendingRefresh, calls>>
      BY <1>2, <2>3, <2>5 DEF TakesCached, CacheTypes, ProviderTypes
    <2> QED
      BY <1>2, <2>4, <2>5 DEF TakesCached
  <1>3. ASSUME NEW r \in Requests, JoinsRefresh(r) PROVE Goal
    <2>1. pendingRefresh \in Slots
      BY <1>3 DEF JoinsRefresh, Joins, CacheTypes
    <2>2. RequestTypes'
      BY <1>3, <2>1, AwaitOps, ReplacedRequest DEF JoinsRefresh, RequestTypes, CacheTypes
    <2> QED
      BY <1>3, <2>2 DEF JoinsRefresh, CacheTypes, ProviderTypes
  <1>4. ASSUME NEW r \in Requests, Refreshes(r) PROVE Goal
    <2>1. PICK c \in Slots : DoRefresh(c, nextForce, FALSE) /\ req' = [req EXCEPT ![r] = Awaiting(@, c)]
      BY <1>4 DEF Refreshes
    <2>2. RequestTypes'
      BY <1>4, <2>1, AwaitOps, ReplacedRequest DEF Refreshes, RequestTypes, CacheTypes
    <2>3. ProviderTypes'
      BY <1>4, <2>1, DoRefreshTypes DEF Refreshes, CacheTypes
    <2> QED
      BY <1>4, <2>1, <2>2, <2>3 DEF Refreshes, DoRefresh, CacheTypes
  <1>5. ASSUME NEW c \in Slots, Settles(c) PROVE Goal
    <2>1. calls[c].token \in Token
      BY <1>5 DEF Settles, Resolve, ProviderTypes, CallRecords
    <2>2. disk' \in Token \cup {NONE}
      BY <1>5, <2>1 DEF Settles, WriteBack, ProviderTypes
    <2>3. ProviderTypes'
      BY <1>5, <2>2, SettleTypes DEF Settles, Resolve
    <2>4. \A r \in Requests : WellFormed(req'[r])
      BY <1>5, <2>1, TokenOps, CacheAssumption DEF Settles, RequestTypes, WellFormed
    <2>5. RequestTypes'
      BY <1>5, <2>4 DEF Settles, RequestTypes, WellFormed
    <2> QED
      BY <1>5, <2>1, <2>3, <2>5 DEF Settles, Resolve, CacheTypes
  <1>6. ASSUME NEW c \in Slots, Fails(c) PROVE Goal
    <2>1. ProviderTypes'
      BY <1>6, SettleTypes DEF Fails, Reject, ProviderTypes
    <2>2. \A r \in Requests : WellFormed(req'[r])
      BY <1>6, CacheAssumption DEF Fails, RequestTypes, WellFormed, RequestRecords, Done
    <2>3. RequestTypes'
      BY <1>6, <2>2 DEF Fails, RequestTypes, WellFormed
    <2> QED
      BY <1>6, <2>1, <2>3 DEF Fails, Reject, CacheTypes
  <1>7. ASSUME NEW r \in Requests, Unauthorized(r) PROVE Goal
    <2>1. req[r].token.serial \in Nat
      BY <1>7, TokenFields DEF Unauthorized, RequestTypes, WellFormed, RequestRecords
    <2>2. RequestTypes'
      BY <1>7, <2>1, MarkOps, RetryOps, ReplacedRequest DEF Unauthorized, RequestTypes
    <2> QED
      BY <1>7, <2>2 DEF Unauthorized, Invalidate, CacheTypes, ProviderTypes
  <1>8. ASSUME NEW r \in Requests, req[r].at = "fetch"
        PROVE  /\ WellFormed([req[r] EXCEPT !.at = "failed", !.token = NONE])
               /\ \A end \in Done : WellFormed([req[r] EXCEPT !.at = end, !.token = NONE])
    BY <1>8 DEF RequestTypes, WellFormed, RequestRecords, Done
  <1>9. ASSUME NEW r \in Requests, UnauthorizedAgain(r) PROVE Goal
    <2>1. req[r].token.serial \in Nat
      BY <1>9, TokenFields DEF UnauthorizedAgain, RequestTypes, WellFormed, RequestRecords
    <2>2. PICK q : WellFormed(q) /\ req' = [req EXCEPT ![r] = q]
      BY <1>8, <1>9, RetryOps DEF UnauthorizedAgain, RequestTypes
    <2>3. RequestTypes'
      BY <1>9, <2>1, <2>2, ReplacedRequest DEF UnauthorizedAgain, RequestTypes
    <2> QED
      BY <1>9, <2>3 DEF UnauthorizedAgain, CacheTypes, ProviderTypes
  <1>10. ASSUME NEW r \in Requests, Retryable(r) PROVE Goal
    <2>1. RequestTypes'
      BY <1>10, RetryOps, ReplacedRequest DEF Retryable, RequestTypes
    <2> QED
      BY <1>10, <2>1 DEF Retryable, CacheTypes, ProviderTypes
  <1>11. ASSUME NEW r \in Requests, Answered(r) \/ AbortedFetch(r) PROVE Goal
    <2>1. PICK q : WellFormed(q) /\ req' = [req EXCEPT ![r] = q]
      BY <1>8, <1>11 DEF Answered, AbortedFetch, RequestTypes, Done
    <2>2. RequestTypes'
      BY <1>11, <2>1, ReplacedRequest DEF Answered, AbortedFetch, RequestTypes
    <2> QED
      BY <1>11, <2>2 DEF Answered, AbortedFetch, CacheTypes, ProviderTypes
  <1>12. ASSUME NEW r \in Requests, WakesUp(r) \/ Aborts(r) PROVE Goal
    <2>1. PICK q : WellFormed(q) /\ req' = [req EXCEPT ![r] = q]
      <3>1. WakesUp(r) => WellFormed([req[r] EXCEPT !.at = "auth"])
        BY DEF WakesUp, RequestTypes, WellFormed, RequestRecords, Done
      <3>2. WellFormed([req[r] EXCEPT !.aborted = TRUE])
        BY DEF RequestTypes, WellFormed, RequestRecords
      <3> QED
        BY <1>12, <3>1, <3>2 DEF WakesUp, Aborts
    <2>2. RequestTypes'
      BY <1>12, <2>1, ReplacedRequest DEF WakesUp, Aborts, RequestTypes
    <2> QED
      BY <1>12, <2>2 DEF WakesUp, Aborts, CacheTypes, ProviderTypes
  <1>13. ASSUME NEW c \in Slots, Reads(c) PROVE Goal
    <2>1. ProviderTypes'
      BY <1>13 DEF Reads, ReadFile, DiskIsFresh, ProviderTypes, CallRecords
    <2> QED
      BY <1>13, <2>1 DEF Reads, ReadFile, CacheTypes, RequestTypes
  <1>14. ASSUME NEW c \in Slots, Exchanges(c) PROVE Goal
    <2>1. [serial |-> minted + 1, expiresAt |-> now + Life] \in Token
      BY CacheAssumption DEF Token, CacheTypes, ProviderTypes
    <2>2. ProviderTypes'
      BY <1>14, <2>1, NoTokenAssumption DEF Exchanges, Exchange, ProviderTypes, CallRecords
    <2> QED
      BY <1>14, <2>2 DEF Exchanges, Exchange, CacheTypes, RequestTypes
  <1>15. ASSUME NEW s \in 1..minted, Revokes(s) PROVE Goal
    BY <1>15 DEF Revokes, CacheTypes, ProviderTypes, RequestTypes
  <1>16. CASE Tick
    BY <1>16 DEF Tick, CacheTypes, ProviderTypes, RequestTypes
  <1>17. CASE UNCHANGED vars
    BY <1>17 DEF vars, CacheTypes, ProviderTypes, RequestTypes
  <1> QED
    BY <1>1, <1>2, <1>3, <1>4, <1>5, <1>6, <1>7, <1>9, <1>10, <1>11, <1>12, <1>13, <1>14,
       <1>15, <1>16, <1>17 DEF Next, RequestStep, CallStep

THEOREM TypeCorrectness == Spec => []TypeOK
  BY TypeInit, TypePreserved, PTL DEF Spec

-----------------------------------------------------------------------------
(* pendingRefresh and everyone's promise are in flight; a 401 that no forced *)
(* refresh has followed keeps nextForce set, and its request waits.          *)

OwedInv ==
  /\ owed # {} => nextForce
  /\ \A r \in owed : req[r].at \in {"sleep", "auth", "failed"}

SharedInv == PendingIsInFlight /\ OwedInv

LEMMA SharedInit == Init => SharedInv
  BY DEF Init, CacheInit, NewRequest, SharedInv, PendingIsInFlight, OwedInv

LEMMA SharedPreserved == TypeOK /\ SharedInv /\ [Next]_vars => SharedInv'
  <1> SUFFICES ASSUME CacheTypes, ProviderTypes, RequestTypes, PendingIsInFlight, OwedInv, [Next]_vars
               PROVE  PendingIsInFlight' /\ OwedInv'
    BY TypeParts DEF SharedInv
  <1> USE DEF requestVars, cacheVars, providerVars, PendingIsInFlight, OwedInv, InFlight
  <1> DEFINE Goal == PendingIsInFlight' /\ OwedInv'
  <1>0. req \in [Requests -> RequestRecords] /\ calls \in [Slots -> CallRecords]
    BY DEF RequestTypes, ProviderTypes
  <1>1. ASSUME NEW r \in Requests, Starts(r) PROVE Goal
    BY <1>0, <1>1 DEF Starts, RequestRecords
  <1>2. ASSUME NEW r \in Requests, TakesCached(r) PROVE Goal
    <2>1. ~nextForce /\ owed = {} /\ owed' = {}
      BY <1>2 DEF TakesCached, MustRefresh
    <2>2. cached \in Token /\ WellFormed([req[r] EXCEPT !.forced = FALSE])
          /\ [req[r] EXCEPT !.forced = FALSE].at = "auth"
      BY <1>2 DEF TakesCached, MustRefresh, CacheTypes, RequestTypes, WellFormed, RequestRecords, Done
    <2>3. \A p \in Requests : req'[p].at = "await" => req[p].at = "await" /\ req'[p] = req[p]
      BY <1>0, <1>2, <2>2, TokenOps DEF TakesCached
    <2>4. \A c \in Slots : InFlight(c) => InFlight(c)'
      BY <1>0, <1>2 DEF TakesCached, DoRefresh, CallRecords
    <2>5. pendingRefresh' # NONE => InFlight(pendingRefresh)'
      BY <1>0, <1>2, <2>4 DEF TakesCached, DoRefresh, CacheTypes
    <2> QED
      BY <1>0, <2>1, <2>3, <2>4, <2>5 DEF RequestTypes, WellFormed, RequestRecords
  <1>3. ASSUME NEW r \in Requests, JoinsRefresh(r) PROVE Goal
    BY <1>0, <1>3, AwaitOps DEF JoinsRefresh, Joins, CacheTypes, RequestTypes
  <1>4. ASSUME NEW r \in Requests, Refreshes(r) PROVE Goal
    <2>1. PICK c \in Slots : DoRefresh(c, nextForce, FALSE) /\ req' = [req EXCEPT ![r] = Awaiting(@, c)]
      BY <1>4 DEF Refreshes
    <2>2. Awaiting(req[r], c).at = "await" /\ Awaiting(req[r], c).call = c
      BY <1>4, AwaitOps DEF Refreshes, RequestTypes, CacheTypes
    <2>3. owed' = {}
      BY <1>4 DEF Refreshes
    <2> QED
      BY <1>0, <2>1, <2>2, <2>3 DEF DoRefresh, CacheTypes, RequestTypes, WellFormed, RequestRecords
  <1>5. ASSUME NEW c \in Slots, Settles(c) PROVE Goal
    <2>1. calls[c].token \in Token
      BY <1>5 DEF Settles, Resolve, ProviderTypes, CallRecords
    <2>2. \A r \in Requests : req[r].call = c => req[r].at = "await" /\ req'[r].at \in {"fetch", "failed"}
      BY <1>5, <2>1, TokenOps, CacheAssumption DEF Settles, RequestTypes, WellFormed
    <2>3. \A r \in Requests : req[r].call # c => req'[r] = req[r]
      BY <1>5 DEF Settles
    <2>4. PendingIsInFlight'
      BY <1>0, <1>5, <2>2, <2>3 DEF Settles, Resolve, RequestTypes, WellFormed, RequestRecords
    <2>5. OwedInv'
      BY <1>5, <2>2, <2>3 DEF Settles, Resolve, RequestTypes
    <2> QED
      BY <2>4, <2>5
  <1>6. ASSUME NEW c \in Slots, Fails(c) PROVE Goal
    <2>1. \A r \in Requests : req[r].call = c => req[r].at = "await" /\ req'[r].at = "failed"
      BY <1>0, <1>6, CacheAssumption DEF Fails, RequestTypes, WellFormed, RequestRecords
    <2>2. \A r \in Requests : req[r].call # c => req'[r] = req[r]
      BY <1>6 DEF Fails
    <2>3. PendingIsInFlight'
      BY <1>0, <1>6, <2>1, <2>2 DEF Fails, Reject, RequestTypes, WellFormed, RequestRecords
    <2>4. OwedInv'
      BY <1>6, <2>1, <2>2 DEF Fails, Reject, RequestTypes
    <2> QED
      BY <2>3, <2>4
  <1>7. ASSUME NEW r \in Requests, Unauthorized(r) PROVE Goal
    <2>1. RetryOrThrow([req[r] EXCEPT !.didRefreshFor401 = TRUE]).at \in {"sleep", "failed"}
      BY <1>7, MarkOps, RetryOps DEF Unauthorized, RequestTypes
    <2> QED
      BY <1>0, <1>7, <2>1 DEF Unauthorized, Invalidate, RequestTypes
  <1>8. ASSUME NEW r \in Requests, UnauthorizedAgain(r) \/ Retryable(r) PROVE Goal
    <2>1. RetryOrThrow(req[r]).at \in {"sleep", "failed"}
      BY <1>8, RetryOps DEF UnauthorizedAgain, Retryable, RequestTypes
    <2>2. req'[r].at \in {"sleep", "failed"}
      BY <1>0, <1>8, <2>1 DEF UnauthorizedAgain, Retryable, RequestRecords
    <2>3. \A p \in Requests \ {r} : req'[p] = req[p]
      BY <1>0, <1>8 DEF UnauthorizedAgain, Retryable
    <2> QED
      BY <1>8, <2>2, <2>3 DEF UnauthorizedAgain, Retryable, RequestTypes
  <1>9. ASSUME NEW r \in Requests, Answered(r) \/ AbortedFetch(r) PROVE Goal
    BY <1>0, <1>9 DEF Answered, AbortedFetch, Done, RequestTypes, RequestRecords
  <1>10. ASSUME NEW r \in Requests, WakesUp(r) PROVE Goal
    BY <1>0, <1>10 DEF WakesUp, RequestTypes, RequestRecords
  <1>11. ASSUME NEW r \in Requests, Aborts(r) PROVE Goal
    BY <1>0, <1>11 DEF Aborts, RequestTypes, RequestRecords
  <1>12. ASSUME NEW c \in Slots, Reads(c) \/ Exchanges(c) PROVE Goal
    <2>1. \A d \in Slots : InFlight(d) => InFlight(d)'
      BY <1>0, <1>12 DEF Reads, ReadFile, Exchanges, Exchange, CallRecords
    <2> QED
      BY <1>12, <2>1 DEF Reads, ReadFile, Exchanges, Exchange, CacheTypes, RequestTypes, WellFormed, RequestRecords
  <1>13. ASSUME NEW s \in 1..minted, Revokes(s) PROVE Goal
    BY <1>13 DEF Revokes
  <1>14. CASE Tick \/ UNCHANGED vars
    BY <1>14 DEF Tick, vars
  <1> QED
    BY <1>1, <1>2, <1>3, <1>4, <1>5, <1>6, <1>7, <1>8, <1>9, <1>10, <1>11, <1>12, <1>13, <1>14
    DEF Next, RequestStep, CallStep

\* For any number of requests and provider calls: nobody, and no cache, holds the
\* promise of a provider call that has settled.
THEOREM NoSettledPromise == Spec => []PendingIsInFlight
  <1>1. TypeOK /\ SharedInv /\ [Next]_vars => (TypeOK /\ SharedInv)'
    BY TypePreserved, SharedPreserved
  <1>2. TypeOK /\ SharedInv => PendingIsInFlight
    BY DEF SharedInv
  <1> QED
    BY TypeInit, SharedInit, <1>1, <1>2, PTL DEF Spec

\* For any number of requests: no retry after a 401 leaves before a forced refresh.
THEOREM InvalidationsAreHonoured == Spec => []NoInvalidationLost
  <1>1. TypeOK /\ SharedInv /\ [Next]_vars => (TypeOK /\ SharedInv)'
    BY TypePreserved, SharedPreserved
  <1>2. SharedInv => NoInvalidationLost
    BY DEF SharedInv, OwedInv, NoInvalidationLost
  <1> QED
    BY TypeInit, SharedInit, <1>1, <1>2, PTL DEF Spec

-----------------------------------------------------------------------------
(* Calls in flight.  A call is loose when pendingRefresh no longer is it; a  *)
(* forced refresh is what makes a call loose, and every one has a 401.       *)

Loose   == {c \in Slots : InFlight(c) /\ c # pendingRefresh}
Met401  == {r \in Requests : req[r].didRefreshFor401}
Overlap == Cardinality(Loose) + (IF nextForce THEN 1 ELSE 0) <= Cardinality(Met401)

LEMMA SetsAreFinite ==
  /\ IsFiniteSet(Loose) /\ Cardinality(Loose) \in Nat
  /\ IsFiniteSet(Met401) /\ Cardinality(Met401) \in Nat
  <1>1. Loose \in SUBSET Slots /\ Met401 \in SUBSET Requests
    BY DEF Loose, Met401
  <1> QED
    BY <1>1, CacheAssumption, RequestAssumption, FS_Subset, FS_CardinalityType

LEMMA OverlapInit == Init => Overlap
  <1> SUFFICES ASSUME Init PROVE Overlap
    OBVIOUS
  <1>1. Loose = {} /\ ~nextForce
    BY DEF Init, CacheInit, Loose, InFlight, NoCall
  <1> QED
    BY <1>1, FS_EmptySet, SetsAreFinite DEF Overlap

\* A step that starts a call looses at most the call that was pending.
LEMMA StartsLoose ==
  ASSUME TypeOK, PendingIsInFlight, NEW c \in Slots, NEW force \in BOOLEAN,
         NEW advisory \in BOOLEAN, DoRefresh(c, force, advisory)
  PROVE  Loose' = IF pendingRefresh = NONE THEN Loose ELSE Loose \cup {pendingRefresh}
  BY CacheAssumption
  DEF TypeOK, CacheTypeOK, DoRefresh, Loose, InFlight, PendingIsInFlight

\* A call that settles takes the place of the pending one among the loose.
LEMMA SettlesLoose ==
  ASSUME TypeOK, PendingIsInFlight, NEW c \in Slots, InFlight(c),
         calls' = [calls EXCEPT ![c] = NoCall], pendingRefresh' = NONE
  PROVE  Cardinality(Loose') <= Cardinality(Loose)
  <1>1. CASE pendingRefresh = c
    <2>1. Loose' = Loose
      BY <1>1, CacheAssumption DEF TypeOK, CacheTypeOK, Loose, InFlight, NoCall
    <2> QED
      BY <2>1, SetsAreFinite
  <1>2. CASE pendingRefresh = NONE
    <2>1. Loose' = Loose \ {c}
      BY <1>2, CacheAssumption DEF TypeOK, CacheTypeOK, Loose, InFlight, NoCall
    <2>2. Cardinality(Loose \ {c}) <= Cardinality(Loose)
      <3>1. Cardinality(Loose \ {c})
              = IF c \in Loose THEN Cardinality(Loose) - 1 ELSE Cardinality(Loose)
        BY SetsAreFinite, FS_RemoveElement
      <3> QED
        BY <3>1, SetsAreFinite
    <2> QED
      BY <2>1, <2>2
  <1>3. CASE pendingRefresh \in Slots \ {c}
    <2>1. c \in Loose /\ pendingRefresh \notin Loose
          /\ Loose' = (Loose \ {c}) \cup {pendingRefresh}
      BY <1>3, CacheAssumption
      DEF TypeOK, CacheTypeOK, Loose, InFlight, PendingIsInFlight, NoCall
    <2>2. IsFiniteSet(Loose \ {c}) /\ Cardinality(Loose \ {c}) = Cardinality(Loose) - 1
      BY <2>1, SetsAreFinite, FS_RemoveElement
    <2>3. Cardinality((Loose \ {c}) \cup {pendingRefresh}) = Cardinality(Loose \ {c}) + 1
      BY <2>1, <2>2, FS_AddElement
    <2> QED
      BY <2>1, <2>2, <2>3, SetsAreFinite
  <1> QED
    BY <1>1, <1>2, <1>3 DEF TypeOK, CacheTypeOK

LEMMA SameFlags ==
  ASSUME \A p \in Requests : req'[p].didRefreshFor401 = req[p].didRefreshFor401
  PROVE  Met401' = Met401
  BY DEF Met401

LEMMA OverlapPreserved == TypeOK /\ SharedInv /\ Overlap /\ [Next]_vars => Overlap'
  <1> SUFFICES ASSUME TypeOK, PendingIsInFlight, Overlap, [Next]_vars PROVE Overlap'
    BY DEF SharedInv
  <1>a. CacheTypes /\ ProviderTypes /\ RequestTypes /\ req \in [Requests -> RequestRecords]
        /\ calls \in [Slots -> CallRecords]
    BY TypeParts DEF RequestTypes, ProviderTypes
  <1>b. ASSUME Loose' = Loose, nextForce' = nextForce, Met401' = Met401 PROVE Overlap'
    BY <1>b DEF Overlap
  <1>1. ASSUME NEW r \in Requests, Starts(r) \/ WakesUp(r) \/ Aborts(r) PROVE Overlap'
    <2>1. Met401' = Met401
      BY <1>a, <1>1 DEF Starts, WakesUp, Aborts, Met401, RequestRecords
    <2> QED
      BY <1>b, <1>1, <2>1 DEF Starts, WakesUp, Aborts, Loose, InFlight, cacheVars, providerVars
  <1>2. ASSUME NEW r \in Requests, TakesCached(r) PROVE Overlap'
    <2>1. ~nextForce /\ nextForce' = nextForce
      BY <1>a, <1>2 DEF TakesCached, MustRefresh, CacheTypes
    <2>2. cached \in Token /\ WellFormed([req[r] EXCEPT !.forced = FALSE])
          /\ [req[r] EXCEPT !.forced = FALSE].at = "auth"
          /\ [req[r] EXCEPT !.forced = FALSE].didRefreshFor401 = req[r].didRefreshFor401
      BY <1>a, <1>2 DEF TakesCached, MustRefresh, CacheTypes, RequestTypes, WellFormed, RequestRecords, Done
    <2>3. Met401' = Met401
      <3>1. req'[r].didRefreshFor401 = req[r].didRefreshFor401
        BY <1>a, <1>2, <2>2, TokenOps DEF TakesCached
      <3>2. \A p \in Requests \ {r} : req'[p] = req[p]
        BY <1>a, <1>2 DEF TakesCached
      <3> QED
        BY <3>1, <3>2, SameFlags
    <2>4. Loose' = Loose
      <3>1. CASE RefreshesBehind /\ \E c \in Slots : DoRefresh(c, FALSE, TRUE)
        BY <3>1, StartsLoose DEF RefreshesBehind
      <3>2. CASE UNCHANGED <<pendingRefresh, calls>>
        BY <3>2 DEF Loose, InFlight
      <3> QED
        BY <1>2, <3>1, <3>2 DEF TakesCached
    <2> QED
      BY <1>b, <2>1, <2>3, <2>4
  <1>3. ASSUME NEW r \in Requests, JoinsRefresh(r) PROVE Overlap'
    <2>1. nextForce' = nextForce /\ pendingRefresh \in Slots
      BY <1>a, <1>3 DEF JoinsRefresh, Joins, CacheTypes
    <2>2. Met401' = Met401
      BY <1>a, <1>3, <2>1, AwaitOps DEF JoinsRefresh, Met401, RequestTypes, CacheTypes
    <2> QED
      BY <1>b, <1>3, <2>1, <2>2 DEF JoinsRefresh, Loose, InFlight, providerVars
  <1>4. ASSUME NEW r \in Requests, Refreshes(r) PROVE Overlap'
    <2>1. PICK c \in Slots : DoRefresh(c, nextForce, FALSE) /\ req' = [req EXCEPT ![r] = Awaiting(@, c)]
      BY <1>4 DEF Refreshes
    <2>2. Met401' = Met401
      BY <1>a, <1>4, <2>1, AwaitOps DEF Refreshes, Met401, RequestTypes, CacheTypes
    <2>3. Loose' = IF pendingRefresh = NONE THEN Loose ELSE Loose \cup {pendingRefresh}
      BY <1>a, <2>1, StartsLoose DEF CacheTypes
    <2>4. Cardinality(Loose') <= Cardinality(Loose) + 1
      <3>1. CASE pendingRefresh = NONE
        BY <2>3, <3>1, SetsAreFinite
      <3>2. CASE pendingRefresh # NONE
        <4>1. Cardinality(Loose \cup {pendingRefresh}) <= Cardinality(Loose) + 1
          <5>1. pendingRefresh \notin Loose
            BY DEF Loose
          <5>2. Cardinality(Loose \cup {pendingRefresh}) = Cardinality(Loose) + 1
            BY <5>1, SetsAreFinite, FS_AddElement
          <5> QED
            BY <5>2, SetsAreFinite
        <4> QED
          BY <2>3, <3>2, <4>1
      <3> QED
        BY <3>1, <3>2
    <2>5. ~nextForce' /\ (~nextForce => pendingRefresh = NONE)
      BY <1>4 DEF Refreshes, Joins
    <2>6. Cardinality(Loose') \in Nat
      BY <2>3, SetsAreFinite, FS_AddElement, FS_CardinalityType
    <2> QED
      BY <2>2, <2>3, <2>4, <2>5, <2>6, SetsAreFinite DEF Overlap
  <1>5. ASSUME NEW c \in Slots, Settles(c) \/ Fails(c) PROVE Overlap'
    <2>1. Met401' = Met401
      <3>1. Settles(c) => calls[c].token \in Token
        BY <1>a DEF Settles, Resolve, ProviderTypes, CallRecords
      <3>2. CASE Settles(c)
        <4>1. ASSUME NEW r \in Requests, req[r].call = c
              PROVE  req'[r].didRefreshFor401 = req[r].didRefreshFor401
          <5>1. WellFormed(req[r]) /\ req[r].at = "await"
            BY <1>a, <4>1, CacheAssumption DEF RequestTypes, WellFormed
          <5> QED
            BY <3>1, <3>2, <4>1, <5>1, TokenOps DEF Settles
        <4> QED
          BY <3>2, <4>1, SameFlags DEF Settles
      <3>3. CASE Fails(c)
        <4>1. \A r \in Requests : req'[r].didRefreshFor401 = req[r].didRefreshFor401
          BY <1>a, <3>3 DEF Fails, RequestRecords
        <4> QED
          BY <4>1, SameFlags
      <3> QED
        BY <1>5, <3>2, <3>3
    <2>2. nextForce' = nextForce /\ InFlight(c) /\ calls' = [calls EXCEPT ![c] = NoCall]
          /\ pendingRefresh' = NONE
      BY <1>5 DEF Settles, Fails, Resolve, Reject, InFlight
    <2>3. Cardinality(Loose') <= Cardinality(Loose)
      BY <2>2, SettlesLoose
    <2>4. Cardinality(Loose') \in Nat
      <3>1. Loose' \in SUBSET Slots
        BY DEF Loose
      <3> QED
        BY <3>1, CacheAssumption, FS_Subset, FS_CardinalityType
    <2> QED
      BY <2>1, <2>2, <2>3, <2>4, SetsAreFinite DEF Overlap
  <1>6. ASSUME NEW r \in Requests, Unauthorized(r) PROVE Overlap'
    <2>1. r \notin Met401
      BY <1>6 DEF Unauthorized, Met401
    <2>2. RetryOrThrow([req[r] EXCEPT !.didRefreshFor401 = TRUE]).didRefreshFor401
      BY <1>a, <1>6, MarkOps, RetryOps DEF Unauthorized, RequestTypes
    <2>3. Met401' = Met401 \cup {r}
      BY <1>a, <1>6, <2>2 DEF Unauthorized, Met401
    <2>4. Cardinality(Met401') = Cardinality(Met401) + 1
      BY <2>1, <2>3, SetsAreFinite, FS_AddElement
    <2>5. Loose' = Loose
      BY <1>6 DEF Unauthorized, Loose, InFlight, providerVars
    <2> QED
      BY <2>4, <2>5, SetsAreFinite DEF Overlap
  <1>7. ASSUME NEW r \in Requests, UnauthorizedAgain(r) \/ Retryable(r) \/ Answered(r) \/ AbortedFetch(r)
        PROVE  Overlap'
    <2>1. RetryOrThrow(req[r]).didRefreshFor401 = req[r].didRefreshFor401
      BY <1>a, <1>7, RetryOps DEF UnauthorizedAgain, Retryable, Answered, AbortedFetch, RequestTypes
    <2>2. req'[r].didRefreshFor401 = req[r].didRefreshFor401
      <3>1. UnauthorizedAgain(r) \/ Retryable(r) => req'[r].didRefreshFor401 = req[r].didRefreshFor401
        BY <1>a, <2>1 DEF UnauthorizedAgain, Retryable, RequestRecords
      <3>2. Answered(r) \/ AbortedFetch(r) => req'[r].didRefreshFor401 = req[r].didRefreshFor401
        BY <1>a DEF Answered, AbortedFetch, RequestRecords
      <3> QED
        BY <1>7, <3>1, <3>2
    <2>3. \A p \in Requests \ {r} : req'[p] = req[p]
      BY <1>a, <1>7 DEF UnauthorizedAgain, Retryable, Answered, AbortedFetch
    <2>4. Met401' = Met401
      BY <2>2, <2>3, SameFlags
    <2> QED
      BY <1>b, <1>7, <2>4
      DEF UnauthorizedAgain, Retryable, Answered, AbortedFetch, Loose, InFlight, cacheVars, providerVars
  <1>8. ASSUME NEW c \in Slots, Reads(c) \/ Exchanges(c) PROVE Overlap'
    <2>1. \A d \in Slots : InFlight(d)' <=> InFlight(d)
      BY <1>a, <1>8 DEF Reads, ReadFile, Exchanges, Exchange, CallRecords, InFlight
    <2> QED
      BY <1>b, <1>8, <2>1 DEF Reads, ReadFile, Exchanges, Exchange, Loose, Met401, cacheVars, requestVars
  <1>9. CASE Tick \/ UNCHANGED vars \/ \E s \in 1..minted : Revokes(s)
    BY <1>b, <1>9 DEF Tick, Revokes, vars, Loose, Met401, InFlight, cacheVars, providerVars, requestVars
  <1> QED
    BY <1>1, <1>2, <1>3, <1>4, <1>5, <1>6, <1>7, <1>8, <1>9 DEF Next, RequestStep, CallStep

LEMMA OverlapBounds == TypeOK /\ Overlap => CallsInFlightBounded
  <1> SUFFICES ASSUME TypeOK, Overlap PROVE CallsInFlightBounded
    OBVIOUS
  <1> DEFINE Flying == {c \in Slots : InFlight(c)}
  <1>1. Flying \subseteq Loose \cup {pendingRefresh}
    BY DEF Loose
  <1>2. IsFiniteSet(Loose \cup {pendingRefresh})
        /\ Cardinality(Loose \cup {pendingRefresh}) <= Cardinality(Loose) + 1
    BY SetsAreFinite, FS_AddElement
  <1>3. IsFiniteSet(Flying) /\ Cardinality(Flying) <= Cardinality(Loose \cup {pendingRefresh})
    BY <1>1, <1>2, FS_Subset
  <1>4. Cardinality(Flying) \in Nat /\ Cardinality(Loose \cup {pendingRefresh}) \in Nat
    BY <1>2, <1>3, FS_CardinalityType
  <1>5. Cardinality(Loose) <= Cardinality(Met401)
    BY SetsAreFinite DEF Overlap
  <1>6. Cardinality(Flying) <= 1 + Cardinality(Met401)
    BY <1>2, <1>3, <1>4, <1>5, SetsAreFinite
  <1> QED
    BY <1>6 DEF CallsInFlightBounded, Met401

\* For any number of requests: one provider call at a time, and one more per 401.
THEOREM RefreshesCoalesce == Spec => []CallsInFlightBounded
  <1>1. TypeOK /\ SharedInv /\ Overlap /\ [Next]_vars => (TypeOK /\ SharedInv /\ Overlap)'
    BY TypePreserved, SharedPreserved, OverlapPreserved
  <1> QED
    BY TypeInit, SharedInit, OverlapInit, OverlapBounds, <1>1, PTL DEF Spec

-----------------------------------------------------------------------------
(* A forced refresh exchanges, and an exchange returns a number that nobody *)
(* has seen: nobody sends or keeps its token before it settles.             *)

\* The tokens that are out: with the cache, in the file, or in a request.
Out == ({cached, disk} \cup {req[r].token : r \in Requests}) \ {NONE}

NumberedOut ==
  /\ \A s \in refused : s <= minted
  /\ \A t \in Out : t.serial <= minted
  /\ \A c \in Slots : calls[c].token # NONE => calls[c].token.serial <= minted

Unseen(c) ==
  calls[c].at = "exchanged" =>
    /\ calls[c].token.serial \notin refused
    /\ \A t \in Out : t.serial # calls[c].token.serial
    /\ \A d \in Slots \ {c} : calls[d].token # NONE => calls[d].token.serial # calls[c].token.serial

SerialInv == NumberedOut /\ \A c \in Slots : Unseen(c)

ForceInv ==
  /\ \A r \in Requests : req[r].at = "await" /\ req[r].forced => calls[req[r].call].force
  /\ \A c \in Slots : calls[c].force => calls[c].at # "served"

\* A step that issues no token hands on only such as are out already.
LEMMA HandedOnKeeps ==
  ASSUME TypeOK, SerialInv, minted' = minted, Out' \subseteq Out,
         \A s \in refused' : s \in refused \/ \E t \in Out : s = t.serial,
         \A c \in Slots : calls'[c].token # NONE =>
           \/ calls'[c].at = calls[c].at /\ calls'[c].token = calls[c].token
           \/ calls'[c].at = "served" /\ calls'[c].token \in Out,
         \A c \in Slots : calls'[c].at = "exchanged" => calls'[c].token # NONE
  PROVE  SerialInv'
  <1>1. NumberedOut'
    BY DEF SerialInv, NumberedOut
  <1>2. ASSUME NEW c \in Slots, calls'[c].at = "exchanged"
        PROVE  /\ calls'[c].token.serial \notin refused'
               /\ \A t \in Out' : t.serial # calls'[c].token.serial
               /\ \A d \in Slots \ {c} : calls'[d].token # NONE
                                           => calls'[d].token.serial # calls'[c].token.serial
    <2>1. calls[c].at = "exchanged" /\ calls'[c].token = calls[c].token
      BY <1>2
    <2> QED
      BY <1>2, <2>1 DEF SerialInv, Unseen
  <1> QED
    BY <1>1, <1>2 DEF SerialInv, Unseen

\* Exchanges: the next number is nobody's.
LEMMA ExchangeKeeps ==
  ASSUME TypeOK, SerialInv, NEW c \in Slots, Exchanges(c)
  PROVE  SerialInv'
  <1> DEFINE n == minted + 1
             issued == [serial |-> n, expiresAt |-> now + Life]
  <1>1. CacheTypes /\ ProviderTypes /\ RequestTypes /\ n \in Nat
    BY TypeParts DEF ProviderTypes
  <1>2. /\ calls' = [calls EXCEPT ![c].at = "exchanged", ![c].token = issued] /\ minted' = n
        /\ UNCHANGED <<now, cached, disk, req, refused>>
    BY DEF Exchanges, Exchange, cacheVars, requestVars
  <1>3. /\ calls'[c].at = "exchanged" /\ calls'[c].token = issued /\ issued.serial = n
        /\ \A d \in Slots \ {c} : calls'[d] = calls[d]
    BY <1>1, <1>2 DEF ProviderTypes, CallRecords
  <1>4. Out' = Out
    BY <1>2 DEF Out
  <1>5. /\ \A s \in refused : s \in Nat
        /\ \A t \in Out : t.serial \in Nat
        /\ \A d \in Slots : calls[d].token # NONE => calls[d].token.serial \in Nat
    BY <1>1, TokenFields DEF Out, CacheTypes, ProviderTypes, RequestTypes, CallRecords, RequestRecords
  <1> HIDE DEF issued
  <1>6. NumberedOut'
    BY <1>1, <1>2, <1>3, <1>4, <1>5 DEF SerialInv, NumberedOut, ProviderTypes
  <1>7. /\ \A s \in refused : s # n
        /\ \A t \in Out : t.serial # n
        /\ \A d \in Slots : calls[d].token # NONE => calls[d].token.serial # n
    BY <1>1, <1>5 DEF SerialInv, NumberedOut, ProviderTypes
  <1>8. Unseen(c)'
    <2>1. calls'[c].token.serial = n
      BY <1>3
    <2>2. n \notin refused' /\ \A t \in Out' : t.serial # n
      BY <1>2, <1>4, <1>7
    <2>3. \A d \in Slots \ {c} : calls'[d].token # NONE => calls'[d].token.serial # n
      BY <1>3, <1>7
    <2> HIDE DEF n
    <2> QED
      BY <2>1, <2>2, <2>3 DEF Unseen
  <1>9. ASSUME NEW d \in Slots, d # c, calls'[d].at = "exchanged" PROVE Unseen(d)'
    <2>1. calls'[d] = calls[d] /\ Unseen(d) /\ calls[d].token # NONE
      BY <1>1, <1>3, <1>9 DEF SerialInv, ProviderTypes
    <2>2. \A e \in Slots \ {d} : calls'[e].token # NONE => calls'[e].token.serial # calls[d].token.serial
      BY <1>3, <1>7, <1>9, <2>1 DEF Unseen
    <2>3. calls[d].token.serial \notin refused' /\ \A t \in Out' : t.serial # calls[d].token.serial
      BY <1>2, <1>3, <1>4, <1>9, <2>1 DEF Unseen
    <2> QED
      BY <2>1, <2>2, <2>3 DEF Unseen
  <1> QED
    BY <1>6, <1>8, <1>9 DEF SerialInv, Unseen

\* Settles: the call's token comes out as the call goes.
LEMMA SettleKeeps ==
  ASSUME TypeOK, SerialInv, NEW c \in Slots, Settles(c)
  PROVE  SerialInv'
  <1>1. CacheTypes /\ ProviderTypes /\ RequestTypes
    BY TypeParts
  <1>2. calls[c].token \in Token /\ calls[c].token # NONE
    BY <1>1, NoTokenAssumption DEF Settles, Resolve, ProviderTypes, CallRecords
  <1>3. /\ calls'[c] = NoCall /\ \A d \in Slots \ {c} : calls'[d] = calls[d]
        /\ cached' = calls[c].token /\ UNCHANGED <<minted, refused>>
    BY <1>1 DEF Settles, Resolve, ProviderTypes
  <1>4. disk' \in {calls[c].token, disk}
    BY DEF Settles, WriteBack
  <1>5. ASSUME NEW r \in Requests PROVE req'[r].token \in {req[r].token, calls[c].token}
    BY <1>1 DEF Settles, WithToken, RequestTypes, RequestRecords
  <1>6. Out' \subseteq Out \cup {calls[c].token}
    BY <1>3, <1>4, <1>5 DEF Out
  <1>7. NumberedOut'
    BY <1>2, <1>3, <1>6 DEF SerialInv, NumberedOut, NoCall
  <1>8. ASSUME NEW d \in Slots PROVE Unseen(d)'
    BY <1>2, <1>3, <1>6 DEF SerialInv, Unseen, NoCall
  <1> QED
    BY <1>7, <1>8 DEF SerialInv

LEMMA SerialInit == Init => SerialInv
  <1> SUFFICES ASSUME Init PROVE SerialInv
    OBVIOUS
  <1>1. \A t \in Out : t.serial = 1
    BY DEF Init, CacheInit, NewRequest, Out
  <1> QED
    BY <1>1 DEF Init, CacheInit, NoCall, SerialInv, NumberedOut, Unseen

\* What the steps of a request do to its token.
LEMMA RetryToken ==
  ASSUME NEW q, q \in RequestRecords
  PROVE  RetryOrThrow(q).token = NONE /\ RetryOrThrow([q EXCEPT !.didRefreshFor401 = TRUE]).token = NONE
  BY DEF RequestRecords, RetryOrThrow

LEMMA SerialPreserved == TypeOK /\ SerialInv /\ [Next]_vars => SerialInv'
  <1> SUFFICES ASSUME TypeOK, SerialInv, [Next]_vars PROVE SerialInv'
    OBVIOUS
  <1> USE DEF requestVars, cacheVars, providerVars
  <1>0. /\ CacheTypes /\ ProviderTypes /\ RequestTypes
        /\ req \in [Requests -> RequestRecords] /\ calls \in [Slots -> CallRecords]
        /\ \A c \in Slots : calls[c].token # NONE <=> calls[c].at \in {"served", "exchanged"}
    BY TypeParts DEF RequestTypes, ProviderTypes
  <1>1. ASSUME NEW r \in Requests, RequestStep(r) \/ Starts(r) \/ Aborts(r) PROVE SerialInv'
    <2>1. minted' = minted /\ disk' = disk
      BY <1>1 DEF RequestStep, TakesCached, JoinsRefresh, Refreshes, Unauthorized, UnauthorizedAgain,
                  Retryable, Answered, AbortedFetch, WakesUp, Starts, Aborts
    <2>2. cached' \in {cached, NONE}
      BY <1>1 DEF RequestStep, TakesCached, JoinsRefresh, Refreshes, Unauthorized, UnauthorizedAgain,
                  Retryable, Answered, AbortedFetch, WakesUp, Starts, Aborts, Invalidate
    <2>3. calls' = calls \/ \E c \in Slots : DoRefresh(c, FALSE, TRUE) \/ DoRefresh(c, nextForce, FALSE)
      BY <1>1 DEF RequestStep, TakesCached, JoinsRefresh, Refreshes, Unauthorized, UnauthorizedAgain,
                  Retryable, Answered, AbortedFetch, WakesUp, Starts, Aborts
    <2>4. \A c \in Slots : calls'[c] = calls[c] \/ (calls'[c].at = "reading" /\ calls'[c].token = NONE)
      <3>1. ASSUME NEW c \in Slots, NEW force, NEW advisory, DoRefresh(c, force, advisory)
            PROVE  /\ calls'[c].at = "reading" /\ calls'[c].token = NONE
                   /\ \A d \in Slots \ {c} : calls'[d] = calls[d]
        BY <1>0, <3>1 DEF DoRefresh
      <3> QED
        BY <2>3, <3>1
    <2>5. \A p \in Requests \ {r} : req'[p] = req[p]
      BY <1>0, <1>1 DEF RequestStep, TakesCached, JoinsRefresh, Refreshes, Unauthorized, UnauthorizedAgain,
                  Retryable, Answered, AbortedFetch, WakesUp, Starts, Aborts
    <2>6. req'[r].token \in {req[r].token, cached, NONE}
      <3>1. CASE TakesCached(r)
        BY <1>0, <3>1 DEF TakesCached, WithToken, RequestRecords
      <3>2. CASE JoinsRefresh(r) \/ Refreshes(r)
        BY <1>0, <3>2 DEF JoinsRefresh, Refreshes, Awaiting, RequestRecords
      <3>3. CASE Unauthorized(r) \/ UnauthorizedAgain(r) \/ Retryable(r)
        <4>1. \/ req'[r] = RetryOrThrow(req[r])
              \/ req'[r] = RetryOrThrow([req[r] EXCEPT !.didRefreshFor401 = TRUE])
              \/ req'[r].token = NONE
          BY <1>0, <3>3 DEF Unauthorized, UnauthorizedAgain, Retryable, RequestRecords
        <4> QED
          BY <1>0, <4>1, RetryToken
      <3>4. CASE Answered(r) \/ AbortedFetch(r)
        BY <1>0, <3>4 DEF Answered, AbortedFetch, RequestRecords
      <3>5. CASE WakesUp(r) \/ Starts(r) \/ Aborts(r)
        BY <1>0, <3>5 DEF WakesUp, Starts, Aborts, RequestRecords
      <3> QED
        BY <1>1, <3>1, <3>2, <3>3, <3>4, <3>5 DEF RequestStep
    <2>7. Out' \subseteq Out
      BY <2>1, <2>2, <2>5, <2>6 DEF Out
    <2>8. refused' = refused \/ (refused' = refused \cup {req[r].token.serial} /\ req[r].at = "fetch")
      <3>1. CASE Unauthorized(r) \/ UnauthorizedAgain(r)
        BY <3>1 DEF Unauthorized, UnauthorizedAgain
      <3>2. CASE ~(Unauthorized(r) \/ UnauthorizedAgain(r))
        BY <1>1, <3>2 DEF RequestStep, TakesCached, JoinsRefresh, Refreshes, Retryable, Answered,
                          AbortedFetch, WakesUp, Starts, Aborts
      <3> QED
        BY <3>1, <3>2
    <2>9. req[r].at = "fetch" => req[r].token \in Out
      BY <1>0 DEF RequestTypes, WellFormed, Out
    <2>10. \A c \in Slots : calls[c].at = "exchanged" => calls[c].token # NONE
      BY <1>0
    <2> QED
      BY <2>1, <2>4, <2>7, <2>8, <2>9, <2>10, HandedOnKeeps
  <1>2. ASSUME NEW c \in Slots, Reads(c) PROVE SerialInv'
    <2>1. minted' = minted /\ Out' = Out /\ refused' = refused
      BY <1>2 DEF Reads, ReadFile, Out
    <2>2. calls'[c].at \in {"served", "exchanging"}
          /\ (calls'[c].token # NONE => calls'[c].at = "served" /\ calls'[c].token \in Out)
      BY <1>0, <1>2 DEF Reads, ReadFile, CallRecords, DiskIsFresh, Out
    <2>3. \A d \in Slots \ {c} : calls'[d] = calls[d]
      BY <1>0, <1>2 DEF Reads, ReadFile
    <2>4. \A d \in Slots : calls'[d].at = "exchanged" => calls'[d].token # NONE
      BY <1>0, <2>2, <2>3
    <2> QED
      BY <2>1, <2>2, <2>3, <2>4, HandedOnKeeps
  <1>3. ASSUME NEW c \in Slots, Fails(c) PROVE SerialInv'
    <2>1. ASSUME NEW r \in Requests PROVE req'[r].token = req[r].token
      BY <1>0, <1>3 DEF Fails, RequestRecords
    <2>2. minted' = minted /\ Out' = Out /\ refused' = refused
      BY <1>3, <2>1 DEF Fails, Reject, Out
    <2>3. calls'[c] = NoCall /\ \A d \in Slots \ {c} : calls'[d] = calls[d]
      BY <1>0, <1>3 DEF Fails, Reject
    <2>4. \A d \in Slots : calls'[d].at = "exchanged" => calls'[d].token # NONE
      BY <1>0, <2>3 DEF NoCall
    <2> QED
      BY <2>2, <2>3, <2>4, HandedOnKeeps DEF NoCall
  <1>4. ASSUME NEW s \in 1..minted, Revokes(s) PROVE SerialInv'
    BY <1>4 DEF Revokes, SerialInv, NumberedOut, Unseen, Out
  <1>5. CASE Tick \/ UNCHANGED vars
    BY <1>5 DEF Tick, vars, SerialInv, NumberedOut, Unseen, Out
  <1> QED
    BY <1>1, <1>2, <1>3, <1>4, <1>5, ExchangeKeeps, SettleKeeps DEF Next, CallStep

LEMMA ForcePreserved == TypeOK /\ SharedInv /\ ForceInv /\ [Next]_vars => ForceInv'
  <1> SUFFICES ASSUME TypeOK, SharedInv, ForceInv, [Next]_vars PROVE ForceInv'
    OBVIOUS
  <1> USE DEF requestVars, cacheVars, providerVars
  <1>0. /\ CacheTypes /\ ProviderTypes /\ RequestTypes /\ PendingIsInFlight
        /\ req \in [Requests -> RequestRecords] /\ calls \in [Slots -> CallRecords]
    BY TypeParts DEF RequestTypes, ProviderTypes, SharedInv
  <1>01. \A p \in Requests : req[p].at = "await" => req[p].call \in Slots /\ InFlight(req[p].call)
    BY <1>0 DEF PendingIsInFlight, RequestTypes, WellFormed, RequestRecords
  \* A new call takes a slot that nobody waits for.
  <1>02. ASSUME NEW c \in Slots, NEW force \in BOOLEAN, NEW advisory \in BOOLEAN, DoRefresh(c, force, advisory)
         PROVE  /\ calls'[c].force = force /\ calls'[c].at = "reading" /\ ~InFlight(c)
                /\ \A d \in Slots \ {c} : calls'[d] = calls[d]
    BY <1>0, <1>02 DEF DoRefresh
  <1>1. ASSUME NEW r \in Requests, TakesCached(r) PROVE ForceInv'
    <2>1. req' = [req EXCEPT ![r] = WithToken([@ EXCEPT !.forced = FALSE], cached)]
      BY <1>1 DEF TakesCached
    <2>2. req'[r].at # "await" /\ \A p \in Requests \ {r} : req'[p] = req[p]
      BY <1>0, <2>1 DEF WithToken, RequestRecords
    <2>3. calls' = calls \/ \E c \in Slots : DoRefresh(c, FALSE, TRUE)
      BY <1>1 DEF TakesCached
    <2>4. CASE calls' = calls
      BY <2>2, <2>4 DEF ForceInv
    <2>5. ASSUME NEW c \in Slots, DoRefresh(c, FALSE, TRUE) PROVE ForceInv'
      <3>1. /\ ~calls'[c].force /\ calls'[c].at = "reading" /\ ~InFlight(c)
            /\ \A d \in Slots \ {c} : calls'[d] = calls[d]
        BY <1>02, <2>5
      <3>2. \A p \in Requests : req'[p].at = "await" => req'[p] = req[p] /\ req[p].call # c
        BY <1>01, <2>2, <3>1
      <3> QED
        BY <1>01, <3>1, <3>2 DEF ForceInv
    <2> QED
      BY <2>3, <2>4, <2>5
  <1>2. ASSUME NEW r \in Requests, JoinsRefresh(r) PROVE ForceInv'
    <2>1. ~nextForce /\ calls' = calls /\ req' = [req EXCEPT ![r] = Awaiting(@, pendingRefresh)]
      BY <1>2 DEF JoinsRefresh, Joins
    <2>2. ~req'[r].forced /\ \A p \in Requests \ {r} : req'[p] = req[p]
      BY <1>0, <2>1 DEF Awaiting, RequestRecords
    <2> QED
      BY <2>1, <2>2 DEF ForceInv
  <1>3. ASSUME NEW r \in Requests, Refreshes(r) PROVE ForceInv'
    <2>1. PICK c \in Slots : DoRefresh(c, nextForce, FALSE) /\ req' = [req EXCEPT ![r] = Awaiting(@, c)]
      BY <1>3 DEF Refreshes
    <2>2. /\ req'[r].call = c /\ (req'[r].forced <=> nextForce)
          /\ \A p \in Requests \ {r} : req'[p] = req[p]
      BY <1>0, <2>1 DEF Awaiting, RequestRecords
    <2>3. /\ calls'[c].force = nextForce /\ calls'[c].at = "reading" /\ ~InFlight(c)
          /\ \A d \in Slots \ {c} : calls'[d] = calls[d]
      BY <1>0, <1>02, <2>1 DEF CacheTypes
    <2>4. \A p \in Requests \ {r} : req'[p].at = "await" => req'[p] = req[p] /\ req[p].call # c
      BY <1>01, <2>2, <2>3
    <2> QED
      BY <1>01, <2>2, <2>3, <2>4 DEF ForceInv
  <1>4. ASSUME NEW c \in Slots, Settles(c) \/ Fails(c) PROVE ForceInv'
    <2>1. calls'[c] = NoCall /\ \A d \in Slots \ {c} : calls'[d] = calls[d]
      BY <1>0, <1>4 DEF Settles, Fails, Resolve, Reject
    <2>2. ASSUME NEW p \in Requests, req'[p].at = "await" PROVE req[p].call # c /\ req'[p] = req[p]
      <3>1. req[p].call # c => req'[p] = req[p]
        BY <1>4 DEF Settles, Fails
      <3>2. CASE req[p].call = c
        <4>1. req'[p] \in {WithToken(req[p], calls[c].token), [req[p] EXCEPT !.at = "failed", !.call = NONE]}
          BY <1>4, <3>2 DEF Settles, Fails
        <4>2. req'[p].at \in {"fetch", "failed"}
          BY <1>0, <4>1 DEF WithToken, RequestRecords
        <4> QED
          BY <2>2, <4>2
      <3> QED
        BY <3>1, <3>2
    <2> QED
      BY <1>01, <2>1, <2>2 DEF ForceInv, NoCall
  <1>5. ASSUME NEW c \in Slots, Reads(c) \/ Exchanges(c) PROVE ForceInv'
    <2>1. req' = req /\ \A d \in Slots \ {c} : calls'[d] = calls[d]
      BY <1>0, <1>5 DEF Reads, ReadFile, Exchanges, Exchange
    <2>2. calls'[c].force = calls[c].force /\ (calls'[c].at = "served" => ~calls[c].force)
      <3>1. CASE Reads(c)
        BY <1>0, <3>1 DEF Reads, ReadFile, CallRecords
      <3>2. CASE Exchanges(c)
        BY <1>0, <3>2 DEF Exchanges, Exchange, CallRecords
      <3> QED
        BY <1>5, <3>1, <3>2
    <2> QED
      BY <1>01, <2>1, <2>2 DEF ForceInv
  <1>6. ASSUME NEW r \in Requests, ~TakesCached(r), ~JoinsRefresh(r), ~Refreshes(r),
               RequestStep(r) \/ Starts(r) \/ Aborts(r)
        PROVE  ForceInv'
    <2>1. calls' = calls
      BY <1>6 DEF RequestStep, Unauthorized, UnauthorizedAgain, Retryable, Answered, AbortedFetch, WakesUp,
                  Starts, Aborts
    <2>2. \A p \in Requests \ {r} : req'[p] = req[p]
      BY <1>0, <1>6 DEF RequestStep, Unauthorized, UnauthorizedAgain, Retryable, Answered, AbortedFetch,
                        WakesUp, Starts, Aborts
    <2>3. req'[r].at = "await" => /\ req[r].at = "await" /\ req'[r].call = req[r].call
                                  /\ req'[r].forced = req[r].forced
      <3>1. CASE Unauthorized(r)
        BY <1>0, <3>1, MarkOps, RetryOps DEF Unauthorized, RequestTypes
      <3>2. CASE UnauthorizedAgain(r) \/ Retryable(r)
        BY <1>0, <3>2, RetryOps DEF UnauthorizedAgain, Retryable, RequestTypes, RequestRecords
      <3>3. CASE Answered(r) \/ AbortedFetch(r) \/ WakesUp(r) \/ Starts(r) \/ Aborts(r)
        BY <1>0, <3>3 DEF Answered, AbortedFetch, WakesUp, Starts, Aborts, Done, RequestRecords
      <3> QED
        BY <1>6, <3>1, <3>2, <3>3 DEF RequestStep
    <2> QED
      BY <2>1, <2>2, <2>3 DEF ForceInv
  <1>7. ASSUME NEW s \in 1..minted, Revokes(s) PROVE ForceInv'
    BY <1>7 DEF Revokes, ForceInv
  <1>8. CASE Tick \/ UNCHANGED vars
    BY <1>8 DEF Tick, vars, ForceInv
  <1> QED
    BY <1>1, <1>2, <1>3, <1>4, <1>5, <1>6, <1>7, <1>8 DEF Next, CallStep

\* Only the settlement of its call sends a waiting request out.
LEMMA ForcedIsNew ==
  ASSUME TypeOK, SharedInv, SerialInv, ForceInv, [Next]_vars,
         NEW r \in Requests, req[r].at = "await", req[r].forced, req'[r].at = "fetch"
  PROVE  req'[r].token.serial \notin refused
  <1> USE DEF requestVars, cacheVars, providerVars
  <1>0. /\ req \in [Requests -> RequestRecords] /\ calls \in [Slots -> CallRecords]
        /\ req[r].call \in Slots
    BY TypeParts DEF RequestTypes, ProviderTypes, WellFormed, RequestRecords
  <1>1. PICK c \in Slots : Settles(c) /\ req[r].call = c
    <2>1. ASSUME NEW p \in Requests, RequestStep(p) \/ Starts(p) \/ Aborts(p) PROVE req'[r].at # "fetch"
      <3>1. CASE p # r
        <4>1. req'[r] = req[r]
          BY <1>0, <2>1, <3>1
          DEF RequestStep, TakesCached, JoinsRefresh, Refreshes, Unauthorized, UnauthorizedAgain,
              Retryable, Answered, AbortedFetch, WakesUp, Starts, Aborts
        <4> QED
          BY <4>1
      <3>2. CASE p = r
        <4>1. Aborts(r)
          BY <2>1, <3>2
          DEF RequestStep, TakesCached, JoinsRefresh, Refreshes, Unauthorized, UnauthorizedAgain,
              Retryable, Answered, AbortedFetch, WakesUp, Starts, Aborts
        <4> QED
          BY <1>0, <4>1 DEF Aborts, RequestRecords
      <3> QED
        BY <3>1, <3>2
    <2>2. ASSUME NEW c \in Slots, Fails(c) PROVE req'[r].at # "fetch"
      BY <1>0, <2>2 DEF Fails, RequestRecords
    <2>3. ASSUME NEW c \in Slots, Settles(c) PROVE req[r].call = c
      BY <2>3 DEF Settles
    <2>4. ASSUME \/ \E c \in Slots : Reads(c) \/ Exchanges(c)
                 \/ \E s \in 1..minted : Revokes(s)
                 \/ Tick \/ UNCHANGED vars
          PROVE  req' = req
      BY <2>4 DEF Reads, ReadFile, Exchanges, Exchange, Revokes, Tick, vars
    <2> QED
      BY <2>1, <2>2, <2>3, <2>4 DEF Next, CallStep
  <1>2. calls[c].force /\ calls[c].at = "exchanged"
    BY <1>1 DEF ForceInv, Settles, Resolve
  <1>3. req'[r].token = calls[c].token
    BY <1>0, <1>1 DEF Settles, WithToken, RequestRecords
  <1> QED
    BY <1>2, <1>3 DEF SerialInv, Unseen

\* For any number of requests and provider calls, whatever calls overlap and whichever the file answers:
\* a request whose own getToken forced the refresh goes out with a token no 401 has been seen for.
THEOREM ForcedRefreshesBringNewTokens == Spec => ForcedTokensAreNew
  <1>1. Init => ForceInv
    BY DEF Init, CacheInit, NewRequest, NoCall, ForceInv
  <1>2. TypeOK /\ SharedInv /\ SerialInv /\ ForceInv /\ [Next]_vars => (TypeOK /\ SharedInv /\ SerialInv /\ ForceInv)'
    BY TypePreserved, SharedPreserved, SerialPreserved, ForcePreserved
  <1>3. TypeOK /\ SharedInv /\ SerialInv /\ ForceInv /\ [Next]_vars =>
          [\A r \in Requests : req[r].at = "await" /\ req[r].forced /\ req'[r].at = "fetch"
             => req'[r].token.serial \notin refused]_vars
    BY ForcedIsNew
  <1> QED
    BY <1>1, <1>2, <1>3, TypeInit, SharedInit, SerialInit, PTL DEF Spec, ForcedTokensAreNew

=============================================================================
