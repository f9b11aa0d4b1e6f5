--------------------------- MODULE AuthedRequests ---------------------------
(***************************************************************************)
(* The requests of one client (src/client.ts: makeRequest, authHeaders,    *)
(* shouldRetry, retryRequest) that share its TokenCache.                   *)
(*                                                                         *)
(* Each request is one top-level call with its retries.  The server is     *)
(* external: it refuses a token that has expired or that it revoked, and   *)
(* answers anything else as it likes.                                      *)
(***************************************************************************)
EXTENDS TokenCache

CONSTANTS
  Requests,
  MaxRetries,
  MaxTime,    \* bound: ticks of the clock
  MaxRevoked, \* bound: tokens the server revokes
  MaxAborts,  \* bound: requests the caller aborts
  MaxFaults   \* bound: provider calls that fail

ASSUME RequestAssumption == IsFiniteSet(Requests) /\ MaxRetries \in Nat

VARIABLES
  req,      \* [at, retriesRemaining, aborted, didRefreshFor401, forced, call, token]
  revoked,  \* server: serials it refuses
  refused,  \* serials whose 401 this client has seen
  owed,     \* requests whose 401 no forced refresh has followed yet
  faults

requestVars == <<req, revoked, refused, owed, faults>>
vars == <<now, cacheVars, providerVars, requestVars>>

Done == {"ok", "failed"}

TypeOK ==
  /\ CacheTypeOK
  /\ req \in [Requests -> [at : {"new", "auth", "await", "fetch", "sleep"} \cup Done,
                           retriesRemaining : 0..MaxRetries,
                           aborted : BOOLEAN, didRefreshFor401 : BOOLEAN, forced : BOOLEAN,
                           call : Slots \cup {NONE}, token : Token \cup {NONE}]]
  /\ revoked \subseteq Nat /\ refused \subseteq Nat /\ owed \subseteq Requests
  /\ \A r \in Requests : /\ req[r].at = "await" <=> req[r].call # NONE
                         /\ req[r].at = "fetch" <=> req[r].token # NONE

NewRequest == [at |-> "new", retriesRemaining |-> MaxRetries, aborted |-> FALSE,
               didRefreshFor401 |-> FALSE, forced |-> FALSE, call |-> NONE, token |-> NONE]

Init ==
  /\ CacheInit
  /\ req = [r \in Requests |-> NewRequest]
  /\ revoked = {} /\ refused = {} /\ owed = {} /\ faults = 0

-----------------------------------------------------------------------------
(* authHeaders *)

\* The headers are built: fetch, unless the caller gave up meanwhile.
WithToken(q, token) ==
  IF q.aborted THEN [q EXCEPT !.at = "failed", !.call = NONE]
               ELSE [q EXCEPT !.at = "fetch", !.call = NONE, !.token = token]

Awaiting(q, c) == [q EXCEPT !.at = "await", !.call = c, !.forced = nextForce]

Starts(r) ==
  /\ req[r].at = "new"
  /\ req' = [req EXCEPT ![r].at = "auth"]
  /\ UNCHANGED <<now, cacheVars, providerVars, revoked, refused, owed, faults>>

\* getToken returns the cached token; in the advisory window it may refresh behind.
TakesCached(r) ==
  /\ req[r].at = "auth"
  /\ ~MustRefresh
  /\ req' = [req EXCEPT ![r] = WithToken([@ EXCEPT !.forced = FALSE], cached)]
  /\ nextForce' = FALSE
  /\ IF InAdvisoryWindow /\ RefreshesBehind
     THEN \E c \in Slots : DoRefresh(c, FALSE, TRUE)
     ELSE UNCHANGED <<pendingRefresh, calls>>
  /\ UNCHANGED <<now, cached, lastAdvisoryError, disk, minted, revoked, refused, owed, faults>>

JoinsRefresh(r) ==
  /\ req[r].at = "auth"
  /\ MustRefresh /\ Joins
  /\ req' = [req EXCEPT ![r] = Awaiting(@, pendingRefresh)]
  /\ nextForce' = FALSE
  /\ UNCHANGED <<now, cached, pendingRefresh, lastAdvisoryError, providerVars,
                 revoked, refused, owed, faults>>

Refreshes(r) ==
  /\ req[r].at = "auth"
  /\ MustRefresh /\ ~Joins
  /\ \E c \in Slots : /\ DoRefresh(c, nextForce, FALSE)
                      /\ req' = [req EXCEPT ![r] = Awaiting(@, c)]
  /\ nextForce' = FALSE
  /\ owed' = IF nextForce THEN {} ELSE owed
  /\ UNCHANGED <<now, cached, lastAdvisoryError, disk, minted, revoked, refused, faults>>

\* The call settles, and everyone who awaits it goes on with its outcome.
Settles(c) ==
  /\ Resolve(c)
  /\ WriteBack(c)
  /\ req' = [r \in Requests |->
               IF req[r].call = c THEN WithToken(req[r], calls[c].token) ELSE req[r]]
  /\ UNCHANGED <<now, minted, revoked, refused, owed, faults>>

Fails(c) ==
  /\ faults < MaxFaults /\ faults' = faults + 1
  /\ Reject(c)
  /\ req' = [r \in Requests |->
               IF req[r].call = c THEN [req[r] EXCEPT !.at = "failed", !.call = NONE] ELSE req[r]]
  /\ UNCHANGED <<now, disk, minted, revoked, refused, owed>>

-----------------------------------------------------------------------------
(* makeRequest, after the fetch *)

\* Variants: one retry too many; a retry that costs nothing.
RetryOrThrowLate(q) ==
  IF q.retriesRemaining >= 0
  THEN [q EXCEPT !.at = "sleep", !.retriesRemaining = @ - 1, !.token = NONE]
  ELSE [q EXCEPT !.at = "failed", !.token = NONE]
RetryOrThrowForFree(q) ==
  IF q.retriesRemaining > 0
  THEN [q EXCEPT !.at = "sleep", !.token = NONE]
  ELSE [q EXCEPT !.at = "failed", !.token = NONE]

\* A retryable answer: retryRequest while there are retries left, else the error.
RetryOrThrow(q) ==
  IF q.retriesRemaining > 0
  THEN [q EXCEPT !.at = "sleep", !.retriesRemaining = @ - 1, !.token = NONE]
  ELSE [q EXCEPT !.at = "failed", !.token = NONE]

Refuses(token) == token.serial \in revoked \/ token.expiresAt <= now

\* shouldRetry invalidates before the remaining retries are looked at.
Unauthorized(r) ==
  /\ req[r].at = "fetch" /\ ~req[r].aborted
  /\ Refuses(req[r].token)
  /\ ~req[r].didRefreshFor401
  /\ Invalidate
  /\ req' = [req EXCEPT ![r] = RetryOrThrow([@ EXCEPT !.didRefreshFor401 = TRUE])]
  /\ refused' = refused \cup {req[r].token.serial}
  /\ owed' = owed \cup {r}
  /\ UNCHANGED <<now, pendingRefresh, lastAdvisoryError, providerVars, revoked, faults>>

\* No retry by default; x-should-retry can ask for one.
UnauthorizedAgain(r) ==
  /\ req[r].at = "fetch" /\ ~req[r].aborted
  /\ Refuses(req[r].token)
  /\ req[r].didRefreshFor401
  /\ req' \in {[req EXCEPT ![r] = RetryOrThrow(@)],
               [req EXCEPT ![r].at = "failed", ![r].token = NONE]}
  /\ refused' = refused \cup {req[r].token.serial}
  /\ UNCHANGED <<now, cacheVars, providerVars, revoked, owed, faults>>

\* A connection error, a timeout, 408, 409, 429, 5xx or x-should-retry: true.
Retryable(r) ==
  /\ req[r].at = "fetch" /\ ~req[r].aborted
  /\ req' = [req EXCEPT ![r] = RetryOrThrow(@)]
  /\ UNCHANGED <<now, cacheVars, providerVars, revoked, refused, owed, faults>>

\* A good answer, or an error nobody retries.
Answered(r) ==
  /\ req[r].at = "fetch" /\ ~req[r].aborted
  /\ ~Refuses(req[r].token)
  /\ \E end \in Done : req' = [req EXCEPT ![r].at = end, ![r].token = NONE]
  /\ UNCHANGED <<now, cacheVars, providerVars, revoked, refused, owed, faults>>

\* The fetch rejects because the caller aborted it.
AbortedFetch(r) ==
  /\ req[r].at = "fetch" /\ req[r].aborted
  /\ req' = [req EXCEPT ![r].at = "failed", ![r].token = NONE]
  /\ UNCHANGED <<now, cacheVars, providerVars, revoked, refused, owed, faults>>

\* retryRequest's sleep ends; an abort only ends it sooner, and the next attempt
\* asks for a token before it looks at the signal.
WakesUp(r) ==
  /\ req[r].at = "sleep"
  /\ req' = [req EXCEPT ![r].at = "auth"]
  /\ UNCHANGED <<now, cacheVars, providerVars, revoked, refused, owed, faults>>

-----------------------------------------------------------------------------
(* The world outside *)

Aborts(r) ==
  /\ req[r].at \notin Done \cup {"new"} /\ ~req[r].aborted
  /\ Cardinality({p \in Requests : req[p].aborted}) < MaxAborts
  /\ req' = [req EXCEPT ![r].aborted = TRUE]
  /\ UNCHANGED <<now, cacheVars, providerVars, revoked, refused, owed, faults>>

Revokes(s) ==
  /\ s \notin revoked /\ Cardinality(revoked) < MaxRevoked
  /\ revoked' = revoked \cup {s}
  /\ UNCHANGED <<now, cacheVars, providerVars, req, refused, owed, faults>>

Tick ==
  /\ now < AdvisoryBackoff + MaxTime
  /\ now' = now + 1
  /\ UNCHANGED <<cacheVars, providerVars, requestVars>>

Reads(c)     == ReadFile(c) /\ UNCHANGED requestVars
Exchanges(c) == Exchange(c) /\ UNCHANGED requestVars

RequestStep(r) ==
  TakesCached(r) \/ JoinsRefresh(r) \/ Refreshes(r) \/ Unauthorized(r) \/ UnauthorizedAgain(r)
    \/ Retryable(r) \/ Answered(r) \/ AbortedFetch(r) \/ WakesUp(r)

CallStep(c) == Reads(c) \/ Exchanges(c) \/ Settles(c) \/ Fails(c)

Next ==
  \/ \E r \in Requests : RequestStep(r) \/ Starts(r) \/ Aborts(r)
  \/ \E c \in Slots : CallStep(c)
  \/ \E s \in 1..minted : Revokes(s)
  \/ Tick

Spec == Init /\ [][Next]_vars

(* The event loop serves every request and every answer.  fetchWithTimeout *)
(* bounds an attempt; that the provider's calls end is the provider's duty, *)
(* for nothing in the cache times them out.                                 *)
FairSpec ==
  /\ Spec
  /\ \A r \in Requests : WF_vars(RequestStep(r))
  /\ \A c \in Slots : WF_vars(CallStep(c))

-----------------------------------------------------------------------------
(* Properties *)

\* pendingRefresh is never a call that has settled: whoever joined one would get
\* an old outcome again, for ever if it was a failure.  Nobody awaits a settled
\* call either, whatever forced refreshes and late settlements did to the slot.
PendingIsInFlight ==
  /\ pendingRefresh # NONE => InFlight(pendingRefresh)
  /\ \A r \in Requests : req[r].at = "await" => InFlight(req[r].call)

\* Deduplication, as far as it goes: at most one provider call at a time, and one
\* more for every request that has met a 401.  Without a 401 all callers share one.
CallsInFlightBounded ==
  Cardinality({c \in Slots : InFlight(c)})
    <= 1 + Cardinality({r \in Requests : req[r].didRefreshFor401})

\* After its 401 a request is not sent again before a forced refresh has begun,
\* even when another request's getToken consumed the flag or an older call has
\* filled the cache meanwhile.
NoInvalidationLost == \A r \in Requests : req[r].at = "fetch" => r \notin owed

\* A request whose getToken was the forced one goes out with a token that no 401
\* has been seen for: not with what an earlier call read from the file.
ForcedTokensAreNew ==
  [][\A r \in Requests : req[r].at = "await" /\ req[r].forced /\ req'[r].at = "fetch"
       => req'[r].token.serial \notin refused]_vars

\* Every request ends, whatever other requests do to the shared cache: nobody is
\* left with a promise that nothing settles, and retries run out.
RequestsEnd == \A r \in Requests : req[r].at = "auth" ~> req[r].at \in Done

=============================================================================
