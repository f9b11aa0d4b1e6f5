------------------------------ MODULE WorkLease ------------------------------
(***************************************************************************)
(* The per-item flow of src/lib/environments/worker.ts: several workers    *)
(* poll one environment; whoever claims its work item heartbeats the lease *)
(* while it sets up, serves the session and tears down, and force-stops    *)
(* the item at the end unless it lost the lease.                           *)
(*                                                                         *)
(* Time is discrete.  A timer that is due fires before time moves on, so   *)
(* the bounds below leave out the event loop's own delays.  The server is  *)
(* external: it keeps one item with the stamp of the last heartbeat it     *)
(* took, refuses a heartbeat that expects another stamp (412) and may give *)
(* the item to someone else once the lease has run out.                    *)
(***************************************************************************)
EXTENDS Naturals, FiniteSets

CONSTANTS
  Workers, Nobody,
  DefaultTtl, DefaultInterval,  \* HEARTBEAT_TTL_DEFAULT_MS, HEARTBEAT_DEFAULT_MS
  ServerTtl,    \* the ttl the server enforces
  MaxLatency,   \* a request that takes longer counts as a fault
  MaxFaults,    \* bound: faults of any kind
  MaxAborts,    \* bound: workers told to quit
  MaxStamp      \* bound: heartbeat stamps, reused once nothing refers to them

ASSUME LeaseAssumption ==
  /\ Nobody \notin Workers
  /\ DefaultTtl \in Nat /\ ServerTtl \in Nat \ {0} /\ DefaultInterval \in Nat \ {0}
  /\ MaxLatency \in Nat /\ MaxFaults \in Nat /\ MaxAborts \in Nat /\ MaxStamp \in Nat \ {0}

NoHeartbeat == 0              \* the sentinel a first heartbeat expects
NoStray     == MaxStamp + 1   \* no abandoned request is under way
Stamps      == 0..MaxStamp

VARIABLES
  item,    \* server: [state, stamp, left, holder]
  phase,   \* where #handleItem (or the poll loop) of each worker is
  beat,    \* heartbeatLoop: [at, age, since, known, last, reply, stamp]
  lease,   \* the Lease: [reason, aborted]; aborted is its controller's signal
  clean,   \* cleanEnd
  stray,   \* stamp a heartbeat abandoned on the wire still expects
  quit,    \* the external signal
  faults

vars == <<item, phase, beat, lease, clean, stray, quit, faults>>

Handling == {"setup", "serve", "skills", "finish", "flush", "dispose"}
Phases   == {"poll", "ack", "await", "stop", "exit"} \cup Handling

Silent == [at |-> "off", age |-> 0, since |-> 0, known |-> FALSE, last |-> NoHeartbeat,
           reply |-> "none", stamp |-> NoHeartbeat]

Fault == faults < MaxFaults /\ faults' = faults + 1

-----------------------------------------------------------------------------
(* The first success tells the loop the server's ttl; the defaults until then. *)

Least(a, b)   == IF a < b THEN a ELSE b
Largest(a, b) == IF a < b THEN b ELSE a

Ttl(w) == IF beat[w].known THEN ServerTtl ELSE DefaultTtl

\* Half the ttl, but never more than the default and never less than a tick.
Interval(w) ==
  IF beat[w].known THEN Largest(1, Least(ServerTtl \div 2, DefaultInterval)) ELSE DefaultInterval

\* Variant: the last recorded reason wins.
FinishOverwriting(w, why) ==
  lease' = [lease EXCEPT ![w] = [reason |-> why, aborted |-> TRUE]]

\* Lease.finish: the first recorded reason wins.
Finish(w, why) ==
  lease' = [lease EXCEPT ![w] =
              [reason |-> IF @.reason = "none" THEN why ELSE @.reason, aborted |-> TRUE]]

Lost(w) == lease[w].reason \in {"lease_lost", "assumed_lost"}

-----------------------------------------------------------------------------
Init ==
  /\ item = [state |-> "queued", stamp |-> NoHeartbeat, left |-> 0, holder |-> Nobody]
  /\ phase = [w \in Workers |-> "poll"]
  /\ beat = [w \in Workers |-> Silent]
  /\ lease = [w \in Workers |-> [reason |-> "none", aborted |-> FALSE]]
  /\ clean = [w \in Workers |-> FALSE]
  /\ stray = [w \in Workers |-> NoStray]
  /\ quit = [w \in Workers |-> FALSE]
  /\ faults = 0

-----------------------------------------------------------------------------
(* The server.                                                              *)

\* Stamps that neither the server nor a request or an answer refers to; a renewal takes one of them.
FreeStamps ==
  {s \in 1..MaxStamp :
     s # item.stamp /\ \A w \in Workers : s # beat[w].last /\ s # beat[w].stamp /\ s # stray[w]}
FreshStamp == CHOOSE s \in FreeStamps : TRUE

Renewed(w) == [item EXCEPT !.stamp = FreshStamp, !.left = ServerTtl, !.holder = w]

Expected(s) == item.state \in {"active", "stopping"} /\ item.stamp = s

\* The lease has run out and the server takes the item back.
Lapse ==
  /\ item.state \in {"active", "stopping"} /\ item.left = 0
  /\ item' = [state |-> IF item.state = "active" THEN "queued" ELSE "stopped",
              stamp |-> NoHeartbeat, left |-> 0, holder |-> Nobody]
  /\ UNCHANGED <<phase, beat, lease, clean, stray, quit, faults>>

AskToStop ==
  /\ item.state = "active"
  /\ item' = [item EXCEPT !.state = "stopping"]
  /\ UNCHANGED <<phase, beat, lease, clean, stray, quit, faults>>

\* A heartbeat request reaches the server and is answered.
BeatReaches(w) ==
  /\ beat[w].at = "sent"
  /\ \/ /\ Expected(beat[w].last) /\ FreeStamps # {}
        /\ item' = Renewed(w)
        /\ beat' = [beat EXCEPT ![w].at = "answered", ![w].stamp = FreshStamp,
                                ![w].reply = IF item.state = "active" THEN "ok" ELSE "stop"]
     \/ /\ item.state = "stopped" /\ item.stamp = beat[w].last
        /\ beat' = [beat EXCEPT ![w].at = "answered", ![w].stamp = item.stamp, ![w].reply = "stop"]
        /\ UNCHANGED item
     \/ /\ ~Expected(beat[w].last)
        /\ ~(item.state = "stopped" /\ item.stamp = beat[w].last)
        /\ beat' = [beat EXCEPT ![w].at = "answered", ![w].reply = "moved"]
        /\ UNCHANGED item
  /\ UNCHANGED <<phase, lease, clean, stray, quit, faults>>

\* So does one its worker has given up on; nobody reads the answer.
StrayReaches(w) ==
  /\ stray[w] # NoStray
  /\ Expected(stray[w]) => FreeStamps # {}
  /\ stray' = [stray EXCEPT ![w] = NoStray]
  /\ item' = IF Expected(stray[w]) THEN Renewed(w) ELSE item
  /\ UNCHANGED <<phase, beat, lease, clean, quit, faults>>

-----------------------------------------------------------------------------
(* heartbeatLoop.                                                           *)

Beating(w) == beat[w].at # "off"

\* The loop ends and its variables with it.
LoopEnds(w) == beat' = [beat EXCEPT ![w] = Silent]

\* A success: remember when, the stamp to expect next and the ttl.
BeatOk(w) ==
  /\ beat[w].at = "answered" /\ beat[w].reply = "ok"
  /\ IF lease[w].aborted
     THEN LoopEnds(w)
     ELSE beat' = [beat EXCEPT ![w] = [Silent EXCEPT !.at = "sleep", !.known = TRUE,
                                                     !.last = beat[w].stamp]]
  /\ UNCHANGED <<item, phase, lease, clean, stray, quit, faults>>

\* The item is stopping or stopped, or the lease was not extended.
BeatStop(w) ==
  /\ beat[w].at = "answered" /\ beat[w].reply = "stop"
  /\ LoopEnds(w) /\ Finish(w, "heartbeat_stop")
  /\ UNCHANGED <<item, phase, clean, stray, quit, faults>>

\* Variant: the answer that failed is kept.
TryAgainStale(w) ==
  beat' = [beat EXCEPT ![w].at = "sleep", ![w].age = 0] /\ UNCHANGED lease

\* Back to sleep until the next beat.
TryAgain(w) ==
  /\ beat' = [beat EXCEPT ![w].at = "sleep", ![w].age = 0, ![w].reply = "none",
                          ![w].stamp = NoHeartbeat]
  /\ UNCHANGED lease

\* Variant: a 412 is retried like any other failure.
BeatMovedRetried(w) ==
  /\ beat[w].at = "answered" /\ beat[w].reply = "moved" /\ ~lease[w].aborted
  /\ TryAgain(w)
  /\ UNCHANGED <<item, phase, clean, stray, quit, faults>>

BeatMoved(w) ==
  /\ beat[w].at = "answered" /\ beat[w].reply = "moved" /\ ~lease[w].aborted
  /\ LoopEnds(w) /\ Finish(w, "lease_lost")
  /\ UNCHANGED <<item, phase, clean, stray, quit, faults>>

\* Another 4xx that no retry mends.
BeatRejected(w) ==
  /\ beat[w].at = "sent" /\ ~lease[w].aborted /\ Fault
  /\ LoopEnds(w) /\ Finish(w, "heartbeat_rejected")
  /\ UNCHANGED <<item, phase, clean, stray, quit>>

\* Variant: the check waits for the first success.
GiveUpBeatAfterSuccess(w) ==
  IF beat[w].known /\ beat[w].since > Ttl(w)
  THEN LoopEnds(w) /\ Finish(w, "assumed_lost")
  ELSE TryAgain(w)

\* The beat failed for now: too long without a success means the lease is gone.
GiveUpBeat(w) ==
  IF beat[w].since > Ttl(w)
  THEN LoopEnds(w) /\ Finish(w, "assumed_lost")
  ELSE TryAgain(w)

Pending(w) == beat[w].at \in {"sent", "answered"} /\ ~lease[w].aborted

\* An error, or an answer lost, that the client's own retries did not mend.
BeatFails(w) ==
  /\ Pending(w) /\ Fault
  /\ GiveUpBeat(w)
  /\ UNCHANGED <<item, phase, clean, stray, quit>>

\* The client's own retry repeats the request, expectation included.
BeatRetried(w) ==
  /\ Pending(w) /\ beat[w].at = "answered" /\ Fault
  /\ beat' = [beat EXCEPT ![w].at = "sent", ![w].reply = "none", ![w].stamp = NoHeartbeat]
  /\ UNCHANGED <<item, phase, lease, clean, stray, quit>>

\* An abandoned request may still be on its way to the server.
Abandon(w) ==
  \/ UNCHANGED stray
  \/ beat[w].at = "sent" /\ stray' = [stray EXCEPT ![w] = beat[w].last]

\* Variant: an unanswered call is left to the client's own time limit.
CutOffNever(w) == FALSE

CutOffDue(w) == Pending(w) /\ beat[w].age = Interval(w)

BeatCutOff(w) ==
  /\ CutOffDue(w)
  /\ GiveUpBeat(w)
  /\ Abandon(w)
  /\ UNCHANGED <<item, phase, clean, quit, faults>>

NextBeatDue(w) == beat[w].at = "sleep" /\ beat[w].age = Interval(w)

NextBeat(w) ==
  /\ NextBeatDue(w) /\ ~lease[w].aborted
  /\ beat' = [beat EXCEPT ![w].at = "sent", ![w].age = 0]
  /\ UNCHANGED <<item, phase, lease, clean, stray, quit, faults>>

\* An abort ends the sleep and the call in flight.
HeartbeatUnwinds(w) ==
  /\ Beating(w) /\ lease[w].aborted
  /\ LoopEnds(w)
  /\ Abandon(w)
  /\ UNCHANGED <<item, phase, lease, clean, quit, faults>>

-----------------------------------------------------------------------------
(* The poll loop (autoStop: false) and #handleItem.                          *)

Become(w, p) == phase' = [phase EXCEPT ![w] = p]

Done(w) == Become(w, IF quit[w] THEN "exit" ELSE "poll")

PollClaims(w) ==
  /\ phase[w] = "poll" /\ item.state = "queued"
  /\ item' = [state |-> "active", stamp |-> NoHeartbeat, left |-> ServerTtl, holder |-> w]
  /\ Become(w, "ack")
  /\ UNCHANGED <<beat, lease, clean, stray, quit, faults>>

\* Variant: the heartbeat is left for after the downloads.
AckSucceedsUnbeaten(w) ==
  /\ phase[w] = "ack" /\ ~quit[w]
  /\ Become(w, "setup")
  /\ beat' = [beat EXCEPT ![w] = Silent]
  /\ lease' = [lease EXCEPT ![w] = [reason |-> "none", aborted |-> FALSE]]
  /\ clean' = [clean EXCEPT ![w] = FALSE]
  /\ UNCHANGED <<item, stray, quit, faults>>

\* The item is yielded; its heartbeats start before anything is fetched.
AckSucceeds(w) ==
  /\ phase[w] = "ack" /\ ~quit[w]
  /\ Become(w, "setup")
  /\ beat' = [beat EXCEPT ![w] = [Silent EXCEPT !.at = "sent"]]
  /\ lease' = [lease EXCEPT ![w] = [reason |-> "none", aborted |-> FALSE]]
  /\ clean' = [clean EXCEPT ![w] = FALSE]
  /\ UNCHANGED <<item, stray, quit, faults>>

AckFails(w) ==
  /\ phase[w] = "ack" /\ Fault /\ Done(w)
  /\ UNCHANGED <<item, beat, lease, clean, stray, quit>>

AckAborted(w) ==
  /\ phase[w] = "ack" /\ quit[w] /\ Done(w)
  /\ UNCHANGED <<item, beat, lease, clean, stray, quit, faults>>

\* Session, skills and memories are fetched; none of it watches the signal.
SetUp(w) ==
  /\ phase[w] = "setup" /\ Become(w, "serve")
  /\ UNCHANGED <<item, beat, lease, clean, stray, quit, faults>>

\* The fetch or a download throws, or the item is not a session.
SetUpFails(w) ==
  /\ phase[w] = "setup" /\ Become(w, "skills")
  /\ UNCHANGED <<item, beat, lease, clean, stray, quit, faults>>

\* The runner's iteration ends; a memory sync that throws ends it too.
RunnerEnds(w, throws) ==
  /\ phase[w] = "serve" /\ Become(w, "skills")
  /\ clean' = [clean EXCEPT ![w] = ~throws /\ ~lease[w].aborted]
  /\ UNCHANGED <<item, beat, lease, stray, quit, faults>>

\* The skills are cleaned up; the memory stores, if there are any, come next.
SkillsCleaned(w) ==
  /\ phase[w] = "skills" /\ Become(w, IF clean[w] THEN "finish" ELSE "flush")
  /\ UNCHANGED <<item, beat, lease, clean, stray, quit, faults>>

AfterFinalSync(w) == phase[w] = "finish" /\ Become(w, "flush")
AfterFlush(w)     == phase[w] = "flush" /\ Become(w, "dispose")

\* The last full sync and the flush, each done by itself ...
MemoriesSaved(w) ==
  /\ AfterFinalSync(w) \/ AfterFlush(w)
  /\ UNCHANGED <<item, beat, lease, clean, stray, quit, faults>>

\* Variant: only the last full sync is bounded.
CutOffFinalSyncOnly(w) ==
  /\ AfterFinalSync(w)
  /\ UNCHANGED <<item, beat, lease, clean, stray, quit, faults>>

\* ... or cut off by withTimeout.
MemoriesCutOff(w) ==
  /\ AfterFinalSync(w) \/ AfterFlush(w)
  /\ UNCHANGED <<item, beat, lease, clean, stray, quit, faults>>

\* The stores are disposed of, or there are none.
ReleaseLease(w) ==
  /\ phase[w] \in {"skills", "dispose"} /\ Become(w, "await")
  /\ Finish(w, "runner_done")
  /\ UNCHANGED <<item, beat, clean, stray, quit, faults>>

HeartbeatEnded(w) ==
  /\ phase[w] = "await" /\ beat[w].at = "off"
  /\ IF Lost(w) THEN Done(w) ELSE Become(w, "stop")
  /\ UNCHANGED <<item, beat, lease, clean, stray, quit, faults>>

\* forceStop: the server stops the item whoever holds it.
StopReaches(w) ==
  /\ phase[w] = "stop" /\ Done(w)
  /\ item' = [item EXCEPT !.state = "stopped"]
  /\ UNCHANGED <<beat, lease, clean, stray, quit, faults>>

StopFails(w) ==
  /\ phase[w] = "stop" /\ Fault /\ Done(w)
  /\ UNCHANGED <<item, beat, lease, clean, stray, quit>>

-----------------------------------------------------------------------------
(* The external signal, a killed process and the passing of time.            *)

ExternalAbort(w) ==
  /\ ~quit[w] /\ Cardinality({v \in Workers : quit[v]}) < MaxAborts
  /\ quit' = [quit EXCEPT ![w] = TRUE]
  /\ IF phase[w] = "poll" THEN Become(w, "exit") ELSE UNCHANGED phase
  /\ lease' = [lease EXCEPT ![w].aborted = @ \/ phase[w] \in Handling]
  /\ UNCHANGED <<item, beat, clean, stray, faults>>

\* The process dies and another one is started in its place.
Crash(w) ==
  /\ phase[w] \notin {"poll", "exit"} /\ Fault
  /\ Done(w)
  /\ beat' = [beat EXCEPT ![w] = Silent]
  /\ lease' = [lease EXCEPT ![w] = [reason |-> "none", aborted |-> FALSE]]
  /\ clean' = [clean EXCEPT ![w] = FALSE]
  /\ UNCHANGED <<item, stray, quit>>

Due(w) ==
  \/ Beating(w) /\ lease[w].aborted
  \/ CutOffDue(w) \/ NextBeatDue(w)
  \/ phase[w] = "await" /\ ~Beating(w)

\* A request comes to take longer than MaxLatency.
Slow(w) ==
  \/ phase[w] \in {"ack", "stop"} \/ stray[w] # NoStray
  \/ beat[w].at \in {"sent", "answered"} /\ beat[w].age = MaxLatency

\* Bound: beyond it `since` makes no difference to any comparison.
LongAgo == Largest(DefaultTtl, ServerTtl) + 2 * DefaultInterval + 1

Older(b) ==
  IF b.at = "off" THEN b ELSE [b EXCEPT !.age = @ + 1, !.since = Least(@ + 1, LongAgo)]

Tick ==
  /\ \A w \in Workers : ~Due(w)
  /\ IF \E w \in Workers : Slow(w) THEN Fault ELSE UNCHANGED faults
  /\ item' = [item EXCEPT !.left = IF @ = 0 THEN 0 ELSE @ - 1]
  /\ beat' = [w \in Workers |-> Older(beat[w])]
  /\ UNCHANGED <<phase, lease, clean, stray, quit>>

-----------------------------------------------------------------------------
RunnerStops(w) == lease[w].aborted /\ RunnerEnds(w, FALSE)

Heartbeat(w) ==
  \/ BeatOk(w) \/ BeatStop(w) \/ BeatMoved(w) \/ BeatCutOff(w) \/ NextBeat(w)
  \/ HeartbeatUnwinds(w)

\* What handling an item does once its awaits settle.
Handle(w) ==
  \/ AckSucceeds(w) \/ AckAborted(w) \/ SetUp(w) \/ RunnerStops(w)
  \/ SkillsCleaned(w) \/ MemoriesCutOff(w) \/ ReleaseLease(w) \/ HeartbeatEnded(w) \/ StopReaches(w)

Faulty(w) == BeatRejected(w) \/ BeatFails(w) \/ BeatRetried(w) \/ AckFails(w) \/ StopFails(w)

Next ==
  \/ Lapse \/ AskToStop \/ Tick
  \/ \E w \in Workers :
       \/ PollClaims(w) \/ Handle(w) \/ Heartbeat(w) \/ Faulty(w)
       \/ BeatReaches(w) \/ StrayReaches(w)
       \/ SetUpFails(w) \/ MemoriesSaved(w)
       \/ \E throws \in BOOLEAN : RunnerEnds(w, throws)
       \/ ExternalAbort(w) \/ Crash(w)

Spec == Init /\ [][Next]_vars

(* Timers fire, time passes and requests that meet no fault are answered.   *)
(* Every await of a teardown settles, the memory stores' only because       *)
(* withTimeout cuts it off, and an aborted runner ends its iteration (see   *)
(* SessionToolRunner!AbortEndsIteration).  Nothing obliges a runner to end  *)
(* by itself or a memory sync to complete.                                  *)
Fairness ==
  /\ WF_vars(Tick) /\ WF_vars(Lapse)
  /\ \A w \in Workers :
       /\ WF_vars(Heartbeat(w)) /\ WF_vars(Handle(w))
       /\ WF_vars(BeatReaches(w)) /\ WF_vars(StrayReaches(w))

FairSpec == Spec /\ Fairness

-----------------------------------------------------------------------------
TypeOK ==
  /\ item \in [state : {"queued", "active", "stopping", "stopped"}, stamp : Stamps,
               left : 0..ServerTtl, holder : Workers \cup {Nobody}]
  /\ phase \in [Workers -> Phases]
  /\ beat \in [Workers ->
                [at : {"off", "sent", "answered", "sleep"}, age : Nat, since : Nat,
                 known : BOOLEAN, last : Stamps, reply : {"none", "ok", "stop", "moved"},
                 stamp : Stamps]]
  /\ \A w \in Workers : beat[w].at = "answered" <=> beat[w].reply # "none"
  /\ lease \in [Workers ->
                 [reason : {"none", "runner_done", "heartbeat_stop", "lease_lost",
                            "heartbeat_rejected", "assumed_lost"},
                  aborted : BOOLEAN]]
  /\ clean \in [Workers -> BOOLEAN]
  /\ stray \in [Workers -> 0..NoStray]
  /\ quit \in [Workers -> BOOLEAN]
  /\ faults \in Nat

Live(w) == Beating(w) /\ ~lease[w].aborted

(* However the beats fail, hang or are refused, a worker that goes on with  *)
(* its item has had a success within the ttl and two intervals: the failure *)
(* check comes at the end of a beat, and beats are cut off.                 *)
GivesUpInTime == \A w \in Workers : Live(w) => beat[w].since <= Ttl(w) + 2 * Interval(w)

(* Two workers cannot both have renewed the lease of the item within one    *)
(* ttl, less the time an answer may take: whatever requests and answers are *)
(* late, lost, repeated or abandoned, a fresh success means sole ownership. *)
FreshLeaseIsExclusive ==
  \A v, w \in Workers :
    /\ v # w /\ Live(v) /\ Live(w) /\ beat[v].known /\ beat[w].known
    => \E u \in {v, w} : beat[u].since + DefaultInterval >= ServerTtl

(* No fault so far, requests answered before the loop's own cut-off could   *)
(* abandon them, and a ttl that leaves room for a beat and two of them.     *)
Healthy ==
  faults = 0 /\ MaxLatency < DefaultInterval /\ 2 * MaxLatency + DefaultInterval < ServerTtl

(* Then a worker whose run was not aborted keeps its lease through slow     *)
(* downloads, the session and the whole teardown.                           *)
KeptWhileHealthy ==
  Healthy =>
    \A w \in Workers : phase[w] \in Handling /\ ~lease[w].aborted =>
      item.holder = w \/ item.state = "stopped"

(* A worker that found its lease lost never stops the item, even though its *)
(* teardown records a reason of its own later.                              *)
NoStopAfterLoss ==
  [][\A w \in Workers :
       Lost(w) /\ phase[w] \in Handling \cup {"await"} =>
         phase'[w] \in {"poll", "exit"} \/ (Lost(w)' /\ phase'[w] # "stop")]_vars

(* A worker that no longer holds the item notices and leaves the session.   *)
LostLeaseIsNoticed ==
  \A w \in Workers :
    (phase[w] = "serve" /\ item.holder # w) ~> (phase[w] # "serve" \/ item.holder = w)

(* A teardown ends, also when the memory stores never answer.               *)
TeardownEnds ==
  \A w \in Workers :
    phase[w] \in {"skills", "finish", "flush", "dispose", "await", "stop"}
      ~> phase[w] \in {"poll", "exit"}

(* "Stop only an item this worker still holds" (worker.ts:605).  False: an  *)
(* abort from outside ends the heartbeats before the teardown, the lease    *)
(* lapses during it and the stop hits whoever claimed the item since.       *)
StopOnlyHeld ==
  [][\A w \in Workers : StopReaches(w) /\ item.state # "stopped" => item.holder = w]_vars

=============================================================================
