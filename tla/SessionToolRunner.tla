-------------------------- MODULE SessionToolRunner --------------------------
(***************************************************************************)
(* The session tool runner of src/lib/tools/SessionToolRunner.ts: one      *)
(* background loop attaches to the event stream of a managed-agents        *)
(* session, reads the session's history, executes the tool calls it owns   *)
(* one at a time and posts their results, holding the calls that need the  *)
(* user's confirmation and stopping when the session stays idle; one async *)
(* iterator yields what became of each call and tears everything down.     *)
(*                                                                         *)
(* A step runs from one await of a network call, a tool, a timer or the    *)
(* consumer to the next: JavaScript runs everything in between without     *)
(* interruption.  The session's server, its user and its other clients are *)
(* external: they append events to the log the stream and the list read.   *)
(***************************************************************************)
EXTENDS Naturals, Sequences

CONSTANTS
  Calls,       \* ids of the session's tool calls
  NoCall,      \* "no call": the id of an event that names none
  Permission,  \* evaluated_permission of each call
  Owned,       \* the calls whose tool is registered with this runner
  MaxLog,      \* bound: length of the session's log
  MaxFaults,   \* bound: failed or lost network calls
  MaxMissing   \* bound: oldest events a history read may no longer list

Verdict == {"allow", "deny"}

ASSUME RunnerAssumption ==
  /\ NoCall \notin Calls
  /\ Permission \in [Calls -> {"allow", "ask", "deny"}]
  /\ Owned \subseteq Calls
  /\ MaxLog \in Nat /\ MaxFaults \in Nat /\ MaxMissing \in Nat

VARIABLES
  log,         \* the session's events, oldest first (server)
  faults,      \* network faults so far
  pc,          \* where #streamLoop waits
  cursor,      \* events of log the attached stream has delivered or skipped
  todo,        \* reconcile: unanswered calls it still has to route
  unanswered,  \* reconcile: all the calls the pass found unanswered
  lastEnded,   \* reconcile: the history's last event ends the turn
  historyRead, \* the last read of the history succeeded
  job,         \* the call #execute is busy with
  seen, answered, awaiting,  \* sets of call ids
  verdicts,    \* confirmation verdicts by call id
  clock,       \* the IdleClock
  aborted,     \* the controller has been aborted
  results,     \* queue of dispatched calls
  iter,        \* where the async iterator is
  ran,         \* history: calls whose tool was started, ever
  passRuns,    \* history: tool starts per call on the current connection
  unposted,    \* history: calls whose last post was given up
  quiet        \* history: last evidence read says the turn is over

serverVars == <<log>>
loopVars   == <<pc, cursor, todo, unanswered, lastEnded, historyRead, job>>
gateVars   == <<seen, answered, awaiting, verdicts>>
ghostVars  == <<ran, passRuns, unposted, quiet>>
vars == <<log, faults, loopVars, gateVars, clock, aborted, results, iter, ghostVars>>

-----------------------------------------------------------------------------
(* Session events.  "activity" stands for every event that neither names a  *)
(* call nor ends the turn, a requires_action idle included.                 *)

Event(k, c, v) == [kind |-> k, id |-> c, verdict |-> v]
Use(c)        == Event("use", c, "none")
Result(c)     == Event("result", c, "none")
Confirm(c, v) == Event("confirm", c, v)
Status(k)     == Event(k, NoCall, "none")

Events ==
  {Use(c) : c \in Calls} \cup {Result(c) : c \in Calls}
  \cup {Confirm(c, v) : c \in Calls, v \in Verdict}
  \cup {Status(k) : k \in {"ended", "activity", "terminated"}}

In(e, h) == \E i \in DOMAIN h : h[i] = e

-----------------------------------------------------------------------------
(* IdleClock: each operator returns the clock after one of its methods.     *)

\* Variant: arming forgets the gated work that is still outstanding.
ArmOverBlockers(k) == [k EXCEPT !.pending = FALSE, !.timer = TRUE]

Arm(k) ==
  IF k.blockers # {} THEN [k EXCEPT !.pending = TRUE]
                     ELSE [k EXCEPT !.pending = FALSE, !.timer = TRUE]

Disarm(k) == [k EXCEPT !.pending = FALSE, !.timer = FALSE]

Block(k, c) ==
  [blockers |-> k.blockers \cup {c},
   pending  |-> k.pending \/ k.timer,
   timer    |-> FALSE]

Unblock(k, c) ==
  LET rest == [k EXCEPT !.blockers = @ \ {c}]
  IN  IF rest.blockers = {} /\ rest.pending THEN Arm(rest) ELSE rest

NoteEvent(k, e) ==
  IF e.kind = "confirm" THEN k
  ELSE IF e.kind = "ended" THEN Arm(k) ELSE Disarm(k)

-----------------------------------------------------------------------------
Clocks == [blockers : SUBSET Calls, pending : BOOLEAN, timer : BOOLEAN]

Jobs == [id : Calls \cup {NoCall}, approved : BOOLEAN, back : {"route", "release", "stream"}]

NoJob == [id |-> NoCall, approved |-> FALSE, back |-> "stream"]

Init ==
  /\ log = <<>> /\ faults = 0
  /\ pc = "connect" /\ cursor = 0
  /\ todo = {} /\ unanswered = {} /\ lastEnded = FALSE /\ historyRead = FALSE
  /\ job = NoJob
  /\ seen = {} /\ answered = {} /\ awaiting = {}
  /\ verdicts = [c \in Calls |-> "none"]
  /\ clock = [blockers |-> {}, pending |-> FALSE, timer |-> FALSE]
  /\ aborted = FALSE
  /\ results = <<>> /\ iter = "phase1"
  /\ ran = {} /\ passRuns = [c \in Calls |-> 0] /\ unposted = {} /\ quiet = FALSE

-----------------------------------------------------------------------------
(* The session, its user and its other clients.                             *)

Append1(e) ==
  /\ Len(log) < MaxLog
  /\ ~In(Status("terminated"), log)
  /\ log' = Append(log, e)
  /\ UNCHANGED <<faults, loopVars, gateVars, clock, aborted, results, iter, ghostVars>>

AgentCallsTool(c) == ~In(Use(c), log) /\ Append1(Use(c))

Confirmed(c) == \E v \in Verdict : In(Confirm(c, v), log)

UserConfirms(c, v) ==
  /\ In(Use(c), log) /\ Permission[c] # "allow" /\ ~Confirmed(c)
  /\ Append1(Confirm(c, v))

OtherClientAnswers(c) ==
  /\ In(Use(c), log) /\ ~In(Result(c), log)
  /\ Permission[c] = "allow" \/ In(Confirm(c, "allow"), log)
  /\ Append1(Result(c))

SessionStatus(k) == Append1(Status(k))

Environment ==
  \/ \E c \in Calls : AgentCallsTool(c) \/ OtherClientAnswers(c)
  \/ \E c \in Calls, v \in Verdict : UserConfirms(c, v)
  \/ \E k \in {"ended", "activity", "terminated"} : SessionStatus(k)

-----------------------------------------------------------------------------
(* Dispatch of one call.  The operators below take the clock k as it is when *)
(* they are called and the point `back` the loop resumes at; together they   *)
(* assign dispatchVars.                                                      *)
dispatchVars == <<pc, job, answered, awaiting, clock, results, ran, passRuns>>

\* Variant: the id is queued instead of the dispatched call.
SurfacedIdOnly(c, posted) == Append(results, c)

Surfaced(c, posted) == Append(results, [id |-> c, posted |-> posted])

\* The call needs nothing more now: the loop carries on at `back`.
Resume(k, back) ==
  /\ clock' = k /\ pc' = back
  /\ UNCHANGED <<job, answered, awaiting, results, ran, passRuns>>

\* #execute up to the await of the tool's run().
Execute(c, approved, k, back) ==
  LET done(kk) == IF approved THEN Unblock(kk, c) ELSE kk
  IN
  /\ UNCHANGED answered
  /\ \/ /\ c \in answered
        /\ clock' = done(k) /\ pc' = back
        /\ UNCHANGED <<job, results, ran, passRuns>>
     \/ /\ c \notin answered /\ c \notin Owned
        /\ clock' = IF approved THEN done(Disarm(k)) ELSE k
        /\ results' = Surfaced(c, FALSE)
        /\ pc' = back
        /\ UNCHANGED <<job, ran, passRuns>>
     \/ /\ c \notin answered /\ c \in Owned
        /\ clock' = k
        /\ job' = [id |-> c, approved |-> approved, back |-> back]
        /\ pc' = "tool"
        /\ ran' = ran \cup {c}
        /\ passRuns' = [passRuns EXCEPT ![c] = @ + 1]
        /\ UNCHANGED results

\* Variant: a denial leaves the held call's blocker behind.
ApplyVerdictLeakingBlocker(c, v, k, back) ==
  \/ /\ v = "allow"
     /\ awaiting' = awaiting \ {c}
     /\ Execute(c, TRUE, IF c \in awaiting THEN k ELSE Block(k, c), back)
  \/ /\ v # "allow"
     /\ awaiting' = awaiting \ {c} /\ answered' = answered \cup {c}
     /\ clock' = k /\ results' = Surfaced(c, FALSE) /\ pc' = back
     /\ UNCHANGED <<job, ran, passRuns>>

ApplyVerdict(c, v, k, back) ==
  LET wasHeld == c \in awaiting
  IN
  \/ /\ v = "allow"
     /\ awaiting' = awaiting \ {c}
     /\ Execute(c, TRUE, IF wasHeld THEN k ELSE Block(k, c), back)
  \/ /\ v # "allow"
     /\ awaiting' = awaiting \ {c}
     /\ clock' = IF wasHeld THEN Unblock(k, c) ELSE k
     /\ answered' = answered \cup {c}
     /\ results' = Surfaced(c, FALSE)
     /\ pc' = back
     /\ UNCHANGED <<job, ran, passRuns>>

Hold(c, k, back) ==
  /\ awaiting' = awaiting \cup {c}
  /\ clock' = IF c \in awaiting THEN k ELSE Block(k, c)
  /\ pc' = back
  /\ UNCHANGED <<job, answered, results, ran, passRuns>>

\* Variant: an undecided call runs; only a recorded verdict is looked at.
RouteCallFailingOpen(c, k, back) ==
  \/ verdicts[c] = "none" /\ UNCHANGED awaiting /\ Execute(c, FALSE, k, back)
  \/ verdicts[c] # "none" /\ ApplyVerdict(c, verdicts[c], k, back)

\* Variant: the user's verdict overrides a denial by the server.
RouteCallUserOverrides(c, k, back) ==
  \/ /\ verdicts[c] = "none" /\ Permission[c] = "allow"
     /\ UNCHANGED awaiting /\ Execute(c, FALSE, k, back)
  \/ verdicts[c] = "none" /\ Permission[c] = "ask" /\ Hold(c, k, back)
  \/ verdicts[c] = "none" /\ Permission[c] = "deny" /\ ApplyVerdict(c, "deny", k, back)
  \/ verdicts[c] # "none" /\ ApplyVerdict(c, verdicts[c], k, back)

RouteCall(c, k, back) ==
  LET verdict == IF Permission[c] = "deny" THEN "deny" ELSE verdicts[c]
  IN
  \/ verdict = "none" /\ Permission[c] = "allow"
     /\ UNCHANGED awaiting /\ Execute(c, FALSE, k, back)
  \/ verdict = "none" /\ Permission[c] # "allow" /\ Hold(c, k, back)
  \/ verdict # "none" /\ ApplyVerdict(c, verdict, k, back)

-----------------------------------------------------------------------------
(* #streamLoop: attach, then reconcile the history, then the live events.    *)

Fault == faults < MaxFaults /\ faults' = faults + 1

Attach ==
  /\ pc = "connect" /\ ~aborted
  /\ cursor' = Len(log)
  /\ pc' = "list"
  /\ historyRead' = FALSE
  /\ passRuns' = [c \in Calls |-> 0]
  /\ UNCHANGED <<serverVars, faults, todo, unanswered, lastEnded, job, gateVars,
                 clock, aborted, results, iter, ran, unposted, quiet>>

\* A 4xx other than 408, 409 and 429 ends the runner; any other failure is retried.
AttachFails(fatal) ==
  /\ pc = "connect" /\ ~aborted /\ Fault
  /\ aborted' = fatal
  /\ pc' = IF fatal THEN "stopped" ELSE "backoff"
  /\ UNCHANGED <<serverVars, cursor, todo, unanswered, lastEnded, historyRead, job,
                 gateVars, clock, results, iter, ghostVars>>

(* What #ingestHistory makes of the listed events h.                         *)
UsesIn(h)     == {c \in Calls : In(Use(c), h)}
AnsweredIn(h) == {c \in Calls : In(Result(c), h)}

RecordedIn(h, c) ==
  {v \in Verdict : /\ c \notin answered
                   /\ \E i \in DOMAIN h : /\ h[i] = Confirm(c, v)
                                          /\ \A j \in 1..(i - 1) : h[j] # Result(c)}

\* Variant: verdicts are taken from the live stream only.
VerdictsFromStreamOnly(h) == verdicts

VerdictsAfter(h) ==
  [c \in Calls |-> IF RecordedIn(h, c) = {} THEN verdicts[c]
                                            ELSE CHOOSE v \in RecordedIn(h, c) : TRUE]

\* Variant: the newest listed event is left out.
PendingInAllButLast(h) ==
  {c \in Calls \ answered : In(Use(c), SubSeq(h, 1, Len(h) - 1)) /\ ~In(Result(c), h)}

\* A use already known to be answered when it is read is not pending.
PendingIn(h) ==
  {c \in Calls \ answered :
     \E i \in DOMAIN h : h[i] = Use(c) /\ \A j \in 1..(i - 1) : h[j] # Result(c)}

EndsTurn(h) ==
  \E i \in DOMAIN h : /\ h[i].kind = "ended"
                      /\ \A j \in (i + 1)..Len(h) : h[j].kind = "confirm"

\* The list's pages are read to the end; a long session's oldest events may be gone.
ListSucceeds ==
  /\ pc = "list" /\ ~aborted
  /\ \E from \in 0..MaxMissing :
       LET h == SubSeq(log, from + 1, Len(log))
       IN
       /\ from <= Len(log)
       /\ seen' = seen \cup UsesIn(h)
       /\ answered' = answered \cup AnsweredIn(h)
       /\ verdicts' = VerdictsAfter(h)
       /\ todo' = PendingIn(h) \ (answered \cup AnsweredIn(h))
       /\ unanswered' = PendingIn(h) \ (answered \cup AnsweredIn(h))
       /\ lastEnded' = EndsTurn(h)
       /\ quiet' = EndsTurn(h)
  /\ historyRead' = TRUE
  /\ clock' = Disarm(clock)
  /\ pc' = "route"
  /\ UNCHANGED <<serverVars, faults, cursor, job, awaiting, aborted, results, iter,
                 ran, passRuns, unposted>>

\* The list fails after some of the events: what they said is kept, but the
\* calls found pending are forgotten again and the idle clock is left alone.
ListFails ==
  /\ pc = "list" /\ ~aborted /\ Fault
  /\ \E n \in 0..Len(log) :
       LET h == SubSeq(log, 1, n)
       IN
       /\ seen' = (seen \cup UsesIn(h)) \ PendingIn(h)
       /\ answered' = answered \cup AnsweredIn(h)
       /\ verdicts' = VerdictsAfter(h)
  /\ pc' = "stream"
  /\ UNCHANGED <<serverVars, cursor, todo, unanswered, lastEnded, historyRead, job, awaiting,
                 clock, aborted, results, iter, ghostVars>>

\* One iteration of the routing pass, in the history's order.
RouteNext ==
  /\ pc = "route"
  /\ \E c \in todo :
       /\ \A d \in todo \ {c} : \E i, j \in DOMAIN log :
            i < j /\ log[i] = Use(c) /\ log[j] = Use(d)
       /\ todo' = todo \ {c}
       /\ RouteCall(c, clock, "route")
  /\ UNCHANGED <<serverVars, faults, cursor, unanswered, lastEnded, historyRead, seen, verdicts,
                 aborted, iter, unposted, quiet>>

RoutePassDone ==
  /\ pc = "route" /\ todo = {}
  /\ pc' = "release"
  /\ UNCHANGED <<serverVars, faults, cursor, todo, unanswered, lastEnded, historyRead, job,
                 gateVars, clock, aborted, results, iter, ghostVars>>

\* A call held since an earlier pass whose verdict only this history shows.
ReleaseHeld ==
  /\ pc = "release"
  /\ \E c \in awaiting : verdicts[c] # "none" /\ ApplyVerdict(c, verdicts[c], clock, "release")
  /\ UNCHANGED <<serverVars, faults, cursor, todo, unanswered, lastEnded, historyRead, seen,
                 verdicts, aborted, iter, unposted, quiet>>

Outstanding == (unanswered \ answered) \ awaiting

\* Variant: the verdicts this history shows are not applied to held calls.
SettleWithoutRelease ==
  /\ pc = "release" /\ pc' = "stream"
  /\ clock' = IF lastEnded /\ Outstanding = {} THEN Arm(clock) ELSE Disarm(clock)
  /\ unanswered' = {} /\ lastEnded' = FALSE
  /\ UNCHANGED <<serverVars, faults, cursor, todo, historyRead, job, gateVars, aborted,
                 results, iter, ghostVars>>

\* Variant: the countdown is left to the live stream.
SettleNeverArming ==
  /\ pc = "release" /\ \A c \in awaiting : verdicts[c] = "none"
  /\ pc' = "stream" /\ clock' = Disarm(clock)
  /\ unanswered' = {} /\ lastEnded' = FALSE
  /\ UNCHANGED <<serverVars, faults, cursor, todo, historyRead, job, gateVars, aborted,
                 results, iter, ghostVars>>

\* The end of #reconcile: judge from the whole history whether to count down.
Settle ==
  /\ pc = "release"
  /\ \A c \in awaiting : verdicts[c] = "none"
  /\ clock' = IF lastEnded /\ Outstanding = {} THEN Arm(clock) ELSE Disarm(clock)
  /\ unanswered' = {} /\ lastEnded' = FALSE
  /\ pc' = "stream"
  /\ UNCHANGED <<serverVars, faults, cursor, todo, historyRead, job, gateVars, aborted,
                 results, iter, ghostVars>>

\* Variant: the live stream does not look at what the history showed.
HandleUseAgain(c, k) ==
  RouteCall(c, k, "stream") /\ seen' = seen \cup {c} /\ UNCHANGED verdicts

HandleUse(c, k) ==
  /\ \/ c \notin seen /\ RouteCall(c, k, "stream")
     \/ c \in seen /\ Resume(k, "stream")
  /\ seen' = seen \cup {c}
  /\ UNCHANGED verdicts

NoteConfirmation(c, v, k) ==
  /\ verdicts' = [verdicts EXCEPT ![c] = v]
  /\ \/ c \in awaiting /\ ApplyVerdict(c, v, k, "stream")
     \/ c \notin awaiting /\ Resume(k, "stream")
  /\ UNCHANGED seen

HandleResult(c, k) ==
  /\ answered' = answered \cup {c}
  /\ clock' = k /\ pc' = "stream"
  /\ UNCHANGED <<job, awaiting, results, ran, passRuns, seen, verdicts>>

\* #handleStreamEvent.  An event already buffered may still come after an abort.
HandleEvent ==
  /\ pc = "stream" /\ cursor < Len(log)
  /\ LET e == log[cursor + 1]
         k == NoteEvent(clock, e)
     IN
     /\ quiet' = IF e.kind = "confirm" THEN quiet ELSE e.kind = "ended"
     /\ aborted' = (aborted \/ e.kind = "terminated")
     /\ \/ e.kind = "use" /\ HandleUse(e.id, k)
        \/ e.kind = "confirm" /\ NoteConfirmation(e.id, e.verdict, k)
        \/ e.kind = "result" /\ HandleResult(e.id, k)
        \/ /\ e.kind \in {"ended", "activity"}
           /\ Resume(k, "stream") /\ UNCHANGED <<seen, verdicts>>
        \/ /\ e.kind = "terminated"
           /\ Resume(k, "stopped") /\ UNCHANGED <<seen, verdicts>>
  /\ cursor' = cursor + 1
  /\ UNCHANGED <<serverVars, faults, todo, unanswered, lastEnded, historyRead, iter, unposted>>

\* The stream breaks or ends between two events; what it had buffered is lost.
Disconnect ==
  /\ pc = "stream" /\ ~aborted /\ Fault
  /\ pc' = "backoff"
  /\ UNCHANGED <<serverVars, cursor, todo, unanswered, lastEnded, historyRead, job, gateVars,
                 clock, aborted, results, iter, ghostVars>>

Reconnect ==
  /\ pc = "backoff" /\ ~aborted
  /\ pc' = "connect"
  /\ UNCHANGED <<serverVars, faults, cursor, todo, unanswered, lastEnded, historyRead, job,
                 gateVars, clock, aborted, results, iter, ghostVars>>

\* Variant: the pause before reconnecting ignores the abort signal.
AbortUnwindsAwake ==
  /\ aborted /\ pc \in {"connect", "list", "stream", "send"}
  /\ pc' = "stopped" /\ job' = NoJob
  /\ clock' = IF pc = "send" /\ job.approved THEN Unblock(clock, job.id) ELSE clock
  /\ UNCHANGED <<serverVars, faults, cursor, todo, unanswered, lastEnded, historyRead,
                 gateVars, aborted, results, iter, ghostVars>>

\* Every await of the loop but the tool's own throws once the controller aborts.
AbortUnwinds ==
  /\ aborted /\ pc \in {"connect", "list", "stream", "backoff", "send"}
  /\ pc' = "stopped"
  /\ clock' = IF pc = "send" /\ job.approved THEN Unblock(clock, job.id) ELSE clock
  /\ job' = NoJob
  /\ UNCHANGED <<serverVars, faults, cursor, todo, unanswered, lastEnded, historyRead,
                 gateVars, aborted, results, iter, ghostVars>>

-----------------------------------------------------------------------------
(* The rest of #execute and #sendResult.                                     *)

\* run() returned or threw, on its own, at its timeout or because of an abort.
ToolReturns ==
  /\ pc = "tool"
  /\ pc' = "send"
  /\ UNCHANGED <<serverVars, faults, cursor, todo, unanswered, lastEnded, historyRead, job,
                 gateVars, clock, aborted, results, iter, ghostVars>>

Terminated == In(Status("terminated"), log)

\* The server takes a result; a second one for the same call changes nothing.
Post ==
  /\ ~Terminated
  /\ log' = IF In(Result(job.id), log) THEN log ELSE Append(log, Result(job.id))

\* #execute ends after #sendResult returned `posted`.
JobDone(posted) ==
  /\ results' = Surfaced(job.id, posted)
  /\ clock' = IF job.approved THEN Unblock(clock, job.id) ELSE clock
  /\ pc' = job.back
  /\ job' = NoJob

SendSucceeds ==
  /\ pc = "send" /\ ~aborted
  /\ Post
  /\ answered' = answered \cup {job.id}
  /\ unposted' = unposted \ {job.id}
  /\ JobDone(TRUE)
  /\ UNCHANGED <<faults, cursor, todo, unanswered, lastEnded, historyRead, seen, awaiting,
                 verdicts, aborted, iter, ran, passRuns, quiet>>

\* The attempt fails, or its answer is lost after the server took the result;
\* #sendResult tries again.
SendFails(reached) ==
  /\ pc = "send" /\ ~aborted /\ Fault
  /\ IF reached THEN Post ELSE UNCHANGED log
  /\ UNCHANGED <<loopVars, gateVars, clock, aborted, results, iter, ghostVars>>

\* A fatal 4xx (the session may be gone), or the retry window has run out.
SendGivesUp ==
  /\ pc = "send" /\ ~aborted
  /\ Fault \/ (Terminated /\ UNCHANGED faults)
  /\ unposted' = unposted \cup {job.id}
  /\ JobDone(FALSE)
  /\ UNCHANGED <<serverVars, cursor, todo, unanswered, lastEnded, historyRead, gateVars, aborted,
                 iter, ran, passRuns, quiet>>

-----------------------------------------------------------------------------
(* The idle countdown, the abort signal and the async iterator.              *)

IdleExpires ==
  /\ clock.timer
  /\ clock' = [clock EXCEPT !.timer = FALSE]
  /\ aborted' = TRUE
  /\ UNCHANGED <<serverVars, faults, loopVars, gateVars, results, iter, ghostVars>>

ExternalAbort ==
  /\ ~aborted /\ aborted' = TRUE
  /\ UNCHANGED <<serverVars, faults, loopVars, gateVars, clock, results, iter, ghostVars>>

\* Phase 1 yields while there are results, even after an abort; phase 2 drains
\* what the settled loop left.
Yield ==
  /\ iter = "phase1" \/ (iter = "phase2" /\ pc = "stopped")
  /\ results # <<>>
  /\ results' = Tail(results)
  /\ UNCHANGED <<serverVars, faults, loopVars, gateVars, clock, aborted, iter, ghostVars>>

Phase1Ends ==
  /\ iter = "phase1" /\ results = <<>> /\ aborted
  /\ iter' = "phase2"
  /\ UNCHANGED <<serverVars, faults, loopVars, gateVars, clock, aborted, results, ghostVars>>

\* `finally`, entered by a break or by the end of phase 2.
Finally ==
  /\ aborted' = TRUE
  /\ clock' = Disarm(clock)
  /\ UNCHANGED <<serverVars, faults, loopVars, gateVars, results, ghostVars>>

ConsumerBreaks ==
  /\ iter \in {"phase1", "phase2"} /\ iter' = "broken" /\ Finally

\* Variant: phase 2 does not wait for the loop to settle.
Phase2EndsEarly ==
  /\ iter = "phase2" /\ results = <<>>
  /\ iter' = "done" /\ Finally

Phase2Ends ==
  /\ iter = "phase2" /\ pc = "stopped" /\ results = <<>>
  /\ iter' = "done" /\ Finally

\* The rest of `finally` after a break: the loop settles, then the tools close.
CloseAfterBreak ==
  /\ iter = "broken" /\ pc = "stopped"
  /\ iter' = "closed"
  /\ UNCHANGED <<serverVars, faults, loopVars, gateVars, clock, aborted, results, ghostVars>>

-----------------------------------------------------------------------------
LoopStep ==
  \/ Attach \/ ListSucceeds \/ RouteNext \/ RoutePassDone \/ ReleaseHeld \/ Settle
  \/ HandleEvent \/ Reconnect \/ AbortUnwinds \/ ToolReturns
  \/ SendSucceeds \/ SendGivesUp

LoopFault ==
  \/ \E fatal \in BOOLEAN : AttachFails(fatal)
  \/ ListFails \/ Disconnect
  \/ \E reached \in BOOLEAN : SendFails(reached)

IteratorStep == Yield \/ Phase1Ends \/ Phase2Ends \/ CloseAfterBreak

Next ==
  \/ Environment
  \/ LoopStep \/ LoopFault
  \/ IdleExpires \/ ExternalAbort
  \/ IteratorStep \/ ConsumerBreaks

Spec == Init /\ [][Next]_vars

(* The event loop runs every callback that is due: a settled await, an      *)
(* expired timer, the consumer that keeps iterating.  Faults are bounded by *)
(* MaxFaults; nothing obliges the session, the user or another client.      *)
Fairness ==
  /\ WF_vars(LoopStep) /\ WF_vars(IdleExpires) /\ WF_vars(IteratorStep)

FairSpec == Spec /\ Fairness

-----------------------------------------------------------------------------
TypeOK ==
  /\ log \in Seq(Events)
  /\ faults \in Nat
  /\ pc \in {"connect", "list", "route", "release", "stream", "tool", "send", "backoff",
             "stopped"}
  /\ cursor \in Nat
  /\ todo \subseteq Calls /\ unanswered \subseteq Calls
  /\ lastEnded \in BOOLEAN /\ historyRead \in BOOLEAN
  /\ job \in Jobs
  /\ seen \subseteq Calls /\ answered \subseteq Calls /\ awaiting \subseteq Calls
  /\ verdicts \in [Calls -> Verdict \cup {"none"}]
  /\ clock \in Clocks
  /\ aborted \in BOOLEAN
  /\ results \in Seq([id : Calls, posted : BOOLEAN])
  /\ iter \in {"phase1", "phase2", "done", "broken", "closed"}
  /\ ran \subseteq Calls /\ passRuns \in [Calls -> Nat]
  /\ unposted \subseteq Calls /\ quiet \in BOOLEAN

InFlight == IF pc \in {"tool", "send"} THEN {job.id} ELSE {}

(* A call the server gated is executed only after the user allowed it: no   *)
(* order of the call, its verdict, a reconnect and a repeated history may   *)
(* run a call that was denied or is still undecided.                        *)
GatedCallsNeedApproval ==
  \A c \in ran : \/ Permission[c] = "allow"
                 \/ Permission[c] = "ask" /\ In(Confirm(c, "allow"), log)

(* The idle clock's blockers are exactly the calls held for a verdict and   *)
(* the approved call being dispatched: a leaked blocker would keep the      *)
(* runner alive for ever, a missing one would let it stop over the call.    *)
BlockersAreGatedWork ==
  clock.blockers = awaiting \cup (IF job.approved THEN InFlight ELSE {})

(* The countdown runs only while nothing is held or in flight and the last  *)
(* thing the runner read, from the stream or a whole history, says that the *)
(* turn is over.                                                            *)
CountdownOnlyWhenQuiet ==
  clock.timer => awaiting = {} /\ InFlight = {} /\ quiet

(* Seen through one connection, a call is executed at most once, though the *)
(* history and the live stream may both show it and its verdict, and its    *)
(* post may fail: only the next reconcile pass may execute it again.        *)
OneRunPerConnection == \A c \in Calls : passRuns[c] <= 1

(* Once a history has been read and settled no call stays held whose        *)
(* verdict the runner knows.                                                *)
NoVerdictOverlooked ==
  pc = "stream" /\ historyRead => \A c \in awaiting : verdicts[c] = "none"

(* When the iterator ends by itself every dispatched call has been yielded  *)
(* and no countdown is left; however it ends, the loop has settled and no   *)
(* tool is running when the tools are closed.                               *)
CleanTeardown ==
  /\ iter = "done" => results = <<>> /\ ~clock.timer
  /\ iter \in {"done", "closed"} => pc = "stopped"

-----------------------------------------------------------------------------
(* The runner implements the abstract dispatcher: every step of the loop,   *)
(* reconciling and reconnecting included, starts, finishes or settles calls *)
(* as GatedDispatch allows, or leaves its state alone.                      *)
Dispatch == INSTANCE GatedDispatch WITH
  None      <- NoCall,
  Gated     <- {c \in Calls : Permission[c] = "ask"},
  Refused   <- {c \in Calls : Permission[c] = "deny"},
  requested <- UsesIn(log),
  approved  <- {c \in Calls : In(Confirm(c, "allow"), log)},
  running   <- IF pc \in {"tool", "send"} THEN job.id ELSE NoCall,
  settled   <- answered

RefinesDispatch == Dispatch!Spec

-----------------------------------------------------------------------------
(* Liveness.  historyRead = FALSE is the one excuse: after a failed read of *)
(* the history the runner waits for the live stream or the next reconnect.  *)

Stopped == aborted \/ pc = "stopped"

(* A held call whose verdict the session has logged is released, executed   *)
(* or resolved as denied, wherever the stream broke in the meantime.        *)
VerdictsAreApplied ==
  \A c \in Calls :
    (c \in awaiting /\ Confirmed(c)) ~> (c \notin awaiting \/ Stopped \/ ~historyRead)

(* An ungated call this runner owns is answered, unless posting its result  *)
(* was given up.                                                            *)
CallsAreAnswered ==
  \A c \in Calls :
    (c \in Owned /\ Permission[c] = "allow" /\ In(Use(c), log))
      ~> (In(Result(c), log) \/ c \in unposted \/ Stopped \/ ~historyRead)

(* The session is over as far as its log tells: the turn has ended and each *)
(* call was answered or denied.                                             *)
SessionOver ==
  /\ EndsTurn(log)
  /\ \A c \in UsesIn(log) : \/ In(Result(c), log) \/ In(Confirm(c, "deny"), log)
                            \/ Permission[c] = "deny"

(* A session that stays over is let go: the countdown starts and stops the  *)
(* runner, also when the idle arrived while the stream was down.            *)
IdleSessionIsReleased == SessionOver ~> (~SessionOver \/ Stopped \/ ~historyRead)

(* An abort, whoever raised it, ends the iteration.                         *)
AbortEndsIteration == aborted ~> (iter \in {"done", "closed"})

(* "Iteration ends when the session terminates" (class comment).  False     *)
(* when the termination is logged while the stream is down: #ingestHistory  *)
(* skips session.status_terminated and the new stream does not repeat it.   *)
TerminationEndsIteration == Terminated ~> Stopped

=============================================================================
