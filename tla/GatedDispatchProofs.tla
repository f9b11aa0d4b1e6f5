------------------------ MODULE GatedDispatchProofs ------------------------
(***************************************************************************)
(* SessionToolRunner implements GatedDispatch, and the properties of its   *)
(* runs that rest on the same facts: what the runner knows of a call comes *)
(* after the call itself in the session's log, and a connection shows a    *)
(* call to the dispatcher once.                                            *)
(***************************************************************************)
EXTENDS SessionToolRunnerProofs

USE RunnerAssumption

-----------------------------------------------------------------------------
(* What dispatching one call does: start its tool, be done with it, or hold *)
(* it for a verdict.                                                        *)

Starts(c, back) ==
  /\ c \notin answered /\ c \notin awaiting'
  /\ pc' = "tool" /\ job'.id = c /\ job'.back = back
  /\ ran' = ran \cup {c} /\ passRuns' = [passRuns EXCEPT ![c] = @ + 1]
  /\ UNCHANGED answered /\ awaiting' \subseteq awaiting

Ends(c, back) ==
  /\ pc' = back /\ UNCHANGED <<job, ran, passRuns>>
  /\ answered' \in {answered, answered \cup {c}} /\ awaiting' \subseteq awaiting

Holds(c, back) ==
  /\ pc' = back /\ UNCHANGED <<job, ran, passRuns, answered>>
  /\ awaiting' = awaiting \cup {c} /\ verdicts[c] = "none"

LEMMA ExecuteEffect ==
  ASSUME NEW c, NEW ok, NEW k, NEW back, Execute(c, ok, k, back),
         c \notin awaiting', awaiting' \subseteq awaiting
  PROVE  Starts(c, back) \/ Ends(c, back)
<1>1. CASE c \in answered
  BY <1>1 DEF Execute, Ends
<1>2. CASE c \notin answered /\ c \notin Owned
  BY <1>2 DEF Execute, Ends
<1>3. CASE c \notin answered /\ c \in Owned
  <2>1. job' = [id |-> c, approved |-> ok, back |-> back]
    BY <1>3 DEF Execute
  <2>2. job'.id = c /\ job'.back = back
    BY <2>1
  <2> QED
    BY <1>3, <2>2 DEF Execute, Starts
<1> QED
  BY <1>1, <1>2, <1>3

LEMMA ApplyVerdictEffect ==
  ASSUME NEW c, NEW v, NEW k, NEW back, ApplyVerdict(c, v, k, back)
  PROVE  (Starts(c, back) \/ Ends(c, back)) /\ awaiting' = awaiting \ {c}
<1>1. awaiting' = awaiting \ {c}
  BY DEF ApplyVerdict
<1>2. CASE v = "allow"
  <2>1. Execute(c, TRUE, IF c \in awaiting THEN k ELSE Block(k, c), back)
    BY <1>2 DEF ApplyVerdict
  <2> QED
    BY <1>1, <2>1, ExecuteEffect
<1>3. CASE v # "allow"
  BY <1>1, <1>3 DEF ApplyVerdict, Ends
<1> QED
  BY <1>1, <1>2, <1>3

LEMMA RouteCallEffect ==
  ASSUME HeldAreAsk, NEW c \in Calls, NEW k, NEW back, RouteCall(c, k, back)
  PROVE  Starts(c, back) \/ Ends(c, back) \/ Holds(c, back)
<1> DEFINE verdict == IF Permission[c] = "deny" THEN "deny" ELSE verdicts[c]
<1>1. CASE verdict = "none" /\ Permission[c] = "allow"
  <2>1. UNCHANGED awaiting /\ Execute(c, FALSE, k, back)
    BY <1>1, Zenon DEF RouteCall
  <2>2. c \notin awaiting' /\ awaiting' \subseteq awaiting
    BY <1>1, <2>1 DEF HeldAreAsk
  <2> QED
    BY <2>1, <2>2, ExecuteEffect
<1>2. CASE verdict = "none" /\ Permission[c] # "allow"
  <2>1. Hold(c, k, back) /\ verdicts[c] = "none"
    BY <1>2 DEF RouteCall
  <2> QED
    BY <2>1 DEF Hold, Holds
<1>3. CASE verdict # "none"
  <2>1. ApplyVerdict(c, verdict, k, back)
    BY <1>3 DEF RouteCall
  <2> QED
    BY <2>1, ApplyVerdictEffect
<1> QED
  BY <1>1, <1>2, <1>3

(* The three steps of the loop that dispatch.                               *)

LEMMA RouteNextEffect ==
  ASSUME IInv, RouteNext
  PROVE  /\ pc = "route" /\ UNCHANGED <<log, cursor, historyRead, seen, verdicts>>
         /\ \E c \in todo : /\ todo' = todo \ {c}
                            /\ Starts(c, "route") \/ Ends(c, "route") \/ Holds(c, "route")
<1>1. PICK c \in todo : todo' = todo \ {c} /\ RouteCall(c, clock, "route")
  BY DEF RouteNext
<1>2. c \in Calls /\ HeldAreAsk
  BY DEF IInv, OtherTypes
<1>3. Starts(c, "route") \/ Ends(c, "route") \/ Holds(c, "route")
  BY <1>1, <1>2, RouteCallEffect
<1> QED
  BY <1>1, <1>3 DEF RouteNext, serverVars

LEMMA ReleaseHeldEffect ==
  ASSUME IInv, ReleaseHeld
  PROVE  /\ pc = "release" /\ UNCHANGED <<log, cursor, historyRead, seen, verdicts, todo>>
         /\ \E c \in awaiting : /\ awaiting' = awaiting \ {c}
                                /\ Starts(c, "release") \/ Ends(c, "release")
<1>1. PICK c \in awaiting : ApplyVerdict(c, verdicts[c], clock, "release")
  BY DEF ReleaseHeld
<1>2. (Starts(c, "release") \/ Ends(c, "release")) /\ awaiting' = awaiting \ {c}
  BY <1>1, ApplyVerdictEffect
<1> QED
  BY <1>2 DEF ReleaseHeld, serverVars

(* An event that dispatches nothing may still say that a call is answered.  *)
Notes ==
  /\ pc' \in {"stream", "stopped"} /\ UNCHANGED <<job, ran, passRuns, awaiting, seen>>
  /\ \A c \in awaiting : verdicts'[c] = verdicts[c]
  /\ answered' = answered \/ \E c \in Calls : In(Result(c), log) /\ answered' = answered \cup {c}

LEMMA EventForms ==
  ASSUME NEW e \in Events
  PROVE  /\ e.kind = "use" => e.id \in Calls /\ e = Use(e.id)
         /\ e.kind = "result" => e.id \in Calls /\ e = Result(e.id)
<1>1. ASSUME NEW c \in Calls, e = Use(c) PROVE e.kind = "use" /\ e.id = c
  BY <1>1 DEF Use, Event
<1>2. ASSUME NEW c \in Calls, e = Result(c) PROVE e.kind = "result" /\ e.id = c
  BY <1>2 DEF Result, Event
<1>3. ASSUME NEW c \in Calls, NEW v \in Verdict, e = Confirm(c, v) PROVE e.kind = "confirm"
  BY <1>3 DEF Confirm, Event
<1>4. ASSUME NEW k \in {"ended", "activity", "terminated"}, e = Status(k)
      PROVE  e.kind \notin {"use", "result"}
  BY <1>4 DEF Status, Event
<1> QED
  BY <1>1, <1>2, <1>3, <1>4 DEF Events

LEMMA HandleEventEffect ==
  ASSUME IInv, HandleEvent
  PROVE  /\ pc = "stream" /\ cursor' = cursor + 1 /\ cursor + 1 \in DOMAIN log
         /\ UNCHANGED <<log, todo, historyRead>>
         /\ \/ Notes
            \/ \E c \in Calls \ seen :
                 /\ log[cursor + 1] = Use(c) /\ seen' = seen \cup {c} /\ UNCHANGED verdicts
                 /\ Starts(c, "stream") \/ Ends(c, "stream") \/ Holds(c, "stream")
            \/ \E c \in awaiting :
                 /\ UNCHANGED seen /\ awaiting' = awaiting \ {c}
                 /\ \A d \in awaiting' : verdicts'[d] = verdicts[d]
                 /\ Starts(c, "stream") \/ Ends(c, "stream")
<1> DEFINE e == log[cursor + 1]
           k == NoteEvent(clock, e)
<1>1. e \in Events /\ In(e, log) /\ cursor + 1 \in DOMAIN log
  BY DEF HandleEvent, IInv, OtherTypes, In
<1>2. /\ pc = "stream" /\ cursor' = cursor + 1 /\ UNCHANGED <<log, todo, historyRead>>
  BY DEF HandleEvent, serverVars
<1>3. /\ awaiting \subseteq Calls /\ HeldAreAsk /\ verdicts \in [Calls -> Verdict \cup {"none"}]
  BY DEF IInv, DispatchTypes, OtherTypes
<1>4. /\ e.kind \in {"use", "result", "confirm"} => e.id \in Calls
      /\ e.kind = "use" => e = Use(e.id)
      /\ e.kind = "result" => e = Result(e.id)
  BY <1>1, EventForms, EventShapes
<1> HIDE DEF k
<1>5. CASE e.kind = "use" /\ HandleUse(e.id, k)
  <2>1. /\ e.id \in Calls /\ log[cursor + 1] = Use(e.id) /\ seen' = seen \cup {e.id}
        /\ UNCHANGED verdicts
    BY <1>4, <1>5 DEF HandleUse
  <2>2. CASE e.id \notin seen /\ RouteCall(e.id, k, "stream")
    <3>1. Starts(e.id, "stream") \/ Ends(e.id, "stream") \/ Holds(e.id, "stream")
      BY <1>3, <2>1, <2>2, RouteCallEffect
    <3> QED
      BY <1>1, <1>2, <2>1, <2>2, <3>1
  <2>3. CASE e.id \in seen /\ Resume(k, "stream")
    BY <1>1, <1>2, <2>1, <2>3 DEF Resume, Notes
  <2> QED
    BY <1>5, <2>2, <2>3 DEF HandleUse
<1>6. CASE e.kind = "confirm" /\ NoteConfirmation(e.id, e.verdict, k)
  <2>1. /\ e.id \in Calls /\ UNCHANGED seen /\ verdicts' = [verdicts EXCEPT ![e.id] = e.verdict]
    BY <1>4, <1>6 DEF NoteConfirmation
  <2>2. \A d \in Calls \ {e.id} : verdicts'[d] = verdicts[d]
    BY <1>3, <2>1
  <2>3. CASE e.id \in awaiting /\ ApplyVerdict(e.id, e.verdict, k, "stream")
    <3>1. /\ Starts(e.id, "stream") \/ Ends(e.id, "stream")
          /\ awaiting' = awaiting \ {e.id}
      BY <2>3, ApplyVerdictEffect
    <3>2. \A d \in awaiting' : verdicts'[d] = verdicts[d]
      BY <1>3, <2>2, <3>1
    <3> QED
      BY <1>1, <1>2, <2>1, <2>3, <3>1, <3>2
  <2>4. CASE e.id \notin awaiting /\ Resume(k, "stream")
    BY <1>1, <1>2, <1>3, <2>1, <2>2, <2>4 DEF Resume, Notes
  <2> QED
    BY <1>6, <2>3, <2>4 DEF NoteConfirmation
<1>7. CASE e.kind = "result" /\ HandleResult(e.id, k)
  <2>1. e.id \in Calls /\ In(Result(e.id), log)
    BY <1>1, <1>4, <1>7
  <2>2. Notes
    BY <1>7, <2>1 DEF HandleResult, Notes
  <2> QED
    BY <1>1, <1>2, <2>2
<1>8. CASE /\ Resume(k, "stream") \/ Resume(k, "stopped")
           /\ UNCHANGED <<seen, verdicts>>
  BY <1>1, <1>2, <1>8 DEF Resume, Notes
<1> QED
  BY <1>5, <1>6, <1>7, <1>8 DEF HandleEvent, k

-----------------------------------------------------------------------------
(* Nothing is known of a call before the session has logged it.             *)

LoggedAfterUse ==
  \A c \in Calls :
    (In(Result(c), log) \/ \E v \in Verdict : In(Confirm(c, v), log)) => In(Use(c), log)

KnownAfterUse ==
  seen \cup answered \cup awaiting \cup todo \cup ran \cup InFlight \subseteq UsesIn(log)

UseInv == LoggedAfterUse /\ KnownAfterUse

LEMMA EventFields ==
  \A c, v : /\ Use(c).kind = "use" /\ Use(c).id = c
            /\ Result(c).kind = "result" /\ Result(c).id = c
            /\ Confirm(c, v).kind = "confirm" /\ Confirm(c, v).id = c
            /\ Confirm(c, v).verdict = v
            /\ Status(v).kind = v
  BY DEF Use, Result, Confirm, Status, Event

LEMMA AppendIn ==
  ASSUME log \in Seq(Events), NEW x \in Events, log' = Append(log, x)
  PROVE  /\ Len(log') = Len(log) + 1 /\ log'[Len(log) + 1] = x
         /\ \A i \in DOMAIN log : i \in DOMAIN log' /\ log'[i] = log[i]
         /\ \A i \in DOMAIN log' : i \in DOMAIN log \/ i = Len(log) + 1
         /\ \A e : In(e, log') <=> In(e, log) \/ e = x
<1>1. /\ Len(log') = Len(log) + 1 /\ log'[Len(log) + 1] = x
      /\ \A i \in 1..Len(log) : log'[i] = log[i]
      /\ DOMAIN log = 1..Len(log) /\ DOMAIN log' = 1..(Len(log) + 1) /\ Len(log) \in Nat
  OBVIOUS
<1> QED
  BY <1>1 DEF In

(* An event that may be logged: a call's result or verdict after the call.  *)
Loggable(x) ==
  \/ \E c \in Calls : x = Use(c) /\ ~In(Use(c), log)
  \/ \E c \in Calls : x = Result(c) /\ In(Use(c), log)
  \/ \E c \in Calls, v \in Verdict : x = Confirm(c, v) /\ In(Use(c), log)
  \/ \E k \in {"ended", "activity", "terminated"} : x = Status(k)

LEMMA LogSteps ==
  ASSUME IInv, UseInv, [Next]_vars
  PROVE  UNCHANGED log \/ \E x \in Events : log' = Append(log, x) /\ Loggable(x)
<1>1. pc = "send" => job.id \in Calls /\ In(Use(job.id), log) /\ Result(job.id) \in Events
  BY DEF UseInv, KnownAfterUse, InFlight, UsesIn, Events
<1>2. CASE Environment
  BY <1>2 DEF Environment, AgentCallsTool, OtherClientAnswers, UserConfirms, SessionStatus,
     Append1, Events, Loggable
<1>3. CASE SendSucceeds \/ \E reached \in BOOLEAN : SendFails(reached)
  <2>1. log' \in {log, Append(log, Result(job.id))} /\ pc = "send"
    BY <1>3 DEF SendSucceeds, SendFails, Post
  <2> QED
    BY <1>1, <2>1 DEF Loggable
<1>4. CASE ~Environment /\ ~SendSucceeds /\ ~\E reached \in BOOLEAN : SendFails(reached)
  BY <1>4 DEF Next, LoopStep, LoopFault, IteratorStep, Attach, AttachFails, ListSucceeds,
     ListFails, RouteNext, RoutePassDone, ReleaseHeld, Settle, HandleEvent, Disconnect,
     Reconnect, AbortUnwinds, ToolReturns, SendGivesUp, IdleExpires, ExternalAbort, Yield,
     Phase1Ends, Phase2Ends, CloseAfterBreak, ConsumerBreaks, Finally, serverVars, vars
<1> QED
  BY <1>2, <1>3, <1>4

LEMMA UsesStay ==
  ASSUME IInv, UseInv, [Next]_vars
  PROVE  /\ UsesIn(log) \subseteq UsesIn(log')
         /\ LoggedAfterUse'
<1>1. CASE UNCHANGED log
  BY <1>1 DEF UseInv, LoggedAfterUse
<1>2. ASSUME NEW x \in Events, log' = Append(log, x), Loggable(x)
      PROVE  UsesIn(log) \subseteq UsesIn(log') /\ LoggedAfterUse'
  <2>1. \A e : In(e, log') <=> In(e, log) \/ e = x
    BY <1>2, AppendIn DEF IInv, OtherTypes
  <2>2. \A c \in Calls : Result(c) = x \/ (\E v \in Verdict : Confirm(c, v) = x) => In(Use(c), log)
    BY <1>2, EventFields DEF Loggable
  <2> QED
    BY <2>1, <2>2 DEF UsesIn, UseInv, LoggedAfterUse
<1> QED
  BY <1>1, <1>2, LogSteps

LEMMA HistoryEffect ==
  ASSUME IInv, ListSucceeds \/ ListFails
  PROVE  /\ pc = "list" /\ UNCHANGED <<log, cursor, job, awaiting, ran, passRuns>>
         /\ ListFails => pc' = "stream" /\ UNCHANGED <<todo, historyRead>>
         /\ \E h : /\ \A e : In(e, h) => In(e, log)
                   /\ answered' = answered \cup AnsweredIn(h)
                   /\ seen' \subseteq seen \cup UsesIn(h)
                   /\ ListSucceeds => /\ pc' = "route" /\ seen' = seen \cup UsesIn(h)
                                     /\ todo' \subseteq UsesIn(h)
<1>1. CASE ListSucceeds
  <2>1. PICK from \in 0..MaxMissing :
          LET h == SubSeq(log, from + 1, Len(log))
          IN  /\ seen' = seen \cup UsesIn(h)
              /\ answered' = answered \cup AnsweredIn(h)
              /\ todo' = PendingIn(h) \ (answered \cup AnsweredIn(h))
    BY <1>1 DEF ListSucceeds
  <2> DEFINE h == SubSeq(log, from + 1, Len(log))
  <2>2. \A e : In(e, h) => In(e, log)
    BY HistoryInLog DEF IInv, OtherTypes
  <2>3. PendingIn(h) \subseteq UsesIn(h)
    BY DEF PendingIn, UsesIn, In
  <2>4. pc = "list" /\ pc' = "route" /\ ~ListFails
    BY <1>1 DEF ListSucceeds, ListFails
  <2> HIDE DEF h
  <2> QED
    BY <1>1, <2>1, <2>2, <2>3, <2>4 DEF ListSucceeds, serverVars, h
<1>2. CASE ListFails
  <2>1. PICK n \in 0..Len(log) :
          LET h == SubSeq(log, 1, n)
          IN  /\ seen' = (seen \cup UsesIn(h)) \ PendingIn(h)
              /\ answered' = answered \cup AnsweredIn(h)
    BY <1>2 DEF ListFails
  <2> DEFINE h == SubSeq(log, 0 + 1, n)
  <2>2. \A e : In(e, h) => In(e, log)
    BY HistoryInLog DEF IInv, OtherTypes
  <2>3. pc = "list" /\ pc' = "stream" /\ ~ListSucceeds
    BY <1>2 DEF ListSucceeds, ListFails
  <2>4. seen' \subseteq seen \cup UsesIn(h) /\ answered' = answered \cup AnsweredIn(h)
    BY <2>1
  <2> HIDE DEF h
  <2> QED
    BY <1>2, <2>2, <2>3, <2>4 DEF ListFails, serverVars, ghostVars
<1> QED
  BY <1>1, <1>2

(* The steps that end a job, and those that neither read the history nor    *)
(* dispatch a call nor end its job.                                         *)

EndOfJob == SendSucceeds \/ SendGivesUp \/ AbortUnwinds

Rest ==
  \/ Environment \/ \E reached \in BOOLEAN : SendFails(reached)
  \/ Attach \/ \E fatal \in BOOLEAN : AttachFails(fatal)
  \/ RoutePassDone \/ Settle \/ Disconnect \/ Reconnect \/ ToolReturns
  \/ IdleExpires \/ ExternalAbort \/ IteratorStep \/ ConsumerBreaks
  \/ UNCHANGED vars

LEMMA StepKinds ==
  [Next]_vars => ListSucceeds \/ ListFails \/ RouteNext \/ ReleaseHeld \/ HandleEvent
                 \/ EndOfJob \/ Rest
  BY DEF Next, LoopStep, LoopFault, EndOfJob, Rest

LEMMA EndOfJobEffect ==
  ASSUME IInv, EndOfJob
  PROVE  /\ UNCHANGED <<cursor, todo, historyRead, seen, awaiting, verdicts, ran, passRuns>>
         /\ job' = NoJob /\ pc' \notin {"tool", "send"}
         /\ \/ pc = "send" /\ answered' \in {answered, answered \cup {job.id}}
            \/ pc \notin {"tool", "send"} /\ answered' = answered
         /\ pc' = "stopped" \/ (pc = "send" /\ pc' = job.back)
<1>1. pc = "send" => job.back \in Backs
  BY DEF IInv, DispatchTypes, Jobs, Backs
<1> QED
  BY <1>1 DEF EndOfJob, SendSucceeds, SendGivesUp, AbortUnwinds, JobDone, gateVars, ghostVars, Backs

LEMMA RestEffect ==
  ASSUME Rest
  PROVE  /\ UNCHANGED <<job, answered, awaiting, verdicts, ran, seen, todo>>
         /\ \/ Attach
            \/ /\ UNCHANGED <<cursor, historyRead, passRuns>>
               /\ \/ pc' = pc
                  \/ pc = "route" /\ pc' = "release" /\ todo = {}
                  \/ pc = "release" /\ pc' = "stream" /\ \A c \in awaiting : verdicts[c] = "none"
                  \/ pc = "tool" /\ pc' = "send"
                  \/ pc \in {"connect", "stream", "backoff"}
                     /\ pc' \in {"connect", "backoff", "stopped"}
<1>1. CASE Attach
  BY <1>1 DEF Attach, gateVars
<1>2. CASE ~Attach
  BY <1>2 DEF Rest, Environment, AgentCallsTool, OtherClientAnswers, UserConfirms, SessionStatus,
     Append1, SendFails, AttachFails, RoutePassDone, Settle, Disconnect, Reconnect, ToolReturns,
     IdleExpires, ExternalAbort, IteratorStep, Yield, Phase1Ends, Phase2Ends, CloseAfterBreak,
     ConsumerBreaks, Finally, vars, loopVars, gateVars, ghostVars
<1> QED
  BY <1>1, <1>2

LEMMA UseInvNext == IInv /\ UseInv /\ [Next]_vars => UseInv'
<1> SUFFICES ASSUME IInv, UseInv, [Next]_vars PROVE KnownAfterUse'
  BY UsesStay DEF UseInv
<1> DEFINE Known == seen \cup answered \cup awaiting \cup todo \cup ran \cup InFlight
<1>1. UsesIn(log) \subseteq UsesIn(log') /\ Known \subseteq UsesIn(log)
  BY UsesStay DEF UseInv, KnownAfterUse
<1>2. SUFFICES Known' \subseteq UsesIn(log) \cup UsesIn(log')
  BY <1>1 DEF KnownAfterUse
<1>3. ASSUME NEW c \in UsesIn(log), NEW back \in Backs,
             Starts(c, back) \/ Ends(c, back) \/ Holds(c, back)
      PROVE  (answered \cup awaiting \cup ran \cup InFlight)' \subseteq UsesIn(log)
  BY <1>1, <1>3 DEF Starts, Ends, Holds, InFlight, Backs
<1>4. CASE ListSucceeds \/ ListFails
  <2>1. PICK h : /\ \A e : In(e, h) => In(e, log)
                 /\ answered' = answered \cup AnsweredIn(h)
                 /\ seen' \subseteq seen \cup UsesIn(h)
                 /\ todo' \subseteq todo \cup UsesIn(h)
                 /\ UNCHANGED <<log, awaiting, ran>> /\ pc' \notin {"tool", "send"}
    BY <1>4, HistoryEffect
  <2>2. UsesIn(h) \subseteq UsesIn(log) /\ AnsweredIn(h) \subseteq UsesIn(log)
    BY <2>1 DEF UsesIn, AnsweredIn, UseInv, LoggedAfterUse
  <2>3. InFlight' = {}
    BY <2>1 DEF InFlight
  <2> QED
    BY <1>1, <2>1, <2>2, <2>3
<1>5. CASE RouteNext
  BY <1>1, <1>3, <1>5, RouteNextEffect DEF Backs
<1>6. CASE ReleaseHeld
  BY <1>1, <1>3, <1>6, ReleaseHeldEffect DEF Backs
<1>7. CASE HandleEvent
  <2>1. CASE Notes
    <3>1. \A c \in Calls : In(Result(c), log) => c \in UsesIn(log)
      BY DEF UsesIn, UseInv, LoggedAfterUse
    <3>2. UNCHANGED <<log, todo, awaiting, ran, seen>> /\ InFlight' = {}
      BY <1>7, <2>1, HandleEventEffect DEF Notes, InFlight
    <3> QED
      BY <1>1, <2>1, <3>1, <3>2 DEF Notes
  <2>2. ASSUME NEW c \in Calls \ seen, log[cursor + 1] = Use(c), seen' = seen \cup {c},
               Starts(c, "stream") \/ Ends(c, "stream") \/ Holds(c, "stream")
        PROVE  Known' \subseteq UsesIn(log)
    <3>1. c \in UsesIn(log) /\ UNCHANGED todo
      BY <1>7, <2>2, HandleEventEffect DEF UsesIn, In
    <3> QED
      BY <1>1, <1>3, <2>2, <3>1 DEF Backs
  <2>3. ASSUME NEW c \in awaiting, UNCHANGED seen, Starts(c, "stream") \/ Ends(c, "stream")
        PROVE  Known' \subseteq UsesIn(log)
    <3>1. c \in UsesIn(log) /\ UNCHANGED todo
      BY <1>1, <1>7, HandleEventEffect
    <3> QED
      BY <1>1, <1>3, <2>3, <3>1 DEF Backs
  <2> QED
    BY <1>7, <2>1, <2>2, <2>3, HandleEventEffect
<1>8. CASE EndOfJob
  <2>1. InFlight' = {} /\ (pc = "send" => job.id \in UsesIn(log))
    BY <1>1, <1>8, EndOfJobEffect DEF InFlight
  <2> QED
    BY <1>1, <1>8, <2>1, EndOfJobEffect
<1>9. CASE Rest
  <2>1. InFlight' = InFlight
    BY <1>9, RestEffect DEF InFlight, Attach
  <2> QED
    BY <1>1, <1>9, <2>1, RestEffect
<1> QED
  BY <1>4, <1>5, <1>6, <1>7, <1>8, <1>9, StepKinds

(* Nothing is known of a call before the session has logged it: a result or *)
(* a verdict in the log comes after the call, and so does whatever the      *)
(* runner has seen, answered, queued or run (#routeToolEvent).              *)
THEOREM KnowledgeIsLogged == Spec => []UseInv
<1>1. Init => UseInv
  BY DEF Init, UseInv, LoggedAfterUse, KnownAfterUse, InFlight, In
<1> QED
  BY Invariance, <1>1, UseInvNext, PTL DEF Spec

-----------------------------------------------------------------------------
(* The refinement: the log's calls are the requests, its allowing verdicts  *)
(* the approvals, and the call in flight is the one that runs.              *)

Approvals == {c \in Calls : In(Confirm(c, "allow"), log)}
Running   == IF pc \in {"tool", "send"} THEN job.id ELSE NoCall

LEMMA ResultsMap ==
  ASSUME IInv, NEW c \in Calls, log' \in {log, Append(log, Result(c))}
  PROVE  UNCHANGED <<UsesIn(log), Approvals>>
<1>1. CASE log' = log
  BY <1>1 DEF UsesIn, Approvals
<1>2. CASE log' = Append(log, Result(c))
  <2>1. \A e : In(e, log') <=> In(e, log) \/ e = Result(c)
    <3>1. Result(c) \in Events
      BY DEF Events
    <3> QED
      BY <1>2, <3>1, AppendIn DEF IInv, OtherTypes
  <2>2. \A d \in Calls : Use(d) # Result(c) /\ Confirm(d, "allow") # Result(c)
    BY EventFields
  <2> QED
    BY <2>1, <2>2 DEF UsesIn, Approvals
<1> QED
  BY <1>1, <1>2

LEMMA EnvironmentMaps ==
  ASSUME IInv, UseInv, Environment
  PROVE  [Dispatch!Next]_(Dispatch!vars)
<1>1. UNCHANGED <<Running, answered>>
  BY DEF Environment, AgentCallsTool, OtherClientAnswers, UserConfirms, SessionStatus, Append1,
     loopVars, gateVars, Running
<1>2. ASSUME NEW x \in Events, log' = Append(log, x)
      PROVE  \A e : In(e, log') <=> In(e, log) \/ e = x
  BY <1>2, AppendIn DEF IInv, OtherTypes
<1>3. ASSUME NEW c \in Calls, AgentCallsTool(c)
      PROVE  Dispatch!Request(c)
  <2>1. log' = Append(log, Use(c)) /\ Use(c) \in Events
    BY <1>3 DEF AgentCallsTool, Append1, Events
  <2>2. \A d \in Calls : (Use(d) = Use(c) => d = c) /\ Confirm(d, "allow") # Use(c)
    BY EventFields
  <2>3. UsesIn(log)' = UsesIn(log) \cup {c} /\ Approvals' = Approvals
    BY <1>2, <2>1, <2>2 DEF UsesIn, Approvals
  <2> QED
    BY <1>1, <2>3 DEF Dispatch!Request, Approvals, Running
<1>4. ASSUME NEW c \in Calls, OtherClientAnswers(c)
      PROVE  UNCHANGED Dispatch!vars
  <2>1. log' = Append(log, Result(c))
    BY <1>4 DEF OtherClientAnswers, Append1
  <2> QED
    BY <1>1, <2>1, ResultsMap DEF Dispatch!vars, Approvals, Running
<1>5. ASSUME NEW c \in Calls, NEW v \in Verdict, UserConfirms(c, v)
      PROVE  Dispatch!Approve(c) \/ UNCHANGED Dispatch!vars
  <2>1. log' = Append(log, Confirm(c, v)) /\ Confirm(c, v) \in Events /\ c \in UsesIn(log)
    BY <1>5 DEF UserConfirms, Append1, UsesIn, Events
  <2>2. \A d \in Calls : /\ Use(d) # Confirm(c, v)
                         /\ Confirm(d, "allow") = Confirm(c, v) => d = c /\ v = "allow"
    BY EventFields
  <2>3. UsesIn(log)' = UsesIn(log)
    BY <1>2, <2>1, <2>2 DEF UsesIn
  <2>4. Approvals' = IF v = "allow" THEN Approvals \cup {c} ELSE Approvals
    BY <1>2, <2>1, <2>2 DEF Approvals
  <2> QED
    BY <1>1, <2>1, <2>3, <2>4 DEF Dispatch!Approve, Dispatch!vars, Approvals, Running
<1>6. ASSUME NEW k \in {"ended", "activity", "terminated"}, SessionStatus(k)
      PROVE  UNCHANGED Dispatch!vars
  <2>1. log' = Append(log, Status(k)) /\ Status(k) \in Events
    BY <1>6 DEF SessionStatus, Append1, Events
  <2>2. \A d \in Calls : Use(d) # Status(k) /\ Confirm(d, "allow") # Status(k)
    BY EventFields
  <2>3. UNCHANGED <<UsesIn(log), Approvals>>
    BY <1>2, <2>1, <2>2 DEF UsesIn, Approvals
  <2> QED
    BY <1>1, <2>3 DEF Dispatch!vars, Approvals, Running
<1> QED
  BY <1>3, <1>4, <1>5, <1>6 DEF Environment, Dispatch!Next

(* A dispatch starts a call that was asked for and not settled or refused,  *)
(* settles a denied one, or is invisible.                                   *)
LEMMA DispatchMaps ==
  ASSUME IInv, IInv', UseInv, UNCHANGED log, pc \notin {"tool", "send"},
         NEW c \in UsesIn(log), NEW back \in Backs,
         Starts(c, back) \/ Ends(c, back) \/ Holds(c, back)
  PROVE  [Dispatch!Next]_(Dispatch!vars)
<1>1. Running = NoCall /\ c \in Calls /\ UNCHANGED <<UsesIn(log), Approvals>>
  BY DEF Running, UsesIn, Approvals
<1>2. CASE Starts(c, back)
  <2>1. /\ Running' = c /\ c \notin answered /\ answered' = answered /\ c \in ran'
    BY <1>2 DEF Starts, Running
  <2>2. /\ Permission[c] # "deny"
        /\ Permission[c] = "ask" => c \in Approvals
    BY <1>1, <2>1 DEF IInv, GatedCallsNeedApproval, Approvals
  <2>3. Dispatch!Start(c)
    BY <1>1, <2>1, <2>2 DEF Dispatch!Start, Running, Approvals
  <2> QED
    BY <1>1, <2>3 DEF Dispatch!Next
<1>3. CASE Ends(c, back) \/ Holds(c, back)
  <2>1. /\ Running' = NoCall /\ answered' \in {answered, answered \cup {c}}
    BY <1>3 DEF Ends, Holds, Running, Backs
  <2>2. CASE answered' = answered
    BY <1>1, <2>1, <2>2 DEF Dispatch!vars, Running, Approvals
  <2>3. CASE answered' = answered \cup {c}
    <3>1. Dispatch!SettleElsewhere({c})
      BY <1>1, <2>1, <2>3 DEF Dispatch!SettleElsewhere, Running, Approvals
    <3> QED
      BY <1>1, <3>1 DEF Dispatch!Next
  <2> QED
    BY <2>1, <2>2, <2>3
<1> QED
  BY <1>2, <1>3

LEMMA StepsMap == IInv /\ IInv' /\ UseInv /\ [Next]_vars => [Dispatch!Next]_(Dispatch!vars)
<1> SUFFICES ASSUME IInv, IInv', UseInv, [Next]_vars PROVE [Dispatch!Next]_(Dispatch!vars)
  OBVIOUS
<1>1. seen \cup awaiting \cup todo \subseteq UsesIn(log) /\ UsesIn(log) \subseteq Calls
  BY DEF UseInv, KnownAfterUse, UsesIn
<1>2. \A c \in Calls : In(Result(c), log) => c \in UsesIn(log)
  BY DEF UseInv, LoggedAfterUse, UsesIn
<1>3. ASSUME NEW S \in SUBSET UsesIn(log), UNCHANGED log, answered' = answered \cup S,
             pc \notin {"tool", "send"}, pc' \notin {"tool", "send"}
      PROVE  [Dispatch!Next]_(Dispatch!vars)
  <2>1. Running = NoCall /\ Running' = NoCall /\ UNCHANGED <<UsesIn(log), Approvals>>
    BY <1>3 DEF Running, UsesIn, Approvals
  <2>2. Dispatch!SettleElsewhere(S) /\ S \in SUBSET Calls
    BY <1>1, <1>3, <2>1 DEF Dispatch!SettleElsewhere, Running, Approvals
  <2> QED
    BY <2>2 DEF Dispatch!Next
<1>4. CASE ListSucceeds \/ ListFails
  <2>1. PICK h : (\A e : In(e, h) => In(e, log)) /\ answered' = answered \cup AnsweredIn(h)
    BY <1>4, HistoryEffect
  <2>2. AnsweredIn(h) \in SUBSET UsesIn(log)
    BY <1>2, <2>1 DEF AnsweredIn
  <2>3. UNCHANGED log /\ pc = "list" /\ pc' \in {"route", "stream"}
    BY <1>4, HistoryEffect
  <2> QED
    BY <1>3, <2>1, <2>2, <2>3
<1>5. CASE RouteNext
  BY <1>1, <1>5, RouteNextEffect, DispatchMaps DEF Backs
<1>6. CASE ReleaseHeld
  BY <1>1, <1>6, ReleaseHeldEffect, DispatchMaps DEF Backs
<1>7. CASE HandleEvent
  <2>1. CASE Notes
    <3>1. PICK S \in SUBSET UsesIn(log) : answered' = answered \cup S
      <4>1. CASE answered' = answered
        <5>1. {} \in SUBSET UsesIn(log) /\ answered' = answered \cup {}
          BY <4>1
        <5> QED
          BY <5>1
      <4>2. ASSUME NEW c \in Calls, In(Result(c), log), answered' = answered \cup {c}
            PROVE  \E S \in SUBSET UsesIn(log) : answered' = answered \cup S
        <5>1. {c} \in SUBSET UsesIn(log)
          BY <1>2, <4>2
        <5> QED
          BY <4>2, <5>1
      <4> QED
        BY <2>1, <4>1, <4>2 DEF Notes
    <3>2. UNCHANGED log /\ pc = "stream" /\ pc' \in {"stream", "stopped"}
      BY <1>7, <2>1, HandleEventEffect DEF Notes
    <3> QED
      BY <1>3, <3>1, <3>2
  <2>2. ASSUME NEW c \in Calls, log[cursor + 1] = Use(c),
               Starts(c, "stream") \/ Ends(c, "stream") \/ Holds(c, "stream")
        PROVE  [Dispatch!Next]_(Dispatch!vars)
    <3>1. c \in UsesIn(log) /\ UNCHANGED log /\ pc = "stream"
      BY <1>7, <2>2, HandleEventEffect DEF UsesIn, In
    <3> QED
      BY <2>2, <3>1, DispatchMaps DEF Backs
  <2>3. ASSUME NEW c \in awaiting, Starts(c, "stream") \/ Ends(c, "stream")
        PROVE  [Dispatch!Next]_(Dispatch!vars)
    <3>1. c \in UsesIn(log) /\ UNCHANGED log /\ pc = "stream"
      BY <1>1, <1>7, HandleEventEffect
    <3> QED
      BY <2>3, <3>1, DispatchMaps DEF Backs
  <2> QED
    BY <1>7, <2>1, <2>2, <2>3, HandleEventEffect
<1>8. CASE EndOfJob
  <2>1. UNCHANGED <<UsesIn(log), Approvals>>
    <3>1. log' = log \/ (pc = "send" /\ log' = Append(log, Result(job.id)))
      BY <1>8 DEF EndOfJob, SendSucceeds, SendGivesUp, AbortUnwinds, Post, serverVars
    <3>2. pc = "send" => job.id \in Calls
      BY DEF IInv, JobInv
    <3> QED
      BY <3>1, <3>2, ResultsMap DEF UsesIn, Approvals
  <2>2. Running' = NoCall
    BY <1>8, EndOfJobEffect DEF Running
  <2>3. CASE pc = "send"
    <3>1. Running = job.id /\ job.id # NoCall
      <4>1. job.id \in Calls
        BY <2>3 DEF IInv, JobInv
      <4> QED
        BY <2>3, <4>1 DEF Running
    <3>2. \E arrived \in BOOLEAN :
            answered' = IF arrived THEN answered \cup {job.id} ELSE answered
      BY <1>8, <2>3, EndOfJobEffect
    <3>3. \E arrived \in BOOLEAN : Dispatch!Finish(arrived)
      BY <2>1, <2>2, <3>1, <3>2 DEF Dispatch!Finish, Running, Approvals
    <3> QED
      BY <3>3 DEF Dispatch!Next
  <2>4. CASE pc # "send"
    BY <1>8, <2>1, <2>2, <2>4, EndOfJobEffect DEF Dispatch!vars, Running, Approvals
  <2> QED
    BY <2>3, <2>4
<1>9. CASE Rest
  <2>1. CASE Environment
    BY <2>1, EnvironmentMaps
  <2>2. CASE ~Environment
    <3>1. UNCHANGED <<UsesIn(log), Approvals>>
      <4>1. log' = log \/ (pc = "send" /\ log' = Append(log, Result(job.id)))
        BY <1>9, <2>2 DEF Rest, SendFails, Post, Attach, AttachFails, RoutePassDone, Settle,
           Disconnect, Reconnect, ToolReturns, IdleExpires, ExternalAbort, IteratorStep, Yield,
           Phase1Ends, Phase2Ends, CloseAfterBreak, ConsumerBreaks, Finally, serverVars, vars
      <4>2. pc = "send" => job.id \in Calls
        BY DEF IInv, JobInv
      <4> QED
        BY <4>1, <4>2, ResultsMap DEF UsesIn, Approvals
    <3>2. UNCHANGED <<Running, answered>>
      BY <1>9, RestEffect DEF Running, Attach
    <3> QED
      BY <3>1, <3>2 DEF Dispatch!vars, Running, Approvals
  <2> QED
    BY <2>1, <2>2
<1> QED
  BY <1>4, <1>5, <1>6, <1>7, <1>8, <1>9, StepKinds

(* The runner implements GatedDispatch: whatever its streams, histories and *)
(* retries do, tools start one at a time, never before their approval and   *)
(* never once their result is known to have arrived.                        *)
THEOREM ImplementsDispatch == Spec => RefinesDispatch
<1>1. Init => Dispatch!Init
  BY DEF Init, Dispatch!Init, UsesIn, In
<1> QED
  BY Invariance, KnowledgeIsLogged, <1>1, StepsMap, PTL DEF Spec, RefinesDispatch, Dispatch!Spec

-----------------------------------------------------------------------------
(* Held calls and the history.  historyRead is reset by every Attach, so it *)
(* says that the pass before the stream has ended in Settle, which leaves   *)
(* no held call decided; the stream then releases a call as it is decided.  *)

InStream == pc = "stream" \/ (pc \in {"tool", "send"} /\ job.back = "stream")

HistoryInv ==
  /\ pc = "list" => ~historyRead
  /\ InStream /\ historyRead => \A c \in awaiting : verdicts[c] = "none"

LEMMA DispatchKeepsHeld ==
  ASSUME NEW c, NEW back \in Backs, Starts(c, back) \/ Ends(c, back) \/ Holds(c, back)
  PROVE  /\ pc' # "list" /\ (InStream' <=> back = "stream")
         /\ awaiting' \subseteq awaiting
            \/ (awaiting' = awaiting \cup {c} /\ verdicts[c] = "none")
  BY DEF Starts, Ends, Holds, InStream, Backs

LEMMA HistoryInvNext == IInv /\ HistoryInv /\ [Next]_vars => HistoryInv'
<1> SUFFICES ASSUME IInv, HistoryInv, [Next]_vars PROVE HistoryInv'
  OBVIOUS
<1>1. CASE ListSucceeds \/ ListFails
  <2>1. pc = "list" /\ pc' \in {"route", "stream"} /\ (pc' = "stream" => ~historyRead')
    BY <1>1, HistoryEffect DEF HistoryInv
  <2> QED
    BY <2>1 DEF HistoryInv, InStream
<1>2. CASE RouteNext
  BY <1>2, RouteNextEffect, DispatchKeepsHeld DEF HistoryInv, Backs
<1>3. CASE ReleaseHeld
  BY <1>3, ReleaseHeldEffect, DispatchKeepsHeld DEF HistoryInv, Backs
<1>4. CASE HandleEvent
  <2>1. /\ pc = "stream" /\ UNCHANGED historyRead
        /\ historyRead => \A c \in awaiting : verdicts[c] = "none"
    BY <1>4, HandleEventEffect DEF HistoryInv, InStream
  <2>2. CASE Notes
    BY <2>1, <2>2 DEF Notes, HistoryInv
  <2>3. ASSUME NEW c, UNCHANGED verdicts,
               Starts(c, "stream") \/ Ends(c, "stream") \/ Holds(c, "stream")
        PROVE  HistoryInv'
    BY <2>1, <2>3, DispatchKeepsHeld DEF HistoryInv, Backs
  <2>4. ASSUME NEW c, awaiting' = awaiting \ {c}, \A d \in awaiting' : verdicts'[d] = verdicts[d],
               Starts(c, "stream") \/ Ends(c, "stream")
        PROVE  HistoryInv'
    BY <2>1, <2>4, DispatchKeepsHeld DEF HistoryInv, Backs
  <2> QED
    BY <1>4, <2>2, <2>3, <2>4, HandleEventEffect
<1>5. CASE EndOfJob
  BY <1>5, EndOfJobEffect DEF HistoryInv, InStream, IInv, JobInv, NoJob, DispatchTypes, Jobs
<1>6. CASE Rest
  <2>1. CASE Attach
    BY <2>1 DEF Attach, HistoryInv, InStream
  <2>2. CASE ~Attach
    BY <1>6, <2>2, RestEffect DEF HistoryInv, InStream
  <2> QED
    BY <2>1, <2>2
<1> QED
  BY <1>1, <1>2, <1>3, <1>4, <1>5, <1>6, StepKinds

(* Once a history was read, no held call's verdict is known and not acted   *)
(* on, whichever of history and stream showed it first.                     *)
THEOREM NoHeldCallIsOverlooked == Spec => []NoVerdictOverlooked
<1>1. Init => HistoryInv
  BY DEF Init, HistoryInv, InStream
<1>2. HistoryInv => NoVerdictOverlooked
  BY DEF HistoryInv, NoVerdictOverlooked, InStream
<1> QED
  BY Invariance, <1>1, <1>2, HistoryInvNext, PTL DEF Spec

-----------------------------------------------------------------------------
(* Runs per connection.  A call that ran on this connection cannot come up  *)
(* again: it is off the pass's list and not held, and the stream either was *)
(* told that it is seen or has it behind the cursor.                        *)

Passed(c) == \A i \in DOMAIN log : i > cursor => log[i] # Use(c)

RunOnce(c) ==
  passRuns[c] # 0 => /\ passRuns[c] = 1 /\ c \in ran
                     /\ c \notin todo \cup awaiting
                     /\ c \in seen \/ Passed(c)

TodoInv ==
  /\ todo \subseteq seen
  /\ todo # {} => \/ pc \in {"route", "stopped"}
                  \/ pc \in {"tool", "send"} /\ job.back = "route"

RunsInv ==
  /\ \A c \in Calls : RunOnce(c)
  /\ \A c \in awaiting : c \in seen \/ Passed(c)
  /\ TodoInv
  /\ pc = "list" => \A c \in Calls : passRuns[c] = 0 /\ (c \in awaiting => Passed(c))

LEMMA PassedStays ==
  ASSUME IInv, UseInv, [Next]_vars, cursor' >= cursor, NEW c \in UsesIn(log), Passed(c)
  PROVE  Passed(c)'
<1>1. cursor \in Nat /\ cursor' \in Nat /\ log \in Seq(Events)
  BY NextOK DEF IInv, OtherTypes
<1>2. CASE UNCHANGED log
  BY <1>1, <1>2 DEF Passed
<1>3. ASSUME NEW x \in Events, log' = Append(log, x), Loggable(x)
      PROVE  Passed(c)'
  <2>1. x # Use(c)
    BY <1>3, EventFields DEF Loggable, UsesIn
  <2>2. /\ log'[Len(log) + 1] = x
        /\ \A i \in DOMAIN log : log'[i] = log[i]
        /\ \A i \in DOMAIN log' : i \in DOMAIN log \/ i = Len(log) + 1
    BY <1>1, <1>3, AppendIn
  <2>3. \A i \in DOMAIN log : i \in Nat
    BY <1>1
  <2>4. ASSUME NEW i \in DOMAIN log', i > cursor' PROVE log'[i] # Use(c)
    <3>1. CASE i = Len(log) + 1
      BY <2>1, <2>2, <3>1
    <3>2. CASE i \in DOMAIN log
      BY <1>1, <2>2, <2>3, <2>4, <3>2 DEF Passed
    <3> QED
      BY <2>2, <3>1, <3>2
  <2> QED
    BY <2>4 DEF Passed
<1> QED
  BY <1>2, <1>3, LogSteps

(* One dispatch of a call that has not run yet and is on its way off the    *)
(* pass's list or the held calls.                                           *)
LEMMA DispatchKeepsRuns ==
  ASSUME IInv, RunsInv, NEW c \in Calls, NEW back \in Backs,
         Starts(c, back) \/ Ends(c, back) \/ Holds(c, back),
         passRuns[c] = 0, c \notin todo', c \in seen' \/ Passed(c)', 
         seen \subseteq seen', todo' \subseteq todo,
         todo' # {} => back = "route",
         \A d \in awaiting \cup {x \in Calls : passRuns[x] # 0} : Passed(d) => Passed(d)'
  PROVE  RunsInv'
<1>1. TodoInv'
  BY DEF RunsInv, TodoInv, Starts, Ends, Holds, Backs
<1>2. \A d \in awaiting' : d \in seen' \/ Passed(d)'
  BY DEF RunsInv, Starts, Ends, Holds
<1>3. pc' # "list"
  BY DEF Starts, Ends, Holds, Backs
<1>4. ASSUME NEW d \in Calls, passRuns'[d] # 0 PROVE RunOnce(d)'
  <2>1. passRuns \in [Calls -> Nat]
    BY DEF IInv, DispatchTypes
  <2>2. CASE d = c
    <3>1. Starts(c, back) /\ passRuns'[c] = 1
      BY <1>4, <2>1, <2>2 DEF Starts, Ends, Holds
    <3> QED
      BY <2>2, <3>1 DEF Starts, RunOnce
  <2>3. CASE d # c
    <3>1. passRuns'[d] = passRuns[d] /\ ran \subseteq ran' /\ awaiting' \subseteq awaiting \cup {c}
      BY <2>1, <2>3 DEF Starts, Ends, Holds
    <3>2. /\ passRuns[d] = 1 /\ d \in ran /\ d \notin todo \cup awaiting
          /\ d \in seen \/ Passed(d)
      BY <1>4, <3>1 DEF RunsInv, RunOnce
    <3> QED
      BY <1>4, <2>3, <3>1, <3>2 DEF RunOnce
  <2> QED
    BY <2>2, <2>3
<1> QED
  BY <1>1, <1>2, <1>3, <1>4 DEF RunsInv, RunOnce

LEMMA RunsInvNext == IInv /\ UseInv /\ RunsInv /\ [Next]_vars => RunsInv'
<1> SUFFICES ASSUME IInv, UseInv, RunsInv, [Next]_vars PROVE RunsInv'
  OBVIOUS
<1> DEFINE Met == awaiting \cup {x \in Calls : passRuns[x] # 0}
<1>1. /\ Met \subseteq UsesIn(log) /\ awaiting \subseteq Calls /\ todo \subseteq Calls
      /\ cursor \in Nat
  BY DEF UseInv, KnownAfterUse, RunsInv, RunOnce, IInv, DispatchTypes, OtherTypes
<1>2. ASSUME cursor' >= cursor
      PROVE  \A d \in Met : Passed(d) => Passed(d)'
  BY <1>1, <1>2, PassedStays
<1>3. \A c \in awaiting \cup todo : passRuns[c] = 0
  BY <1>1 DEF RunsInv, RunOnce
<1>4. CASE ListSucceeds \/ ListFails
  <2>1. /\ pc = "list" /\ pc' \in {"route", "stream"} /\ UNCHANGED <<awaiting, passRuns, cursor>>
        /\ ListFails => pc' = "stream" /\ UNCHANGED todo
    BY <1>4, HistoryEffect
  <2>2. \A c \in Calls : passRuns'[c] = 0
    BY <2>1 DEF RunsInv
  <2>3. \A c \in awaiting' : Passed(c)'
    BY <1>1, <1>2, <2>1 DEF RunsInv
  <2>4. TodoInv'
    <3>1. todo = {}
      BY <2>1 DEF RunsInv, TodoInv
    <3>2. CASE ListFails
      BY <2>1, <3>1, <3>2 DEF TodoInv
    <3>3. CASE ListSucceeds
      BY <3>3, HistoryEffect DEF TodoInv
    <3> QED
      BY <1>4, <3>2, <3>3
  <2> QED
    BY <2>1, <2>2, <2>3, <2>4 DEF RunsInv, RunOnce
<1>5. CASE RouteNext
  <2>1. PICK c \in todo : /\ todo' = todo \ {c}
                          /\ Starts(c, "route") \/ Ends(c, "route") \/ Holds(c, "route")
    BY <1>5, RouteNextEffect
  <2>2. /\ c \in Calls /\ passRuns[c] = 0 /\ c \in seen' /\ seen' = seen /\ cursor' = cursor
    BY <1>1, <1>3, <1>5, RouteNextEffect DEF RunsInv, TodoInv
  <2> QED
    BY <1>1, <1>2, <2>1, <2>2, DispatchKeepsRuns DEF Backs
<1>6. CASE ReleaseHeld
  <2>1. PICK c \in awaiting : Starts(c, "release") \/ Ends(c, "release")
    BY <1>6, ReleaseHeldEffect
  <2>2. /\ UNCHANGED <<seen, cursor, todo>> /\ pc = "release"
    BY <1>6, ReleaseHeldEffect
  <2>3. todo = {} /\ c \in Calls /\ passRuns[c] = 0 /\ (c \in seen' \/ Passed(c)')
    BY <1>1, <1>2, <1>3, <2>2 DEF RunsInv, TodoInv
  <2> QED
    BY <1>1, <1>2, <2>1, <2>2, <2>3, DispatchKeepsRuns DEF Backs
<1>7. CASE HandleEvent
  <2>1. /\ pc = "stream" /\ cursor' = cursor + 1 /\ cursor + 1 \in DOMAIN log
        /\ UNCHANGED <<log, todo>> /\ todo = {}
    BY <1>7, HandleEventEffect DEF RunsInv, TodoInv
  <2>2. \A d \in Met : Passed(d) => Passed(d)'
    BY <1>1, <1>2, <2>1
  <2>3. CASE Notes
    BY <1>1, <2>1, <2>2, <2>3 DEF Notes, RunsInv, RunOnce, TodoInv
  <2>4. ASSUME NEW c \in Calls \ seen, log[cursor + 1] = Use(c), seen' = seen \cup {c},
               Starts(c, "stream") \/ Ends(c, "stream") \/ Holds(c, "stream")
        PROVE  RunsInv'
    <3>1. ~Passed(c)
      BY <1>1, <2>1, <2>4 DEF Passed
    <3>2. passRuns[c] = 0
      BY <2>4, <3>1 DEF RunsInv, RunOnce
    <3> QED
      BY <2>1, <2>2, <2>4, <3>2, DispatchKeepsRuns DEF Backs
  <2>5. ASSUME NEW c \in awaiting, UNCHANGED seen, Starts(c, "stream") \/ Ends(c, "stream")
        PROVE  RunsInv'
    <3>1. c \in Calls /\ passRuns[c] = 0 /\ (c \in seen' \/ Passed(c)')
      BY <1>1, <1>3, <2>2, <2>5 DEF RunsInv
    <3> QED
      BY <2>1, <2>2, <2>5, <3>1, DispatchKeepsRuns DEF Backs
  <2> QED
    BY <1>7, <2>3, <2>4, <2>5, HandleEventEffect
<1>8. CASE EndOfJob
  <2>1. UNCHANGED <<cursor, todo, seen, awaiting, ran, passRuns>>
        /\ (pc' = "stopped" \/ (pc = "send" /\ pc' = job.back))
    BY <1>8, EndOfJobEffect
  <2>2. TodoInv'
    BY <2>1 DEF RunsInv, TodoInv
  <2>3. pc' # "list"
    BY <2>1 DEF IInv, DispatchTypes, Jobs
  <2> QED
    BY <1>1, <1>2, <2>1, <2>2, <2>3 DEF RunsInv, RunOnce
<1>9. CASE Rest
  <2>1. CASE Attach
    <3>1. /\ pc = "connect" /\ pc' = "list" /\ UNCHANGED <<log, todo, seen, awaiting>>
          /\ cursor' = Len(log) /\ passRuns' = [c \in Calls |-> 0]
      BY <2>1 DEF Attach, serverVars, gateVars
    <3>2. \A c : Passed(c)'
      BY <3>1 DEF Passed, IInv, OtherTypes
    <3> QED
      BY <1>1, <3>1, <3>2 DEF RunsInv, RunOnce, TodoInv
  <2>2. CASE ~Attach
    <3>1. UNCHANGED <<cursor, job, todo, seen, awaiting, ran, passRuns>>
      BY <1>9, <2>2, RestEffect
    <3>2. TodoInv' /\ (pc' = "list" => pc = "list")
      BY <1>9, <2>2, RestEffect DEF RunsInv, TodoInv
    <3> QED
      BY <1>1, <1>2, <3>1, <3>2 DEF RunsInv, RunOnce
  <2> QED
    BY <2>1, <2>2
<1> QED
  BY <1>4, <1>5, <1>6, <1>7, <1>8, <1>9, StepKinds

(* One connection executes a call at most once, though history and stream   *)
(* overlap and either may show the call, its verdict or both.               *)
THEOREM ConnectionRunsACallOnce == Spec => []OneRunPerConnection
<1>1. Init => RunsInv
  BY DEF Init, RunsInv, RunOnce, TodoInv
<1>2. RunsInv => OneRunPerConnection
  <2> SUFFICES ASSUME RunsInv, NEW c \in Calls PROVE passRuns[c] <= 1
    BY DEF OneRunPerConnection
  <2>1. passRuns[c] \in {0, 1}
    BY DEF RunsInv, RunOnce
  <2> QED
    BY <2>1
<1> QED
  BY Invariance, KnowledgeIsLogged, <1>1, <1>2, RunsInvNext, PTL DEF Spec

-----------------------------------------------------------------------------
(* Once the loop has stopped it moves no more: every step left is the        *)
(* session's, the countdown's, the abort signal's or the iterator's.        *)
LEMMA StoppedStays ==
  ASSUME [Next]_vars, pc = "stopped"
  PROVE  /\ pc' = "stopped"
         /\ \/ IteratorStep \/ ConsumerBreaks
            \/ UNCHANGED <<results, iter>> /\ (clock' = clock \/ IdleExpires)
  BY DEF Next, Environment, AgentCallsTool, OtherClientAnswers, UserConfirms, SessionStatus,
     Append1, LoopStep, LoopFault, Attach, AttachFails, ListSucceeds, ListFails, RouteNext,
     RoutePassDone, ReleaseHeld, Settle, HandleEvent, Disconnect, Reconnect, AbortUnwinds,
     ToolReturns, SendSucceeds, SendFails, SendGivesUp, IdleExpires, ExternalAbort,
     IteratorStep, Yield, Phase1Ends, Phase2Ends, CloseAfterBreak, ConsumerBreaks, Finally,
     vars, loopVars

LEMMA IterMoves ==
  ASSUME [Next]_vars, iter' # iter
  PROVE  Phase1Ends \/ Phase2Ends \/ CloseAfterBreak \/ ConsumerBreaks
  BY DEF Next, Environment, AgentCallsTool, OtherClientAnswers, UserConfirms, SessionStatus,
     Append1, LoopStep, LoopFault, Attach, AttachFails, ListSucceeds, ListFails, RouteNext,
     RoutePassDone, ReleaseHeld, Settle, HandleEvent, Disconnect, Reconnect, AbortUnwinds,
     ToolReturns, SendSucceeds, SendFails, SendGivesUp, IdleExpires, ExternalAbort,
     IteratorStep, Yield, vars

(* When the iterator has ended the loop has settled and, unless the         *)
(* consumer broke off, every result was yielded and no countdown is left.   *)
THEOREM TeardownIsClean == Spec => []CleanTeardown
<1>1. Init => CleanTeardown
  BY DEF Init, CleanTeardown
<1>2. IInv /\ CleanTeardown /\ [Next]_vars => CleanTeardown'
  <2> SUFFICES ASSUME IInv, CleanTeardown, [Next]_vars PROVE CleanTeardown'
    OBVIOUS
  <2>1. clock \in Clocks
    BY DEF IInv, DispatchTypes
  <2>2. CASE iter' # iter
    <3>1. CASE Phase1Ends \/ ConsumerBreaks
      BY <3>1 DEF Phase1Ends, ConsumerBreaks, CleanTeardown
    <3>2. CASE Phase2Ends
      <4>1. ~Disarm(clock).timer
        BY <2>1, TimerOps
      <4> QED
        BY <3>2, <4>1 DEF Phase2Ends, Finally, loopVars, CleanTeardown
    <3>3. CASE CloseAfterBreak
      BY <3>3 DEF CloseAfterBreak, loopVars, CleanTeardown
    <3> QED
      BY <2>2, <3>1, <3>2, <3>3, IterMoves
  <2>3. CASE iter' = iter /\ iter \in {"done", "closed"}
    <3>1. pc = "stopped" /\ (iter = "done" => results = <<>> /\ ~clock.timer)
      BY <2>3 DEF CleanTeardown
    <3>2. pc' = "stopped" /\ UNCHANGED results /\ (clock' = clock \/ IdleExpires)
      BY <2>3, <3>1, StoppedStays DEF IteratorStep, Yield, Phase1Ends, Phase2Ends,
         CloseAfterBreak, ConsumerBreaks
    <3>3. iter = "done" => ~clock'.timer
      BY <3>1, <3>2 DEF IdleExpires
    <3> QED
      BY <2>3, <3>1, <3>2, <3>3 DEF CleanTeardown
  <2>4. CASE iter' = iter /\ iter \notin {"done", "closed"}
    BY <2>4 DEF CleanTeardown
  <2> QED
    BY <2>2, <2>3, <2>4
<1> QED
  BY Invariance, <1>1, <1>2, PTL DEF Spec

=============================================================================
