----------------------- MODULE SessionToolRunnerProofs -----------------------
(***************************************************************************)
(* Theorems about SessionToolRunner, for any set of calls, any permissions *)
(* and any bounds.                                                         *)
(***************************************************************************)
EXTENDS SessionToolRunner, TLAPS

USE RunnerAssumption

-----------------------------------------------------------------------------
(* The clock operators stay within Clocks, and what they do to blockers.    *)

LEMMA CountdownOps ==
  ASSUME NEW k \in Clocks
  PROVE  /\ Arm(k) \in Clocks /\ Arm(k).blockers = k.blockers
         /\ Disarm(k) \in Clocks /\ Disarm(k).blockers = k.blockers
         /\ [k EXCEPT !.timer = FALSE] \in Clocks
         /\ [k EXCEPT !.timer = FALSE].blockers = k.blockers
  BY DEF Clocks, Arm, Disarm

LEMMA ClockOps ==
  ASSUME NEW k \in Clocks, NEW c \in Calls
  PROVE  /\ Arm(k) \in Clocks /\ Arm(k).blockers = k.blockers
         /\ Disarm(k) \in Clocks /\ Disarm(k).blockers = k.blockers
         /\ Block(k, c) \in Clocks /\ Block(k, c).blockers = k.blockers \cup {c}
         /\ Unblock(k, c) \in Clocks /\ Unblock(k, c).blockers = k.blockers \ {c}
  BY DEF Clocks, Arm, Disarm, Block, Unblock

LEMMA NoteOps ==
  ASSUME NEW k \in Clocks, NEW e
  PROVE  NoteEvent(k, e) \in Clocks /\ NoteEvent(k, e).blockers = k.blockers
  BY DEF Clocks, Arm, Disarm, NoteEvent

-----------------------------------------------------------------------------
(* The inductive invariant.  A verdict the runner knows was logged; held    *)
(* calls are gated ones; a call in flight was taken off the held set.       *)

Backs == {"route", "release", "stream"}

DispatchTypes ==
  /\ pc \in {"connect", "list", "route", "release", "stream", "tool", "send", "backoff",
             "stopped"}
  /\ job \in Jobs
  /\ answered \subseteq Calls /\ awaiting \subseteq Calls
  /\ clock \in Clocks
  /\ results \in Seq([id : Calls, posted : BOOLEAN])
  /\ ran \subseteq Calls /\ passRuns \in [Calls -> Nat]

OtherTypes ==
  /\ log \in Seq(Events)
  /\ faults \in Nat /\ cursor \in Nat
  /\ todo \subseteq Calls /\ unanswered \subseteq Calls
  /\ lastEnded \in BOOLEAN /\ historyRead \in BOOLEAN
  /\ seen \subseteq Calls
  /\ verdicts \in [Calls -> Verdict \cup {"none"}]
  /\ aborted \in BOOLEAN
  /\ iter \in {"phase1", "phase2", "done", "broken", "closed"}
  /\ unposted \subseteq Calls /\ quiet \in BOOLEAN

JobInv ==
  /\ pc \in {"tool", "send"} => job.id \in Calls /\ (job.approved => job.id \notin awaiting)
  /\ pc \notin {"tool", "send"} => job = NoJob

KnownVerdictsLogged ==
  \A c \in Calls : verdicts[c] = "allow" => In(Confirm(c, "allow"), log)

HeldAreAsk == \A c \in awaiting : Permission[c] = "ask"

Allowed(c) == Permission[c] = "allow" \/ (Permission[c] = "ask" /\ In(Confirm(c, "allow"), log))

IInv ==
  /\ DispatchTypes /\ OtherTypes
  /\ JobInv /\ BlockersAreGatedWork
  /\ KnownVerdictsLogged /\ HeldAreAsk
  /\ GatedCallsNeedApproval

LEMMA TypesSplit == TypeOK <=> DispatchTypes /\ OtherTypes
  BY DEF TypeOK, DispatchTypes, OtherTypes

-----------------------------------------------------------------------------
(* Dispatching a call, as the three callers of RouteCall and ApplyVerdict   *)
(* do: from a loop point with no job, on a clock whose blockers are the     *)
(* held calls.                                                              *)

LEMMA ExecuteOK ==
  ASSUME DispatchTypes, NEW c \in Calls, NEW ok \in BOOLEAN, NEW k \in Clocks,
         NEW back \in Backs, job = NoJob, awaiting' \subseteq Calls,
         k.blockers = awaiting' \cup (IF ok THEN {c} ELSE {}),
         ok => c \notin awaiting',
         Execute(c, ok, k, back)
  PROVE  /\ DispatchTypes' /\ JobInv' /\ BlockersAreGatedWork'
         /\ ran' \in {ran, ran \cup {c}}
<1> DEFINE done(kk) == IF ok THEN Unblock(kk, c) ELSE kk
<1>1. /\ done(k) \in Clocks /\ done(k).blockers = awaiting'
      /\ Disarm(k) \in Clocks
      /\ ok => done(Disarm(k)) \in Clocks /\ done(Disarm(k)).blockers = awaiting'
  <2>1. Disarm(k) \in Clocks /\ Disarm(k).blockers = k.blockers
    BY ClockOps
  <2>2. CASE ok
    <3>1. k.blockers = awaiting' \cup {c} /\ c \notin awaiting'
      BY <2>2
    <3>2. /\ Unblock(k, c) \in Clocks /\ Unblock(k, c).blockers = k.blockers \ {c}
          /\ Unblock(Disarm(k), c) \in Clocks
          /\ Unblock(Disarm(k), c).blockers = Disarm(k).blockers \ {c}
      BY <2>1, ClockOps
    <3> QED
      BY <2>1, <2>2, <3>1, <3>2
  <2>3. CASE ~ok
    BY <2>1, <2>3
  <2> QED
    BY <2>2, <2>3
<1>2. CASE c \in answered
  BY <1>1, <1>2 DEF Execute, DispatchTypes, JobInv, BlockersAreGatedWork, InFlight, NoJob, Backs
<1>3. CASE c \notin answered /\ c \notin Owned
  <2>1. Surfaced(c, FALSE) \in Seq([id : Calls, posted : BOOLEAN])
    BY DEF Surfaced, DispatchTypes
  <2>2. clock' \in Clocks /\ clock'.blockers = awaiting'
    BY <1>1, <1>3 DEF Execute
  <2> QED
    BY <2>1, <2>2, <1>3 DEF Execute, DispatchTypes, JobInv, BlockersAreGatedWork, InFlight,
       NoJob, Backs
<1>4. CASE c \notin answered /\ c \in Owned
  <2>1. job' = [id |-> c, approved |-> ok, back |-> back] /\ pc' = "tool" /\ clock' = k
        /\ ran' = ran \cup {c} /\ passRuns' = [passRuns EXCEPT ![c] = @ + 1]
        /\ UNCHANGED <<results, answered>>
    BY <1>4 DEF Execute
  <2>2. job' \in Jobs
    BY <2>1 DEF Jobs, Backs
  <2>3. passRuns' \in [Calls -> Nat]
    BY <2>1 DEF DispatchTypes
  <2>4. DispatchTypes'
    BY <2>1, <2>2, <2>3 DEF DispatchTypes
  <2> QED
    BY <2>1, <2>4 DEF JobInv, BlockersAreGatedWork, InFlight
<1> QED
  BY <1>2, <1>3, <1>4

LEMMA ApplyVerdictOK ==
  ASSUME DispatchTypes, NEW c \in Calls, NEW v, NEW k \in Clocks, NEW back \in Backs,
         job = NoJob, k.blockers = awaiting,
         ApplyVerdict(c, v, k, back)
  PROVE  /\ DispatchTypes' /\ JobInv' /\ BlockersAreGatedWork'
         /\ ran' \in {ran, ran \cup {c}} /\ (v # "allow" => ran' = ran)
         /\ awaiting' = awaiting \ {c}
<1>1. awaiting' = awaiting \ {c}
  BY DEF ApplyVerdict
<1>2. CASE v = "allow"
  <2> DEFINE kk == IF c \in awaiting THEN k ELSE Block(k, c)
  <2>1. kk \in Clocks /\ kk.blockers = awaiting \cup {c}
    BY ClockOps
  <2>2. Execute(c, TRUE, kk, back)
    BY <1>2 DEF ApplyVerdict
  <2>3. awaiting' \subseteq Calls /\ kk.blockers = awaiting' \cup {c} /\ c \notin awaiting'
    BY <1>1, <2>1 DEF DispatchTypes
  <2> QED
    BY <1>1, <1>2, <2>1, <2>2, <2>3, ExecuteOK
<1>3. CASE v # "allow"
  <2>1. /\ clock' = IF c \in awaiting THEN Unblock(k, c) ELSE k
        /\ answered' = answered \cup {c} /\ results' = Surfaced(c, FALSE) /\ pc' = back
        /\ UNCHANGED <<job, ran, passRuns>>
    BY <1>3 DEF ApplyVerdict
  <2>2. clock' \in Clocks /\ clock'.blockers = awaiting'
    BY <1>1, <2>1, ClockOps
  <2>3. results' \in Seq([id : Calls, posted : BOOLEAN])
    BY <2>1 DEF Surfaced, DispatchTypes
  <2> QED
    BY <1>1, <1>3, <2>1, <2>2, <2>3 DEF DispatchTypes, JobInv, BlockersAreGatedWork, InFlight,
       NoJob, Backs
<1> QED
  BY <1>2, <1>3

LEMMA RouteCallOK ==
  ASSUME DispatchTypes, OtherTypes, HeldAreAsk, KnownVerdictsLogged, GatedCallsNeedApproval,
         NEW c \in Calls, NEW k \in Clocks, NEW back \in Backs,
         job = NoJob, k.blockers = awaiting,
         RouteCall(c, k, back)
  PROVE  /\ DispatchTypes' /\ JobInv' /\ BlockersAreGatedWork' /\ HeldAreAsk'
         /\ \A d \in ran' : Allowed(d)
<1> DEFINE verdict == IF Permission[c] = "deny" THEN "deny" ELSE verdicts[c]
<1>1. \A d \in ran : Allowed(d)
  BY DEF GatedCallsNeedApproval, Allowed
<1>2. CASE verdict = "none" /\ Permission[c] = "allow"
  <2>1. UNCHANGED awaiting /\ Execute(c, FALSE, k, back)
    BY <1>2, Zenon DEF RouteCall
  <2>2. /\ DispatchTypes' /\ JobInv' /\ BlockersAreGatedWork'
        /\ ran' \in {ran, ran \cup {c}}
    BY <2>1, ExecuteOK DEF DispatchTypes
  <2> QED
    BY <1>1, <1>2, <2>1, <2>2 DEF Allowed, HeldAreAsk
<1>3. CASE verdict = "none" /\ Permission[c] # "allow"
  <2>1. Hold(c, k, back) /\ Permission[c] = "ask"
    BY <1>3 DEF RouteCall
  <2>2. clock' \in Clocks /\ clock'.blockers = awaiting'
    BY <2>1, ClockOps DEF Hold
  <2> QED
    BY <1>1, <2>1, <2>2 DEF Hold, DispatchTypes, JobInv, BlockersAreGatedWork, HeldAreAsk,
       InFlight, NoJob, Backs
<1>4. CASE verdict # "none"
  <2>1. ApplyVerdict(c, verdict, k, back)
    BY <1>4 DEF RouteCall
  <2>2. /\ DispatchTypes' /\ JobInv' /\ BlockersAreGatedWork' /\ awaiting' = awaiting \ {c}
        /\ ran' \in {ran, ran \cup {c}} /\ (verdict # "allow" => ran' = ran)
    BY <2>1, ApplyVerdictOK
  <2>3. verdict = "allow" => Allowed(c)
    BY DEF KnownVerdictsLogged, Allowed
  <2> QED
    BY <1>1, <2>2, <2>3 DEF HeldAreAsk
<1> QED
  BY <1>2, <1>3, <1>4

-----------------------------------------------------------------------------
(* The session's log only grows, so what it once showed it shows for ever.  *)

LEMMA LogGrows ==
  ASSUME log \in Seq(Events), NEW x \in Events, log' \in {log, Append(log, x)}
  PROVE  log' \in Seq(Events) /\ \A e : In(e, log) => In(e, log')
<1>1. CASE log' = log
  BY <1>1
<1>2. CASE log' = Append(log, x)
  <2>1. log' \in Seq(Events) /\ Len(log') = Len(log) + 1
        /\ \A i \in 1..Len(log) : log'[i] = log[i]
    BY <1>2
  <2>2. DOMAIN log = 1..Len(log) /\ DOMAIN log' = 1..(Len(log) + 1) /\ Len(log) \in Nat
    BY <2>1
  <2> QED
    BY <2>1, <2>2 DEF In
<1> QED
  BY <1>1, <1>2

LEMMA EventShapes ==
  ASSUME NEW e \in Events
  PROVE  /\ e.kind \in {"use", "result", "confirm"} => e.id \in Calls
         /\ e.kind = "confirm" => e.verdict \in Verdict /\ e = Confirm(e.id, e.verdict)
  BY DEF Events, Use, Result, Confirm, Status, Event

(* What a step that only touches the log and bookkeeping preserves.         *)
LEMMA LoggedFactsKept ==
  ASSUME KnownVerdictsLogged, GatedCallsNeedApproval, OtherTypes,
         \A e : In(e, log) => In(e, log'),
         UNCHANGED <<verdicts, ran>>
  PROVE  KnownVerdictsLogged' /\ GatedCallsNeedApproval'
  BY DEF KnownVerdictsLogged, GatedCallsNeedApproval

LEMMA VerdictsAfterOK ==
  ASSUME OtherTypes, KnownVerdictsLogged, NEW h,
         \A e : In(e, h) => In(e, log)
  PROVE  /\ VerdictsAfter(h) \in [Calls -> Verdict \cup {"none"}]
         /\ \A c \in Calls : VerdictsAfter(h)[c] = "allow" => In(Confirm(c, "allow"), log)
<1> SUFFICES ASSUME NEW c \in Calls
             PROVE  /\ VerdictsAfter(h)[c] \in Verdict \cup {"none"}
                    /\ VerdictsAfter(h)[c] = "allow" => In(Confirm(c, "allow"), log)
  BY DEF VerdictsAfter
<1>1. CASE RecordedIn(h, c) = {}
  BY <1>1 DEF VerdictsAfter, OtherTypes, KnownVerdictsLogged
<1>2. CASE RecordedIn(h, c) # {}
  <2>1. VerdictsAfter(h)[c] \in RecordedIn(h, c)
    BY <1>2 DEF VerdictsAfter
  <2>2. \A v \in RecordedIn(h, c) : v \in Verdict /\ In(Confirm(c, v), h)
    BY DEF RecordedIn, In
  <2> QED
    BY <2>1, <2>2
<1> QED
  BY <1>1, <1>2

LEMMA HistoryInLog ==
  ASSUME log \in Seq(Events), NEW m \in Nat, NEW n \in Nat, n <= Len(log)
  PROVE  \A e : In(e, SubSeq(log, m + 1, n)) => In(e, log)
<1> SUFFICES ASSUME NEW e, NEW i \in DOMAIN SubSeq(log, m + 1, n), SubSeq(log, m + 1, n)[i] = e
             PROVE  In(e, log)
  BY DEF In
<1>1. i \in Nat /\ i >= 1 /\ m + i <= n /\ SubSeq(log, m + 1, n)[i] = log[m + i]
  OBVIOUS
<1>2. m + i \in DOMAIN log
  BY <1>1
<1> QED
  BY <1>1, <1>2 DEF In

-----------------------------------------------------------------------------
(* The steps of the loop that dispatch calls.                               *)

LEMMA RouteNextOK == IInv /\ RouteNext => IInv'
<1> SUFFICES ASSUME IInv, RouteNext PROVE IInv'
  OBVIOUS
<1>1. PICK c \in todo : todo' = todo \ {c} /\ RouteCall(c, clock, "route")
  BY DEF RouteNext
<1>2. /\ c \in Calls /\ clock \in Clocks /\ job = NoJob /\ clock.blockers = awaiting
      /\ "route" \in Backs
  BY DEF RouteNext, IInv, DispatchTypes, OtherTypes, JobInv, BlockersAreGatedWork, InFlight,
     NoJob, Backs
<1>3. /\ DispatchTypes' /\ JobInv' /\ BlockersAreGatedWork' /\ HeldAreAsk'
      /\ \A d \in ran' : Allowed(d)
  BY <1>1, <1>2, RouteCallOK DEF IInv
<1>4. UNCHANGED log
  BY DEF RouteNext, serverVars
<1>5. OtherTypes' /\ KnownVerdictsLogged' /\ GatedCallsNeedApproval'
  BY <1>1, <1>3, <1>4 DEF RouteNext, serverVars, IInv, OtherTypes, KnownVerdictsLogged,
     GatedCallsNeedApproval, Allowed
<1> QED
  BY <1>3, <1>5 DEF IInv

LEMMA ReleaseHeldOK == IInv /\ ReleaseHeld => IInv'
<1> SUFFICES ASSUME IInv, ReleaseHeld PROVE IInv'
  OBVIOUS
<1>1. PICK c \in awaiting : ApplyVerdict(c, verdicts[c], clock, "release")
  BY DEF ReleaseHeld
<1>2. /\ c \in Calls /\ clock \in Clocks /\ job = NoJob /\ clock.blockers = awaiting
      /\ "release" \in Backs
  BY DEF ReleaseHeld, IInv, DispatchTypes, JobInv, BlockersAreGatedWork, InFlight, NoJob, Backs
<1>3. /\ DispatchTypes' /\ JobInv' /\ BlockersAreGatedWork'
      /\ ran' \in {ran, ran \cup {c}} /\ (verdicts[c] # "allow" => ran' = ran)
      /\ awaiting' = awaiting \ {c}
  BY <1>1, <1>2, ApplyVerdictOK DEF IInv
<1>4. UNCHANGED log
  BY DEF ReleaseHeld, serverVars
<1>5. verdicts[c] = "allow" => Allowed(c)
  BY <1>2 DEF IInv, KnownVerdictsLogged, HeldAreAsk, Allowed
<1>6. OtherTypes' /\ KnownVerdictsLogged' /\ HeldAreAsk'
  BY <1>3, <1>4 DEF ReleaseHeld, serverVars, IInv, OtherTypes, KnownVerdictsLogged, HeldAreAsk
<1>7. GatedCallsNeedApproval'
  BY <1>3, <1>4, <1>5 DEF IInv, GatedCallsNeedApproval, Allowed
<1> QED
  BY <1>3, <1>6, <1>7 DEF IInv

LEMMA HandleEventOK == IInv /\ HandleEvent => IInv'
<1> SUFFICES ASSUME IInv, HandleEvent PROVE IInv'
  OBVIOUS
<1> DEFINE e == log[cursor + 1]
           k == NoteEvent(clock, e)
<1>1. e \in Events /\ In(e, log)
  BY DEF HandleEvent, IInv, OtherTypes, In
<1>2. /\ k \in Clocks /\ job = NoJob /\ k.blockers = awaiting /\ "stream" \in Backs
  BY NoteOps DEF HandleEvent, IInv, DispatchTypes, JobInv, BlockersAreGatedWork, InFlight,
     NoJob, Backs
<1>3. /\ cursor' = cursor + 1 /\ quiet' \in BOOLEAN /\ aborted' \in BOOLEAN
      /\ UNCHANGED <<log, faults, todo, unanswered, lastEnded, historyRead, iter, unposted>>
  BY DEF HandleEvent, serverVars, IInv, OtherTypes
<1>4. CASE e.kind = "use" /\ HandleUse(e.id, k)
  <2>1. e.id \in Calls /\ seen' = seen \cup {e.id} /\ UNCHANGED verdicts
    BY <1>1, <1>4, EventShapes DEF HandleUse
  <2>2. OtherTypes' /\ KnownVerdictsLogged'
    BY <1>3, <2>1 DEF IInv, OtherTypes, KnownVerdictsLogged
  <2>3. CASE RouteCall(e.id, k, "stream")
    <3>1. /\ DispatchTypes' /\ JobInv' /\ BlockersAreGatedWork' /\ HeldAreAsk'
          /\ \A d \in ran' : Allowed(d)
      BY <1>2, <2>1, <2>3, RouteCallOK DEF IInv
    <3> QED
      BY <1>3, <2>2, <3>1 DEF IInv, GatedCallsNeedApproval, Allowed
  <2>4. CASE Resume(k, "stream")
    BY <1>2, <1>3, <2>2, <2>4 DEF Resume, IInv, DispatchTypes, JobInv, BlockersAreGatedWork,
       HeldAreAsk, GatedCallsNeedApproval, InFlight, NoJob
  <2> QED
    BY <1>4, <2>3, <2>4 DEF HandleUse
<1>5. CASE e.kind = "confirm" /\ NoteConfirmation(e.id, e.verdict, k)
  <2>1. /\ e.id \in Calls /\ e.verdict \in Verdict /\ In(Confirm(e.id, e.verdict), log)
        /\ UNCHANGED seen /\ verdicts' = [verdicts EXCEPT ![e.id] = e.verdict]
    BY <1>1, <1>5, EventShapes DEF NoteConfirmation
  <2>2. OtherTypes'
    BY <1>3, <2>1 DEF IInv, OtherTypes
  <2>3. KnownVerdictsLogged'
    BY <1>3, <2>1 DEF IInv, KnownVerdictsLogged, OtherTypes
  <2>4. CASE e.id \in awaiting /\ ApplyVerdict(e.id, e.verdict, k, "stream")
    <3>1. /\ DispatchTypes' /\ JobInv' /\ BlockersAreGatedWork'
          /\ ran' \in {ran, ran \cup {e.id}} /\ (e.verdict # "allow" => ran' = ran)
          /\ awaiting' = awaiting \ {e.id}
      BY <1>2, <2>1, <2>4, ApplyVerdictOK DEF IInv
    <3>2. e.verdict = "allow" => Allowed(e.id)
      BY <2>1, <2>4 DEF IInv, HeldAreAsk, Allowed
    <3>3. HeldAreAsk'
      BY <3>1 DEF IInv, HeldAreAsk
    <3>4. GatedCallsNeedApproval'
      BY <1>3, <3>1, <3>2 DEF IInv, GatedCallsNeedApproval, Allowed
    <3> QED
      BY <2>2, <2>3, <3>1, <3>3, <3>4 DEF IInv
  <2>5. CASE e.id \notin awaiting /\ Resume(k, "stream")
    <3>1. UNCHANGED awaiting
      BY <2>5 DEF Resume
    <3> QED
      BY <1>2, <1>3, <2>2, <2>3, <2>5, <3>1 DEF Resume, IInv, DispatchTypes, JobInv,
         BlockersAreGatedWork, HeldAreAsk, GatedCallsNeedApproval, InFlight, NoJob
  <2> QED
    BY <1>5, <2>4, <2>5 DEF NoteConfirmation
<1>6. CASE e.kind = "result" /\ HandleResult(e.id, k)
  <2>1. e.id \in Calls
    BY <1>1, <1>6, EventShapes
  <2> QED
    BY <1>2, <1>3, <1>6, <2>1 DEF HandleResult, IInv, DispatchTypes, OtherTypes, JobInv,
       BlockersAreGatedWork, KnownVerdictsLogged, HeldAreAsk, GatedCallsNeedApproval, InFlight,
       NoJob
<1>7. CASE /\ \E back \in {"stream", "stopped"} : Resume(k, back)
           /\ UNCHANGED <<seen, verdicts>>
  <2>1. UNCHANGED awaiting
    BY <1>7 DEF Resume
  <2> QED
    BY <1>2, <1>3, <1>7, <2>1 DEF Resume, IInv, DispatchTypes, OtherTypes, JobInv,
       BlockersAreGatedWork, KnownVerdictsLogged, HeldAreAsk, GatedCallsNeedApproval, InFlight,
       NoJob
<1> QED
  BY <1>4, <1>5, <1>6, <1>7 DEF HandleEvent

-----------------------------------------------------------------------------
(* Every other step changes little of what the invariant is about.          *)

LEMMA HistoryStepsOK == IInv /\ (ListSucceeds \/ ListFails) => IInv'
<1> SUFFICES ASSUME IInv, ListSucceeds \/ ListFails PROVE IInv'
  OBVIOUS
<1>1. PICK h : /\ \A e : In(e, h) => In(e, log)
               /\ seen' \subseteq Calls /\ answered' \subseteq Calls
               /\ verdicts' = VerdictsAfter(h)
               /\ todo' \subseteq Calls /\ unanswered' \subseteq Calls
               /\ lastEnded' \in BOOLEAN /\ quiet' \in BOOLEAN /\ historyRead' \in BOOLEAN
  <2>1. CASE ListSucceeds
    <3>1. PICK from \in 0..MaxMissing :
            LET h == SubSeq(log, from + 1, Len(log))
            IN  /\ seen' = seen \cup UsesIn(h)
                /\ answered' = answered \cup AnsweredIn(h)
                /\ verdicts' = VerdictsAfter(h)
                /\ todo' = PendingIn(h) \ (answered \cup AnsweredIn(h))
                /\ unanswered' = PendingIn(h) \ (answered \cup AnsweredIn(h))
                /\ lastEnded' = EndsTurn(h) /\ quiet' = EndsTurn(h)
      BY <2>1 DEF ListSucceeds
    <3>2. \A e : In(e, SubSeq(log, from + 1, Len(log))) => In(e, log)
      BY HistoryInLog DEF IInv, OtherTypes
    <3> QED
      BY <2>1, <3>1, <3>2 DEF ListSucceeds, UsesIn, AnsweredIn, PendingIn, EndsTurn, IInv,
         DispatchTypes, OtherTypes
  <2>2. CASE ListFails
    <3>1. PICK n \in 0..Len(log) :
            LET h == SubSeq(log, 1, n)
            IN  /\ seen' = (seen \cup UsesIn(h)) \ PendingIn(h)
                /\ answered' = answered \cup AnsweredIn(h)
                /\ verdicts' = VerdictsAfter(h)
      BY <2>2 DEF ListFails
    <3>2. n \in Nat /\ n <= Len(log)
      BY DEF IInv, OtherTypes
    <3>3. \A e : In(e, SubSeq(log, 0 + 1, n)) => In(e, log)
      BY <3>2, HistoryInLog DEF IInv, OtherTypes
    <3> QED
      BY <2>2, <3>1, <3>3 DEF ListFails, UsesIn, AnsweredIn, PendingIn, ghostVars, IInv,
         DispatchTypes, OtherTypes
  <2> QED
    BY <2>1, <2>2
<1>2. /\ pc = "list" /\ pc' \in {"route", "stream"} /\ faults' \in Nat
      /\ UNCHANGED <<log, cursor, job, awaiting, aborted, results, iter, ran, passRuns, unposted>>
  BY DEF ListSucceeds, ListFails, Fault, serverVars, ghostVars, IInv, OtherTypes
<1>3. clock' \in Clocks /\ clock'.blockers = clock.blockers
  <2>1. clock' = Disarm(clock) \/ clock' = clock
    BY DEF ListSucceeds, ListFails
  <2> QED
    BY <2>1, CountdownOps DEF IInv, DispatchTypes
<1>4. /\ verdicts' \in [Calls -> Verdict \cup {"none"}]
      /\ KnownVerdictsLogged'
  BY <1>1, <1>2, VerdictsAfterOK DEF IInv, KnownVerdictsLogged
<1>5. DispatchTypes' /\ OtherTypes'
  BY <1>1, <1>2, <1>3, <1>4 DEF IInv, DispatchTypes, OtherTypes
<1>6. JobInv' /\ BlockersAreGatedWork' /\ HeldAreAsk' /\ GatedCallsNeedApproval'
  BY <1>2, <1>3 DEF IInv, JobInv, BlockersAreGatedWork, InFlight, HeldAreAsk,
     GatedCallsNeedApproval
<1> QED
  BY <1>4, <1>5, <1>6 DEF IInv

(* The steps that end a call's dispatch or answer it.                       *)
LEMMA JobStepsOK ==
  IInv /\ (SendSucceeds \/ SendGivesUp \/ AbortUnwinds) => IInv'
<1> SUFFICES ASSUME IInv, SendSucceeds \/ SendGivesUp \/ AbortUnwinds PROVE IInv'
  OBVIOUS
<1>1. /\ job' = NoJob /\ pc' \in Backs \cup {"stopped"}
      /\ clock' = IF pc = "send" /\ job.approved THEN Unblock(clock, job.id) ELSE clock
      /\ UNCHANGED <<awaiting, verdicts, ran>>
  BY DEF SendSucceeds, SendGivesUp, AbortUnwinds, JobDone, Backs, gateVars, ghostVars, IInv,
     DispatchTypes, Jobs
<1>2. clock' \in Clocks /\ clock'.blockers = awaiting
  <2>1. CASE pc = "send" /\ job.approved
    <3>1. job.id \in Calls /\ job.id \notin awaiting /\ clock.blockers = awaiting \cup {job.id}
      BY <2>1 DEF IInv, JobInv, BlockersAreGatedWork, InFlight
    <3>2. clock' = Unblock(clock, job.id) /\ clock \in Clocks
      BY <1>1, <2>1 DEF IInv, DispatchTypes
    <3>3. clock' \in Clocks /\ clock'.blockers = clock.blockers \ {job.id}
      BY <3>1, <3>2, ClockOps
    <3> QED
      BY <3>1, <3>3
  <2>2. CASE pc = "send" /\ ~job.approved
    <3>1. clock' = clock /\ clock.blockers = awaiting
      BY <1>1, <2>2 DEF IInv, BlockersAreGatedWork
    <3> QED
      BY <3>1 DEF IInv, DispatchTypes
  <2>3. CASE pc # "send"
    <3>1. pc \notin {"tool", "send"}
      BY <2>3 DEF SendSucceeds, SendGivesUp, AbortUnwinds
    <3>2. clock' = clock /\ clock.blockers = awaiting
      BY <1>1, <2>3, <3>1 DEF IInv, BlockersAreGatedWork, InFlight
    <3> QED
      BY <3>2 DEF IInv, DispatchTypes
  <2> QED
    BY <2>1, <2>2, <2>3
<1>3. pc = "send" => job.id \in Calls
  BY DEF IInv, JobInv
<1>4. log' \in Seq(Events) /\ \A e : In(e, log) => In(e, log')
  <2>1. CASE SendSucceeds
    <3>1. Result(job.id) \in Events /\ log' \in {log, Append(log, Result(job.id))}
      BY <2>1, <1>3 DEF SendSucceeds, Post, Events
    <3> QED
      BY <3>1, LogGrows DEF IInv, OtherTypes
  <2>2. CASE SendGivesUp \/ AbortUnwinds
    BY <2>2 DEF SendGivesUp, AbortUnwinds, serverVars, IInv, OtherTypes
  <2> QED
    BY <2>1, <2>2
<1>5. /\ results' \in Seq([id : Calls, posted : BOOLEAN]) /\ answered' \subseteq Calls
      /\ unposted' \subseteq Calls
  <2>1. CASE SendSucceeds
    <3>1. /\ job.id \in Calls /\ results' = Append(results, [id |-> job.id, posted |-> TRUE])
          /\ answered' = answered \cup {job.id} /\ unposted' = unposted \ {job.id}
      BY <2>1, <1>3 DEF SendSucceeds, JobDone, Surfaced
    <3> QED
      BY <3>1 DEF IInv, DispatchTypes, OtherTypes
  <2>2. CASE SendGivesUp
    <3>1. /\ job.id \in Calls /\ results' = Append(results, [id |-> job.id, posted |-> FALSE])
          /\ answered' = answered /\ unposted' = unposted \cup {job.id}
      BY <2>2, <1>3 DEF SendGivesUp, JobDone, Surfaced, gateVars
    <3> QED
      BY <3>1 DEF IInv, DispatchTypes, OtherTypes
  <2>3. CASE AbortUnwinds
    BY <2>3 DEF AbortUnwinds, gateVars, ghostVars, IInv, DispatchTypes, OtherTypes
  <2> QED
    BY <2>1, <2>2, <2>3
<1>6. DispatchTypes' /\ OtherTypes'
  <2>1. NoJob \in Jobs
    BY DEF Jobs, NoJob
  <2>2. passRuns' = passRuns /\ faults' \in Nat
    <3>1. passRuns' = passRuns /\ faults' \in {faults, faults + 1}
      BY DEF SendSucceeds, SendGivesUp, AbortUnwinds, Fault, ghostVars
    <3> QED
      BY <3>1 DEF IInv, OtherTypes
  <2>3. UNCHANGED <<cursor, todo, unanswered, lastEnded, historyRead, seen, aborted, iter, quiet>>
    BY DEF SendSucceeds, SendGivesUp, AbortUnwinds, gateVars, ghostVars
  <2>4. DispatchTypes'
    BY <1>1, <1>2, <1>5, <2>1, <2>2 DEF IInv, DispatchTypes, Backs
  <2>5. OtherTypes'
    BY <1>1, <1>4, <1>5, <2>2, <2>3 DEF IInv, OtherTypes
  <2> QED
    BY <2>4, <2>5
<1>7. KnownVerdictsLogged' /\ GatedCallsNeedApproval'
  BY <1>1, <1>4, LoggedFactsKept DEF IInv
<1>8. JobInv' /\ BlockersAreGatedWork' /\ HeldAreAsk'
  BY <1>1, <1>2 DEF IInv, JobInv, BlockersAreGatedWork, HeldAreAsk, NoJob, Backs
<1> QED
  BY <1>6, <1>7, <1>8 DEF IInv

(* Session events and a send whose answer is lost only extend the log.      *)
LEMMA LogStepsOK ==
  ASSUME IInv, Environment \/ \E reached \in BOOLEAN : SendFails(reached)
  PROVE  IInv'
<1>1. /\ UNCHANGED <<loopVars, gateVars, clock, aborted, results, iter, ghostVars>>
      /\ faults' \in Nat
  BY DEF Environment, AgentCallsTool, OtherClientAnswers, UserConfirms, SessionStatus, Append1,
     SendFails, Fault, IInv, OtherTypes
<1>2. PICK x \in Events : log' \in {log, Append(log, x)}
  <2>1. CASE Environment
    BY <2>1 DEF Environment, AgentCallsTool, OtherClientAnswers, UserConfirms, SessionStatus,
       Append1, Events
  <2>2. CASE \E reached \in BOOLEAN : SendFails(reached)
    <3>1. job.id \in Calls
      BY <2>2 DEF SendFails, IInv, JobInv
    <3>2. Result(job.id) \in Events
      BY <3>1 DEF Events
    <3>3. log' \in {log, Append(log, Result(job.id))}
      BY <2>2 DEF SendFails, Post
    <3> QED
      BY <3>2, <3>3
  <2> QED
    BY <2>1, <2>2
<1>3. log' \in Seq(Events) /\ \A e : In(e, log) => In(e, log')
  BY <1>2, LogGrows DEF IInv, OtherTypes
<1>4. KnownVerdictsLogged' /\ GatedCallsNeedApproval'
  BY <1>1, <1>3, LoggedFactsKept DEF IInv, gateVars, ghostVars
<1> QED
  BY <1>1, <1>3, <1>4 DEF loopVars, gateVars, ghostVars, IInv, DispatchTypes, OtherTypes, JobInv,
     BlockersAreGatedWork, InFlight, HeldAreAsk

(* The rest moves a control point, re-arms the clock or empties a queue.    *)
LEMMA QuietStepsOK ==
  ASSUME IInv,
         \/ Attach \/ \E fatal \in BOOLEAN : AttachFails(fatal)
         \/ RoutePassDone \/ Settle \/ Disconnect \/ Reconnect \/ ToolReturns
         \/ IdleExpires \/ ExternalAbort
         \/ IteratorStep \/ ConsumerBreaks
         \/ UNCHANGED vars
  PROVE  IInv'
<1>1. UNCHANGED <<log, job, answered, awaiting, verdicts, ran, seen, unposted>>
  BY DEF Attach, AttachFails, RoutePassDone, Settle, Disconnect, Reconnect, ToolReturns,
     IdleExpires, ExternalAbort, IteratorStep, Yield, Phase1Ends, Phase2Ends, CloseAfterBreak,
     ConsumerBreaks, Finally, vars, serverVars, loopVars, gateVars, ghostVars
<1>2. clock' \in Clocks /\ clock'.blockers = clock.blockers
  <2>1. clock' \in {clock, Arm(clock), Disarm(clock), [clock EXCEPT !.timer = FALSE]}
    BY DEF Attach, AttachFails, RoutePassDone, Settle, Disconnect, Reconnect, ToolReturns,
       IdleExpires, ExternalAbort, IteratorStep, Yield, Phase1Ends, Phase2Ends,
       CloseAfterBreak, ConsumerBreaks, Finally, vars
  <2> QED
    BY <2>1, CountdownOps DEF IInv, DispatchTypes
<1>3. \/ pc' = pc
      \/ pc \notin {"tool", "send"} /\ pc' \notin {"tool", "send"}
      \/ pc = "tool" /\ pc' = "send"
  BY DEF Attach, AttachFails, RoutePassDone, Settle, Disconnect, Reconnect, ToolReturns,
     IdleExpires, ExternalAbort, IteratorStep, Yield, Phase1Ends, Phase2Ends, CloseAfterBreak,
     ConsumerBreaks, Finally, vars, loopVars
<1>4. pc' \in {"connect", "list", "route", "release", "stream", "tool", "send", "backoff",
              "stopped"}
  BY DEF Attach, AttachFails, RoutePassDone, Settle, Disconnect, Reconnect, ToolReturns,
     IdleExpires, ExternalAbort, IteratorStep, Yield, Phase1Ends, Phase2Ends, CloseAfterBreak,
     ConsumerBreaks, Finally, vars, loopVars, IInv, DispatchTypes
<1>5. results' \in Seq([id : Calls, posted : BOOLEAN]) /\ passRuns' \in [Calls -> Nat]
  <2>1. CASE Attach
    BY <2>1 DEF Attach, IInv, DispatchTypes
  <2>2. CASE Yield
    BY <2>2 DEF Yield, ghostVars, IInv, DispatchTypes
  <2>3. CASE ~Attach /\ ~Yield
    BY <2>3 DEF AttachFails, RoutePassDone, Settle, Disconnect, Reconnect, ToolReturns,
       IdleExpires, ExternalAbort, IteratorStep, Phase1Ends, Phase2Ends, CloseAfterBreak,
       ConsumerBreaks, Finally, vars, ghostVars, IInv, DispatchTypes
  <2> QED
    BY <2>1, <2>2, <2>3
<1>6. DispatchTypes'
  BY <1>1, <1>2, <1>4, <1>5 DEF IInv, DispatchTypes
<1>7. OtherTypes'
  <2>1. UNCHANGED todo /\ cursor' \in Nat /\ faults' \in Nat
    BY DEF Attach, AttachFails, RoutePassDone, Settle, Disconnect, Reconnect, ToolReturns,
       IdleExpires, ExternalAbort, IteratorStep, Yield, Phase1Ends, Phase2Ends,
       CloseAfterBreak, ConsumerBreaks, Finally, Fault, vars, loopVars, IInv, OtherTypes
  <2>2. /\ unanswered' \in {unanswered, {}} /\ lastEnded' \in {lastEnded, FALSE}
        /\ historyRead' \in {historyRead, FALSE} /\ quiet' = quiet
    BY DEF Attach, AttachFails, RoutePassDone, Settle, Disconnect, Reconnect, ToolReturns,
       IdleExpires, ExternalAbort, IteratorStep, Yield, Phase1Ends, Phase2Ends,
       CloseAfterBreak, ConsumerBreaks, Finally, vars, loopVars, ghostVars
  <2>3. aborted' \in BOOLEAN
    BY DEF Attach, AttachFails, RoutePassDone, Settle, Disconnect, Reconnect, ToolReturns,
       IdleExpires, ExternalAbort, IteratorStep, Yield, Phase1Ends, Phase2Ends,
       CloseAfterBreak, ConsumerBreaks, Finally, vars, IInv, OtherTypes
  <2>4. iter' \in {iter, "phase2", "done", "broken", "closed"}
    BY DEF Attach, AttachFails, RoutePassDone, Settle, Disconnect, Reconnect, ToolReturns,
       IdleExpires, ExternalAbort, IteratorStep, Yield, Phase1Ends, Phase2Ends,
       CloseAfterBreak, ConsumerBreaks, Finally, vars
  <2> QED
    BY <1>1, <2>1, <2>2, <2>3, <2>4 DEF IInv, OtherTypes
<1>8. JobInv' /\ BlockersAreGatedWork'
  BY <1>1, <1>2, <1>3 DEF IInv, JobInv, BlockersAreGatedWork, InFlight
<1>9. KnownVerdictsLogged' /\ HeldAreAsk' /\ GatedCallsNeedApproval'
  BY <1>1 DEF IInv, KnownVerdictsLogged, HeldAreAsk, GatedCallsNeedApproval
<1> QED
  BY <1>6, <1>7, <1>8, <1>9 DEF IInv

-----------------------------------------------------------------------------
LEMMA InitOK == Init => IInv
<1> SUFFICES ASSUME Init PROVE IInv
  OBVIOUS
<1>1. DispatchTypes /\ OtherTypes
  <2>1. clock \in Clocks /\ job \in Jobs
    BY DEF Init, Clocks, Jobs, NoJob
  <2>2. passRuns \in [Calls -> Nat] /\ verdicts \in [Calls -> Verdict \cup {"none"}]
    BY DEF Init
  <2>3. <<>> \in Seq(Events) /\ <<>> \in Seq([id : Calls, posted : BOOLEAN])
    OBVIOUS
  <2>4. DispatchTypes
    BY <2>1, <2>2, <2>3 DEF Init, DispatchTypes
  <2>5. OtherTypes
    BY <2>2, <2>3 DEF Init, OtherTypes
  <2> QED
    BY <2>4, <2>5
<1>2. JobInv /\ BlockersAreGatedWork /\ KnownVerdictsLogged /\ HeldAreAsk /\ GatedCallsNeedApproval
  BY DEF Init, JobInv, NoJob, BlockersAreGatedWork, InFlight, KnownVerdictsLogged, HeldAreAsk,
     GatedCallsNeedApproval
<1> QED
  BY <1>1, <1>2 DEF IInv

LEMMA NextOK == IInv /\ [Next]_vars => IInv'
  BY RouteNextOK, ReleaseHeldOK, HandleEventOK, HistoryStepsOK, JobStepsOK, LogStepsOK,
     QuietStepsOK
  DEF Next, LoopStep, LoopFault

(* IInv is inductive: the basis of the theorems that follow.                *)
THEOREM Invariance == Spec => []IInv
  BY InitOK, NextOK, PTL DEF Spec

(* Every variable keeps its type, for any set of calls and any bounds.      *)
THEOREM TypeCorrectness == Spec => []TypeOK
<1>1. IInv => TypeOK
  BY TypesSplit DEF IInv
<1> QED
  BY Invariance, <1>1, PTL

(* No gated call is ever executed without the user's logged approval.       *)
THEOREM GatingIsSafe == Spec => []GatedCallsNeedApproval
<1>1. IInv => GatedCallsNeedApproval
  BY DEF IInv
<1> QED
  BY Invariance, <1>1, PTL

(* The idle clock's blockers never leak and are never missing.              *)
THEOREM BlockersAreExact == Spec => []BlockersAreGatedWork
<1>1. IInv => BlockersAreGatedWork
  BY DEF IInv
<1> QED
  BY Invariance, <1>1, PTL

-----------------------------------------------------------------------------
(* The countdown.  Why it only runs over a quiet session: a pending         *)
(* countdown remembers a turn that has ended and still has; a reconcile     *)
(* pass starts with the clock disarmed and leaves it so until it settles.   *)

Reconciling ==
  \/ pc \in {"route", "release"}
  \/ pc \in {"tool", "send"} /\ job.back # "stream"

QuietInv ==
  /\ CountdownOnlyWhenQuiet
  /\ clock.pending => quiet
  /\ Reconciling => ~clock.timer /\ ~clock.pending
  /\ lastEnded => quiet /\ (Reconciling \/ pc = "stopped")

LEMMA TimerOps ==
  ASSUME NEW k \in Clocks
  PROVE  /\ Arm(k).timer => k.timer \/ k.blockers = {}
         /\ ~Disarm(k).timer /\ ~Disarm(k).pending
         /\ [k EXCEPT !.timer = FALSE].pending = k.pending
         /\ ~[k EXCEPT !.timer = FALSE].timer
         /\ \A c \in Calls : /\ ~Block(k, c).timer
                             /\ Block(k, c).pending => k.pending \/ k.timer
                             /\ Unblock(k, c).pending => k.pending
                             /\ Unblock(k, c).timer =>
                                  k.timer \/ (k.pending /\ Unblock(k, c).blockers = {})
  BY DEF Clocks, Arm, Disarm, Block, Unblock

(* What dispatching a call on a clock k without a running timer may do.     *)
Calm(k, back) ==
  /\ clock'.pending => k.pending
  /\ clock'.timer => k.pending /\ clock'.blockers = {} /\ pc' = back
  /\ pc' = back \/ (pc' = "tool" /\ job'.back = back)

LEMMA ExecuteCalm ==
  ASSUME NEW c \in Calls, NEW ok \in BOOLEAN, NEW k \in Clocks, NEW back, ~k.timer,
         Execute(c, ok, k, back)
  PROVE  Calm(k, back)
<1>1. /\ Disarm(k) \in Clocks /\ ~Disarm(k).timer /\ ~Disarm(k).pending
  BY CountdownOps, TimerOps
<1>2. CASE c \in answered
  <2>1. clock' \in {k, Unblock(k, c)} /\ pc' = back
    BY <1>2 DEF Execute
  <2> QED
    BY <2>1, TimerOps DEF Calm
<1>3. CASE c \notin answered /\ c \notin Owned
  <2>1. clock' \in {k, Unblock(Disarm(k), c)} /\ pc' = back
    BY <1>3 DEF Execute
  <2> QED
    BY <1>1, <2>1, TimerOps DEF Calm
<1>4. CASE c \notin answered /\ c \in Owned
  <2>1. clock' = k /\ pc' = "tool" /\ job' = [id |-> c, approved |-> ok, back |-> back]
    BY <1>4 DEF Execute
  <2>2. job'.back = back
    BY <2>1
  <2> QED
    BY <2>1, <2>2 DEF Calm
<1> QED
  BY <1>2, <1>3, <1>4

LEMMA ApplyVerdictCalm ==
  ASSUME NEW c \in Calls, NEW v, NEW k \in Clocks, NEW back, ~k.timer,
         ApplyVerdict(c, v, k, back)
  PROVE  Calm(k, back)
<1>1. CASE v = "allow"
  <2> DEFINE kk == IF c \in awaiting THEN k ELSE Block(k, c)
  <2>1. kk \in Clocks /\ ~kk.timer /\ (kk.pending => k.pending)
    BY ClockOps, TimerOps
  <2>2. Execute(c, TRUE, kk, back)
    BY <1>1 DEF ApplyVerdict
  <2>3. Calm(kk, back)
    BY <2>1, <2>2, ExecuteCalm
  <2> QED
    BY <2>1, <2>3 DEF Calm
<1>2. CASE v # "allow"
  <2>1. clock' \in {k, Unblock(k, c)} /\ pc' = back
    BY <1>2 DEF ApplyVerdict
  <2> QED
    BY <2>1, TimerOps DEF Calm
<1> QED
  BY <1>1, <1>2

LEMMA RouteCallCalm ==
  ASSUME NEW c \in Calls, NEW k \in Clocks, NEW back, ~k.timer, RouteCall(c, k, back)
  PROVE  Calm(k, back)
<1> DEFINE verdict == IF Permission[c] = "deny" THEN "deny" ELSE verdicts[c]
<1>1. CASE verdict = "none" /\ Permission[c] = "allow"
  <2>1. Execute(c, FALSE, k, back)
    BY <1>1, Zenon DEF RouteCall
  <2> QED
    BY <2>1, ExecuteCalm
<1>2. CASE verdict = "none" /\ Permission[c] # "allow"
  <2>1. Hold(c, k, back)
    BY <1>2 DEF RouteCall
  <2> QED
    <3>1. clock' \in {k, Block(k, c)} /\ pc' = back
      BY <2>1 DEF Hold
    <3> QED
      BY <3>1, TimerOps DEF Calm
<1>3. CASE verdict # "none"
  <2>1. ApplyVerdict(c, verdict, k, back)
    BY <1>3 DEF RouteCall
  <2> QED
    BY <2>1, ApplyVerdictCalm
<1> QED
  BY <1>1, <1>2, <1>3

(* A calm dispatch keeps the countdown right.                               *)
LEMMA CalmKeepsQuiet ==
  ASSUME NEW k, NEW back \in Backs, Calm(k, back), BlockersAreGatedWork',
         k.pending => quiet', back # "stream" => ~k.pending,
         lastEnded' => quiet' /\ back # "stream"
  PROVE  QuietInv'
<1>1. clock'.timer => awaiting' = {} /\ InFlight' = {} /\ quiet'
  BY DEF Calm, BlockersAreGatedWork, InFlight, Backs
<1>2. Reconciling' <=> back # "stream"
  BY DEF Calm, Reconciling, Backs
<1> QED
  BY <1>1, <1>2 DEF Calm, QuietInv, CountdownOnlyWhenQuiet

LEMMA RoutingKeepsQuiet ==
  ASSUME IInv, IInv', QuietInv, RouteNext \/ ReleaseHeld
  PROVE  QuietInv'
<1>1. clock \in Clocks /\ ~clock.timer /\ ~clock.pending /\ UNCHANGED <<lastEnded, quiet>>
  BY DEF RouteNext, ReleaseHeld, IInv, DispatchTypes, QuietInv, Reconciling
<1>2. PICK back \in {"route", "release"} : Calm(clock, back)
  <2>1. CASE RouteNext
    <3>1. PICK c \in Calls : RouteCall(c, clock, "route")
      BY <2>1 DEF RouteNext, IInv, OtherTypes
    <3> QED
      BY <1>1, <3>1, RouteCallCalm
  <2>2. CASE ReleaseHeld
    <3>1. PICK c \in Calls : ApplyVerdict(c, verdicts[c], clock, "release")
      BY <2>2 DEF ReleaseHeld, IInv, DispatchTypes
    <3> QED
      BY <1>1, <3>1, ApplyVerdictCalm
  <2> QED
    BY <2>1, <2>2
<1>3. BlockersAreGatedWork' /\ (lastEnded' => quiet') /\ back \in Backs /\ back # "stream"
  BY <1>1, <1>2 DEF IInv, QuietInv, Backs
<1> QED
  BY <1>1, <1>2, <1>3, CalmKeepsQuiet

LEMMA EventKeepsQuiet ==
  ASSUME IInv, IInv', QuietInv, HandleEvent
  PROVE  QuietInv'
<1> DEFINE e == log[cursor + 1]
           k == NoteEvent(clock, e)
<1>1. /\ e \in Events /\ k \in Clocks /\ pc = "stream" /\ job = NoJob
      /\ clock.blockers = awaiting /\ clock \in Clocks
  BY NoteOps DEF HandleEvent, IInv, OtherTypes, DispatchTypes, JobInv, BlockersAreGatedWork,
     InFlight, NoJob
<1>2. /\ quiet' = (IF e.kind = "confirm" THEN quiet ELSE e.kind = "ended")
      /\ ~lastEnded /\ ~lastEnded'
  BY <1>1 DEF HandleEvent, QuietInv, Reconciling
<1>3. /\ k.pending => quiet'
      /\ k.timer => quiet' /\ awaiting = {}
  <2>1. CASE e.kind = "confirm"
    BY <1>2, <2>1 DEF NoteEvent, QuietInv, CountdownOnlyWhenQuiet
  <2>2. CASE e.kind = "ended"
    <3>1. k = Arm(clock) /\ quiet'
      BY <1>2, <2>2 DEF NoteEvent
    <3> QED
      BY <1>1, <3>1, TimerOps DEF QuietInv, CountdownOnlyWhenQuiet
  <2>3. CASE e.kind \notin {"confirm", "ended"}
    <3>1. k = Disarm(clock)
      BY <2>3 DEF NoteEvent
    <3> QED
      BY <1>1, <3>1, TimerOps
  <2> QED
    BY <2>1, <2>2, <2>3
<1>4. CASE Calm(k, "stream") /\ ~k.timer
  BY <1>2, <1>3, <1>4, CalmKeepsQuiet DEF IInv, Backs
<1>5. CASE clock' = k /\ pc' \in {"stream", "stopped"} /\ awaiting' = awaiting
  BY <1>2, <1>3, <1>5 DEF QuietInv, CountdownOnlyWhenQuiet, InFlight, Reconciling
<1>6. CASE e.kind = "use" /\ HandleUse(e.id, k)
  <2>1. e.id \in Calls /\ ~k.timer
    BY <1>1, <1>6, EventShapes, TimerOps DEF NoteEvent
  <2>2. CASE RouteCall(e.id, k, "stream")
    BY <1>1, <1>4, <2>1, <2>2, RouteCallCalm
  <2>3. CASE Resume(k, "stream")
    BY <1>5, <2>3 DEF Resume
  <2> QED
    BY <1>6, <2>2, <2>3 DEF HandleUse
<1>7. CASE e.kind = "confirm" /\ NoteConfirmation(e.id, e.verdict, k)
  <2>1. CASE e.id \in awaiting /\ ApplyVerdict(e.id, e.verdict, k, "stream")
    <3>1. e.id \in Calls /\ ~k.timer
      BY <1>1, <1>3, <1>7, <2>1, EventShapes
    <3> QED
      BY <1>1, <1>4, <2>1, <3>1, ApplyVerdictCalm
  <2>2. CASE Resume(k, "stream")
    BY <1>5, <2>2 DEF Resume
  <2> QED
    BY <1>7, <2>1, <2>2 DEF NoteConfirmation
<1>8. CASE HandleResult(e.id, k) \/ Resume(k, "stream") \/ Resume(k, "stopped")
  BY <1>5, <1>8 DEF HandleResult, Resume
<1> QED
  BY <1>6, <1>7, <1>8 DEF HandleEvent

LEMMA HistoryKeepsQuiet ==
  ASSUME IInv, IInv', QuietInv, ListSucceeds \/ ListFails
  PROVE  QuietInv'
<1>1. clock \in Clocks /\ pc = "list" /\ ~lastEnded /\ UNCHANGED <<job, awaiting>>
  BY DEF ListSucceeds, ListFails, IInv, DispatchTypes, QuietInv, Reconciling
<1>2. CASE ListSucceeds
  <2>1. /\ clock' = Disarm(clock) /\ pc' = "route" /\ lastEnded' = quiet'
    BY <1>2 DEF ListSucceeds
  <2>2. ~clock'.timer /\ ~clock'.pending
    BY <1>1, <2>1, TimerOps
  <2> QED
    BY <2>1, <2>2 DEF QuietInv, CountdownOnlyWhenQuiet, Reconciling
<1>3. CASE ListFails
  BY <1>1, <1>3 DEF ListFails, ghostVars, QuietInv, CountdownOnlyWhenQuiet, InFlight, Reconciling
<1> QED
  BY <1>2, <1>3

(* The end of a job unblocks the clock; the countdown it may resume was     *)
(* pending over a turn that has ended, with nothing else held.              *)
LEMMA JobEndKeepsQuiet ==
  ASSUME IInv, IInv', QuietInv, SendSucceeds \/ SendGivesUp \/ AbortUnwinds
  PROVE  QuietInv'
<1>1. /\ pc \in {"connect", "list", "stream", "backoff", "send"}
      /\ clock \in Clocks /\ UNCHANGED <<lastEnded, quiet, awaiting>>
      /\ pc' = job.back \/ pc' = "stopped"
      /\ pc' \notin {"tool", "send"}
      /\ pc = "send" \/ pc' = "stopped"
      /\ pc = "send" => job.id \in Calls /\ job.back \in Backs
  BY DEF SendSucceeds, SendGivesUp, AbortUnwinds, JobDone, gateVars, ghostVars, IInv,
     DispatchTypes, Jobs, JobInv, Backs
<1>2. clock' = IF pc = "send" /\ job.approved THEN Unblock(clock, job.id) ELSE clock
  BY DEF SendSucceeds, SendGivesUp, AbortUnwinds, JobDone
<1>3. /\ clock'.pending => clock.pending
      /\ clock'.timer => clock.timer \/ (clock.pending /\ clock'.blockers = {})
  <2>1. CASE pc = "send" /\ job.approved
    <3>1. job.id \in Calls /\ clock' = Unblock(clock, job.id)
      BY <1>1, <1>2, <2>1
    <3>2. /\ Unblock(clock, job.id).pending => clock.pending
          /\ Unblock(clock, job.id).timer =>
               clock.timer \/ (clock.pending /\ Unblock(clock, job.id).blockers = {})
      BY <1>1, <3>1, TimerOps
    <3> QED
      BY <3>1, <3>2
  <2>2. CASE ~(pc = "send" /\ job.approved)
    <3>1. clock' = clock
      BY <1>2, <2>2
    <3> QED
      BY <3>1
  <2> QED
    BY <2>1, <2>2
<1>4. InFlight' = {}
  BY <1>1 DEF InFlight, Backs
<1>5. clock'.timer => awaiting' = {} /\ quiet'
  BY <1>1, <1>3 DEF QuietInv, CountdownOnlyWhenQuiet, IInv, BlockersAreGatedWork
<1>6. Reconciling' => Reconciling
  BY <1>1 DEF Reconciling, Backs
<1>7. lastEnded' => quiet' /\ (Reconciling' \/ pc' = "stopped")
  BY <1>1 DEF QuietInv, Reconciling, Backs
<1> QED
  BY <1>3, <1>4, <1>5, <1>6, <1>7, <1>1 DEF QuietInv, CountdownOnlyWhenQuiet

LEMMA SettleKeepsQuiet ==
  ASSUME IInv, QuietInv, Settle
  PROVE  QuietInv'
<1>1. /\ clock \in Clocks /\ clock.blockers = awaiting /\ ~clock.timer /\ ~clock.pending
      /\ pc = "release" /\ pc' = "stream" /\ ~lastEnded' /\ UNCHANGED <<quiet, awaiting>>
  BY DEF Settle, gateVars, ghostVars, IInv, DispatchTypes, BlockersAreGatedWork, JobInv, NoJob,
     QuietInv, Reconciling
<1>2. CASE lastEnded /\ Outstanding = {}
  <2>1. clock' = Arm(clock) /\ quiet
    BY <1>2 DEF Settle, QuietInv
  <2> QED
    BY <1>1, <2>1, TimerOps DEF QuietInv, CountdownOnlyWhenQuiet, InFlight, Reconciling
<1>3. CASE ~(lastEnded /\ Outstanding = {})
  <2>1. clock' = Disarm(clock)
    BY <1>3 DEF Settle
  <2> QED
    BY <1>1, <2>1, TimerOps DEF QuietInv, CountdownOnlyWhenQuiet, InFlight, Reconciling
<1> QED
  BY <1>2, <1>3

(* The steps left only stop the countdown or leave it alone.                *)
LEMMA OtherStepsKeepQuiet ==
  ASSUME IInv, QuietInv,
         \/ Environment \/ \E reached \in BOOLEAN : SendFails(reached)
         \/ Attach \/ \E fatal \in BOOLEAN : AttachFails(fatal)
         \/ RoutePassDone \/ Disconnect \/ Reconnect \/ ToolReturns
         \/ IdleExpires \/ ExternalAbort
         \/ IteratorStep \/ ConsumerBreaks
         \/ UNCHANGED vars
  PROVE  QuietInv'
<1>1. UNCHANGED <<job, awaiting, quiet, lastEnded>>
  BY DEF Environment, AgentCallsTool, OtherClientAnswers, UserConfirms, SessionStatus, Append1,
     SendFails, Attach, AttachFails, RoutePassDone, Disconnect, Reconnect, ToolReturns,
     IdleExpires, ExternalAbort, IteratorStep, Yield, Phase1Ends, Phase2Ends, CloseAfterBreak,
     ConsumerBreaks, Finally, vars, loopVars, gateVars, ghostVars
<1>2. clock' \in {clock, Disarm(clock), [clock EXCEPT !.timer = FALSE]}
  BY DEF Environment, AgentCallsTool, OtherClientAnswers, UserConfirms, SessionStatus, Append1,
     SendFails, Attach, AttachFails, RoutePassDone, Disconnect, Reconnect, ToolReturns,
     IdleExpires, ExternalAbort, IteratorStep, Yield, Phase1Ends, Phase2Ends, CloseAfterBreak,
     ConsumerBreaks, Finally, vars
<1>3. (clock'.timer => clock.timer) /\ (clock'.pending => clock.pending)
  <2>1. clock \in Clocks
    BY DEF IInv, DispatchTypes
  <2>2. CASE clock' = clock
    BY <2>2
  <2>3. CASE clock' = Disarm(clock)
    BY <2>1, <2>3, TimerOps
  <2>4. CASE clock' = [clock EXCEPT !.timer = FALSE]
    BY <2>1, <2>4, TimerOps
  <2> QED
    BY <1>2, <2>2, <2>3, <2>4
<1>4. \/ pc' = pc
      \/ pc = "route" /\ pc' = "release"
      \/ pc = "tool" /\ pc' = "send"
      \/ pc \in {"connect", "stream", "backoff"}
         /\ pc' \in {"connect", "list", "backoff", "stopped"}
  BY DEF Environment, AgentCallsTool, OtherClientAnswers, UserConfirms, SessionStatus, Append1,
     SendFails, Attach, AttachFails, RoutePassDone, Disconnect, Reconnect, ToolReturns,
     IdleExpires, ExternalAbort, IteratorStep, Yield, Phase1Ends, Phase2Ends, CloseAfterBreak,
     ConsumerBreaks, Finally, vars, loopVars
<1>5. InFlight' = InFlight /\ (Reconciling' <=> Reconciling)
  BY <1>1, <1>4 DEF InFlight, Reconciling
<1>6. lastEnded' => quiet' /\ (Reconciling' \/ pc' = "stopped")
  BY <1>1, <1>4, <1>5 DEF QuietInv, Reconciling
<1> QED
  BY <1>1, <1>3, <1>5, <1>6 DEF QuietInv, CountdownOnlyWhenQuiet

(* The idle countdown never runs over a call that is held or in flight, nor *)
(* after anything but the end of a turn was the last thing read.            *)
THEOREM CountdownIsSafe == Spec => []CountdownOnlyWhenQuiet
<1>1. Init => QuietInv
  BY DEF Init, QuietInv, CountdownOnlyWhenQuiet, Reconciling, NoJob
<1>2. IInv /\ IInv' /\ QuietInv /\ [Next]_vars => QuietInv'
  BY RoutingKeepsQuiet, EventKeepsQuiet, HistoryKeepsQuiet, JobEndKeepsQuiet, SettleKeepsQuiet,
     OtherStepsKeepQuiet
  DEF Next, LoopStep, LoopFault
<1>3. QuietInv => CountdownOnlyWhenQuiet
  BY DEF QuietInv
<1> QED
  BY Invariance, <1>1, <1>2, <1>3, PTL DEF Spec

=============================================================================
