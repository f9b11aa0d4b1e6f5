--------------------------- MODULE WorkLeaseProofs ---------------------------
(***************************************************************************)
(* Theorems about WorkLease, for any set of workers, any latencies, faults *)
(* and aborts, and any ttl and interval.  What a worker's last success     *)
(* proves of the lease is LeaseInv below.                                  *)
(***************************************************************************)
EXTENDS WorkLease, Integers, TLAPS

-----------------------------------------------------------------------------
(* Stamps and durations.                                                    *)

LEMMA StampNumbers ==
  /\ Stamps = 0..MaxStamp /\ NoHeartbeat = 0 /\ NoStray = MaxStamp + 1
  /\ NoHeartbeat \in Stamps /\ NoStray \notin Stamps
  /\ NoHeartbeat \in 0..NoStray /\ NoStray \in 0..NoStray /\ Stamps \subseteq 0..NoStray
  BY LeaseAssumption DEF Stamps, NoHeartbeat, NoStray

LEMMA FreshIsFree ==
  ASSUME FreeStamps # {}
  PROVE  /\ FreshStamp \in Stamps /\ FreshStamp # NoHeartbeat /\ FreshStamp # item.stamp
         /\ \A w \in Workers :
              FreshStamp # beat[w].last /\ FreshStamp # beat[w].stamp /\ FreshStamp # stray[w]
<1>1. FreshStamp \in FreeStamps
  BY DEF FreshStamp
<1>2. FreshStamp \in 1..MaxStamp
  BY <1>1 DEF FreeStamps
<1> QED
  BY <1>1, <1>2, StampNumbers, LeaseAssumption DEF FreeStamps

LEMMA Durations ==
  ASSUME NEW w \in Workers, beat[w].known \in BOOLEAN
  PROVE  /\ Ttl(w) \in Nat /\ Interval(w) \in Nat
         /\ Interval(w) >= 1 /\ Interval(w) <= DefaultInterval
<1>1. ServerTtl \div 2 \in Int
  BY LeaseAssumption
<1> QED
  BY <1>1, LeaseAssumption DEF Ttl, Interval, Largest, Least

LEMMA LongAgoIsLong == LongAgo \in Nat /\ LongAgo > ServerTtl
  BY LeaseAssumption DEF LongAgo, Largest

-----------------------------------------------------------------------------
(* The parts of the type invariant, and what an action makes of one worker. *)

BeatType ==
  [at : {"off", "sent", "answered", "sleep"}, age : Nat, since : Nat, known : BOOLEAN,
   last : Stamps, reply : {"none", "ok", "stop", "moved"}, stamp : Stamps]

Answers(b) == b.at = "answered" <=> b.reply # "none"

BeatsTyped == beat \in [Workers -> BeatType] /\ \A w \in Workers : Answers(beat[w])

LeasesTyped ==
  lease \in [Workers -> [reason : {"none", "runner_done", "heartbeat_stop", "lease_lost",
                                   "heartbeat_rejected", "assumed_lost"},
                         aborted : BOOLEAN]]

ItemTyped ==
  item \in [state : {"queued", "active", "stopping", "stopped"}, stamp : Stamps,
            left : 0..ServerTtl, holder : Workers \cup {Nobody}]

RestTyped ==
  /\ phase \in [Workers -> Phases] /\ clean \in [Workers -> BOOLEAN]
  /\ stray \in [Workers -> 0..NoStray] /\ quit \in [Workers -> BOOLEAN] /\ faults \in Nat

LEMMA Parts ==
  /\ TypeOK <=> ItemTyped /\ BeatsTyped /\ LeasesTyped /\ RestTyped
  /\ TypeOK' <=> ItemTyped' /\ BeatsTyped' /\ LeasesTyped' /\ RestTyped'
  BY DEF TypeOK, ItemTyped, BeatsTyped, LeasesTyped, RestTyped, BeatType, Answers

LEMMA BeatBecomes ==
  ASSUME BeatsTyped, NEW w \in Workers, NEW b \in BeatType, Answers(b),
         beat' = [beat EXCEPT ![w] = b]
  PROVE  BeatsTyped' /\ beat'[w] = b /\ \A v \in Workers \ {w} : beat'[v] = beat[v]
  BY DEF BeatsTyped, Answers

LEMMA SilentType ==
  /\ Silent \in BeatType /\ Answers(Silent) /\ Silent.at = "off" /\ Silent.since = 0 /\ Silent.age = 0
  /\ Silent.reply = "none" /\ Silent.last = NoHeartbeat /\ Silent.stamp = NoHeartbeat
  /\ Silent.known = FALSE
  BY StampNumbers DEF Silent, BeatType, Answers

LEMMA FinishDoes ==
  ASSUME LeasesTyped, NEW w \in Workers,
         NEW why \in {"runner_done", "heartbeat_stop", "lease_lost", "heartbeat_rejected", "assumed_lost"},
         Finish(w, why)
  PROVE  /\ LeasesTyped' /\ lease'[w].aborted
         /\ lease'[w].reason = IF lease[w].reason = "none" THEN why ELSE lease[w].reason
         /\ \A v \in Workers \ {w} : lease'[v] = lease[v]
  BY DEF LeasesTyped, Finish

LEMMA RenewedIs ==
  ASSUME ItemTyped, NEW w \in Workers, FreeStamps # {}
  PROVE  /\ Renewed(w).state = item.state /\ Renewed(w).stamp = FreshStamp
         /\ Renewed(w).left = ServerTtl /\ Renewed(w).holder = w
         /\ Renewed(w) \in [state : {"queued", "active", "stopping", "stopped"}, stamp : Stamps,
                            left : 0..ServerTtl, holder : Workers \cup {Nobody}]
<1>1. ServerTtl \in 0..ServerTtl /\ FreshStamp \in Stamps
  BY LeaseAssumption, FreshIsFree
<1>2. /\ Renewed(w).state = item.state /\ Renewed(w).stamp = FreshStamp
      /\ Renewed(w).left = ServerTtl /\ Renewed(w).holder = w
  BY DEF ItemTyped, Renewed
<1>3. Renewed(w) \in [state : {"queued", "active", "stopping", "stopped"}, stamp : Stamps,
                      left : 0..ServerTtl, holder : Workers \cup {Nobody}]
  BY <1>1 DEF ItemTyped, Renewed
<1> QED
  BY <1>2, <1>3

LEMMA LoopEndsDoes ==
  ASSUME BeatsTyped, NEW w \in Workers, LoopEnds(w)
  PROVE  BeatsTyped' /\ beat'[w] = Silent /\ \A v \in Workers \ {w} : beat'[v] = beat[v]
  BY BeatBecomes, SilentType DEF LoopEnds

LEMMA TryAgainDoes ==
  ASSUME BeatsTyped, NEW w \in Workers, TryAgain(w)
  PROVE  /\ BeatsTyped' /\ UNCHANGED lease
         /\ beat'[w] = [beat[w] EXCEPT !.at = "sleep", !.age = 0, !.reply = "none", !.stamp = NoHeartbeat]
         /\ \A v \in Workers \ {w} : beat'[v] = beat[v]
<1> DEFINE b == [beat[w] EXCEPT !.at = "sleep", !.age = 0, !.reply = "none", !.stamp = NoHeartbeat]
<1>1. b \in BeatType /\ Answers(b)
  BY StampNumbers DEF BeatsTyped, BeatType, Answers
<1>2. beat' = [beat EXCEPT ![w] = b] /\ UNCHANGED lease
  BY DEF TryAgain
<1> QED
  BY <1>1, <1>2, BeatBecomes

LEMMA AbandonDoes ==
  ASSUME BeatsTyped, RestTyped, NEW w \in Workers, Abandon(w)
  PROVE  /\ stray' \in [Workers -> 0..NoStray]
         /\ stray'[w] \in {stray[w], beat[w].last} /\ \A v \in Workers \ {w} : stray'[v] = stray[v]
<1>1. beat[w].last \in 0..NoStray
  BY StampNumbers DEF BeatsTyped, BeatType
<1> QED
  BY <1>1 DEF Abandon, RestTyped

-----------------------------------------------------------------------------
(* Type correctness.                                                        *)

\* A failed beat touches one worker's heartbeat and lease.
LEMMA GiveUpDoes ==
  ASSUME BeatsTyped, LeasesTyped, NEW w \in Workers, GiveUpBeat(w)
  PROVE  /\ BeatsTyped' /\ LeasesTyped'
         /\ \A v \in Workers \ {w} : beat'[v] = beat[v] /\ lease'[v] = lease[v]
  BY LoopEndsDoes, FinishDoes, TryAgainDoes DEF GiveUpBeat, LeasesTyped

LEMMA BeatReachesKeepsType ==
  ASSUME TypeOK, NEW w \in Workers, BeatReaches(w)
  PROVE  TypeOK'
<1>1. UNCHANGED <<phase, lease, clean, stray, quit, faults>> /\ beat[w].at = "sent"
  BY DEF BeatReaches
<1>2. CASE FreeStamps # {} /\ item' = Renewed(w)
           /\ beat' = [beat EXCEPT ![w].at = "answered", ![w].stamp = FreshStamp,
                                   ![w].reply = IF item.state = "active" THEN "ok" ELSE "stop"]
  <2> DEFINE b == [beat[w] EXCEPT !.at = "answered", !.stamp = FreshStamp,
                                  !.reply = IF item.state = "active" THEN "ok" ELSE "stop"]
  <2>1. b \in BeatType /\ Answers(b)
    BY <1>2, FreshIsFree, Parts DEF BeatsTyped, BeatType, Answers
  <2>2. beat' = [beat EXCEPT ![w] = b]
    BY <1>2
  <2> QED
    BY <1>1, <1>2, <2>1, <2>2, BeatBecomes, RenewedIs, Parts DEF ItemTyped, LeasesTyped, RestTyped
<1>3. CASE UNCHANGED item
           /\ beat' = [beat EXCEPT ![w].at = "answered", ![w].stamp = item.stamp, ![w].reply = "stop"]
  <2> DEFINE b == [beat[w] EXCEPT !.at = "answered", !.stamp = item.stamp, !.reply = "stop"]
  <2>1. b \in BeatType /\ Answers(b)
    <3>1. item.stamp \in Stamps
      BY Parts DEF ItemTyped
    <3> QED
      BY <3>1, Parts DEF BeatsTyped, BeatType, Answers
  <2>2. beat' = [beat EXCEPT ![w] = b]
    BY <1>3
  <2> QED
    BY <1>1, <1>3, <2>1, <2>2, BeatBecomes, Parts DEF ItemTyped, LeasesTyped, RestTyped
<1>4. CASE UNCHANGED item /\ beat' = [beat EXCEPT ![w].at = "answered", ![w].reply = "moved"]
  <2> DEFINE b == [beat[w] EXCEPT !.at = "answered", !.reply = "moved"]
  <2>1. b \in BeatType /\ Answers(b)
    BY Parts DEF BeatsTyped, BeatType, Answers
  <2>2. beat' = [beat EXCEPT ![w] = b]
    BY <1>4
  <2> QED
    BY <1>1, <1>4, <2>1, <2>2, BeatBecomes, Parts DEF ItemTyped, LeasesTyped, RestTyped
<1> QED
  BY <1>2, <1>3, <1>4 DEF BeatReaches

LEMMA ServerKeepsType ==
  ASSUME TypeOK, NEW w \in Workers, StrayReaches(w) \/ Lapse \/ AskToStop
  PROVE  TypeOK'
<1>1. CASE StrayReaches(w)
  <2>1. ItemTyped'
    BY <1>1, RenewedIs, Parts DEF StrayReaches, ItemTyped
  <2>2. RestTyped'
    BY <1>1, StampNumbers, Parts DEF StrayReaches, RestTyped
  <2> QED
    BY <1>1, <2>1, <2>2, Parts DEF StrayReaches, BeatsTyped, LeasesTyped, Answers
<1>2. CASE Lapse
  <2>1. ItemTyped'
    BY <1>2, StampNumbers, LeaseAssumption DEF Lapse, ItemTyped
  <2> QED
    BY <1>2, <2>1, Parts DEF Lapse, BeatsTyped, LeasesTyped, RestTyped, Answers
<1>3. CASE AskToStop
  <2>1. ItemTyped'
    BY <1>3, Parts DEF AskToStop, ItemTyped
  <2> QED
    BY <1>3, <2>1, Parts DEF AskToStop, BeatsTyped, LeasesTyped, RestTyped, Answers
<1> QED
  BY <1>1, <1>2, <1>3

LEMMA HeartbeatKeepsType ==
  ASSUME TypeOK, NEW w \in Workers,
         Heartbeat(w) \/ BeatRejected(w) \/ BeatFails(w) \/ BeatRetried(w)
  PROVE  TypeOK'
<1> USE DEF Fault
<1>1. CASE BeatOk(w)
  <2>1. UNCHANGED <<item, phase, lease, clean, stray, quit, faults>>
    BY <1>1 DEF BeatOk
  <2>2. CASE LoopEnds(w)
    BY <2>1, <2>2, LoopEndsDoes, Parts DEF ItemTyped, LeasesTyped, RestTyped
  <2>3. CASE beat' = [beat EXCEPT ![w] = [Silent EXCEPT !.at = "sleep", !.known = TRUE,
                                                        !.last = beat[w].stamp]]
    <3> DEFINE b == [Silent EXCEPT !.at = "sleep", !.known = TRUE, !.last = beat[w].stamp]
    <3>1. b \in BeatType /\ Answers(b)
      BY SilentType, Parts DEF BeatsTyped, BeatType, Answers
    <3> QED
      BY <2>1, <2>3, <3>1, BeatBecomes, Parts DEF ItemTyped, LeasesTyped, RestTyped
  <2> QED
    BY <1>1, <2>2, <2>3 DEF BeatOk
<1>2. CASE BeatStop(w) \/ BeatMoved(w) \/ BeatRejected(w)
  <2>1. /\ LoopEnds(w)
        /\ \/ Finish(w, "heartbeat_stop") \/ Finish(w, "lease_lost") \/ Finish(w, "heartbeat_rejected")
        /\ UNCHANGED <<item, phase, clean, stray, quit>> /\ faults' \in Nat
    BY <1>2, Parts DEF BeatStop, BeatMoved, BeatRejected, RestTyped
  <2> QED
    BY <2>1, FinishDoes, LoopEndsDoes, Parts DEF ItemTyped, RestTyped
<1>3. CASE BeatFails(w) \/ BeatCutOff(w)
  <2>1. /\ GiveUpBeat(w) /\ UNCHANGED <<item, phase, clean, quit>> /\ faults' \in Nat
        /\ stray' \in [Workers -> 0..NoStray]
    BY <1>3, AbandonDoes, Parts DEF BeatFails, BeatCutOff, RestTyped
  <2> QED
    BY <2>1, GiveUpDoes, Parts DEF ItemTyped, RestTyped
<1>4. CASE BeatRetried(w)
  <2> DEFINE b == [beat[w] EXCEPT !.at = "sent", !.reply = "none", !.stamp = NoHeartbeat]
  <2>1. b \in BeatType /\ Answers(b)
    <3>1. beat[w] \in BeatType /\ NoHeartbeat \in Stamps
      BY StampNumbers, Parts DEF BeatsTyped
    <3>2. b.at = "sent" /\ b.reply = "none"
      BY <3>1 DEF BeatType
    <3>3. b \in BeatType
      BY <3>1 DEF BeatType
    <3> QED
      BY <3>2, <3>3 DEF Answers
  <2>2. beat' = [beat EXCEPT ![w] = b] /\ UNCHANGED <<item, phase, lease, clean, stray, quit>>
    BY <1>4 DEF BeatRetried
  <2>3. faults' \in Nat
    BY <1>4, Parts DEF BeatRetried, RestTyped
  <2> QED
    BY <2>1, <2>2, <2>3, BeatBecomes, Parts DEF ItemTyped, LeasesTyped, RestTyped
<1>5. CASE NextBeat(w)
  <2> DEFINE b == [beat[w] EXCEPT !.at = "sent", !.age = 0]
  <2>1. b \in BeatType /\ Answers(b)
    BY <1>5, Parts DEF BeatsTyped, BeatType, Answers, NextBeat, NextBeatDue
  <2>2. beat' = [beat EXCEPT ![w] = b]
    BY <1>5 DEF NextBeat
  <2> QED
    BY <1>5, <2>1, <2>2, BeatBecomes, Parts DEF NextBeat, ItemTyped, LeasesTyped, RestTyped
<1>6. CASE HeartbeatUnwinds(w)
  BY <1>6, LoopEndsDoes, AbandonDoes, Parts DEF HeartbeatUnwinds, ItemTyped, LeasesTyped, RestTyped
<1> QED
  BY <1>1, <1>2, <1>3, <1>4, <1>5, <1>6 DEF Heartbeat

LEMMA BecomeDoes ==
  ASSUME RestTyped, NEW w \in Workers, NEW p \in Phases, Become(w, p)
  PROVE  /\ phase' \in [Workers -> Phases] /\ phase'[w] = p
         /\ \A v \in Workers \ {w} : phase'[v] = phase[v]
  BY DEF Become, RestTyped

LEMMA HandlingKeepsType ==
  ASSUME TypeOK, NEW w \in Workers,
         \/ PollClaims(w) \/ Handle(w) \/ AckFails(w) \/ StopFails(w) \/ SetUpFails(w)
         \/ MemoriesSaved(w) \/ \E throws \in BOOLEAN : RunnerEnds(w, throws)
         \/ ExternalAbort(w) \/ Crash(w)
  PROVE  TypeOK'
<1> USE DEF Fault, Done
<1>p. {"poll", "ack", "await", "stop", "exit", "setup", "serve", "skills", "finish", "flush", "dispose"}
        \subseteq Phases
  BY DEF Phases, Handling
<1>r. RestTyped /\ BeatsTyped /\ LeasesTyped /\ ItemTyped
  BY Parts
<1>1. CASE PollClaims(w)
  <2>1. ItemTyped'
    BY <1>1, StampNumbers, LeaseAssumption DEF PollClaims, ItemTyped
  <2> QED
    BY <1>1, <1>p, <1>r, <2>1, BecomeDoes, Parts DEF PollClaims, BeatsTyped, LeasesTyped, RestTyped, Answers
<1>2. CASE AckSucceeds(w)
  <2> DEFINE b == [Silent EXCEPT !.at = "sent"]
  <2>1. b \in BeatType /\ Answers(b)
    BY SilentType DEF BeatType, Answers
  <2>2. BeatsTyped'
    BY <1>2, <1>r, <2>1, BeatBecomes DEF AckSucceeds
  <2>3. LeasesTyped' /\ clean' \in [Workers -> BOOLEAN] /\ phase' \in [Workers -> Phases]
    BY <1>2, <1>p, <1>r, BecomeDoes DEF AckSucceeds, LeasesTyped, RestTyped
  <2> QED
    BY <1>2, <1>r, <2>2, <2>3, Parts DEF AckSucceeds, ItemTyped, RestTyped
<1>3. CASE \/ AckAborted(w) \/ SetUp(w) \/ SkillsCleaned(w) \/ MemoriesCutOff(w) \/ HeartbeatEnded(w)
           \/ AckFails(w) \/ StopFails(w) \/ SetUpFails(w) \/ MemoriesSaved(w)
  <2>1. UNCHANGED <<item, beat, lease, clean, stray, quit>> /\ faults' \in Nat
    BY <1>3, <1>r DEF AckAborted, SetUp, SkillsCleaned, MemoriesCutOff, HeartbeatEnded, AckFails,
       StopFails, SetUpFails, MemoriesSaved, RestTyped
  <2>2. \E p \in Phases : Become(w, p)
    BY <1>3, <1>p DEF AckAborted, SetUp, SkillsCleaned, MemoriesCutOff, HeartbeatEnded, AckFails,
       StopFails, SetUpFails, MemoriesSaved, AfterFinalSync, AfterFlush
  <2>3. phase' \in [Workers -> Phases]
    BY <1>r, <2>2, BecomeDoes
  <2> QED
    BY <1>r, <2>1, <2>3, Parts DEF ItemTyped, BeatsTyped, LeasesTyped, RestTyped, Answers
<1>4. CASE RunnerStops(w) \/ \E throws \in BOOLEAN : RunnerEnds(w, throws)
  <2>1. /\ UNCHANGED <<item, beat, lease, stray, quit, faults>> /\ Become(w, "skills")
        /\ \E c \in BOOLEAN : clean' = [clean EXCEPT ![w] = c]
    BY <1>4, <1>r DEF RunnerStops, RunnerEnds, LeasesTyped
  <2> QED
    BY <1>p, <1>r, <2>1, BecomeDoes, Parts DEF ItemTyped, BeatsTyped, LeasesTyped, RestTyped, Answers
<1>5. CASE ReleaseLease(w)
  BY <1>5, <1>p, <1>r, BecomeDoes, FinishDoes, Parts DEF ReleaseLease, ItemTyped, BeatsTyped, RestTyped, Answers
<1>6. CASE StopReaches(w)
  <2>1. ItemTyped'
    BY <1>6, <1>r DEF StopReaches, ItemTyped
  <2> QED
    BY <1>6, <1>p, <1>r, <2>1, BecomeDoes, Parts DEF StopReaches, BeatsTyped, LeasesTyped, RestTyped, Answers
<1>7. CASE ExternalAbort(w)
  <2>1. LeasesTyped'
    BY <1>7, <1>r DEF ExternalAbort, LeasesTyped
  <2>2. RestTyped'
    BY <1>7, <1>p, <1>r, BecomeDoes DEF ExternalAbort, RestTyped
  <2> QED
    BY <1>7, <1>r, <2>1, <2>2, Parts DEF ExternalAbort, ItemTyped, BeatsTyped, Answers
<1>8. CASE Crash(w)
  <2>1. BeatsTyped'
    BY <1>8, <1>r, SilentType, BeatBecomes DEF Crash
  <2>2. LeasesTyped' /\ clean' \in [Workers -> BOOLEAN] /\ phase' \in [Workers -> Phases]
    BY <1>8, <1>p, <1>r, BecomeDoes DEF Crash, LeasesTyped, RestTyped
  <2> QED
    BY <1>8, <1>r, <2>1, <2>2, Parts DEF Crash, ItemTyped, RestTyped
<1> QED
  BY <1>1, <1>2, <1>3, <1>4, <1>5, <1>6, <1>7, <1>8 DEF Handle

LEMMA OlderDoes ==
  ASSUME NEW b \in BeatType
  PROVE  /\ Older(b) \in BeatType
         /\ Older(b).at = b.at /\ Older(b).known = b.known /\ Older(b).last = b.last
         /\ Older(b).reply = b.reply /\ Older(b).stamp = b.stamp
         /\ Older(b).age >= b.age /\ Older(b).age <= b.age + 1 /\ Older(b).since <= b.since + 1
         /\ b.at # "off" => /\ Older(b).age = b.age + 1
                            /\ Older(b).since = b.since + 1 \/ Older(b).since > ServerTtl
<1>1. CASE b.at = "off"
  BY <1>1 DEF Older, BeatType
<1>2. CASE b.at # "off"
  <2> DEFINE s == Least(b.since + 1, LongAgo)
  <2>1. s \in Nat /\ s <= b.since + 1 /\ (s = b.since + 1 \/ s > ServerTtl)
    BY LongAgoIsLong, LeaseAssumption DEF Least, BeatType
  <2>2. Older(b) = [b EXCEPT !.age = b.age + 1, !.since = s]
    BY <1>2 DEF Older
  <2> HIDE DEF s
  <2>3. Older(b) \in BeatType
    <3>1. ASSUME NEW n \in Nat, NEW m \in Nat
          PROVE  [b EXCEPT !.age = n, !.since = m] \in BeatType
      BY DEF BeatType
    <3>2. b.age + 1 \in Nat
      BY DEF BeatType
    <3> QED
      BY <2>1, <2>2, <3>1, <3>2
  <2>4. /\ Older(b).at = b.at /\ Older(b).last = b.last
        /\ Older(b).reply = b.reply /\ Older(b).stamp = b.stamp
        /\ Older(b).age = b.age + 1 /\ Older(b).since = s
    BY <2>2 DEF BeatType
  <2>6. Older(b).known = b.known
    BY <2>2 DEF BeatType
  <2>5. b.age \in Nat /\ b.since \in Nat
    BY DEF BeatType
  <2> HIDE DEF BeatType
  <2> QED
    BY <2>1, <2>3, <2>4, <2>5, <2>6
<1> QED
  BY <1>1, <1>2

LEMMA TickKeepsType ==
  ASSUME TypeOK, Tick
  PROVE  TypeOK'
<1>r. RestTyped /\ BeatsTyped /\ LeasesTyped /\ ItemTyped
  BY Parts
<1>1. BeatsTyped'
  BY <1>r, OlderDoes DEF Tick, BeatsTyped, Answers
<1>2. ItemTyped'
  BY <1>r, LeaseAssumption DEF Tick, ItemTyped
<1> QED
  BY <1>r, <1>1, <1>2, Parts DEF Tick, LeasesTyped, RestTyped, Fault

LEMMA StepKeepsType == TypeOK /\ [Next]_vars => TypeOK'
<1> SUFFICES ASSUME TypeOK, [Next]_vars PROVE TypeOK'
  OBVIOUS
<1>1. CASE UNCHANGED vars
  BY <1>1 DEF vars, TypeOK
<1>2. CASE \E w \in Workers : BeatReaches(w) \/ StrayReaches(w)
  BY <1>2, BeatReachesKeepsType, ServerKeepsType
<1>3. CASE Lapse \/ AskToStop
  <2>1. ItemTyped'
    BY <1>3, Parts, StampNumbers, LeaseAssumption DEF Lapse, AskToStop, ItemTyped
  <2> QED
    BY <1>3, <2>1, Parts DEF Lapse, AskToStop, BeatsTyped, LeasesTyped, RestTyped, Answers
<1>4. CASE Tick
  BY <1>4, TickKeepsType
<1>5. CASE \E w \in Workers : \/ Heartbeat(w) \/ Faulty(w) \/ PollClaims(w) \/ Handle(w)
                              \/ SetUpFails(w) \/ MemoriesSaved(w)
                              \/ \E throws \in BOOLEAN : RunnerEnds(w, throws)
                              \/ ExternalAbort(w) \/ Crash(w)
  BY <1>5, HeartbeatKeepsType, HandlingKeepsType DEF Faulty
<1> QED
  BY <1>1, <1>2, <1>3, <1>4, <1>5 DEF Next

LEMMA InitType == Init => TypeOK
<1>1. Init => ItemTyped
  BY StampNumbers, LeaseAssumption DEF Init, ItemTyped
<1>2. Init => BeatsTyped /\ LeasesTyped
  BY SilentType DEF Init, BeatsTyped, LeasesTyped
<1>3. Init => RestTyped
  BY StampNumbers DEF Init, RestTyped, Phases
<1> QED
  BY <1>1, <1>2, <1>3, Parts

(* The workers, their heartbeats and the server's item keep their types.    *)
THEOREM TypeCorrectness == Spec => []TypeOK
  BY InitType, StepKeepsType, PTL DEF Spec

-----------------------------------------------------------------------------
(* The inductive invariant.  Timely bounds how old a worker's last success  *)
(* can be at each point of a beat.  Covered says what an old success still  *)
(* proves: unless a whole ttl has passed since the server took the beat,    *)
(* the item is the worker's own, nothing that another worker has on the     *)
(* wire or may still send carries its stamp, and the server will keep it    *)
(* for the rest of that ttl.                                                *)

Waits(w) == beat[w].at \in {"sent", "answered"}

Timely(w) ==
  Live(w) => /\ beat[w].age <= Interval(w)
             /\ beat[w].since <= Ttl(w) + beat[w].age + (IF Waits(w) THEN Interval(w) ELSE 0)

Owns(v) ==
  /\ item.holder = v /\ item.stamp # NoHeartbeat
  /\ \A w \in Workers \ {v} :
       item.stamp # beat[w].last /\ item.stamp # beat[w].stamp /\ item.stamp # stray[w]

Covers(v, age) == age >= ServerTtl \/ (Owns(v) /\ item.left + age >= ServerTtl)

Covered(v) ==
  Live(v) => /\ beat[v].known => Covers(v, beat[v].since + DefaultInterval)
             /\ beat[v].reply = "ok" => Covers(v, beat[v].age)

QueuedIsFree == item.state = "queued" => item.holder = Nobody

LeaseInv ==
  /\ TypeOK /\ QueuedIsFree
  /\ \A w \in Workers : Timely(w) /\ Covered(w)

\* What a worker's step leaves alone when it neither renews the lease nor notes a success.
Refs(w) == {NoHeartbeat, NoStray, beat[w].last, beat[w].stamp, stray[w]}

Others(w) ==
  \A v \in Workers \ {w} : beat'[v] = beat[v] /\ stray'[v] = stray[v] /\ (Live(v)' => Live(v))

NoNewRefs(w) == beat'[w].last \in Refs(w) /\ beat'[w].stamp \in Refs(w) /\ stray'[w] \in Refs(w)

NoNewClaims(w) ==
  Live(w)' =>
    /\ beat'[w].known => Live(w) /\ beat[w].known /\ beat'[w].since = beat[w].since
    /\ beat'[w].reply = "ok" => Live(w) /\ beat[w].reply = "ok" /\ beat'[w].age = beat[w].age

Quiet(w) == Others(w) /\ NoNewRefs(w) /\ NoNewClaims(w)

SameItem == item'.stamp = item.stamp /\ item'.holder = item.holder /\ item'.left = item.left

LEMMA QuietCovered ==
  ASSUME TypeOK, NEW w \in Workers, Quiet(w), SameItem, \A v \in Workers : Covered(v)
  PROVE  \A v \in Workers : Covered(v)'
<1>1. item.stamp # NoStray
  BY StampNumbers, Parts DEF ItemTyped
<1>2. ASSUME NEW v \in Workers, Owns(v) PROVE Owns(v)'
  BY <1>1, <1>2 DEF Owns, Quiet, Others, NoNewRefs, Refs, SameItem
<1>3. ASSUME NEW v \in Workers, Live(v)'
      PROVE  /\ beat'[v].known => Live(v) /\ beat[v].known /\ beat'[v].since = beat[v].since
             /\ beat'[v].reply = "ok" => Live(v) /\ beat[v].reply = "ok" /\ beat'[v].age = beat[v].age
  BY <1>3 DEF Quiet, Others, NoNewClaims
<1> QED
  BY <1>2, <1>3 DEF Covered, Covers, SameItem

LEMMA OthersTimely ==
  ASSUME TypeOK, NEW w \in Workers, Others(w), Timely(w)', \A v \in Workers : Timely(v)
  PROVE  \A v \in Workers : Timely(v)'
  BY DEF Others, Timely, Ttl, Interval, Waits

LEMMA StillStep ==
  ASSUME TypeOK, NEW w \in Workers, UNCHANGED <<beat, stray>>,
         \A v \in Workers : lease[v].aborted => lease'[v].aborted
  PROVE  Quiet(w) /\ (Timely(w) => Timely(w)')
<1>1. \A v \in Workers : Live(v)' => Live(v)
  BY DEF Live, Beating
<1> QED
  BY <1>1 DEF Quiet, Others, NoNewRefs, Refs, NoNewClaims, Timely, Ttl, Interval, Waits

LEMMA SilentStep ==
  ASSUME NEW w \in Workers, beat'[w] = Silent, stray'[w] \in Refs(w),
         \A v \in Workers \ {w} : beat'[v] = beat[v] /\ stray'[v] = stray[v] /\ lease'[v] = lease[v]
  PROVE  Quiet(w) /\ Timely(w)'
<1>1. ~Live(w)'
  BY SilentType DEF Live, Beating
<1>2. Others(w)
  BY DEF Others, Live, Beating
<1>3. NoNewRefs(w)
  BY SilentType DEF NoNewRefs, Refs
<1> QED
  BY <1>1, <1>2, <1>3 DEF Quiet, NoNewClaims, Timely

LEMMA TryAgainStep ==
  ASSUME TypeOK, NEW w \in Workers, Pending(w), beat[w].since <= Ttl(w), TryAgain(w), stray'[w] \in Refs(w),
         \A v \in Workers \ {w} : stray'[v] = stray[v]
  PROVE  Quiet(w) /\ Timely(w)'
<1>1. /\ UNCHANGED lease
      /\ beat'[w] = [beat[w] EXCEPT !.at = "sleep", !.age = 0, !.reply = "none", !.stamp = NoHeartbeat]
      /\ \A v \in Workers \ {w} : beat'[v] = beat[v]
  BY TryAgainDoes, Parts
<1>2. beat[w] \in BeatType
  BY Parts DEF BeatsTyped
<1>3. /\ beat'[w].at = "sleep" /\ beat'[w].age = 0 /\ beat'[w].reply = "none"
      /\ beat'[w].stamp = NoHeartbeat /\ beat'[w].last = beat[w].last /\ beat'[w].since = beat[w].since
  BY <1>1, <1>2 DEF BeatType
<1>4. beat'[w].known = beat[w].known
  BY <1>1, <1>2 DEF BeatType
<1>5. Others(w)
  BY <1>1 DEF Others, Live, Beating
<1>6. NoNewRefs(w)
  BY <1>3 DEF NoNewRefs, Refs
<1>7. Live(w)
  BY DEF Pending, Live, Beating
<1>8. Timely(w)'
  <2>1. Ttl(w)' = Ttl(w) /\ Interval(w)' = Interval(w)
    BY <1>4 DEF Ttl, Interval
  <2>2. Ttl(w) \in Nat /\ Interval(w) \in Nat /\ beat[w].since \in Nat
    BY <1>2, Durations DEF BeatType
  <2> QED
    BY <1>3, <2>1, <2>2 DEF Timely, Waits
<1> QED
  BY <1>3, <1>4, <1>5, <1>6, <1>7, <1>8 DEF Quiet, NoNewClaims

-----------------------------------------------------------------------------
(* Every step keeps it.                                                     *)

\* The steps that leave every claim as it was.
LEMMA QuietSteps ==
  ASSUME LeaseInv, NEW w \in Workers,
         \/ Faulty(w) \/ Handle(w) \/ SetUpFails(w) \/ MemoriesSaved(w)
         \/ \E throws \in BOOLEAN : RunnerEnds(w, throws)
         \/ BeatStop(w) \/ BeatMoved(w) \/ BeatCutOff(w) \/ NextBeat(w) \/ HeartbeatUnwinds(w)
         \/ ExternalAbort(w) \/ Crash(w)
  PROVE  Quiet(w) /\ SameItem /\ Timely(w)'
<1>t. TypeOK /\ ItemTyped /\ BeatsTyped /\ LeasesTyped /\ RestTyped /\ Timely(w) /\ beat[w] \in BeatType
  BY Parts DEF LeaseInv, BeatsTyped
<1>s. stray[w] \in Refs(w) /\ beat[w].last \in Refs(w)
  BY DEF Refs
<1>1. CASE BeatStop(w) \/ BeatMoved(w) \/ BeatRejected(w)
  <2>1. /\ LoopEnds(w)
        /\ \/ Finish(w, "heartbeat_stop") \/ Finish(w, "lease_lost") \/ Finish(w, "heartbeat_rejected")
        /\ UNCHANGED <<item, stray>>
    BY <1>1 DEF BeatStop, BeatMoved, BeatRejected
  <2> QED
    BY <1>s, <1>t, <2>1, LoopEndsDoes, FinishDoes, SilentStep DEF SameItem
<1>2. CASE BeatFails(w) \/ BeatCutOff(w)
  <2>1. Pending(w) /\ GiveUpBeat(w) /\ UNCHANGED item
    BY <1>2 DEF BeatFails, BeatCutOff, CutOffDue
  <2>2. stray'[w] \in Refs(w) /\ \A v \in Workers \ {w} : stray'[v] = stray[v]
    BY <1>2, <1>s, <1>t, AbandonDoes DEF BeatFails, BeatCutOff, Refs
  <2>3. CASE LoopEnds(w) /\ Finish(w, "assumed_lost")
    BY <1>t, <2>1, <2>2, <2>3, LoopEndsDoes, FinishDoes, SilentStep DEF SameItem
  <2>4. CASE ~(beat[w].since > Ttl(w)) /\ TryAgain(w)
    <3>1. beat[w].since <= Ttl(w)
      BY <1>t, <2>4, Durations DEF BeatType
    <3> QED
      BY <1>t, <2>1, <2>2, <2>4, <3>1, TryAgainStep DEF SameItem
  <2> QED
    BY <2>1, <2>3, <2>4 DEF GiveUpBeat
<1>3. CASE BeatRetried(w)
  <2> DEFINE b == [beat[w] EXCEPT !.at = "sent", !.reply = "none", !.stamp = NoHeartbeat]
  <2>1. /\ beat' = [beat EXCEPT ![w] = b] /\ UNCHANGED <<item, lease, stray>>
        /\ beat[w].at = "answered" /\ ~lease[w].aborted
    BY <1>3 DEF BeatRetried, Pending
  <2>2. beat'[w] = b /\ \A v \in Workers \ {w} : beat'[v] = beat[v]
    BY <1>t, <2>1 DEF BeatsTyped
  <2>3. /\ b.at = "sent" /\ b.reply = "none" /\ b.stamp = NoHeartbeat /\ b.last = beat[w].last
        /\ b.since = beat[w].since /\ b.age = beat[w].age
    BY <1>t DEF BeatType
  <2>4. b.known = beat[w].known
    BY <1>t DEF BeatType
  <2> HIDE DEF b
  <2>5. Live(w) /\ Waits(w) /\ Waits(w)' /\ Ttl(w)' = Ttl(w) /\ Interval(w)' = Interval(w)
    BY <2>1, <2>2, <2>3, <2>4 DEF Live, Beating, Waits, Ttl, Interval
  <2>6. Timely(w)'
    BY <1>t, <2>2, <2>3, <2>5 DEF Timely
  <2>7. Others(w)
    BY <2>1, <2>2 DEF Others, Live, Beating
  <2> QED
    BY <1>s, <2>1, <2>2, <2>3, <2>4, <2>5, <2>6, <2>7 DEF Quiet, NoNewRefs, NoNewClaims, Refs, SameItem
<1>4. CASE NextBeat(w)
  <2> DEFINE b == [beat[w] EXCEPT !.at = "sent", !.age = 0]
  <2>1. /\ beat' = [beat EXCEPT ![w] = b] /\ UNCHANGED <<item, lease, stray>>
        /\ beat[w].at = "sleep" /\ beat[w].age = Interval(w) /\ ~lease[w].aborted
    BY <1>4 DEF NextBeat, NextBeatDue
  <2>2. beat'[w] = b /\ \A v \in Workers \ {w} : beat'[v] = beat[v]
    BY <1>t, <2>1 DEF BeatsTyped
  <2>3. /\ b.at = "sent" /\ b.reply = beat[w].reply /\ b.stamp = beat[w].stamp
        /\ b.last = beat[w].last /\ b.since = beat[w].since /\ b.age = 0
    BY <1>t DEF BeatType
  <2>4. b.known = beat[w].known /\ beat[w].reply = "none"
    BY <1>t, <2>1 DEF BeatType, BeatsTyped, Answers
  <2> HIDE DEF b
  <2>5. Live(w) /\ ~Waits(w) /\ Waits(w)' /\ Ttl(w)' = Ttl(w) /\ Interval(w)' = Interval(w)
    BY <2>1, <2>2, <2>3, <2>4 DEF Live, Beating, Waits, Ttl, Interval
  <2>6. Timely(w)'
    <3>1. Ttl(w) \in Nat /\ Interval(w) \in Nat /\ beat[w].since \in Nat
      BY <1>t, Durations DEF BeatType
    <3> QED
      BY <1>t, <2>1, <2>2, <2>3, <2>5, <3>1 DEF Timely
  <2>7. Others(w)
    BY <2>1, <2>2 DEF Others, Live, Beating
  <2> QED
    BY <1>s, <2>1, <2>2, <2>3, <2>4, <2>5, <2>6, <2>7 DEF Quiet, NoNewRefs, NoNewClaims, Refs, SameItem
<1>5. CASE HeartbeatUnwinds(w)
  <2>1. LoopEnds(w) /\ Abandon(w) /\ UNCHANGED <<item, lease>>
    BY <1>5 DEF HeartbeatUnwinds
  <2> QED
    BY <1>s, <1>t, <2>1, LoopEndsDoes, AbandonDoes, SilentStep DEF SameItem, Refs
<1>6. CASE AckSucceeds(w)
  <2> DEFINE b == [Silent EXCEPT !.at = "sent"]
  <2>1. /\ beat' = [beat EXCEPT ![w] = b] /\ UNCHANGED <<item, stray>>
        /\ \A v \in Workers \ {w} : lease'[v] = lease[v]
    BY <1>6, <1>t DEF AckSucceeds, LeasesTyped
  <2>2. beat'[w] = b /\ \A v \in Workers \ {w} : beat'[v] = beat[v]
    BY <1>t, <2>1 DEF BeatsTyped
  <2>3. /\ b.at = "sent" /\ b.reply = "none" /\ b.stamp = NoHeartbeat /\ b.last = NoHeartbeat
        /\ b.since = 0 /\ b.age = 0 /\ b.known = FALSE
    BY SilentType DEF BeatType
  <2>4. b \in BeatType
    BY SilentType DEF BeatType
  <2> HIDE DEF b
  <2>5. Timely(w)'
    <3>1. Ttl(w)' \in Nat /\ Interval(w)' \in Nat
      BY <2>2, <2>3, LeaseAssumption DEF Ttl, Interval
    <3> QED
      BY <2>2, <2>3, <3>1 DEF Timely, Waits
  <2>6. Others(w)
    BY <2>1, <2>2 DEF Others, Live, Beating
  <2> QED
    BY <1>s, <2>1, <2>2, <2>3, <2>5, <2>6 DEF Quiet, NoNewRefs, NoNewClaims, Refs, SameItem
<1>7. CASE Crash(w)
  <2>1. beat' = [beat EXCEPT ![w] = Silent] /\ UNCHANGED <<item, stray>>
        /\ \A v \in Workers \ {w} : lease'[v] = lease[v]
    BY <1>7, <1>t DEF Crash, LeasesTyped
  <2>2. beat'[w] = Silent /\ \A v \in Workers \ {w} : beat'[v] = beat[v]
    BY <1>t, <2>1 DEF BeatsTyped
  <2> QED
    BY <1>s, <2>1, <2>2, SilentStep DEF SameItem
<1>8. CASE \/ AckAborted(w) \/ SetUp(w) \/ SkillsCleaned(w) \/ MemoriesCutOff(w) \/ HeartbeatEnded(w)
           \/ AckFails(w) \/ StopFails(w) \/ SetUpFails(w) \/ MemoriesSaved(w)
           \/ RunnerStops(w) \/ \E throws \in BOOLEAN : RunnerEnds(w, throws)
  <2>1. UNCHANGED <<item, beat, lease, stray>>
    BY <1>8 DEF AckAborted, SetUp, SkillsCleaned, MemoriesCutOff, HeartbeatEnded, AckFails,
       StopFails, SetUpFails, MemoriesSaved, RunnerStops, RunnerEnds
  <2> QED
    BY <1>t, <2>1, StillStep DEF SameItem
<1>9. CASE ReleaseLease(w) \/ ExternalAbort(w)
  <2>1. UNCHANGED <<item, beat, stray>>
    BY <1>9 DEF ReleaseLease, ExternalAbort
  <2>2. \A v \in Workers : lease[v].aborted => lease'[v].aborted
    BY <1>9, <1>t, FinishDoes DEF ReleaseLease, ExternalAbort, LeasesTyped
  <2> QED
    BY <1>t, <2>1, <2>2, StillStep DEF SameItem
<1>10. CASE StopReaches(w)
  <2>1. UNCHANGED <<beat, lease, stray>> /\ SameItem
    BY <1>10, <1>t DEF StopReaches, SameItem, ItemTyped
  <2> QED
    BY <1>t, <2>1, StillStep
<1> QED
  BY <1>1, <1>2, <1>3, <1>4, <1>5, <1>6, <1>7, <1>8, <1>9, <1>10 DEF Faulty, Handle

\* A renewal gives the item to w, whose stamp nobody else refers to; whoever owned it before is w.
LEMMA RenewalCovered ==
  ASSUME LeaseInv, NEW w \in Workers, NEW s, s \in {beat[w].last, beat[w].stamp, stray[w]}, Expected(s),
         FreeStamps # {}, item' = Renewed(w),
         \A v \in Workers \ {w} : beat'[v] = beat[v] /\ stray'[v] = stray[v] /\ (Live(v)' => Live(v)),
         beat'[w].since \in Nat, beat'[w].age \in Nat
  PROVE  \A v \in Workers : Covered(v)'
<1>1. /\ item'.stamp = FreshStamp /\ item'.left = ServerTtl /\ item'.holder = w
      /\ item.stamp = s
  BY RenewedIs, Parts DEF LeaseInv, Expected
<1>2. Covered(w)'
  <2>1. Owns(w)'
    BY <1>1, FreshIsFree DEF Owns
  <2>2. item'.left + (beat'[w].since + DefaultInterval) >= ServerTtl
        /\ item'.left + beat'[w].age >= ServerTtl
    BY <1>1, LeaseAssumption
  <2> QED
    BY <2>1, <2>2 DEF Covered, Covers
<1>3. ASSUME NEW v \in Workers \ {w} PROVE Covered(v)'
  <2>1. ~Owns(v)
    BY <1>1 DEF Owns
  <2> QED
    BY <1>3, <2>1 DEF Covered, Covers, LeaseInv
<1> QED
  BY <1>2, <1>3

LEMMA BeatReachesKeeps ==
  ASSUME LeaseInv, NEW w \in Workers, BeatReaches(w)
  PROVE  \A v \in Workers : Timely(v)' /\ Covered(v)'
<1>t. TypeOK /\ ItemTyped /\ BeatsTyped /\ beat[w] \in BeatType /\ Timely(w) /\ \A v \in Workers : Timely(v)
  BY Parts DEF LeaseInv, BeatsTyped
<1>u. UNCHANGED <<lease, stray>> /\ beat[w].at = "sent"
  BY DEF BeatReaches
<1>1. \/ /\ Expected(beat[w].last) /\ FreeStamps # {} /\ item' = Renewed(w)
         /\ beat' = [beat EXCEPT ![w].at = "answered", ![w].stamp = FreshStamp,
                                 ![w].reply = IF item.state = "active" THEN "ok" ELSE "stop"]
      \/ /\ item.stamp = beat[w].last /\ UNCHANGED item
         /\ beat' = [beat EXCEPT ![w].at = "answered", ![w].stamp = item.stamp, ![w].reply = "stop"]
      \/ /\ UNCHANGED item
         /\ beat' = [beat EXCEPT ![w].at = "answered", ![w].reply = "moved"]
  BY DEF BeatReaches
<1>3. \A v \in Workers \ {w} : beat'[v] = beat[v]
  BY <1>t, <1>1 DEF BeatsTyped
<1>4. /\ beat'[w].at = "answered" /\ beat'[w].last = beat[w].last
      /\ beat'[w].since = beat[w].since /\ beat'[w].age = beat[w].age
  BY <1>t, <1>1 DEF BeatType, BeatsTyped
<1>5. beat'[w].known = beat[w].known
  BY <1>t, <1>1 DEF BeatType, BeatsTyped
<1>2. \/ Expected(beat[w].last) /\ FreeStamps # {} /\ item' = Renewed(w)
      \/ item' = item /\ beat'[w].reply # "ok" /\ beat'[w].stamp \in {beat[w].last, beat[w].stamp}
  BY <1>t, <1>1 DEF BeatType, BeatsTyped
<1>6. Others(w) /\ (Live(w)' => Live(w))
  BY <1>u, <1>3 DEF Others, Live, Beating
<1>7. Timely(w)'
  <2>1. Ttl(w)' = Ttl(w) /\ Interval(w)' = Interval(w)
    BY <1>5 DEF Ttl, Interval
  <2> QED
    BY <1>t, <1>u, <1>4, <1>6, <2>1 DEF Timely, Waits
<1>8. \A v \in Workers : Timely(v)'
  BY <1>t, <1>6, <1>7, OthersTimely
<1>9. CASE Expected(beat[w].last) /\ FreeStamps # {} /\ item' = Renewed(w)
  <2>1. beat'[w].since \in Nat /\ beat'[w].age \in Nat
    BY <1>t, <1>4 DEF BeatType
  <2> QED
    BY <1>6, <1>8, <1>9, <2>1, RenewalCovered DEF Others
<1>10. CASE item' = item /\ beat'[w].reply # "ok" /\ beat'[w].stamp \in {beat[w].last, beat[w].stamp}
  <2>1. Quiet(w) /\ SameItem
    BY <1>u, <1>4, <1>5, <1>6, <1>10 DEF Quiet, NoNewRefs, NoNewClaims, Refs, SameItem
  <2> QED
    BY <1>t, <1>8, <2>1, QuietCovered DEF LeaseInv
<1> QED
  BY <1>2, <1>9, <1>10

LEMMA StrayReachesKeeps ==
  ASSUME LeaseInv, NEW w \in Workers, StrayReaches(w)
  PROVE  \A v \in Workers : Timely(v)' /\ Covered(v)'
<1>t. TypeOK /\ RestTyped /\ BeatsTyped /\ beat[w] \in BeatType /\ \A v \in Workers : Timely(v)
  BY Parts DEF LeaseInv, BeatsTyped
<1>1. /\ UNCHANGED <<beat, lease>> /\ stray' = [stray EXCEPT ![w] = NoStray]
      /\ Expected(stray[w]) => FreeStamps # {}
      /\ item' = IF Expected(stray[w]) THEN Renewed(w) ELSE item
  BY DEF StrayReaches
<1>2. stray'[w] = NoStray /\ \A v \in Workers \ {w} : stray'[v] = stray[v]
  BY <1>t, <1>1 DEF RestTyped
<1>3. \A v \in Workers : (Live(v)' <=> Live(v)) /\ beat'[v] = beat[v]
  BY <1>1 DEF Live, Beating
<1>4. \A v \in Workers : Timely(v)'
  BY <1>t, <1>3 DEF Timely, Ttl, Interval, Waits
<1>5. CASE Expected(stray[w])
  <2>1. beat'[w].since \in Nat /\ beat'[w].age \in Nat
    BY <1>t, <1>1 DEF BeatType
  <2> QED
    BY <1>1, <1>2, <1>3, <1>4, <1>5, <2>1, RenewalCovered
<1>6. CASE ~Expected(stray[w])
  <2>1. Quiet(w) /\ SameItem
    BY <1>1, <1>2, <1>3, <1>6 DEF Quiet, Others, NoNewRefs, NoNewClaims, Refs, SameItem
  <2> QED
    BY <1>t, <1>4, <2>1, QuietCovered DEF LeaseInv
<1> QED
  BY <1>5, <1>6

\* A success claims no more than the answer it came with.
LEMMA BeatOkKeeps ==
  ASSUME LeaseInv, NEW w \in Workers, BeatOk(w)
  PROVE  \A v \in Workers : Timely(v)' /\ Covered(v)'
<1>t. TypeOK /\ ItemTyped /\ BeatsTyped /\ beat[w] \in BeatType /\ Timely(w) /\ Covered(w)
      /\ \A v \in Workers : Timely(v)
  BY Parts DEF LeaseInv, BeatsTyped
<1>u. UNCHANGED <<item, lease, stray>> /\ beat[w].at = "answered" /\ beat[w].reply = "ok"
  BY DEF BeatOk
<1>1. CASE LoopEnds(w)
  <2>1. Quiet(w) /\ Timely(w)' /\ SameItem
    BY <1>t, <1>u, <1>1, LoopEndsDoes, SilentStep DEF SameItem, Refs
  <2> QED
    BY <1>t, <2>1, QuietCovered, OthersTimely DEF LeaseInv, Quiet
<1>2. CASE ~lease[w].aborted
           /\ beat' = [beat EXCEPT ![w] = [Silent EXCEPT !.at = "sleep", !.known = TRUE,
                                                         !.last = beat[w].stamp]]
  <2> DEFINE b == [Silent EXCEPT !.at = "sleep", !.known = TRUE, !.last = beat[w].stamp]
  <2>1. beat'[w] = b /\ \A v \in Workers \ {w} : beat'[v] = beat[v]
    BY <1>t, <1>2 DEF BeatsTyped
  <2>2. /\ b.at = "sleep" /\ b.reply = "none" /\ b.stamp = NoHeartbeat /\ b.last = beat[w].stamp
        /\ b.since = 0 /\ b.age = 0 /\ b.known = TRUE
    BY SilentType DEF BeatType
  <2> HIDE DEF b
  <2>3. Others(w) /\ Live(w)
    BY <1>u, <1>2, <2>1 DEF Others, Live, Beating
  <2>4. Timely(w)'
    <3>1. Ttl(w)' = ServerTtl /\ Interval(w)' \in Nat
      <4>1. ServerTtl \div 2 \in Int
        BY LeaseAssumption
      <4> QED
        BY <2>1, <2>2, <4>1, LeaseAssumption DEF Ttl, Interval, Largest, Least
    <3> QED
      BY <2>1, <2>2, <3>1, LeaseAssumption DEF Timely, Waits
  <2>5. \A v \in Workers : Timely(v)'
    BY <1>t, <2>3, <2>4, OthersTimely
  <2>6. ASSUME NEW v \in Workers, Owns(v) PROVE Owns(v)'
    <3>1. \A u \in Workers : beat'[u].last \in {beat[u].last, beat[u].stamp}
                            /\ beat'[u].stamp \in {NoHeartbeat, beat[u].stamp}
      BY <2>1, <2>2
    <3> QED
      BY <1>u, <2>6, <3>1 DEF Owns
  <2>7. Covered(w)'
    <3>1. beat[w].age <= DefaultInterval /\ beat[w].age \in Nat
      <4>1. beat[w].age \in Nat /\ Interval(w) \in Nat /\ Interval(w) <= DefaultInterval
        BY <1>t, Durations DEF BeatType
      <4>2. beat[w].age <= Interval(w)
        BY <1>t, <2>3 DEF Timely
      <4> QED
        BY <4>1, <4>2, LeaseAssumption
    <3>2. Covers(w, beat[w].age)
      BY <1>t, <1>u, <2>3 DEF Covered
    <3>3. Covers(w, DefaultInterval)'
      <4>1. CASE beat[w].age >= ServerTtl
        BY <3>1, <4>1, LeaseAssumption DEF Covers
      <4>2. CASE Owns(w) /\ item.left + beat[w].age >= ServerTtl
        <5>1. item.left \in Nat
          BY <1>t, LeaseAssumption DEF ItemTyped
        <5>2. Owns(w)'
          BY <4>2, <2>6 DEF Owns
        <5> QED
          BY <1>u, <3>1, <4>2, <5>1, <5>2, LeaseAssumption DEF Covers
      <4> QED
        BY <3>2, <4>1, <4>2 DEF Covers
    <3>4. beat'[w].since + DefaultInterval = DefaultInterval /\ beat'[w].reply = "none"
      BY <2>1, <2>2, LeaseAssumption
    <3> QED
      BY <3>3, <3>4 DEF Covered
  <2>8. ASSUME NEW v \in Workers \ {w} PROVE Covered(v)'
    BY <1>u, <2>1, <2>3, <2>6 DEF Covered, Covers, Others, Owns, LeaseInv
  <2> QED
    BY <2>5, <2>7, <2>8
<1> QED
  BY <1>1, <1>2 DEF BeatOk

\* A tick ages the claims as fast as it takes from the lease.
LEMMA TickKeeps ==
  ASSUME LeaseInv, Tick
  PROVE  \A v \in Workers : Timely(v)' /\ Covered(v)'
<1>t. ItemTyped /\ BeatsTyped
  BY Parts DEF LeaseInv
<1>i. item.left \in Nat /\ item'.stamp = item.stamp /\ item'.holder = item.holder
      /\ item'.left = IF item.left = 0 THEN 0 ELSE item.left - 1
  BY <1>t, LeaseAssumption DEF Tick, ItemTyped
<1>b. \A v \in Workers : beat'[v] = Older(beat[v]) /\ beat[v] \in BeatType
  BY <1>t DEF Tick, BeatsTyped
<1>1. ASSUME NEW v \in Workers PROVE Timely(v)' /\ Covered(v)'
  <2>1. /\ beat'[v].at = beat[v].at /\ beat'[v].known = beat[v].known /\ beat'[v].reply = beat[v].reply
        /\ beat'[v].since <= beat[v].since + 1
        /\ beat[v].at # "off" => /\ beat'[v].age = beat[v].age + 1
                                 /\ beat'[v].since = beat[v].since + 1 \/ beat'[v].since > ServerTtl
    BY <1>b, OlderDoes
  <2>2. /\ beat[v].age \in Nat /\ beat[v].since \in Nat
    BY <1>b DEF BeatType
  <2>3. beat'[v].since \in Nat /\ beat'[v].age \in Nat
    BY <1>b, OlderDoes DEF BeatType
  <2>4. UNCHANGED <<lease, stray>> /\ (Live(v)' <=> Live(v)) /\ Ttl(v)' = Ttl(v)
        /\ Interval(v)' = Interval(v) /\ (Waits(v)' <=> Waits(v))
    BY <2>1 DEF Tick, Live, Beating, Ttl, Interval, Waits
  <2>5. Ttl(v) \in Nat /\ Interval(v) \in Nat
    BY <1>b, Durations DEF BeatType
  <2>6. Timely(v)'
    <3>1. Live(v) => beat[v].age # Interval(v) /\ beat[v].at # "off"
      BY <1>b DEF Tick, Due, CutOffDue, Pending, NextBeatDue, Live, Beating, BeatType
    <3> QED
      BY <2>1, <2>2, <2>3, <2>4, <2>5, <3>1 DEF LeaseInv, Timely
  <2>7. Owns(v) => Owns(v)'
    <3>1. \A u \in Workers : beat'[u].last = beat[u].last /\ beat'[u].stamp = beat[u].stamp
      BY <1>b, OlderDoes
    <3> QED
      BY <1>i, <2>4, <3>1 DEF Owns
  <2>8. ASSUME NEW n \in Nat, NEW m \in Nat, Covers(v, n), m = n + 1 \/ m >= ServerTtl
        PROVE  Covers(v, m)'
    BY <1>i, <2>7, <2>8, LeaseAssumption DEF Covers
  <2>9. Covered(v)'
    <3>1. SUFFICES ASSUME Live(v)
                   PROVE  /\ beat'[v].known => Covers(v, beat[v].since + DefaultInterval)'
                          /\ beat'[v].reply = "ok" => Covers(v, beat[v].age)'
      BY <2>4 DEF Covered
    <3>2. beat[v].at # "off" /\ Covered(v)
      BY <3>1 DEF Live, Beating, LeaseInv
    <3>3. ASSUME beat'[v].known PROVE Covers(v, beat[v].since + DefaultInterval)'
      <4>1. Covers(v, beat[v].since + DefaultInterval)
        BY <2>1, <3>1, <3>2, <3>3 DEF Covered
      <4>2. \/ beat'[v].since + DefaultInterval = beat[v].since + DefaultInterval + 1
            \/ beat'[v].since + DefaultInterval >= ServerTtl
        BY <2>1, <2>2, <2>3, <3>2, LeaseAssumption
      <4>3. /\ beat[v].since + DefaultInterval \in Nat
            /\ beat'[v].since + DefaultInterval \in Nat
        BY <2>2, <2>3, LeaseAssumption
      <4> QED
        BY <2>8, <4>1, <4>2, <4>3
    <3>4. ASSUME beat'[v].reply = "ok" PROVE Covers(v, beat[v].age)'
      <4>1. Covers(v, beat[v].age)
        BY <2>1, <3>1, <3>2, <3>4 DEF Covered
      <4> QED
        BY <2>1, <2>2, <2>3, <2>8, <3>2, <4>1
    <3> QED
      BY <3>3, <3>4
  <2> QED
    BY <2>6, <2>9
<1> QED
  BY <1>1

\* The server takes the item back, and hands it out, only once the lease is used up.
LEMMA HandoverKeeps ==
  ASSUME LeaseInv, Lapse \/ \E w \in Workers : PollClaims(w)
  PROVE  \A v \in Workers : Timely(v)' /\ Covered(v)'
<1>1. UNCHANGED <<beat, lease, stray>>
  BY DEF Lapse, PollClaims
<1>2. \A v \in Workers : (Live(v)' <=> Live(v)) /\ Timely(v)'
  BY <1>1 DEF LeaseInv, Timely, Ttl, Interval, Waits, Live, Beating
<1>3. ASSUME NEW v \in Workers, NEW n \in Nat, Covers(v, n) PROVE n >= ServerTtl
  <2>1. CASE Lapse
    BY <1>3, <2>1, LeaseAssumption DEF Lapse, Covers
  <2>2. CASE \E w \in Workers : PollClaims(w)
    BY <1>3, <2>2, LeaseAssumption DEF PollClaims, Covers, Owns, LeaseInv, QueuedIsFree
  <2> QED
    BY <2>1, <2>2
<1>4. \A v \in Workers : beat[v].since + DefaultInterval \in Nat /\ beat[v].age \in Nat
  BY Parts, LeaseAssumption DEF LeaseInv, BeatsTyped, BeatType
<1> QED
  BY <1>1, <1>2, <1>3, <1>4 DEF LeaseInv, Covered, Covers

LEMMA AskToStopKeeps ==
  ASSUME LeaseInv, AskToStop
  PROVE  \A v \in Workers : Timely(v)' /\ Covered(v)'
<1>1. UNCHANGED <<beat, lease, stray>> /\ SameItem
  BY Parts DEF LeaseInv, AskToStop, ItemTyped, SameItem
<1>2. ASSUME NEW v \in Workers PROVE Timely(v)' /\ Covered(v)'
  BY <1>1, <1>2, StillStep, QuietCovered DEF LeaseInv
<1> QED
  BY <1>2

LEMMA QueuedStaysFree == LeaseInv /\ [Next]_vars => QueuedIsFree'
<1> SUFFICES ASSUME LeaseInv, [Next]_vars PROVE QueuedIsFree'
  OBVIOUS
<1>t. ItemTyped
  BY Parts DEF LeaseInv
<1>1. CASE Lapse \/ AskToStop \/ (\E w \in Workers : PollClaims(w) \/ StopReaches(w)) \/ Tick
  BY <1>t, <1>1 DEF Lapse, AskToStop, PollClaims, StopReaches, Tick, QueuedIsFree, LeaseInv, ItemTyped
<1>2. CASE \E w \in Workers : BeatReaches(w) \/ StrayReaches(w)
  <2>1. PICK w \in Workers : BeatReaches(w) \/ StrayReaches(w)
    BY <1>2
  <2>2. \/ item' = item
        \/ item.state \in {"active", "stopping"} /\ FreeStamps # {} /\ item' = Renewed(w)
    BY <2>1 DEF BeatReaches, StrayReaches, Expected
  <2> QED
    BY <1>t, <2>2, RenewedIs DEF QueuedIsFree, LeaseInv
<1>3. CASE UNCHANGED item
  BY <1>3 DEF QueuedIsFree, LeaseInv
<1>4. CASE \E w \in Workers :
             \/ Heartbeat(w) \/ Faulty(w) \/ (Handle(w) /\ ~StopReaches(w)) \/ SetUpFails(w)
             \/ MemoriesSaved(w) \/ (\E throws \in BOOLEAN : RunnerEnds(w, throws))
             \/ ExternalAbort(w) \/ Crash(w)
  BY <1>3, <1>4 DEF Heartbeat, BeatOk, BeatStop, BeatMoved, BeatCutOff, NextBeat, HeartbeatUnwinds,
     Faulty, BeatRejected, BeatFails, BeatRetried, AckFails, StopFails, Handle, AckSucceeds, AckAborted,
     SetUp, RunnerStops, RunnerEnds, SkillsCleaned, MemoriesCutOff, ReleaseLease, HeartbeatEnded,
     SetUpFails, MemoriesSaved, ExternalAbort, Crash
<1> QED
  BY <1>1, <1>2, <1>3, <1>4 DEF Next, vars

LEMMA StepKeepsInv == LeaseInv /\ [Next]_vars => LeaseInv'
<1> SUFFICES ASSUME LeaseInv, [Next]_vars PROVE LeaseInv'
  OBVIOUS
<1>1. TypeOK' /\ QueuedIsFree'
  BY StepKeepsType, QueuedStaysFree DEF LeaseInv
<1>2. CASE UNCHANGED vars
  BY <1>1, <1>2 DEF vars, LeaseInv, Timely, Covered, Covers, Owns, Ttl, Interval, Waits, Live, Beating
<1>3. CASE \E w \in Workers :
             \/ Faulty(w) \/ Handle(w) \/ SetUpFails(w) \/ MemoriesSaved(w)
             \/ (\E throws \in BOOLEAN : RunnerEnds(w, throws))
             \/ BeatStop(w) \/ BeatMoved(w) \/ BeatCutOff(w) \/ NextBeat(w) \/ HeartbeatUnwinds(w)
             \/ ExternalAbort(w) \/ Crash(w)
  <2>1. PICK w \in Workers : Quiet(w) /\ SameItem /\ Timely(w)'
    BY <1>3, QuietSteps
  <2> QED
    BY <1>1, <2>1, QuietCovered, OthersTimely DEF LeaseInv, Quiet
<1>4. CASE \E w \in Workers : BeatOk(w) \/ BeatReaches(w) \/ StrayReaches(w)
  BY <1>1, <1>4, BeatOkKeeps, BeatReachesKeeps, StrayReachesKeeps DEF LeaseInv
<1>5. CASE Tick \/ Lapse \/ AskToStop \/ \E w \in Workers : PollClaims(w)
  BY <1>1, <1>5, TickKeeps, HandoverKeeps, AskToStopKeeps DEF LeaseInv
<1> QED
  BY <1>2, <1>3, <1>4, <1>5 DEF Next, Heartbeat

(* The inductive invariant: what every worker may conclude from the last    *)
(* success of its heartbeats, and how old that success can be.              *)
THEOREM LeaseInvariant == Spec => []LeaseInv
<1>1. Init => LeaseInv
  <2> SUFFICES ASSUME Init PROVE LeaseInv
    OBVIOUS
  <2>1. TypeOK
    BY InitType
  <2>2. \A w \in Workers : ~Live(w)
    BY SilentType DEF Init, Live, Beating
  <2> QED
    BY <2>1, <2>2 DEF Init, LeaseInv, QueuedIsFree, Timely, Covered
<1> QED
  BY <1>1, StepKeepsInv, PTL DEF Spec

(* heartbeatLoop gives a lease up in time (worker.ts:666): a worker that    *)
(* goes on with its item had a success within the ttl and two intervals,    *)
(* however its beats were answered, failed or hung.                         *)
THEOREM LeaseIsGivenUp == Spec => []GivesUpInTime
<1>1. LeaseInv => GivesUpInTime
  <2> SUFFICES ASSUME LeaseInv, NEW w \in Workers, Live(w)
               PROVE  beat[w].since <= Ttl(w) + 2 * Interval(w)
    BY DEF GivesUpInTime
  <2>1. beat[w] \in BeatType
    BY Parts DEF LeaseInv, BeatsTyped
  <2>2. Ttl(w) \in Nat /\ Interval(w) \in Nat /\ beat[w].age \in Nat /\ beat[w].since \in Nat
    BY <2>1, Durations DEF BeatType
  <2> QED
    BY <2>2 DEF LeaseInv, Timely
<1> QED
  BY <1>1, LeaseInvariant, PTL

(* The expected_last_heartbeat precondition does its work: of two workers   *)
(* that both hold a success, at most one holds it from the current ttl.     *)
THEOREM LeaseIsExclusive == Spec => []FreshLeaseIsExclusive
<1>1. LeaseInv => FreshLeaseIsExclusive
  <2> SUFFICES ASSUME LeaseInv, NEW v \in Workers, NEW w \in Workers, v # w,
                      Live(v), Live(w), beat[v].known, beat[w].known
               PROVE  \E u \in {v, w} : beat[u].since + DefaultInterval >= ServerTtl
    BY DEF FreshLeaseIsExclusive
  <2>1. ~(Owns(v) /\ Owns(w))
    BY DEF Owns
  <2>2. /\ Covers(v, beat[v].since + DefaultInterval)
        /\ Covers(w, beat[w].since + DefaultInterval)
    BY DEF LeaseInv, Covered
  <2> QED
    BY <2>1, <2>2 DEF Covers
<1> QED
  BY <1>1, LeaseInvariant, PTL

(* A worker that lost its lease leaves without stopping the item, whatever  *)
(* the rest of its teardown records (worker.ts:605).                        *)
THEOREM LossIsFinal == Spec => NoStopAfterLoss
<1> DEFINE Kept(w) == Lost(w) /\ phase[w] \in Handling \cup {"await"} =>
                        phase'[w] \in {"poll", "exit"} \/ (Lost(w)' /\ phase'[w] # "stop")
<1>1. TypeOK /\ [Next]_vars => \A w \in Workers : Kept(w)
  <2> SUFFICES ASSUME TypeOK, [Next]_vars, NEW w \in Workers,
                      Lost(w), phase[w] \in Handling \cup {"await"}
               PROVE  phase'[w] \in {"poll", "exit"} \/ (Lost(w)' /\ phase'[w] # "stop")
    OBVIOUS
  <2>t. RestTyped /\ LeasesTyped
    BY Parts
  <2>1. phase[w] # "stop" /\ phase[w] # "ack" /\ phase[w] # "poll"
    BY DEF Handling
  <2>s. ASSUME lease'[w] = lease[w] \/ lease'[w].reason = lease[w].reason, phase'[w] # "stop"
        PROVE  Lost(w)' /\ phase'[w] # "stop"
    BY <2>s DEF Lost
  <2>2. CASE UNCHANGED <<phase, lease>>
    BY <2>1, <2>2, <2>s
  <2>3. CASE \E v \in Workers : Heartbeat(v) \/ Faulty(v)
    <3>1. PICK v \in Workers : Heartbeat(v) \/ Faulty(v)
      BY <2>3
    <3>2. CASE \E why \in {"heartbeat_stop", "lease_lost", "heartbeat_rejected", "assumed_lost"} :
                 Finish(v, why) /\ UNCHANGED phase
      <4>1. lease'[w].reason = lease[w].reason
        BY <2>t, <3>2, FinishDoes DEF Lost
      <4> QED
        BY <2>1, <2>s, <3>2, <4>1
    <3>3. CASE AckFails(v) \/ StopFails(v)
      <4>1. UNCHANGED lease /\ v # w /\ \E p : Become(v, p)
        BY <2>1, <3>3 DEF AckFails, StopFails, Done
      <4> QED
        BY <2>1, <2>t, <2>s, <4>1 DEF Become, RestTyped
    <3> QED
      BY <2>2, <3>1, <3>2, <3>3 DEF Heartbeat, BeatOk, BeatStop, BeatMoved, BeatCutOff, NextBeat,
         HeartbeatUnwinds, Faulty, BeatRejected, BeatFails, BeatRetried, GiveUpBeat, TryAgain
  <2>4. CASE \E v \in Workers : \/ Handle(v) \/ SetUpFails(v) \/ MemoriesSaved(v) \/ PollClaims(v)
                                \/ \E throws \in BOOLEAN : RunnerEnds(v, throws)
    <3>1. PICK v \in Workers : \/ Handle(v) \/ SetUpFails(v) \/ MemoriesSaved(v) \/ PollClaims(v)
                               \/ \E throws \in BOOLEAN : RunnerEnds(v, throws)
      BY <2>4
    <3>2. CASE v # w
      <4>1. phase'[w] = phase[w] /\ lease'[w] = lease[w]
        BY <2>t, <3>1, <3>2, FinishDoes DEF Handle, AckSucceeds, AckAborted, SetUp, RunnerStops, RunnerEnds,
           SkillsCleaned, MemoriesCutOff, ReleaseLease, HeartbeatEnded, StopReaches, SetUpFails,
           MemoriesSaved, AfterFinalSync, AfterFlush, PollClaims, Done, Become, RestTyped, LeasesTyped
      <4> QED
        BY <2>1, <2>s, <4>1
    <3>3. CASE v = w /\ HeartbeatEnded(w)
      BY <2>t, <3>3 DEF HeartbeatEnded, Done, Become, RestTyped
    <3>4. CASE v = w /\ ReleaseLease(w)
      <4>1. lease'[w].reason = lease[w].reason /\ phase'[w] = "await"
        BY <2>t, <3>4, FinishDoes DEF ReleaseLease, Lost, Become, RestTyped
      <4> QED
        BY <2>s, <4>1
    <3>5. CASE /\ v = w
               /\ \/ SetUp(w) \/ RunnerStops(w) \/ SkillsCleaned(w) \/ MemoriesCutOff(w) \/ SetUpFails(w)
                  \/ MemoriesSaved(w) \/ \E throws \in BOOLEAN : RunnerEnds(w, throws)
      <4>1. UNCHANGED lease /\ phase'[w] \in {"serve", "skills", "finish", "flush", "dispose"}
        BY <2>t, <3>5 DEF SetUp, RunnerStops, RunnerEnds, SkillsCleaned, MemoriesCutOff, SetUpFails,
           MemoriesSaved, AfterFinalSync, AfterFlush, Become, RestTyped
      <4> QED
        BY <2>s, <4>1
    <3>6. CASE v = w /\ (AckSucceeds(w) \/ AckAborted(w) \/ StopReaches(w) \/ PollClaims(w))
      BY <2>1, <3>6 DEF AckSucceeds, AckAborted, StopReaches, PollClaims
    <3> QED
      BY <3>1, <3>2, <3>3, <3>4, <3>5, <3>6 DEF Handle
  <2>5. CASE \E v \in Workers : ExternalAbort(v)
    <3>1. lease'[w].reason = lease[w].reason /\ phase'[w] = phase[w]
      BY <2>1, <2>5, <2>t DEF ExternalAbort, Become, LeasesTyped, RestTyped
    <3> QED
      BY <2>1, <2>s, <3>1
  <2>6. CASE \E v \in Workers : Crash(v)
    <3>1. PICK v \in Workers : Crash(v)
      BY <2>6
    <3>2. CASE v = w
      BY <2>t, <3>1, <3>2 DEF Crash, Done, Become, RestTyped
    <3>3. CASE v # w
      <4>1. phase'[w] = phase[w] /\ lease'[w] = lease[w]
        BY <2>t, <3>1, <3>3 DEF Crash, Done, Become, RestTyped, LeasesTyped
      <4> QED
        BY <2>1, <2>s, <4>1
    <3> QED
      BY <3>2, <3>3
  <2>7. CASE \/ Lapse \/ AskToStop \/ Tick \/ UNCHANGED vars
             \/ \E v \in Workers : BeatReaches(v) \/ StrayReaches(v)
    BY <2>2, <2>7 DEF Lapse, AskToStop, Tick, vars, BeatReaches, StrayReaches
  <2> QED
    BY <2>3, <2>4, <2>5, <2>6, <2>7 DEF Next
<1> QED
  BY <1>1, TypeCorrectness, PTL DEF Spec, NoStopAfterLoss

-----------------------------------------------------------------------------
(* A worker that meets no fault keeps its lease, for any number of workers  *)
(* and any ttl, interval and latency that satisfy Healthy.                  *)
(* The inductive invariant.  A worker is bound to the item from its claim   *)
(* until the last of its requests is off the wire; while the item is not    *)
(* stopped, only its holder is bound, and what is left of the lease covers  *)
(* the wait for the next renewal.                                           *)

Bound(u) == phase[u] = "ack" \/ Waits(u) \/ stray[u] # NoStray \/ Live(u)

Spare(u) ==
  /\ phase[u] = "ack" => item.left >= ServerTtl
  /\ Waits(u) => item.left + beat[u].age + MaxLatency + DefaultInterval >= ServerTtl
  /\ beat[u].reply \in {"ok", "stop"} => item.left + beat[u].age >= ServerTtl
  /\ Live(u) /\ beat[u].at = "sleep" => item.left + beat[u].age + MaxLatency >= ServerTtl
  /\ item.left > 0

Prompt(u) == Waits(u) => beat[u].age <= MaxLatency
Served(u) == phase[u] \in Handling /\ ~lease[u].aborted => Beating(u)
Kept(u)   == Bound(u) => item.state = "stopped" \/ (item.holder = u /\ Spare(u))

KeptInv == Healthy => \A u \in Workers : Prompt(u) /\ Served(u) /\ Kept(u)

-----------------------------------------------------------------------------
(* What an action leaves alone.                                             *)

\* Nothing of another worker changes but, at most, that its lease is aborted.
Alone(w) ==
  \A v \in Workers \ {w} :
    /\ phase'[v] = phase[v] /\ beat'[v] = beat[v] /\ stray'[v] = stray[v]
    /\ lease[v].aborted => lease'[v].aborted

LEMMA AloneKeeps ==
  ASSUME NEW w \in Workers, Alone(w), SameItem, item'.state = item.state \/ item'.state = "stopped",
         \A u \in Workers : Prompt(u) /\ Served(u) /\ Kept(u),
         Prompt(w)', Served(w)', Kept(w)'
  PROVE  \A u \in Workers : Prompt(u)' /\ Served(u)' /\ Kept(u)'
<1> SUFFICES ASSUME NEW u \in Workers, u # w PROVE Prompt(u)' /\ Served(u)' /\ Kept(u)'
  OBVIOUS
<1>1. phase'[u] = phase[u] /\ beat'[u] = beat[u] /\ stray'[u] = stray[u] /\ (Live(u)' => Live(u))
      /\ (lease[u].aborted => lease'[u].aborted)
  BY DEF Alone, Live, Beating
<1>2. (Bound(u)' => Bound(u)) /\ (Waits(u)' <=> Waits(u)) /\ Prompt(u)' /\ Served(u)'
  BY <1>1 DEF Bound, Waits, Prompt, Served, Beating
<1>3. Spare(u) => Spare(u)'
  BY <1>1, <1>2 DEF Spare, SameItem
<1> QED
  BY <1>2, <1>3 DEF Kept, SameItem

\* A renewal by whoever is bound: nobody else is.
LEMMA RenewalKeeps ==
  ASSUME LeaseInv, NEW w \in Workers, Bound(w), Alone(w),
         item.state \in {"active", "stopping"}, FreeStamps # {}, item' = Renewed(w),
         \A u \in Workers : Prompt(u) /\ Served(u) /\ Kept(u),
         Prompt(w)', Served(w)', beat'[w].age \in Nat
  PROVE  \A u \in Workers : Prompt(u)' /\ Served(u)' /\ Kept(u)'
<1>1. item'.left = ServerTtl /\ item'.holder = w
  BY RenewedIs, Parts DEF LeaseInv
<1>2. Kept(w)'
  BY <1>1, LeaseAssumption DEF Kept, Spare
<1>3. ASSUME NEW u \in Workers, u # w PROVE Prompt(u)' /\ Served(u)' /\ Kept(u)'
  <2>1. phase'[u] = phase[u] /\ beat'[u] = beat[u] /\ stray'[u] = stray[u] /\ (Live(u)' => Live(u))
        /\ (lease[u].aborted => lease'[u].aborted)
    BY <1>3 DEF Alone, Live, Beating
  <2>2. ~Bound(u)
    BY <1>3 DEF Kept
  <2> QED
    BY <2>1, <2>2 DEF Bound, Waits, Prompt, Served, Kept, Beating
<1> QED
  BY <1>2, <1>3

\* The cut-off of a beat never comes before its answer.
LEMMA CutOffIsLate ==
  ASSUME LeaseInv, Healthy, NEW w \in Workers
  PROVE  Interval(w) \in Nat /\ MaxLatency < Interval(w)
<1>1. beat[w].known \in BOOLEAN
  BY Parts DEF LeaseInv, BeatsTyped, BeatType
<1>2. ServerTtl \div 2 \in Int /\ MaxLatency + 1 <= ServerTtl \div 2
  BY LeaseAssumption DEF Healthy
<1> QED
  BY <1>1, <1>2, LeaseAssumption DEF Interval, Largest, Least, Healthy

-----------------------------------------------------------------------------
(* The steps of one worker that leave the lease as it is.                   *)

LEMMA BeatStepsKeep ==
  ASSUME LeaseInv, Healthy, NEW w \in Workers, Heartbeat(w),
         \A u \in Workers : Prompt(u) /\ Served(u) /\ Kept(u)
  PROVE  \A u \in Workers : Prompt(u)' /\ Served(u)' /\ Kept(u)'
<1>t. ItemTyped /\ BeatsTyped /\ LeasesTyped /\ RestTyped /\ beat[w] \in BeatType
      /\ item.left \in Nat /\ beat[w].age \in Nat /\ Answers(beat[w])
  BY Parts, LeaseAssumption DEF LeaseInv, BeatsTyped, BeatType, ItemTyped
<1>1. ASSUME BeatStop(w) \/ BeatMoved(w) \/ HeartbeatUnwinds(w) \/ (BeatOk(w) /\ lease[w].aborted)
      PROVE  /\ UNCHANGED <<item, phase>> /\ Alone(w) /\ beat'[w] = Silent /\ lease'[w].aborted
             /\ stray'[w] # NoStray => Bound(w)
  <2>1. LoopEnds(w) /\ UNCHANGED <<item, phase>> /\ Beating(w)
    BY <1>1 DEF BeatStop, BeatMoved, HeartbeatUnwinds, BeatOk, Beating
  <2>2. beat'[w] = Silent /\ \A v \in Workers \ {w} : beat'[v] = beat[v]
    BY <1>t, <2>1, LoopEndsDoes
  <2>3. \A v \in Workers \ {w} : stray'[v] = stray[v]
    BY <1>1, <1>t, AbandonDoes DEF BeatStop, BeatMoved, HeartbeatUnwinds, BeatOk
  <2>4. lease'[w].aborted /\ \A v \in Workers \ {w} : lease'[v] = lease[v]
    BY <1>1, <1>t, FinishDoes DEF BeatStop, BeatMoved, HeartbeatUnwinds, BeatOk
  <2>5. stray'[w] # NoStray => Bound(w)
    BY <1>1 DEF BeatStop, BeatMoved, HeartbeatUnwinds, BeatOk, Abandon, Bound, Waits
  <2> QED
    BY <2>1, <2>2, <2>3, <2>4, <2>5 DEF Alone
<1>2. CASE BeatStop(w) \/ BeatMoved(w) \/ HeartbeatUnwinds(w) \/ (BeatOk(w) /\ lease[w].aborted)
  <2>1. /\ UNCHANGED <<item, phase>> /\ Alone(w) /\ beat'[w] = Silent /\ lease'[w].aborted
        /\ stray'[w] # NoStray => Bound(w)
    BY <1>1, <1>2
  <2>2. ~Waits(w)' /\ ~Live(w)' /\ beat'[w].reply = "none"
    BY <2>1, SilentType DEF Waits, Live, Beating
  <2>3. Prompt(w)' /\ Served(w)'
    BY <2>1, <2>2 DEF Prompt, Served
  <2>4. Kept(w)'
    BY <2>1, <2>2 DEF Kept, Bound, Spare
  <2> QED
    BY <2>1, <2>3, <2>4, AloneKeeps DEF SameItem
<1>3. CASE BeatOk(w) /\ ~lease[w].aborted
  <2> DEFINE b == [Silent EXCEPT !.at = "sleep", !.known = TRUE, !.last = beat[w].stamp]
  <2>1. /\ UNCHANGED <<item, phase, lease, stray>> /\ beat' = [beat EXCEPT ![w] = b]
        /\ beat[w].at = "answered" /\ beat[w].reply = "ok"
    BY <1>3 DEF BeatOk
  <2>2. beat'[w] = b /\ \A v \in Workers \ {w} : beat'[v] = beat[v]
    BY <1>t, <2>1 DEF BeatsTyped
  <2>3. b.at = "sleep" /\ b.age = 0 /\ b.reply = "none"
    BY SilentType DEF BeatType
  <2> HIDE DEF b
  <2>4. ~Waits(w)' /\ Beating(w)' /\ Bound(w) /\ Waits(w)
    BY <2>1, <2>2, <2>3 DEF Waits, Beating, Bound
  <2>5. Kept(w)'
    BY <1>t, <2>1, <2>2, <2>3, <2>4, LeaseAssumption DEF Kept, Spare, Prompt
  <2>6. Prompt(w)' /\ Served(w)' /\ Alone(w)
    BY <2>1, <2>2, <2>4 DEF Prompt, Served, Alone
  <2> QED
    BY <2>1, <2>5, <2>6, AloneKeeps DEF SameItem
<1>4. ~BeatCutOff(w)
  <2>1. Interval(w) \in Nat /\ MaxLatency < Interval(w)
    BY CutOffIsLate
  <2>2. Waits(w) => beat[w].age # Interval(w)
    BY <1>t, <2>1, LeaseAssumption DEF Prompt
  <2> QED
    BY <2>2 DEF BeatCutOff, CutOffDue, Pending, Waits
<1>5. CASE NextBeat(w)
  <2> DEFINE b == [beat[w] EXCEPT !.at = "sent", !.age = 0]
  <2>1. /\ UNCHANGED <<item, phase, lease, stray>> /\ beat' = [beat EXCEPT ![w] = b]
        /\ beat[w].at = "sleep" /\ beat[w].age = Interval(w) /\ ~lease[w].aborted
    BY <1>5 DEF NextBeat, NextBeatDue
  <2>2. beat'[w] = b /\ \A v \in Workers \ {w} : beat'[v] = beat[v]
    BY <1>t, <2>1 DEF BeatsTyped
  <2>3. b.at = "sent" /\ b.age = 0 /\ b.reply = "none"
    BY <1>t, <2>1 DEF BeatType, Answers
  <2> HIDE DEF b
  <2>4. Waits(w)' /\ Beating(w)' /\ Bound(w) /\ Live(w)
    BY <2>1, <2>2, <2>3 DEF Waits, Beating, Bound, Live
  <2>5. Interval(w) <= DefaultInterval /\ Interval(w) \in Nat
    BY <1>t, Durations DEF BeatType
  <2>6. Kept(w)'
    BY <1>t, <2>1, <2>2, <2>3, <2>4, <2>5, LeaseAssumption DEF Kept, Spare
  <2>7. Prompt(w)' /\ Served(w)' /\ Alone(w)
    BY <2>1, <2>2, <2>3, <2>4, LeaseAssumption DEF Prompt, Served, Alone
  <2> QED
    BY <2>1, <2>6, <2>7, AloneKeeps DEF SameItem
<1> QED
  BY <1>2, <1>3, <1>4, <1>5 DEF Heartbeat

LEMMA HandlingKeeps ==
  ASSUME LeaseInv, NEW w \in Workers,
         \/ Handle(w) \/ SetUpFails(w) \/ MemoriesSaved(w)
         \/ (\E throws \in BOOLEAN : RunnerEnds(w, throws)) \/ ExternalAbort(w),
         \A u \in Workers : Prompt(u) /\ Served(u) /\ Kept(u)
  PROVE  \A u \in Workers : Prompt(u)' /\ Served(u)' /\ Kept(u)'
<1>t. ItemTyped /\ BeatsTyped /\ LeasesTyped /\ RestTyped /\ beat[w] \in BeatType
      /\ item.left \in Nat
  BY Parts, LeaseAssumption DEF LeaseInv, BeatsTyped, ItemTyped
<1>1. CASE AckSucceeds(w)
  <2> DEFINE b == [Silent EXCEPT !.at = "sent"]
  <2>1. /\ UNCHANGED <<item, stray>> /\ beat' = [beat EXCEPT ![w] = b] /\ phase[w] = "ack"
        /\ phase' = [phase EXCEPT ![w] = "setup"]
        /\ lease' = [lease EXCEPT ![w] = [reason |-> "none", aborted |-> FALSE]]
    BY <1>1 DEF AckSucceeds, Become
  <2>2. beat'[w] = b /\ Alone(w) /\ phase'[w] = "setup"
    BY <1>t, <2>1 DEF BeatsTyped, RestTyped, LeasesTyped, Alone
  <2>3. b.at = "sent" /\ b.age = 0 /\ b.reply = "none"
    BY SilentType DEF BeatType
  <2> HIDE DEF b
  <2>4. Waits(w)' /\ Beating(w)' /\ Bound(w)
    BY <2>1, <2>2, <2>3 DEF Waits, Beating, Bound
  <2>5. Kept(w)'
    BY <1>t, <2>1, <2>2, <2>3, <2>4, LeaseAssumption DEF Kept, Spare
  <2>6. Prompt(w)' /\ Served(w)'
    BY <2>2, <2>3, <2>4, LeaseAssumption DEF Prompt, Served
  <2> QED
    BY <2>1, <2>2, <2>5, <2>6, AloneKeeps DEF SameItem
<1>2. ASSUME UNCHANGED <<item, beat, stray>>, phase' = [phase EXCEPT ![w] = phase'[w]], phase'[w] # "ack",
             phase'[w] \in Handling /\ ~lease'[w].aborted => phase[w] \in Handling /\ ~lease[w].aborted,
             \A v \in Workers : lease[v].aborted => lease'[v].aborted
      PROVE  \A u \in Workers : Prompt(u)' /\ Served(u)' /\ Kept(u)'
  <2>1. Alone(w)
    BY <1>t, <1>2 DEF Alone, RestTyped
  <2>2. (Waits(w)' <=> Waits(w)) /\ (Live(w)' => Live(w)) /\ (Beating(w)' <=> Beating(w))
    BY <1>2 DEF Waits, Live, Beating
  <2>3. Prompt(w)' /\ Served(w)' /\ Kept(w)'
    BY <1>2, <2>2 DEF Prompt, Served, Kept, Bound, Spare
  <2> QED
    BY <1>2, <2>1, <2>3, AloneKeeps DEF SameItem
<1>3. CASE \/ AckAborted(w) \/ SetUp(w) \/ SkillsCleaned(w) \/ MemoriesCutOff(w) \/ HeartbeatEnded(w)
           \/ SetUpFails(w) \/ MemoriesSaved(w)
           \/ RunnerStops(w) \/ \E throws \in BOOLEAN : RunnerEnds(w, throws)
  <2>1. UNCHANGED <<item, beat, stray, lease>>
    BY <1>3 DEF AckAborted, SetUp, SkillsCleaned, MemoriesCutOff, HeartbeatEnded,
       SetUpFails, MemoriesSaved, RunnerStops, RunnerEnds
  <2>2. PICK p : phase' = [phase EXCEPT ![w] = p] /\ p # "ack" /\ (p \in Handling => phase[w] \in Handling)
    BY <1>3 DEF AckAborted, SetUp, SkillsCleaned, MemoriesCutOff, HeartbeatEnded,
       SetUpFails, MemoriesSaved, RunnerStops, RunnerEnds, AfterFinalSync, AfterFlush, Done, Become, Handling
  <2>3. phase'[w] = p
    BY <1>t, <2>2 DEF RestTyped
  <2> QED
    BY <1>2, <2>1, <2>2, <2>3
<1>4. CASE ReleaseLease(w)
  <2>1. phase' = [phase EXCEPT ![w] = "await"] /\ phase'[w] = "await" /\ UNCHANGED <<item, beat, stray>>
    BY <1>t, <1>4 DEF ReleaseLease, Become, RestTyped
  <2>2. \A v \in Workers : lease[v].aborted => lease'[v].aborted
    BY <1>t, <1>4, FinishDoes DEF ReleaseLease
  <2> QED
    BY <1>2, <2>1, <2>2 DEF Handling
<1>5. CASE ExternalAbort(w)
  <2>1. PICK p : phase' = [phase EXCEPT ![w] = p] /\ (p = phase[w] \/ (phase[w] = "poll" /\ p = "exit"))
    <3>1. phase = [phase EXCEPT ![w] = phase[w]]
      BY <1>t DEF RestTyped
    <3> QED
      BY <1>5, <3>1 DEF ExternalAbort, Become
  <2>2. phase'[w] = p
    BY <1>t, <2>1 DEF RestTyped
  <2>3. \A v \in Workers : lease[v].aborted => lease'[v].aborted
    BY <1>t, <1>5 DEF ExternalAbort, LeasesTyped
  <2>4. UNCHANGED <<item, beat, stray>>
    BY <1>5 DEF ExternalAbort
  <2>5. CASE p # "ack"
    BY <1>2, <2>1, <2>2, <2>3, <2>4, <2>5 DEF Handling
  <2>6. CASE p = "ack"
    <3>1. Alone(w) /\ UNCHANGED phase
      BY <1>t, <2>1, <2>3, <2>4, <2>6 DEF Alone, RestTyped
    <3>2. (Waits(w)' <=> Waits(w)) /\ (Live(w)' => Live(w)) /\ (Beating(w)' <=> Beating(w))
      BY <2>3, <2>4 DEF Waits, Live, Beating
    <3>3. Prompt(w)' /\ Served(w)' /\ Kept(w)'
      BY <2>3, <2>4, <3>1, <3>2 DEF Prompt, Served, Kept, Bound, Spare
    <3> QED
      BY <2>4, <3>1, <3>3, AloneKeeps DEF SameItem
  <2> QED
    BY <2>5, <2>6
<1>6. CASE StopReaches(w)
  <2>1. UNCHANGED <<beat, lease, stray>> /\ SameItem /\ item'.state = "stopped"
    BY <1>6, <1>t DEF StopReaches, SameItem, ItemTyped
  <2>2. Alone(w) /\ phase'[w] \notin Handling
    BY <1>6, <1>t, <2>1 DEF StopReaches, Done, Become, RestTyped, Alone, Handling
  <2>3. Prompt(w)' /\ Served(w)' /\ Kept(w)'
    BY <2>1, <2>2 DEF Prompt, Served, Kept, Waits
  <2> QED
    BY <2>1, <2>2, <2>3, AloneKeeps
<1> QED
  BY <1>1, <1>3, <1>4, <1>5, <1>6 DEF Handle

-----------------------------------------------------------------------------
(* The server's steps, and time.                                            *)

LEMMA ServerKeeps ==
  ASSUME LeaseInv, NEW w \in Workers, BeatReaches(w) \/ StrayReaches(w),
         \A u \in Workers : Prompt(u) /\ Served(u) /\ Kept(u)
  PROVE  \A u \in Workers : Prompt(u)' /\ Served(u)' /\ Kept(u)'
<1>t. ItemTyped /\ BeatsTyped /\ LeasesTyped /\ RestTyped /\ beat[w] \in BeatType
      /\ item.left \in Nat /\ beat[w].age \in Nat /\ Answers(beat[w])
  BY Parts, LeaseAssumption DEF LeaseInv, BeatsTyped, BeatType, ItemTyped
<1>1. CASE BeatReaches(w)
  <2>1. UNCHANGED <<phase, lease, stray>> /\ beat[w].at = "sent"
    BY <1>1 DEF BeatReaches
  <2>2. PICK s \in Stamps, r \in {"ok", "stop", "moved"} :
          /\ beat' = [beat EXCEPT ![w] = [beat[w] EXCEPT !.at = "answered", !.stamp = s, !.reply = r]]
          /\ \/ item.state \in {"active", "stopping"} /\ FreeStamps # {} /\ item' = Renewed(w)
             \/ item' = item /\ (r = "moved" \/ item.state = "stopped")
    <3>1. CASE /\ Expected(beat[w].last) /\ FreeStamps # {} /\ item' = Renewed(w)
               /\ beat' = [beat EXCEPT ![w].at = "answered", ![w].stamp = FreshStamp,
                                       ![w].reply = IF item.state = "active" THEN "ok" ELSE "stop"]
      BY <3>1, FreshIsFree DEF Expected
    <3>2. CASE /\ item.state = "stopped" /\ UNCHANGED item
               /\ beat' = [beat EXCEPT ![w].at = "answered", ![w].stamp = item.stamp, ![w].reply = "stop"]
      BY <1>t, <3>2 DEF ItemTyped
    <3>3. CASE UNCHANGED item /\ beat' = [beat EXCEPT ![w].at = "answered", ![w].reply = "moved"]
      <4>1. beat[w].stamp \in Stamps
        BY <1>t DEF BeatType
      <4>2. [beat[w] EXCEPT !.at = "answered", !.reply = "moved"]
              = [beat[w] EXCEPT !.at = "answered", !.stamp = beat[w].stamp, !.reply = "moved"]
        BY <1>t DEF BeatType
      <4>3. beat' = [beat EXCEPT ![w] = [beat[w] EXCEPT !.at = "answered", !.stamp = beat[w].stamp,
                                                        !.reply = "moved"]]
        BY <3>3, <4>2
      <4>4. item' = item
        BY <3>3
      <4> QED
        BY <4>1, <4>3, <4>4
    <3> QED
      BY <1>1, <3>1, <3>2, <3>3 DEF BeatReaches
  <2> DEFINE b == [beat[w] EXCEPT !.at = "answered", !.stamp = s, !.reply = r]
  <2>3. beat'[w] = b /\ \A v \in Workers \ {w} : beat'[v] = beat[v]
    BY <1>t, <2>2 DEF BeatsTyped
  <2>4. b.at = "answered" /\ b.age = beat[w].age /\ b.reply = r
    BY <1>t DEF BeatType
  <2> HIDE DEF b
  <2>5. Waits(w) /\ Waits(w)' /\ Bound(w) /\ Alone(w) /\ Beating(w)'
    BY <2>1, <2>3, <2>4 DEF Waits, Bound, Alone, Beating
  <2>6. Prompt(w)' /\ Served(w)'
    BY <2>3, <2>4, <2>5 DEF Prompt, Served
  <2>7. CASE item.state \in {"active", "stopping"} /\ FreeStamps # {} /\ item' = Renewed(w)
    BY <1>t, <2>3, <2>4, <2>5, <2>6, <2>7, RenewalKeeps
  <2>8. CASE item' = item /\ (r = "moved" \/ item.state = "stopped")
    <3>1. Kept(w)'
      BY <2>1, <2>3, <2>4, <2>5, <2>8 DEF Kept, Spare
    <3> QED
      BY <2>5, <2>6, <2>8, <3>1, AloneKeeps DEF SameItem
  <2> QED
    BY <2>2, <2>7, <2>8
<1>2. CASE StrayReaches(w)
  <2>1. /\ UNCHANGED <<phase, beat, lease>> /\ stray' = [stray EXCEPT ![w] = NoStray]
        /\ stray[w] # NoStray
        /\ \/ item.state \in {"active", "stopping"} /\ FreeStamps # {} /\ item' = Renewed(w)
           \/ item' = item
    BY <1>2 DEF StrayReaches, Expected
  <2>2. Alone(w) /\ Bound(w) /\ stray'[w] = NoStray
    BY <1>t, <2>1 DEF Alone, RestTyped, Bound
  <2>3. Prompt(w)' /\ Served(w)' /\ (Waits(w)' <=> Waits(w)) /\ (Live(w)' <=> Live(w))
    BY <2>1 DEF Prompt, Served, Waits, Live, Beating
  <2>4. CASE item.state \in {"active", "stopping"} /\ FreeStamps # {} /\ item' = Renewed(w)
    BY <1>t, <2>1, <2>2, <2>3, <2>4, RenewalKeeps
  <2>5. CASE item' = item
    <3>1. Kept(w)'
      BY <2>1, <2>2, <2>3, <2>5 DEF Kept, Spare
    <3> QED
      BY <2>2, <2>3, <2>5, <3>1, AloneKeeps DEF SameItem
  <2> QED
    BY <2>1, <2>4, <2>5
<1> QED
  BY <1>1, <1>2

\* Nobody is bound to an item that lapses or is handed out.
LEMMA HandoverKeepsHealth ==
  ASSUME LeaseInv, Lapse \/ AskToStop \/ \E w \in Workers : PollClaims(w),
         \A u \in Workers : Prompt(u) /\ Served(u) /\ Kept(u)
  PROVE  \A u \in Workers : Prompt(u)' /\ Served(u)' /\ Kept(u)'
<1>t. ItemTyped /\ BeatsTyped /\ RestTyped /\ Nobody \notin Workers
      /\ \A u \in Workers : Answers(beat[u])
  BY Parts, LeaseAssumption DEF LeaseInv, BeatsTyped
<1>1. UNCHANGED <<beat, lease, stray>>
  BY DEF Lapse, AskToStop, PollClaims
<1>2. \A u \in Workers : (Waits(u)' <=> Waits(u)) /\ (Live(u)' <=> Live(u)) /\ (Beating(u)' <=> Beating(u))
  BY <1>1 DEF Waits, Live, Beating
<1>3. CASE Lapse
  <2>1. \A u \in Workers : ~Bound(u)
    BY <1>3 DEF Lapse, Kept, Spare
  <2> QED
    BY <1>1, <1>2, <1>3, <2>1 DEF Lapse, Prompt, Served, Kept, Bound
<1>4. CASE AskToStop
  <2>1. UNCHANGED phase /\ SameItem /\ item.state # "stopped"
    BY <1>t, <1>4 DEF AskToStop, ItemTyped, SameItem
  <2> QED
    BY <1>1, <1>2, <2>1 DEF Prompt, Served, Kept, Bound, Spare, SameItem
<1>5. CASE \E w \in Workers : PollClaims(w)
  <2>1. PICK w \in Workers : PollClaims(w)
    BY <1>5
  <2>2. \A u \in Workers : ~Bound(u)
    BY <1>t, <2>1 DEF PollClaims, Kept, LeaseInv, QueuedIsFree
  <2>3. /\ item'.holder = w /\ item'.left = ServerTtl /\ phase'[w] = "ack"
        /\ \A v \in Workers \ {w} : phase'[v] = phase[v]
    BY <1>t, <2>1 DEF PollClaims, Become, RestTyped
  <2>4. ~Waits(w)' /\ ~Live(w)' /\ beat'[w].reply = "none"
    BY <1>1, <1>2, <1>t, <2>2 DEF Bound, Waits, Answers
  <2>5. Prompt(w)' /\ Served(w)' /\ Kept(w)'
    BY <2>3, <2>4, LeaseAssumption DEF Prompt, Served, Kept, Spare, Handling
  <2>6. ASSUME NEW u \in Workers, u # w PROVE Prompt(u)' /\ Served(u)' /\ Kept(u)'
    BY <1>1, <1>2, <2>2, <2>3, <2>6 DEF Prompt, Served, Kept, Bound
  <2> QED
    BY <2>5, <2>6
<1> QED
  BY <1>3, <1>4, <1>5

\* No request is slow and no timer due, so that whoever is bound has time to spare.
LEMMA TickKeepsHealth ==
  ASSUME LeaseInv, Healthy, Healthy', Tick,
         \A u \in Workers : Prompt(u) /\ Served(u) /\ Kept(u)
  PROVE  \A u \in Workers : Prompt(u)' /\ Served(u)' /\ Kept(u)'
<1>t. ItemTyped /\ BeatsTyped /\ item.left \in Nat
  BY Parts, LeaseAssumption DEF LeaseInv, ItemTyped
<1>1. \A u \in Workers : ~Slow(u)
  BY DEF Tick, Fault, Healthy
<1>2. UNCHANGED <<phase, lease, stray>> /\ item'.state = item.state /\ item'.holder = item.holder
      /\ item'.left = IF item.left = 0 THEN 0 ELSE item.left - 1
  BY <1>t DEF Tick, ItemTyped
<1> SUFFICES ASSUME NEW u \in Workers PROVE Prompt(u)' /\ Served(u)' /\ Kept(u)'
  OBVIOUS
<1>3. beat'[u] = Older(beat[u]) /\ beat[u] \in BeatType /\ Answers(beat[u])
  BY <1>t DEF Tick, BeatsTyped
<1>4. /\ beat'[u].at = beat[u].at /\ beat'[u].reply = beat[u].reply
      /\ beat[u].at # "off" => beat'[u].age = beat[u].age + 1
      /\ beat[u].age \in Nat
  BY <1>3, OlderDoes DEF BeatType
<1>5. (Waits(u)' <=> Waits(u)) /\ (Live(u)' <=> Live(u)) /\ (Beating(u)' <=> Beating(u))
      /\ (Bound(u)' <=> Bound(u))
  BY <1>2, <1>4 DEF Waits, Live, Beating, Bound
<1>6. Waits(u) => beat[u].age + 1 <= MaxLatency
  BY <1>1, <1>4, LeaseAssumption DEF Slow, Waits, Prompt
<1>7. Prompt(u)' /\ Served(u)'
  BY <1>2, <1>4, <1>5, <1>6 DEF Prompt, Served, Waits
<1>8. ASSUME Bound(u), item.state # "stopped" PROVE item.holder = u /\ Spare(u)'
  <2>1. item.holder = u /\ Spare(u) /\ phase[u] # "ack" /\ stray[u] = NoStray
    BY <1>1, <1>8 DEF Kept, Slow
  <2>2. Waits(u) \/ (Live(u) /\ beat[u].at = "sleep")
    BY <1>3, <1>8, <2>1 DEF Bound, Waits, Live, Beating, BeatType
  <2>3. CASE Waits(u)
    <3>1. beat[u].at # "off" /\ beat[u].at # "sleep"
      BY <2>3 DEF Waits
    <3> QED
      BY <1>2, <1>4, <1>5, <1>6, <1>t, <2>1, <2>3, <3>1, LeaseAssumption DEF Spare, Healthy
  <2>4. CASE Live(u) /\ beat[u].at = "sleep"
    <3>1. beat[u].age <= Interval(u) /\ Interval(u) \in Nat /\ Interval(u) <= DefaultInterval
      BY <1>3, <2>4, Durations DEF LeaseInv, Timely, BeatType
    <3>2. beat[u].age # Interval(u)
      BY <2>4 DEF Tick, Due, NextBeatDue
    <3>3. beat[u].age + 1 <= DefaultInterval
      BY <1>4, <3>1, <3>2, LeaseAssumption
    <3>4. ~Waits(u) /\ beat[u].reply = "none"
      BY <1>3, <2>4 DEF Waits, Answers
    <3> QED
      BY <1>2, <1>4, <1>5, <1>t, <2>1, <2>4, <3>3, <3>4, LeaseAssumption DEF Spare, Healthy
  <2> QED
    BY <2>1, <2>2, <2>3, <2>4
<1> QED
  BY <1>2, <1>5, <1>7, <1>8 DEF Kept

LEMMA StepKeepsHealth == LeaseInv /\ KeptInv /\ [Next]_vars => KeptInv'
<1> SUFFICES ASSUME LeaseInv, KeptInv, [Next]_vars, Healthy'
             PROVE  \A u \in Workers : Prompt(u)' /\ Served(u)' /\ Kept(u)'
  BY DEF KeptInv
<1>1. faults \in Nat /\ (faults' = faults \/ faults' = faults + 1)
  BY Parts DEF LeaseInv, RestTyped, Next, vars, Lapse, AskToStop, Tick, Fault, PollClaims, Heartbeat, BeatOk,
     BeatStop, BeatMoved, BeatCutOff, NextBeat, HeartbeatUnwinds, Faulty, BeatRejected, BeatFails,
     BeatRetried, AckFails, StopFails, BeatReaches, StrayReaches, SetUpFails, MemoriesSaved, RunnerEnds,
     ExternalAbort, Crash, Handle, AckSucceeds, AckAborted, SetUp, RunnerStops, SkillsCleaned,
     MemoriesCutOff, ReleaseLease, HeartbeatEnded, StopReaches
<1>2. Healthy /\ faults' = faults
  BY <1>1 DEF Healthy
<1>3. \A u \in Workers : Prompt(u) /\ Served(u) /\ Kept(u)
  BY <1>2 DEF KeptInv
<1>4. CASE UNCHANGED vars
  BY <1>3, <1>4 DEF vars, Prompt, Served, Kept, Bound, Spare, Waits, Live, Beating
<1>5. CASE \E w \in Workers : Faulty(w) \/ Crash(w)
  BY <1>1, <1>2, <1>5 DEF Faulty, Crash, BeatRejected, BeatFails, BeatRetried, AckFails, StopFails, Fault
<1>6. CASE \E w \in Workers : Heartbeat(w)
  BY <1>2, <1>3, <1>6, BeatStepsKeep
<1>7. CASE \E w \in Workers : \/ Handle(w) \/ SetUpFails(w) \/ MemoriesSaved(w)
                              \/ (\E throws \in BOOLEAN : RunnerEnds(w, throws)) \/ ExternalAbort(w)
  BY <1>3, <1>7, HandlingKeeps
<1>8. CASE \E w \in Workers : BeatReaches(w) \/ StrayReaches(w)
  BY <1>3, <1>8, ServerKeeps
<1>9. CASE Lapse \/ AskToStop \/ \E w \in Workers : PollClaims(w)
  BY <1>3, <1>9, HandoverKeepsHealth
<1>10. CASE Tick
  BY <1>2, <1>3, <1>10, TickKeepsHealth
<1> QED
  BY <1>4, <1>5, <1>6, <1>7, <1>8, <1>9, <1>10 DEF Next

(* The heartbeats start before anything is fetched and run until the        *)
(* teardown is over (worker.ts:462): without faults, a worker that nobody   *)
(* aborted still holds its item in every phase of handling it.              *)
THEOREM HealthyWorkerKeepsItsLease == Spec => []KeptWhileHealthy
<1>1. Init => KeptInv
  <2> SUFFICES ASSUME Init, NEW u \in Workers PROVE Prompt(u) /\ Served(u) /\ Kept(u)
    BY DEF KeptInv
  <2>1. ~Waits(u) /\ ~Live(u) /\ phase[u] = "poll" /\ stray[u] = NoStray
    BY SilentType DEF Init, Waits, Live, Beating
  <2> QED
    BY <2>1 DEF Prompt, Served, Kept, Bound, Handling
<1>2. KeptInv => KeptWhileHealthy
  <2> SUFFICES ASSUME KeptInv, Healthy, NEW w \in Workers, phase[w] \in Handling, ~lease[w].aborted
               PROVE  item.holder = w \/ item.state = "stopped"
    BY DEF KeptWhileHealthy
  <2>1. Served(w) /\ Kept(w)
    BY DEF KeptInv
  <2> QED
    BY <2>1 DEF Served, Kept, Bound, Live
<1> QED
  BY <1>1, <1>2, LeaseInvariant, StepKeepsHealth, PTL DEF Spec
===============================================================================
