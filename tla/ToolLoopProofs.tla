---------------------------- MODULE ToolLoopProofs ----------------------------
(***************************************************************************)
(* Theorems about ToolLoop, for any set-ups of a tool runner, any replies, *)
(* readers, tools and faults.  The first part is about one reply and its   *)
(* calls (EagerCalls), the second about the loop, the third about the      *)
(* history that the loop sends.                                            *)
(***************************************************************************)
EXTENDS ToolLoop, InductionLemmas

-----------------------------------------------------------------------------
(* One reply.                                                               *)

CallRec == [entry : {"none", "held", "started"}, at : {"none", "queued", "running", "ok", "error", "thrown"},
            early : BOOLEAN, runs : Nat]
ReaderRec == [on : BOOLEAN, handled : Nat, holds : BOOLEAN]
Streams(n) ==
  [eager : BOOLEAN, blocks : Seq(Blocks), stop : Stops, emitted : Nat, end : {"open", "stopped", "broken"},
   aborted : BOOLEAN, handed : 0..n, readers : [Readers -> ReaderRec], calls : [1..n -> CallRec],
   toolset : {"idle", "running", "waiting"}]
StreamTyped(s) == s \in Streams(Len(s.blocks))

\* What is known of a call that the entry and the state of it must agree on.
CallBooked(s, i) ==
  LET c == s.calls[i]
  IN /\ ~IsCall(s, i) => c.at = "none" /\ c.entry = "none"
     /\ c.early => s.eager /\ i <= s.handed
     /\ s.eager /\ c.entry # "started" => c.at = "none" /\ c.runs = 0 /\ ~c.early
     /\ s.eager => c.runs <= 1 /\ (c.at = "queued" => c.runs = 0 /\ ~c.early)
     /\ ~s.eager => c.entry = "none"
Booked(s) == (~s.eager => s.handed = 0) /\ \A i \in DOMAIN s.blocks : CallBooked(s, i)

\* Whoever asks for the results starts all that is left.
AllOrEarly(s) ==
  \A i, j \in CallsOf(s) : s.calls[i].entry = "started" /\ ~s.calls[i].early => s.calls[j].entry = "started"

\* A toolset's calls run in the model's order.
InOrder(s) ==
  \A i, j \in Members(s) : i < j /\ s.calls[j].at \in {"running", "ok"} => s.calls[i].at = "ok"

\* What the toolset's state says of its calls that were handed over.
Row(s) ==
  \A i \in Members(s) : i <= s.handed =>
    /\ s.toolset = "idle" => s.calls[i].at = "ok"
    /\ s.toolset = "running" =>
         \/ s.calls[i].at = "ok"
         \/ /\ s.calls[i].at = "running" /\ s.calls[i].early
            /\ \A j \in Members(s) : i < j => j > s.handed

StreamInv(s) == StreamTyped(s) /\ Booked(s) /\ AllOrEarly(s) /\ InOrder(s) /\ Row(s)

\* The same reply, of the same runner.
SameReply(s, t) == t.eager = s.eager /\ t.blocks = s.blocks /\ t.stop = s.stop
\* Nobody but the loop's own readers and calls has changed.
SameStream(s, t) ==
  SameReply(s, t) /\ t.emitted = s.emitted /\ t.end = s.end /\ t.aborted = s.aborted /\ t.readers = s.readers

LEMMA Shape ==
  ASSUME NEW s, StreamTyped(s)
  PROVE  /\ s.blocks \in Seq(Blocks) /\ Len(s.blocks) \in Nat /\ DOMAIN s.blocks = 1..Len(s.blocks)
         /\ DOMAIN s.calls = 1..Len(s.blocks) /\ s.handed \in 0..Len(s.blocks)
         /\ \A i \in DOMAIN s.blocks : s.calls[i] \in CallRec /\ s.blocks[i] \in Blocks
         /\ Members(s) \subseteq CallsOf(s) /\ CallsOf(s) \subseteq DOMAIN s.blocks
         /\ s.calls \in [1..Len(s.blocks) -> CallRec] /\ s.readers \in [Readers -> ReaderRec]
         /\ s.emitted \in Nat /\ s.toolset \in {"idle", "running", "waiting"} /\ s.eager \in BOOLEAN
         /\ s.aborted \in BOOLEAN /\ s.stop \in Stops /\ s.end \in {"open", "stopped", "broken"}
<1>1. s.blocks \in Seq(Blocks)
  BY DEF StreamTyped, Streams
<1>2. Len(s.blocks) \in Nat /\ DOMAIN s.blocks = 1..Len(s.blocks)
  BY <1>1
<1>3. \A i \in DOMAIN s.blocks : s.blocks[i] \in Blocks
  BY <1>1
<1>4. Members(s) \subseteq CallsOf(s) /\ CallsOf(s) \subseteq DOMAIN s.blocks
  BY DEF Members, CallsOf, IsCall
<1>5. s.calls \in [1..Len(s.blocks) -> CallRec]
  BY DEF StreamTyped, Streams
<1> QED
  BY <1>1, <1>2, <1>3, <1>4, <1>5 DEF StreamTyped, Streams

LEMMA SameBlocks ==
  ASSUME NEW s, NEW t, t.blocks = s.blocks
  PROVE  Members(t) = Members(s) /\ CallsOf(t) = CallsOf(s) /\ \A i : IsCall(t, i) <=> IsCall(s, i)
  BY DEF Members, CallsOf, IsCall

\* A step that changes nothing about the calls of a reply.
LEMMA CallsKept ==
  ASSUME NEW s, NEW t, StreamInv(s), StreamTyped(t), SameReply(s, t), t.calls = s.calls, t.handed = s.handed,
         t.toolset \in {s.toolset, "waiting"}
  PROVE  StreamInv(t)
<1>1. Members(t) = Members(s) /\ CallsOf(t) = CallsOf(s) /\ \A i : IsCall(t, i) <=> IsCall(s, i)
  BY SameBlocks DEF SameReply
<1> QED
  BY <1>1 DEF StreamInv, SameReply, Booked, CallBooked, AllOrEarly, InOrder, Row

(* onToolCall.                                                              *)

Hand(s, i) == [OnToolCall(s, i) EXCEPT !.handed = i]

\* The next call in the model's order is handed over: it starts, or it is known, or its toolset is not free.
LEMMA OnToolCallKeeps ==
  ASSUME NEW s, StreamInv(s), s.eager, NEW i \in CallsOf(s), s.handed < i,
         \A j \in Members(s) : j < i => j <= s.handed,
         NEW t, t = Hand(s, i)
  PROVE  /\ StreamInv(t) /\ SameStream(s, t) /\ t.handed = i
         /\ \A j \in DOMAIN s.blocks : j # i => t.calls[j] = s.calls[j]
         /\ t.calls[i].early /\ ~s.calls[i].early => s.calls[i].entry = "none"
<1> DEFINE c == s.calls[i]
           started == [entry |-> "started", at |-> "running", early |-> TRUE, runs |-> c.runs + 1]
           n == Len(s.blocks)
<1>1. /\ i \in DOMAIN s.blocks /\ c \in CallRec /\ s.toolset \in {"idle", "running", "waiting"}
      /\ i \in 0..n /\ n \in Nat /\ s.handed \in Nat /\ i \in Nat /\ i \in 1..n
      /\ DOMAIN s.blocks = 1..n
      /\ s.calls \in [1..n -> CallRec] /\ s.blocks[i] \in {"tool", "member"}
  <2>1. i \in DOMAIN s.blocks /\ s.blocks[i] \in {"tool", "member"}
    BY DEF CallsOf, IsCall
  <2> QED
    BY <2>1, Shape DEF StreamInv
<1>2. s \in Streams(n)
  BY DEF StreamInv, StreamTyped
<1>3. started \in CallRec
  BY <1>1 DEF CallRec
<1> HIDE DEF n
\* What the step does, field by field.
<1>4. /\ t \in Streams(n) /\ SameStream(s, t) /\ t.handed = i
      /\ \/ /\ t.calls = [s.calls EXCEPT ![i] = started] /\ c.entry = "none"
            /\ IF s.blocks[i] = "member" THEN s.toolset = "idle" /\ t.toolset = "running" ELSE t.toolset = s.toolset
         \/ /\ t.calls = s.calls
            /\ IF s.blocks[i] = "member" THEN t.toolset = "waiting" ELSE t.toolset = s.toolset
  <2>1. CASE s.blocks[i] = "member" /\ (c.entry # "none" \/ s.toolset # "idle")
    <3>1. OnToolCall(s, i) = [s EXCEPT !.toolset = "waiting"]
      BY <2>1 DEF OnToolCall
    <3>2. t = [[s EXCEPT !.toolset = "waiting"] EXCEPT !.handed = i]
      BY <3>1 DEF Hand
    <3> QED
      BY <1>1, <1>2, <2>1, <3>2 DEF Streams, SameStream, SameReply
  <2>2. CASE s.blocks[i] = "member" /\ c.entry = "none" /\ s.toolset = "idle"
    <3>1. OnToolCall(s, i) = [Begin(s, i, TRUE) EXCEPT !.toolset = "running"]
      BY <2>2 DEF OnToolCall
    <3>2. Begin(s, i, TRUE) = [s EXCEPT !.calls = [s.calls EXCEPT ![i] = started]]
      BY <1>1, <1>2 DEF Begin, Streams
    <3>3. t = [[[s EXCEPT !.calls = [s.calls EXCEPT ![i] = started]] EXCEPT !.toolset = "running"] EXCEPT !.handed = i]
      BY <3>1, <3>2 DEF Hand
    <3>4. [s.calls EXCEPT ![i] = started] \in [1..n -> CallRec]
      BY <1>1, <1>3
    <3> DEFINE u == [s EXCEPT !.calls = [s.calls EXCEPT ![i] = started]]
               v == [u EXCEPT !.toolset = "running"]
    <3> HIDE DEF started
    <3>5. u \in Streams(n) /\ SameStream(s, u) /\ u.calls = [s.calls EXCEPT ![i] = started] /\ u.toolset = s.toolset
      BY ONLY <1>2, <3>4 DEF Streams, SameStream, SameReply
    <3>6. t = [v EXCEPT !.handed = i]
      BY <3>3
    <3> HIDE DEF u
    <3>7. v \in Streams(n) /\ SameStream(s, v) /\ v.calls = u.calls /\ v.toolset = "running"
      BY ONLY <3>5 DEF Streams, SameStream, SameReply
    <3> HIDE DEF v
    <3>8. t \in Streams(n) /\ SameStream(s, t) /\ t.calls = v.calls /\ t.toolset = v.toolset /\ t.handed = i
      BY ONLY <1>1, <3>6, <3>7 DEF Streams, SameStream, SameReply
    <3> QED
      BY <2>2, <3>5, <3>7, <3>8
  <2>3. CASE s.blocks[i] # "member" /\ c.entry # "none"
    <3>1. OnToolCall(s, i) = s
      BY <2>3 DEF OnToolCall
    <3>2. t = [s EXCEPT !.handed = i]
      BY <3>1 DEF Hand
    <3> QED
      BY <1>1, <1>2, <2>3, <3>2 DEF Streams, SameStream, SameReply
  <2>4. CASE s.blocks[i] # "member" /\ c.entry = "none"
    <3>1. OnToolCall(s, i) = Begin(s, i, TRUE)
      BY <2>4 DEF OnToolCall
    <3>2. Begin(s, i, TRUE) = [s EXCEPT !.calls = [s.calls EXCEPT ![i] = started]]
      BY <1>1, <1>2 DEF Begin, Streams
    <3>3. t = [[s EXCEPT !.calls = [s.calls EXCEPT ![i] = started]] EXCEPT !.handed = i]
      BY <3>1, <3>2 DEF Hand
    <3>4. [s.calls EXCEPT ![i] = started] \in [1..n -> CallRec]
      BY <1>1, <1>3
    <3> HIDE DEF started
    <3> QED
      BY <1>1, <1>2, <2>4, <3>3, <3>4 DEF Streams, SameStream, SameReply
  <2> QED
    BY <2>1, <2>2, <2>3, <2>4
<1>5. /\ StreamTyped(t)
      /\ \A j \in DOMAIN s.blocks : j # i => t.calls[j] = s.calls[j]
      /\ \/ /\ t.calls[i] = started /\ c.entry = "none"
            /\ IF s.blocks[i] = "member" THEN s.toolset = "idle" /\ t.toolset = "running" ELSE t.toolset = s.toolset
         \/ /\ t.calls[i] = c
            /\ IF s.blocks[i] = "member" THEN t.toolset = "waiting" ELSE t.toolset = s.toolset
  <2>1. StreamTyped(t)
    BY <1>4 DEF StreamTyped, SameStream, SameReply, n
  <2>2. ASSUME t.calls = [s.calls EXCEPT ![i] = started]
        PROVE  t.calls[i] = started /\ \A j \in DOMAIN s.blocks : j # i => t.calls[j] = s.calls[j]
    <3> HIDE DEF started
    <3> QED
      BY <1>1, <2>2
  <2> HIDE DEF started
  <2> QED
    BY <1>4, <2>1, <2>2
<1>6. /\ t.blocks = s.blocks /\ t.eager = s.eager /\ Members(t) = Members(s) /\ CallsOf(t) = CallsOf(s)
      /\ \A j : IsCall(t, j) <=> IsCall(s, j)
  <2>1. t.blocks = s.blocks /\ t.eager = s.eager
    BY <1>4 DEF SameStream, SameReply
  <2> QED
    BY <2>1, SameBlocks
<1>7. /\ Booked(s) /\ AllOrEarly(s) /\ InOrder(s) /\ Row(s)
      /\ Members(s) \subseteq CallsOf(s) /\ CallsOf(s) \subseteq DOMAIN s.blocks
  BY Shape DEF StreamInv
<1>8. IsCall(s, i) /\ (i \in Members(s) <=> s.blocks[i] = "member")
  BY <1>1 DEF CallsOf, Members, IsCall
<1>9. t.calls[i].entry = "started" \/ t.calls[i] = c
  BY <1>5
<1>10. c.entry = "none" => c.at = "none" /\ c.runs = 0 /\ ~c.early
  BY <1>1, <1>7 DEF Booked, CallBooked, CallRec
<1>11. Booked(t)
  <2>1. CallBooked(t, i)
    <3>1. CASE t.calls[i] = started /\ c.entry = "none"
      <4>1. IsCall(t, i) /\ t.eager
        BY <1>6, <1>8
      <4>2. t.calls[i].early /\ t.calls[i].entry = "started" /\ t.calls[i].at = "running" /\ t.calls[i].runs = c.runs + 1
        BY <3>1
      <4>3. c.runs + 1 = 1 /\ i <= t.handed
        BY <1>1, <1>4, <1>10, <3>1
      <4> QED
        BY <4>1, <4>2, <4>3 DEF CallBooked
    <3>2. CASE t.calls[i] = c
      <4>1. CallBooked(s, i)
        BY <1>1, <1>7 DEF Booked
      <4>2. IsCall(t, i) /\ t.eager
        BY <1>6, <1>8
      <4>3. i <= t.handed
        BY <1>1, <1>4
      <4> QED
        BY <3>2, <4>1, <4>2, <4>3 DEF CallBooked
    <3> QED
      BY <1>5, <3>1, <3>2
  <2>2. ASSUME NEW j \in DOMAIN s.blocks, j # i PROVE CallBooked(t, j)
    <3>1. CallBooked(s, j) /\ t.calls[j] = s.calls[j]
      BY <1>5, <1>7, <2>2 DEF Booked
    <3>2. j <= s.handed => j <= t.handed
      BY <1>1, <1>4
    <3> QED
      BY <1>6, <3>1, <3>2 DEF CallBooked
  <2> QED
    BY <1>6, <2>1, <2>2 DEF Booked
<1>12. AllOrEarly(t)
  <2> SUFFICES ASSUME NEW j \in CallsOf(s), NEW k \in CallsOf(s), t.calls[j].entry = "started", ~t.calls[j].early
               PROVE  t.calls[k].entry = "started"
    BY <1>6 DEF AllOrEarly
  <2>1. s.calls[j].entry = "started" /\ ~s.calls[j].early
    BY <1>5, <1>7
  <2>2. s.calls[k].entry = "started"
    BY <1>7, <2>1 DEF AllOrEarly
  <2> QED
    BY <1>5, <1>7, <2>2
\* A call that starts here finds that no later call was started, and that all earlier ones of its toolset ended well.
<1>13. t.calls[i] = started /\ s.blocks[i] = "member" /\ c.entry = "none" /\ s.toolset = "idle"
         => /\ \A j \in Members(s) : j < i => s.calls[j].at = "ok"
            /\ \A j \in Members(s) : i < j => s.calls[j].at = "none"
  <2> SUFFICES ASSUME c.entry = "none", s.toolset = "idle"
               PROVE  /\ \A j \in Members(s) : j < i => s.calls[j].at = "ok"
                      /\ \A j \in Members(s) : i < j => s.calls[j].at = "none"
    OBVIOUS
  <2>1. \A j \in Members(s) : j < i => s.calls[j].at = "ok"
    BY <1>7 DEF Row
  <2>2. ASSUME NEW j \in Members(s), i < j PROVE s.calls[j].at = "none"
    <3>1. ~(j <= s.handed)
      BY <1>1, <1>7, <2>2
    <3>2. ~s.calls[j].early
      BY <1>7, <3>1 DEF Booked, CallBooked
    <3>3. s.calls[j].entry # "started"
      BY <1>7, <3>2 DEF AllOrEarly
    <3> QED
      BY <1>7, <3>3 DEF Booked, CallBooked
  <2> QED
    BY <2>1, <2>2
<1>14. InOrder(t)
  <2> SUFFICES ASSUME NEW j \in Members(s), NEW k \in Members(s), j < k, t.calls[k].at \in {"running", "ok"}
               PROVE  t.calls[j].at = "ok"
    BY <1>6 DEF InOrder
  <2>1. CASE t.calls[i] = c
    BY <1>5, <1>7, <2>1 DEF InOrder
  <2>2. CASE t.calls[i] = started /\ s.blocks[i] # "member"
    BY <1>5, <1>7, <1>8, <2>2 DEF InOrder
  <2>3. CASE t.calls[i] = started /\ t.calls[i] # c /\ s.blocks[i] = "member"
    <3>1. c.entry = "none" /\ s.toolset = "idle"
      BY <1>5, <2>3
    <3>2. k <= i
      <4>1. ~(i < k)
        BY <1>5, <1>7, <1>13, <2>3, <3>1
      <4> QED
        BY <1>1, <1>7, <4>1
    <3>3. j # i /\ j < i
      BY <1>1, <1>7, <3>2
    <3> QED
      BY <1>5, <1>7, <1>13, <2>3, <3>1, <3>3
  <2> QED
    BY <1>5, <2>1, <2>2, <2>3
<1>15. Row(t)
  <2> SUFFICES ASSUME NEW j \in Members(s), j <= i
               PROVE  /\ t.toolset = "idle" => t.calls[j].at = "ok"
                      /\ t.toolset = "running" =>
                           \/ t.calls[j].at = "ok"
                           \/ /\ t.calls[j].at = "running" /\ t.calls[j].early
                              /\ \A k \in Members(s) : j < k => k > i
    BY <1>4, <1>6 DEF Row
  <2>1. CASE s.blocks[i] = "member" /\ t.toolset = "waiting"
    BY <2>1
  <2>2. CASE s.blocks[i] = "member" /\ t.toolset = "running" /\ t.calls[i] = started /\ c.entry = "none" /\ s.toolset = "idle"
    <3>1. CASE j = i
      BY <2>2, <3>1
    <3>2. CASE j # i
      BY <1>1, <1>5, <1>7, <1>13, <2>2, <3>2
    <3> QED
      BY <3>1, <3>2
  <2>3. CASE s.blocks[i] # "member" /\ t.toolset = s.toolset
    <3>1. j # i /\ j < i /\ j <= s.handed
      BY <1>1, <1>7, <1>8, <2>3
    <3>2. \A k \in Members(s) : k > s.handed => k > i
      BY <1>1, <1>7, <1>8, <2>3
    <3> QED
      BY <1>5, <1>7, <2>3, <3>1, <3>2 DEF Row
  <2> QED
    BY <1>5, <2>1, <2>2, <2>3
<1>16. t.calls[i].early /\ ~c.early => c.entry = "none"
  BY <1>5
<1> QED
  BY <1>4, <1>5, <1>11, <1>12, <1>14, <1>15, <1>16 DEF StreamInv


-----------------------------------------------------------------------------
(* Release: the calls that are ready are handed over, one after the other.  *)

Hands(s, ready, f) ==
  f = [n \in 0..Len(s.blocks) |->
         IF n = 0 THEN s
         ELSE IF n \in ready THEN [OnToolCall(f[n - 1], n) EXCEPT !.handed = n]
         ELSE f[n - 1]]

\* The function that hands over up to each place exists: it can be extended by one place after another.
LEMMA HandsFunction ==
  ASSUME NEW s, Len(s.blocks) \in Nat, NEW ready
  PROVE  \E f : Hands(s, ready, f)
<1> DEFINE UpTo(m, f) ==
      f = [n \in 0..m |->
             IF n = 0 THEN s
             ELSE IF n \in ready THEN [OnToolCall(f[n - 1], n) EXCEPT !.handed = n]
             ELSE f[n - 1]]
    T == {m \in Nat : \E f : UpTo(m, f)}
<1>1. 0 \in T
  <2>1. UpTo(0, [n \in 0..0 |-> s])
    OBVIOUS
  <2> QED
    BY <2>1
<1>2. ASSUME NEW m \in Nat, m \in T
      PROVE  m + 1 \in T
  <2>1. PICK f : UpTo(m, f)
    BY <1>2
  <2> DEFINE g == [n \in 0..m + 1 |->
        IF n <= m THEN f[n]
        ELSE IF n \in ready THEN [OnToolCall(f[m], n) EXCEPT !.handed = n]
        ELSE f[m]]
  <2>2. ASSUME NEW n \in 0..m + 1
        PROVE  g[n] = IF n = 0 THEN s
                      ELSE IF n \in ready THEN [OnToolCall(g[n - 1], n) EXCEPT !.handed = n]
                      ELSE g[n - 1]
    <3>1. CASE n = 0
      BY <2>1, <3>1
    <3>2. CASE n # 0 /\ n <= m
      <4>1. n \in 0..m /\ n - 1 \in 0..m /\ n - 1 \in 0..m + 1 /\ n - 1 <= m
        BY <3>2
      <4>2. g[n] = f[n] /\ g[n - 1] = f[n - 1]
        BY <3>2, <4>1
      <4>3. f[n] = IF n = 0 THEN s
                   ELSE IF n \in ready THEN [OnToolCall(f[n - 1], n) EXCEPT !.handed = n]
                   ELSE f[n - 1]
        BY <2>1, <4>1
      <4> QED
        BY <4>2, <4>3
    <3>3. CASE n = m + 1
      <4>1. m \in 0..m + 1 /\ m + 1 \in 0..m + 1 /\ ~(m + 1 <= m) /\ (m + 1) - 1 = m /\ m + 1 # 0
        OBVIOUS
      <4>2. g[m + 1] = IF m + 1 \in ready THEN [OnToolCall(f[m], m + 1) EXCEPT !.handed = m + 1] ELSE f[m]
        BY <4>1
      <4>3. g[m] = f[m]
        BY <4>1
      <4> QED
        BY <3>3, <4>1, <4>2, <4>3
    <3> QED
      BY <3>1, <3>2, <3>3
  <2>3. UpTo(m + 1, g)
    BY <2>2
  <2> HIDE DEF UpTo, g
  <2> QED
    BY <2>3
<1>3. Len(s.blocks) \in T
  <2> HIDE DEF T
  <2> QED
    BY <1>1, <1>2, Induction
<1> QED
  BY <1>3 DEF Hands

\* What has become of s when the ready calls up to place n are handed over.
HandedTo(s, ready, n, a) ==
  /\ StreamInv(a) /\ SameStream(s, a)
  /\ a.handed = s.handed \/ (a.handed \in ready /\ a.handed <= n)
  /\ \A j \in ready : j <= n => j <= a.handed
  /\ \A j \in DOMAIN s.blocks : j > n \/ j \notin ready => a.calls[j] = s.calls[j]
  /\ \A j \in DOMAIN s.blocks : a.calls[j].early /\ ~s.calls[j].early => j \in ready /\ s.calls[j].entry = "none"

\* The calls that may be handed over: none that was, and none before one that is left out.
MayHandOver(s, ready) ==
  /\ ready \subseteq {i \in CallsOf(s) : i > s.handed}
  /\ \A i \in ready, j \in CallsOf(s) : s.handed < j /\ j < i => j \in ready

LEMMA OneHanded ==
  ASSUME NEW s, StreamInv(s), s.eager, NEW ready, MayHandOver(s, ready), NEW m \in Nat, m + 1 \in ready,
         NEW a, HandedTo(s, ready, m, a), NEW t, t = Hand(a, m + 1)
  PROVE  HandedTo(s, ready, m + 1, t)
<1>1. /\ StreamInv(a) /\ SameStream(s, a) /\ a.blocks = s.blocks /\ a.eager
      /\ CallsOf(a) = CallsOf(s) /\ Members(a) = Members(s)
  <2>1. StreamInv(a) /\ SameStream(s, a) /\ a.blocks = s.blocks /\ a.eager
    BY DEF HandedTo, SameStream, SameReply
  <2> QED
    BY <2>1, SameBlocks
<1>2. /\ Members(s) \subseteq CallsOf(s) /\ CallsOf(s) \subseteq DOMAIN s.blocks
      /\ DOMAIN s.blocks = 1..Len(s.blocks) /\ Len(s.blocks) \in Nat /\ s.handed \in Nat /\ a.handed \in Nat
  BY <1>1, Shape DEF StreamInv
<1>3. m + 1 \in CallsOf(s) /\ m + 1 > s.handed /\ m + 1 \in DOMAIN s.blocks
  BY <1>2 DEF MayHandOver
<1>4. a.handed < m + 1
  BY <1>2, <1>3 DEF HandedTo
<1>5. ASSUME NEW j \in Members(s), j < m + 1
      PROVE  j <= a.handed
  <2>1. j \in CallsOf(s) /\ j \in Nat
    BY <1>2
  <2>2. CASE j <= s.handed
    <3>1. \A r \in ready : r > s.handed /\ r \in Nat
      BY <1>2 DEF MayHandOver
    <3>2. s.handed <= a.handed
      BY <1>2, <3>1 DEF HandedTo
    <3> QED
      BY <1>2, <2>1, <2>2, <3>2
  <2>3. CASE s.handed < j
    <3>1. j \in ready
      BY <1>5, <2>1, <2>3 DEF MayHandOver
    <3>2. j <= m
      BY <1>5, <2>1
    <3> QED
      BY <3>1, <3>2 DEF HandedTo
  <2> QED
    BY <1>2, <2>1, <2>2, <2>3
<1>6. /\ StreamInv(t) /\ SameStream(a, t) /\ t.handed = m + 1
      /\ \A j \in DOMAIN a.blocks : j # m + 1 => t.calls[j] = a.calls[j]
      /\ t.calls[m + 1].early /\ ~a.calls[m + 1].early => a.calls[m + 1].entry = "none"
  <2>1. m + 1 \in CallsOf(a) /\ \A j \in Members(a) : j < m + 1 => j <= a.handed
    BY <1>1, <1>3, <1>5
  <2> DEFINE i == m + 1
  <2>2. /\ i \in CallsOf(a) /\ a.handed < i /\ t = Hand(a, i)
        /\ \A j \in Members(a) : j < i => j <= a.handed
    BY <1>4, <2>1
  <2> HIDE DEF i
  <2>3. /\ StreamInv(t) /\ SameStream(a, t) /\ t.handed = i
        /\ \A j \in DOMAIN a.blocks : j # i => t.calls[j] = a.calls[j]
        /\ t.calls[i].early /\ ~a.calls[i].early => a.calls[i].entry = "none"
    BY <1>1, <2>2, OnToolCallKeeps
  <2> QED
    BY <2>3 DEF i
<1>7. SameStream(s, t)
  BY <1>1, <1>6 DEF SameStream, SameReply
<1>8. \A j \in ready : j \in Nat
  BY <1>2 DEF MayHandOver
<1>9. a.calls[m + 1] = s.calls[m + 1]
  <2>1. m + 1 > m
    OBVIOUS
  <2> QED
    BY <1>3, <2>1 DEF HandedTo
<1>10. ASSUME NEW j \in DOMAIN s.blocks, j > m + 1 \/ j \notin ready
       PROVE  t.calls[j] = s.calls[j]
  <2>1. j # m + 1 /\ (j > m \/ j \notin ready)
    BY <1>2, <1>10
  <2>2. a.calls[j] = s.calls[j]
    BY <2>1 DEF HandedTo
  <2> QED
    BY <1>1, <1>6, <2>1, <2>2
<1>11. ASSUME NEW j \in DOMAIN s.blocks, t.calls[j].early, ~s.calls[j].early
       PROVE  j \in ready /\ s.calls[j].entry = "none"
  <2>1. CASE j = m + 1
    BY <1>6, <1>9, <1>11, <2>1
  <2>2. CASE j # m + 1
    <3>1. a.calls[j] = t.calls[j]
      BY <1>1, <1>6, <2>2
    <3> QED
      BY <1>11, <3>1 DEF HandedTo
  <2> QED
    BY <2>1, <2>2
<1>12. \A j \in ready : j <= m + 1 => j <= t.handed
  BY <1>6
<1>13. t.handed \in ready /\ t.handed <= m + 1
  BY <1>6
<1> QED
  BY <1>6, <1>7, <1>10, <1>11, <1>12, <1>13 DEF HandedTo

LEMMA HandOverKeeps ==
  ASSUME NEW s, StreamInv(s), s.eager, NEW ready, MayHandOver(s, ready)
  PROVE  HandedTo(s, ready, Len(s.blocks), HandOver(s, ready))
<1> DEFINE n == Len(s.blocks)
           f == CHOOSE g : Hands(s, ready, g)
<1>1. HandOver(s, ready) = f[n]
  BY DEF HandOver, Hands
<1>2. n \in Nat /\ DOMAIN s.blocks = 1..n /\ s.handed \in Nat /\ CallsOf(s) \subseteq 1..n
  BY Shape DEF StreamInv
<1>3. Hands(s, ready, f)
  BY <1>2, HandsFunction
<1> HIDE DEF f
<1>4. \A k \in 0..n : f[k] = IF k = 0 THEN s
                             ELSE IF k \in ready THEN [OnToolCall(f[k - 1], k) EXCEPT !.handed = k]
                             ELSE f[k - 1]
  BY <1>3 DEF Hands
<1> HIDE DEF n
<1> DEFINE T == {k \in Nat : k <= n => HandedTo(s, ready, k, f[k])}
<1>5. 0 \in T
  <2>1. 0 \in 0..n /\ f[0] = s
    <3>1. 0 \in 0..n
      BY <1>2 DEF n
    <3> QED
      BY <1>4, <3>1
  <2>2. SameStream(s, s)
    BY DEF SameStream, SameReply
  <2>3. \A j \in ready : ~(j <= 0)
    BY <1>2 DEF MayHandOver
  <2> QED
    BY <2>1, <2>2, <2>3 DEF HandedTo
<1>6. ASSUME NEW m \in Nat, m \in T
      PROVE  m + 1 \in T
  <2> SUFFICES ASSUME m + 1 <= n
               PROVE  HandedTo(s, ready, m + 1, f[m + 1])
    OBVIOUS
  <2>1. m + 1 \in 0..n /\ m + 1 # 0 /\ (m + 1) - 1 = m /\ m <= n
    BY <1>2
  <2>2. HandedTo(s, ready, m, f[m])
    BY <1>6, <2>1
  <2>3. CASE m + 1 \in ready
    <3>1. f[m + 1] = [OnToolCall(f[m], m + 1) EXCEPT !.handed = m + 1]
      BY <1>4, <2>1, <2>3
    <3>2. f[m + 1] = Hand(f[m], m + 1)
      BY <3>1 DEF Hand
    <3> QED
      BY <2>2, <2>3, <3>2, OneHanded
  <2>4. CASE m + 1 \notin ready
    <3>1. f[m + 1] = f[m]
      BY <1>4, <2>1, <2>4
    <3>2. \A j \in ready : j \in Nat /\ (j <= m + 1 => j <= m)
      BY <1>2, <2>4 DEF MayHandOver
    <3>3. \A j \in DOMAIN s.blocks : j > m + 1 \/ j \notin ready => j > m \/ j \notin ready
      BY <1>2
    <3> QED
      BY <2>2, <3>1, <3>2, <3>3 DEF HandedTo
  <2> QED
    BY <2>3, <2>4
<1>7. n \in T
  <2> HIDE DEF T
  <2> QED
    BY <1>2, <1>5, <1>6, Induction
<1>8. HandedTo(s, ready, n, f[n])
  BY <1>2, <1>7
<1> QED
  BY <1>1, <1>8 DEF n

\* A call that starts early starts in time: the body of DeferIsInTime.
EarlyInTime(s, t) ==
  \A i \in DOMAIN s.calls :
    t.calls[i].early /\ ~s.calls[i].early =>
      /\ t.end # "broken" /\ ~t.aborted
      /\ s.calls[i].entry = "none"
      /\ \A k \in Active(t) : t.readers[k].handled >= MovedOn(i)

LEMMA HandledBounds ==
  ASSUME NEW s, StreamTyped(s)
  PROVE  /\ Handled(s) \in Nat /\ Handled(s) <= s.emitted
         /\ \A k \in Active(s) : Handled(s) <= s.readers[k].handled /\ s.readers[k].handled \in Nat
<1> DEFINE T == {s.emitted} \cup {s.readers[k].handled : k \in Active(s)}
<1>1. s.emitted \in Nat /\ s.readers \in [Readers -> ReaderRec]
  BY Shape
<1>2. \A k \in Active(s) : s.readers[k].handled \in Nat
  BY <1>1 DEF Active, ReaderRec
<1>3. T \subseteq Nat /\ T # {} /\ s.emitted \in T /\ \A k \in Active(s) : s.readers[k].handled \in T
  BY <1>1, <1>2
<1>4. Handled(s) = Min(T)
  BY DEF Handled
<1> HIDE DEF T
<1> QED
  BY <1>2, <1>3, <1>4, MinOfNaturals

LEMMA ReleaseKeeps ==
  ASSUME NEW s, StreamInv(s), NEW t, t = Release(s)
  PROVE  /\ StreamInv(t) /\ SameStream(s, t) /\ EarlyInTime(s, t)
         /\ ~s.eager \/ s.end = "broken" \/ s.aborted => t = s
<1>1. CASE ~s.eager \/ s.end = "broken" \/ s.aborted
  <2>1. t = s
    BY <1>1 DEF Release
  <2> QED
    BY <2>1 DEF SameStream, SameReply, EarlyInTime
<1>2. CASE ~(~s.eager \/ s.end = "broken" \/ s.aborted)
  <2> DEFINE ready == {i \in s.handed + 1..Len(s.blocks) : HandsOver(s, i) /\ MovedOn(i) <= Handled(s)}
  <2>1. t = HandOver(s, ready)
    BY <1>2 DEF Release
  <2>2. /\ s.handed \in Nat /\ Len(s.blocks) \in Nat /\ DOMAIN s.blocks = 1..Len(s.blocks)
        /\ DOMAIN s.calls = 1..Len(s.blocks) /\ CallsOf(s) \subseteq 1..Len(s.blocks)
    BY Shape DEF StreamInv
  <2>3. Handled(s) \in Nat /\ \A k \in Active(s) : Handled(s) <= s.readers[k].handled /\ s.readers[k].handled \in Nat
    BY HandledBounds DEF StreamInv
  <2>4. MayHandOver(s, ready)
    <3>1. ready \subseteq {i \in CallsOf(s) : i > s.handed}
      BY <2>2 DEF HandsOver, CallsOf
    <3>2. ASSUME NEW i \in ready, NEW j \in CallsOf(s), s.handed < j, j < i
          PROVE  j \in ready
      <4>1. i \in 1..Len(s.blocks) /\ j \in 1..Len(s.blocks) /\ j \in s.handed + 1..Len(s.blocks) /\ j # Len(s.blocks)
        BY <2>2, <3>2
      <4>2. IsCall(s, j)
        BY DEF CallsOf
      <4>3. \A k \in DOMAIN s.blocks : k <= j + 1 => k <= i + 1
        BY <2>2, <3>2, <4>1
      <4>4. HandsOver(s, j)
        BY <4>1, <4>2, <4>3 DEF HandsOver
      <4>5. MovedOn(j) <= Handled(s)
        BY <2>3, <3>2, <4>1 DEF MovedOn
      <4> QED
        BY <4>1, <4>4, <4>5
    <3> QED
      BY <3>1, <3>2 DEF MayHandOver
  <2>5. HandedTo(s, ready, Len(s.blocks), t)
    <3> HIDE DEF ready
    <3> QED
      BY <1>2, <2>1, <2>4, HandOverKeeps
  <2>6. StreamInv(t) /\ SameStream(s, t)
    BY <2>5 DEF HandedTo
  <2>7. EarlyInTime(s, t)
    <3> SUFFICES ASSUME NEW i \in 1..Len(s.blocks), t.calls[i].early, ~s.calls[i].early
                 PROVE  /\ t.end # "broken" /\ ~t.aborted
                        /\ s.calls[i].entry = "none"
                        /\ \A k \in Active(t) : t.readers[k].handled >= MovedOn(i)
      BY <2>2 DEF EarlyInTime
    <3>1. i \in ready /\ s.calls[i].entry = "none"
      BY <2>2, <2>5 DEF HandedTo
    <3>2. t.end # "broken" /\ ~t.aborted /\ t.readers = s.readers
      BY <1>2, <2>6 DEF SameStream
    <3>3. MovedOn(i) <= Handled(s) /\ MovedOn(i) \in Nat
      BY <3>1 DEF MovedOn
    <3>4. \A k \in Active(t) : t.readers[k].handled >= MovedOn(i)
      BY <2>3, <3>2, <3>3 DEF Active
    <3> QED
      BY <3>1, <3>2, <3>4
  <2> QED
    BY <1>2, <2>6, <2>7
<1> QED
  BY <1>1, <1>2

-----------------------------------------------------------------------------
(* What else happens to a reply.                                            *)

SameRuns(s, t) ==
  \A i \in DOMAIN s.blocks : t.calls[i].at = s.calls[i].at /\ t.calls[i].runs = s.calls[i].runs

\* The same reply goes on.
Moves(s, t) ==
  /\ StreamInv(t) /\ SameReply(s, t) /\ EarlyInTime(s, t)
  /\ \A k \in Readers : t.readers[k].on => s.readers[k].on
  /\ s.aborted => t.aborted
  /\ s.emitted <= t.emitted

\* The same, and nothing starts but early.
Rests(s, t) == Moves(s, t) /\ (~s.eager \/ s.aborted => SameRuns(s, t))

\* Nothing is done about the calls.
LEMMA CallsKeptMoves ==
  ASSUME NEW s, NEW t, StreamInv(s), StreamTyped(t), SameReply(s, t), t.calls = s.calls, t.handed = s.handed,
         t.toolset \in {s.toolset, "waiting"}
  PROVE  StreamInv(t) /\ EarlyInTime(s, t) /\ SameRuns(s, t)
  BY CallsKept DEF EarlyInTime, SameRuns

LEMMA DeliverKeeps ==
  ASSUME NEW s, StreamInv(s), s.end = "open", NEW t, t = Deliver(s)
  PROVE  Rests(s, t) /\ t.end \in {"open", "stopped"} /\ t.aborted = s.aborted /\ t.readers = s.readers
<1> DEFINE u == [s EXCEPT !.emitted = @ + 1, !.end = IF s.emitted + 1 = Events(s) THEN "stopped" ELSE @]
<1>1. t = Release(u)
  BY DEF Deliver
<1>2. s \in Streams(Len(s.blocks)) /\ s.emitted \in Nat
  BY DEF StreamInv, StreamTyped, Streams
<1>3. /\ SameReply(s, u) /\ u.readers = s.readers /\ u.aborted = s.aborted /\ u.emitted = s.emitted + 1
      /\ u.end \in {"open", "stopped"} /\ u.calls = s.calls /\ u.handed = s.handed /\ u.toolset = s.toolset
  BY <1>2 DEF Streams, SameReply
<1>4. u \in Streams(Len(s.blocks))
  <2> DEFINE e == IF s.emitted + 1 = Events(s) THEN "stopped" ELSE s.end
             m == s.emitted + 1
  <2>1. e \in {"open", "stopped"} /\ m \in Nat
    BY <1>2
  <2>2. u = [s EXCEPT !.emitted = m, !.end = e]
    BY <1>2 DEF Streams
  <2> HIDE DEF e, m, u
  <2> QED
    BY <1>2, <2>1, <2>2 DEF Streams
<1>5. StreamTyped(u)
  BY <1>3, <1>4 DEF StreamTyped, SameReply
<1> HIDE DEF u
<1>6. StreamInv(u) /\ SameRuns(s, u)
  BY <1>3, <1>5, CallsKeptMoves
<1>7. /\ StreamInv(t) /\ SameStream(u, t) /\ EarlyInTime(u, t)
      /\ ~u.eager \/ u.end = "broken" \/ u.aborted => t = u
  BY <1>1, <1>6, ReleaseKeeps
<1>8. SameReply(s, t) /\ EarlyInTime(s, t) /\ s.emitted <= t.emitted
  BY <1>2, <1>3, <1>7 DEF SameStream, SameReply, EarlyInTime
<1>9. ~s.eager \/ s.aborted => SameRuns(s, t)
  BY <1>3, <1>6, <1>7 DEF SameReply
<1> QED
  BY <1>3, <1>7, <1>8, <1>9 DEF Moves, Rests, SameStream

LEMMA DeferKeeps ==
  ASSUME NEW s, StreamInv(s), NEW i \in CallsOf(s), NEW t, t = Defer(s, i)
  PROVE  /\ Rests(s, t) /\ SameRuns(s, t) /\ SameStream(s, t)
         /\ \A j \in DOMAIN s.blocks : t.calls[j].early = s.calls[j].early
         /\ \A j \in DOMAIN s.blocks : t.calls[j].entry = "none" => s.calls[j].entry = "none"
<1>1. CASE s.eager /\ s.calls[i].entry = "none"
  <2> DEFINE c == [s.calls[i] EXCEPT !.entry = "held"]
             n == Len(s.blocks)
  <2>1. /\ n \in Nat /\ DOMAIN s.blocks = 1..n /\ DOMAIN s.calls = 1..n /\ s.calls \in [1..n -> CallRec] /\ i \in 1..n
        /\ s \in Streams(n) /\ Members(s) \subseteq CallsOf(s) /\ CallsOf(s) \subseteq 1..n /\ s.calls[i] \in CallRec
        /\ s.emitted \in Nat
    BY Shape DEF StreamInv, StreamTyped
  <2>2. /\ c \in CallRec /\ c.entry = "held" /\ c.at = s.calls[i].at /\ c.early = s.calls[i].early
        /\ c.runs = s.calls[i].runs
    BY <2>1 DEF CallRec
  <2> HIDE DEF n
  <2>3. t = [s EXCEPT !.calls = [s.calls EXCEPT ![i] = c]]
    BY <1>1, <2>1 DEF Defer, Streams
  <2> HIDE DEF c
  <2>4. [s.calls EXCEPT ![i] = c] \in [1..n -> CallRec]
    BY <2>1, <2>2
  <2>5. /\ t \in Streams(n) /\ SameStream(s, t) /\ t.handed = s.handed /\ t.toolset = s.toolset
        /\ t.calls = [s.calls EXCEPT ![i] = c]
    BY <2>1, <2>3, <2>4 DEF Streams, SameStream, SameReply
  <2>6. t.calls[i] = c /\ \A j \in 1..n : j # i => t.calls[j] = s.calls[j]
    BY <2>1, <2>5
  <2>7. StreamTyped(t) /\ t.blocks = s.blocks /\ t.eager = s.eager
    BY <2>5 DEF StreamTyped, SameStream, SameReply, n
  <2>8. Members(t) = Members(s) /\ CallsOf(t) = CallsOf(s) /\ \A j : IsCall(t, j) <=> IsCall(s, j)
    BY <2>7, SameBlocks
  <2>9. Booked(s) /\ AllOrEarly(s) /\ InOrder(s) /\ Row(s) /\ IsCall(s, i)
    BY DEF StreamInv, CallsOf
  <2>10. Booked(t)
    <3>1. CallBooked(t, i)
      <4>1. CallBooked(s, i)
        BY <2>1, <2>9 DEF Booked
      <4> QED
        BY <1>1, <2>2, <2>5, <2>6, <2>7, <2>8, <2>9, <4>1 DEF CallBooked
    <3>2. ASSUME NEW j \in 1..n, j # i PROVE CallBooked(t, j)
      <4>1. CallBooked(s, j) /\ t.calls[j] = s.calls[j]
        BY <2>1, <2>6, <2>9, <3>2 DEF Booked
      <4> QED
        BY <2>5, <2>7, <2>8, <4>1 DEF CallBooked
    <3> QED
      BY <2>1, <2>5, <2>7, <2>9, <3>1, <3>2 DEF Booked
  <2>11. /\ \A j \in 1..n : t.calls[j].at = s.calls[j].at /\ t.calls[j].early = s.calls[j].early
         /\ \A j \in 1..n : t.calls[j].runs = s.calls[j].runs
         /\ \A j \in 1..n : (t.calls[j].entry = "started") = (s.calls[j].entry = "started")
    <3>1. c.entry # "started" /\ s.calls[i].entry # "started"
      BY <1>1, <2>2
    <3> QED
      BY <2>2, <2>6, <3>1
  <2>12. \A j \in 1..n : t.calls[j].entry = "none" => s.calls[j].entry = "none"
    BY <1>1, <2>6
  <2>13. AllOrEarly(t) /\ InOrder(t) /\ Row(t)
    BY <2>1, <2>5, <2>8, <2>9, <2>11 DEF AllOrEarly, InOrder, Row
  <2>14. SameRuns(s, t) /\ EarlyInTime(s, t)
    BY <2>1, <2>11 DEF SameRuns, EarlyInTime
  <2>15. StreamInv(t) /\ SameReply(s, t) /\ t.readers = s.readers /\ t.aborted = s.aborted /\ t.emitted = s.emitted
    BY <2>5, <2>7, <2>10, <2>13 DEF StreamInv, SameStream
  <2>16. Rests(s, t)
    BY <2>1, <2>14, <2>15 DEF Rests, Moves
  <2> QED
    BY <2>1, <2>5, <2>11, <2>12, <2>14, <2>16
<1>2. CASE ~(s.eager /\ s.calls[i].entry = "none")
  <2>1. t = s
    BY <1>2 DEF Defer
  <2>2. s.emitted \in Nat
    BY Shape DEF StreamInv
  <2> QED
    BY <2>1, <2>2 DEF SameStream, SameReply, Rests, Moves, SameRuns, EarlyInTime
<1> QED
  BY <1>1, <1>2

LEMMA FailKeeps ==
  ASSUME NEW s, StreamInv(s), NEW t, t = Fail(s)
  PROVE  Moves(s, t) /\ SameRuns(s, t) /\ t.aborted = s.aborted /\ t.readers = s.readers /\ t.end = "broken"
<1>1. s \in Streams(Len(s.blocks)) /\ s.emitted \in Nat
  BY DEF StreamInv, StreamTyped, Streams
<1>2. /\ t \in Streams(Len(s.blocks)) /\ SameReply(s, t) /\ t.calls = s.calls /\ t.handed = s.handed
      /\ t.toolset = s.toolset /\ t.aborted = s.aborted /\ t.readers = s.readers /\ t.end = "broken"
      /\ t.emitted = s.emitted
  BY <1>1 DEF Fail, Streams, SameReply
<1>3. StreamTyped(t)
  BY <1>2 DEF StreamTyped, SameReply
<1>4. StreamInv(t) /\ EarlyInTime(s, t) /\ SameRuns(s, t)
  BY <1>2, <1>3, CallsKeptMoves
<1> QED
  BY <1>1, <1>2, <1>4 DEF Moves

LEMMA AbortKeeps ==
  ASSUME NEW s, StreamInv(s), NEW t, t = Abort(s)
  PROVE  /\ Moves(s, t) /\ SameRuns(s, t) /\ t.aborted /\ t.readers = s.readers /\ t.calls = s.calls
         /\ t.end = IF s.end = "open" THEN "broken" ELSE s.end
<1> DEFINE e == IF s.end = "open" THEN "broken" ELSE s.end
<1>1. s \in Streams(Len(s.blocks)) /\ s.emitted \in Nat
  BY DEF StreamInv, StreamTyped, Streams
<1>2. e \in {"open", "stopped", "broken"}
  BY <1>1 DEF Streams
<1>3. t = [s EXCEPT !.end = e, !.aborted = TRUE]
  BY <1>1 DEF Abort, Streams
<1> HIDE DEF e
<1>4. /\ t \in Streams(Len(s.blocks)) /\ SameReply(s, t) /\ t.calls = s.calls /\ t.handed = s.handed
      /\ t.toolset = s.toolset /\ t.aborted /\ t.readers = s.readers /\ t.end = e /\ t.emitted = s.emitted
  BY <1>1, <1>2, <1>3 DEF Streams, SameReply
<1>5. StreamTyped(t)
  BY <1>4 DEF StreamTyped, SameReply
<1>6. StreamInv(t) /\ EarlyInTime(s, t) /\ SameRuns(s, t)
  BY <1>4, <1>5, CallsKeptMoves
<1> QED
  BY <1>1, <1>4, <1>6 DEF Moves, e

\* The stream of a whole reply ends when it arrives.
LEMMA StoppedKeeps ==
  ASSUME NEW s, StreamInv(s), NEW t, t = [s EXCEPT !.end = "stopped"]
  PROVE  Moves(s, t) /\ SameRuns(s, t) /\ t.aborted = s.aborted /\ t.readers = s.readers /\ t.end = "stopped"
<1>1. s \in Streams(Len(s.blocks)) /\ s.emitted \in Nat
  BY DEF StreamInv, StreamTyped, Streams
<1>2. /\ t \in Streams(Len(s.blocks)) /\ SameReply(s, t) /\ t.calls = s.calls /\ t.handed = s.handed
      /\ t.toolset = s.toolset /\ t.aborted = s.aborted /\ t.readers = s.readers /\ t.end = "stopped"
      /\ t.emitted = s.emitted
  BY <1>1 DEF Streams, SameReply
<1>3. StreamTyped(t)
  BY <1>2 DEF StreamTyped, SameReply
<1>4. StreamInv(t) /\ EarlyInTime(s, t) /\ SameRuns(s, t)
  BY <1>2, <1>3, CallsKeptMoves
<1> QED
  BY <1>1, <1>2, <1>4 DEF Moves

\* A reader of the stream moves on.
WithReader(s, k, r) == [s EXCEPT !.readers = [s.readers EXCEPT ![k] = r]]

LEMMA WithReaderKeeps ==
  ASSUME NEW s, StreamInv(s), NEW k \in Readers, NEW r \in ReaderRec, NEW t, t = WithReader(s, k, r)
  PROVE  /\ StreamInv(t) /\ SameReply(s, t) /\ EarlyInTime(s, t) /\ SameRuns(s, t)
         /\ t.calls = s.calls /\ t.end = s.end /\ t.aborted = s.aborted /\ t.emitted = s.emitted
         /\ t.readers[k] = r /\ \A j \in Readers : j # k => t.readers[j] = s.readers[j]
<1>1. s \in Streams(Len(s.blocks)) /\ s.readers \in [Readers -> ReaderRec]
  BY DEF StreamInv, StreamTyped, Streams
<1>2. [s.readers EXCEPT ![k] = r] \in [Readers -> ReaderRec]
  BY <1>1
<1>3. /\ t \in Streams(Len(s.blocks)) /\ SameReply(s, t) /\ t.calls = s.calls /\ t.handed = s.handed
      /\ t.toolset = s.toolset /\ t.aborted = s.aborted /\ t.end = s.end /\ t.emitted = s.emitted
      /\ t.readers = [s.readers EXCEPT ![k] = r]
  BY <1>1, <1>2 DEF WithReader, Streams, SameReply
<1>4. StreamTyped(t)
  BY <1>3 DEF StreamTyped, SameReply
<1>5. StreamInv(t) /\ EarlyInTime(s, t) /\ SameRuns(s, t)
  BY <1>3, <1>4, CallsKeptMoves
<1>6. t.readers[k] = r /\ \A j \in Readers : j # k => t.readers[j] = s.readers[j]
  BY <1>1, <1>3
<1> QED
  BY <1>3, <1>5, <1>6

LEMMA OpensKeeps ==
  ASSUME NEW s, StreamInv(s), NEW k \in Readers, NEW t, t = Opens(s, k)
  PROVE  /\ StreamInv(t) /\ SameReply(s, t) /\ EarlyInTime(s, t) /\ SameRuns(s, t)
         /\ \A j \in Readers : t.readers[j].on => s.readers[j].on \/ j = k
         /\ t.aborted = s.aborted /\ t.end = s.end
<1> DEFINE r == [on |-> TRUE, handled |-> s.emitted, holds |-> FALSE]
<1>1. s.emitted \in Nat /\ s \in Streams(Len(s.blocks))
  BY DEF StreamInv, StreamTyped, Streams
<1>2. r \in ReaderRec
  BY <1>1 DEF ReaderRec
<1>3. t = WithReader(s, k, r)
  BY <1>1 DEF Opens, WithReader, Streams
<1> HIDE DEF r
<1> QED
  BY <1>2, <1>3, WithReaderKeeps

LEMMA GetsKeeps ==
  ASSUME NEW s, StreamInv(s), NEW k \in Readers, NEW t, t = Gets(s, k)
  PROVE  Rests(s, t) /\ SameRuns(s, t) /\ t.end = s.end /\ t.aborted = s.aborted
<1> DEFINE r == [s.readers[k] EXCEPT !.holds = TRUE]
<1>1. s.emitted \in Nat /\ s \in Streams(Len(s.blocks)) /\ s.readers \in [Readers -> ReaderRec] /\ s.readers[k] \in ReaderRec
  BY DEF StreamInv, StreamTyped, Streams
<1>2. r \in ReaderRec /\ r.on = s.readers[k].on
  BY <1>1 DEF ReaderRec
<1>3. t = WithReader(s, k, r)
  BY <1>1 DEF Gets, WithReader, Streams
<1> HIDE DEF r
<1>4. /\ StreamInv(t) /\ SameReply(s, t) /\ EarlyInTime(s, t) /\ SameRuns(s, t) /\ t.end = s.end /\ t.aborted = s.aborted
      /\ t.emitted = s.emitted /\ t.readers[k] = r /\ \A j \in Readers : j # k => t.readers[j] = s.readers[j]
  BY <1>2, <1>3, WithReaderKeeps
<1>5. \A j \in Readers : t.readers[j].on => s.readers[j].on
  BY <1>2, <1>4
<1> QED
  BY <1>1, <1>4, <1>5 DEF Rests, Moves

\* Once a reader has moved on, the calls that it was behind with may start.
LEMMA ReleasedFor ==
  ASSUME NEW s, StreamInv(s), NEW k \in Readers, NEW r \in ReaderRec, r.on => s.readers[k].on,
         NEW t, t = Release(WithReader(s, k, r))
  PROVE  Rests(s, t) /\ t.end = s.end /\ t.aborted = s.aborted
<1> DEFINE u == WithReader(s, k, r)
<1>1. /\ StreamInv(u) /\ SameReply(s, u) /\ SameRuns(s, u) /\ u.calls = s.calls /\ u.end = s.end /\ u.aborted = s.aborted
      /\ u.emitted = s.emitted /\ u.readers[k] = r /\ \A j \in Readers : j # k => u.readers[j] = s.readers[j]
  BY WithReaderKeeps
<1> HIDE DEF u
<1>2. /\ StreamInv(t) /\ SameStream(u, t) /\ EarlyInTime(u, t)
      /\ ~u.eager \/ u.end = "broken" \/ u.aborted => t = u
  BY <1>1, ReleaseKeeps DEF u
<1>3. SameReply(s, t) /\ EarlyInTime(s, t) /\ s.emitted <= t.emitted
  <2>1. s.emitted \in Nat
    BY Shape DEF StreamInv
  <2> QED
    BY <1>1, <1>2, <2>1 DEF SameStream, SameReply, EarlyInTime
<1>4. ~s.eager \/ s.aborted => SameRuns(s, t)
  BY <1>1, <1>2 DEF SameReply
<1>5. \A j \in Readers : t.readers[j].on => s.readers[j].on
  BY <1>1, <1>2 DEF SameStream
<1>6. t.aborted = s.aborted /\ t.end = s.end
  BY <1>1, <1>2 DEF SameStream
<1> QED
  BY <1>2, <1>3, <1>4, <1>5, <1>6 DEF Moves, Rests

LEMMA AsksOnKeeps ==
  ASSUME NEW s, StreamInv(s), NEW k \in Readers, NEW t, t = AsksOn(s, k)
  PROVE  Rests(s, t) /\ t.end = s.end /\ t.aborted = s.aborted
<1> DEFINE r == [s.readers[k] EXCEPT !.handled = @ + 1, !.holds = FALSE]
<1>1. s \in Streams(Len(s.blocks)) /\ s.readers \in [Readers -> ReaderRec] /\ s.readers[k] \in ReaderRec
  BY DEF StreamInv, StreamTyped, Streams
<1>2. r \in ReaderRec /\ r.on = s.readers[k].on
  <2> DEFINE q == s.readers[k]
             m == s.readers[k].handled + 1
  <2>1. m \in Nat /\ r = [q EXCEPT !.handled = m, !.holds = FALSE] /\ q \in ReaderRec
    BY <1>1 DEF ReaderRec
  <2> HIDE DEF r, m, q
  <2>2. r \in ReaderRec /\ r.on = q.on
    BY <2>1 DEF ReaderRec
  <2> QED
    BY <2>2 DEF q
<1>3. [s EXCEPT !.readers[k].handled = @ + 1, !.readers[k].holds = FALSE] = WithReader(s, k, r)
  BY <1>1 DEF WithReader, Streams, ReaderRec
<1>4. t = Release(WithReader(s, k, r))
  BY <1>3 DEF AsksOn
<1> HIDE DEF r
<1> QED
  BY <1>2, <1>4, ReleasedFor

LEMMA DrainedKeeps ==
  ASSUME NEW s, StreamInv(s), NEW k \in Readers, NEW t, t = Drained(s, k)
  PROVE  Rests(s, t) /\ t.end = s.end /\ t.aborted = s.aborted
<1>1. s \in Streams(Len(s.blocks))
  BY DEF StreamInv, StreamTyped, Streams
<1>2. NoReader \in ReaderRec /\ ~NoReader.on
  BY DEF NoReader, ReaderRec
<1>3. [s EXCEPT !.readers[k] = NoReader] = WithReader(s, k, NoReader)
  BY <1>1 DEF WithReader, Streams
<1>4. t = Release(WithReader(s, k, NoReader))
  BY <1>3 DEF Drained
<1> QED
  BY <1>2, <1>4, ReleasedFor

LEMMA LeavesKeeps ==
  ASSUME NEW s, StreamInv(s), NEW k \in Readers, NEW t, t = Leaves(s, k)
  PROVE  Moves(s, t) /\ SameRuns(s, t) /\ t.aborted /\ t.end = IF s.end = "open" THEN "broken" ELSE s.end
<1> DEFINE u == Abort(s)
<1>1. /\ Moves(s, u) /\ SameRuns(s, u) /\ u.aborted /\ u.readers = s.readers /\ u.calls = s.calls
      /\ u.end = IF s.end = "open" THEN "broken" ELSE s.end
  BY AbortKeeps
<1> HIDE DEF u
<1>2. u \in Streams(Len(u.blocks)) /\ StreamInv(u)
  BY <1>1 DEF Moves, StreamInv, StreamTyped
<1>3. NoReader \in ReaderRec /\ ~NoReader.on
  BY DEF NoReader, ReaderRec
<1>4. t = WithReader(u, k, NoReader)
  BY <1>2 DEF Leaves, WithReader, Streams, u
<1>5. /\ StreamInv(t) /\ SameReply(u, t) /\ EarlyInTime(u, t) /\ SameRuns(u, t)
      /\ t.calls = u.calls /\ t.end = u.end /\ t.aborted = u.aborted /\ t.emitted = u.emitted
      /\ t.readers[k] = NoReader /\ \A j \in Readers : j # k => t.readers[j] = u.readers[j]
  BY <1>2, <1>3, <1>4, WithReaderKeeps
<1>6. \A j \in Readers : t.readers[j].on => s.readers[j].on
  BY <1>1, <1>3, <1>5
<1>7. EarlyInTime(s, t) /\ SameRuns(s, t) /\ SameReply(s, t)
  BY <1>1, <1>5 DEF EarlyInTime, SameRuns, SameReply, Moves
<1> QED
  BY <1>1, <1>5, <1>6, <1>7 DEF Moves

-----------------------------------------------------------------------------
(* Results: the calls that are left start, take their turn, and end.        *)

\* A call that ran or waited goes on, and none starts that did not wait.
RunsOn(s, t) ==
  \A i \in DOMAIN s.blocks :
    \/ t.calls[i].at = s.calls[i].at /\ t.calls[i].runs = s.calls[i].runs
    \/ /\ s.calls[i].at = "queued" /\ t.calls[i].at \in {"running", "error"}
       /\ t.calls[i].runs \in {s.calls[i].runs, s.calls[i].runs + 1}
    \/ s.calls[i].at = "running" /\ Over(t.calls[i]) /\ t.calls[i].runs = s.calls[i].runs

\* A step that changes one call.
WithCall(s, i, c, x) == [s EXCEPT !.calls = [s.calls EXCEPT ![i] = c], !.toolset = x]

LEMMA OneCallTyped ==
  ASSUME NEW s, StreamTyped(s), NEW i \in DOMAIN s.blocks, NEW c \in CallRec,
         NEW x \in {"idle", "running", "waiting"},
         NEW t, t = WithCall(s, i, c, x)
  PROVE  /\ StreamTyped(t) /\ SameStream(s, t) /\ t.toolset = x /\ t.handed = s.handed
         /\ t.calls[i] = c /\ \A j \in DOMAIN s.blocks : j # i => t.calls[j] = s.calls[j]
<1>1. s.calls \in [1..Len(s.blocks) -> CallRec] /\ i \in 1..Len(s.blocks) /\ DOMAIN s.blocks = 1..Len(s.blocks)
  BY Shape
<1>2. [s.calls EXCEPT ![i] = c] \in [1..Len(s.blocks) -> CallRec] /\ s \in Streams(Len(s.blocks))
  BY <1>1 DEF StreamTyped
<1>3. /\ t \in Streams(Len(s.blocks)) /\ SameStream(s, t) /\ t.toolset = x /\ t.handed = s.handed
      /\ t.calls = [s.calls EXCEPT ![i] = c]
  BY <1>2 DEF WithCall, Streams, SameStream, SameReply
<1>4. StreamTyped(t)
  BY <1>3 DEF StreamTyped, SameStream, SameReply
<1> QED
  BY <1>1, <1>3, <1>4

LEMMA TakesTurnKeeps ==
  ASSUME NEW s, StreamInv(s), NEW i \in DOMAIN s.blocks, Turns(s, i), NEW t, t = TakesTurn(s, i)
  PROVE  Moves(s, t) /\ RunsOn(s, t) /\ t.end = s.end /\ t.readers = s.readers /\ t.aborted = s.aborted
<1> DEFINE c == s.calls[i]
           failed == [c EXCEPT !.at = "error"]
           started == [entry |-> IF s.eager THEN "started" ELSE "none", at |-> "running", early |-> FALSE,
                       runs |-> c.runs + 1]
           stuck == \E j \in Members(s) : j < i /\ s.calls[j].at # "ok"
<1>1. /\ s \in Streams(Len(s.blocks)) /\ c \in CallRec /\ Len(s.blocks) \in Nat /\ DOMAIN s.blocks = 1..Len(s.blocks)
      /\ s.calls \in [1..Len(s.blocks) -> CallRec] /\ i \in 1..Len(s.blocks) /\ s.handed \in Nat
      /\ Members(s) \subseteq CallsOf(s) /\ CallsOf(s) \subseteq 1..Len(s.blocks) /\ s.emitted \in Nat
      /\ s.toolset \in {"idle", "running", "waiting"} /\ StreamTyped(s) /\ s.eager \in BOOLEAN
  BY Shape DEF StreamInv, StreamTyped
<1>2. c.at = "queued" /\ \A j \in Members(s) : j < i => Over(s.calls[j])
  BY DEF Turns
<1>3. failed \in CallRec /\ started \in CallRec
  BY <1>1 DEF CallRec
<1>4. t = WithCall(s, i, IF stuck THEN failed ELSE started, s.toolset)
  <2>1. CASE stuck
    BY <1>1, <2>1 DEF TakesTurn, Streams, WithCall
  <2>2. CASE ~stuck
    BY <1>1, <2>2 DEF TakesTurn, Begin, Streams, WithCall
  <2> QED
    BY <2>1, <2>2
<1>5. /\ StreamTyped(t) /\ SameStream(s, t) /\ t.toolset = s.toolset /\ t.handed = s.handed
      /\ t.calls[i] = (IF stuck THEN failed ELSE started)
      /\ \A j \in DOMAIN s.blocks : j # i => t.calls[j] = s.calls[j]
  <2> DEFINE d == IF stuck THEN failed ELSE started
  <2>1. d \in CallRec /\ t = WithCall(s, i, d, s.toolset)
    BY <1>3, <1>4
  <2> HIDE DEF d
  <2>2. /\ StreamTyped(t) /\ SameStream(s, t) /\ t.toolset = s.toolset /\ t.handed = s.handed
        /\ t.calls[i] = d /\ \A j \in DOMAIN s.blocks : j # i => t.calls[j] = s.calls[j]
    <3>1. s.toolset \in {"idle", "running", "waiting"} /\ StreamTyped(s) /\ i \in DOMAIN s.blocks
      BY <1>1
    <3> QED
      BY ONLY <2>1, <3>1, OneCallTyped
  <2> QED
    BY <2>2 DEF d
<1>6. /\ t.blocks = s.blocks /\ t.eager = s.eager /\ Members(t) = Members(s) /\ CallsOf(t) = CallsOf(s)
      /\ \A j : IsCall(t, j) <=> IsCall(s, j)
  <2>1. t.blocks = s.blocks /\ t.eager = s.eager
    BY <1>5 DEF SameStream, SameReply
  <2> QED
    BY <2>1, SameBlocks
<1>7. Booked(s) /\ AllOrEarly(s) /\ InOrder(s) /\ Row(s)
  BY DEF StreamInv
<1>8. CallBooked(s, i) /\ IsCall(s, i) /\ i \in CallsOf(s)
  <2>1. CallBooked(s, i)
    BY <1>7 DEF Booked
  <2>2. IsCall(s, i)
    BY <1>2, <2>1 DEF CallBooked
  <2> QED
    BY <2>1, <2>2 DEF CallsOf
<1>9. /\ s.eager => c.entry = "started" /\ c.runs = 0
      /\ ~s.eager => c.entry = "none"
      /\ ~c.early
  BY <1>1, <1>2, <1>8 DEF CallBooked
<1>10. /\ t.calls[i].entry = c.entry /\ ~t.calls[i].early
       /\ \/ stuck /\ t.calls[i].at = "error" /\ t.calls[i].runs = c.runs
          \/ ~stuck /\ t.calls[i].at = "running" /\ t.calls[i].runs = c.runs + 1
  BY <1>1, <1>5, <1>9 DEF CallRec
<1> HIDE DEF failed, started
<1>11. Booked(t)
  <2>1. CallBooked(t, i)
    <3>1. s.eager => t.calls[i].runs <= 1
      BY <1>9, <1>10
    <3> QED
      BY <1>5, <1>6, <1>8, <1>9, <1>10, <3>1 DEF CallBooked
  <2>2. ASSUME NEW j \in DOMAIN s.blocks, j # i PROVE CallBooked(t, j)
    <3>1. CallBooked(s, j) /\ t.calls[j] = s.calls[j]
      BY <1>5, <1>7, <2>2 DEF Booked
    <3> QED
      BY <1>5, <1>6, <3>1 DEF CallBooked
  <2> QED
    BY <1>5, <1>6, <1>7, <2>1, <2>2 DEF Booked
<1>12. AllOrEarly(t)
  <2> SUFFICES ASSUME NEW j \in CallsOf(s), NEW k \in CallsOf(s), t.calls[j].entry = "started", ~t.calls[j].early
               PROVE  t.calls[k].entry = "started"
    BY <1>6 DEF AllOrEarly
  <2>1. s.calls[j].entry = "started" /\ ~s.calls[j].early
    BY <1>1, <1>5, <1>9, <1>10
  <2>2. s.calls[k].entry = "started"
    BY <1>7, <2>1 DEF AllOrEarly
  <2> QED
    BY <1>1, <1>5, <1>10, <2>2
<1>13. InOrder(t)
  <2> SUFFICES ASSUME NEW j \in Members(s), NEW k \in Members(s), j < k, t.calls[k].at \in {"running", "ok"}
               PROVE  t.calls[j].at = "ok"
    BY <1>6 DEF InOrder
  <2>1. CASE k = i
    <3>1. ~stuck /\ j # i
      BY <1>1, <1>10, <2>1
    <3>2. s.calls[j].at = "ok"
      BY <2>1, <3>1
    <3> QED
      BY <1>1, <1>5, <3>1, <3>2
  <2>2. CASE k # i
    <3>1. s.calls[j].at = "ok"
      BY <1>1, <1>5, <1>7, <2>2 DEF InOrder
    <3>2. j # i
      BY <1>2, <3>1
    <3> QED
      BY <1>1, <1>5, <3>1, <3>2
  <2> QED
    BY <2>1, <2>2
<1>14. Row(t)
  <2> SUFFICES ASSUME NEW j \in Members(s), j <= s.handed
               PROVE  /\ s.toolset = "idle" => t.calls[j].at = "ok"
                      /\ s.toolset = "running" =>
                           \/ t.calls[j].at = "ok"
                           \/ /\ t.calls[j].at = "running" /\ t.calls[j].early
                              /\ \A k \in Members(s) : j < k => k > s.handed
    BY <1>5, <1>6 DEF Row
  <2>1. CASE j = i
    BY <1>2, <1>7, <2>1 DEF Row
  <2>2. CASE j # i
    BY <1>1, <1>5, <1>7, <2>2 DEF Row
  <2> QED
    BY <2>1, <2>2
<1>15. StreamInv(t)
  BY <1>5, <1>11, <1>12, <1>13, <1>14 DEF StreamInv
<1>16. EarlyInTime(s, t)
  BY <1>1, <1>5, <1>10 DEF EarlyInTime
<1>17. RunsOn(s, t)
  BY <1>2, <1>5, <1>10 DEF RunsOn
<1> QED
  BY <1>1, <1>5, <1>15, <1>16, <1>17 DEF Moves, SameStream

LEMMA EndsKeeps ==
  ASSUME NEW s, StreamInv(s), NEW i \in DOMAIN s.blocks, s.calls[i].at = "running",
         NEW outcome \in {"ok", "error", "thrown"}, NEW t, t = Ends(s, i, outcome)
  PROVE  Moves(s, t) /\ RunsOn(s, t) /\ t.end = s.end /\ t.readers = s.readers /\ t.aborted = s.aborted
<1> DEFINE c == s.calls[i]
           d == [c EXCEPT !.at = outcome]
           x == IF ~(c.early /\ s.blocks[i] = "member") THEN s.toolset
                ELSE IF outcome # "ok" \/ s.toolset = "waiting" THEN "waiting" ELSE "idle"
<1>1. /\ s \in Streams(Len(s.blocks)) /\ c \in CallRec /\ Len(s.blocks) \in Nat /\ DOMAIN s.blocks = 1..Len(s.blocks)
      /\ s.calls \in [1..Len(s.blocks) -> CallRec] /\ i \in 1..Len(s.blocks) /\ s.handed \in Nat
      /\ Members(s) \subseteq CallsOf(s) /\ CallsOf(s) \subseteq 1..Len(s.blocks) /\ s.emitted \in Nat
      /\ s.toolset \in {"idle", "running", "waiting"} /\ StreamTyped(s) /\ s.eager \in BOOLEAN
  BY Shape DEF StreamInv, StreamTyped
<1>2. d \in CallRec /\ x \in {"idle", "running", "waiting"}
  BY <1>1 DEF CallRec
<1>3. d.entry = c.entry /\ d.at = outcome /\ d.early = c.early /\ d.runs = c.runs
  BY <1>1 DEF CallRec
<1>4. t = WithCall(s, i, d, x)
  BY <1>1 DEF Ends, Streams, WithCall
<1> HIDE DEF d, x
<1>5. /\ StreamTyped(t) /\ SameStream(s, t) /\ t.toolset = x /\ t.handed = s.handed
      /\ t.calls[i] = d /\ \A j \in DOMAIN s.blocks : j # i => t.calls[j] = s.calls[j]
  BY <1>1, <1>2, <1>4, OneCallTyped
<1>6. /\ t.blocks = s.blocks /\ t.eager = s.eager /\ Members(t) = Members(s) /\ CallsOf(t) = CallsOf(s)
      /\ \A j : IsCall(t, j) <=> IsCall(s, j)
  <2>1. t.blocks = s.blocks /\ t.eager = s.eager
    BY <1>5 DEF SameStream, SameReply
  <2> QED
    BY <2>1, SameBlocks
<1>7. Booked(s) /\ AllOrEarly(s) /\ InOrder(s) /\ Row(s)
  BY DEF StreamInv
<1>8. CallBooked(s, i)
  BY <1>7 DEF Booked
<1>9. Booked(t)
  <2>1. CallBooked(t, i)
    BY <1>3, <1>5, <1>6, <1>8 DEF CallBooked
  <2>2. ASSUME NEW j \in DOMAIN s.blocks, j # i PROVE CallBooked(t, j)
    <3>1. CallBooked(s, j) /\ t.calls[j] = s.calls[j]
      BY <1>5, <1>7, <2>2 DEF Booked
    <3> QED
      BY <1>5, <1>6, <3>1 DEF CallBooked
  <2> QED
    BY <1>5, <1>6, <1>7, <2>1, <2>2 DEF Booked
<1>10. AllOrEarly(t)
  <2>1. \A j \in CallsOf(s) : t.calls[j].entry = s.calls[j].entry /\ t.calls[j].early = s.calls[j].early
    BY <1>1, <1>3, <1>5
  <2> QED
    BY <1>6, <1>7, <2>1 DEF AllOrEarly
<1>11. InOrder(t)
  <2> SUFFICES ASSUME NEW j \in Members(s), NEW k \in Members(s), j < k, t.calls[k].at \in {"running", "ok"}
               PROVE  t.calls[j].at = "ok"
    BY <1>6 DEF InOrder
  <2>1. s.calls[k].at \in {"running", "ok"}
    BY <1>1, <1>5
  <2>2. s.calls[j].at = "ok"
    BY <1>7, <2>1 DEF InOrder
  <2> QED
    BY <1>1, <1>5, <2>2
\* The early call of a toolset that is busy is the last one that was handed over, and all before it ended well.
<1>12. Row(t)
  <2> SUFFICES ASSUME NEW j \in Members(s), j <= s.handed
               PROVE  /\ x = "idle" => t.calls[j].at = "ok"
                      /\ x = "running" =>
                           \/ t.calls[j].at = "ok"
                           \/ /\ t.calls[j].at = "running" /\ t.calls[j].early
                              /\ \A k \in Members(s) : j < k => k > s.handed
    BY <1>5, <1>6 DEF Row
  <2>1. CASE ~(c.early /\ s.blocks[i] = "member")
    <3>1. x = s.toolset
      BY <2>1 DEF x
    <3>2. CASE j = i
      <4>1. s.blocks[i] = "member" /\ ~c.early
        BY <2>1, <3>2 DEF Members
      <4>2. x # "idle" /\ x # "running"
        BY <1>7, <3>1, <3>2, <4>1 DEF Row
      <4> QED
        BY <4>2
    <3>3. CASE j # i
      BY <1>1, <1>5, <1>7, <3>1, <3>3 DEF Row
    <3> QED
      BY <3>2, <3>3
  <2>2. CASE c.early /\ s.blocks[i] = "member"
    <3>1. i <= s.handed /\ i \in Members(s)
      BY <1>1, <1>8, <2>2 DEF CallBooked, Members
    <3>2. s.toolset # "idle"
      BY <1>7, <3>1 DEF Row
    <3>3. x # "running" /\ (x = "idle" => outcome = "ok" /\ s.toolset = "running")
      BY <1>1, <2>2, <3>2 DEF x
    <3>4. ASSUME x = "idle"
          PROVE  t.calls[j].at = "ok"
      <4>1. CASE j = i
        BY <1>3, <1>5, <3>3, <3>4, <4>1
      <4>2. CASE j # i
        <5>1. \A k \in Members(s) : i < k => k > s.handed
          BY <1>7, <3>1, <3>3, <3>4 DEF Row
        <5>2. j < i
          BY <1>1, <4>2, <5>1
        <5>3. s.calls[j].at = "ok"
          BY <1>7, <3>1, <5>2 DEF InOrder
        <5> QED
          BY <1>1, <1>5, <4>2, <5>3
      <4> QED
        BY <4>1, <4>2
    <3> QED
      BY <3>3, <3>4
  <2> QED
    BY <2>1, <2>2
<1>13. StreamInv(t)
  BY <1>5, <1>9, <1>10, <1>11, <1>12 DEF StreamInv
<1>14. EarlyInTime(s, t)
  BY <1>1, <1>3, <1>5 DEF EarlyInTime
<1>15. RunsOn(s, t)
  BY <1>3, <1>5 DEF RunsOn, Over
<1> QED
  BY <1>1, <1>5, <1>13, <1>14, <1>15 DEF Moves, SameStream

\* A call when all that is left starts: it was started before, it is started, or it queues up behind its toolset's.
StartsOrKeeps(s, t, i) ==
  \/ (~IsCall(s, i) \/ s.calls[i].entry = "started") /\ t.calls[i] = s.calls[i]
  \/ /\ IsCall(s, i) /\ s.calls[i].entry # "started"
     /\ t.calls[i].entry = IF s.eager THEN "started" ELSE "none"
     /\ \/ /\ s.blocks[i] = "member" /\ t.calls[i].at = "queued" /\ t.calls[i].runs = s.calls[i].runs
           /\ t.calls[i].early = s.calls[i].early
        \/ /\ s.blocks[i] # "member" /\ t.calls[i].at = "running" /\ t.calls[i].runs = s.calls[i].runs + 1
           /\ ~t.calls[i].early

LEMMA StartCallsKeeps ==
  ASSUME NEW s, StreamInv(s), NEW t, t = StartCalls(s)
  PROVE  /\ Moves(s, t) /\ t.end = s.end /\ t.readers = s.readers /\ t.aborted = s.aborted
         /\ \A i \in DOMAIN s.blocks : StartsOrKeeps(s, t, i)
<1> DEFINE n == Len(s.blocks)
           d(i) == IF ~IsCall(s, i) \/ s.calls[i].entry = "started" THEN s.calls[i]
                   ELSE IF s.blocks[i] = "member"
                   THEN [s.calls[i] EXCEPT !.entry = IF s.eager THEN "started" ELSE "none", !.at = "queued"]
                   ELSE [entry |-> IF s.eager THEN "started" ELSE "none", at |-> "running",
                         early |-> FALSE, runs |-> s.calls[i].runs + 1]
           calls == [i \in 1..n |-> d(i)]
<1>1. /\ s \in Streams(n) /\ n \in Nat /\ DOMAIN s.blocks = 1..n
      /\ s.calls \in [1..n -> CallRec] /\ s.handed \in Nat
      /\ Members(s) \subseteq CallsOf(s) /\ CallsOf(s) \subseteq 1..n /\ s.emitted \in Nat
      /\ s.toolset \in {"idle", "running", "waiting"} /\ StreamTyped(s) /\ s.eager \in BOOLEAN
  BY Shape DEF StreamInv, StreamTyped
<1> HIDE DEF n
<1>2. ASSUME NEW i \in 1..n
      PROVE  d(i) \in CallRec
  <2> DEFINE e == IF s.eager THEN "started" ELSE "none"
  <2>1. s.calls[i] \in CallRec /\ s.calls[i].runs + 1 \in Nat /\ e \in {"none", "held", "started"}
    BY <1>1 DEF CallRec
  <2>2. d(i) = IF ~IsCall(s, i) \/ s.calls[i].entry = "started" THEN s.calls[i]
               ELSE IF s.blocks[i] = "member"
               THEN [s.calls[i] EXCEPT !.entry = e, !.at = "queued"]
               ELSE [entry |-> e, at |-> "running", early |-> FALSE, runs |-> s.calls[i].runs + 1]
    OBVIOUS
  <2> HIDE DEF d, e
  <2>3. CASE ~IsCall(s, i) \/ s.calls[i].entry = "started"
    BY <2>1, <2>2, <2>3
  <2>4. CASE ~(~IsCall(s, i) \/ s.calls[i].entry = "started") /\ s.blocks[i] = "member"
    <3>1. d(i) = [s.calls[i] EXCEPT !.entry = e, !.at = "queued"]
      BY <2>2, <2>4
    <3> QED
      BY <2>1, <3>1 DEF CallRec
  <2>5. CASE ~(~IsCall(s, i) \/ s.calls[i].entry = "started") /\ s.blocks[i] # "member"
    <3>1. d(i) = [entry |-> e, at |-> "running", early |-> FALSE, runs |-> s.calls[i].runs + 1]
      BY <2>2, <2>5
    <3> QED
      BY <2>1, <3>1 DEF CallRec
  <2> QED
    BY <2>3, <2>4, <2>5
<1>3. ASSUME NEW i \in 1..n
      PROVE  Begin(s, i, FALSE).calls[i] =
               [entry |-> IF s.eager THEN "started" ELSE "none", at |-> "running", early |-> FALSE,
                runs |-> s.calls[i].runs + 1]
  BY <1>1 DEF Begin, Streams
<1>4. t = [s EXCEPT !.calls = calls]
  BY <1>1, <1>3 DEF StartCalls
<1>5. calls \in [1..n -> CallRec]
  BY <1>2
<1>6. \A i \in 1..n : calls[i] = d(i)
  OBVIOUS
<1>7. t.calls = calls
  BY <1>1, <1>4 DEF Streams
<1>8. ASSUME NEW i \in 1..n
      PROVE  StartsOrKeeps(s, t, i)
  <2>1. s.calls[i] \in CallRec /\ t.calls[i] = d(i)
    BY <1>1, <1>6, <1>7
  <2>2. CASE ~IsCall(s, i) \/ s.calls[i].entry = "started"
    BY <2>1, <2>2 DEF StartsOrKeeps
  <2>3. CASE ~(~IsCall(s, i) \/ s.calls[i].entry = "started") /\ s.blocks[i] = "member"
    <3>1. t.calls[i] = [s.calls[i] EXCEPT !.entry = IF s.eager THEN "started" ELSE "none", !.at = "queued"]
      BY <2>1, <2>3
    <3>2. /\ t.calls[i].entry = (IF s.eager THEN "started" ELSE "none") /\ t.calls[i].at = "queued"
          /\ t.calls[i].runs = s.calls[i].runs /\ t.calls[i].early = s.calls[i].early
      BY <2>1, <3>1 DEF CallRec
    <3> QED
      BY <2>3, <3>2 DEF StartsOrKeeps
  <2>4. CASE ~(~IsCall(s, i) \/ s.calls[i].entry = "started") /\ s.blocks[i] # "member"
    BY <2>1, <2>4 DEF StartsOrKeeps
  <2> QED
    BY <2>2, <2>3, <2>4
<1> HIDE DEF d, calls
<1>9. t \in Streams(n) /\ SameStream(s, t) /\ t.toolset = s.toolset /\ t.handed = s.handed
  BY <1>1, <1>4, <1>5 DEF Streams, SameStream, SameReply
<1>10. StreamTyped(t) /\ t.blocks = s.blocks /\ t.eager = s.eager
  BY <1>9 DEF StreamTyped, SameStream, SameReply, n
<1>11. /\ Members(t) = Members(s) /\ CallsOf(t) = CallsOf(s) /\ \A j : IsCall(t, j) <=> IsCall(s, j)
  BY <1>10, SameBlocks
<1>12. Booked(s) /\ AllOrEarly(s) /\ InOrder(s) /\ Row(s)
  BY DEF StreamInv
<1>13. \A i \in 1..n : CallBooked(s, i) /\ s.calls[i].runs \in Nat
  BY <1>1, <1>12 DEF Booked, CallRec
<1>14. Booked(t)
  <2>1. ASSUME NEW i \in 1..n
        PROVE  CallBooked(t, i)
    <3>1. CallBooked(s, i) /\ s.calls[i].runs \in Nat /\ StartsOrKeeps(s, t, i)
      BY <1>8, <1>13
    <3>2. CASE t.calls[i] = s.calls[i]
      BY <1>9, <1>10, <1>11, <3>1, <3>2 DEF CallBooked
    <3>3. CASE IsCall(s, i) /\ s.calls[i].entry # "started" /\ t.calls[i] # s.calls[i]
      <4>1. t.calls[i].entry = IF s.eager THEN "started" ELSE "none"
        BY <3>1, <3>3 DEF StartsOrKeeps
      <4>2. s.eager => s.calls[i].runs = 0
        BY <3>1, <3>3 DEF CallBooked
      <4>3. ~t.calls[i].early
        BY <1>1, <3>1, <3>3 DEF CallBooked, StartsOrKeeps
      <4>4. s.eager => t.calls[i].runs <= 1 /\ (t.calls[i].at = "queued" => t.calls[i].runs = 0)
        BY <3>1, <3>3, <4>2 DEF StartsOrKeeps
      <4> QED
        BY <1>1, <1>10, <1>11, <3>3, <4>1, <4>3, <4>4 DEF CallBooked
    <3> QED
      BY <3>1, <3>2, <3>3 DEF StartsOrKeeps
  <2> QED
    BY <1>1, <1>9, <1>10, <1>12, <2>1 DEF Booked
<1>15. AllOrEarly(t)
  <2>1. CASE s.eager
    <3>1. \A i \in CallsOf(s) : t.calls[i].entry = "started"
      BY <1>1, <1>8, <2>1 DEF StartsOrKeeps, CallsOf
    <3> QED
      BY <1>11, <3>1 DEF AllOrEarly
  <2>2. CASE ~s.eager
    <3>1. \A i \in CallsOf(t) : t.calls[i].entry = "none"
      BY <1>1, <1>10, <1>11, <1>14, <2>2 DEF Booked, CallBooked
    <3> QED
      BY <3>1 DEF AllOrEarly
  <2> QED
    BY <2>1, <2>2
<1>16. \A i \in Members(s) : t.calls[i].at \in {"running", "ok"} => t.calls[i] = s.calls[i]
  BY <1>1, <1>8 DEF StartsOrKeeps, Members
\* A call of a toolset that was over well was started, if early, and stays so.
<1>17. s.eager => \A i \in Members(s) : s.calls[i].at \in {"running", "ok"} => t.calls[i] = s.calls[i]
  <2> SUFFICES ASSUME s.eager, NEW i \in Members(s), s.calls[i].at \in {"running", "ok"}
               PROVE  t.calls[i] = s.calls[i]
    OBVIOUS
  <2>1. CallBooked(s, i) /\ StartsOrKeeps(s, t, i)
    BY <1>1, <1>8, <1>13
  <2>2. s.calls[i].entry = "started"
    BY <2>1 DEF CallBooked
  <2> QED
    BY <2>1, <2>2 DEF StartsOrKeeps
<1>18. InOrder(t)
  <2> SUFFICES ASSUME NEW i \in Members(s), NEW j \in Members(s), i < j, t.calls[j].at \in {"running", "ok"}
               PROVE  t.calls[i].at = "ok"
    BY <1>11 DEF InOrder
  <2>1. t.calls[j] = s.calls[j]
    BY <1>16
  <2>2. s.calls[i].at = "ok"
    BY <1>12, <2>1 DEF InOrder
  <2>3. s.eager
    <3>1. CallBooked(s, j) /\ StartsOrKeeps(s, t, j) /\ IsCall(s, j) /\ s.blocks[j] = "member"
      BY <1>1, <1>8, <1>13 DEF Members, CallsOf
    <3>2. s.calls[j].entry = "started"
      BY <3>1 DEF StartsOrKeeps
    <3> QED
      BY <1>1, <3>1, <3>2 DEF CallBooked
  <2> QED
    BY <1>17, <2>2, <2>3
<1>19. Row(t)
  <2>1. CASE s.eager
    BY <1>9, <1>11, <1>12, <1>17, <2>1 DEF Row
  <2>2. CASE ~s.eager
    <3>1. t.handed = 0
      BY <1>9, <1>12, <2>2 DEF Booked
    <3>2. \A i \in Members(t) : ~(i <= t.handed)
      BY <1>1, <1>11, <3>1
    <3> QED
      BY <3>2 DEF Row
  <2> QED
    BY <2>1, <2>2
<1>20. StreamInv(t)
  BY <1>10, <1>14, <1>15, <1>18, <1>19 DEF StreamInv
<1>21. EarlyInTime(s, t)
  <2>1. \A i \in 1..n : t.calls[i].early => s.calls[i].early
    BY <1>8 DEF StartsOrKeeps
  <2>2. DOMAIN s.calls = 1..n
    BY <1>1
  <2> QED
    BY <2>1, <2>2 DEF EarlyInTime
<1>22. \A i \in DOMAIN s.blocks : StartsOrKeeps(s, t, i)
  BY <1>1, <1>8
<1> QED
  BY <1>1, <1>9, <1>20, <1>21, <1>22 DEF Moves, SameStream

\* A new reply.
LEMMA NewStreamKeeps ==
  ASSUME NEW eager \in BOOLEAN, NEW r, r.blocks \in Seq(Blocks), r.stop \in Stops,
         NEW t, t = NewStream(eager, r)
  PROVE  /\ StreamInv(t) /\ t.eager = eager /\ t.blocks = r.blocks /\ t.stop = r.stop /\ t.end = "open" /\ ~t.aborted
         /\ \A i \in DOMAIN t.blocks : t.calls[i] = NoCall
         /\ \A k \in Readers : ~t.readers[k].on
         /\ t.emitted = 0
<1> DEFINE n == Len(r.blocks)
<1>1. n \in Nat /\ DOMAIN r.blocks = 1..n
  OBVIOUS
<1>2. NoCall \in CallRec /\ NoReader \in ReaderRec /\ ~NoReader.on
  BY DEF NoCall, CallRec, NoReader, ReaderRec
<1> DEFINE readers == [k \in Readers |-> NoReader]
           calls == [i \in 1..n |-> NoCall]
<1>3. readers \in [Readers -> ReaderRec] /\ calls \in [1..n -> CallRec]
  BY <1>2
<1>4. /\ \A i \in 1..n : calls[i] = NoCall
      /\ \A k \in Readers : readers[k] = NoReader
  OBVIOUS
<1>5. t = [eager |-> eager, blocks |-> r.blocks, stop |-> r.stop, emitted |-> 0, end |-> "open", aborted |-> FALSE,
           handed |-> 0, readers |-> readers, calls |-> calls, toolset |-> "idle"]
  BY <1>1 DEF NewStream
<1> HIDE DEF readers, calls, n
<1>6. 0 \in 0..n
  BY <1>1
<1>7. t \in Streams(n)
  BY <1>3, <1>5, <1>6 DEF Streams
<1>8. StreamTyped(t) /\ t.blocks = r.blocks
  BY <1>5, <1>7 DEF StreamTyped, n
<1>9. \A i \in 1..n : t.calls[i] = NoCall
  BY <1>4, <1>5
<1>10. \A i \in 1..n : ~(i <= t.handed)
  BY <1>1, <1>5
<1>11. Members(t) \subseteq 1..n /\ CallsOf(t) \subseteq 1..n
  BY <1>1, <1>8 DEF Members, CallsOf
<1>12. Booked(t)
  <2>1. \A i \in 1..n : CallBooked(t, i)
    BY <1>9 DEF CallBooked, NoCall
  <2>2. t.handed = 0 /\ DOMAIN t.blocks = 1..n
    BY <1>1, <1>5, <1>8
  <2> QED
    BY <2>1, <2>2 DEF Booked
<1>13. AllOrEarly(t) /\ InOrder(t) /\ Row(t)
  BY <1>9, <1>10, <1>11 DEF AllOrEarly, InOrder, Row, NoCall
<1>14. StreamInv(t)
  BY <1>8, <1>12, <1>13 DEF StreamInv
<1> QED
  BY <1>1, <1>2, <1>4, <1>5, <1>8, <1>9, <1>14

-----------------------------------------------------------------------------
(* The loop.  First what a step does to the reply.                          *)

SInv == StreamInv(stream)

\* What a step does to the reply: nothing, it goes on, a reader comes, or the next one begins.
StreamStep ==
  \/ stream' = stream
  \/ Moves(stream, stream')
  \/ StreamInv(stream') /\ SameReply(stream, stream') /\ EarlyInTime(stream, stream')
  \/ StreamInv(stream') /\ \A i \in DOMAIN stream'.calls : ~stream'.calls[i].early

LEMMA SetupShape ==
  ASSUME setup \in Setups
  PROVE  /\ setup.mode \in {"whole", "stream", "eager"} /\ setup.turns \in Nat /\ setup.says \in Nat
         /\ setup.takes \in Nat /\ setup.holds \in Nat /\ setup.compactions \in Nat /\ setup.faults \in Nat
         /\ setup.readers \subseteq Readers
         /\ \A r \in setup.replies :
              /\ r.blocks \in Seq(Blocks) /\ r.stop \in Stops
              /\ r.stop = "resume" => \A i \in DOMAIN r.blocks : r.blocks[i] \notin {"tool", "member"}
<1>1. setup \in Setups0
  BY LoopAssumption
<1>2. setup.replies \subseteq Replies
  BY <1>1 DEF Setups0
<1>3. \A r \in Replies : /\ r.blocks \in Seq(Blocks) /\ r.stop \in Stops
                         /\ r.stop = "resume" => \A i \in DOMAIN r.blocks : r.blocks[i] \notin {"tool", "member"}
  BY DEF Replies
<1> QED
  BY <1>1, <1>2, <1>3 DEF Setups0

NoReply == [blocks |-> <<>>, stop |-> "stop"]

LEMMA NoReplyTyped == NoReply.blocks \in Seq(Blocks) /\ NoReply.stop \in Stops /\ NoReply.blocks = <<>>
  BY DEF NoReply, Stops

\* A request goes out, and its reply begins.
LEMMA SendBegins ==
  ASSUME NEW reply, reply.blocks \in Seq(Blocks), reply.stop \in Stops, Send(reply)
  PROVE  /\ StreamInv(stream') /\ stream'.eager = (Eager /\ OnThread) /\ stream'.blocks = reply.blocks
         /\ stream'.stop = reply.stop /\ stream'.end = "open" /\ ~stream'.aborted /\ stream'.emitted = 0
         /\ \A i \in DOMAIN stream'.blocks : stream'.calls[i] = NoCall
         /\ \A k \in Readers : ~stream'.readers[k].on
<1> DEFINE e == Eager /\ OnThread
<1>1. e \in BOOLEAN /\ stream' = NewStream(e, reply)
  BY DEF Send, Eager, OnThread, Compacting
<1> HIDE DEF e
<1>2. /\ StreamInv(stream') /\ stream'.eager = e /\ stream'.blocks = reply.blocks
      /\ stream'.stop = reply.stop /\ stream'.end = "open" /\ ~stream'.aborted /\ stream'.emitted = 0
      /\ \A i \in DOMAIN stream'.blocks : stream'.calls[i] = NoCall
      /\ \A k \in Readers : ~stream'.readers[k].on
  BY <1>1, NewStreamKeeps
<1> QED
  BY <1>2 DEF e

\* An event of the stream, whether a listener holds a call at it or not.
LEMMA StreamEventRests ==
  ASSUME SInv, StreamEvent
  PROVE  /\ Rests(stream, stream') /\ stream'.end \in {"open", "stopped"} /\ stream'.aborted = stream.aborted
         /\ stream'.readers = stream.readers /\ stream.end = "open"
<1> USE DEF SInv
<1>0. stream.end = "open"
  BY DEF StreamEvent
<1>1. CASE stream' = Deliver(stream)
  BY <1>0, <1>1, DeliverKeeps
<1>2. CASE stream' # Deliver(stream)
  <2>1. PICK i \in CallsOf(stream) : stream' = Deliver(Defer(stream, i))
    BY <1>2 DEF StreamEvent
  <2> DEFINE u == Defer(stream, i)
  <2>2. /\ Rests(stream, u) /\ SameRuns(stream, u) /\ SameStream(stream, u)
        /\ \A j \in DOMAIN stream.blocks : u.calls[j].early = stream.calls[j].early
        /\ \A j \in DOMAIN stream.blocks : u.calls[j].entry = "none" => stream.calls[j].entry = "none"
    BY DeferKeeps
  <2>3. stream' = Deliver(u)
    BY <2>1
  <2> HIDE DEF u
  <2>4. StreamInv(u) /\ u.end = "open"
    BY <1>0, <2>2 DEF Rests, Moves, SameStream
  <2>5. /\ Rests(u, stream') /\ stream'.end \in {"open", "stopped"} /\ stream'.aborted = u.aborted
        /\ stream'.readers = u.readers
    BY <2>3, <2>4, DeliverKeeps
  <2>6. /\ DOMAIN stream.calls = DOMAIN stream.blocks /\ DOMAIN u.calls = DOMAIN u.blocks
        /\ u.blocks = stream.blocks
    BY <2>2, <2>4, Shape DEF StreamInv, SameStream, SameReply
  <2>7. EarlyInTime(stream, stream')
    BY <2>2, <2>5, <2>6 DEF Rests, Moves, EarlyInTime
  <2>8. SameReply(stream, stream') /\ StreamInv(stream') /\ u.emitted = stream.emitted /\ u.emitted <= stream'.emitted
    BY <2>2, <2>5 DEF Rests, Moves, SameReply, SameStream
  <2>9. stream'.readers = stream.readers /\ stream'.aborted = stream.aborted
    BY <2>2, <2>5 DEF SameStream
  <2>10. ~stream.eager \/ stream.aborted => SameRuns(stream, stream')
    BY <2>2, <2>5, <2>6 DEF Rests, SameRuns, SameStream, SameReply
  <2> QED
    BY <1>0, <2>5, <2>7, <2>8, <2>9, <2>10 DEF Rests, Moves
<1> QED
  BY <1>1, <1>2

LEMMA StreamSteps ==
  ASSUME SInv, setup \in Setups, Next
  PROVE  StreamStep
<1> USE DEF SInv
<1>1. CASE Iterate \/ Top \/ BodyEnds \/ End \/ RequestFails \/ Append1 \/ SetOther \/ Push \/ CompactBeforeNextTurn
           \/ \E withResults \in BOOLEAN : PutBack(withResults)
  BY <1>1 DEF StreamStep, Iterate, Top, BodyEnds, End, RequestFails, Append1, SetOther, Push, CompactBeforeNextTurn,
              PutBack, SetMessagesParams
<1>2. CASE SendTurn \/ SendCompaction
  <2>1. PICK reply : reply.blocks \in Seq(Blocks) /\ reply.stop \in Stops /\ Send(reply)
    BY <1>2, SetupShape, NoReplyTyped DEF SendTurn, SendCompaction, NoReply
  <2>2. /\ StreamInv(stream') /\ \A i \in DOMAIN stream'.blocks : stream'.calls[i] = NoCall
    BY <2>1, SendBegins
  <2>3. DOMAIN stream'.calls = DOMAIN stream'.blocks
    BY <2>2, Shape DEF StreamInv
  <2> QED
    BY <2>2, <2>3 DEF StreamStep, NoCall
<1>3. CASE TakenOver
  <2>1. PICK a, b : /\ a = Abort(stream) /\ b = StartCalls(a) /\ (stream' = a \/ stream' = b)
    BY <1>3 DEF TakenOver
  <2>2. Moves(stream, a) /\ a.calls = stream.calls
    BY <2>1, AbortKeeps
  <2>3. StreamInv(a) /\ SameReply(stream, a)
    BY <2>2 DEF Moves
  <2>4. Moves(a, b)
    BY <2>1, <2>3, StartCallsKeeps
  <2>5. SameReply(stream, b) /\ EarlyInTime(stream, b) /\ StreamInv(b)
    BY <2>2, <2>3, <2>4 DEF Moves, SameReply, EarlyInTime
  <2> QED
    BY <2>1, <2>2, <2>5 DEF StreamStep
<1>4. CASE Collect
  <2>1. stream' = stream \/ stream' = Abort(stream) \/ stream' = StartCalls(stream)
    BY <1>4 DEF Collect
  <2> QED
    BY <2>1, AbortKeeps, StartCallsKeeps DEF StreamStep
<1>5. CASE Answer \/ Throws \/ Leave \/ \E summary \in BOOLEAN : Compacted(summary)
  <2>1. stream' = Abort(stream)
    BY <1>5 DEF Answer, Throws, Leave, Compacted, Breaks
  <2> QED
    BY <2>1, AbortKeeps DEF StreamStep
<1>6. CASE WholeReply
  <2>1. stream' = [stream EXCEPT !.end = "stopped"]
    BY <1>6 DEF WholeReply
  <2> QED
    BY <2>1, StoppedKeeps DEF StreamStep
<1>7. CASE StreamEvent
  BY <1>7, StreamEventRests DEF StreamStep, Rests
<1>8. CASE CallTakesTurn \/ CallEnds \/ CallFails
  <2>1. DOMAIN stream.calls = DOMAIN stream.blocks
    BY Shape DEF StreamInv
  <2>2. \/ \E i \in DOMAIN stream.blocks : Turns(stream, i) /\ stream' = TakesTurn(stream, i)
        \/ \E i \in DOMAIN stream.blocks, outcome \in {"ok", "error", "thrown"} :
             stream.calls[i].at = "running" /\ stream' = Ends(stream, i, outcome)
    BY <1>8, <2>1 DEF CallTakesTurn, CallEnds, CallFails, Reads
  <2> QED
    BY <2>2, TakesTurnKeeps, EndsKeeps DEF StreamStep
<1>9. CASE \E k \in Readers : ReaderStep(k) \/ ReaderOpens(k) \/ ReaderDefers(k) \/ ReaderLeaves(k)
  <2>1. PICK k \in Readers : ReaderStep(k) \/ ReaderOpens(k) \/ ReaderDefers(k) \/ ReaderLeaves(k)
    BY <1>9
  <2>2. \/ stream' = Gets(stream, k) \/ stream' = AsksOn(stream, k) \/ stream' = Drained(stream, k)
        \/ stream' = Opens(stream, k) \/ stream' = Leaves(stream, k)
        \/ \E i \in CallsOf(stream) : stream' = Defer(stream, i)
    BY <2>1 DEF ReaderStep, ReaderOpens, ReaderDefers, ReaderLeaves, Reads, Breaks
  <2> QED
    BY <2>2, GetsKeeps, AsksOnKeeps, DrainedKeeps, OpensKeeps, LeavesKeeps, DeferKeeps DEF StreamStep, Rests
<1>10. CASE Generate
  <2>1. stream' = StartCalls(stream)
    BY <1>10 DEF Generate
  <2> QED
    BY <2>1, StartCallsKeeps DEF StreamStep
<1>11. CASE StreamBreaks
  <2>1. stream' = Fail(stream)
    BY <1>11 DEF StreamBreaks, Breaks
  <2> QED
    BY <2>1, FailKeeps DEF StreamStep
<1> QED
  BY <1>1, <1>2, <1>3, <1>4, <1>5, <1>6, <1>7, <1>8, <1>9, <1>10, <1>11
     DEF Next, Runner, Surroundings, Caller, Faults

LEMMA InitStream == Init => SInv /\ setup \in Setups
<1> SUFFICES ASSUME Init PROVE SInv /\ setup \in Setups
  OBVIOUS
<1>1. stream = NewStream(FALSE, NoReply) /\ setup \in Setups
  BY DEF Init, NoReply
<1>2. StreamInv(stream)
  BY <1>1, NoReplyTyped, NewStreamKeeps
<1> QED
  BY <1>1, <1>2 DEF SInv

LEMMA SetupKept == [Next]_vars => setup' = setup
  BY DEF Next, Runner, Surroundings, Caller, Faults, vars, Iterate, Top, SendTurn, SendCompaction, Send, BodyEnds, TakenOver,
         Collect, Answer, Compacted, Throws, End, WholeReply, StreamEvent, CallTakesTurn, CallEnds, ReaderStep, Reads,
         Append1, SetOther, Push, PutBack, SetMessagesParams, Generate, CompactBeforeNextTurn, Leave, ReaderOpens,
         ReaderDefers, ReaderLeaves, RequestFails, StreamBreaks, CallFails

LEMMA StreamStepKeeps ==
  ASSUME SInv, StreamStep
  PROVE  SInv'
  BY DEF SInv, StreamStep, Moves

\* What is known of a reply and its calls holds throughout.
LEMMA RepliesAreBooked == Spec => [](SInv /\ setup \in Setups)
<1>1. SInv /\ setup \in Setups /\ [Next]_vars => (SInv /\ setup \in Setups)'
  <2> SUFFICES ASSUME SInv, setup \in Setups, [Next]_vars
               PROVE  (SInv /\ setup \in Setups)'
    OBVIOUS
  <2>1. setup' \in Setups
    BY SetupKept
  <2>2. CASE Next
    BY <2>1, <2>2, StreamSteps, StreamStepKeeps
  <2>3. CASE UNCHANGED vars
    BY <2>1, <2>3 DEF vars, SInv
  <2> QED
    BY <2>2, <2>3
<1> QED
  BY InitStream, <1>1, PTL DEF Spec

\* Whoever sees a call in time can still hold it.  A call of a reply starts while the reply streams only when it is
\* released; what is released is past every reader that is on, and an entry that a reader has put there keeps its call back.
THEOREM HoldsAreInTime == Spec => DeferIsInTime
<1> DEFINE InTime ==
      \A i \in DOMAIN stream.calls :
        (stream'.blocks = stream.blocks /\ stream'.calls[i].early /\ ~stream.calls[i].early) =>
          /\ stream'.end # "broken" /\ ~stream'.aborted
          /\ stream.calls[i].entry = "none"
          /\ \A k \in Active(stream') : stream'.readers[k].handled >= MovedOn(i)
<1>1. SInv /\ setup \in Setups /\ [Next]_vars => [InTime]_vars
  <2> SUFFICES ASSUME SInv, setup \in Setups, Next PROVE InTime
    OBVIOUS
  <2>1. StreamStep /\ SInv'
    BY StreamSteps, StreamStepKeeps
  <2>2. stream'.blocks = stream.blocks => DOMAIN stream'.calls = DOMAIN stream.calls
    BY <2>1, Shape DEF SInv, StreamInv
  <2> QED
    BY <2>1, <2>2 DEF StreamStep, Moves, EarlyInTime
<1> QED
  BY RepliesAreBooked, <1>1, PTL DEF Spec, DeferIsInTime

-----------------------------------------------------------------------------
(* The types of the loop and of its thread.                                 *)

Talking == {"request", "body", "collect"}
Pcs == {"idle", "top", "settle", "request", "body", "collect", "answer", "ending", "ended", "failed", "left"}
Loops ==
  [pc : Pcs, mutated : BOOLEAN, touched : BOOLEAN, without : Seq(Messages) \cup {None}, iterations : Nat,
   compaction : {"idle", "scheduled", "in_flight"}, final : BOOLEAN, covers : Nat, last : Stops \cup {"none"},
   awaits : SUBSET Nat, response : {"none", "asked", "loop"}, stray : BOOLEAN]
Talks ==
  [history : Seq(Messages), question : Seq(Messages) \cup {None}, covered : SUBSET Nat, overridden : SUBSET Nat]
Lefts == [says : Nat, takes : Nat, holds : Nat, compactions : Nat, faults : Nat]

Typed ==
  /\ loop \in Loops /\ talk \in Talks /\ left \in Lefts /\ setup \in Setups
  /\ left.says <= setup.says
  /\ loop.pc \in {"request", "body"} /\ OnThread => loop.without # None

\* A compaction knows how much of the history it covers; the caller's own params wait only for the end of a turn's body.
CompactionBooks ==
  /\ Compacting => loop.pc \in {"settle"} \cup Talking \cup Over0
  /\ Compacting /\ loop.pc \notin Over0 => loop.covers <= Len(talk.history)
  /\ loop.without # None /\ loop.pc \notin Over0 => OnThread /\ loop.pc \in {"request", "body"}

\* What still runs or waits to run, and a reply that no reader can set going any more.
Busy(s) == {i \in DOMAIN s.blocks : s.calls[i].at \in {"queued", "running"}}
Still(s) == ~s.eager \/ s.aborted \/ \A k \in Readers : ~s.readers[k].on
ReplyBooks ==
  /\ stream.eager => Eager
  /\ stream.blocks # <<>> /\ Eager => stream.eager
  /\ \A k \in Readers : stream.readers[k].on => k \in setup.readers

\* Where the results of the reply stand.
ResponseBooks ==
  /\ loop.pc \in {"settle", "request"} => loop.response = "none"
  /\ loop.pc \in {"body", "collect"} => loop.response \in {"none", "asked"}

\* The final compaction is the last thing the loop does.
FinalBooks ==
  loop.final => \/ loop.pc \in Over0 \cup {"ending"}
                \/ loop.pc \in {"settle"} \cup Talking /\ Compacting

\* A runner that is not eager runs calls only while it waits for them.
WaitsForCalls ==
  ~Eager =>
    /\ loop.pc \in {"idle", "top", "settle", "request", "collect"} => Busy(stream) = {}
    /\ loop.pc = "body" /\ loop.response = "none" => Busy(stream) = {}

\* An eager one lets go of the stream, and then waits for what it had started.
LetsGo ==
  /\ loop.pc \in {"idle", "top"} => Still(stream)
  /\ loop.pc = "settle" /\ (~loop.final \/ setup.readers = {}) => Still(stream) /\ Busy(stream) \subseteq loop.awaits

\* Without eagerness, and unless the caller changes the params, a call runs when its results are first asked for.
RunOnce ==
  ~Eager /\ ~loop.touched =>
    \A i \in DOMAIN stream.blocks :
      /\ stream.calls[i].runs <= 1
      /\ stream.calls[i].at = "queued" => stream.calls[i].runs = 0
      /\ loop.pc \in Talking /\ loop.response = "none" => stream.calls[i].runs = 0

StrayBooks == loop.stray => loop.final /\ setup.readers # {}

LoopInv ==
  /\ ReplyBooks /\ ResponseBooks /\ FinalBooks /\ WaitsForCalls /\ LetsGo /\ RunOnce /\ StrayBooks

\* The greatest of some numbers up to n.
LEMMA MaxOfSome ==
  ASSUME NEW n \in Nat, NEW P, P \subseteq 0..n, 0 \in P
  PROVE  Max(P) \in P /\ \A i \in P : i <= Max(P)
<1> DEFINE Q == P \ {0}
<1>1. CASE Q = {}
  <2>1. P = {0}
    BY <1>1
  <2> QED
    BY <2>1 DEF Max
<1>2. CASE Q # {}
  <2>1. Q \subseteq 1..n
    OBVIOUS
  <2>2. Max(Q) \in Q /\ \A i \in Q : i <= Max(Q)
    <3> HIDE DEF Q
    <3> QED
      BY <1>2, <2>1, MaxOfPlaces
  <2>3. \E m \in P : \A j \in P : m >= j
    <3> DEFINE m == Max(Q)
    <3>0. m \in 1..n /\ \A i \in Q : i <= m
      BY <2>1, <2>2
    <3> HIDE DEF m
    <3>1. m \in P /\ \A j \in P : m >= j
      BY <2>2, <3>0 DEF m
    <3> QED
      BY <3>1
  <2>4. Max(P) \in P /\ \A j \in P : Max(P) >= j
    BY <2>3 DEF Max
  <2>5. \A j \in P : j \in Int
    OBVIOUS
  <2> QED
    BY <2>4, <2>5
<1> QED
  BY <1>1, <1>2

LEMMA SaidAreNumbers ==
  ASSUME NEW h \in Seq(Messages)
  PROVE  Said(h) \in SUBSET Nat
<1>1. \A x \in Range(h) : x \in Messages
  BY DEF Range
<1>2. \A m \in Messages : m.n \in Nat
  BY DEF Messages
<1> QED
  BY <1>1, <1>2 DEF Said

LEMMA MessagesTyped ==
  ASSUME NEW n \in Nat, NEW asks \in BOOLEAN
  PROVE  User(n) \in Messages /\ Reply(n, asks) \in Messages /\ Cut(n) \in Messages /\ Results(n) \in Messages
         /\ Summary \in Messages
  BY DEF User, Reply, Cut, Results, Summary, Messages

LEMMA SettledTyped ==
  ASSUME NEW t \in Talks, NEW o, t.question # None => o \in Seq(Messages)
  PROVE  Settled(t, o) \in Talks
<1>1. CASE t.question = None
  BY <1>1 DEF Settled
<1>2. CASE t.question # None
  <2> DEFINE h == SubSeq(t.history, Len(t.question) + 1, Len(t.history))
             g == o \o h
  <2>1. t.history \in Seq(Messages) /\ t.question \in Seq(Messages)
    BY <1>2 DEF Talks
  <2>2. h \in Seq(Messages)
    BY <2>1
  <2> HIDE DEF h
  <2>3. g \in Seq(Messages)
    BY <1>2, <2>2
  <2>4. Settled(t, o) = [t EXCEPT !.history = g, !.question = None]
    BY <1>2 DEF Settled, Talks, h
  <2> HIDE DEF g
  <2> QED
    BY <2>3, <2>4 DEF Talks
<1> QED
  BY <1>1, <1>2

LEMMA ThisReplyTyped ==
  ASSUME Typed
  PROVE  ThisReply \in Messages /\ Cut(loop.iterations) \in Messages /\ Results(loop.iterations) \in Messages
<1>1. loop.iterations \in Nat /\ MakesCalls \in BOOLEAN
  BY DEF Typed, Loops, MakesCalls
<1> QED
  BY <1>1, MessagesTyped DEF ThisReply

LEMMA OutcomesTyped ==
  ASSUME Typed
  PROVE  Answered \in Talks /\ BrokenOff \in Talks /\ Settled(talk, talk.question) \in Talks
<1>1. talk \in Talks /\ (talk.question # None => talk.question \in Seq(Messages))
  BY DEF Typed, Talks
<1>2. ThisReply \in Messages /\ Cut(loop.iterations) \in Messages
  BY ThisReplyTyped
<1>3. talk.question # None => /\ Append(talk.question, ThisReply) \in Seq(Messages)
                              /\ Append(talk.question, Cut(loop.iterations)) \in Seq(Messages)
  BY <1>1, <1>2
<1>4. Answered \in Talks
  BY <1>1, <1>3, SettledTyped DEF Answered
<1>5. BrokenOff \in Talks
  <2> DEFINE o == IF stream.emitted < 2 THEN talk.question ELSE Append(talk.question, Cut(loop.iterations))
  <2>1. talk.question # None => o \in Seq(Messages)
    BY <1>1, <1>3
  <2>2. BrokenOff = Settled(talk, o)
    BY DEF BrokenOff
  <2> HIDE DEF o
  <2> QED
    BY <1>1, <2>1, <2>2, SettledTyped
<1>6. Settled(talk, talk.question) \in Talks
  BY <1>1, SettledTyped
<1> QED
  BY <1>4, <1>5, <1>6

LEMMA StartedTyped == SInv => Started \in SUBSET Nat /\ stream.stop \in Stops
<1> SUFFICES ASSUME SInv PROVE Started \in SUBSET Nat /\ stream.stop \in Stops
  OBVIOUS
<1>1. DOMAIN stream.calls = 1..Len(stream.blocks) /\ Len(stream.blocks) \in Nat /\ stream.stop \in Stops
  BY Shape DEF SInv, StreamInv
<1> QED
  BY <1>1 DEF Started

LEMMA SpendTyped ==
  ASSUME Typed, NEW what \in {"says", "takes", "holds", "compactions", "faults"}, Spend(what)
  PROVE  left' \in Lefts /\ left'.says <= setup.says
<1>1. left \in Lefts /\ left.says <= setup.says /\ setup.says \in Nat
  BY SetupShape DEF Typed
<1>2. left[what] > 0 /\ left' = [left EXCEPT ![what] = @ - 1]
  BY DEF Spend
<1>3. CASE what = "says"
  BY <1>1, <1>2, <1>3 DEF Lefts
<1>4. CASE what = "takes"
  BY <1>1, <1>2, <1>4 DEF Lefts
<1>5. CASE what = "holds"
  BY <1>1, <1>2, <1>5 DEF Lefts
<1>6. CASE what = "compactions"
  BY <1>1, <1>2, <1>6 DEF Lefts
<1>7. CASE what = "faults"
  BY <1>1, <1>2, <1>7 DEF Lefts
<1> QED
  BY <1>3, <1>4, <1>5, <1>6, <1>7

LEMMA SetParamsTyped ==
  ASSUME Typed, NEW messages \in Seq(Messages), SetMessagesParams(messages)
  PROVE  loop' \in Loops /\ talk' \in Talks /\ (loop'.without = None <=> loop.without = None)
         /\ loop'.pc = loop.pc /\ loop'.compaction = loop.compaction
<1>1. loop \in Loops /\ talk \in Talks /\ messages # None
  BY LoopAssumption DEF Typed
<1>2. loop' \in Loops
  BY <1>1 DEF SetMessagesParams, Loops
<1>3. talk' \in Talks
  BY <1>1 DEF SetMessagesParams, Talks
<1>4. /\ (loop'.without = None <=> loop.without = None)
      /\ loop'.pc = loop.pc /\ loop'.compaction = loop.compaction
  BY <1>1 DEF SetMessagesParams, Loops
<1> QED
  BY <1>2, <1>3, <1>4

LEMMA ParamsTyped == Typed => Params \in Seq(Messages)
  BY DEF Typed, Params, Loops, Talks

LEMMA NextUserTyped == Typed => NextUser \in Messages
<1> SUFFICES ASSUME Typed PROVE NextUser \in Messages
  OBVIOUS
<1>1. setup.says - left.says + 1 \in Nat
  BY SetupShape DEF Typed, Lefts
<1> QED
  BY <1>1, MessagesTyped DEF NextUser

\* The types after the steps of the loop itself.
LEMMA LoopTyped ==
  ASSUME SInv, Typed, Iterate \/ Top \/ SendTurn \/ SendCompaction \/ BodyEnds \/ TakenOver \/ Collect \/ Throws \/ End
                      \/ CompactBeforeNextTurn \/ Generate
  PROVE  Typed'
<1>1. /\ loop \in Loops /\ talk \in Talks /\ left \in Lefts /\ setup \in Setups /\ left.says <= setup.says
      /\ loop.pc \in {"request", "body"} /\ OnThread => loop.without # None
  BY DEF Typed
<1>2. setup' = setup /\ setup.turns \in Nat
  <2>1. [Next]_vars
    BY DEF Next, Runner, Caller
  <2> QED
    BY <1>1, <2>1, SetupKept, SetupShape
<1>3. Started \in SUBSET Nat /\ stream.stop \in Stops
  BY StartedTyped
<1>4. talk.history \in Seq(Messages) /\ Len(talk.history) \in Nat /\ talk.history # None
  BY <1>1, LoopAssumption DEF Talks
<1>5. ASSUME NEW l \in Loops, NEW final \in BOOLEAN
      PROVE  Compact(l, final) \in Loops /\ Compact(l, final).pc = "settle"
  <2> DEFINE n == Len(talk.history)
  <2>1. n \in Nat /\ Compact(l, final) = [l EXCEPT !.pc = "settle", !.compaction = "in_flight", !.final = final,
                                                  !.response = "none", !.covers = n, !.awaits = Started]
    BY <1>4 DEF Compact
  <2> HIDE DEF n
  <2> DEFINE a == [l EXCEPT !.pc = "settle", !.compaction = "in_flight", !.final = final]
             b == [a EXCEPT !.response = "none", !.covers = n]
  <2>2. a \in Loops /\ a.pc = "settle"
    BY DEF Loops, Pcs
  <2>3. Compact(l, final) = [b EXCEPT !.awaits = Started]
    BY <2>1 DEF Loops
  <2> HIDE DEF a
  <2>4. b \in Loops /\ b.pc = "settle"
    BY <2>1, <2>2 DEF Loops
  <2> HIDE DEF b
  <2> QED
    BY <1>3, <2>3, <2>4 DEF Loops
<1>6. \A l \in Loops : Finish(l) \in Loops /\ Finish(l).pc = "ending"
  <2> SUFFICES ASSUME NEW l \in Loops PROVE Finish(l) \in Loops /\ Finish(l).pc = "ending"
    OBVIOUS
  <2> DEFINE a == [l EXCEPT !.pc = "ending"]
  <2>1. a \in Loops /\ a.pc = "ending" /\ Finish(l) = [a EXCEPT !.awaits = Started]
    BY DEF Finish, Loops, Pcs
  <2> HIDE DEF a
  <2> QED
    BY <1>3, <2>1 DEF Loops
<1>7. CASE Iterate \/ End
  BY <1>1, <1>2, <1>7 DEF Iterate, End, Typed, Loops, Pcs
<1>8. CASE Top
  <2>1. talk' = talk /\ left' = left
    BY <1>8 DEF Top
  <2>2. loop' \in Loops /\ loop'.pc \in {"ending", "settle"}
    <3>1. CASE loop' = Finish(loop)
      BY <1>1, <1>6, <3>1
    <3>2. CASE loop' = Compact(loop, FALSE)
      BY <1>1, <1>5, <3>2
    <3>3. CASE loop' = [loop EXCEPT !.pc = "settle", !.mutated = FALSE, !.response = "none",
                                    !.iterations = @ + 1, !.awaits = Started]
      <4> DEFINE n == loop.iterations + 1
      <4>1. n \in Nat
        BY <1>1 DEF Loops
      <4>2. loop' = [loop EXCEPT !.pc = "settle", !.mutated = FALSE, !.response = "none", !.iterations = n,
                                 !.awaits = Started]
        BY <1>1, <3>3 DEF Loops
      <4> HIDE DEF n
      <4> QED
        BY <1>1, <1>3, <4>1, <4>2 DEF Loops, Pcs
    <3> QED
      BY <1>8, <3>1, <3>2, <3>3 DEF Top
  <2> QED
    BY <1>1, <1>2, <2>1, <2>2 DEF Typed
<1>9. CASE SendTurn \/ SendCompaction
  <2>1. PICK reply : Send(reply)
    BY <1>9 DEF SendTurn, SendCompaction
  <2> DEFINE p == IF setup.mode = "whole" THEN "request" ELSE "body"
             w == IF OnThread THEN talk.history ELSE None
             x == \E i \in DOMAIN stream.calls : stream.calls[i].at \in {"queued", "running"}
  <2>2. p \in Pcs /\ x \in BOOLEAN /\ w \in Seq(Messages) \cup {None}
    BY <1>4 DEF Pcs
  <2>3. loop' = [loop EXCEPT !.pc = p, !.touched = FALSE, !.without = w, !.stray = x]
    BY <2>1 DEF Send
  <2> HIDE DEF p, w, x
  <2>4. loop' \in Loops /\ loop'.without = w /\ loop'.compaction = loop.compaction
    BY <1>1, <2>2, <2>3 DEF Loops
  <2>5. OnThread' => loop'.without # None
    BY <1>4, <2>4 DEF OnThread, Compacting, w
  <2>6. talk' \in Talks
    BY <1>1, <2>1 DEF Send, Ask, Talks
  <2>7. left' = left
    BY <2>1 DEF Send
  <2> QED
    BY <1>1, <1>2, <2>4, <2>5, <2>6, <2>7 DEF Typed
<1>10. CASE BodyEnds
  <2>1. loop' \in Loops /\ loop'.pc = "collect" /\ talk' = talk /\ left' = left
    BY <1>1, <1>10 DEF BodyEnds, Loops, Pcs
  <2> QED
    BY <1>1, <1>2, <2>1 DEF Typed
<1>11. CASE TakenOver
  <2>1. loop.without \in Seq(Messages)
    BY <1>1, <1>11 DEF TakenOver, At, Loops
  <2>2. loop' \in Loops /\ loop'.pc \in {"answer", "top"} /\ left' = left
    <3> DEFINE answers == loop.without # <<>> /\ Last(loop.without) = ThisReply /\ MakesCalls
               p == IF answers THEN "answer" ELSE "top"
               r == IF answers THEN "loop" ELSE loop.response
               a == [loop EXCEPT !.pc = p, !.response = r]
    <3>1. p \in {"answer", "top"} /\ p \in Pcs /\ r \in {"none", "asked", "loop"}
      BY <1>1 DEF Pcs, Loops
    <3>2. loop' = [a EXCEPT !.without = None, !.last = "none"] /\ left' = left
      BY <1>1, <1>11 DEF TakenOver, Loops
    <3> HIDE DEF answers, p, r
    <3>3. a \in Loops /\ a.pc = p
      BY <1>1, <3>1 DEF Loops
    <3> HIDE DEF a
    <3> QED
      BY <3>1, <3>2, <3>3 DEF Loops
  <2>3. talk' \in Talks
    <3> DEFINE o == talk.overridden \cup (Said(talk.history) \ Said(loop.without))
    <3>1. o \in SUBSET Nat
      BY <1>1, <1>4, SaidAreNumbers DEF Talks
    <3>2. talk' = [talk EXCEPT !.history = loop.without, !.question = None, !.overridden = o]
      BY <1>1, <1>11 DEF TakenOver, Talks
    <3> HIDE DEF o
    <3> QED
      BY <1>1, <2>1, <3>1, <3>2 DEF Talks
  <2> QED
    BY <1>1, <1>2, <2>2, <2>3 DEF Typed
<1>12. CASE Collect
  <2>1. talk' = talk /\ left' = left
    BY <1>12 DEF Collect
  <2> DEFINE l == [loop EXCEPT !.last = stream.stop]
             m == [l EXCEPT !.compaction = "idle"]
  <2>2. l \in Loops
    BY <1>1, <1>3 DEF Loops
  <2>3. m \in Loops
    BY <2>2 DEF Loops
  <2>4. \/ loop' = Compact(l, TRUE) \/ loop' = Finish(m)
        \/ loop' = [l EXCEPT !.pc = "answer", !.response = "loop"] \/ loop' = [l EXCEPT !.pc = "top"]
    BY <1>12 DEF Collect
  <2> HIDE DEF l, m
  <2>5. loop' \in Loops /\ loop'.pc \in {"settle", "ending", "answer", "top"}
    <3>1. CASE loop' = Compact(l, TRUE) \/ loop' = Finish(m)
      BY <1>5, <1>6, <2>2, <2>3, <3>1
    <3>2. CASE loop' = [l EXCEPT !.pc = "answer", !.response = "loop"] \/ loop' = [l EXCEPT !.pc = "top"]
      BY <2>2, <3>2 DEF Loops, Pcs
    <3> QED
      BY <2>4, <3>1, <3>2
  <2> QED
    BY <1>1, <1>2, <2>1, <2>5 DEF Typed
<1>13. CASE Throws
  <2>1. loop' \in Loops /\ loop'.pc \in {"left", "failed"} /\ talk' = talk /\ left' = left
    BY <1>1, <1>13 DEF Throws, Loops, Pcs
  <2> QED
    BY <1>1, <1>2, <2>1 DEF Typed
<1>14. CASE CompactBeforeNextTurn
  <2>1. /\ loop' \in Loops /\ loop'.pc = loop.pc /\ loop'.without = loop.without
        /\ loop'.compaction = "in_flight" <=> loop.compaction = "in_flight"
    BY <1>1, <1>14 DEF CompactBeforeNextTurn, Loops, Compacting
  <2>2. left' \in Lefts /\ left'.says <= setup.says /\ talk' = talk
    BY <1>14, SpendTyped DEF CompactBeforeNextTurn
  <2> QED
    BY <1>1, <1>2, <2>1, <2>2 DEF Typed, OnThread, Compacting
<1>15. CASE Generate
  <2>1. loop' \in Loops /\ loop'.pc = loop.pc /\ loop'.without = loop.without /\ loop'.compaction = loop.compaction
    BY <1>1, <1>15 DEF Generate, Loops
  <2>2. left' = left /\ talk' = talk
    BY <1>15 DEF Generate
  <2> QED
    BY <1>1, <1>2, <2>1, <2>2 DEF Typed, OnThread, Compacting
<1> QED
  BY <1>7, <1>8, <1>9, <1>10, <1>11, <1>12, <1>13, <1>14, <1>15

\* The types after the steps of the replies, and of those who read and answer them.
LEMMA RepliesTyped ==
  ASSUME SInv, Typed, \/ WholeReply \/ RequestFails \/ StreamEvent \/ StreamBreaks \/ Leave \/ CallTakesTurn \/ CallEnds
                      \/ CallFails
                      \/ \E k \in Readers : ReaderStep(k) \/ ReaderOpens(k) \/ ReaderDefers(k) \/ ReaderLeaves(k)
  PROVE  Typed'
<1>1. /\ loop \in Loops /\ talk \in Talks /\ left \in Lefts /\ setup \in Setups /\ left.says <= setup.says
      /\ loop.pc \in {"request", "body"} /\ OnThread => loop.without # None
  BY DEF Typed
<1>2. setup' = setup
  <2>1. [Next]_vars
    BY DEF Next, Surroundings, Caller, Faults
  <2> QED
    BY <2>1, SetupKept
<1>3. Answered \in Talks /\ BrokenOff \in Talks /\ Settled(talk, talk.question) \in Talks
  BY OutcomesTyped
<1>4. talk' \in Talks
  <2>1. talk' = talk \/ talk' = Answered \/ talk' = BrokenOff \/ talk' = Settled(talk, talk.question)
    BY DEF WholeReply, RequestFails, StreamEvent, StreamBreaks, Leave, CallTakesTurn, CallEnds, CallFails, ReaderStep,
           ReaderOpens, ReaderDefers, ReaderLeaves, Reads, Breaks
  <2> QED
    BY <1>1, <1>3, <2>1
<1>5. left' \in Lefts /\ left'.says <= setup.says
  <2>1. left' = left \/ Spend("faults") \/ Spend("holds")
    BY DEF WholeReply, RequestFails, StreamEvent, StreamBreaks, Leave, CallTakesTurn, CallEnds, CallFails, ReaderStep,
           ReaderOpens, ReaderDefers, ReaderLeaves, Reads, Breaks
  <2> QED
    BY <1>1, <2>1, SpendTyped
<1>6. loop' \in Loops /\ (loop'.pc \in {"request", "body"} /\ OnThread' => loop'.without # None)
  <2>1. CASE loop' = loop
    BY <1>1, <2>1 DEF OnThread, Compacting
  <2>2. CASE WholeReply
    <3>1. loop' = [loop EXCEPT !.pc = "body"] /\ loop.pc = "request"
      BY <2>2 DEF WholeReply, At
    <3> QED
      BY <1>1, <3>1 DEF Loops, Pcs, OnThread, Compacting
  <2>3. CASE RequestFails \/ Leave
    <3>1. loop' = [loop EXCEPT !.pc = "failed"] \/ loop' = [loop EXCEPT !.pc = "left"]
      BY <2>3 DEF RequestFails, Leave
    <3> QED
      BY <1>1, <3>1 DEF Loops, Pcs
  <2>4. loop' = loop \/ WholeReply \/ RequestFails \/ Leave
    BY DEF StreamEvent, StreamBreaks, CallTakesTurn, CallEnds, CallFails, ReaderStep,
           ReaderOpens, ReaderDefers, ReaderLeaves, Reads
  <2> QED
    BY <2>1, <2>2, <2>3, <2>4
<1> QED
  BY <1>1, <1>2, <1>4, <1>5, <1>6 DEF Typed

\* The types after the steps that make the history.
LEMMA HistoryTyped ==
  ASSUME SInv, Typed, CompactionBooks,
         \/ Answer \/ Append1 \/ SetOther \/ Push
         \/ \E summary \in BOOLEAN : Compacted(summary)
         \/ \E withResults \in BOOLEAN : PutBack(withResults)
  PROVE  Typed'
<1>1. /\ loop \in Loops /\ talk \in Talks /\ left \in Lefts /\ setup \in Setups /\ left.says <= setup.says
      /\ loop.pc \in {"request", "body"} /\ OnThread => loop.without # None
  BY DEF Typed
<1>2. setup' = setup
  <2>1. [Next]_vars
    BY DEF Next, Runner, Caller
  <2> QED
    BY <2>1, SetupKept
<1>3. talk.history \in Seq(Messages) /\ Len(talk.history) \in Nat
  BY <1>1 DEF Talks
<1>4. Started \in SUBSET Nat
  BY StartedTyped
<1>5. ThisReply \in Messages /\ Results(loop.iterations) \in Messages /\ NextUser \in Messages /\ Summary \in Messages
  BY ThisReplyTyped, NextUserTyped DEF Summary, Messages
<1>6. CASE Answer
  <2> DEFINE places == {i \in DOMAIN talk.history : talk.history[i].by \in {"reply", "cut", "summary"}}
             answered == Max({0} \cup places)
             h == SubSeq(talk.history, 1, answered) \o <<Results(loop.iterations)>>
                    \o SubSeq(talk.history, answered + 1, Len(talk.history))
  <2>1. talk' = [talk EXCEPT !.history = h] /\ left' = left
    BY <1>1, <1>6 DEF Answer, Talks
  <2>2. loop' \in Loops /\ loop'.pc = "top"
    BY <1>1, <1>6 DEF Answer, Loops, Pcs
  <2>3. answered \in 0..Len(talk.history)
    <3>1. {0} \cup places \subseteq 0..Len(talk.history)
      BY <1>3
    <3> HIDE DEF places
    <3> QED
      BY <1>3, <3>1, MaxOfSome
  <2>4. h \in Seq(Messages)
    <3> HIDE DEF answered
    <3>1. SubSeq(talk.history, 1, answered) \in Seq(Messages)
      BY <1>3, <2>3
    <3>2. SubSeq(talk.history, answered + 1, Len(talk.history)) \in Seq(Messages)
      BY <1>3, <2>3
    <3> QED
      BY <1>5, <3>1, <3>2
  <2> HIDE DEF h
  <2>5. talk' \in Talks
    BY <1>1, <2>1, <2>4 DEF Talks
  <2> QED
    BY <1>1, <1>2, <2>1, <2>2, <2>5 DEF Typed
<1>7. CASE Append1
  <2>1. Append(talk.history, NextUser) \in Seq(Messages)
    BY <1>3, <1>5
  <2>2. talk' \in Talks /\ loop' = loop
    BY <1>1, <1>7, <2>1 DEF Append1, Talks
  <2>3. left' \in Lefts /\ left'.says <= setup.says
    BY <1>7, SpendTyped DEF Append1
  <2> QED
    BY <1>1, <1>2, <2>2, <2>3 DEF Typed, OnThread, Compacting
<1>8. CASE SetOther \/ Push \/ \E withResults \in BOOLEAN : PutBack(withResults)
  <2>1. Params \in Seq(Messages) /\ Append(Params, NextUser) \in Seq(Messages)
    BY <1>5, ParamsTyped
  <2>2. left' \in Lefts /\ left'.says <= setup.says
    <3>1. left.takes > 0 /\ (left' = Take \/ (left.says > 0 /\ left' = [Take EXCEPT !.says = @ - 1]))
      BY <1>8 DEF SetOther, Push, PutBack, MayTake
    <3> DEFINE n == left.takes - 1
    <3>2. n \in Nat /\ Take = [left EXCEPT !.takes = n]
      BY <1>1, <3>1 DEF Take, Lefts
    <3> HIDE DEF n
    <3>3. Take \in Lefts /\ Take.says = left.says
      BY <1>1, <3>2 DEF Lefts
    <3>4. CASE left' = Take
      BY <1>1, <3>3, <3>4
    <3>5. CASE left.says > 0 /\ left' = [Take EXCEPT !.says = @ - 1]
      <4> DEFINE m == left.says - 1
      <4>1. left.says \in Nat /\ setup.says \in Nat
        BY <1>1, SetupShape DEF Lefts
      <4>2. m \in Nat /\ m <= setup.says
        BY <1>1, <3>5, <4>1
      <4>3. left' = [Take EXCEPT !.says = m]
        BY <3>3, <3>5
      <4> HIDE DEF m
      <4> QED
        BY <3>3, <4>2, <4>3 DEF Lefts
    <3> QED
      BY <3>1, <3>4, <3>5
  <2>3. PICK messages \in Seq(Messages) : SetMessagesParams(messages)
    <3>1. CASE SetOther \/ Push
      BY <2>1, <3>1 DEF SetOther, Push
    <3>2. CASE \E withResults \in BOOLEAN : PutBack(withResults)
      <4>1. loop.without \in Seq(Messages)
        BY <1>1, <3>2 DEF PutBack, At, Loops
      <4>2. /\ loop.without \o <<ThisReply, Results(loop.iterations)>> \in Seq(Messages)
            /\ loop.without \o <<ThisReply>> \in Seq(Messages)
        BY <1>5, <4>1
      <4>3. PICK withResults \in BOOLEAN : PutBack(withResults)
        BY <3>2
      <4> QED
        BY <4>2, <4>3 DEF PutBack
    <3> QED
      BY <1>8, <3>1, <3>2
  <2>4. loop' \in Loops /\ talk' \in Talks /\ (loop'.without = None <=> loop.without = None)
        /\ loop'.pc = loop.pc /\ loop'.compaction = loop.compaction
    BY <2>3, SetParamsTyped
  <2> QED
    BY <1>1, <1>2, <2>2, <2>4 DEF Typed, OnThread, Compacting
<1>9. CASE \E summary \in BOOLEAN : Compacted(summary)
  <2>1. PICK summary \in BOOLEAN : Compacted(summary)
    BY <1>9
  <2> DEFINE l == [loop EXCEPT !.compaction = "idle"]
             h == <<Summary>> \o SubSeq(talk.history, loop.covers + 1, Len(talk.history))
             c == talk.covered \cup Said(SubSeq(talk.history, 1, loop.covers))
  <2>2. l \in Loops
    BY <1>1 DEF Loops
  <2>3. loop' = Finish(l) \/ loop' = [l EXCEPT !.pc = "top"]
    BY <2>1 DEF Compacted
  <2> HIDE DEF l
  <2>4. loop' \in Loops /\ loop'.pc \in {"ending", "top"}
    <3>1. CASE loop' = Finish(l)
      <4> DEFINE a == [l EXCEPT !.pc = "ending"]
      <4>1. a \in Loops /\ a.pc = "ending" /\ loop' = [a EXCEPT !.awaits = Started]
        BY <2>2, <3>1 DEF Finish, Loops, Pcs
      <4> HIDE DEF a
      <4> QED
        BY <1>4, <4>1 DEF Loops
    <3>2. CASE loop' = [l EXCEPT !.pc = "top"]
      BY <2>2, <3>2 DEF Loops, Pcs
    <3> QED
      BY <2>3, <3>1, <3>2
  <2>5. h \in Seq(Messages) /\ c \in SUBSET Nat
    <3>0. loop.covers \in Nat /\ loop.covers <= Len(talk.history)
      BY <1>1, <2>1 DEF Loops, Compacted, CompactionBooks, At, Over0
    <3>1. loop.covers \in Nat /\ SubSeq(talk.history, 1, loop.covers) \in Seq(Messages)
      BY <1>3, <3>0
    <3>2. SubSeq(talk.history, loop.covers + 1, Len(talk.history)) \in Seq(Messages)
      BY <1>3, <3>1
    <3>3. Said(SubSeq(talk.history, 1, loop.covers)) \in SUBSET Nat
      BY <3>1, SaidAreNumbers
    <3> QED
      BY <1>1, <1>5, <3>2, <3>3 DEF Talks
  <2>6. talk' = talk \/ talk' = [talk EXCEPT !.history = h, !.covered = c]
    BY <1>1, <2>1 DEF Compacted, Talks
  <2> HIDE DEF h, c
  <2>7. talk' \in Talks
    BY <1>1, <2>5, <2>6 DEF Talks
  <2>8. left' = left
    BY <2>1 DEF Compacted
  <2> QED
    BY <1>1, <1>2, <2>4, <2>7, <2>8 DEF Typed
<1> QED
  BY <1>6, <1>7, <1>8, <1>9

LEMMA TypedStep ==
  ASSUME SInv, Typed, CompactionBooks, [Next]_vars
  PROVE  Typed'
<1>1. CASE UNCHANGED vars
  BY <1>1 DEF vars, Typed, OnThread, Compacting
<1>2. CASE Next
  BY <1>2, LoopTyped, RepliesTyped, HistoryTyped DEF Next, Runner, Surroundings, Caller, Faults
<1> QED
  BY <1>1, <1>2

LEMMA InitTyped == Init => Typed
<1> SUFFICES ASSUME Init PROVE Typed
  OBVIOUS
<1>1. setup \in Setups /\ left = [says |-> setup.says, takes |-> setup.takes, holds |-> setup.holds,
                                 compactions |-> setup.compactions, faults |-> setup.faults]
  BY DEF Init
<1>2. left \in Lefts /\ left.says <= setup.says
  BY <1>1, SetupShape DEF Lefts
<1>3. loop \in Loops /\ loop.pc = "idle"
  BY DEF Init, Loops, Pcs
<1>4. talk \in Talks
  BY DEF Init, Talks
<1> QED
  BY <1>1, <1>2, <1>3, <1>4 DEF Typed

LEMMA InitCompaction == Init => CompactionBooks
  BY DEF Init, CompactionBooks, Compacting

\* Settling a turn touches nothing that a compaction knows of.
LEMMA CompactionStep ==
  ASSUME SInv, Typed, CompactionBooks, [Next]_vars
  PROVE  CompactionBooks'
<1>1. /\ loop \in Loops /\ talk.history \in Seq(Messages) /\ Len(talk.history) \in Nat /\ talk.history # None
      /\ talk \in Talks
  BY LoopAssumption DEF Typed, Talks
<1>2. CASE UNCHANGED vars
  BY <1>2 DEF vars, CompactionBooks, Compacting, OnThread
\* The loop's own steps, which leave the history alone.
<1>3. CASE Iterate \/ Top \/ BodyEnds \/ Collect \/ Throws \/ End \/ CompactBeforeNextTurn \/ Generate
  <2>1. talk' = talk
    BY <1>3 DEF Iterate, Top, BodyEnds, Collect, Throws, End, CompactBeforeNextTurn, Generate
  <2>2. CASE Iterate \/ End \/ Throws
    BY <1>1, <2>1, <2>2 DEF Iterate, End, Throws, At, CompactionBooks, Compacting, OnThread, Loops, Over0, Talking
  <2>3. CASE Top
    BY <1>1, <2>1, <2>3 DEF Top, Finish, Compact, At, CompactionBooks, Compacting, OnThread, Loops, Over0, Talking
  <2>4. CASE BodyEnds
    BY <1>1, <2>1, <2>4 DEF BodyEnds, At, CompactionBooks, Compacting, OnThread, Loops, Over0, Talking
  <2>5. CASE Collect
    <3> DEFINE l == [loop EXCEPT !.last = stream.stop]
               m == [l EXCEPT !.compaction = "idle"]
    <3>1. /\ \/ loop' = Compact(l, TRUE) \/ loop' = Finish(m)
             \/ loop' = [l EXCEPT !.pc = "answer", !.response = "loop"] \/ loop' = [l EXCEPT !.pc = "top"]
          /\ loop.pc = "collect" /\ ~Compacting
      BY <2>5 DEF Collect, At, OnThread
    <3>2. loop.without = None
      BY <3>1 DEF CompactionBooks, Over0
    <3>3. CASE loop' = Compact(l, TRUE)
      <4>1. loop'.without = None /\ loop'.covers = Len(talk.history) /\ loop'.pc = "settle"
        BY <1>1, <3>2, <3>3 DEF Compact, Loops
      <4> QED
        BY <1>1, <2>1, <4>1 DEF CompactionBooks
    <3>4. CASE loop' # Compact(l, TRUE)
      <4>1. loop'.without = None /\ loop'.compaction # "in_flight"
        BY <1>1, <3>1, <3>2, <3>4 DEF Finish, Compacting, Loops
      <4> QED
        BY <4>1 DEF CompactionBooks, Compacting
    <3> QED
      BY <3>3, <3>4
  <2>6. CASE CompactBeforeNextTurn \/ Generate
    BY <1>1, <2>1, <2>6 DEF CompactBeforeNextTurn, Generate, CompactionBooks, Compacting, OnThread, Loops, Over0, Talking
  <2> QED
    BY <1>3, <2>2, <2>3, <2>4, <2>5, <2>6
<1>4. CASE SendTurn \/ SendCompaction
  <2>1. PICK reply : Send(reply)
    BY <1>4 DEF SendTurn, SendCompaction
  <2>2. /\ loop'.pc \in {"request", "body"} /\ loop.pc = "settle" /\ loop'.compaction = loop.compaction
        /\ loop'.covers = loop.covers /\ loop'.without = (IF OnThread THEN talk.history ELSE None)
    BY <1>1, <2>1 DEF Send, At, Loops
  <2>3. talk'.history = talk.history
    BY <1>1, <2>1 DEF Send, Ask, Talks
  <2> QED
    BY <1>1, <2>2, <2>3 DEF CompactionBooks, Compacting, OnThread, Over0, Talking
<1>5. CASE TakenOver \/ Answer
  <2>1. loop'.pc \in {"top", "answer"} /\ loop'.compaction = loop.compaction /\ ~Compacting /\ loop'.without = None
    BY <1>1, <1>5 DEF TakenOver, Answer, At, OnThread, Loops, CompactionBooks, Compacting, Over0, Talking
  <2> QED
    BY <2>1 DEF CompactionBooks, Compacting
<1>6. CASE \E summary \in BOOLEAN : Compacted(summary)
  <2>1. PICK summary \in BOOLEAN : Compacted(summary)
    BY <1>6
  <2>2. loop'.compaction = "idle" /\ loop'.without = None
    BY <1>1, <2>1 DEF Compacted, Finish, At, Loops, CompactionBooks, Over0
  <2> QED
    BY <2>2 DEF CompactionBooks, Compacting
<1>7. CASE WholeReply \/ RequestFails \/ StreamEvent \/ StreamBreaks \/ Leave \/ CallTakesTurn \/ CallEnds \/ CallFails
           \/ \E k \in Readers : ReaderStep(k) \/ ReaderOpens(k) \/ ReaderDefers(k) \/ ReaderLeaves(k)
  <2>1. Compacting => talk' = talk
    BY <1>7 DEF WholeReply, RequestFails, StreamEvent, StreamBreaks, Leave, CallTakesTurn, CallEnds, CallFails, ReaderStep,
           ReaderOpens, ReaderDefers, ReaderLeaves, Reads, Breaks, OnThread
  <2>2. \/ loop' = loop
        \/ loop.pc = "request" /\ loop' = [loop EXCEPT !.pc = "body"]
        \/ loop' = [loop EXCEPT !.pc = "failed"] \/ loop' = [loop EXCEPT !.pc = "left"]
    BY <1>7 DEF WholeReply, RequestFails, StreamEvent, StreamBreaks, Leave, CallTakesTurn, CallEnds, CallFails, ReaderStep,
           ReaderOpens, ReaderDefers, ReaderLeaves, Reads, At
  <2>3. /\ loop'.compaction = loop.compaction /\ loop'.without = loop.without /\ loop'.covers = loop.covers
        /\ loop'.pc = loop.pc \/ (loop.pc = "request" /\ loop'.pc = "body") \/ loop'.pc \in Over0
    BY <1>1, <2>2 DEF Loops, Over0
  <2> QED
    BY <2>1, <2>3 DEF CompactionBooks, Compacting, OnThread, Over0, Talking
<1>8. CASE Append1
  <2> DEFINE h == Append(talk.history, NextUser)
  <2>1. Len(h) = Len(talk.history) + 1
    <3>1. NextUser \in Messages
      BY NextUserTyped
    <3> QED
      BY <1>1, <3>1
  <2> HIDE DEF h
  <2>2. talk'.history = h /\ loop' = loop
    BY <1>1, <1>8 DEF Append1, Talks, h
  <2>3. loop.covers \in Nat
    BY <1>1 DEF Loops
  <2> QED
    BY <1>1, <2>1, <2>2, <2>3 DEF CompactionBooks, Compacting, OnThread
<1>9. CASE SetOther \/ Push \/ \E withResults \in BOOLEAN : PutBack(withResults)
  <2>1. /\ loop'.pc = loop.pc /\ loop'.compaction = loop.compaction /\ loop'.covers = loop.covers
        /\ loop.without = None => loop'.without = None
    BY <1>1, <1>9 DEF SetOther, Push, PutBack, SetMessagesParams, Loops
  <2>2. Compacting => talk'.history = talk.history \/ loop.pc \in Over0
    <3>1. CASE SetOther
      BY <1>1, <3>1 DEF SetOther, SetMessagesParams, Params, CompactionBooks, OnThread, Talks
    <3>2. CASE Push \/ \E withResults \in BOOLEAN : PutBack(withResults)
      BY <3>2 DEF Push, PutBack, OnThread
    <3> QED
      BY <1>9, <3>1, <3>2
  <2> QED
    BY <2>1, <2>2 DEF CompactionBooks, Compacting, OnThread
<1> QED
  BY <1>2, <1>3, <1>4, <1>5, <1>6, <1>7, <1>8, <1>9 DEF Next, Runner, Surroundings, Caller, Faults

-----------------------------------------------------------------------------
(* Where calls run.                                                         *)

Booking == SInv /\ Typed /\ CompactionBooks /\ LoopInv

LEMMA BusyIsStarted ==
  ASSUME SInv, stream.eager
  PROVE  Busy(stream) \subseteq Started
<1>1. Booked(stream) /\ DOMAIN stream.calls = DOMAIN stream.blocks
  BY Shape DEF SInv, StreamInv
<1> QED
  BY <1>1 DEF Booked, CallBooked, Busy, Started

LEMMA MadeIsDone ==
  ASSUME SInv, Made
  PROVE  Busy(stream) = {}
<1>1. Booked(stream)
  BY DEF SInv, StreamInv
<1> SUFFICES ASSUME NEW i \in Busy(stream) PROVE FALSE
  OBVIOUS
<1>2. i \in DOMAIN stream.blocks /\ stream.calls[i].at \in {"queued", "running"}
  BY DEF Busy
<1>3. i \in CallsOf(stream)
  BY <1>1, <1>2 DEF Booked, CallBooked, CallsOf
<1> QED
  BY <1>2, <1>3 DEF Made

\* The reply goes on under the loop, or arrives.
LEMMA GoesOn ==
  ASSUME Booking, setup' = setup,
         loop' = loop \/ (loop.pc = "request" /\ loop' = [loop EXCEPT !.pc = "body"]),
         Moves(stream, stream'),
         ~stream.eager \/ (Still(stream) /\ loop.pc \notin {"body", "collect"}) => RunsOn(stream, stream')
  PROVE  LoopInv'
<1>1. LoopInv /\ loop \in Loops /\ SInv
  BY DEF Booking, Typed
<1>2. /\ loop'.pc = loop.pc \/ (loop.pc = "request" /\ loop'.pc = "body")
      /\ loop'.response = loop.response /\ loop'.final = loop.final /\ loop'.awaits = loop.awaits
      /\ loop'.touched = loop.touched /\ loop'.stray = loop.stray /\ loop'.compaction = loop.compaction
      /\ Eager' = Eager
  BY <1>1 DEF Loops, Eager
<1>3. /\ stream'.eager = stream.eager /\ stream'.blocks = stream.blocks
      /\ \A k \in Readers : stream'.readers[k].on => stream.readers[k].on
      /\ stream.aborted => stream'.aborted
  BY DEF Moves, SameReply
<1>4. RunsOn(stream, stream') => Busy(stream') \subseteq Busy(stream)
  BY <1>3 DEF RunsOn, Busy, Over
<1>5. Still(stream) => Still(stream')
  BY <1>3 DEF Still
<1>6. ReplyBooks'
  BY <1>1, <1>2, <1>3 DEF LoopInv, ReplyBooks
<1>7. ResponseBooks' /\ FinalBooks' /\ StrayBooks'
  BY <1>1, <1>2 DEF LoopInv, ResponseBooks, FinalBooks, StrayBooks, Talking, Compacting, Over0
<1>8. ~Eager => RunsOn(stream, stream')
  BY <1>1 DEF LoopInv, ReplyBooks
<1>9. WaitsForCalls'
  BY <1>1, <1>2, <1>4, <1>8 DEF LoopInv, WaitsForCalls, ResponseBooks
<1>10. LetsGo'
  BY <1>1, <1>2, <1>4, <1>5 DEF LoopInv, LetsGo
<1>11. RunOnce'
  <2> SUFFICES ASSUME ~Eager, ~loop.touched, NEW i \in DOMAIN stream.blocks
               PROVE  /\ stream'.calls[i].runs <= 1
                      /\ stream'.calls[i].at = "queued" => stream'.calls[i].runs = 0
                      /\ loop'.pc \in Talking /\ loop'.response = "none" => stream'.calls[i].runs = 0
    BY <1>2, <1>3 DEF RunOnce
  <2>1. /\ stream.calls[i].runs <= 1
        /\ stream.calls[i].at = "queued" => stream.calls[i].runs = 0
        /\ loop.pc \in Talking /\ loop.response = "none" => stream.calls[i].runs = 0
    BY <1>1 DEF LoopInv, RunOnce
  <2>2. RunsOn(stream, stream') /\ (loop'.pc \in Talking => loop.pc \in Talking)
    BY <1>2, <1>8 DEF Talking
  <2>3. loop.pc \in Talking /\ loop.response = "none" => stream.calls[i].at # "queued"
    BY <1>1 DEF LoopInv, WaitsForCalls, Talking, Busy
  <2> QED
    BY <1>2, <2>1, <2>2, <2>3 DEF RunsOn, Over
<1> QED
  BY <1>6, <1>7, <1>9, <1>10, <1>11 DEF LoopInv

LEMMA SameIsRunsOn == ASSUME NEW s, NEW t, SameRuns(s, t) PROVE RunsOn(s, t)
  BY DEF SameRuns, RunsOn

LEMMA StreamGoesOn ==
  ASSUME Booking, \/ WholeReply \/ StreamEvent \/ StreamBreaks \/ CallTakesTurn \/ CallEnds \/ CallFails
                  \/ \E k \in Readers : ReaderStep(k) \/ ReaderDefers(k) \/ ReaderLeaves(k)
  PROVE  LoopInv'
<1>1. SInv /\ StreamInv(stream) /\ setup \in Setups
  BY DEF Booking, SInv, Typed
<1>2. setup' = setup
  <2>1. [Next]_vars
    BY DEF Next, Surroundings, Caller, Faults
  <2> QED
    BY <2>1, SetupKept
<1>3. loop' = loop \/ (loop.pc = "request" /\ loop' = [loop EXCEPT !.pc = "body"])
  BY DEF WholeReply, StreamEvent, StreamBreaks, CallTakesTurn, CallEnds, CallFails, ReaderStep, ReaderDefers, ReaderLeaves,
         Reads, At
<1>4. CASE WholeReply
  <2>1. Moves(stream, stream') /\ RunsOn(stream, stream')
    BY <1>1, <1>4, StoppedKeeps, SameIsRunsOn DEF WholeReply
  <2> QED
    BY <1>2, <1>3, <2>1, GoesOn
<1>5. CASE StreamEvent
  <2>1. Moves(stream, stream') /\ (~stream.eager => RunsOn(stream, stream')) /\ loop.pc \in {"body", "collect"}
    BY <1>1, <1>5, StreamEventRests, SameIsRunsOn DEF Rests, StreamEvent
  <2> QED
    BY <1>2, <1>3, <2>1, GoesOn
<1>6. CASE StreamBreaks
  <2>1. Moves(stream, stream') /\ RunsOn(stream, stream')
    BY <1>1, <1>6, FailKeeps, SameIsRunsOn DEF StreamBreaks, Breaks
  <2> QED
    BY <1>2, <1>3, <2>1, GoesOn
<1>7. CASE CallTakesTurn \/ CallEnds \/ CallFails
  <2>1. DOMAIN stream.calls = DOMAIN stream.blocks
    BY <1>1, Shape DEF StreamInv
  <2>2. \/ \E i \in DOMAIN stream.blocks : Turns(stream, i) /\ stream' = TakesTurn(stream, i)
        \/ \E i \in DOMAIN stream.blocks, outcome \in {"ok", "error", "thrown"} :
             stream.calls[i].at = "running" /\ stream' = Ends(stream, i, outcome)
    BY <1>7, <2>1 DEF CallTakesTurn, CallEnds, CallFails, Reads
  <2>3. Moves(stream, stream') /\ RunsOn(stream, stream')
    BY <1>1, <2>2, TakesTurnKeeps, EndsKeeps
  <2> QED
    BY <1>2, <1>3, <2>3, GoesOn
<1>8. CASE \E k \in Readers : ReaderStep(k) \/ ReaderDefers(k) \/ ReaderLeaves(k)
  <2>1. PICK k \in Readers : ReaderStep(k) \/ ReaderDefers(k) \/ ReaderLeaves(k)
    BY <1>8
  <2>2. /\ stream.readers[k].on
        /\ \/ stream' = Gets(stream, k) \/ stream' = Leaves(stream, k)
           \/ \E i \in CallsOf(stream) : stream' = Defer(stream, i)
           \/ stream' = AsksOn(stream, k) \/ stream' = Drained(stream, k)
    BY <2>1 DEF ReaderStep, ReaderDefers, ReaderLeaves, Reads, Breaks
  <2>3. CASE \/ stream' = Gets(stream, k) \/ stream' = Leaves(stream, k)
             \/ \E i \in CallsOf(stream) : stream' = Defer(stream, i)
    <3>1. Moves(stream, stream') /\ SameRuns(stream, stream')
      BY <1>1, <2>3, GetsKeeps, LeavesKeeps, DeferKeeps DEF Rests
    <3>2. RunsOn(stream, stream')
      BY <3>1, SameIsRunsOn
    <3> QED
      BY <1>2, <1>3, <3>1, <3>2, GoesOn
  <2>4. CASE stream' = AsksOn(stream, k) \/ stream' = Drained(stream, k)
    <3>1. Rests(stream, stream')
      BY <1>1, <2>4, AsksOnKeeps, DrainedKeeps
    <3>2. ~stream.eager \/ Still(stream) => RunsOn(stream, stream')
      BY <2>2, <3>1, SameIsRunsOn DEF Rests, Still
    <3> QED
      BY <1>2, <1>3, <3>1, <3>2, GoesOn DEF Rests
  <2> QED
    BY <2>2, <2>3, <2>4
<1> QED
  BY <1>4, <1>5, <1>6, <1>7, <1>8

LEMMA ReaderOpensKeeps ==
  ASSUME Booking, NEW k \in Readers, ReaderOpens(k)
  PROVE  LoopInv'
<1>1. LoopInv /\ StreamInv(stream)
  BY DEF Booking, SInv
<1>2. /\ loop' = loop /\ setup' = setup /\ loop.pc = "body" /\ stream' = Opens(stream, k) /\ k \in setup.readers
      /\ Eager' = Eager
  BY DEF ReaderOpens, Reads, At, Eager
<1>3. /\ SameReply(stream, stream') /\ SameRuns(stream, stream')
      /\ \A j \in Readers : stream'.readers[j].on => stream.readers[j].on \/ j = k
  BY <1>1, <1>2, OpensKeeps
<1>4. Busy(stream') = Busy(stream) /\ stream'.blocks = stream.blocks /\ stream'.eager = stream.eager
  BY <1>3 DEF Busy, SameReply, SameRuns
<1>5. ReplyBooks' /\ ResponseBooks' /\ FinalBooks' /\ StrayBooks' /\ LetsGo' /\ WaitsForCalls'
  BY <1>1, <1>2, <1>3, <1>4 DEF LoopInv, ReplyBooks, ResponseBooks, FinalBooks, StrayBooks, LetsGo, WaitsForCalls, Compacting
<1>6. RunOnce'
  BY <1>1, <1>2, <1>3, <1>4 DEF LoopInv, RunOnce, SameRuns
<1> QED
  BY <1>5, <1>6 DEF LoopInv

\* Steps of the loop and of the caller that leave the reply alone.
LEMMA LoopGoesOn ==
  ASSUME Booking, Iterate \/ Top \/ BodyEnds \/ End \/ RequestFails \/ CompactBeforeNextTurn \/ Append1
  PROVE  LoopInv'
<1>1. LoopInv /\ loop \in Loops /\ SInv /\ setup' = setup /\ stream' = stream /\ Eager' = Eager
  BY DEF Booking, Typed, Iterate, Top, BodyEnds, End, RequestFails, CompactBeforeNextTurn, Append1, Eager
<1>2. ReplyBooks'
  BY <1>1 DEF LoopInv, ReplyBooks
<1>3. CASE Iterate
  <2>1. /\ loop'.pc = "top" /\ loop.pc = "idle" /\ loop'.response = loop.response /\ loop'.final = loop.final
        /\ loop'.touched = loop.touched /\ loop'.stray = loop.stray /\ loop'.compaction = loop.compaction
    BY <1>1, <1>3 DEF Iterate, At, Loops
  <2> QED
    BY <1>1, <1>2, <2>1 DEF LoopInv, ResponseBooks, FinalBooks, WaitsForCalls, LetsGo, RunOnce, StrayBooks, Talking, Over0
<1>4. CASE Top
  <2>1. loop.pc = "top" /\ ~loop.final /\ ~loop.stray
    BY <1>1, <1>4 DEF Top, At, LoopInv, FinalBooks, StrayBooks, Over0, Talking
  <2>2. /\ loop'.pc = "ending" \/ (loop'.pc = "settle" /\ loop'.response = "none" /\ loop'.awaits = Started)
        /\ ~loop'.final /\ ~loop'.stray /\ loop'.touched = loop.touched
    BY <1>1, <1>4, <2>1 DEF Top, Finish, Compact, Loops
  <2>3. Busy(stream) \subseteq Started
    <3>1. CASE stream.eager
      BY <1>1, <3>1, BusyIsStarted
    <3>2. CASE ~stream.eager
      <4>1. Busy(stream) = {}
        BY <1>1, <2>1, <3>2 DEF LoopInv, WaitsForCalls, ReplyBooks, Busy
      <4> QED
        BY <4>1
    <3> QED
      BY <3>1, <3>2
  <2> QED
    BY <1>1, <1>2, <2>1, <2>2, <2>3
       DEF LoopInv, ResponseBooks, FinalBooks, WaitsForCalls, LetsGo, RunOnce, StrayBooks, Talking, Over0
<1>5. CASE BodyEnds
  <2>1. /\ loop'.pc = "collect" /\ loop.pc = "body" /\ loop'.response = loop.response /\ loop'.final = loop.final
        /\ loop'.touched = loop.touched /\ loop'.stray = loop.stray /\ loop'.compaction = loop.compaction
        /\ loop.response = "asked" => Made
    BY <1>1, <1>5 DEF BodyEnds, At, Loops
  <2>2. loop.response = "none" \/ Busy(stream) = {}
    BY <1>1, <2>1, MadeIsDone DEF LoopInv, ResponseBooks
  <2> QED
    BY <1>1, <1>2, <2>1, <2>2
       DEF LoopInv, ResponseBooks, FinalBooks, WaitsForCalls, LetsGo, RunOnce, StrayBooks, Talking, Over0, Compacting
<1>6. CASE End \/ RequestFails
  <2>1. /\ loop'.pc \in Over0 /\ loop'.final = loop.final /\ loop'.touched = loop.touched /\ loop'.stray = loop.stray
    BY <1>1, <1>6 DEF End, RequestFails, Over0, Loops
  <2> QED
    BY <1>1, <1>2, <2>1
       DEF LoopInv, ResponseBooks, FinalBooks, WaitsForCalls, LetsGo, RunOnce, StrayBooks, Talking, Over0
<1>7. CASE CompactBeforeNextTurn \/ Append1
  <2>1. /\ loop'.pc = loop.pc /\ loop'.response = loop.response /\ loop'.final = loop.final /\ loop'.awaits = loop.awaits
        /\ loop'.touched = loop.touched /\ loop'.stray = loop.stray /\ (Compacting => Compacting')
    BY <1>1, <1>7 DEF CompactBeforeNextTurn, Append1, Loops, Compacting
  <2> QED
    BY <1>1, <1>2, <2>1 DEF LoopInv, ResponseBooks, FinalBooks, WaitsForCalls, LetsGo, RunOnce, StrayBooks
<1> QED
  BY <1>3, <1>4, <1>5, <1>6, <1>7

\* The caller changes the params: from then on it answers for what runs again.
LEMMA ParamsKeep ==
  ASSUME Booking, SetOther \/ Push \/ \E withResults \in BOOLEAN : PutBack(withResults)
  PROVE  LoopInv'
<1>1. LoopInv /\ loop \in Loops /\ SInv
  BY DEF Booking, Typed
<1>2. setup' = setup /\ stream' = stream /\ Eager' = Eager
  BY DEF SetOther, Push, PutBack, SetMessagesParams, Eager
<1>3. /\ loop'.pc = loop.pc /\ loop'.response = "none" /\ loop'.final = loop.final /\ loop'.awaits = loop.awaits
      /\ loop'.touched /\ loop'.stray = loop.stray /\ loop'.compaction = loop.compaction
  BY <1>1 DEF SetOther, Push, PutBack, SetMessagesParams, Loops
<1>4. loop.response = "asked" => Busy(stream) = {}
  BY <1>1, MadeIsDone DEF SetOther, Push, PutBack, MayTake
<1> QED
  BY <1>1, <1>2, <1>3, <1>4
     DEF LoopInv, ReplyBooks, ResponseBooks, FinalBooks, WaitsForCalls, LetsGo, RunOnce, StrayBooks, Compacting

\* A request goes out: what still runs then runs beside the final compaction.
LEMMA SendKeeps ==
  ASSUME Booking, SendTurn \/ SendCompaction
  PROVE  LoopInv'
<1>1. LoopInv /\ loop \in Loops /\ SInv /\ setup \in Setups
  BY DEF Booking, Typed
<1>2. PICK reply : /\ reply.blocks \in Seq(Blocks) /\ reply.stop \in Stops /\ Send(reply)
                   /\ OnThread \/ reply.blocks = <<>>
  BY <1>1, SetupShape, NoReplyTyped DEF SendTurn, SendCompaction, NoReply, OnThread
<1>3. /\ stream'.eager = (Eager /\ OnThread) /\ stream'.blocks = reply.blocks
      /\ \A i \in DOMAIN stream'.blocks : stream'.calls[i] = NoCall
      /\ \A k \in Readers : ~stream'.readers[k].on
  BY <1>2, SendBegins
<1>4. /\ loop.pc = "settle" /\ AwaitsOver /\ setup' = setup /\ Eager' = Eager
      /\ loop'.stray = \E i \in DOMAIN stream.calls : stream.calls[i].at \in {"queued", "running"}
  BY <1>1, <1>2 DEF Send, At, Loops, Eager
<1>5. /\ loop'.pc \in {"request", "body"} /\ loop'.response = loop.response /\ loop'.final = loop.final
      /\ ~loop'.touched /\ loop'.compaction = loop.compaction
  BY <1>1, <1>2 DEF Send, Loops
<1>6. Busy(stream') = {}
  BY <1>3 DEF Busy, NoCall
<1>7. DOMAIN stream.calls = DOMAIN stream.blocks
  BY <1>1, Shape DEF SInv, StreamInv
<1>8. loop'.stray => Busy(stream) # {}
  BY <1>4, <1>7 DEF Busy
<1>9. Busy(stream) # {} => loop.final /\ setup.readers # {}
  <2> SUFFICES ASSUME NEW i \in Busy(stream), ~(loop.final /\ setup.readers # {}) PROVE FALSE
    OBVIOUS
  <2>1. i \in loop.awaits
    BY <1>1, <1>4 DEF LoopInv, LetsGo
  <2>2. Over(stream.calls[i])
    BY <1>4, <2>1 DEF AwaitsOver
  <2> QED
    BY <2>2 DEF Over, Busy
<1>10. ReplyBooks'
  BY <1>2, <1>3, <1>4 DEF ReplyBooks
<1>11. ResponseBooks' /\ FinalBooks' /\ StrayBooks' /\ WaitsForCalls' /\ LetsGo'
  BY <1>1, <1>4, <1>5, <1>6, <1>8, <1>9
     DEF LoopInv, ResponseBooks, FinalBooks, StrayBooks, WaitsForCalls, LetsGo, Talking, Over0, Compacting
<1>12. RunOnce'
  BY <1>3 DEF RunOnce, NoCall
<1> QED
  BY <1>10, <1>11, <1>12 DEF LoopInv

\* The loop lets go of the reply, or is left or fails.
LEMMA LettingGoKeeps ==
  ASSUME Booking, StreamInv(stream'), stream'.eager = stream.eager, stream'.blocks = stream.blocks,
         stream'.calls = stream.calls, stream'.readers = stream.readers, stream'.aborted, setup' = setup,
         loop'.final = loop.final, loop'.touched = loop.touched, loop'.stray = loop.stray,
         loop'.pc \in {"top", "ending", "answer"} \cup Over0,
         loop'.pc \in {"top", "answer"} => ~loop.final,
         loop'.pc = "top" /\ ~Eager => Busy(stream) = {}
  PROVE  LoopInv'
<1>1. LoopInv /\ Eager' = Eager
  BY DEF Booking, Eager
<1>2. Busy(stream') = Busy(stream) /\ Still(stream')
  BY DEF Busy, Still
<1>3. ReplyBooks' /\ RunOnce'
  BY <1>1 DEF LoopInv, ReplyBooks, RunOnce, Talking, Over0
<1>4. ResponseBooks' /\ FinalBooks' /\ StrayBooks' /\ WaitsForCalls' /\ LetsGo'
  BY <1>1, <1>2 DEF LoopInv, ResponseBooks, FinalBooks, StrayBooks, WaitsForCalls, LetsGo, Talking, Over0
<1> QED
  BY <1>3, <1>4 DEF LoopInv

\* What is left of the reply's calls starts; the results are asked for.
LEMMA StartingKeeps ==
  ASSUME Booking, NEW a, StreamInv(a), a.eager = stream.eager, a.blocks = stream.blocks, a.calls = stream.calls,
         a.readers = stream.readers, stream' = StartCalls(a), setup' = setup,
         loop'.final = loop.final, loop'.touched = loop.touched, loop'.stray = loop.stray,
         loop'.compaction = loop.compaction, loop.pc \in {"body", "collect"}, loop.response = "none",
         \/ loop'.pc = "answer" /\ ~loop.final
         \/ loop'.pc = "body" /\ loop'.response = "asked"
  PROVE  LoopInv'
<1>1. LoopInv /\ Eager' = Eager
  BY DEF Booking, Eager
<1>2. /\ Moves(a, stream') /\ stream'.readers = a.readers /\ \A i \in DOMAIN a.blocks : StartsOrKeeps(a, stream', i)
  BY StartCallsKeeps
<1>3. stream'.eager = stream.eager /\ stream'.blocks = stream.blocks /\ stream'.readers = stream.readers
  BY <1>2 DEF Moves, SameReply
<1>4. ReplyBooks'
  BY <1>1, <1>3 DEF LoopInv, ReplyBooks
<1>5. ResponseBooks' /\ FinalBooks' /\ StrayBooks' /\ WaitsForCalls' /\ LetsGo'
  BY <1>1 DEF LoopInv, ResponseBooks, FinalBooks, StrayBooks, WaitsForCalls, LetsGo, Talking, Over0, Compacting
<1>6. RunOnce'
  <2> SUFFICES ASSUME ~Eager, ~loop.touched, NEW i \in DOMAIN stream.blocks
               PROVE  /\ stream'.calls[i].runs <= 1
                      /\ stream'.calls[i].at = "queued" => stream'.calls[i].runs = 0
    BY <1>1, <1>3 DEF RunOnce, Talking
  <2>1. a.calls[i].runs = 0
    BY <1>1 DEF LoopInv, RunOnce, Talking
  <2>2. StartsOrKeeps(a, stream', i)
    BY <1>2
  <2> QED
    BY <2>1, <2>2 DEF StartsOrKeeps
<1> QED
  BY <1>4, <1>5, <1>6 DEF LoopInv

LEMMA LoopLetsGo ==
  ASSUME Booking, Generate \/ TakenOver \/ Collect \/ Answer \/ Throws \/ Leave \/ \E summary \in BOOLEAN : Compacted(summary)
  PROVE  LoopInv'
<1>1. LoopInv /\ loop \in Loops /\ SInv /\ StreamInv(stream)
  BY DEF Booking, Typed, SInv
<1>2. setup' = setup
  BY DEF Generate, TakenOver, Collect, Answer, Throws, Leave, Compacted
<1> DEFINE a == Abort(stream)
<1>3. /\ StreamInv(a) /\ a.eager = stream.eager /\ a.blocks = stream.blocks /\ a.calls = stream.calls
      /\ a.readers = stream.readers /\ a.aborted
  BY <1>1, AbortKeeps DEF Moves, SameReply
<1> HIDE DEF a
\* On the runner's own thread the final compaction has not begun.
<1>4. /\ loop.pc \in {"body", "collect"} /\ OnThread => ~loop.final
      /\ loop.pc = "answer" => ~loop.final
  BY <1>1 DEF LoopInv, FinalBooks, OnThread, Compacting, Talking, Over0
<1>5. CASE Generate
  <2>1. /\ stream' = StartCalls(stream) /\ loop.pc = "body" /\ loop.response = "none"
        /\ loop' = [loop EXCEPT !.response = "asked"]
    BY <1>5 DEF Generate, At
  <2>2. /\ loop'.final = loop.final /\ loop'.touched = loop.touched /\ loop'.stray = loop.stray
        /\ loop'.compaction = loop.compaction /\ loop'.pc = "body" /\ loop'.response = "asked"
    BY <1>1, <2>1 DEF Loops
  <2> QED
    BY <1>1, <1>2, <2>1, <2>2, StartingKeeps
<1>6. CASE TakenOver
  <2>1. loop.pc = "body" /\ OnThread /\ (loop.response = "asked" => Made)
    BY <1>6 DEF TakenOver, At
  <2>2. /\ loop'.final = loop.final /\ loop'.touched = loop.touched /\ loop'.stray = loop.stray
        /\ loop'.compaction = loop.compaction /\ loop'.pc \in {"answer", "top"}
    BY <1>1, <1>6 DEF TakenOver, Loops
  <2>3. \/ stream' = a
        \/ stream' = StartCalls(a) /\ loop'.pc = "answer" /\ loop.response = "none"
    BY <1>1, <1>6 DEF TakenOver, Loops, a
  <2>4. ~Eager => Busy(stream) = {}
    BY <1>1, <2>1, MadeIsDone DEF LoopInv, ResponseBooks, WaitsForCalls
  <2>5. CASE stream' = a
    BY <1>2, <1>3, <1>4, <2>1, <2>2, <2>4, <2>5, LettingGoKeeps
  <2>6. CASE stream' = StartCalls(a) /\ loop'.pc = "answer" /\ loop.response = "none"
    BY <1>2, <1>3, <1>4, <2>1, <2>2, <2>6, StartingKeeps
  <2> QED
    BY <2>3, <2>5, <2>6
<1>7. CASE Collect
  <2> DEFINE l == [loop EXCEPT !.last = stream.stop]
             m == [l EXCEPT !.compaction = "idle"]
  <2>1. loop.pc = "collect" /\ OnThread /\ ~loop.final /\ ~loop.stray
    BY <1>1, <1>4, <1>7 DEF Collect, At, LoopInv, StrayBooks
  <2>2. ~Eager => Busy(stream) = {}
    BY <1>1, <2>1 DEF LoopInv, WaitsForCalls
  <2>3. \/ loop' = Compact(l, TRUE) /\ stream' = stream
        \/ loop' = Finish(m) /\ stream' = a
        \/ /\ loop' = [l EXCEPT !.pc = "answer", !.response = "loop"]
           /\ stream' = IF loop.response = "none" THEN StartCalls(stream) ELSE stream
        \/ loop' = [l EXCEPT !.pc = "top"] /\ stream' = a
    BY <1>7 DEF Collect, a
  <2>4. CASE loop' = Compact(l, TRUE) /\ stream' = stream
    <3>1. /\ loop'.pc = "settle" /\ loop'.final /\ loop'.response = "none" /\ Compacting' /\ loop'.awaits = Started
          /\ loop'.touched = loop.touched /\ loop'.stray = loop.stray
      BY <1>1, <2>4 DEF Compact, Loops, Compacting
    <3>2. Busy(stream) \subseteq Started
      <4>1. CASE stream.eager
        BY <1>1, <4>1, BusyIsStarted
      <4>2. CASE ~stream.eager
        <5>1. Busy(stream) = {}
          BY <1>1, <2>2, <4>2 DEF LoopInv, ReplyBooks, Busy
        <5> QED
          BY <5>1
      <4> QED
        BY <4>1, <4>2
    <3>3. setup.readers = {} => Still(stream)
      BY <1>1 DEF LoopInv, ReplyBooks, Still
    <3>4. Eager' = Eager
      BY <1>2 DEF Eager
    <3>5. ReplyBooks'
      BY <1>1, <1>2, <2>4, <3>4 DEF LoopInv, ReplyBooks
    <3> QED
      BY <1>1, <1>2, <2>1, <2>2, <2>4, <3>1, <3>2, <3>3, <3>4, <3>5
         DEF LoopInv, ResponseBooks, FinalBooks, WaitsForCalls, LetsGo, RunOnce, StrayBooks, Talking
  <2>5. CASE (loop' = Finish(m) \/ loop' = [l EXCEPT !.pc = "top"]) /\ stream' = a
    <3>1. /\ loop'.final = loop.final /\ loop'.touched = loop.touched /\ loop'.stray = loop.stray
          /\ loop'.pc \in {"ending", "top"}
      BY <1>1, <2>5 DEF Finish, Loops
    <3> QED
      BY <1>2, <1>3, <2>1, <2>2, <2>5, <3>1, LettingGoKeeps
  <2>6. CASE loop' = [l EXCEPT !.pc = "answer", !.response = "loop"]
    <3>1. /\ loop'.final = loop.final /\ loop'.touched = loop.touched /\ loop'.stray = loop.stray
          /\ loop'.pc = "answer" /\ loop'.compaction = loop.compaction
      BY <1>1, <2>6 DEF Loops
    <3>2. \/ stream' = StartCalls(stream) /\ loop.response = "none"
          \/ stream' = stream
      <4>1. Finish(m).pc = "ending" /\ [l EXCEPT !.pc = "top"].pc = "top"
        BY <1>1 DEF Finish, Loops
      <4>2. loop' # Finish(m) /\ loop' # [l EXCEPT !.pc = "top"]
        BY <3>1, <4>1
      <4> HIDE DEF l, m
      <4> QED
        BY <2>3, <4>2
    <3>3. CASE stream' = StartCalls(stream) /\ loop.response = "none"
      BY <1>1, <1>2, <2>1, <3>1, <3>3, StartingKeeps
    <3>4. CASE stream' = stream
      <4>1. Eager' = Eager
        BY <1>2 DEF Eager
      <4> QED
        BY <1>1, <1>2, <2>1, <3>1, <3>4, <4>1
           DEF LoopInv, ReplyBooks, ResponseBooks, FinalBooks, WaitsForCalls, LetsGo, RunOnce, StrayBooks, Talking
    <3> QED
      BY <3>2, <3>3, <3>4
  <2> QED
    BY <2>3, <2>4, <2>5, <2>6
<1>8. CASE Answer
  <2>1. loop.pc = "answer" /\ Made /\ stream' = a /\ loop' = [loop EXCEPT !.pc = "top"]
    BY <1>8 DEF Answer, At, a
  <2>2. /\ loop'.final = loop.final /\ loop'.touched = loop.touched /\ loop'.stray = loop.stray /\ loop'.pc = "top"
    BY <1>1, <2>1 DEF Loops
  <2> QED
    BY <1>1, <1>2, <1>3, <1>4, <2>1, <2>2, MadeIsDone, LettingGoKeeps
<1>9. CASE Throws \/ Leave
  <2>1. stream' = a /\ (loop' = [loop EXCEPT !.pc = "left"] \/ loop' = [loop EXCEPT !.pc = "failed"])
    BY <1>9 DEF Throws, Leave, Breaks, a
  <2>2. /\ loop'.final = loop.final /\ loop'.touched = loop.touched /\ loop'.stray = loop.stray
        /\ loop'.pc \in {"left", "failed"}
    BY <1>1, <2>1 DEF Loops
  <2> QED
    BY <1>2, <1>3, <2>1, <2>2, LettingGoKeeps DEF Over0
<1>10. CASE \E summary \in BOOLEAN : Compacted(summary)
  <2> DEFINE l == [loop EXCEPT !.compaction = "idle"]
  <2>1. /\ stream' = a /\ loop' = (IF loop.final THEN Finish(l) ELSE [l EXCEPT !.pc = "top"])
        /\ loop.pc = "collect"
    BY <1>10 DEF Compacted, At, a
  <2>2. /\ loop'.final = loop.final /\ loop'.touched = loop.touched /\ loop'.stray = loop.stray
        /\ loop'.pc = IF loop.final THEN "ending" ELSE "top"
    BY <1>1, <2>1 DEF Finish, Loops
  <2>3. ~Eager => Busy(stream) = {}
    BY <1>1, <2>1 DEF LoopInv, WaitsForCalls
  <2> QED
    BY <1>2, <1>3, <2>1, <2>2, <2>3, LettingGoKeeps
<1> QED
  BY <1>5, <1>6, <1>7, <1>8, <1>9, <1>10

LEMMA LoopInvStep ==
  ASSUME Booking, [Next]_vars
  PROVE  LoopInv'
<1>1. CASE UNCHANGED vars
  BY <1>1 DEF Booking, vars, LoopInv, ReplyBooks, ResponseBooks, FinalBooks, WaitsForCalls, LetsGo, RunOnce, StrayBooks, Compacting,
              Eager
<1>2. CASE Next
  BY <1>2, StreamGoesOn, ReaderOpensKeeps, LoopGoesOn, ParamsKeep, SendKeeps, LoopLetsGo
     DEF Next, Runner, Surroundings, Caller, Faults
<1> QED
  BY <1>1, <1>2

LEMMA InitLoop == Init => LoopInv
<1> SUFFICES ASSUME Init PROVE LoopInv
  OBVIOUS
<1>1. stream = NewStream(FALSE, NoReply) /\ loop.pc = "idle" /\ ~loop.final /\ ~loop.stray /\ loop.response = "none"
  BY DEF Init, NoReply
<1> DEFINE e == FALSE
<1>2. e \in BOOLEAN /\ ~e /\ stream = NewStream(e, NoReply)
  BY <1>1
<1> HIDE DEF e
<1>3. /\ stream.eager = e /\ stream.blocks = NoReply.blocks /\ \A k \in Readers : ~stream.readers[k].on
  BY <1>2, NoReplyTyped, NewStreamKeeps
<1>4. ~stream.eager /\ stream.blocks = <<>> /\ DOMAIN stream.blocks = {}
  BY <1>2, <1>3, NoReplyTyped
<1> QED
  BY <1>1, <1>3, <1>4 DEF LoopInv, ReplyBooks, ResponseBooks, FinalBooks, WaitsForCalls, LetsGo, RunOnce, StrayBooks, Busy, Still

LEMMA BookingHolds == Spec => []Booking
<1>1. Init => Booking
  BY InitStream, InitTyped, InitCompaction, InitLoop DEF Booking
<1>2. Booking /\ [Next]_vars => Booking'
  <2> SUFFICES ASSUME Booking, [Next]_vars PROVE Booking'
    OBVIOUS
  <2>1. SInv /\ Typed /\ CompactionBooks /\ setup \in Setups
    BY DEF Booking, Typed
  <2>2. SInv'
    <3>1. CASE Next
      BY <2>1, <3>1, StreamSteps, StreamStepKeeps
    <3>2. CASE UNCHANGED vars
      BY <2>1, <3>2 DEF vars, SInv
    <3> QED
      BY <3>1, <3>2
  <2> QED
    BY <2>1, <2>2, TypedStep, CompactionStep, LoopInvStep DEF Booking
<1> QED
  BY <1>1, <1>2, PTL DEF Spec

\* The calls of a reply run once, a toolset's one after the other and not after a failure, and none beside the next
\* request but the last reply's.  The argument is that the runner keeps books: an entry says that a call was started, an
\* eager runner awaits what is entered before it sends, and any other lets no call run while it is not waiting for it.
THEOREM CallsInTheirPlace == Spec => []CallsRunInTheirPlace
<1>1. Booking => CallsRunInTheirPlace
  <2> SUFFICES ASSUME Booking PROVE CallsRunInTheirPlace
    OBVIOUS
  <2>1. LoopInv /\ Booked(stream) /\ InOrder(stream)
    BY DEF Booking, SInv, StreamInv
  <2>2. ASSUME NEW i \in CallsOf(stream), stream.calls[i].runs > 1
        PROVE  ~Eager /\ loop.touched
    <3>1. i \in DOMAIN stream.blocks /\ stream.blocks # <<>> /\ stream.calls[i] \in CallRec
      BY Shape DEF CallsOf, Booking, SInv, StreamInv
    <3>2. ~(stream.calls[i].runs <= 1)
      BY <2>2, <3>1 DEF CallRec
    <3>3. ~Eager
      BY <2>1, <3>1, <3>2 DEF LoopInv, ReplyBooks, Booked, CallBooked
    <3> QED
      BY <2>1, <3>1, <3>2, <3>3 DEF LoopInv, RunOnce
  <2> QED
    BY <2>1, <2>2 DEF CallsRunInTheirPlace, InOrder, LoopInv, StrayBooks
<1> QED
  BY BookingHolds, <1>1, PTL

-----------------------------------------------------------------------------
(* The history that the loop sends.                                         *)

\* Replies in h whose calls have no results behind them; what h has of the model; and how far h is from a question.
Unanswered(h) == {i \in DOMAIN h : h[i].asks /\ ~(i < Len(h) /\ h[i + 1] = Results(h[i].n))}
Words(h) == {i \in DOMAIN h : h[i].by \in {"reply", "cut", "summary"}}
Whole(h) == Unanswered(h) = {}
WholeBut(h, r) == \A i \in Unanswered(h) : h[i] = r /\ \A j \in Words(h) : j <= i
LastWord(h, r) == \E i \in Words(h) : h[i] = r /\ \A j \in Words(h) : j <= i
Proper(h) == \A i \in DOMAIN h : h[i].asks => h[i].by = "reply"

\* h is q and what the caller has said since.
SaidSince(h, q) ==
  /\ Len(q) <= Len(h)
  /\ \A i \in DOMAIN h : IF i <= Len(q) THEN h[i] = q[i] ELSE h[i].by = "user" /\ ~h[i].asks

LEMMA SequenceShape ==
  ASSUME NEW h \in Seq(Messages)
  PROVE  DOMAIN h = 1..Len(h) /\ Len(h) \in Nat /\ \A i \in DOMAIN h : h[i] \in Messages
  OBVIOUS

LEMMA SaidAt ==
  ASSUME NEW h \in Seq(Messages), NEW n
  PROVE  n \in Said(h) <=> \E i \in DOMAIN h : h[i].by = "user" /\ h[i].n = n
  BY DEF Said, Range

\* What is said in one history is said in any that has the same messages of the caller.
LEMMA SaidWithin ==
  ASSUME NEW h \in Seq(Messages), NEW g \in Seq(Messages),
         \A i \in DOMAIN h : h[i].by = "user" => \E j \in DOMAIN g : g[j] = h[i]
  PROVE  Said(h) \subseteq Said(g)
<1> SUFFICES ASSUME NEW n \in Said(h) PROVE n \in Said(g)
  OBVIOUS
<1>1. PICK i \in DOMAIN h : h[i].by = "user" /\ h[i].n = n
  BY SaidAt
<1>2. PICK j \in DOMAIN g : g[j] = h[i]
  BY <1>1
<1> QED
  BY <1>1, <1>2, SaidAt

LEMMA SinceIsAsWhole ==
  ASSUME NEW q \in Seq(Messages), NEW h \in Seq(Messages), SaidSince(h, q), Proper(q), NEW r
  PROVE  /\ Proper(h) /\ Unanswered(h) \subseteq Unanswered(q) /\ Words(h) = Words(q)
         /\ Whole(q) => Whole(h)
         /\ WholeBut(q, r) => WholeBut(h, r)
         /\ LastWord(q, r) => LastWord(h, r)
<1>1. /\ DOMAIN q = 1..Len(q) /\ Len(q) \in Nat /\ DOMAIN h = 1..Len(h) /\ Len(h) \in Nat /\ Len(q) <= Len(h)
      /\ \A i \in DOMAIN h : h[i] \in Messages
  BY SequenceShape DEF SaidSince
<1>2. \A i \in DOMAIN q : i \in DOMAIN h /\ h[i] = q[i]
  BY <1>1 DEF SaidSince
<1>3. \A i \in DOMAIN h : i \in DOMAIN q \/ h[i].by = "user"
  BY <1>1 DEF SaidSince
<1>4. Words(h) = Words(q)
  BY <1>2, <1>3 DEF Words
<1>5. Proper(h)
  BY <1>2, <1>3, <1>1 DEF Proper, SaidSince
<1>6. Unanswered(h) \subseteq Unanswered(q)
  <2> SUFFICES ASSUME NEW i \in Unanswered(h) PROVE i \in Unanswered(q)
    OBVIOUS
  <2>1. i \in DOMAIN h /\ h[i].asks /\ ~(i < Len(h) /\ h[i + 1] = Results(h[i].n))
    BY DEF Unanswered
  <2>2. i \in DOMAIN q /\ i \in Nat
    BY <1>1, <2>1 DEF SaidSince
  <2>3. i < Len(q) => i + 1 \in DOMAIN q /\ i < Len(h)
    BY <1>1, <2>2
  <2> QED
    BY <1>2, <2>1, <2>2, <2>3 DEF Unanswered
<1>7. Whole(q) => Whole(h)
  BY <1>6 DEF Whole
<1>8. WholeBut(q, r) => WholeBut(h, r)
  <2> SUFFICES ASSUME WholeBut(q, r), NEW i \in Unanswered(h) PROVE h[i] = r /\ \A j \in Words(h) : j <= i
    BY DEF WholeBut
  <2>1. i \in DOMAIN q
    BY <1>6 DEF Unanswered
  <2> QED
    BY <1>2, <1>4, <1>6, <2>1 DEF WholeBut
<1>9. LastWord(q, r) => LastWord(h, r)
  <2> SUFFICES ASSUME NEW i \in Words(q), q[i] = r, \A j \in Words(q) : j <= i PROVE LastWord(h, r)
    BY DEF LastWord
  <2>1. i \in DOMAIN q
    BY DEF Words
  <2> QED
    BY <1>2, <1>4, <2>1 DEF LastWord
<1> QED
  BY <1>4, <1>5, <1>6, <1>7, <1>8, <1>9

LEMMA SinceAppends ==
  ASSUME NEW q \in Seq(Messages), NEW h \in Seq(Messages), SaidSince(h, q), NEW n \in Nat
  PROVE  LET g == Append(h, User(n))
         IN g \in Seq(Messages) /\ SaidSince(g, q) /\ Said(h) \subseteq Said(g) /\ n \in Said(g)
            /\ \A i \in DOMAIN g : i > Len(h) => g[i].by = "user"
<1> DEFINE g == Append(h, User(n))
<1>1. /\ Len(q) \in Nat /\ DOMAIN h = 1..Len(h) /\ Len(h) \in Nat /\ Len(q) <= Len(h)
      /\ User(n) \in Messages /\ User(n).by = "user" /\ ~User(n).asks /\ User(n).n = n
  BY SequenceShape, MessagesTyped DEF SaidSince, User
<1>2. /\ g \in Seq(Messages) /\ Len(g) = Len(h) + 1 /\ DOMAIN g = 1..Len(h) + 1 /\ g[Len(h) + 1] = User(n)
      /\ \A i \in DOMAIN h : g[i] = h[i] /\ i \in DOMAIN g
  BY <1>1
<1> HIDE DEF g
<1>3. SaidSince(g, q)
  <2> SUFFICES ASSUME NEW i \in DOMAIN g
               PROVE  IF i <= Len(q) THEN g[i] = q[i] ELSE g[i].by = "user" /\ ~g[i].asks
    BY <1>1, <1>2 DEF SaidSince
  <2>1. CASE i \in DOMAIN h
    BY <1>2, <2>1 DEF SaidSince
  <2>2. CASE i = Len(h) + 1
    BY <1>1, <1>2, <2>2
  <2> QED
    BY <1>1, <1>2, <2>1, <2>2
<1>4. Said(h) \subseteq Said(g)
  BY <1>2, SaidWithin
<1>5. n \in Said(g)
  <2>1. Len(h) + 1 \in DOMAIN g
    BY <1>1, <1>2
  <2> QED
    BY <1>1, <1>2, <2>1, SaidAt
<1>6. \A i \in DOMAIN g : i > Len(h) => g[i].by = "user"
  BY <1>1, <1>2
<1> QED
  BY <1>2, <1>3, <1>4, <1>5, <1>6 DEF g

LEMMA TailOf ==
  ASSUME NEW h \in Seq(Messages), NEW n \in 0..Len(h), NEW t, t = SubSeq(h, n + 1, Len(h))
  PROVE  /\ t \in Seq(Messages) /\ Len(t) = Len(h) - n /\ DOMAIN t = 1..Len(h) - n
         /\ \A i \in 1..Len(h) - n : t[i] = h[n + i]
<1>1. DOMAIN h = 1..Len(h) /\ Len(h) \in Nat /\ n \in Nat /\ n <= Len(h)
  BY SequenceShape
<1>2. \A i \in n + 1..Len(h) : h[i] \in Messages
  BY <1>1
<1>3. t \in Seq(Messages)
  <2> DEFINE m == n + 1
             k == Len(h)
  <2>1. m \in Nat /\ k \in Nat /\ t = SubSeq(h, m, k)
    BY <1>1
  <2> HIDE DEF m, k
  <2> QED
    BY <2>1
<1>4. Len(t) = Len(h) - n
  <2> DEFINE m == n + 1
             k == Len(h)
  <2>1. m \in Nat /\ k \in Nat /\ t = SubSeq(h, m, k) /\ m <= k + 1 /\ k - m + 1 = k - n
    BY <1>1
  <2>2. Len(h) = k
    OBVIOUS
  <2> HIDE DEF m, k
  <2>3. Len(t) = IF m <= k THEN k - m + 1 ELSE 0
    BY <2>1
  <2> QED
    BY <1>1, <2>1, <2>2, <2>3 DEF m
<1>5. DOMAIN t = 1..Len(h) - n
  BY <1>3, <1>4
<1>6. ASSUME NEW i \in 1..Len(h) - n PROVE t[i] = h[n + i]
  <2>1. t[i] = h[(n + 1) + i - 1]
    BY <1>1
  <2>2. (n + 1) + i - 1 = n + i
    BY <1>1
  <2> QED
    BY <2>1, <2>2
<1> QED
  BY <1>3, <1>4, <1>5, <1>6

LEMMA FrontOf ==
  ASSUME NEW h \in Seq(Messages), NEW n \in 0..Len(h), NEW t, t = SubSeq(h, 1, n)
  PROVE  /\ t \in Seq(Messages) /\ Len(t) = n /\ DOMAIN t = 1..n
         /\ \A i \in 1..n : t[i] = h[i]
<1>1. DOMAIN h = 1..Len(h) /\ Len(h) \in Nat /\ n \in Nat /\ n <= Len(h)
  BY SequenceShape
<1>2. t \in Seq(Messages) /\ Len(t) = n
  BY <1>1
<1>3. DOMAIN t = 1..n
  BY <1>2
<1>4. \A i \in 1..n : t[i] = h[i]
  BY <1>1
<1> QED
  BY <1>2, <1>3, <1>4

LEMMA JoinOf ==
  ASSUME NEW a \in Seq(Messages), NEW b \in Seq(Messages), NEW t, t = a \o b
  PROVE  /\ t \in Seq(Messages) /\ Len(t) = Len(a) + Len(b) /\ DOMAIN t = 1..Len(a) + Len(b)
         /\ \A i \in 1..Len(a) + Len(b) : t[i] = IF i <= Len(a) THEN a[i] ELSE b[i - Len(a)]
  OBVIOUS

LEMMA SinceItself ==
  ASSUME NEW h \in Seq(Messages)
  PROVE  SaidSince(h, h)
  BY SequenceShape DEF SaidSince

LEMMA QuestionIsProper ==
  ASSUME NEW q \in Seq(Messages), NEW h \in Seq(Messages), SaidSince(h, q), Proper(h)
  PROVE  Proper(q)
<1>1. DOMAIN q = 1..Len(q) /\ Len(q) \in Nat /\ DOMAIN h = 1..Len(h) /\ Len(h) \in Nat /\ Len(q) <= Len(h)
  BY SequenceShape DEF SaidSince
<1>2. \A i \in DOMAIN q : i \in DOMAIN h /\ h[i] = q[i]
  BY <1>1 DEF SaidSince
<1> QED
  BY <1>2 DEF Proper

\* A question gives way to what has become of it.
Replaced(h, q, o) == o \o SubSeq(h, Len(q) + 1, Len(h))
LEMMA OutcomeReplaces ==
  ASSUME NEW q \in Seq(Messages), NEW h \in Seq(Messages), SaidSince(h, q),
         NEW o \in Seq(Messages), Said(q) \subseteq Said(o),
         NEW g, g = Replaced(h, q, o)
  PROVE  g \in Seq(Messages) /\ SaidSince(g, o) /\ Said(h) \subseteq Said(g)
<1> DEFINE t == SubSeq(h, Len(q) + 1, Len(h))
<1>a. g = o \o t
  BY DEF Replaced
<1>1. /\ Len(q) \in Nat /\ DOMAIN h = 1..Len(h) /\ Len(h) \in Nat /\ Len(q) <= Len(h)
      /\ Len(o) \in Nat /\ DOMAIN o = 1..Len(o) /\ DOMAIN q = 1..Len(q)
  BY SequenceShape DEF SaidSince
<1>2. /\ t \in Seq(Messages) /\ Len(t) = Len(h) - Len(q)
      /\ \A i \in 1..Len(h) - Len(q) : t[i] = h[Len(q) + i]
  BY <1>1, Len(q) \in 0..Len(h), TailOf
<1> HIDE DEF t
<1>0. g \in Seq(Messages)
  BY <1>a, <1>2, JoinOf
<1>b. /\ Len(g) = Len(o) + Len(t) /\ DOMAIN g = 1..Len(o) + Len(t)
      /\ \A i \in 1..Len(o) + Len(t) : g[i] = IF i <= Len(o) THEN o[i] ELSE t[i - Len(o)]
  <2>1. t \in Seq(Messages)
    BY <1>2
  <2> QED
    BY ONLY <1>a, <2>1
<1>3. /\ Len(g) = Len(o) + Len(t) /\ DOMAIN g = 1..Len(o) + Len(t)
      /\ \A i \in DOMAIN g : g[i] = IF i <= Len(o) THEN o[i] ELSE t[i - Len(o)]
  BY ONLY <1>b
<1>4. SaidSince(g, o)
  <2> SUFFICES ASSUME NEW i \in DOMAIN g, i > Len(o) PROVE g[i].by = "user" /\ ~g[i].asks
    BY <1>1, <1>2, <1>3 DEF SaidSince
  <2> DEFINE j == Len(q) + (i - Len(o))
  <2>1. i - Len(o) \in 1..Len(h) - Len(q)
    BY <1>1, <1>2, <1>3
  <2>2. j \in DOMAIN h /\ j > Len(q)
    BY <1>1, <2>1
  <2>3. g[i] = h[j]
    <3>1. g[i] = t[i - Len(o)]
      BY ONLY <1>1, <1>3, <2>1
    <3> QED
      BY ONLY <1>2, <2>1, <3>1 DEF j
  <2> HIDE DEF j
  <2> QED
    <3>1. h[j].by = "user" /\ ~h[j].asks
      BY <1>1, <2>2 DEF SaidSince
    <3> QED
      BY <2>3, <3>1
<1>5. Said(h) \subseteq Said(g)
  <2> SUFFICES ASSUME NEW n \in Said(h) PROVE n \in Said(g)
    OBVIOUS
  <2>1. PICK i \in DOMAIN h : h[i].by = "user" /\ h[i].n = n
    BY SaidAt
  <2>2. CASE i <= Len(q)
    <3>1. i \in DOMAIN q /\ q[i] = h[i]
      BY <1>1, <2>1, <2>2 DEF SaidSince
    <3>2. n \in Said(o)
      BY <2>1, <3>1, SaidAt
    <3>3. PICK j \in DOMAIN o : o[j].by = "user" /\ o[j].n = n
      BY <3>2, SaidAt
    <3>4. j \in DOMAIN g /\ g[j] = o[j]
      BY <1>1, <1>2, <1>3, <3>3
    <3> QED
      BY ONLY <1>0, <3>3, <3>4, SaidAt
  <2>3. CASE i > Len(q)
    <3> DEFINE j == Len(o) + (i - Len(q))
    <3>a. /\ i \in 1..Len(h) /\ i > Len(q) /\ Len(q) \in Nat /\ Len(h) \in Nat /\ Len(o) \in Nat
          /\ Len(t) = Len(h) - Len(q) /\ DOMAIN g = 1..Len(o) + Len(t)
      BY <1>1, <1>2, <1>3, <2>1, <2>3
    <3>1. j \in DOMAIN g /\ j > Len(o) /\ j - Len(o) = i - Len(q) /\ i - Len(q) \in 1..Len(h) - Len(q)
      BY ONLY <3>a DEF j
    <3>2. g[j] = h[i]
      <4>1. g[j] = t[i - Len(q)]
        BY <1>1, <1>3, <3>1
      <4>2. Len(q) + (i - Len(q)) = i
        BY <1>1, <2>1
      <4> QED
        BY <1>2, <3>1, <4>1, <4>2
    <3> HIDE DEF j
    <3> QED
      BY ONLY <1>0, <2>1, <3>1, <3>2, SaidAt
  <2> QED
    BY <1>1, <2>1, <2>2, <2>3
<1> QED
  BY <1>0, <1>4, <1>5

\* A whole history with a reply behind it.
LEMMA ReplyIsLast ==
  ASSUME NEW q \in Seq(Messages), Proper(q), Whole(q),
         NEW m \in Messages, m.by \in {"reply", "cut"}, m.asks => m.by = "reply",
         NEW o, o = Append(q, m)
  PROVE  /\ o \in Seq(Messages) /\ Proper(o) /\ WholeBut(o, m) /\ LastWord(o, m)
         /\ ~m.asks => Whole(o)
         /\ \A i \in Unanswered(o) : i = Len(o) /\ o[i] = m
         /\ Said(q) \subseteq Said(o)
<1>1. /\ DOMAIN q = 1..Len(q) /\ Len(q) \in Nat
      /\ o \in Seq(Messages) /\ Len(o) = Len(q) + 1 /\ DOMAIN o = 1..Len(q) + 1 /\ o[Len(q) + 1] = m
      /\ \A i \in DOMAIN q : o[i] = q[i] /\ i \in DOMAIN o
  BY SequenceShape
<1>2. \A i \in DOMAIN o : i \in DOMAIN q \/ i = Len(o)
  BY <1>1
<1>3. Proper(o)
  BY <1>1, <1>2 DEF Proper
<1>4. ASSUME NEW i \in Unanswered(o)
      PROVE  i = Len(o) /\ m.asks
  <2>1. i \in DOMAIN o /\ o[i].asks /\ ~(i < Len(o) /\ o[i + 1] = Results(o[i].n))
    BY DEF Unanswered
  <2>2. i \notin DOMAIN q
    <3> SUFFICES ASSUME i \in DOMAIN q PROVE FALSE
      OBVIOUS
    <3>1. i < Len(q) /\ q[i + 1] = Results(q[i].n)
      BY <1>1, <2>1 DEF Whole, Unanswered
    <3>2. i + 1 \in DOMAIN q /\ i < Len(o)
      BY <1>1, <3>1
    <3> QED
      BY <1>1, <2>1, <3>1, <3>2
  <2> QED
    BY <1>1, <1>2, <2>1, <2>2
<1>5. \A j \in Words(o) : j <= Len(o)
  BY <1>1 DEF Words
<1>6. WholeBut(o, m) /\ (~m.asks => Whole(o))
  BY <1>1, <1>4, <1>5 DEF WholeBut, Whole
<1>7. LastWord(o, m)
  <2>1. Len(o) \in Words(o) /\ o[Len(o)] = m
    BY <1>1 DEF Words
  <2> QED
    BY <1>5, <2>1 DEF LastWord
<1>8. Said(q) \subseteq Said(o)
  BY <1>1, SaidWithin
<1> QED
  BY <1>1, <1>3, <1>4, <1>6, <1>7, <1>8

\* A question is whole, it is how the history begins, and only the caller has said more since.
QuestionBooks ==
  talk.question # None =>
    /\ OnThread /\ loop.pc \in Talking /\ stream.end = "open"
    /\ Whole(talk.question) /\ SaidSince(talk.history, talk.question)

\* How whole the history is, wherever the loop is.
HistoryBooks ==
  /\ Proper(talk.history)
  /\ loop.pc \in {"idle", "top"} => Whole(talk.history)
  /\ loop.pc \in {"settle", "request"} /\ OnThread => Whole(talk.history)
  /\ loop.pc \in {"settle"} \cup Talking /\ Compacting /\ ~loop.final => Whole(talk.history)
  /\ loop.pc \in {"body", "collect", "answer"} /\ OnThread => WholeBut(talk.history, ThisReply)
  /\ loop.pc \in {"body", "collect"} /\ OnThread /\ stream.end = "stopped" => LastWord(talk.history, ThisReply)
  /\ loop.pc = "answer" => OnThread /\ LastWord(talk.history, ThisReply)

\* What is said while a compaction is on its way is the caller's.
CompactedBooks ==
  Compacting /\ loop.pc \in {"settle"} \cup Talking =>
    \A i \in DOMAIN talk.history : i > loop.covers => talk.history[i].by = "user" /\ ~talk.history[i].asks

\* What the caller makes of the history in the loop body ends in the reply, or has its results.
WithoutBooks ==
  loop.without # None /\ loop.pc \notin Over0 =>
    /\ Proper(loop.without)
    /\ \A i \in Unanswered(loop.without) : loop.without[i] = ThisReply /\ i = Len(loop.without)
    /\ loop.pc = "request" => Whole(loop.without)
    /\ ~loop.mutated => Said(loop.without) \subseteq Said(talk.history)

\* The reply and the question go together.
AskingBooks ==
  /\ loop.pc \in Talking /\ OnThread /\ stream.end = "open" => talk.question # None
  /\ loop.pc = "request" => stream.end = "open" /\ \A k \in Readers : ~stream.readers[k].on
  /\ loop.pc = "body" /\ loop.response = "asked" => stream.end = "stopped"
  /\ stream.stop = "resume" => ~MakesCalls

SaidBooks ==
  1..(setup.says - left.says) \subseteq Said(talk.history) \cup Said(Params) \cup talk.covered \cup talk.overridden

TalkInv == QuestionBooks /\ HistoryBooks /\ CompactedBooks /\ WithoutBooks /\ AskingBooks /\ SaidBooks

LEMMA TalkShape ==
  ASSUME Typed
  PROVE  /\ talk \in Talks /\ loop \in Loops /\ talk.history \in Seq(Messages) /\ talk.history # None
         /\ talk.question # None => talk.question \in Seq(Messages)
         /\ loop.without # None => loop.without \in Seq(Messages)
         /\ setup.says - left.says \in Nat /\ setup.says \in Nat /\ left.says \in Nat
<1>1. talk \in Talks /\ loop \in Loops /\ talk.history \in Seq(Messages) /\ talk.history # None
  BY LoopAssumption DEF Typed, Talks
<1>2. /\ talk.question # None => talk.question \in Seq(Messages)
      /\ loop.without # None => loop.without \in Seq(Messages)
  BY <1>1 DEF Talks, Loops
<1>3. setup.says \in Nat /\ left.says \in Nat /\ left.says <= setup.says
  BY SetupShape DEF Typed, Lefts
<1>4. setup.says - left.says \in Nat
  BY <1>3
<1> QED
  BY <1>1, <1>2, <1>3, <1>4

\* A turn that is over leaves a thread without a question, and nothing that was said is lost.
Resolved(t) ==
  /\ t.question = None /\ t.history \in Seq(Messages) /\ Proper(t.history) /\ Said(talk.history) \subseteq Said(t.history)
  /\ t.covered = talk.covered /\ t.overridden = talk.overridden
  /\ talk.question = None => t = talk

LEMMA Settling ==
  ASSUME Typed, QuestionBooks, HistoryBooks,
         NEW o, talk.question # None => o \in Seq(Messages) /\ Proper(o) /\ Said(talk.question) \subseteq Said(o),
         NEW t, t = Settled(talk, o)
  PROVE  Resolved(t) /\ (talk.question # None => SaidSince(t.history, o))
<1>1. talk \in Talks /\ talk.history \in Seq(Messages) /\ (talk.question # None => talk.question \in Seq(Messages))
  BY TalkShape
<1>2. CASE talk.question = None
  <2>1. t = talk
    BY <1>2 DEF Settled
  <2> QED
    BY <1>1, <1>2, <2>1 DEF Resolved, HistoryBooks
<1>3. CASE talk.question # None
  <2> DEFINE q == talk.question
             h == talk.history
             g == Replaced(h, q, o)
  <2>1. q \in Seq(Messages) /\ h \in Seq(Messages) /\ SaidSince(h, q) /\ o \in Seq(Messages) /\ Proper(o)
        /\ Said(q) \subseteq Said(o)
    BY <1>1, <1>3 DEF QuestionBooks
  <2>2. t = [talk EXCEPT !.history = g, !.question = None]
    BY <1>1, <1>3 DEF Settled, Talks, Replaced
  <2> HIDE DEF q, h
  <2>3. g \in Seq(Messages) /\ SaidSince(g, o) /\ Said(h) \subseteq Said(g)
    BY <2>1, OutcomeReplaces
  <2> HIDE DEF g
  <2>4. Proper(g)
    BY <2>1, <2>3, SinceIsAsWhole
  <2>5. t.history = g /\ t.question = None /\ t.covered = talk.covered /\ t.overridden = talk.overridden
    BY <1>1, <2>2 DEF Talks
  <2> QED
    BY <1>3, <2>3, <2>4, <2>5 DEF Resolved, h
<1> QED
  BY <1>2, <1>3

LEMMA AnsweringResolves ==
  ASSUME Typed, QuestionBooks, HistoryBooks
  PROVE  /\ Resolved(Answered)
         /\ talk.question # None => WholeBut(Answered.history, ThisReply) /\ LastWord(Answered.history, ThisReply)
<1> DEFINE q == talk.question
           o == Append(talk.question, ThisReply)
<1>1. talk.history \in Seq(Messages) /\ (q # None => q \in Seq(Messages))
  BY TalkShape
<1>2. ThisReply \in Messages /\ ThisReply.by = "reply"
  BY ThisReplyTyped DEF ThisReply, Reply
<1>3. q # None => SaidSince(talk.history, q) /\ Proper(q) /\ Whole(q)
  BY <1>1, QuestionIsProper DEF QuestionBooks, HistoryBooks
<1>4. q # None => /\ o \in Seq(Messages) /\ Proper(o) /\ WholeBut(o, ThisReply) /\ LastWord(o, ThisReply)
                  /\ Said(q) \subseteq Said(o)
  BY <1>1, <1>2, <1>3, ReplyIsLast
<1>5. Answered = Settled(talk, o)
  BY DEF Answered
<1> HIDE DEF o
<1>6. Resolved(Answered) /\ (q # None => SaidSince(Answered.history, o))
  BY <1>4, <1>5, Settling
<1>7. Answered.history \in Seq(Messages)
  BY <1>6 DEF Resolved
<1> HIDE DEF q
<1>8. q # None => WholeBut(Answered.history, ThisReply) /\ LastWord(Answered.history, ThisReply)
  BY <1>4, <1>6, <1>7, SinceIsAsWhole
<1> QED
  BY <1>6, <1>8 DEF q

LEMMA BreakingResolves ==
  ASSUME Typed, QuestionBooks, HistoryBooks
  PROVE  /\ Resolved(BrokenOff) /\ (talk.question # None => Whole(BrokenOff.history))
         /\ Resolved(Settled(talk, talk.question))
<1> DEFINE q == talk.question
           m == Cut(loop.iterations)
           o == IF stream.emitted < 2 THEN talk.question ELSE Append(talk.question, Cut(loop.iterations))
<1>1. talk.history \in Seq(Messages) /\ (q # None => q \in Seq(Messages))
  BY TalkShape
<1>2. m \in Messages /\ m.by = "cut" /\ ~m.asks
  BY ThisReplyTyped DEF Cut
<1>3. q # None => SaidSince(talk.history, q) /\ Proper(q) /\ Whole(q)
  BY <1>1, QuestionIsProper DEF QuestionBooks, HistoryBooks
<1>4. q # None => o \in Seq(Messages) /\ Proper(o) /\ Whole(o) /\ Said(q) \subseteq Said(o)
  <2> SUFFICES ASSUME q # None PROVE o \in Seq(Messages) /\ Proper(o) /\ Whole(o) /\ Said(q) \subseteq Said(o)
    OBVIOUS
  <2> DEFINE a == Append(q, m)
  <2> HIDE DEF m
  <2>1. a \in Seq(Messages) /\ Proper(a) /\ Whole(a) /\ Said(q) \subseteq Said(a)
    BY <1>1, <1>2, <1>3, ReplyIsLast
  <2>2. o = q \/ o = a
    BY DEF m
  <2> HIDE DEF q, o, a
  <2> QED
    BY <1>1, <1>3, <2>1, <2>2
<1>5. BrokenOff = Settled(talk, o)
  BY DEF BrokenOff
<1> HIDE DEF o
<1>6. Resolved(BrokenOff) /\ (q # None => SaidSince(BrokenOff.history, o))
  BY <1>4, <1>5, Settling
<1>7. BrokenOff.history \in Seq(Messages)
  BY <1>6 DEF Resolved
<1>8. Resolved(Settled(talk, q))
  BY <1>1, <1>3, Settling
<1> HIDE DEF q
<1>9. q # None => Whole(BrokenOff.history)
  BY <1>4, <1>6, <1>7, SinceIsAsWhole
<1> QED
  BY <1>6, <1>8, <1>9 DEF q

\* A message right behind the last word of the model.
Inserted(h, a, m) == SubSeq(h, 1, a) \o <<m>> \o SubSeq(h, a + 1, Len(h))

OneMore(g, h, a, m) ==
  /\ g \in Seq(Messages) /\ Len(g) = Len(h) + 1 /\ DOMAIN g = 1..Len(h) + 1
  /\ \A i \in 1..a : g[i] = h[i]
  /\ g[a + 1] = m
  /\ \A i \in a + 1..Len(h) : g[i + 1] = h[i]

LEMMA InsertedAt ==
  ASSUME NEW h \in Seq(Messages), NEW a \in 0..Len(h), NEW m \in Messages, NEW g, g = Inserted(h, a, m)
  PROVE  OneMore(g, h, a, m)
<1> DEFINE s == SubSeq(h, 1, a)
           u == Append(s, m)
           t == SubSeq(h, a + 1, Len(h))
<1>1. DOMAIN h = 1..Len(h) /\ Len(h) \in Nat /\ a \in Nat /\ a <= Len(h)
  BY SequenceShape
<1>2. s \in Seq(Messages) /\ Len(s) = a /\ DOMAIN s = 1..a /\ \A i \in 1..a : s[i] = h[i]
  BY FrontOf
<1>3. /\ t \in Seq(Messages) /\ Len(t) = Len(h) - a /\ DOMAIN t = 1..Len(h) - a
      /\ \A i \in 1..Len(h) - a : t[i] = h[a + i]
  BY TailOf
<1> HIDE DEF s, t
<1>4. /\ u \in Seq(Messages) /\ Len(u) = a + 1 /\ u[a + 1] = m /\ \A i \in 1..a : u[i] = s[i]
  BY <1>1, <1>2
<1>5. g = u \o t
  <2>1. s \o <<m>> = u
    BY <1>2
  <2> QED
    BY <2>1 DEF Inserted, s, t
<1> HIDE DEF u
<1>6. t \in Seq(Messages) /\ u \in Seq(Messages)
  BY <1>3, <1>4
<1>7. /\ g \in Seq(Messages) /\ Len(g) = Len(u) + Len(t) /\ DOMAIN g = 1..Len(u) + Len(t)
      /\ \A i \in 1..Len(u) + Len(t) : g[i] = IF i <= Len(u) THEN u[i] ELSE t[i - Len(u)]
  BY ONLY <1>5, <1>6
<1>8. Len(u) + Len(t) = Len(h) + 1
  BY ONLY <1>1, <1>3, <1>4
<1>9. /\ g \in Seq(Messages) /\ Len(g) = Len(h) + 1 /\ DOMAIN g = 1..Len(h) + 1
  BY ONLY <1>7, <1>8
<1>10. \A i \in 1..a : g[i] = h[i]
  <2> SUFFICES ASSUME NEW i \in 1..a PROVE g[i] = h[i]
    OBVIOUS
  <2>1. g[i] = u[i]
    BY ONLY <1>1, <1>4, <1>7, <1>8, i \in 1..a
  <2> QED
    BY <1>2, <1>4, <2>1
<1>11. g[a + 1] = m
  <2>1. a + 1 \in 1..Len(u) + Len(t) /\ a + 1 <= Len(u)
    BY ONLY <1>1, <1>4, <1>8
  <2>2. g[a + 1] = u[a + 1]
    BY ONLY <1>7, <2>1
  <2> QED
    BY <1>4, <2>2
<1>12. \A i \in a + 1..Len(h) : g[i + 1] = h[i]
  <2> SUFFICES ASSUME NEW i \in a + 1..Len(h) PROVE g[i + 1] = h[i]
    OBVIOUS
  <2>1. i + 1 \in 1..Len(u) + Len(t) /\ ~(i + 1 <= Len(u)) /\ i + 1 - Len(u) = i - a
    BY ONLY <1>1, <1>4, <1>8, i \in a + 1..Len(h)
  <2>2. g[i + 1] = t[i - a]
    BY ONLY <1>7, <2>1
  <2>3. i - a \in 1..Len(h) - a /\ a + (i - a) = i
    BY ONLY <1>1, i \in a + 1..Len(h)
  <2>4. t[i - a] = h[a + (i - a)]
    BY ONLY <1>3, <2>3
  <2> QED
    BY ONLY <2>2, <2>3, <2>4
<1> QED
  BY <1>9, <1>10, <1>11, <1>12 DEF OneMore

LEMMA ResultsAnswerTheReply ==
  ASSUME NEW h \in Seq(Messages), Proper(h), NEW r, WholeBut(h, r),
         NEW a \in Words(h), h[a] = r, \A j \in Words(h) : j <= a,
         NEW m \in Messages, m = Results(r.n), NEW g, g = Inserted(h, a, m)
  PROVE  g \in Seq(Messages) /\ Proper(g) /\ Whole(g) /\ Said(h) \subseteq Said(g)
<1>1. DOMAIN h = 1..Len(h) /\ Len(h) \in Nat /\ a \in 1..Len(h) /\ a \in 0..Len(h)
  <2>1. DOMAIN h = 1..Len(h) /\ Len(h) \in Nat /\ a \in DOMAIN h
    BY SequenceShape DEF Words
  <2> QED
    BY <2>1
<1>2. /\ g \in Seq(Messages) /\ Len(g) = Len(h) + 1 /\ DOMAIN g = 1..Len(h) + 1
      /\ \A i \in 1..a : g[i] = h[i]
      /\ g[a + 1] = m
      /\ \A i \in a + 1..Len(h) : g[i + 1] = h[i]
  <2>1. a \in 0..Len(h) /\ g = Inserted(h, a, m) /\ h \in Seq(Messages) /\ m \in Messages
    BY <1>1
  <2>2. OneMore(g, h, a, m)
    BY <2>1, InsertedAt
  <2> QED
    BY <2>2 DEF OneMore
<1>3. m.by = "results" /\ ~m.asks
  BY DEF Results
\* Where a message of g comes from.
<1>4. ASSUME NEW i \in DOMAIN g
      PROVE  \/ i \in 1..a /\ g[i] = h[i]
             \/ i = a + 1 /\ g[i] = m
             \/ i - 1 \in DOMAIN h /\ i - 1 > a /\ g[i] = h[i - 1]
  <2>1. i \in 1..a \/ i = a + 1 \/ (i - 1 \in a + 1..Len(h) /\ (i - 1) + 1 = i)
    BY <1>1, <1>2
  <2>2. CASE i \in 1..a
    BY <1>2, <2>2
  <2>3. CASE i = a + 1
    BY <1>2, <2>3
  <2>4. CASE i - 1 \in a + 1..Len(h) /\ (i - 1) + 1 = i
    <3>1. g[(i - 1) + 1] = h[i - 1]
      BY ONLY <1>2, <2>4
    <3> QED
      BY <1>1, <2>4, <3>1
  <2> QED
    BY <2>1, <2>2, <2>3, <2>4
<1>5. \A i \in 1..a : i \in DOMAIN h
  BY <1>1
<1>6. Proper(g)
  <2> SUFFICES ASSUME NEW i \in DOMAIN g, g[i].asks PROVE g[i].by = "reply"
    BY DEF Proper
  <2> QED
    BY <1>3, <1>4, <1>5 DEF Proper
<1>7. Whole(g)
  <2> SUFFICES ASSUME NEW i \in Unanswered(g) PROVE FALSE
    BY DEF Whole
  <2>1. i \in DOMAIN g /\ g[i].asks /\ ~(i < Len(g) /\ g[i + 1] = Results(g[i].n))
    BY DEF Unanswered
  <2>2. CASE i \in 1..a /\ g[i] = h[i] /\ i < a
    <3>1. i \in DOMAIN h /\ i + 1 \in 1..a /\ g[i + 1] = h[i + 1] /\ i < Len(g) /\ i < Len(h)
      BY <1>1, <1>2, <2>2
    <3>2. i \in Unanswered(h)
      BY <2>1, <2>2, <3>1 DEF Unanswered
    <3>3. a <= i
      BY <3>2 DEF WholeBut
    <3> QED
      BY <1>1, <2>2, <3>3
  <2>3. CASE i = a /\ g[i] = h[i]
    <3>1. a < Len(g)
      BY <1>1, <1>2
    <3> QED
      BY <1>2, <2>1, <2>3, <3>1
  <2>4. CASE i = a + 1 /\ g[i] = m
    BY <1>3, <2>1, <2>4
  <2>5. CASE i - 1 \in DOMAIN h /\ i - 1 > a /\ g[i] = h[i - 1]
    <3>1. h[i - 1].by = "reply"
      BY <2>1, <2>5 DEF Proper
    <3>2. i - 1 \in Words(h)
      BY <2>5, <3>1 DEF Words
    <3>3. i - 1 <= a
      BY <3>2
    <3> QED
      BY <1>1, <1>2, <2>1, <2>5, <3>3
  <2>6. i \in 1..a => i < a \/ i = a
    BY <1>1
  <2> QED
    BY <1>4, <2>1, <2>2, <2>3, <2>4, <2>5, <2>6
<1>8. Said(h) \subseteq Said(g)
  <2>1. ASSUME NEW i \in DOMAIN h PROVE \E j \in DOMAIN g : g[j] = h[i]
    <3>1. i \in 1..a \/ i \in a + 1..Len(h)
      BY <1>1
    <3>2. i \in DOMAIN g /\ i + 1 \in DOMAIN g
      BY <1>1, <1>2
    <3> QED
      BY <1>2, <3>1, <3>2
  <2> QED
    BY <1>2, <2>1, SaidWithin
<1> QED
  BY <1>2, <1>6, <1>7, <1>8

\* The summary in place of the first c messages; what follows is the caller's.
Summarized(h, c) == <<Summary>> \o SubSeq(h, c + 1, Len(h))

LEMMA SummaryIsWhole ==
  ASSUME NEW h \in Seq(Messages), NEW c \in 0..Len(h),
         \A i \in DOMAIN h : i > c => h[i].by = "user" /\ ~h[i].asks,
         NEW g, g = Summarized(h, c)
  PROVE  /\ g \in Seq(Messages) /\ Proper(g) /\ Whole(g)
         /\ Said(h) \subseteq Said(g) \cup Said(SubSeq(h, 1, c))
<1> DEFINE t == SubSeq(h, c + 1, Len(h))
           f == SubSeq(h, 1, c)
<1>1. DOMAIN h = 1..Len(h) /\ Len(h) \in Nat /\ c \in Nat /\ c <= Len(h)
  BY SequenceShape
<1>2. f \in Seq(Messages) /\ DOMAIN f = 1..c /\ \A i \in 1..c : f[i] = h[i]
  BY FrontOf
<1>3. /\ t \in Seq(Messages) /\ Len(t) = Len(h) - c /\ DOMAIN t = 1..Len(h) - c
      /\ \A i \in 1..Len(h) - c : t[i] = h[c + i]
  BY TailOf
<1>4. Summary \in Messages /\ ~Summary.asks
  BY MessagesTyped DEF Summary
<1>5. g = <<Summary>> \o t
  BY DEF Summarized
<1> HIDE DEF f, t
<1>6. t \in Seq(Messages)
  BY <1>3
<1>7. /\ g \in Seq(Messages) /\ Len(g) = 1 + Len(t) /\ DOMAIN g = 1..1 + Len(t) /\ g[1] = Summary
      /\ \A i \in 1..Len(t) : g[i + 1] = t[i]
  BY ONLY <1>4, <1>5, <1>6
<1>8. ASSUME NEW i \in c + 1..Len(h)
      PROVE  i - c + 1 \in DOMAIN g /\ g[i - c + 1] = h[i]
  <2>1. i - c \in 1..Len(h) - c /\ c + (i - c) = i /\ i - c \in 1..Len(t) /\ i - c + 1 \in 1..1 + Len(t)
    BY ONLY <1>1, <1>3, i \in c + 1..Len(h)
  <2>2. t[i - c] = h[c + (i - c)]
    BY ONLY <1>3, <2>1
  <2>3. g[i - c + 1] = t[i - c] /\ i - c + 1 \in DOMAIN g
    BY ONLY <1>7, <2>1
  <2> QED
    BY ONLY <2>1, <2>2, <2>3
<1>9. ASSUME NEW i \in DOMAIN g, g[i].asks PROVE FALSE
  <2>1. i = 1 \/ (i - 1 \in 1..Len(t) /\ (i - 1) + 1 = i)
    BY <1>3, <1>7, <1>1
  <2>2. CASE i = 1
    BY <1>4, <1>7, <1>9, <2>2
  <2>3. CASE i - 1 \in 1..Len(t) /\ (i - 1) + 1 = i
    <3>1. g[(i - 1) + 1] = t[i - 1]
      BY ONLY <1>7, <2>3
    <3>2. t[i - 1] = h[c + (i - 1)]
      BY ONLY <1>3, <2>3
    <3>3. c + (i - 1) \in DOMAIN h /\ c + (i - 1) > c
      BY <1>1, <1>3, <2>3
    <3> QED
      BY <1>9, <2>3, <3>1, <3>2, <3>3
  <2> QED
    BY <2>1, <2>2, <2>3
<1>10. Proper(g) /\ Whole(g)
  BY <1>9 DEF Proper, Whole, Unanswered
<1>11. Said(h) \subseteq Said(g) \cup Said(f)
  <2> SUFFICES ASSUME NEW n \in Said(h) PROVE n \in Said(g) \/ n \in Said(f)
    OBVIOUS
  <2>1. PICK i \in DOMAIN h : h[i].by = "user" /\ h[i].n = n
    BY SaidAt
  <2>2. i \in 1..c \/ i \in c + 1..Len(h)
    BY <1>1
  <2>3. CASE i \in 1..c
    <3>1. i \in DOMAIN f /\ f[i] = h[i] /\ f \in Seq(Messages)
      BY <1>2, <2>3
    <3> QED
      BY ONLY <2>1, <3>1, SaidAt
  <2>4. CASE i \in c + 1..Len(h)
    <3>1. i - c + 1 \in DOMAIN g /\ g[i - c + 1] = h[i] /\ g \in Seq(Messages)
      BY <1>7, <1>8, <2>4
    <3> QED
      BY ONLY <2>1, <3>1, SaidAt
  <2> QED
    BY <2>2, <2>3, <2>4
<1> QED
  BY <1>7, <1>10, <1>11 DEF f

\* The reply behind what the caller made of the history, with its results.
LEMMA AnsweredReplyIsWhole ==
  ASSUME NEW w \in Seq(Messages), Proper(w), Whole(w), NEW r \in Messages, r.by = "reply",
         NEW m \in Messages, m = Results(r.n), NEW g, g = w \o <<r, m>>
  PROVE  g \in Seq(Messages) /\ Proper(g) /\ Whole(g) /\ Said(w) \subseteq Said(g)
<1>1. DOMAIN w = 1..Len(w) /\ Len(w) \in Nat /\ ~m.asks
  BY SequenceShape DEF Results
<1>2. /\ g \in Seq(Messages) /\ Len(g) = Len(w) + 2 /\ DOMAIN g = 1..Len(w) + 2
      /\ g[Len(w) + 1] = r /\ g[Len(w) + 2] = m
      /\ \A i \in 1..Len(w) : g[i] = w[i]
  BY <1>1
<1>3. ASSUME NEW i \in DOMAIN g
      PROVE  (i \in DOMAIN w /\ g[i] = w[i]) \/ (i = Len(w) + 1 /\ g[i] = r) \/ (i = Len(w) + 2 /\ g[i] = m)
  BY ONLY <1>1, <1>2, i \in DOMAIN g
<1>4. Proper(g)
  BY <1>1, <1>3 DEF Proper
<1>5. Whole(g)
  <2> SUFFICES ASSUME NEW i \in Unanswered(g) PROVE FALSE
    BY DEF Whole
  <2>1. i \in DOMAIN g /\ g[i].asks /\ ~(i < Len(g) /\ g[i + 1] = Results(g[i].n))
    BY DEF Unanswered
  <2>2. CASE i \in DOMAIN w /\ g[i] = w[i]
    <3>1. i < Len(w) /\ w[i + 1] = Results(w[i].n)
      BY <2>1, <2>2 DEF Whole, Unanswered
    <3>2. i + 1 \in 1..Len(w) /\ i < Len(g)
      BY ONLY <1>1, <1>2, <2>2, <3>1
    <3>3. g[i + 1] = w[i + 1]
      BY ONLY <1>2, <3>2
    <3> QED
      BY <2>1, <2>2, <3>1, <3>2, <3>3
  <2>3. CASE i = Len(w) + 1 /\ g[i] = r
    <3>1. i < Len(g) /\ i + 1 = Len(w) + 2
      BY <1>1, <1>2, <2>3
    <3> QED
      BY <1>2, <2>1, <2>3, <3>1
  <2>4. CASE i = Len(w) + 2 /\ g[i] = m
    BY <1>1, <2>1, <2>4
  <2> QED
    BY <1>3, <2>1, <2>2, <2>3, <2>4
<1>6. Said(w) \subseteq Said(g)
  <2>1. \A i \in DOMAIN w : i \in DOMAIN g /\ g[i] = w[i]
    BY ONLY <1>1, <1>2
  <2>2. g \in Seq(Messages)
    BY <1>2
  <2> QED
    BY <2>1, <2>2, SaidWithin
<1> QED
  BY <1>2, <1>4, <1>5, <1>6

\* Only the last message may ask, and then nothing is put behind it.
LEMMA LastAsks ==
  ASSUME NEW w \in Seq(Messages), \A i \in Unanswered(w) : i = Len(w), w # <<>> => ~Last(w).asks
  PROVE  Whole(w)
<1> SUFFICES ASSUME NEW i \in Unanswered(w) PROVE FALSE
  BY DEF Whole
<1>1. i \in DOMAIN w /\ w[i].asks /\ i = Len(w)
  BY DEF Unanswered
<1>2. w # <<>>
  BY <1>1
<1> QED
  BY <1>1, <1>2 DEF Last

-----------------------------------------------------------------------------
(* Every question is whole.                                                 *)

LEMMA ReplyIsTheSame ==
  ASSUME SameReply(stream, stream'), loop'.iterations = loop.iterations
  PROVE  ThisReply' = ThisReply /\ MakesCalls' = MakesCalls /\ stream'.stop = stream.stop
<1>1. stream'.blocks = stream.blocks /\ stream'.stop = stream.stop
  BY DEF SameReply
<1>2. CallsOf(stream)' = CallsOf(stream)
  BY <1>1 DEF CallsOf, IsCall
<1>3. MakesCalls' = MakesCalls
  BY <1>2 DEF MakesCalls
<1> QED
  BY <1>1, <1>3 DEF ThisReply

\* Nothing that was said is lost where the history only grows.
LEMMA SaidStays ==
  ASSUME SaidBooks, setup' = setup, left'.says = left.says, Said(talk.history) \subseteq Said(talk'.history),
         talk'.covered = talk.covered, talk'.overridden = talk.overridden, loop'.without = loop.without
  PROVE  SaidBooks'
<1>1. Said(Params) \subseteq Said(Params') \/ Said(Params) \subseteq Said(talk'.history)
  BY DEF Params
<1> QED
  BY <1>1 DEF SaidBooks

\* Where no turn is on and none comes.
LEMMA TalkIsOver ==
  ASSUME loop'.pc \in Over0 \/ (loop'.pc = "ending" /\ loop'.without = None),
         talk'.question = None, Proper(talk'.history), SaidBooks', stream'.stop = "resume" => ~MakesCalls'
  PROVE  TalkInv'
<1>1. loop'.pc \notin {"idle", "top", "settle", "answer"} \cup Talking
  BY DEF Over0, Talking
<1> QED
  BY <1>1 DEF TalkInv, QuestionBooks, HistoryBooks, CompactedBooks, WithoutBooks, AskingBooks, Talking

\* The loop stands still, and so does the thread.
LEMMA TalkStays ==
  ASSUME TalkInv, loop' = loop, talk' = talk, setup' = setup, left'.says = left.says, SameReply(stream, stream'),
         stream'.end = stream.end \/ loop.pc \notin Talking,
         loop.pc = "request" => \A k \in Readers : ~stream'.readers[k].on
  PROVE  TalkInv'
<1>1. ThisReply' = ThisReply /\ MakesCalls' = MakesCalls /\ stream'.stop = stream.stop
  BY ReplyIsTheSame
<1>2. OnThread' = OnThread /\ Compacting' = Compacting /\ Params' = Params
  BY DEF OnThread, Compacting, Params
<1>3. QuestionBooks' /\ HistoryBooks' /\ CompactedBooks'
  BY <1>1, <1>2 DEF TalkInv, QuestionBooks, HistoryBooks, CompactedBooks, Talking
<1>4. WithoutBooks' /\ AskingBooks'
  BY <1>1, <1>2 DEF TalkInv, WithoutBooks, AskingBooks, Talking
<1>5. SaidBooks'
  BY <1>2 DEF TalkInv, SaidBooks
<1> QED
  BY <1>3, <1>4, <1>5 DEF TalkInv

LEMMA TalkOfReadersAndCalls ==
  ASSUME Booking, TalkInv,
         \/ CallTakesTurn \/ CallEnds \/ CallFails
         \/ \E k \in Readers : ReaderStep(k) \/ ReaderOpens(k) \/ ReaderDefers(k)
  PROVE  TalkInv'
<1>1. SInv /\ StreamInv(stream) /\ left \in Lefts
  BY DEF Booking, SInv, Typed
<1>2. loop' = loop /\ talk' = talk /\ setup' = setup
  BY DEF CallTakesTurn, CallEnds, CallFails, ReaderStep, ReaderOpens, ReaderDefers, Reads
<1>3. left'.says = left.says
  BY <1>1 DEF CallTakesTurn, CallEnds, CallFails, ReaderStep, ReaderOpens, ReaderDefers, Reads, Spend, Lefts
<1>4. /\ SameReply(stream, stream') /\ stream'.end = stream.end
      /\ loop.pc = "request" => \A k \in Readers : stream'.readers[k].on => stream.readers[k].on
  <2>1. CASE CallTakesTurn \/ CallEnds \/ CallFails
    <3>1. DOMAIN stream.calls = DOMAIN stream.blocks
      BY <1>1, Shape DEF StreamInv
    <3>2. \/ \E i \in DOMAIN stream.blocks : Turns(stream, i) /\ stream' = TakesTurn(stream, i)
          \/ \E i \in DOMAIN stream.blocks, outcome \in {"ok", "error", "thrown"} :
               stream.calls[i].at = "running" /\ stream' = Ends(stream, i, outcome)
      BY <2>1, <3>1 DEF CallTakesTurn, CallEnds, CallFails, Reads
    <3>3. Moves(stream, stream') /\ stream'.end = stream.end
      BY <1>1, <3>2, TakesTurnKeeps, EndsKeeps
    <3> QED
      BY <3>3 DEF Moves
  <2>2. CASE \E k \in Readers : ReaderStep(k) \/ ReaderDefers(k)
    <3>1. PICK k \in Readers : ReaderStep(k) \/ ReaderDefers(k)
      BY <2>2
    <3>2. \/ stream' = Gets(stream, k) \/ stream' = AsksOn(stream, k) \/ stream' = Drained(stream, k)
          \/ \E i \in CallsOf(stream) : stream' = Defer(stream, i)
      BY <3>1 DEF ReaderStep, ReaderDefers, Reads
    <3>3. Rests(stream, stream') /\ stream'.end = stream.end
      BY <1>1, <3>2, GetsKeeps, AsksOnKeeps, DrainedKeeps, DeferKeeps DEF SameStream
    <3> QED
      BY <3>3 DEF Rests, Moves
  <2>3. CASE \E k \in Readers : ReaderOpens(k)
    <3>1. PICK k \in Readers : loop.pc = "body" /\ stream' = Opens(stream, k)
      BY <2>3 DEF ReaderOpens, Reads, At
    <3> QED
      BY <1>1, <3>1, OpensKeeps
  <2> QED
    BY <2>1, <2>2, <2>3
<1>5. loop.pc = "request" => \A k \in Readers : ~stream'.readers[k].on
  BY <1>4 DEF TalkInv, AskingBooks
<1> QED
  BY <1>2, <1>3, <1>4, <1>5, TalkStays

\* A turn settles: what it says of the reply, and how the loop goes on.
LEMMA TurnResolves ==
  ASSUME Booking, TalkInv, setup' = setup, left'.says = left.says, OnThread, SameReply(stream, stream'),
         Resolved(talk'), stream'.end # "open",
         loop'.iterations = loop.iterations, loop'.without = loop.without, loop'.compaction = loop.compaction,
         loop'.mutated = loop.mutated, loop'.response = loop.response,
         loop'.pc \in {"body", "collect"} => /\ WholeBut(talk'.history, ThisReply)
                                             /\ stream'.end = "stopped" => LastWord(talk'.history, ThisReply),
         loop'.pc \in Over0 \cup {"body", "collect"},
         loop'.pc = "body" => loop.pc \in {"request", "body"}, loop'.pc = "collect" => loop.pc = "collect",
         loop'.pc = "body" /\ loop'.response = "asked" => stream'.end = "stopped"
  PROVE  TalkInv'
<1>1. ThisReply' = ThisReply /\ MakesCalls' = MakesCalls /\ stream'.stop = stream.stop
  BY ReplyIsTheSame
<1>2. /\ talk'.question = None /\ Proper(talk'.history) /\ Said(talk.history) \subseteq Said(talk'.history)
      /\ talk'.covered = talk.covered /\ talk'.overridden = talk.overridden
  BY DEF Resolved
<1>3. SaidBooks'
  BY <1>2, SaidStays DEF TalkInv
<1>4. OnThread' /\ ~Compacting'
  BY DEF OnThread, Compacting
<1>5. CASE loop'.pc \in Over0
  BY <1>1, <1>2, <1>3, <1>5, TalkIsOver DEF TalkInv, AskingBooks
<1>6. CASE loop'.pc \in {"body", "collect"}
  <2>1. QuestionBooks' /\ HistoryBooks' /\ CompactedBooks'
    BY <1>1, <1>2, <1>4, <1>6 DEF QuestionBooks, HistoryBooks, CompactedBooks
  <2>2. loop.pc \notin Over0
    BY <1>6 DEF Over0
  <2>3. AskingBooks'
    BY <1>1, <1>6 DEF TalkInv, AskingBooks, Talking
  <2>4. WithoutBooks'
    <3> SUFFICES ASSUME loop.without # None PROVE WithoutBooks'
      BY DEF WithoutBooks
    <3> QED
      BY <1>1, <1>2, <1>6, <2>2 DEF TalkInv, WithoutBooks
  <2> QED
    BY <1>3, <2>1, <2>3, <2>4 DEF TalkInv
<1> QED
  BY <1>5, <1>6

\* The reply to a compaction request goes on.
LEMMA CompactionGoesOn ==
  ASSUME Booking, TalkInv, Compacting, talk' = talk, setup' = setup, left'.says = left.says, SameReply(stream, stream'),
         loop'.iterations = loop.iterations, loop'.without = loop.without, loop'.compaction = loop.compaction,
         loop'.final = loop.final, loop'.covers = loop.covers, loop'.response = loop.response,
         \/ loop'.pc \in Over0 \/ (loop'.pc = loop.pc /\ loop.pc # "request")
         \/ (loop.pc = "request" /\ loop'.pc = "body"),
         stream.end = "stopped" => stream'.end = "stopped"
  PROVE  TalkInv'
<1>1. ThisReply' = ThisReply /\ MakesCalls' = MakesCalls /\ stream'.stop = stream.stop
  BY ReplyIsTheSame
<1>2. Compacting' /\ ~OnThread' /\ talk.question = None /\ Proper(talk.history)
  BY DEF Compacting, OnThread, TalkInv, QuestionBooks, HistoryBooks
<1>3. SaidBooks'
  BY SaidStays DEF TalkInv
<1>4. CASE loop'.pc \in Over0
  BY <1>1, <1>2, <1>3, <1>4, TalkIsOver DEF TalkInv, AskingBooks
<1>5. CASE loop'.pc \notin Over0
  <2>1. /\ loop.pc \in {"settle"} \cup Talking /\ loop'.pc \in {"settle"} \cup Talking /\ loop'.pc # "request"
        /\ loop.without = None /\ (loop.pc = "request" => loop.response = "none")
    BY <1>5 DEF Booking, CompactionBooks, LoopInv, ResponseBooks, OnThread, Talking, Over0
  <2>2. QuestionBooks' /\ HistoryBooks' /\ CompactedBooks'
    BY <1>1, <1>2, <2>1 DEF TalkInv, QuestionBooks, HistoryBooks, CompactedBooks, Talking
  <2>3. WithoutBooks'
    BY <2>1 DEF WithoutBooks
  <2>4. loop'.pc = "body" /\ loop'.response = "asked" => stream'.end = "stopped"
    BY <1>5, <2>1 DEF TalkInv, AskingBooks, Over0
  <2>5. AskingBooks'
    BY <1>1, <1>2, <2>1, <2>4 DEF TalkInv, AskingBooks
  <2> QED
    BY <1>3, <2>2, <2>3, <2>5 DEF TalkInv
<1> QED
  BY <1>4, <1>5

LEMMA WholeIsWholeBut == ASSUME NEW h, NEW r, Whole(h) PROVE WholeBut(h, r)
  BY DEF Whole, WholeBut

\* The reply breaks off, with its stream.
LEMMA TalkBreaks ==
  ASSUME Booking, TalkInv, setup' = setup, left'.says = left.says, Breaks(stream'), SameReply(stream, stream'),
         stream'.end = (IF stream.end = "open" THEN "broken" ELSE stream.end),
         \A k \in Readers : stream'.readers[k].on => stream.readers[k].on,
         loop.pc # "request",
         loop' = loop \/ (loop.pc = "body" /\ loop' = [loop EXCEPT !.pc = "left"])
  PROVE  TalkInv'
<1>1. loop \in Loops /\ Typed
  BY DEF Booking, Typed
<1>2. /\ loop'.iterations = loop.iterations /\ loop'.without = loop.without /\ loop'.compaction = loop.compaction
      /\ loop'.final = loop.final /\ loop'.covers = loop.covers /\ loop'.response = loop.response
      /\ loop'.mutated = loop.mutated
      /\ loop'.pc = loop.pc \/ loop'.pc = "left"
  BY <1>1 DEF Loops
<1>3. CASE Compacting
  <2>1. talk' = talk
    BY <1>3 DEF Breaks, OnThread
  <2>2. stream.end = "stopped" => stream'.end = "stopped"
    OBVIOUS
  <2>3. loop'.pc \in Over0 \/ (loop'.pc = loop.pc /\ loop.pc # "request")
    BY <1>2 DEF Over0
  <2> QED
    BY <1>2, <1>3, <2>1, <2>2, <2>3, CompactionGoesOn
<1>4. CASE ~Compacting /\ stream.end = "open" /\ loop.pc \in Talking
  <2>1. talk.question # None /\ OnThread /\ talk' = BrokenOff /\ loop.pc \in {"body", "collect"}
    BY <1>4 DEF TalkInv, AskingBooks, OnThread, Breaks, Talking
  <2>2. Resolved(talk') /\ Whole(talk'.history)
    BY <1>1, <2>1, BreakingResolves DEF TalkInv
  <2>3. WholeBut(talk'.history, ThisReply)
    BY <2>2, WholeIsWholeBut
  <2>4. loop.response = "asked" => loop.pc # "body"
    BY <1>4 DEF TalkInv, AskingBooks
  <2>5. stream'.end = "broken"
    BY <1>4
  <2> QED
    BY <1>2, <2>1, <2>2, <2>3, <2>4, <2>5, TurnResolves DEF Over0
<1>5. CASE ~Compacting /\ ~(stream.end = "open" /\ loop.pc \in Talking)
  <2>1. talk.question = None
    BY <1>5 DEF TalkInv, QuestionBooks
  <2>2. talk' = talk
    BY <1>1, <1>5, <2>1, BreakingResolves DEF Breaks, Resolved, TalkInv
  <2>3. CASE loop' = loop
    <3>1. stream'.end = stream.end \/ loop.pc \notin Talking
      BY <1>5
    <3> QED
      BY <2>2, <2>3, <3>1, TalkStays
  <2>4. CASE loop' = [loop EXCEPT !.pc = "left"]
    <3>1. loop'.pc \in Over0
      BY <1>1, <2>4 DEF Over0, Loops
    <3>2. SaidBooks' /\ (stream'.stop = "resume" => ~MakesCalls')
      BY <1>2, <2>2, SaidStays, ReplyIsTheSame DEF TalkInv, AskingBooks
    <3> QED
      BY <2>1, <2>2, <3>1, <3>2, TalkIsOver DEF TalkInv, HistoryBooks
  <2> QED
    BY <2>3, <2>4
<1> QED
  BY <1>3, <1>4, <1>5

LEMMA TalkOfTheReply ==
  ASSUME Booking, TalkInv, WholeReply \/ RequestFails \/ StreamEvent
  PROVE  TalkInv'
<1>1. loop \in Loops /\ Typed /\ SInv /\ StreamInv(stream) /\ left \in Lefts
  BY DEF Booking, Typed, SInv
<1>2. setup' = setup /\ left'.says = left.says
  BY <1>1 DEF WholeReply, RequestFails, StreamEvent, Spend, Lefts
<1>3. CASE WholeReply
  <2>1. loop.pc = "request" /\ loop' = [loop EXCEPT !.pc = "body"] /\ stream' = [stream EXCEPT !.end = "stopped"]
    BY <1>3 DEF WholeReply, At
  <2>2. /\ loop'.iterations = loop.iterations /\ loop'.without = loop.without /\ loop'.compaction = loop.compaction
        /\ loop'.final = loop.final /\ loop'.covers = loop.covers /\ loop'.response = loop.response
        /\ loop'.mutated = loop.mutated /\ loop'.pc = "body"
    BY <1>1, <2>1 DEF Loops
  <2>3. SameReply(stream, stream') /\ stream'.end = "stopped"
    BY <1>1, <2>1, StoppedKeeps DEF Moves
  <2>4. CASE OnThread
    <3>1. talk' = Answered /\ talk.question # None
      BY <1>3, <2>1, <2>4 DEF WholeReply, TalkInv, AskingBooks, Talking
    <3>2. Resolved(talk') /\ WholeBut(talk'.history, ThisReply) /\ LastWord(talk'.history, ThisReply)
      BY <1>1, <3>1, AnsweringResolves DEF TalkInv
    <3> QED
      BY <1>2, <2>1, <2>2, <2>3, <2>4, <3>2, TurnResolves
  <2>5. CASE ~OnThread
    <3>1. talk' = talk /\ Compacting
      BY <1>3, <2>5 DEF WholeReply, OnThread
    <3> QED
      BY <1>2, <2>1, <2>2, <2>3, <3>1, CompactionGoesOn
  <2> QED
    BY <2>4, <2>5
<1>4. CASE RequestFails
  <2>1. loop' = [loop EXCEPT !.pc = "failed"] /\ stream' = stream /\ loop.pc = "request"
    BY <1>4 DEF RequestFails, At
  <2>2. /\ loop'.iterations = loop.iterations /\ loop'.without = loop.without /\ loop'.pc \in Over0
    BY <1>1, <2>1 DEF Loops, Over0
  <2>3. Resolved(Settled(talk, talk.question))
    BY <1>1, BreakingResolves DEF TalkInv
  <2>4. /\ talk'.question = None /\ Proper(talk'.history) /\ Said(talk.history) \subseteq Said(talk'.history)
        /\ talk'.covered = talk.covered /\ talk'.overridden = talk.overridden
    <3>1. CASE OnThread
      BY <1>4, <2>3, <3>1 DEF RequestFails, Resolved
    <3>2. CASE ~OnThread
      BY <1>4, <3>2 DEF RequestFails, TalkInv, QuestionBooks, HistoryBooks
    <3> QED
      BY <3>1, <3>2
  <2>5. SameReply(stream, stream')
    BY <2>1 DEF SameReply
  <2>6. SaidBooks' /\ (stream'.stop = "resume" => ~MakesCalls')
    BY <1>2, <2>2, <2>4, <2>5, SaidStays, ReplyIsTheSame DEF TalkInv, AskingBooks
  <2> QED
    BY <2>2, <2>4, <2>6, TalkIsOver
<1>5. CASE StreamEvent
  <2>1. /\ SameReply(stream, stream') /\ stream'.end \in {"open", "stopped"} /\ stream.end = "open"
        /\ loop' = loop /\ loop.pc \in {"body", "collect"}
    BY <1>1, <1>5, StreamEventRests DEF Rests, Moves, StreamEvent
  <2>2. CASE stream'.end = "open"
    <3>1. talk' = talk
      BY <1>5, <2>2 DEF StreamEvent
    <3> QED
      BY <1>2, <2>1, <2>2, <3>1, TalkStays
  <2>3. CASE stream'.end = "stopped" /\ OnThread
    <3>1. talk' = Answered /\ talk.question # None
      BY <1>5, <2>1, <2>3 DEF StreamEvent, TalkInv, AskingBooks, Talking
    <3>2. Resolved(talk') /\ WholeBut(talk'.history, ThisReply) /\ LastWord(talk'.history, ThisReply)
      BY <1>1, <3>1, AnsweringResolves DEF TalkInv
    <3> QED
      BY <1>2, <2>1, <2>3, <3>2, TurnResolves
  <2>4. CASE stream'.end = "stopped" /\ ~OnThread
    <3>1. talk' = talk /\ Compacting
      BY <1>5, <2>4 DEF StreamEvent, OnThread
    <3> QED
      BY <1>2, <2>1, <2>4, <3>1, CompactionGoesOn
  <2> QED
    BY <2>1, <2>2, <2>3, <2>4
<1> QED
  BY <1>3, <1>4, <1>5

LEMMA TalkOfBreaks ==
  ASSUME Booking, TalkInv, StreamBreaks \/ Leave \/ \E k \in Readers : ReaderLeaves(k)
  PROVE  TalkInv'
<1>1. SInv /\ StreamInv(stream) /\ left \in Lefts
  BY DEF Booking, Typed, SInv
<1>2. setup' = setup /\ left'.says = left.says
  BY <1>1 DEF StreamBreaks, Leave, ReaderLeaves, Breaks, Spend, Lefts
<1>3. CASE StreamBreaks
  <2>1. stream' = Fail(stream) /\ Breaks(stream') /\ loop' = loop /\ loop.pc # "request" /\ stream.end = "open"
    BY <1>3 DEF StreamBreaks, Breaks
  <2>2. /\ SameReply(stream, stream') /\ stream'.end = "broken"
        /\ \A k \in Readers : stream'.readers[k].on => stream.readers[k].on
    BY <1>1, <2>1, FailKeeps DEF Moves
  <2> QED
    BY <1>2, <2>1, <2>2, TalkBreaks
<1>4. CASE Leave
  <2>1. /\ stream' = Abort(stream) /\ Breaks(stream') /\ loop.pc = "body" /\ loop' = [loop EXCEPT !.pc = "left"]
    BY <1>4 DEF Leave, Breaks, At
  <2>2. /\ SameReply(stream, stream') /\ stream'.end = (IF stream.end = "open" THEN "broken" ELSE stream.end)
        /\ \A k \in Readers : stream'.readers[k].on => stream.readers[k].on
    BY <1>1, <2>1, AbortKeeps DEF Moves
  <2> QED
    BY <1>2, <2>1, <2>2, TalkBreaks
<1>5. CASE \E k \in Readers : ReaderLeaves(k)
  <2>1. PICK k \in Readers : stream.readers[k].on /\ stream' = Leaves(stream, k) /\ Breaks(stream') /\ loop' = loop
    BY <1>5 DEF ReaderLeaves, Breaks
  <2>2. /\ SameReply(stream, stream') /\ stream'.end = (IF stream.end = "open" THEN "broken" ELSE stream.end)
        /\ \A j \in Readers : stream'.readers[j].on => stream.readers[j].on
    BY <1>1, <2>1, LeavesKeeps DEF Moves
  <2>3. loop.pc # "request"
    BY <2>1 DEF TalkInv, AskingBooks
  <2> QED
    BY <1>2, <2>1, <2>2, <2>3, TalkBreaks
<1> QED
  BY <1>3, <1>4, <1>5

LEMMA SameCalls ==
  ASSUME SameReply(stream, stream')
  PROVE  MakesCalls' = MakesCalls /\ stream'.stop = stream.stop
<1>1. stream'.blocks = stream.blocks /\ stream'.stop = stream.stop
  BY DEF SameReply
<1>2. CallsOf(stream)' = CallsOf(stream)
  BY <1>1 DEF CallsOf, IsCall
<1> QED
  BY <1>1, <1>2 DEF MakesCalls

\* Between two turns the history says what the next one asks.
LEMMA LoopRests ==
  ASSUME Booking, TalkInv, talk' = talk, setup' = setup, left'.says = left.says, SameReply(stream, stream'),
         talk.question = None, loop.without = None, loop'.without = None,
         loop'.pc \in {"top", "settle", "answer", "ending"} \cup Over0,
         loop'.pc = "top" => Whole(talk.history),
         loop'.pc = "settle" /\ (OnThread' \/ ~loop'.final) => Whole(talk.history),
         loop'.pc = "settle" /\ Compacting' => loop'.covers = Len(talk.history),
         loop'.pc = "answer" => /\ OnThread' /\ loop'.iterations = loop.iterations
                                /\ WholeBut(talk.history, ThisReply) /\ LastWord(talk.history, ThisReply)
  PROVE  TalkInv'
<1>1. MakesCalls' = MakesCalls /\ stream'.stop = stream.stop
  BY SameCalls
<1>2. loop'.pc = "answer" => ThisReply' = ThisReply
  BY <1>1 DEF ThisReply
<1>3. Proper(talk.history) /\ loop'.pc \notin Talking
  BY DEF TalkInv, HistoryBooks, Talking, Over0
<1>4. QuestionBooks'
  BY DEF QuestionBooks
<1>5. HistoryBooks'
  BY <1>2, <1>3 DEF HistoryBooks, Talking, Over0
<1>6. CompactedBooks'
  <2> SUFFICES ASSUME Compacting', loop'.pc = "settle"
               PROVE  \A i \in DOMAIN talk.history : ~(i > loop'.covers)
    BY <1>3 DEF CompactedBooks
  <2>1. talk.history \in Seq(Messages) /\ loop'.covers = Len(talk.history)
    BY TalkShape DEF Booking
  <2> QED
    BY <2>1
<1>7. WithoutBooks' /\ AskingBooks'
  BY <1>1, <1>3 DEF TalkInv, WithoutBooks, AskingBooks, Talking
<1>8. SaidBooks'
  BY SaidStays DEF TalkInv
<1> QED
  BY <1>4, <1>5, <1>6, <1>7, <1>8 DEF TalkInv

LEMMA TalkOfTheLoop ==
  ASSUME Booking, TalkInv, Iterate \/ Top \/ Throws \/ End
  PROVE  TalkInv'
<1>1. loop \in Loops /\ StreamInv(stream) /\ talk' = talk /\ setup' = setup /\ left'.says = left.says
  BY DEF Booking, Typed, SInv, Iterate, Top, Throws, End
<1>2. SameReply(stream, stream')
  BY <1>1, AbortKeeps DEF Iterate, Top, Throws, End, Moves, SameReply
<1>3. CASE Iterate \/ Top \/ End
  <2>1. loop.pc \in {"idle", "top", "ending"} /\ talk.question = None /\ loop.without = None /\ ~Compacting
    BY <1>3 DEF Iterate, Top, End, At, TalkInv, QuestionBooks, Booking, CompactionBooks, Talking, Over0
  <2>2. loop.pc \in {"idle", "top"} => Whole(talk.history)
    BY DEF TalkInv, HistoryBooks
  <2>3. CASE Iterate \/ End
    <3>1. loop'.without = None /\ (loop'.pc = "ended" \/ (loop'.pc = "top" /\ loop.pc = "idle"))
      BY <1>1, <2>1, <2>3 DEF Iterate, End, At, Loops
    <3> QED
      BY <1>1, <1>2, <2>1, <2>2, <3>1, LoopRests DEF Over0
  <2>4. CASE Top
    <3>1. loop.pc = "top"
      BY <2>4 DEF Top, At
    <3>2. CASE loop' = Finish(loop)
      <4>1. loop'.without = None /\ loop'.pc = "ending"
        BY <1>1, <2>1, <3>2 DEF Finish, Loops
      <4> QED
        BY <1>1, <1>2, <2>1, <4>1, LoopRests
    <3>3. CASE loop' = Compact(loop, FALSE)
      <4>1. loop'.without = None /\ loop'.pc = "settle" /\ loop'.covers = Len(talk.history)
        BY <1>1, <2>1, <3>3 DEF Compact, Loops
      <4> QED
        BY <1>1, <1>2, <2>1, <2>2, <3>1, <4>1, LoopRests
    <3>4. CASE loop' = [loop EXCEPT !.pc = "settle", !.mutated = FALSE, !.response = "none",
                                    !.iterations = @ + 1, !.awaits = Started]
      <4>1. loop'.without = None /\ loop'.pc = "settle" /\ loop'.compaction = loop.compaction
        BY <1>1, <2>1, <3>4 DEF Loops
      <4>2. ~Compacting'
        BY <2>1, <4>1 DEF Compacting
      <4> QED
        BY <1>1, <1>2, <2>1, <2>2, <3>1, <4>1, <4>2, LoopRests
    <3> QED
      BY <2>4, <3>2, <3>3, <3>4 DEF Top
  <2> QED
    BY <1>3, <2>3, <2>4
<1>4. CASE Throws
  <2>1. loop'.pc \in Over0 /\ loop'.iterations = loop.iterations /\ loop'.without = loop.without
    BY <1>1, <1>4 DEF Throws, Loops, Over0
  <2>2. talk.question = None /\ Proper(talk.history)
    <3>1. loop.pc = "answer" \/ stream.end # "open"
      BY <1>4 DEF Throws, At, TalkInv, AskingBooks
    <3> QED
      BY <3>1 DEF TalkInv, QuestionBooks, HistoryBooks, Talking
  <2>3. SaidBooks'
    BY <1>1, <2>1, SaidStays DEF TalkInv
  <2>4. stream'.stop = "resume" => ~MakesCalls'
    BY <1>2, SameCalls DEF TalkInv, AskingBooks
  <2> QED
    BY <1>1, <2>1, <2>2, <2>3, <2>4, TalkIsOver
<1> QED
  BY <1>3, <1>4

LEMMA TalkOfTheBody ==
  ASSUME Booking, TalkInv, BodyEnds \/ Generate \/ CompactBeforeNextTurn
  PROVE  TalkInv'
<1>1. loop \in Loops /\ StreamInv(stream) /\ left \in Lefts /\ talk' = talk /\ setup' = setup
  BY DEF Booking, Typed, SInv, BodyEnds, Generate, CompactBeforeNextTurn
<1>2. left'.says = left.says
  BY <1>1 DEF BodyEnds, Generate, CompactBeforeNextTurn, Spend, Lefts
<1>3. SameReply(stream, stream') /\ stream'.end = stream.end /\ stream'.readers = stream.readers
  BY <1>1, StartCallsKeeps DEF BodyEnds, Generate, CompactBeforeNextTurn, Moves, SameReply
<1>4. /\ loop'.iterations = loop.iterations /\ loop'.final = loop.final /\ loop'.covers = loop.covers
      /\ loop'.mutated = loop.mutated
      /\ Compacting' = Compacting /\ OnThread' = OnThread
  BY <1>1 DEF BodyEnds, Generate, CompactBeforeNextTurn, Loops, Compacting, OnThread
<1>5. ThisReply' = ThisReply /\ MakesCalls' = MakesCalls /\ stream'.stop = stream.stop
  BY <1>3, <1>4, ReplyIsTheSame
<1>6. \/ loop'.pc = loop.pc /\ loop'.without = loop.without
      \/ BodyEnds /\ loop.pc = "body" /\ loop'.pc = "collect" /\ loop'.without = None
  BY <1>1 DEF BodyEnds, Generate, CompactBeforeNextTurn, Loops, At
<1>7. QuestionBooks' /\ CompactedBooks'
  BY <1>1, <1>3, <1>4, <1>6 DEF TalkInv, QuestionBooks, CompactedBooks, Talking
<1>8. HistoryBooks'
  BY <1>1, <1>3, <1>4, <1>5, <1>6 DEF TalkInv, HistoryBooks, Talking
<1>9. WithoutBooks'
  BY <1>1, <1>4, <1>5, <1>6 DEF TalkInv, WithoutBooks, Over0
<1>10. loop'.pc = "body" /\ loop'.response = "asked" => stream'.end = "stopped"
  BY <1>1, <1>3, <1>6 DEF TalkInv, AskingBooks, Generate, BodyEnds, CompactBeforeNextTurn, Loops
<1>11. AskingBooks'
  BY <1>1, <1>3, <1>4, <1>5, <1>6, <1>10 DEF TalkInv, AskingBooks, Talking
<1>12. SaidBooks'
  <2>1. CASE loop'.without = loop.without
    BY <1>1, <1>2, <2>1, SaidStays DEF TalkInv
  <2>2. CASE BodyEnds /\ loop.without # None
    <3>1. ~loop.mutated /\ loop.pc = "body"
      BY <2>2 DEF BodyEnds, At, Booking, CompactionBooks, OnThread, Over0
    <3>2. Said(loop.without) \subseteq Said(talk.history)
      BY <2>2, <3>1 DEF TalkInv, WithoutBooks, Over0
    <3> QED
      BY <1>1, <1>2, <3>2 DEF TalkInv, SaidBooks, Params
  <2> QED
    BY <1>6, <2>1, <2>2
<1> QED
  BY <1>7, <1>8, <1>9, <1>11, <1>12 DEF TalkInv

LEMMA TalkOfCollect ==
  ASSUME Booking, TalkInv, Collect
  PROVE  TalkInv'
<1>1. loop \in Loops /\ StreamInv(stream) /\ talk' = talk /\ setup' = setup /\ left'.says = left.says
  BY DEF Booking, Typed, SInv, Collect
<1>2. loop.pc = "collect" /\ OnThread /\ ~Compacting /\ stream.end = "stopped"
  BY DEF Collect, At, OnThread
<1>3. /\ talk.question = None /\ loop.without = None
      /\ WholeBut(talk.history, ThisReply) /\ LastWord(talk.history, ThisReply)
  BY <1>2 DEF TalkInv, QuestionBooks, HistoryBooks, Booking, CompactionBooks, Over0
<1> DEFINE l == [loop EXCEPT !.last = stream.stop]
           m == [l EXCEPT !.compaction = "idle"]
<1>4. SameReply(stream, stream')
  <2>1. stream' = stream \/ stream' = Abort(stream) \/ stream' = StartCalls(stream)
    BY DEF Collect
  <2>2. SameReply(stream, Abort(stream)) /\ SameReply(stream, StartCalls(stream)) /\ SameReply(stream, stream)
    BY <1>1, AbortKeeps, StartCallsKeeps DEF Moves, SameReply
  <2> QED
    BY <2>1, <2>2
<1>5. \/ loop' = Compact(l, TRUE) \/ loop' = Finish(m)
      \/ loop' = [l EXCEPT !.pc = "answer", !.response = "loop"]
      \/ loop' = [l EXCEPT !.pc = "top"] /\ ~MakesCalls
  <2>1. \/ loop' = Compact(l, TRUE) \/ loop' = Finish(m)
        \/ loop' = [l EXCEPT !.pc = "answer", !.response = "loop"]
        \/ /\ loop' = [l EXCEPT !.pc = "top"]
           /\ stream.stop # "stop" /\ ~(stream.stop = "run_tools" /\ MakesCalls)
    BY DEF Collect
  <2>2. stream.stop \in {"run_tools", "resume", "stop"}
    BY <1>1, Shape DEF StreamInv, Stops
  <2>3. stream.stop = "resume" => ~MakesCalls
    BY DEF TalkInv, AskingBooks
  <2> HIDE DEF l, m
  <2> QED
    BY <2>1, <2>2, <2>3
<1>6. CASE loop' = Compact(l, TRUE)
  <2>1. /\ loop'.without = None /\ loop'.pc = "settle" /\ loop'.covers = Len(talk.history) /\ loop'.final
        /\ loop'.compaction = "in_flight"
    BY <1>1, <1>3, <1>6 DEF Compact, Loops
  <2>2. ~OnThread'
    BY <2>1 DEF OnThread, Compacting
  <2> QED
    BY <1>1, <1>3, <1>4, <2>1, <2>2, LoopRests
<1>7. CASE loop' = Finish(m)
  <2>1. loop'.without = None /\ loop'.pc = "ending"
    BY <1>1, <1>3, <1>7 DEF Finish, Loops
  <2> QED
    BY <1>1, <1>3, <1>4, <2>1, LoopRests
<1>8. CASE loop' = [l EXCEPT !.pc = "answer", !.response = "loop"]
  <2>1. /\ loop'.without = None /\ loop'.pc = "answer" /\ loop'.iterations = loop.iterations
        /\ loop'.compaction = loop.compaction
    BY <1>1, <1>3, <1>8 DEF Loops
  <2>2. OnThread'
    BY <1>2, <2>1 DEF OnThread, Compacting
  <2> QED
    BY <1>1, <1>3, <1>4, <2>1, <2>2, LoopRests
<1>9. CASE loop' = [l EXCEPT !.pc = "top"] /\ ~MakesCalls
  <2>1. loop'.without = None /\ loop'.pc = "top"
    BY <1>1, <1>3, <1>9 DEF Loops
  <2>2. Whole(talk.history)
    BY <1>3, <1>9 DEF Whole, WholeBut, Unanswered, ThisReply, Reply
  <2> QED
    BY <1>1, <1>3, <1>4, <2>1, <2>2, LoopRests
<1> QED
  BY <1>5, <1>6, <1>7, <1>8, <1>9

LEMMA TalkOfSend ==
  ASSUME Booking, TalkInv, SendTurn \/ SendCompaction
  PROVE  TalkInv'
<1>1. loop \in Loops /\ talk \in Talks /\ talk.history \in Seq(Messages) /\ talk.history # None /\ SInv
      /\ setup \in Setups
  BY TalkShape DEF Booking, Typed
<1>2. PICK reply : /\ reply.blocks \in Seq(Blocks) /\ reply.stop \in Stops /\ Send(reply)
                   /\ reply.stop = "resume" => \A i \in DOMAIN reply.blocks : reply.blocks[i] \notin {"tool", "member"}
  <2>1. CASE SendTurn
    BY <1>1, <2>1, SetupShape DEF SendTurn
  <2>2. CASE SendCompaction
    <3>1. Send(NoReply) /\ NoReply.blocks \in Seq(Blocks) /\ NoReply.stop \in Stops
      BY <2>2, NoReplyTyped DEF SendCompaction, NoReply
    <3>2. NoReply.stop # "resume"
      BY DEF NoReply
    <3> QED
      BY <3>1, <3>2
  <2> QED
    BY <2>1, <2>2
<1>3. /\ stream'.blocks = reply.blocks /\ stream'.stop = reply.stop /\ stream'.end = "open"
      /\ \A k \in Readers : ~stream'.readers[k].on
  <2> DEFINE e == Eager /\ OnThread
  <2>1. e \in BOOLEAN /\ stream' = NewStream(e, reply)
    BY <1>2 DEF Send, Eager, OnThread
  <2> HIDE DEF e
  <2> QED
    BY <1>2, <2>1, NewStreamKeeps
<1>4. stream'.stop = "resume" => ~MakesCalls'
  BY <1>2, <1>3 DEF MakesCalls, CallsOf, IsCall
<1>5. /\ loop.pc = "settle" /\ loop'.pc \in {"request", "body"} /\ loop'.compaction = loop.compaction
      /\ loop'.final = loop.final /\ loop'.covers = loop.covers /\ loop'.response = loop.response
      /\ loop'.without = (IF OnThread THEN talk.history ELSE None)
      /\ setup' = setup /\ left' = left
  BY <1>1, <1>2 DEF Send, At, Loops
<1>6. loop.without = None /\ talk.question = None /\ loop.response = "none"
  BY <1>5 DEF Booking, CompactionBooks, LoopInv, ResponseBooks, TalkInv, QuestionBooks, Talking, Over0
<1>7. OnThread' = OnThread /\ Compacting' = Compacting
  BY <1>5 DEF OnThread, Compacting
<1>8. /\ talk'.history = talk.history /\ talk'.covered = talk.covered /\ talk'.overridden = talk.overridden
      /\ talk'.question = IF OnThread THEN talk.history ELSE None
  BY <1>1, <1>2, <1>6 DEF Send, Ask, Talks
<1>9. Proper(talk.history) /\ (OnThread => Whole(talk.history)) /\ (Compacting /\ ~loop.final => Whole(talk.history))
  BY <1>5 DEF TalkInv, HistoryBooks
<1>10. QuestionBooks'
  BY <1>1, <1>3, <1>5, <1>7, <1>8, <1>9, SinceItself DEF QuestionBooks, Talking
<1>11. HistoryBooks'
  <2>1. OnThread => WholeBut(talk.history, ThisReply')
    BY <1>9, WholeIsWholeBut
  <2> QED
    BY <1>3, <1>5, <1>7, <1>8, <1>9, <2>1 DEF HistoryBooks, Talking
<1>12. CompactedBooks'
  BY <1>5, <1>7, <1>8 DEF TalkInv, CompactedBooks, Talking
<1>13. WithoutBooks'
  BY <1>5, <1>7, <1>8, <1>9 DEF WithoutBooks, Whole
<1>14. AskingBooks'
  BY <1>1, <1>3, <1>4, <1>5, <1>6, <1>7, <1>8 DEF AskingBooks
<1>15. SaidBooks'
  BY <1>5, <1>6, <1>8 DEF TalkInv, SaidBooks, Params
<1> QED
  BY <1>10, <1>11, <1>12, <1>13, <1>14, <1>15 DEF TalkInv

\* A turn is over, and its history is whole.
LEMMA TalkIsWhole ==
  ASSUME Booking, TalkInv, SameReply(stream, stream'),
         talk'.question = None, Proper(talk'.history), loop'.pc = "top" => Whole(talk'.history), SaidBooks',
         loop'.pc \in {"top", "ending"}, loop'.without = None
  PROVE  TalkInv'
<1>1. stream'.stop = "resume" => ~MakesCalls'
  BY SameCalls DEF TalkInv, AskingBooks
<1>2. loop'.pc \notin {"settle"} \cup Talking
  BY DEF Talking
<1> QED
  BY <1>1, <1>2 DEF TalkInv, QuestionBooks, HistoryBooks, CompactedBooks, WithoutBooks, AskingBooks, Talking

LEMMA TalkOfAnswer ==
  ASSUME Booking, TalkInv, Answer
  PROVE  TalkInv'
<1>1. /\ loop \in Loops /\ talk \in Talks /\ talk.history \in Seq(Messages) /\ StreamInv(stream)
      /\ Results(loop.iterations) \in Messages /\ setup' = setup /\ left' = left
  BY TalkShape, ThisReplyTyped DEF Booking, Typed, SInv, Answer
<1>2. loop.pc = "answer" /\ talk.question = None /\ loop.without = None /\ Proper(talk.history)
      /\ WholeBut(talk.history, ThisReply) /\ LastWord(talk.history, ThisReply)
  BY DEF Answer, At, TalkInv, QuestionBooks, HistoryBooks, Booking, CompactionBooks, Talking, Over0
<1>3. loop'.pc = "top" /\ loop'.without = None
  BY <1>1, <1>2 DEF Answer, Loops
<1>4. SameReply(stream, stream')
  BY <1>1, AbortKeeps DEF Answer, Moves
<1> DEFINE h == talk.history
           P == {0} \cup Words(h)
           a == Max(P)
           m == Results(loop.iterations)
           g == Inserted(h, a, m)
<1>5. a \in Words(h) /\ h[a] = ThisReply /\ \A j \in Words(h) : j <= a
  <2>1. Len(h) \in Nat /\ P \subseteq 0..Len(h) /\ 0 \in P
    BY <1>1, SequenceShape DEF Words
  <2>2. PICK i \in Words(h) : h[i] = ThisReply /\ \A j \in Words(h) : j <= i
    BY <1>2 DEF LastWord
  <2> HIDE DEF h
  <2>3. a \in P /\ \A j \in P : j <= a
    <3> HIDE DEF P
    <3> QED
      BY <2>1, MaxOfSome
  <2>4. i \in 1..Len(h) /\ a \in 0..Len(h)
    BY <1>1, <2>1, <2>2, <2>3, SequenceShape DEF Words, h
  <2>5. i <= a
    BY <2>2, <2>3
  <2>6. a \in Words(h)
    BY <2>3, <2>4, <2>5
  <2>7. a <= i
    BY <2>2, <2>6
  <2>8. a = i
    BY <2>4, <2>5, <2>7
  <2> QED
    BY <2>2, <2>8
<1>6. m = Results(ThisReply.n)
  BY DEF ThisReply, Reply
<1>7. /\ talk'.history = g /\ talk'.question = None /\ talk'.covered = talk.covered
      /\ talk'.overridden = talk.overridden
  <2>1. talk' = [talk EXCEPT !.history = g]
    BY <1>1 DEF Answer, Talks, Inserted, Words
  <2> HIDE DEF g
  <2> QED
    BY <1>1, <1>2, <2>1 DEF Talks
<1> HIDE DEF a, m
<1>8. Proper(g) /\ Whole(g) /\ Said(h) \subseteq Said(g)
  BY <1>1, <1>2, <1>5, <1>6, ResultsAnswerTheReply DEF m
<1>9. SaidBooks'
  BY <1>1, <1>2, <1>3, <1>7, <1>8, SaidStays DEF TalkInv
<1> QED
  BY <1>3, <1>4, <1>7, <1>8, <1>9, TalkIsWhole

LEMMA TalkOfCompacted ==
  ASSUME Booking, TalkInv, NEW summary \in BOOLEAN, Compacted(summary)
  PROVE  TalkInv'
<1>1. /\ loop \in Loops /\ talk \in Talks /\ talk.history \in Seq(Messages) /\ StreamInv(stream)
      /\ setup' = setup /\ left' = left
  BY TalkShape DEF Booking, Typed, SInv, Compacted
<1>2. loop.pc = "collect" /\ Compacting /\ ~OnThread
  BY DEF Compacted, At, OnThread
<1>3. /\ talk.question = None /\ loop.without = None /\ Proper(talk.history)
      /\ ~loop.final => Whole(talk.history)
      /\ loop.covers \in 0..Len(talk.history)
      /\ \A i \in DOMAIN talk.history : i > loop.covers => talk.history[i].by = "user" /\ ~talk.history[i].asks
  <2>1. loop.covers \in Nat /\ loop.covers <= Len(talk.history) /\ Len(talk.history) \in Nat
    BY <1>1, <1>2 DEF Booking, CompactionBooks, Over0, Loops
  <2> QED
    BY <1>2, <2>1 DEF TalkInv, QuestionBooks, HistoryBooks, CompactedBooks, Booking, CompactionBooks, Talking, Over0
<1>4. loop'.without = None /\ loop'.pc = IF loop.final THEN "ending" ELSE "top"
  BY <1>1, <1>3 DEF Compacted, Finish, Loops
<1>5. SameReply(stream, stream')
  BY <1>1, AbortKeeps DEF Compacted, Moves
<1>6. CASE ~summary
  <2>1. talk' = talk
    BY <1>6 DEF Compacted
  <2>2. SaidBooks'
    BY <1>1, <1>3, <1>4, <2>1, SaidStays DEF TalkInv
  <2> QED
    BY <1>3, <1>4, <1>5, <2>1, <2>2, TalkIsWhole
<1>7. CASE summary
  <2> DEFINE h == talk.history
             g == Summarized(h, loop.covers)
             c == talk.covered \cup Said(SubSeq(h, 1, loop.covers))
  <2>1. talk' = [talk EXCEPT !.history = g, !.covered = c]
    BY <1>1, <1>7 DEF Compacted, Talks, Summarized
  <2>2. Proper(g) /\ Whole(g) /\ Said(h) \subseteq Said(g) \cup Said(SubSeq(h, 1, loop.covers))
    BY <1>1, <1>3, SummaryIsWhole
  <2>3. Said(h) \subseteq Said(g) \cup c /\ talk.covered \subseteq c
    BY <2>2
  <2> HIDE DEF g, c
  <2>4. talk'.history = g /\ talk'.covered = c /\ talk'.question = None /\ talk'.overridden = talk.overridden
    BY <1>1, <1>3, <2>1 DEF Talks
  <2>5. SaidBooks'
    BY <1>1, <1>3, <1>4, <2>3, <2>4 DEF TalkInv, SaidBooks, Params
  <2> QED
    BY <1>4, <1>5, <2>2, <2>4, <2>5, TalkIsWhole
<1> QED
  BY <1>6, <1>7

LEMMA TalkOfTakenOver ==
  ASSUME Booking, TalkInv, TakenOver
  PROVE  TalkInv'
<1> DEFINE kept == loop.without
           answers == kept # <<>> /\ Last(kept) = ThisReply /\ MakesCalls
           over == talk.overridden \cup (Said(talk.history) \ Said(kept))
<1>1. /\ loop \in Loops /\ talk \in Talks /\ talk.history \in Seq(Messages) /\ StreamInv(stream)
      /\ setup' = setup /\ left' = left
  BY TalkShape DEF Booking, Typed, SInv, TakenOver
<1>2. loop.pc = "body" /\ OnThread /\ kept # None /\ kept \in Seq(Messages)
  BY TalkShape DEF TakenOver, At, Booking, Typed
<1>3. Proper(kept) /\ \A i \in Unanswered(kept) : kept[i] = ThisReply /\ i = Len(kept)
  BY <1>2 DEF TalkInv, WithoutBooks, Over0
<1>4. /\ talk'.history = kept /\ talk'.question = None /\ talk'.covered = talk.covered /\ talk'.overridden = over
  BY <1>1 DEF TakenOver, Talks
<1>5. /\ loop'.pc = (IF answers THEN "answer" ELSE "top") /\ loop'.without = None
      /\ loop'.iterations = loop.iterations /\ loop'.compaction = loop.compaction
  BY <1>1 DEF TakenOver, Loops
<1>6. SameReply(stream, stream')
  <2>1. Moves(stream, Abort(stream)) /\ StreamInv(Abort(stream))
    BY <1>1, AbortKeeps DEF Moves
  <2>2. Moves(Abort(stream), StartCalls(Abort(stream)))
    BY <2>1, StartCallsKeeps
  <2>3. stream' = Abort(stream) \/ stream' = StartCalls(Abort(stream))
    BY DEF TakenOver
  <2> QED
    BY <2>1, <2>2, <2>3 DEF Moves, SameReply
<1>7. SaidBooks'
  <2>1. Params' = kept /\ Params = kept
    BY <1>2, <1>4, <1>5 DEF Params
  <2>2. Said(talk.history) \subseteq Said(kept) \cup over /\ talk.overridden \subseteq over
    OBVIOUS
  <2> HIDE DEF over
  <2> QED
    BY <1>1, <1>4, <2>1, <2>2 DEF TalkInv, SaidBooks
<1>8. CASE ~answers
  <2>1. Whole(kept)
    <3> SUFFICES ASSUME NEW i \in Unanswered(kept) PROVE FALSE
      BY DEF Whole
    <3>1. kept[i] = ThisReply /\ i = Len(kept) /\ i \in DOMAIN kept /\ kept[i].asks
      BY <1>3 DEF Unanswered
    <3>2. kept # <<>> /\ Last(kept) = ThisReply /\ MakesCalls
      BY <1>2, <3>1 DEF Last, ThisReply, Reply
    <3> QED
      BY <1>8, <3>2
  <2>2. loop'.pc = "top"
    BY <1>5, <1>8
  <2> QED
    BY <1>3, <1>4, <1>5, <1>6, <1>7, <2>1, <2>2, TalkIsWhole
<1>9. CASE answers
  <2>1. loop'.pc = "answer" /\ OnThread' /\ ~Compacting'
    BY <1>2, <1>5, <1>9 DEF OnThread, Compacting
  <2>2. ThisReply' = ThisReply /\ MakesCalls' = MakesCalls /\ stream'.stop = stream.stop
    BY <1>5, <1>6, ReplyIsTheSame
  <2>3. DOMAIN kept = 1..Len(kept) /\ Len(kept) \in Nat /\ kept # <<>>
    BY <1>2, <1>9, SequenceShape
  <2>4. \A j \in Words(kept) : j <= Len(kept)
    BY <2>3 DEF Words
  <2>5. WholeBut(kept, ThisReply)
    BY <1>3, <2>4 DEF WholeBut
  <2>6. LastWord(kept, ThisReply)
    <3>1. Len(kept) \in DOMAIN kept /\ kept[Len(kept)] = ThisReply
      BY <1>2, <1>9, <2>3 DEF Last
    <3>2. Len(kept) \in Words(kept)
      BY <3>1 DEF Words, ThisReply, Reply
    <3> QED
      BY <2>4, <3>1, <3>2 DEF LastWord
  <2> HIDE DEF kept, answers, over
  <2>7. QuestionBooks' /\ CompactedBooks' /\ WithoutBooks'
    BY <1>4, <1>5, <2>1 DEF QuestionBooks, CompactedBooks, WithoutBooks
  <2>8. HistoryBooks'
    BY <1>3, <1>4, <2>1, <2>2, <2>5, <2>6 DEF HistoryBooks, Talking
  <2>9. AskingBooks'
    BY <2>1, <2>2 DEF TalkInv, AskingBooks, Talking
  <2> QED
    BY <1>7, <2>7, <2>8, <2>9 DEF TalkInv
<1> QED
  BY <1>8, <1>9

LEMMA TalkOfAppend ==
  ASSUME Booking, TalkInv, Append1
  PROVE  TalkInv'
<1> DEFINE h == talk.history
           n == setup.says - left.says + 1
           g == Append(h, User(n))
<1>1. /\ loop \in Loops /\ talk \in Talks /\ h \in Seq(Messages) /\ left \in Lefts /\ n \in Nat
      /\ loop.pc \notin Over0 /\ loop' = loop /\ stream' = stream /\ setup' = setup
      /\ talk.question # None => talk.question \in Seq(Messages)
  BY TalkShape DEF Booking, Typed, Append1
<1>2. talk' = [talk EXCEPT !.history = g] /\ left'.says = left.says - 1
  BY <1>1 DEF Append1, NextUser, Spend, Lefts, Talks
<1>3. /\ talk'.history = g /\ talk'.question = talk.question /\ talk'.covered = talk.covered
      /\ talk'.overridden = talk.overridden
  <2> HIDE DEF g
  <2> QED
    BY <1>1, <1>2 DEF Talks
<1>4. /\ OnThread' = OnThread /\ Compacting' = Compacting
      /\ ThisReply' = ThisReply /\ MakesCalls' = MakesCalls
  BY <1>1 DEF OnThread, Compacting, ThisReply, MakesCalls
<1>5. Proper(h)
  BY DEF TalkInv, HistoryBooks
<1>6. /\ g \in Seq(Messages) /\ SaidSince(g, h) /\ Said(h) \subseteq Said(g) /\ n \in Said(g)
      /\ \A i \in DOMAIN g : i > Len(h) => g[i].by = "user"
  <2> HIDE DEF n
  <2> QED
    BY <1>1, SinceItself, SinceAppends
<1>7. talk.question # None => SaidSince(g, talk.question)
  <2> SUFFICES ASSUME talk.question # None PROVE SaidSince(g, talk.question)
    OBVIOUS
  <2>1. talk.question \in Seq(Messages) /\ SaidSince(h, talk.question)
    BY <1>1 DEF TalkInv, QuestionBooks
  <2> HIDE DEF n
  <2> QED
    BY <1>1, <2>1, SinceAppends
<1> HIDE DEF g, n
<1>8. /\ Proper(g) /\ (Whole(h) => Whole(g)) /\ (WholeBut(h, ThisReply) => WholeBut(g, ThisReply))
      /\ LastWord(h, ThisReply) => LastWord(g, ThisReply)
  BY <1>1, <1>5, <1>6, SinceIsAsWhole
<1>9. QuestionBooks'
  BY <1>1, <1>3, <1>4, <1>7 DEF TalkInv, QuestionBooks
<1>10. HistoryBooks'
  BY <1>1, <1>3, <1>4, <1>8 DEF TalkInv, HistoryBooks
<1>11. CompactedBooks'
  <2> SUFFICES ASSUME Compacting, loop.pc \in {"settle"} \cup Talking, NEW i \in DOMAIN g, i > loop.covers
               PROVE  g[i].by = "user" /\ ~g[i].asks
    BY <1>1, <1>3, <1>4 DEF CompactedBooks
  <2>1. CASE i \in DOMAIN h
    <3>1. g[i] = h[i]
      <4>1. i <= Len(h)
        BY <1>1, <2>1, SequenceShape
      <4> QED
        BY <1>6, <4>1 DEF SaidSince
    <3> QED
      BY <2>1, <3>1 DEF TalkInv, CompactedBooks
  <2>2. CASE i \notin DOMAIN h
    <3>1. ~(i <= Len(h))
      BY <1>1, <1>6, <2>2, SequenceShape
    <3> QED
      BY <1>6, <3>1 DEF SaidSince
  <2> QED
    BY <2>1, <2>2
<1>12. WithoutBooks'
  <2>1. loop.without # None => loop'.without = loop.without
    BY <1>1
  <2> QED
    BY <1>1, <1>3, <1>4, <1>6 DEF TalkInv, WithoutBooks
<1>13. AskingBooks'
  BY <1>1, <1>3, <1>4 DEF TalkInv, AskingBooks
<1>14. SaidBooks'
  <2>1. Said(Params) \subseteq Said(Params') \cup Said(g)
    BY <1>1, <1>3, <1>6 DEF Params
  <2>2. setup'.says - left'.says = n /\ setup.says - left.says = n - 1
    <3>1. setup.says \in Nat /\ left.says \in Nat
      BY TalkShape DEF Booking
    <3> QED
      BY <1>1, <1>2, <3>1 DEF n
  <2>3. 1..n \subseteq 1..n - 1 \cup {n}
    BY <1>1
  <2> QED
    BY <1>3, <1>6, <2>1, <2>2, <2>3 DEF TalkInv, SaidBooks
<1> QED
  BY <1>9, <1>10, <1>11, <1>12, <1>13, <1>14 DEF TalkInv

\* The caller replaces the params: at once, or at the end of the body of the turn.
LEMMA TalkOfParams ==
  ASSUME Booking, TalkInv, NEW m \in Seq(Messages), SetMessagesParams(m), loop.pc \notin Over0,
         Said(Params) \subseteq Said(m), left'.says = left.says \/ (left'.says = left.says - 1 /\ NextUser.n \in Said(m)),
         loop.without = None =>
           /\ SaidSince(m, talk.history)
           /\ Compacting => m = talk.history,
         loop.without # None =>
           /\ Proper(m) /\ \A i \in Unanswered(m) : m[i] = ThisReply /\ i = Len(m)
           /\ loop.pc = "request" => Whole(m)
  PROVE  TalkInv'
<1>1. /\ loop \in Loops /\ talk \in Talks /\ talk.history \in Seq(Messages) /\ left \in Lefts
      /\ stream' = stream /\ setup' = setup /\ m # None
  BY TalkShape, LoopAssumption DEF Booking, Typed, SetMessagesParams
<1>2. /\ loop'.pc = loop.pc /\ loop'.iterations = loop.iterations /\ loop'.compaction = loop.compaction
      /\ loop'.final = loop.final /\ loop'.covers = loop.covers /\ loop'.mutated /\ loop'.response = "none"
      /\ loop'.without = IF loop.without = None THEN None ELSE m
  BY <1>1 DEF SetMessagesParams, Loops
<1>3. /\ talk'.history = (IF loop.without = None THEN m ELSE talk.history) /\ talk'.question = talk.question
      /\ talk'.covered = talk.covered /\ talk'.overridden = talk.overridden
  BY <1>1 DEF SetMessagesParams, Talks
<1>4. /\ OnThread' = OnThread /\ Compacting' = Compacting
      /\ ThisReply' = ThisReply /\ MakesCalls' = MakesCalls
  BY <1>1, <1>2 DEF OnThread, Compacting, ThisReply, MakesCalls
<1>5. Params' = m
  BY <1>1, <1>2, <1>3 DEF Params
<1>6. Proper(talk.history)
  BY DEF TalkInv, HistoryBooks
<1>7. loop.without = None =>
        /\ Proper(m) /\ (Whole(talk.history) => Whole(m))
        /\ WholeBut(talk.history, ThisReply) => WholeBut(m, ThisReply)
        /\ LastWord(talk.history, ThisReply) => LastWord(m, ThisReply)
  BY <1>1, <1>6, SinceIsAsWhole
<1>8. QuestionBooks'
  <2> SUFFICES ASSUME talk.question # None PROVE QuestionBooks'
    BY <1>3 DEF QuestionBooks
  <2>1. talk.question \in Seq(Messages) /\ SaidSince(talk.history, talk.question)
    BY TalkShape DEF Booking, TalkInv, QuestionBooks
  <2>2. SaidSince(talk'.history, talk.question)
    <3>1. CASE loop.without = None
      <4>1. /\ Len(talk.question) \in Nat /\ Len(talk.history) \in Nat /\ Len(m) \in Nat
            /\ DOMAIN talk.history = 1..Len(talk.history) /\ DOMAIN m = 1..Len(m)
        BY <1>1, <2>1, SequenceShape
      <4>2. SaidSince(m, talk.history)
        BY <3>1
      <4>3. Len(talk.question) <= Len(m)
        BY <2>1, <4>1, <4>2 DEF SaidSince
      <4>4. ASSUME NEW i \in DOMAIN m
            PROVE  IF i <= Len(talk.question) THEN m[i] = talk.question[i] ELSE m[i].by = "user" /\ ~m[i].asks
        <5>1. CASE i <= Len(talk.history)
          <6>1. i \in DOMAIN talk.history /\ m[i] = talk.history[i]
            BY <4>1, <4>2, <5>1 DEF SaidSince
          <6> QED
            BY <2>1, <6>1 DEF SaidSince
        <5>2. CASE ~(i <= Len(talk.history))
          <6>1. ~(i <= Len(talk.question))
            BY <2>1, <4>1, <5>2 DEF SaidSince
          <6> QED
            BY <4>2, <5>2, <6>1 DEF SaidSince
        <5> QED
          BY <5>1, <5>2
      <4>5. SaidSince(m, talk.question)
        BY <4>3, <4>4 DEF SaidSince
      <4> QED
        BY <1>3, <3>1, <4>5
    <3>2. CASE loop.without # None
      BY <1>3, <2>1, <3>2
    <3> QED
      BY <3>1, <3>2
  <2> QED
    BY <1>1, <1>2, <1>3, <1>4, <2>2 DEF TalkInv, QuestionBooks
<1>9. HistoryBooks'
  <2>1. CASE loop.without = None
    BY <1>1, <1>2, <1>3, <1>4, <1>7, <2>1 DEF TalkInv, HistoryBooks
  <2>2. CASE loop.without # None
    BY <1>1, <1>2, <1>3, <1>4, <2>2 DEF TalkInv, HistoryBooks
  <2> QED
    BY <2>1, <2>2
<1>10. CompactedBooks'
  <2>1. Compacting => talk'.history = talk.history
    BY <1>3
  <2> QED
    BY <1>2, <1>4, <2>1 DEF TalkInv, CompactedBooks
<1>11. WithoutBooks'
  BY <1>2, <1>4 DEF WithoutBooks
<1>12. AskingBooks'
  BY <1>1, <1>2, <1>3, <1>4 DEF TalkInv, AskingBooks
<1>13. SaidBooks'
  <2>1. Said(talk.history) \cup Said(Params) \subseteq Said(talk'.history) \cup Said(m)
    BY <1>3 DEF Params
  <2>2. CASE left'.says = left.says
    BY <1>1, <1>3, <1>5, <2>1, <2>2 DEF TalkInv, SaidBooks
  <2>3. CASE left'.says = left.says - 1 /\ NextUser.n \in Said(m)
    <3> DEFINE n == setup.says - left.says + 1
    <3>1. n \in Nat /\ n \in Said(m) /\ setup'.says - left'.says = n /\ setup.says - left.says = n - 1
      BY <1>1, <2>3, TalkShape DEF NextUser, User, Booking
    <3> HIDE DEF n
    <3>2. 1..n \subseteq 1..n - 1 \cup {n}
      BY <3>1
    <3> QED
      BY <1>3, <1>5, <2>1, <3>1, <3>2 DEF TalkInv, SaidBooks
  <2> QED
    BY <2>2, <2>3
<1> QED
  BY <1>8, <1>9, <1>10, <1>11, <1>12, <1>13 DEF TalkInv

LEMMA TalkOfTheCaller ==
  ASSUME Booking, TalkInv, SetOther \/ Push
  PROVE  TalkInv'
<1>1. /\ loop \in Loops /\ talk \in Talks /\ talk.history \in Seq(Messages) /\ left \in Lefts
      /\ Params \in Seq(Messages) /\ NextUser \in Messages /\ loop.pc \notin Over0
      /\ loop.without # None => loop.without \in Seq(Messages)
  BY TalkShape, ParamsTyped, NextUserTyped DEF Booking, Typed, SetOther, Push, MayTake
<1>2. loop.without # None =>
        /\ OnThread /\ loop.pc \in {"request", "body"} /\ Proper(loop.without)
        /\ \A i \in Unanswered(loop.without) : loop.without[i] = ThisReply /\ i = Len(loop.without)
        /\ loop.pc = "request" => Whole(loop.without)
  BY <1>1 DEF TalkInv, WithoutBooks, Booking, CompactionBooks
<1>3. CASE SetOther
  <2>1. SetMessagesParams(Params) /\ left'.says = left.says
    BY <1>1, <1>3 DEF SetOther, Take, Lefts
  <2>2. loop.without = None => SaidSince(Params, talk.history) /\ Params = talk.history
    BY <1>1, SinceItself DEF Params
  <2>3. loop.without # None => Params = loop.without
    BY DEF Params
  <2> HIDE DEF Params
  <2>4. Said(Params) \subseteq Said(Params)
    OBVIOUS
  <2> QED
    BY <1>1, <1>2, <2>1, <2>2, <2>3, <2>4, TalkOfParams
<1>4. CASE Push
  <2> DEFINE n == setup.says - left.says + 1
             m == Append(Params, NextUser)
  <2>1. SetMessagesParams(m) /\ left'.says = left.says - 1 /\ ~Compacting
        /\ (loop.pc = "body" /\ Params # <<>> => ~Last(Params).asks)
    BY <1>1, <1>4 DEF Push, Take, Lefts, At
  <2>2. n \in Nat /\ m = Append(Params, User(n)) /\ NextUser.n = n
    BY TalkShape DEF Booking, NextUser, User
  <2> HIDE DEF n
  <2>3. /\ m \in Seq(Messages) /\ SaidSince(m, Params) /\ Said(Params) \subseteq Said(m) /\ n \in Said(m)
    BY <1>1, <2>2, SinceItself, SinceAppends
  <2> HIDE DEF m
  <2>4. loop.without # None => Params = loop.without
    BY DEF Params
  <2>5. loop.without = None => Params = talk.history
    BY DEF Params
  <2>6. ASSUME loop.without # None
        PROVE  Proper(m) /\ Whole(m)
    <3>1. Whole(Params)
      <4>1. CASE loop.pc = "request"
        BY <1>2, <2>4, <2>6, <4>1
      <4>2. CASE loop.pc = "body"
        <5>1. \A i \in Unanswered(Params) : i = Len(Params)
          BY <1>2, <2>4, <2>6
        <5> QED
          BY <1>1, <2>1, <4>2, <5>1, LastAsks
      <4> QED
        BY <1>2, <2>6, <4>1, <4>2
    <3>2. Proper(Params)
      BY <1>2, <2>4, <2>6
    <3> QED
      BY <1>1, <2>3, <3>1, <3>2, SinceIsAsWhole
  <2>7. loop.without # None => /\ Proper(m) /\ \A i \in Unanswered(m) : m[i] = ThisReply /\ i = Len(m)
                               /\ loop.pc = "request" => Whole(m)
    BY <2>6 DEF Whole
  <2>8. loop.without = None => SaidSince(m, talk.history) /\ (Compacting => m = talk.history)
    BY <2>1, <2>3, <2>5
  <2>9. left'.says = left.says - 1 /\ NextUser.n \in Said(m)
    BY <2>1, <2>2, <2>3
  <2> QED
    BY <1>1, <2>1, <2>3, <2>7, <2>8, <2>9, TalkOfParams
<1> QED
  BY <1>3, <1>4

LEMMA TalkOfPutBack ==
  ASSUME Booking, TalkInv, NEW withResults \in BOOLEAN, PutBack(withResults)
  PROVE  TalkInv'
<1> DEFINE w == loop.without
           r == ThisReply
           s == Results(loop.iterations)
           m == w \o (IF withResults THEN <<r, s>> ELSE <<r>>)
<1>1. /\ loop \in Loops /\ left \in Lefts /\ loop.pc = "body" /\ OnThread /\ left'.says = left.says
      /\ SetMessagesParams(m) /\ r \notin Range(w) /\ loop.pc \notin Over0
  BY DEF PutBack, MayTake, Take, At, Booking, Typed, Lefts
<1>2. w # None /\ w \in Seq(Messages) /\ Params = w
  BY <1>1, TalkShape DEF Booking, Typed, Params
<1>3. r \in Messages /\ r.by = "reply" /\ s \in Messages /\ s = Results(r.n)
  BY ThisReplyTyped DEF Booking, ThisReply, Reply
<1>4. Proper(w) /\ \A i \in Unanswered(w) : w[i] = r /\ i = Len(w)
  BY <1>1, <1>2 DEF TalkInv, WithoutBooks
<1>5. Whole(w)
  <2>1. \A i \in DOMAIN w : w[i] # r
    BY <1>1 DEF Range
  <2> QED
    BY <1>4, <2>1 DEF Whole, Unanswered
<1>6. /\ m \in Seq(Messages) /\ Proper(m) /\ Said(w) \subseteq Said(m)
      /\ \A i \in Unanswered(m) : m[i] = r /\ i = Len(m)
  <2> HIDE DEF w, r, s
  <2>1. CASE withResults
    <3>1. m = w \o <<r, s>>
      BY <2>1
    <3> HIDE DEF m
    <3>2. m \in Seq(Messages) /\ Proper(m) /\ Whole(m) /\ Said(w) \subseteq Said(m)
      BY <1>2, <1>3, <1>4, <1>5, <3>1, AnsweredReplyIsWhole
    <3> QED
      BY <3>2 DEF Whole
  <2>2. CASE ~withResults
    <3>1. m = Append(w, r)
      BY <1>2, <1>3, <2>2
    <3> HIDE DEF m
    <3>2. r.by \in {"reply", "cut"} /\ (r.asks => r.by = "reply")
      BY <1>3
    <3> QED
      BY <1>2, <1>3, <1>4, <1>5, <3>1, <3>2, ReplyIsLast
  <2> QED
    BY <2>1, <2>2
<1> HIDE DEF m
<1>7. loop.without # None /\ loop.pc # "request"
  BY <1>1, <1>2
<1> QED
  BY <1>1, <1>2, <1>6, <1>7, TalkOfParams

LEMMA TalkStep ==
  ASSUME Booking, TalkInv, [Next]_vars
  PROVE  TalkInv'
<1>1. CASE UNCHANGED vars
  <2>1. loop' = loop /\ talk' = talk /\ setup' = setup /\ left'.says = left.says /\ stream' = stream
    BY <1>1 DEF vars
  <2>2. SameReply(stream, stream')
    BY <2>1 DEF SameReply
  <2>3. loop.pc = "request" => \A k \in Readers : ~stream'.readers[k].on
    BY <2>1 DEF TalkInv, AskingBooks
  <2> QED
    BY <2>1, <2>2, <2>3, TalkStays
<1>2. CASE Runner
  BY <1>2, TalkOfTheLoop, TalkOfSend, TalkOfTheBody, TalkOfTakenOver, TalkOfCollect, TalkOfAnswer, TalkOfCompacted DEF Runner
<1>3. CASE Surroundings
  BY <1>3, TalkOfTheReply, TalkOfReadersAndCalls DEF Surroundings
<1>4. CASE Caller
  BY <1>4, TalkOfAppend, TalkOfTheCaller, TalkOfPutBack, TalkOfTheBody, TalkOfBreaks, TalkOfReadersAndCalls DEF Caller
<1>5. CASE Faults
  BY <1>5, TalkOfTheReply, TalkOfBreaks, TalkOfReadersAndCalls DEF Faults
<1> QED
  BY <1>1, <1>2, <1>3, <1>4, <1>5 DEF Next

LEMMA InitTalk == Init => TalkInv
<1> SUFFICES ASSUME Init PROVE TalkInv
  OBVIOUS
<1>1. /\ loop.pc = "idle" /\ loop.without = None /\ loop.compaction = "idle" /\ talk.question = None
      /\ talk.history = <<>> /\ setup \in Setups /\ left.says = setup.says
      /\ stream = NewStream(FALSE, NoReply)
  BY DEF Init, NoReply
<1>2. stream.stop = "stop"
  BY <1>1 DEF NewStream, NoReply
<1>3. DOMAIN talk.history = {} /\ setup.says - left.says = 0
  BY <1>1, SetupShape
<1>4. Proper(talk.history) /\ Whole(talk.history)
  BY <1>3 DEF Proper, Whole, Unanswered
<1>5. ~Compacting /\ loop.pc \notin Talking
  BY <1>1 DEF Compacting, Talking
<1>6. SaidBooks
  <2>1. 1..0 = {}
    OBVIOUS
  <2> QED
    BY <1>3, <2>1 DEF SaidBooks
<1> QED
  BY <1>1, <1>2, <1>4, <1>5, <1>6
     DEF TalkInv, QuestionBooks, HistoryBooks, CompactedBooks, WithoutBooks, AskingBooks, Talking

LEMMA TalkHolds == Spec => []TalkInv
  BY InitTalk, TalkStep, BookingHolds, PTL DEF Spec

\* Every question that goes out is one the model can answer, and nothing the caller has said is lost on the way.  The
\* argument is that the history is whole wherever the loop sends it: the only calls without results are those of the last
\* reply, and the results are put right behind it, whatever is said meanwhile and whoever has replaced the params.
THEOREM QuestionsAreWhole == Spec => []TurnsAreWhole
<1>1. Typed /\ TalkInv => TurnsAreWhole
  <2> SUFFICES ASSUME Typed, TalkInv, talk.question # None PROVE TurnsAreWhole
    BY DEF TurnsAreWhole
  <2>1. Whole(talk.question)
    BY DEF TalkInv, QuestionBooks
  <2> QED
    BY <2>1 DEF TurnsAreWhole, Whole, Unanswered, TalkInv, SaidBooks
<1>2. Booking => Typed
  BY DEF Booking
<1> QED
  BY <1>1, <1>2, TalkHolds, BookingHolds, PTL
=============================================================================
