-------------------------- MODULE MessageThreadProofs --------------------------
(***************************************************************************)
(* Proofs about MessageThread for any create-only fields, any set-up of a  *)
(* thread and any number of turns, messages, edits and faults: its types,  *)
(* and that a call is answered under the create-only fields it was made    *)
(* with.  The operators of the model that walk through sequences are       *)
(* shown to return what they should by induction over their length.        *)
(***************************************************************************)
EXTENDS MessageThread, InductionLemmas

USE ThreadAssumption

(***************************************************************************)
(* Kept.                                                                   *)
(***************************************************************************)
\* f[k] is what is kept of the first k elements of s.
Collects(s, P, f) ==
  f = [k \in 0..Len(s) |-> IF k = 0 THEN <<>> ELSE IF k \in P THEN Append(f[k - 1], s[k]) ELSE f[k - 1]]

\* The function that collects what is kept up to each place exists: it can be extended by one place after another.
LEMMA KeptFunction ==
  ASSUME NEW S, NEW s \in Seq(S), NEW P
  PROVE \E f : Collects(s, P, f)
<1> DEFINE UpTo(m, f) ==
      f = [k \in 0..m |-> IF k = 0 THEN <<>> ELSE IF k \in P THEN Append(f[k - 1], s[k]) ELSE f[k - 1]]
    T == {m \in Nat : \E f : UpTo(m, f)}
<1>1. 0 \in T
  <2>1. UpTo(0, [k \in 0..0 |-> <<>>])
    OBVIOUS
  <2> QED
    BY <2>1
<1>2. ASSUME NEW m \in Nat, m \in T
      PROVE m + 1 \in T
  <2>1. PICK f : UpTo(m, f)
    BY <1>2
  <2> DEFINE g == [k \in 0..m + 1 |->
        IF k <= m THEN f[k] ELSE IF k \in P THEN Append(f[m], s[m + 1]) ELSE f[m]]
  <2>2. ASSUME NEW k \in 0..m + 1
        PROVE g[k] = IF k = 0 THEN <<>> ELSE IF k \in P THEN Append(g[k - 1], s[k]) ELSE g[k - 1]
    <3>1. CASE k = 0
      BY <2>1, <3>1
    <3>2. CASE k # 0 /\ k <= m
      <4>1. k \in 0..m /\ k - 1 \in 0..m /\ k - 1 \in 0..m + 1 /\ k - 1 <= m
        BY <3>2
      <4>2. g[k] = f[k] /\ g[k - 1] = f[k - 1]
        BY <3>2, <4>1
      <4>3. f[k] = IF k = 0 THEN <<>> ELSE IF k \in P THEN Append(f[k - 1], s[k]) ELSE f[k - 1]
        BY <2>1, <4>1
      <4> QED
        BY <4>2, <4>3
    <3>3. CASE k = m + 1
      <4>1. m \in 0..m + 1 /\ m + 1 \in 0..m + 1 /\ ~(m + 1 <= m) /\ (m + 1) - 1 = m /\ m + 1 # 0
        OBVIOUS
      <4>2. g[m + 1] = IF m + 1 \in P THEN Append(f[m], s[m + 1]) ELSE f[m]
        BY <4>1
      <4>3. g[m] = f[m]
        BY <4>1
      <4> QED
        BY <3>3, <4>1, <4>2, <4>3
    <3> QED
      BY <3>1, <3>2, <3>3
  <2>3. UpTo(m + 1, g)
    BY <2>2
  <2> HIDE DEF UpTo, g
  <2> QED
    BY <2>3
<1>3. Len(s) \in T
  <2> HIDE DEF T
  <2> QED
    BY <1>1, <1>2, Induction
<1> QED
  BY <1>3 DEF Collects

\* What is kept of a sequence is a sequence of the same things.
LEMMA KeptType ==
  ASSUME NEW S, NEW s \in Seq(S), NEW P
  PROVE Kept(s, P) \in Seq(S)
<1> DEFINE f == CHOOSE g : Collects(s, P, g)
<1>1. Kept(s, P) = f[Len(s)]
  BY DEF Kept, Collects
<1>2. f = [k \in 0..Len(s) |-> IF k = 0 THEN <<>> ELSE IF k \in P THEN Append(f[k - 1], s[k]) ELSE f[k - 1]]
  <2>1. Collects(s, P, f)
    BY KeptFunction
  <2> HIDE DEF f
  <2> QED
    BY <2>1 DEF Collects
<1> HIDE DEF f
<1> DEFINE T == {m \in Nat : m <= Len(s) => f[m] \in Seq(S)}
<1>3. 0 \in T
  BY <1>2
<1>4. ASSUME NEW m \in Nat, m \in T
      PROVE m + 1 \in T
  <2> SUFFICES ASSUME m + 1 <= Len(s)
               PROVE f[m + 1] \in Seq(S)
    OBVIOUS
  <2>1. m + 1 \in 0..Len(s) /\ m + 1 # 0 /\ (m + 1) - 1 = m /\ m <= Len(s) /\ m + 1 \in 1..Len(s)
    OBVIOUS
  <2>2. f[m] \in Seq(S) /\ s[m + 1] \in S
    BY <1>4, <2>1
  <2>3. f[m + 1] = IF m + 1 \in P THEN Append(f[m], s[m + 1]) ELSE f[m]
    BY <1>2, <2>1
  <2> QED
    BY <2>2, <2>3
<1>5. Len(s) \in T
  <2> HIDE DEF T
  <2> QED
    BY <1>3, <1>4, Induction
<1> QED
  BY <1>1, <1>5

(***************************************************************************)
(* The types of the state.                                                 *)
(***************************************************************************)
Fields == Systems \cup {None}
AnchorTypes == {"never_threaded", "unthreaded", "create", "continue"}
Anchors == [type : AnchorTypes, id : Nat, createdWith : Fields, replacesLost : BOOLEAN]
Threads == [stored : Seq(Entry), staged : Seq(Entry), system : Systems, anchor : Anchors]
Items == [msg : Message, received : BOOLEAN]
Turns == [own : Int, system : Fields, override : Fields, deferred : Seq(Items), rewrite : Seq(Message) \cup {None}]
Requests == [phase : {"none", "sent", "started", "content", "stopping"}, anchor : AnchorTypes \cup {"none"},
             prev : Nat, sends : Seq(Message), system : Fields, refusal : BOOLEAN]
Servers == [id : Nat, context : Seq(Message), system : Fields, status : {"free", "busy", "continued", "gone"}]
Lefts == [turns : Nat, says : Nat, edits : Nat, faults : Nat]

Budget ==
  /\ setup \in Setups /\ left \in Lefts
  /\ left.turns <= setup.turns /\ left.says <= setup.says

Typed == thread \in Threads /\ turn \in Turns /\ request \in Requests /\ server \in Servers /\ Budget

\* What the turn in flight can take back is staged, and without a turn nothing is on its way.
TurnBooks ==
  /\ InTurn => turn.own \in 0..Len(thread.staged) /\ turn.system \in Systems /\ request.phase # "none"
  /\ ~InTurn => request = NoRequest

\* A reply that the thread continues from is the last one the server stored, under the fields it was created with.
ThreadIsStored ==
  thread.anchor.type = "continue" => server.id = thread.anchor.id /\ server.system = thread.anchor.createdWith

\* What is on its way was made from the anchor, which nothing changes before the turn ends or is sent again.
RequestIsAnchored ==
  InTurn =>
    /\ request.anchor = thread.anchor.type /\ request.prev = thread.anchor.id
    /\ IF request.anchor = "continue" THEN turn.system = thread.anchor.createdWith ELSE request.system = turn.system

ThreadInv == Typed /\ TurnBooks /\ ThreadIsStored /\ RequestIsAnchored

(***************************************************************************)
(* What the operations of ThreadState return.                              *)
(***************************************************************************)
LEMMA GivenType ==
  ASSUME NEW m \in Message
  PROVE Given(m) \in Entry
BY DEF Given, Entry

LEMMA MsgsType ==
  ASSUME NEW es \in Seq(Entry)
  PROVE Msgs(es) \in Seq(Message)
<1>1. ASSUME NEW i \in 1..Len(es)
      PROVE es[i].msg \in Message
  <2>1. es[i] \in Entry
    OBVIOUS
  <2> QED
    BY <2>1 DEF Entry
<1> QED
  BY <1>1 DEF Msgs

LEMMA ItemMsgsType ==
  ASSUME NEW is \in Seq(Items)
  PROVE Msgs(is) \in Seq(Message)
<1>1. ASSUME NEW i \in 1..Len(is)
      PROVE is[i].msg \in Message
  <2>1. is[i] \in Items
    OBVIOUS
  <2> QED
    BY <2>1 DEF Items
<1> QED
  BY <1>1 DEF Msgs

LEMMA AllEntriesType ==
  ASSUME NEW t \in Threads
  PROVE AllEntries(t) \in Seq(Entry) /\ Len(AllEntries(t)) = Len(t.stored) + Len(t.staged)
BY DEF AllEntries, Threads

LEMMA StagedType ==
  ASSUME NEW t \in Threads, NEW es \in Seq(Entry)
  PROVE /\ [t EXCEPT !.staged = es] \in Threads
        /\ [t EXCEPT !.staged = es].staged = es
        /\ [t EXCEPT !.staged = es].anchor = t.anchor
        /\ [t EXCEPT !.staged = es].system = t.system
        /\ [t EXCEPT !.staged = es].stored = t.stored
BY DEF Threads

\* push() only adds to what is staged.
LEMMA PushAdds ==
  ASSUME NEW t \in Threads, NEW items \in Seq(Items)
  PROVE /\ Push(t, items) \in Threads
        /\ Push(t, items).anchor = t.anchor /\ Push(t, items).system = t.system
        /\ Push(t, items).stored = t.stored
        /\ Len(Push(t, items).staged) >= Len(t.staged)
<1> DEFINE Repeats(i) == RepeatsLastReply(t, items[i])
                           /\ (items[i].received \/ \A j \in 1..i - 1 : RepeatsLastReply(t, items[j]))
    new == Kept(items, {i \in DOMAIN items : ~Repeats(i)})
    es == [i \in DOMAIN new |-> Given(new[i].msg)]
<1>1. Push(t, items) = [t EXCEPT !.staged = @ \o es]
  BY DEF Push
<1>2. new \in Seq(Items)
  BY KeptType
<1> HIDE DEF new
<1>3. ASSUME NEW i \in 1..Len(new)
      PROVE Given(new[i].msg) \in Entry
  <2>1. new[i] \in Items
    BY <1>2
  <2>2. new[i].msg \in Message
    BY <2>1 DEF Items
  <2> QED
    BY <2>2, GivenType
<1>4. es \in Seq(Entry)
  BY <1>2, <1>3
<1> HIDE DEF es
<1>5. t.staged \in Seq(Entry)
  BY DEF Threads
<1>6. t.staged \o es \in Seq(Entry) /\ Len(t.staged \o es) >= Len(t.staged)
  BY <1>4, <1>5
<1>7. Push(t, items) = [t EXCEPT !.staged = t.staged \o es]
  BY <1>1 DEF Threads
<1> DEFINE all == t.staged \o es
<1> HIDE DEF all
<1>8. all \in Seq(Entry) /\ Len(all) >= Len(t.staged) /\ Push(t, items) = [t EXCEPT !.staged = all]
  BY <1>6, <1>7 DEF all
<1> QED
  BY <1>8, StagedType

\* setMessages() leaves the anchor alone or asks for a new thread.
LEMMA SetMessagesType ==
  ASSUME NEW t \in Threads, NEW messages \in Seq(Message)
  PROVE /\ SetMessages(t, messages) \in Threads
        /\ SetMessages(t, messages).system = t.system
        /\ \/ SetMessages(t, messages).anchor = t.anchor
           \/ SetMessages(t, messages).anchor.type = "create"
<1> DEFINE extends == IsPrefix(Msgs(t.stored), messages)
    cleared == IF extends THEN [t EXCEPT !.staged = <<>>]
               ELSE [t EXCEPT !.stored = <<>>, !.staged = <<>>,
                              !.anchor = IF Threading(t) THEN Create(FALSE) ELSE @]
    new == SubSeq(messages, Len(cleared.stored) + 1, Len(messages))
    Recorded(m) == LET is == {e \in Range(AllEntries(t)) : IsReply(e) /\ e.msg = m}
                   IN IF is = {} THEN Given(m) ELSE CHOOSE e \in is : TRUE
    Repeats(i) == IF i = 1 THEN RepeatsLastReply(cleared, Item(new[1]))
                  ELSE new[i - 1] = new[i] /\ IsReply(Recorded(new[i]))
    kept == Kept(new, {i \in DOMAIN new : ~Repeats(i)})
    es == [i \in DOMAIN kept |-> Recorded(kept[i])]
<1>1. SetMessages(t, messages) = [cleared EXCEPT !.staged = es]
  BY DEF SetMessages
<1>2. ASSUME NEW m \in Message
      PROVE Recorded(m) \in Entry
  <2>1. ASSUME NEW e \in Range(AllEntries(t))
        PROVE e \in Entry
    <3>1. PICK i \in DOMAIN AllEntries(t) : e = AllEntries(t)[i]
      BY DEF Range
    <3>2. AllEntries(t) \in Seq(Entry)
      BY AllEntriesType
    <3> QED
      BY <3>1, <3>2
  <2> QED
    BY <2>1, GivenType
<1>3. /\ cleared \in Threads /\ cleared.system = t.system
      /\ cleared.anchor = t.anchor \/ cleared.anchor.type = "create"
  <2>1. Create(FALSE) \in Anchors /\ Create(FALSE).type = "create"
    BY DEF Create, NeverThreaded, Anchors, AnchorTypes, Fields
  <2>2. <<>> \in Seq(Entry)
    OBVIOUS
  <2> HIDE DEF extends
  <2> QED
    BY <2>1, <2>2 DEF Threads
<1> HIDE DEF cleared, Recorded
<1>4. Len(cleared.stored) \in Nat
  BY <1>3 DEF Threads
<1>5. new \in Seq(Message)
  <2> DEFINE n == Len(cleared.stored)
  <2>1. n \in Nat
    BY <1>4
  <2> HIDE DEF n
  <2>2. SubSeq(messages, n + 1, Len(messages)) \in Seq(Message)
    BY <2>1
  <2> QED
    BY <2>2 DEF n
<1> HIDE DEF new
<1>6. kept \in Seq(Message)
  BY <1>5, KeptType
<1> HIDE DEF kept
<1>7. \A i \in 1..Len(kept) : Recorded(kept[i]) \in Entry
  BY <1>2, <1>6
<1>8. es \in Seq(Entry)
  BY <1>6, <1>7
<1> HIDE DEF es
<1> QED
  BY <1>1, <1>3, <1>8, StagedType

\* beginTurn() moves a cut-off turn back to what is staged, and only when nothing else is.
LEMMA RetryType ==
  ASSUME NEW t \in Threads
  PROVE /\ RetryPartialTurn(t) \in Threads
        /\ RetryPartialTurn(t).anchor = t.anchor /\ RetryPartialTurn(t).system = t.system
        /\ t.staged # <<>> => RetryPartialTurn(t) = t
<1> DEFINE tail == Last(t.stored)
    kept == IF tail.kind = "partial" THEN Front(t.stored) ELSE t.stored
    replies == {i \in DOMAIN kept : IsReply(kept[i])}
    start == IF replies = {} THEN 0 ELSE Max(replies)
    back == [t EXCEPT !.stored = SubSeq(kept, 1, start), !.staged = SubSeq(kept, start + 1, Len(kept))]
<1>1. RetryPartialTurn(t) = IF t.staged # <<>> \/ t.stored = <<>> THEN t ELSE IF tail.kind = "whole" THEN t ELSE back
  BY DEF RetryPartialTurn
<1>2. CASE t.stored = <<>>
  BY <1>1, <1>2
<1>3. CASE t.stored # <<>>
  <2>1. t.stored \in Seq(Entry) /\ Len(t.stored) >= 1
    BY <1>3 DEF Threads
  <2>2. kept \in Seq(Entry)
    <3>1. Front(t.stored) \in Seq(Entry)
      BY <2>1 DEF Front
    <3> QED
      BY <2>1, <3>1
  <2> HIDE DEF kept
  <2>3. start \in 0..Len(kept)
    <3>1. replies \subseteq 1..Len(kept) /\ Len(kept) \in Nat
      BY <2>2
    <3> HIDE DEF replies
    <3>2. CASE replies = {}
      BY <3>1, <3>2
    <3>3. CASE replies # {}
      <4>1. Max(replies) \in replies
        BY <3>1, <3>3, MaxOfPlaces
      <4>2. Max(replies) \in 1..Len(kept)
        BY <3>1, <4>1
      <4>3. start = Max(replies)
        BY <3>3
      <4> QED
        BY <3>1, <4>2, <4>3
    <3> QED
      BY <3>2, <3>3
  <2> HIDE DEF start
  <2>4. SubSeq(kept, 1, start) \in Seq(Entry) /\ SubSeq(kept, start + 1, Len(kept)) \in Seq(Entry)
    BY <2>2, <2>3
  <2>5. back \in Threads /\ back.anchor = t.anchor /\ back.system = t.system
    BY <2>4 DEF Threads
  <2> HIDE DEF back
  <2> QED
    BY <1>1, <2>5
<1> QED
  BY <1>2, <1>3

LEMMA SetupType ==
  ASSUME Typed
  PROVE /\ setup.turns \in Nat /\ setup.says \in Nat /\ setup.continues \in BOOLEAN
        /\ TurnNumber \in Nat /\ Reply(TurnNumber) \in Message /\ Cut(TurnNumber) \in Message
        /\ NextUser \in Message
<1>1. setup \in Setups0
  BY DEF Typed, Budget
<1>2. setup.turns \in Nat /\ setup.says \in Nat /\ setup.continues \in BOOLEAN
  BY <1>1 DEF Setups0
<1>3. left.turns \in Nat /\ left.says \in Nat /\ left.turns <= setup.turns /\ left.says <= setup.says
  BY DEF Typed, Budget, Lefts
<1>4. TurnNumber \in Nat /\ setup.says - left.says + 1 \in Nat
  BY <1>2, <1>3 DEF TurnNumber
<1> QED
  BY <1>2, <1>4 DEF Message, Reply, Cut, User, NextUser

LEMMA SpendType ==
  ASSUME Typed, NEW what \in {"turns", "says", "edits", "faults"}, Spend(what), UNCHANGED setup
  PROVE Budget'
BY SetupType DEF Typed, Budget, Spend, Lefts

LEMMA LeftKept ==
  ASSUME Typed, UNCHANGED <<setup, left>>
  PROVE Budget'
BY DEF Typed, Budget

\* A turn that ends leaves the anchor it is given, or asks for a new thread.
LEMMA EndTurnType ==
  ASSUME NEW t \in Threads, NEW tn \in Turns, tn.own \in Nat, EndTurn(t, tn)
  PROVE thread' \in Threads /\ (thread'.anchor = t.anchor \/ thread'.anchor.type = "create")
<1> DEFINE back == [t EXCEPT !.staged = SubSeq(@, 1, Len(@) - tn.own)]
    rewritten == IF tn.rewrite = None THEN back ELSE SetMessages(back, tn.rewrite)
<1>1. thread' = Push(rewritten, tn.deferred)
  BY DEF EndTurn
<1>2. back \in Threads /\ back.anchor = t.anchor
  <2>1. t.staged \in Seq(Entry)
    BY DEF Threads
  <2>2. SubSeq(t.staged, 1, Len(t.staged) - tn.own) \in Seq(Entry)
    BY <2>1
  <2>3. back = [t EXCEPT !.staged = SubSeq(t.staged, 1, Len(t.staged) - tn.own)]
    BY DEF Threads
  <2> HIDE DEF back
  <2> QED
    BY <2>2, <2>3, StagedType
<1> HIDE DEF back
<1>3. rewritten \in Threads /\ (rewritten.anchor = t.anchor \/ rewritten.anchor.type = "create")
  <2>1. tn.rewrite # None => tn.rewrite \in Seq(Message)
    BY DEF Turns
  <2> QED
    BY <1>2, <2>1, SetMessagesType
<1> HIDE DEF rewritten
<1>4. tn.deferred \in Seq(Items)
  BY DEF Turns
<1> QED
  BY <1>1, <1>3, <1>4, PushAdds

LEMMA AnchorChoices ==
  /\ \A b \in BOOLEAN : Create(b) \in Anchors /\ Create(b).type = "create"
  /\ Unthreaded \in Anchors /\ Unthreaded.type = "unthreaded"
  /\ \A n \in Nat, s \in Fields, b \in BOOLEAN :
       /\ Continue(n, s, b) \in Anchors
       /\ Continue(n, s, b).type = "continue" /\ Continue(n, s, b).id = n /\ Continue(n, s, b).createdWith = s
BY DEF Create, Unthreaded, Continue, NeverThreaded, Anchors, AnchorTypes, Fields

LEMMA AnchoredType ==
  ASSUME NEW t \in Threads, NEW a \in Anchors
  PROVE /\ [t EXCEPT !.anchor = a] \in Threads
        /\ [t EXCEPT !.anchor = a].anchor = a
        /\ [t EXCEPT !.anchor = a].staged = t.staged
        /\ [t EXCEPT !.anchor = a].stored = t.stored
        /\ [t EXCEPT !.anchor = a].system = t.system
BY DEF Threads

\* #startNewThreadIfContinuing(): nothing is continued any more.
LEMMA NewThreadType ==
  ASSUME NEW t \in Threads
  PROVE /\ StartNewThreadIfContinuing(t) \in Threads
        /\ StartNewThreadIfContinuing(t).anchor.type # "continue"
BY AnchorChoices, AnchoredType DEF StartNewThreadIfContinuing, StartNewThread

LEMMA StoreTurnType ==
  ASSUME NEW t \in Threads, NEW es \in Seq(Entry)
  PROVE StoreTurn(t, es) \in Threads /\ StoreTurn(t, es).anchor = t.anchor /\ StoreTurn(t, es).system = t.system
<1>1. t.stored \in Seq(Entry) /\ t.staged \in Seq(Entry)
  BY DEF Threads
<1>2. t.stored \o t.staged \o es \in Seq(Entry) /\ <<>> \in Seq(Entry)
  BY <1>1
<1> DEFINE all == t.stored \o t.staged \o es
<1>3. StoreTurn(t, es) = [t EXCEPT !.stored = all, !.staged = <<>>]
  BY DEF StoreTurn, Threads
<1>4. all \in Seq(Entry)
  BY <1>2
<1> HIDE DEF all
<1> QED
  BY <1>2, <1>3, <1>4 DEF Threads

\* A turn that was cut off is never continued.
LEMMA RecordPartialType ==
  ASSUME Typed, NEW t \in Threads, NEW req \in Requests
  PROVE /\ RecordPartialReply(t, req) \in Threads
        /\ RecordPartialReply(t, req).anchor.type # "continue"
<1> DEFINE es == IF req.phase = "started" THEN <<>> ELSE <<[msg |-> Cut(TurnNumber), kind |-> "partial"]>>
<1>1. es \in Seq(Entry)
  <2>1. [msg |-> Cut(TurnNumber), kind |-> "partial"] \in Entry
    BY SetupType DEF Entry
  <2> DEFINE e == [msg |-> Cut(TurnNumber), kind |-> "partial"]
  <2> HIDE DEF e
  <2>2. <<e>> \in Seq(Entry)
    BY <2>1 DEF e
  <2> QED
    BY <2>2 DEF e
<1>2. RecordPartialReply(t, req) =
        IF DropsRefusedTurn(t, req.refusal) THEN StartNewThreadIfContinuing(t)
        ELSE StartNewThreadIfContinuing(StoreTurn(t, es))
  BY DEF RecordPartialReply
<1> HIDE DEF es
<1> QED
  BY <1>1, <1>2, StoreTurnType, NewThreadType

\* A turn that was answered is continued only when the model itself answered, and then from that very answer.
LEMMA RecordReplyType ==
  ASSUME Typed, NEW t \in Threads, NEW tn \in Turns, NEW refusal \in BOOLEAN, NEW byFallback \in BOOLEAN,
         tn.override \in Fields, tn.system \in Systems
  PROVE /\ RecordReply(t, tn, refusal, byFallback) \in Threads
        /\ RecordReply(t, tn, refusal, byFallback).anchor.type = "continue" =>
             /\ ~byFallback /\ Threading(t)
             /\ RecordReply(t, tn, refusal, byFallback).anchor.id = TurnNumber
             /\ RecordReply(t, tn, refusal, byFallback).anchor.createdWith = tn.system
<1> DEFINE reply == [msg |-> Reply(TurnNumber), kind |-> "whole"]
    held == StoreTurn(t, <<reply>>)
    creates == t.anchor.type = "create"
    system == IF creates /\ tn.override # None THEN tn.override ELSE held.system
    anchor == IF ~Threading(t) THEN held.anchor ELSE IF byFallback THEN Create(FALSE)
              ELSE Continue(TurnNumber, tn.system, creates /\ t.anchor.replacesLost)
    u == RecordReply(t, tn, refusal, byFallback)
<1>1. held \in Threads /\ held.anchor = t.anchor
  <2>1. reply \in Entry
    BY SetupType DEF Entry
  <2> HIDE DEF reply
  <2>2. <<reply>> \in Seq(Entry)
    BY <2>1
  <2> QED
    BY <2>2, StoreTurnType
<1>2. u = IF DropsRefusedTurn(t, refusal) THEN StartNewThreadIfContinuing(t)
          ELSE [held EXCEPT !.system = system, !.anchor = anchor]
  BY <1>1 DEF RecordReply, Threads
<1> HIDE DEF held
<1>3. system \in Systems
  BY <1>1 DEF Threads, Fields
<1>4. /\ anchor \in Anchors
      /\ anchor.type = "continue" =>
           ~byFallback /\ Threading(t) /\ anchor.id = TurnNumber /\ anchor.createdWith = tn.system
  <2>1. CASE ~Threading(t)
    BY <1>1, <2>1 DEF Threads, Threading
  <2>2. CASE Threading(t) /\ byFallback
    BY <2>2, AnchorChoices
  <2>3. CASE Threading(t) /\ ~byFallback
    <3> DEFINE b == creates /\ t.anchor.replacesLost
    <3>1. b \in BOOLEAN
      OBVIOUS
    <3>2. TurnNumber \in Nat /\ tn.system \in Fields
      BY SetupType DEF Fields
    <3>3. anchor = Continue(TurnNumber, tn.system, b)
      BY <2>3
    <3> HIDE DEF b, anchor
    <3> QED
      BY <2>3, <3>1, <3>2, <3>3, AnchorChoices
  <2> QED
    BY <2>1, <2>2, <2>3
<1> HIDE DEF system, anchor
<1>5. CASE DropsRefusedTurn(t, refusal)
  BY <1>2, <1>5, NewThreadType
<1>6. CASE ~DropsRefusedTurn(t, refusal)
  <2>1. u \in Threads /\ u.anchor = anchor
    BY <1>1, <1>2, <1>3, <1>4, <1>6 DEF Threads
  <2> QED
    BY <2>1, <1>4
<1> QED
  BY <1>5, <1>6

\* The state adjusted to a rejection has the same messages and continues nothing.
LEMMA RecoveredType ==
  ASSUME NEW t \in Threads, NEW code
  PROVE /\ Recovered(t, code) \in Threads
        /\ Recovered(t, code) # t =>
             Recovered(t, code).staged = t.staged /\ Recovered(t, code).anchor.type \in {"create", "unthreaded"}
<1> DEFINE lost == code = "thread_not_found"
<1>1. lost \in BOOLEAN
  OBVIOUS
<1>2. \/ Recovered(t, code) = t
      \/ Recovered(t, code) = [t EXCEPT !.anchor = Unthreaded]
      \/ Recovered(t, code) = [t EXCEPT !.anchor = Create(lost)]
  BY DEF Recovered, StartNewThread
<1> HIDE DEF lost
<1>3. Create(lost) \in Anchors /\ Create(lost).type = "create"
  BY <1>1, AnchorChoices
<1>4. Unthreaded \in Anchors /\ Unthreaded.type = "unthreaded"
  BY AnchorChoices
<1>5. /\ [t EXCEPT !.anchor = Unthreaded] \in Threads
      /\ [t EXCEPT !.anchor = Unthreaded].staged = t.staged /\ [t EXCEPT !.anchor = Unthreaded].anchor = Unthreaded
  BY <1>4, AnchoredType
<1>6. /\ [t EXCEPT !.anchor = Create(lost)] \in Threads
      /\ [t EXCEPT !.anchor = Create(lost)].staged = t.staged
      /\ [t EXCEPT !.anchor = Create(lost)].anchor = Create(lost)
  BY <1>3, AnchoredType
<1>7. CASE Recovered(t, code) = [t EXCEPT !.anchor = Unthreaded]
  BY <1>4, <1>5, <1>7
<1>8. CASE Recovered(t, code) = [t EXCEPT !.anchor = Create(lost)]
  BY <1>3, <1>6, <1>8
<1> QED
  BY <1>2, <1>7, <1>8

(***************************************************************************)
(* Requests and the server.                                                *)
(***************************************************************************)
LEMMA RequestType ==
  ASSUME NEW t \in Threads, NEW tn \in Turns, tn.system \in Systems
  PROVE /\ CreateArguments(t, tn) \in Requests
        /\ CreateArguments(t, tn).phase = "sent"
        /\ CreateArguments(t, tn).anchor = t.anchor.type
        /\ CreateArguments(t, tn).prev = t.anchor.id
        /\ CreateArguments(t, tn).system = IF t.anchor.type = "continue" THEN None ELSE tn.system
<1> DEFINE es == IF t.anchor.type = "continue" THEN t.staged ELSE AllEntries(t)
    sends == Msgs(es)
    system == IF t.anchor.type = "continue" THEN None ELSE tn.system
<1>1. sends \in Seq(Message)
  <2>1. es \in Seq(Entry)
    BY AllEntriesType DEF Threads
  <2> HIDE DEF es
  <2> QED
    BY <2>1, MsgsType
<1>2. CreateArguments(t, tn) = [NoRequest EXCEPT !.phase = "sent", !.anchor = t.anchor.type, !.prev = t.anchor.id,
                                                 !.sends = sends, !.system = system]
  BY DEF CreateArguments
<1>3. t.anchor.type \in AnchorTypes /\ t.anchor.id \in Nat /\ system \in Fields
  BY DEF Threads, Anchors, Fields
<1> HIDE DEF sends, es
<1>4. CreateArguments(t, tn) = [phase |-> "sent", anchor |-> t.anchor.type, prev |-> t.anchor.id, sends |-> sends,
                                system |-> system, refusal |-> FALSE]
  BY <1>2 DEF NoRequest
<1> HIDE DEF system
<1>5. CreateArguments(t, tn) \in Requests
  BY <1>1, <1>3, <1>4 DEF Requests
<1>6. CreateArguments(t, tn).system = system
  BY <1>4
<1> QED
  BY <1>4, <1>5, <1>6 DEF system

LEMMA NothingInFlight ==
  NoTurn \in Turns /\ NoRequest \in Requests /\ NoRequest.phase = "none" /\ NoTurn.own = -1
<1>1. NoTurn \in Turns /\ NoTurn.own = -1
  BY DEF NoTurn, Turns, Fields
<1>2. NoRequest \in Requests /\ NoRequest.phase = "none"
  BY DEF NoRequest, Requests, Fields, AnchorTypes
<1> QED
  BY <1>1, <1>2

\* A request that was given up on changes at most whether its thread can be continued.
LEMMA AbandonedType ==
  ASSUME Typed, server' \in Abandoned
  PROVE server' \in Servers /\ server'.id = server.id /\ server'.system = server.system
BY DEF Typed, Abandoned, Servers

\* The server answers a request under the fields of its turn.
LEMMA AnswersHold ==
  ASSUME ThreadInv
  PROVE AnswersUnderItsSystem
BY DEF ThreadInv, AnswersUnderItsSystem, ThreadIsStored, RequestIsAnchored, SystemOf

\* What the server stores is the reply of this turn under its fields.
LEMMA StoresType ==
  ASSUME ThreadInv, InTurn, NEW byFallback \in BOOLEAN, StoresReply(byFallback)
  PROVE /\ server' \in Servers
        /\ Threading(thread) /\ ~byFallback => server'.id = TurnNumber /\ server'.system = turn.system
<1>1. CASE request.anchor \in {"create", "continue"} /\ ~byFallback
  <2>1. SystemOf(request) = turn.system /\ turn.system \in Fields
    BY AnswersHold DEF AnswersUnderItsSystem, ThreadInv, TurnBooks, Fields
  <2>2. TurnNumber \in Nat /\ Reply(TurnNumber) \in Message
    BY SetupType DEF ThreadInv
  <2>3. request.sends \in Seq(Message) /\ server.context \in Seq(Message)
    BY DEF ThreadInv, Typed, Requests, Servers
  <2>4. Append(Context(request), Reply(TurnNumber)) \in Seq(Message)
    BY <2>2, <2>3 DEF Context
  <2> DEFINE context == Append(Context(request), Reply(TurnNumber))
  <2>5. server' = [id |-> TurnNumber, context |-> context, system |-> SystemOf(request), status |-> "free"]
    BY <1>1 DEF StoresReply
  <2> HIDE DEF context
  <2>6. context \in Seq(Message)
    BY <2>4 DEF context
  <2> QED
    BY <2>1, <2>2, <2>5, <2>6 DEF Servers
<1>2. CASE ~(request.anchor \in {"create", "continue"} /\ ~byFallback)
  <2>1. request.anchor = thread.anchor.type
    BY DEF ThreadInv, RequestIsAnchored
  <2>2. server' \in Abandoned
    BY <1>2 DEF StoresReply
  <2> QED
    BY <1>2, <2>1, <2>2, AbandonedType DEF Threading, ThreadInv
<1> QED
  BY <1>1, <1>2

\* Nothing is in flight after a turn; it is enough that what its thread would continue is what the server stored.
LEMMA EndedKeeps ==
  ASSUME ThreadInv, InTurn, NEW t \in Threads, Ended(t), server' \in Servers, Budget',
         t.anchor.type = "continue" => server'.id = t.anchor.id /\ server'.system = t.anchor.createdWith
  PROVE ThreadInv'
<1>1. turn \in Turns /\ turn.own \in Nat
  BY DEF ThreadInv, Typed, TurnBooks
<1>2. thread' \in Threads /\ (thread'.anchor = t.anchor \/ thread'.anchor.type = "create")
  BY <1>1, EndTurnType DEF Ended
<1>3. turn' = NoTurn /\ request' = NoRequest
  BY DEF Ended
<1>4. Typed'
  BY <1>2, <1>3, NothingInFlight DEF Typed
<1>5. ~InTurn'
  BY <1>3 DEF InTurn
<1>6. TurnBooks' /\ RequestIsAnchored'
  BY <1>3, <1>5 DEF TurnBooks, RequestIsAnchored
<1>7. ThreadIsStored'
  BY <1>2 DEF ThreadIsStored
<1> QED
  BY <1>4, <1>6, <1>7 DEF ThreadInv

(***************************************************************************)
(* The caller's steps.                                                     *)
(***************************************************************************)
\* Nothing that the invariant relates to the turn has changed, beside what is staged while no turn takes it back.
LEMMA EditKeeps ==
  ASSUME ThreadInv, thread' \in Threads, turn' \in Turns, UNCHANGED <<request, server>>, Budget',
         thread'.anchor = thread.anchor \/ (~InTurn /\ thread'.anchor.type = "create"),
         InTurn => thread'.staged = thread.staged,
         turn'.own = turn.own, turn'.system = turn.system, ~InTurn => turn' = turn
  PROVE ThreadInv'
<1>1. Typed'
  BY DEF ThreadInv, Typed
<1>2. InTurn' <=> InTurn
  <2>1. CASE InTurn
    <3>1. turn.own \in Nat
      BY <2>1 DEF ThreadInv, Typed, TurnBooks
    <3>2. turn' # NoTurn
      BY <3>1, NothingInFlight
    <3> QED
      BY <2>1, <3>2 DEF InTurn
  <2>2. CASE ~InTurn
    BY <2>2 DEF InTurn
  <2> QED
    BY <2>1, <2>2
<1>3. TurnBooks'
  BY <1>2 DEF ThreadInv, TurnBooks
<1>4. ThreadIsStored'
  BY DEF ThreadInv, ThreadIsStored
<1>5. RequestIsAnchored'
  BY <1>2 DEF ThreadInv, RequestIsAnchored
<1> QED
  BY <1>1, <1>3, <1>4, <1>5 DEF ThreadInv

LEMMA HandKeeps ==
  ASSUME ThreadInv, NEW item \in Items, Hand(item), UNCHANGED <<request, server>>, Budget'
  PROVE ThreadInv'
<1>1. thread \in Threads /\ turn \in Turns
  BY DEF ThreadInv, Typed
<1>2. CASE InTurn
  <2>1. turn.deferred \in Seq(Items)
    BY <1>1 DEF Turns
  <2>2. Append(turn.deferred, item) \in Seq(Items)
    BY <2>1
  <2>3. turn' = [turn EXCEPT !.deferred = Append(turn.deferred, item)] /\ thread' = thread
    BY <1>1, <1>2 DEF Hand
  <2>4. turn' \in Turns /\ turn'.own = turn.own /\ turn'.system = turn.system
    BY <1>1, <2>2, <2>3 DEF Turns
  <2> QED
    BY <1>1, <1>2, <2>3, <2>4, EditKeeps
<1>3. CASE ~InTurn
  <2> DEFINE items == <<item>>
  <2>1. items \in Seq(Items)
    OBVIOUS
  <2>2. thread' = Push(thread, items) /\ turn' = turn
    BY <1>3 DEF Hand
  <2> HIDE DEF items
  <2>3. thread' \in Threads /\ thread'.anchor = thread.anchor
    BY <1>1, <2>1, <2>2, PushAdds
  <2> QED
    BY <1>1, <1>3, <2>2, <2>3, EditKeeps
<1> QED
  BY <1>2, <1>3

LEMMA AppendNewKeeps ==
  ASSUME ThreadInv, AppendNew
  PROVE ThreadInv'
<1>1. Budget'
  BY SpendType DEF ThreadInv, AppendNew
<1>2. Item(NextUser) \in Items
  BY SetupType DEF ThreadInv, Item, Items
<1> QED
  BY <1>1, <1>2, HandKeeps DEF AppendNew

LEMMA AppendReplyKeeps ==
  ASSUME ThreadInv, NEW received \in BOOLEAN, AppendReply(received)
  PROVE ThreadInv'
<1>1. Budget'
  BY SpendType DEF ThreadInv, AppendReply
<1> DEFINE entries == AllEntries(thread)
    replies == {i \in DOMAIN entries : IsReply(entries[i])}
    last == entries[Max(replies)]
    item == [msg |-> last.msg, received |-> received]
<1>2. Hand(item)
  BY DEF AppendReply
<1>3. entries \in Seq(Entry)
  BY AllEntriesType DEF ThreadInv, Typed
<1>4. replies # {}
  BY DEF AppendReply, LastReplyNumber
<1>5. Max(replies) \in DOMAIN entries
  <2>1. replies \subseteq 1..Len(entries) /\ Len(entries) \in Nat
    BY <1>3
  <2>2. Max(replies) \in replies
    BY <1>4, <2>1, MaxOfPlaces
  <2> QED
    BY <2>2
<1> HIDE DEF entries, replies
<1>6. last \in Entry
  BY <1>3, <1>5
<1> HIDE DEF last
<1>7. item \in Items
  BY <1>6 DEF Entry, Items
<1> HIDE DEF item
<1> QED
  BY <1>1, <1>2, <1>7, HandKeeps DEF AppendReply

LEMMA UpdateKeeps ==
  ASSUME ThreadInv, NEW s \in Systems, Update(s)
  PROVE ThreadInv'
<1>1. Budget'
  BY SpendType DEF ThreadInv, Update
<1>2. thread \in Threads /\ turn \in Turns
  BY DEF ThreadInv, Typed
<1>3. thread' \in Threads /\ thread'.anchor = thread.anchor /\ thread'.staged = thread.staged
  BY <1>2 DEF Update, Threads
<1>4. turn' \in Turns /\ turn'.own = turn.own /\ turn'.system = turn.system
  BY <1>2 DEF Update, Turns, Fields
<1>5. ~InTurn => turn' = turn
  BY DEF Update, InTurn, NoTurn
<1> QED
  BY <1>1, <1>3, <1>4, <1>5, EditKeeps DEF Update

\* An edit of the turn in flight waits in the turn.
LEMMA DeferType ==
  ASSUME NEW t \in Threads, NEW tn \in Turns, NEW messages \in Seq(Message)
  PROVE /\ DeferMessages(t, tn, messages) \in Turns
        /\ DeferMessages(t, tn, messages).own = tn.own
        /\ DeferMessages(t, tn, messages).system = tn.system
<1> DEFINE sent == Msgs(AllEntries(t))
    added == SubSeq(messages, Len(sent) + 1, Len(messages))
    items == [i \in DOMAIN added |-> Item(added[i])]
<1>1. DeferMessages(t, tn, messages) =
        IF IsPrefix(sent, messages) THEN [tn EXCEPT !.rewrite = None, !.deferred = items]
        ELSE [tn EXCEPT !.rewrite = messages, !.deferred = <<>>]
  BY DEF DeferMessages
<1>2. sent \in Seq(Message)
  BY AllEntriesType, MsgsType
<1> HIDE DEF sent
<1>3. added \in Seq(Message)
  <2> DEFINE n == Len(sent)
  <2>1. n \in Nat
    BY <1>2
  <2> HIDE DEF n
  <2>2. SubSeq(messages, n + 1, Len(messages)) \in Seq(Message)
    BY <2>1
  <2> QED
    BY <2>2 DEF n
<1> HIDE DEF added
<1>4. ASSUME NEW i \in 1..Len(added)
      PROVE Item(added[i]) \in Items
  <2>1. added[i] \in Message
    BY <1>3
  <2> QED
    BY <2>1 DEF Item, Items
<1>5. items \in Seq(Items)
  BY <1>3, <1>4
<1> HIDE DEF items
<1>6. <<>> \in Seq(Items)
  OBVIOUS
<1> QED
  BY <1>1, <1>5, <1>6 DEF Turns

LEMMA MessagesType ==
  ASSUME Typed
  PROVE Messages \in Seq(Message)
<1>1. turn.deferred \in Seq(Items) /\ (turn.rewrite # None => turn.rewrite \in Seq(Message))
  BY DEF Typed, Turns
<1>2. Msgs(AllEntries(thread)) \in Seq(Message)
  BY AllEntriesType, MsgsType DEF Typed
<1>3. Msgs(turn.deferred) \in Seq(Message)
  BY <1>1, ItemMsgsType
<1> QED
  BY <1>1, <1>2, <1>3 DEF Messages

LEMMA SetParamsKeeps ==
  ASSUME ThreadInv, NEW messages \in Seq(Message), SetParams(messages)
  PROVE ThreadInv'
<1>1. Budget'
  BY SpendType DEF ThreadInv, SetParams
<1>2. thread \in Threads /\ turn \in Turns
  BY DEF ThreadInv, Typed
<1> DEFINE t == [thread EXCEPT !.system = ParamsSystem]
    tn == [turn EXCEPT !.override = None]
<1>3. t \in Threads /\ t.anchor = thread.anchor /\ t.staged = thread.staged
  <2>1. ParamsSystem \in Systems
    BY <1>2 DEF ParamsSystem, Threads, Turns, Fields
  <2> QED
    BY <1>2, <2>1 DEF Threads
<1>4. tn \in Turns /\ tn.own = turn.own /\ tn.system = turn.system
  BY <1>2 DEF Turns, Fields
<1>5. IF InTurn THEN thread' = t /\ turn' = DeferMessages(t, tn, messages)
      ELSE thread' = SetMessages(t, messages) /\ UNCHANGED turn
  BY DEF SetParams
<1> HIDE DEF t, tn
<1>6. CASE InTurn
  <2>1. turn' \in Turns /\ turn'.own = turn.own /\ turn'.system = turn.system
    BY <1>3, <1>4, <1>5, <1>6, DeferType
  <2> QED
    BY <1>1, <1>3, <1>5, <1>6, <2>1, EditKeeps DEF SetParams
<1>7. CASE ~InTurn
  <2>1. thread' \in Threads /\ (thread'.anchor = thread.anchor \/ thread'.anchor.type = "create")
    BY <1>3, <1>5, <1>7, SetMessagesType
  <2> QED
    BY <1>1, <1>2, <1>5, <1>7, <2>1, EditKeeps DEF SetParams
<1> QED
  BY <1>6, <1>7

\* A call sends under its own fields, or is refused before it is sent and leaves no turn.
LEMMA CallKeeps ==
  ASSUME ThreadInv, NEW items \in Seq(Items), NEW override \in Fields, Call(items, override), Budget'
  PROVE ThreadInv'
<1> DEFINE pushed == Push(thread, items)
    begun == RetryPartialTurn(pushed)
    tn == [NoTurn EXCEPT !.own = Len(pushed.staged) - Len(thread.staged), !.override = override,
                         !.system = IF override # None THEN override ELSE thread.system]
<1>1. thread \in Threads /\ turn = NoTurn /\ request = NoRequest
  BY DEF ThreadInv, Typed, TurnBooks, Call, InTurn
<1>2. /\ pushed \in Threads /\ pushed.anchor = thread.anchor
      /\ Len(pushed.staged) \in Nat /\ Len(thread.staged) \in Nat /\ Len(pushed.staged) >= Len(thread.staged)
  <2>1. pushed \in Threads /\ pushed.anchor = thread.anchor /\ Len(pushed.staged) >= Len(thread.staged)
    BY <1>1, PushAdds
  <2> HIDE DEF pushed
  <2>2. pushed.staged \in Seq(Entry) /\ thread.staged \in Seq(Entry)
    BY <1>1, <2>1 DEF Threads
  <2> QED
    BY <2>1, <2>2
<1>3. IF ChangesCreateOnly(begun, tn) THEN EndTurn(begun, tn) /\ UNCHANGED <<turn, request>>
      ELSE thread' = begun /\ turn' = tn /\ request' = CreateArguments(begun, tn)
  BY DEF Call
<1> HIDE DEF pushed
<1>4. begun \in Threads /\ begun.anchor = thread.anchor /\ (pushed.staged # <<>> => begun = pushed)
  BY <1>2, RetryType
<1> HIDE DEF begun
<1>5. /\ tn \in Turns /\ tn.own \in Nat /\ tn.own \in 0..Len(pushed.staged) /\ tn.system \in Systems
      /\ tn.own = Len(pushed.staged) - Len(thread.staged)
  <2> DEFINE n == Len(pushed.staged) - Len(thread.staged)
      system == IF override # None THEN override ELSE thread.system
  <2>1. n \in Nat /\ n \in 0..Len(pushed.staged) /\ n \in Int
    <3> DEFINE a == Len(pushed.staged)
        b == Len(thread.staged)
    <3>1. a \in Nat /\ b \in Nat /\ a >= b
      BY <1>2
    <3> HIDE DEF a, b
    <3>2. a - b \in Nat /\ a - b \in 0..a /\ a - b \in Int
      BY <3>1
    <3> QED
      BY <3>2 DEF a, b
  <2>2. system \in Systems
    BY <1>1 DEF Threads, Fields
  <2>3. tn = [own |-> n, system |-> system, override |-> override, deferred |-> <<>>, rewrite |-> None]
    <3>1. tn = [NoTurn EXCEPT !.own = n, !.override = override, !.system = system]
      OBVIOUS
    <3> HIDE DEF n, system, tn
    <3> QED
      BY <3>1 DEF NoTurn
  <2> HIDE DEF n, system, tn
  <2>4. tn \in Turns
    <3>1. <<>> \in Seq(Items) /\ system \in Fields
      BY <2>2 DEF Fields
    <3> QED
      BY <2>1, <2>3, <3>1 DEF Turns
  <2> QED
    BY <2>1, <2>2, <2>3, <2>4 DEF n
<1> HIDE DEF tn
<1>6. CASE ChangesCreateOnly(begun, tn)
  <2>1. thread' \in Threads /\ (thread'.anchor = thread.anchor \/ thread'.anchor.type = "create")
    BY <1>3, <1>4, <1>5, <1>6, EndTurnType
  <2> QED
    BY <1>1, <1>3, <1>6, <2>1, NothingInFlight, EditKeeps DEF Call, InTurn
<1>7. CASE ~ChangesCreateOnly(begun, tn)
  <2>1. thread' = begun /\ turn' = tn /\ request' = CreateArguments(begun, tn) /\ server' = server
    BY <1>3, <1>7 DEF Call
  <2>2. Typed'
    BY <1>4, <1>5, <2>1, RequestType DEF ThreadInv, Typed
  <2>3. InTurn'
    <3>1. tn # NoTurn
      <4>1. tn.own \in Nat /\ NoTurn.own = -1
        BY <1>5, NothingInFlight
      <4> QED
        BY <4>1
    <3> QED
      BY <2>1, <3>1 DEF InTurn
  <2>4. turn'.own \in 0..Len(thread'.staged)
    <3>1. CASE pushed.staged = <<>>
      <4>1. tn.own = 0
        BY <1>5, <3>1
      <4>2. Len(begun.staged) \in Nat
        <5>1. begun.staged \in Seq(Entry)
          BY <1>4 DEF Threads
        <5> QED
          BY <5>1
      <4> QED
        BY <2>1, <4>1, <4>2
    <3>2. CASE pushed.staged # <<>>
      BY <1>4, <1>5, <2>1, <3>2
    <3> QED
      BY <3>1, <3>2
  <2>5. TurnBooks'
    <3>1. request'.phase = "sent"
      BY <1>4, <1>5, <2>1, RequestType
    <3> QED
      BY <1>5, <2>1, <2>3, <2>4, <3>1 DEF TurnBooks
  <2>6. ThreadIsStored'
    BY <1>4, <2>1 DEF ThreadInv, ThreadIsStored
  <2>7. RequestIsAnchored'
    <3>1. /\ request'.anchor = thread'.anchor.type /\ request'.prev = thread'.anchor.id
          /\ request'.system = IF thread'.anchor.type = "continue" THEN None ELSE turn'.system
      BY <1>4, <1>5, <2>1, RequestType
    <3>2. thread'.anchor.type = "continue" => turn'.system = thread'.anchor.createdWith
      BY <1>7, <2>1 DEF ChangesCreateOnly
    <3> QED
      BY <3>1, <3>2 DEF RequestIsAnchored
  <2> QED
    BY <2>2, <2>5, <2>6, <2>7 DEF ThreadInv
<1> QED
  BY <1>6, <1>7

LEMMA SendKeeps ==
  ASSUME ThreadInv, NEW new \in BOOLEAN, NEW override \in Fields, Send(new, override)
  PROVE ThreadInv'
<1> DEFINE cost == [turns |-> 1, says |-> IF new THEN 1 ELSE 0, edits |-> IF override = None THEN 0 ELSE 1, faults |-> 0]
    items == IF new THEN <<Item(NextUser)>> ELSE <<>>
<1>1. /\ \A k \in DOMAIN left : left[k] >= cost[k]
      /\ left' = [k \in DOMAIN left |-> left[k] - cost[k]]
      /\ Call(items, override)
  BY DEF Send
<1>2. cost \in Lefts
  BY DEF Lefts
<1>3. items \in Seq(Items)
  <2> DEFINE item == Item(NextUser)
  <2>1. item \in Items
    BY SetupType DEF ThreadInv, Item, Items
  <2> HIDE DEF item
  <2>2. <<item>> \in Seq(Items) /\ <<>> \in Seq(Items)
    BY <2>1
  <2> QED
    BY <2>2 DEF item
<1> HIDE DEF cost, items
<1>4. left \in Lefts /\ setup' = setup
  BY <1>1 DEF ThreadInv, Typed, Budget, Call
<1>5. /\ left.turns - cost.turns \in Nat /\ left.says - cost.says \in Nat
      /\ left.edits - cost.edits \in Nat /\ left.faults - cost.faults \in Nat
      /\ cost.turns \in Nat /\ cost.says \in Nat
  BY <1>1, <1>2, <1>4 DEF Lefts
<1>6. left' = [turns |-> left.turns - cost.turns, says |-> left.says - cost.says,
               edits |-> left.edits - cost.edits, faults |-> left.faults - cost.faults]
  BY <1>1, <1>4 DEF Lefts
<1>7. left' \in Lefts
  BY <1>5, <1>6 DEF Lefts
<1>8. left.turns \in Nat /\ left.says \in Nat /\ left.turns <= setup.turns /\ left.says <= setup.says
  BY DEF ThreadInv, Typed, Budget, Lefts
<1>9. left'.turns <= setup'.turns /\ left'.says <= setup'.says
  <2>1. setup.turns \in Nat /\ setup.says \in Nat
    BY SetupType DEF ThreadInv
  <2> QED
    BY <1>4, <1>5, <1>6, <1>8, <2>1
<1>10. Budget'
  BY <1>4, <1>7, <1>9 DEF ThreadInv, Typed, Budget
<1> QED
  BY <1>1, <1>3, <1>10, CallKeeps

(***************************************************************************)
(* The steps of the turn in flight and of the server.                      *)
(***************************************************************************)
LEMMA OddType ==
  ASSUME Typed, NEW it \in BOOLEAN, Odd(it), UNCHANGED setup
  PROVE Budget'
BY SpendType, LeftKept DEF Odd

LEMMA SentIsInTurn ==
  ASSUME ThreadInv, request.phase # "none"
  PROVE InTurn /\ turn \in Turns /\ turn.system \in Systems
BY NothingInFlight DEF ThreadInv, Typed, TurnBooks

LEMMA AnswerKeeps ==
  ASSUME ThreadInv, InTurn, NEW refusal \in BOOLEAN, NEW byFallback \in BOOLEAN, Answer(refusal, byFallback), Budget'
  PROVE ThreadInv'
<1> DEFINE t == RecordReply(thread, turn, refusal, byFallback)
<1>1. Ended(t) /\ StoresReply(byFallback)
  BY DEF Answer
<1>2. thread \in Threads /\ turn \in Turns /\ turn.system \in Systems /\ turn.override \in Fields
  BY DEF ThreadInv, Typed, TurnBooks, Turns
<1>3. /\ t \in Threads
      /\ t.anchor.type = "continue" =>
           ~byFallback /\ Threading(thread) /\ t.anchor.id = TurnNumber /\ t.anchor.createdWith = turn.system
  BY <1>2, RecordReplyType DEF ThreadInv
<1> HIDE DEF t
<1>4. /\ server' \in Servers
      /\ Threading(thread) /\ ~byFallback => server'.id = TurnNumber /\ server'.system = turn.system
  BY <1>1, StoresType
<1> QED
  BY <1>1, <1>3, <1>4, EndedKeeps

LEMMA SendAnsweredKeeps ==
  ASSUME ThreadInv, NEW refusal \in BOOLEAN, NEW byFallback \in BOOLEAN, SendAnswered(refusal, byFallback)
  PROVE ThreadInv'
<1> DEFINE odd == refusal \/ byFallback
<1>1. odd \in BOOLEAN /\ Odd(odd) /\ UNCHANGED setup
  BY DEF SendAnswered, Answer
<1> HIDE DEF odd
<1>2. Budget'
  BY <1>1, OddType DEF ThreadInv
<1>3. InTurn
  BY SentIsInTurn DEF SendAnswered
<1> QED
  BY <1>2, <1>3, AnswerKeeps DEF SendAnswered

LEMMA StreamStoppedKeeps ==
  ASSUME ThreadInv, NEW byFallback \in BOOLEAN, StreamStopped(byFallback)
  PROVE ThreadInv'
<1>1. Budget'
  BY OddType DEF ThreadInv, StreamStopped, Answer
<1>2. InTurn
  BY SentIsInTurn DEF StreamStopped
<1>3. request.refusal \in BOOLEAN
  BY DEF ThreadInv, Typed, Requests
<1> QED
  BY <1>1, <1>2, <1>3, AnswerKeeps DEF StreamStopped

\* The stream has come further, and nothing else of the request has changed.
LEMMA StreamEventKeeps ==
  ASSUME ThreadInv, StreamEvent
  PROVE ThreadInv'
<1>1. request \in Requests
  BY DEF ThreadInv, Typed
<1> DEFINE Further ==
      /\ request' \in Requests /\ request'.phase # "none" /\ request.phase # "none"
      /\ request'.anchor = request.anchor /\ request'.prev = request.prev /\ request'.system = request.system
<1>2. Further /\ Budget'
  <2>1. CASE request.phase = "sent" /\ request' = [request EXCEPT !.phase = "started"] /\ UNCHANGED left
    BY <1>1, <2>1, LeftKept DEF Requests, ThreadInv, StreamEvent
  <2>2. CASE request.phase = "started" /\ request' = [request EXCEPT !.phase = "content"] /\ UNCHANGED left
    BY <1>1, <2>2, LeftKept DEF Requests, ThreadInv, StreamEvent
  <2>3. ASSUME request.phase = "content", NEW refusal \in BOOLEAN,
               request' = [request EXCEPT !.phase = "stopping", !.refusal = refusal], Odd(refusal)
        PROVE Further /\ Budget'
    <3>1. Budget'
      BY <2>3, OddType DEF ThreadInv, StreamEvent
    <3> QED
      BY <1>1, <2>3, <3>1 DEF Requests
  <2> HIDE DEF Further
  <2> QED
    BY <2>1, <2>2, <2>3 DEF StreamEvent
<1>3. InTurn
  BY <1>2, SentIsInTurn
<1>4. UNCHANGED <<thread, turn, server, setup>>
  BY DEF StreamEvent
<1>5. Typed'
  BY <1>2, <1>4 DEF ThreadInv, Typed
<1>6. TurnBooks' /\ ThreadIsStored' /\ RequestIsAnchored'
  BY <1>2, <1>3, <1>4 DEF ThreadInv, TurnBooks, ThreadIsStored, RequestIsAnchored, InTurn
<1> QED
  BY <1>5, <1>6 DEF ThreadInv

LEMMA BreakKeeps ==
  ASSUME ThreadInv, Break
  PROVE ThreadInv'
<1> DEFINE t == IF request.phase = "sent" THEN thread ELSE RecordPartialReply(thread, request)
<1>1. InTurn /\ Ended(t) /\ server' \in Abandoned
  BY DEF Break
<1>2. Budget'
  BY SpendType DEF ThreadInv, Break
<1>3. server' \in Servers /\ server'.id = server.id /\ server'.system = server.system
  BY <1>1, AbandonedType DEF ThreadInv
<1>4. /\ t \in Threads
      /\ t.anchor.type = "continue" => server.id = t.anchor.id /\ server.system = t.anchor.createdWith
  BY RecordPartialType DEF ThreadInv, Typed, ThreadIsStored
<1> HIDE DEF t
<1> QED
  BY <1>1, <1>2, <1>3, <1>4, EndedKeeps

\* A step of the server that leaves its last reply alone.
LEMMA ServerKeeps ==
  ASSUME ThreadInv, UNCHANGED <<thread, turn, request>>, Budget',
         server' \in Servers, server'.id = server.id, server'.system = server.system
  PROVE ThreadInv'
<1>1. Typed'
  BY DEF ThreadInv, Typed
<1>2. TurnBooks' /\ ThreadIsStored' /\ RequestIsAnchored'
  BY DEF ThreadInv, TurnBooks, ThreadIsStored, RequestIsAnchored, InTurn
<1> QED
  BY <1>1, <1>2 DEF ThreadInv

LEMMA RetransmitKeeps ==
  ASSUME ThreadInv, Retransmit
  PROVE ThreadInv'
<1>1. Budget'
  BY SpendType DEF ThreadInv, Retransmit
<1> QED
  BY <1>1, AbandonedType, ServerKeeps DEF Retransmit, ThreadInv

LEMMA LoseThreadKeeps ==
  ASSUME ThreadInv, LoseThread
  PROVE ThreadInv'
<1>1. Budget'
  BY SpendType DEF ThreadInv, LoseThread
<1>2. server' \in Servers /\ server'.id = server.id /\ server'.system = server.system
  BY DEF ThreadInv, Typed, LoseThread, Servers
<1> QED
  BY <1>1, <1>2, ServerKeeps DEF LoseThread

LEMMA AbandonedEndsKeeps ==
  ASSUME ThreadInv, AbandonedEnds
  PROVE ThreadInv'
<1>1. Budget'
  BY LeftKept DEF ThreadInv, AbandonedEnds
<1>2. server' \in Servers /\ server'.id = server.id /\ server'.system = server.system
  BY DEF ThreadInv, Typed, AbandonedEnds, Servers
<1> QED
  BY <1>1, <1>2, ServerKeeps DEF AbandonedEnds

\* A rejected turn is sent again from the adjusted state, or has failed.
LEMMA RejectedKeeps ==
  ASSUME ThreadInv, InTurn, NEW code, Rejected(code), Budget'
  PROVE ThreadInv'
<1> DEFINE adjusted == Recovered(thread, code)
<1>1. thread \in Threads /\ turn \in Turns /\ turn.system \in Systems /\ server \in Servers
  BY DEF ThreadInv, Typed, TurnBooks
<1>2. /\ adjusted \in Threads
      /\ adjusted # thread =>
           adjusted.staged = thread.staged /\ adjusted.anchor.type \in {"create", "unthreaded"}
  BY <1>1, RecoveredType
<1>3. /\ IF adjusted # thread
         THEN thread' = adjusted /\ UNCHANGED turn /\ request' = CreateArguments(adjusted, turn)
         ELSE Ended(thread)
      /\ UNCHANGED <<server, setup>>
  BY DEF Rejected
<1> HIDE DEF adjusted
<1>4. CASE adjusted # thread
  <2>1. /\ request' \in Requests /\ request'.phase = "sent"
        /\ request'.anchor = thread'.anchor.type /\ request'.prev = thread'.anchor.id
        /\ request'.system = turn'.system
    BY <1>1, <1>2, <1>3, <1>4, RequestType
  <2>2. Typed'
    BY <1>1, <1>2, <1>3, <1>4, <2>1 DEF Typed
  <2>3. InTurn'
    BY <1>3, <1>4 DEF InTurn
  <2>4. TurnBooks'
    BY <1>2, <1>3, <1>4, <2>1, <2>3 DEF ThreadInv, TurnBooks
  <2>5. ThreadIsStored' /\ RequestIsAnchored'
    BY <1>2, <1>3, <1>4, <2>1 DEF ThreadIsStored, RequestIsAnchored
  <2> QED
    BY <2>2, <2>4, <2>5 DEF ThreadInv
<1>5. CASE adjusted = thread
  BY <1>1, <1>3, <1>5, EndedKeeps DEF ThreadInv, ThreadIsStored
<1> QED
  BY <1>4, <1>5

LEMMA RejectContinueKeeps ==
  ASSUME ThreadInv, RejectContinue
  PROVE ThreadInv'
<1>1. InTurn
  BY SentIsInTurn DEF RejectContinue
<1>2. PICK code \in {"thread_not_found", "thread_already_continued", "thread_continue_in_flight"} : Rejected(code)
  BY DEF RejectContinue
<1>3. Budget'
  BY <1>2, LeftKept DEF ThreadInv, RejectContinue, Rejected
<1> QED
  BY <1>1, <1>2, <1>3, RejectedKeeps

LEMMA RejectUnsupportedKeeps ==
  ASSUME ThreadInv, RejectUnsupported
  PROVE ThreadInv'
<1>1. InTurn
  BY SentIsInTurn DEF RejectUnsupported
<1>2. Budget'
  BY SpendType DEF ThreadInv, RejectUnsupported, Rejected
<1> QED
  BY <1>1, <1>2, RejectedKeeps DEF RejectUnsupported

(***************************************************************************)
(* The invariant.                                                          *)
(***************************************************************************)
LEMMA InitInv == Init => ThreadInv
<1> SUFFICES ASSUME Init
             PROVE ThreadInv
  OBVIOUS
<1>1. setup \in Setups0
  BY DEF Init
<1>2. Budget
  BY <1>1 DEF Init, Setups0, Budget, Lefts
<1>3. thread \in Threads /\ thread.anchor.type # "continue"
  <2>1. Create(FALSE) \in Anchors /\ Create(FALSE).type = "create"
    BY AnchorChoices
  <2>2. NeverThreaded \in Anchors /\ NeverThreaded.type = "never_threaded"
    BY DEF NeverThreaded, Anchors, AnchorTypes, Fields
  <2> DEFINE a == IF setup.threaded THEN Create(FALSE) ELSE NeverThreaded
  <2>3. a \in Anchors /\ a.type # "continue"
    BY <2>1, <2>2
  <2>4. thread = [stored |-> <<>>, staged |-> <<>>, system |-> Default, anchor |-> a]
    BY DEF Init
  <2> HIDE DEF a
  <2> QED
    BY <2>3, <2>4 DEF Threads
<1>4. server \in Servers
  BY DEF Init, NoServer, Servers, Fields
<1>5. turn = NoTurn /\ request = NoRequest
  BY DEF Init
<1>6. Typed
  BY <1>2, <1>3, <1>4, <1>5, NothingInFlight DEF Typed
<1> QED
  BY <1>3, <1>5, <1>6 DEF ThreadInv, TurnBooks, ThreadIsStored, RequestIsAnchored, InTurn

LEMMA StepInv == ThreadInv /\ [Next]_vars => ThreadInv'
<1> SUFFICES ASSUME ThreadInv, [Next]_vars
             PROVE ThreadInv'
  OBVIOUS
<1>1. CASE Caller
  <2>1. CASE AppendNew
    BY <2>1, AppendNewKeeps
  <2>2. ASSUME NEW received \in BOOLEAN, AppendReply(received)
        PROVE ThreadInv'
    BY <2>2, AppendReplyKeeps
  <2>3. ASSUME NEW s \in Systems, Update(s)
        PROVE ThreadInv'
    BY <2>3, UpdateKeeps
  <2>4. ASSUME Messages # <<>>, SetParams(Front(Messages)) \/ SetParams(Tail(Messages))
        PROVE ThreadInv'
    <3>1. Front(Messages) \in Seq(Message) /\ Tail(Messages) \in Seq(Message)
      <4>1. Messages \in Seq(Message) /\ Messages # <<>>
        BY <2>4, MessagesType DEF ThreadInv
      <4> QED
        BY <4>1 DEF Front
    <3> QED
      BY <2>4, <3>1, SetParamsKeeps
  <2>5. ASSUME NEW new \in BOOLEAN, NEW override \in Systems \cup {None}, Send(new, override)
        PROVE ThreadInv'
    BY <2>5, SendKeeps DEF Fields
  <2> QED
    BY <1>1, <2>1, <2>2, <2>3, <2>4, <2>5 DEF Caller
<1>2. CASE Served
  <2>1. ASSUME NEW refusal \in BOOLEAN, NEW byFallback \in BOOLEAN, SendAnswered(refusal, byFallback)
        PROVE ThreadInv'
    BY <2>1, SendAnsweredKeeps
  <2>2. ASSUME NEW byFallback \in BOOLEAN, StreamStopped(byFallback)
        PROVE ThreadInv'
    BY <2>2, StreamStoppedKeeps
  <2> QED
    BY <1>2, <2>1, <2>2, StreamEventKeeps, RejectContinueKeeps DEF Served
<1>3. CASE Faults
  BY <1>3, BreakKeeps, RetransmitKeeps, RejectUnsupportedKeeps, LoseThreadKeeps, AbandonedEndsKeeps DEF Faults
<1>4. CASE UNCHANGED vars
  <2>1. Budget'
    BY <1>4, LeftKept DEF ThreadInv, vars
  <2>2. server \in Servers
    BY DEF ThreadInv, Typed
  <2> QED
    BY <1>4, <2>1, <2>2, ServerKeeps DEF vars
<1> QED
  BY <1>1, <1>2, <1>3, <1>4 DEF Next

\* The inductive invariant: what is on its way was made from the thread's anchor, and an anchor to continue
\* from names the last reply that the server stored and the create-only fields it was created with.
THEOREM TheAnchorIsTheServers == Spec => []ThreadInv
  BY InitInv, StepInv, PTL DEF Spec

\* The thread's history, the turn in flight and its request keep their types through every edit, rejection
\* and cut-off stream, and a turn never takes back more messages than are staged.
THEOREM TypeCorrectness == Spec => []TypeOK
<1>1. ThreadInv => TypeOK
  <2> SUFFICES ASSUME ThreadInv
               PROVE TypeOK
    OBVIOUS
  <2>1. /\ thread.stored \in Seq(Entry) /\ thread.staged \in Seq(Entry) /\ thread.system \in Systems
        /\ thread.anchor.type \in {"never_threaded", "unthreaded", "create", "continue"}
    BY DEF ThreadInv, Typed, Threads, Anchors, AnchorTypes
  <2>2. request.phase \in {"none", "sent", "started", "content", "stopping"}
    BY DEF ThreadInv, Typed, Requests
  <2>3. server.status \in {"free", "busy", "continued", "gone"}
    BY DEF ThreadInv, Typed, Servers
  <2>4. Len(thread.staged) \in Nat
    BY <2>1
  <2>5. CASE InTurn
    <3>1. turn.own \in -1..Len(thread.staged) /\ request.phase # "none"
      BY <2>4, <2>5 DEF ThreadInv, TurnBooks
    <3>2. InTurn = (request.phase # "none")
      BY <2>5, <3>1 DEF InTurn
    <3> QED
      BY <2>1, <2>2, <2>3, <3>1, <3>2 DEF TypeOK
  <2>6. CASE ~InTurn
    <3>1. turn.own = -1 /\ request.phase = "none"
      BY <2>6, NothingInFlight DEF ThreadInv, TurnBooks, InTurn
    <3>2. turn.own \in -1..Len(thread.staged)
      BY <2>4, <3>1
    <3>3. InTurn = (request.phase # "none")
      BY <2>6, <3>1 DEF InTurn
    <3> QED
      BY <2>1, <2>2, <2>3, <3>2, <3>3 DEF TypeOK
  <2> QED
    BY <2>5, <2>6
<1> QED
  BY <1>1, TheAnchorIsTheServers, PTL

\* A continuation sends no create-only fields (ThreadState.ts #createArguments): whatever was overridden,
\* rejected, retried or edited on the way, the model answers under those that the call was made with.
THEOREM CallsAreAnsweredUnderTheirSystem == Spec => []AnswersUnderItsSystem
<1>1. ThreadInv => AnswersUnderItsSystem
  BY AnswersHold
<1> QED
  BY <1>1, TheAnchorIsTheServers, PTL
===============================================================================
