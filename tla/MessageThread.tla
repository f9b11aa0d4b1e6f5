----------------------------- MODULE MessageThread -----------------------------
(***************************************************************************)
(* A conversation the server holds between turns: ThreadState              *)
(* (src/lib/internal/threads/ThreadState.ts) under BetaMessageThread       *)
(* (src/lib/threads/BetaMessageThread.ts).  A turn sends the whole history *)
(* under a new thread, or only what is new after a reply the server holds, *)
(* or, once threading has stopped, everything and no thread.  A rejected   *)
(* turn is adjusted and sent again; a turn that fails, is refused, or is   *)
(* cut off while it streams decides what of it stays in the history; and   *)
(* what the caller does meanwhile waits until the turn has ended.          *)
(*                                                                         *)
(* The server and the network are external.  The server answers a reply's  *)
(* continuation once, forgets threads, and may or may not have stored a    *)
(* turn whose answer never arrived (src/resources/messages/messages.ts     *)
(* 150-170, 227-232).  `system` stands for the two create-only fields.     *)
(***************************************************************************)
EXTENDS Integers, SequencesExt, Subsequence

CONSTANTS
  Systems,   \* values of the create-only fields
  Default,   \* the value a thread is created with
  None,      \* no override, no rewritten history
  Setups     \* how a thread may be set up, and how much may happen to it

\* `threaded`: the client has threads; `continues`: unsupportedRequestBehavior is 'continue_unthreaded'; `streamed`: turns are
\* streams; the numbers bound the turns, the caller's new messages, its other edits, and the faults and odd replies.
Setups0 == [threaded : BOOLEAN, continues : BOOLEAN, streamed : BOOLEAN, turns : Nat, says : Nat, edits : Nat, faults : Nat]

ASSUME ThreadAssumption ==
  /\ Default \in Systems /\ None \notin Systems
  /\ Setups \subseteq Setups0

VARIABLES
  thread,    \* ThreadState: stored and staged entries, anchor, system
  turn,      \* the Turn in flight, or NoTurn
  request,   \* what that turn last sent, and how far its answer has come
  server,    \* the last reply the server stored: what a turn can continue from
  setup, left

vars == <<thread, turn, request, server, setup, left>>

(***************************************************************************)
(* Messages and entries of the history.                                    *)
(***************************************************************************)
Message == [by : {"user", "reply", "cut"}, n : Nat]
User(n) == [by |-> "user", n |-> n]
Reply(n) == [by |-> "reply", n |-> n]
Cut(n) == [by |-> "cut", n |-> n]      \* what is kept of a reply that was cut off

\* `kind`: "given" by the caller, or received: "whole", "partial".
Entry == [msg : Message, kind : {"given", "whole", "partial"}]
Given(m) == [msg |-> m, kind |-> "given"]
IsReply(e) == e.kind # "given"
Msgs(entries) == [i \in DOMAIN entries |-> entries[i].msg]
AllEntries(t) == t.stored \o t.staged

\* An item the caller hands over: `received` when it is the reply object itself, which has an id.
Item(m) == [msg |-> m, received |-> FALSE]

NeverThreaded == [type |-> "never_threaded", id |-> 0, createdWith |-> None, replacesLost |-> FALSE]
Unthreaded == [NeverThreaded EXCEPT !.type = "unthreaded"]
Create(replacesLost) == [NeverThreaded EXCEPT !.type = "create", !.replacesLost = replacesLost]
Continue(n, system, replacesLost) ==
  [type |-> "continue", id |-> n, createdWith |-> system, replacesLost |-> replacesLost]
Threading(t) == t.anchor.type \in {"create", "continue"}

NoTurn == [own |-> -1, system |-> None, override |-> None, deferred |-> <<>>, rewrite |-> None]
NoRequest == [phase |-> "none", anchor |-> "none", prev |-> 0, sends |-> <<>>, system |-> None,
              refusal |-> FALSE]
InTurn == turn # NoTurn
TurnNumber == setup.turns - left.turns
Spend(what) == left[what] > 0 /\ left' = [left EXCEPT ![what] = @ - 1]

(***************************************************************************)
(* The operations of ThreadState, from state to state.                     *)
(***************************************************************************)
LastReplyNumber(entries) ==
  LET replies == {i \in DOMAIN entries : IsReply(entries[i])}
  IN IF replies = {} THEN 0 ELSE entries[Max(replies)].msg.n

\* Whether the item is the reply just recorded, pushed again right after it.
RepeatsLastReply(t, item) ==
  LET entries == AllEntries(t)
  IN IF item.received THEN item.msg.n = LastReplyNumber(entries)
     ELSE entries # <<>> /\ IsReply(Last(entries)) /\ Last(entries).msg = item.msg

\* One after another: a reply's own object is known anywhere, a copy of it only right after it.
Push(t, items) ==
  LET Repeats(i) == RepeatsLastReply(t, items[i]) /\ (items[i].received \/ \A j \in 1..i - 1 : RepeatsLastReply(t, items[j]))
      new == Kept(items, {i \in DOMAIN items : ~Repeats(i)})
  IN [t EXCEPT !.staged = @ \o [i \in DOMAIN new |-> Given(new[i].msg)]]

SetMessages(t, messages) ==
  LET extends == IsPrefix(Msgs(t.stored), messages)
      cleared == IF extends THEN [t EXCEPT !.staged = <<>>]
                 ELSE [t EXCEPT !.stored = <<>>, !.staged = <<>>,
                                !.anchor = IF Threading(t) THEN Create(FALSE) ELSE @]
      new == SubSeq(messages, Len(cleared.stored) + 1, Len(messages))
      \* A message that is a recorded reply keeps that record.
      Recorded(m) == LET is == {e \in Range(AllEntries(t)) : IsReply(e) /\ e.msg = m}
                     IN IF is = {} THEN Given(m) ELSE CHOOSE e \in is : TRUE
      Repeats(i) == IF i = 1 THEN RepeatsLastReply(cleared, Item(new[1]))
                    ELSE new[i - 1] = new[i] /\ IsReply(Recorded(new[i]))
      kept == Kept(new, {i \in DOMAIN new : ~Repeats(i)})
  IN [cleared EXCEPT !.staged = [i \in DOMAIN kept |-> Recorded(kept[i])]]

\* Nothing staged, and the history ends in a turn whose stream was cut off: its messages go out again, without what was kept of the reply.
RetryPartialTurn(t) ==
  LET tail == Last(t.stored)
      kept == IF tail.kind = "partial" THEN Front(t.stored) ELSE t.stored
      replies == {i \in DOMAIN kept : IsReply(kept[i])}
      start == IF replies = {} THEN 0 ELSE Max(replies)
  IN IF t.staged # <<>> \/ t.stored = <<>> THEN t
     ELSE IF tail.kind = "whole" THEN t
     ELSE [t EXCEPT !.stored = SubSeq(kept, 1, start), !.staged = SubSeq(kept, start + 1, Len(kept))]

StartNewThread(t, lost) == [t EXCEPT !.anchor = Create(lost)]
StartNewThreadIfContinuing(t) == IF t.anchor.type = "continue" THEN StartNewThread(t, FALSE) ELSE t
StoreTurn(t, reply) == [t EXCEPT !.stored = @ \o t.staged \o reply, !.staged = <<>>]
DropsRefusedTurn(t, refusal) == refusal /\ t.anchor.type # "never_threaded"

RecordPartialReply(t, req) ==
  IF DropsRefusedTurn(t, req.refusal) THEN StartNewThreadIfContinuing(t)
  ELSE StartNewThreadIfContinuing(
         StoreTurn(t, IF req.phase = "started" THEN <<>> ELSE <<[msg |-> Cut(TurnNumber), kind |-> "partial"]>>))

RecordReply(t, tn, refusal, byFallback) ==
  LET held == StoreTurn(t, <<[msg |-> Reply(TurnNumber), kind |-> "whole"]>>)
      creates == t.anchor.type = "create"
  IN IF DropsRefusedTurn(t, refusal) THEN StartNewThreadIfContinuing(t)
     ELSE [held EXCEPT
             !.system = IF creates /\ tn.override # None THEN tn.override ELSE @,
             !.anchor = IF ~Threading(t) THEN @
                        ELSE IF byFallback THEN Create(FALSE)
                        ELSE Continue(TurnNumber, tn.system, creates /\ t.anchor.replacesLost)]

\* The turn takes back what its call staged, unless a reply to it has started; then the deferred edits apply.
\* (Each state on the way is bound, so that TLC computes it once.)
EndTurn(t, tn) ==
  \E back \in {[t EXCEPT !.staged = SubSeq(@, 1, Len(@) - tn.own)]} :
    \E rewritten \in {IF tn.rewrite = None THEN back ELSE SetMessages(back, tn.rewrite)} :
      thread' = Push(rewritten, tn.deferred)

\* Variant: a rewritten history keeps what was deferred before it.
DeferKeepsDeferred(t, tn, messages) ==
  LET sent == Msgs(AllEntries(t))
      added == SubSeq(messages, Len(sent) + 1, Len(messages))
  IN IF IsPrefix(sent, messages)
     THEN [tn EXCEPT !.rewrite = None, !.deferred = [i \in DOMAIN added |-> Item(added[i])]]
     ELSE [tn EXCEPT !.rewrite = messages]

\* The turn that `messages` edits is in flight: an edit that only appends is deferred, any other replaces the history later.
DeferMessages(t, tn, messages) ==
  LET sent == Msgs(AllEntries(t))
      added == SubSeq(messages, Len(sent) + 1, Len(messages))
  IN IF IsPrefix(sent, messages)
     THEN [tn EXCEPT !.rewrite = None, !.deferred = [i \in DOMAIN added |-> Item(added[i])]]
     ELSE [tn EXCEPT !.rewrite = messages, !.deferred = <<>>]

\* `messages`: the history as the caller sees it.
Messages == (IF turn.rewrite # None THEN turn.rewrite ELSE Msgs(AllEntries(thread))) \o Msgs(turn.deferred)
\* `params.system`
ParamsSystem ==
  IF thread.anchor.type = "create" /\ turn.override # None THEN turn.override ELSE thread.system

(***************************************************************************)
(* Requests.                                                               *)
(***************************************************************************)
\* Variant: the create-only fields of a continuation are not compared.
ChangesNothing(t, tn) == FALSE

\* A turn that would continue a thread under other create-only fields is refused before it is sent.
ChangesCreateOnly(t, tn) == t.anchor.type = "continue" /\ tn.system # t.anchor.createdWith

CreateArguments(t, tn) ==
  [NoRequest EXCEPT
     !.phase = "sent", !.anchor = t.anchor.type, !.prev = t.anchor.id,
     !.sends = Msgs(IF t.anchor.type = "continue" THEN t.staged ELSE AllEntries(t)),
     !.system = IF t.anchor.type = "continue" THEN None ELSE tn.system]

\* What the model is given to answer, and under which system.
Context(r) == IF r.anchor = "continue" THEN server.context \o r.sends ELSE r.sends
SystemOf(r) == IF r.anchor = "continue" THEN server.system ELSE r.system

NoServer == [id |-> 0, context |-> <<>>, system |-> None, status |-> "gone"]

\* The request was given up on: the server may have continued its thread, may still do so, or never saw it.
Abandoned ==
  IF request.anchor = "continue" /\ server.id = request.prev /\ server.status = "free"
  THEN {[server EXCEPT !.status = s] : s \in {"free", "busy", "continued"}}
  ELSE {server}

\* A reply that a fallback model wrote is not stored.
StoresReply(byFallback) ==
  IF request.anchor \in {"create", "continue"} /\ ~byFallback
  THEN server' = [id |-> TurnNumber, context |-> Append(Context(request), Reply(TurnNumber)),
                  system |-> SystemOf(request), status |-> "free"]
  ELSE server' \in Abandoned

Servable == request.anchor = "continue" => server.id = request.prev /\ server.status = "free"

(***************************************************************************)
(* The caller.                                                             *)
(***************************************************************************)
Init ==
  /\ setup \in Setups
  /\ left = [turns |-> setup.turns, says |-> setup.says, edits |-> setup.edits, faults |-> setup.faults]
  /\ thread = [stored |-> <<>>, staged |-> <<>>, system |-> Default,
               anchor |-> IF setup.threaded THEN Create(FALSE) ELSE NeverThreaded]
  /\ turn = NoTurn /\ request = NoRequest /\ server = NoServer

NextUser == User(setup.says - left.says + 1)

Hand(item) ==
  IF InTurn THEN turn' = [turn EXCEPT !.deferred = Append(@, item)] /\ UNCHANGED thread
  ELSE thread' = Push(thread, <<item>>) /\ UNCHANGED turn

\* append()
AppendNew == Spend("says") /\ Hand(Item(NextUser)) /\ UNCHANGED <<request, server, setup>>

\* append(reply), of the last reply: as received, or its role and content
AppendReply(received) ==
  /\ Spend("edits") /\ LastReplyNumber(AllEntries(thread)) # 0
  /\ LET entries == AllEntries(thread)
         last == entries[Max({i \in DOMAIN entries : IsReply(entries[i])})]
     IN Hand([msg |-> last.msg, received |-> received])
  /\ UNCHANGED <<request, server, setup>>

\* update({system})
Update(s) ==
  /\ Spend("edits")
  /\ thread' = [thread EXCEPT !.system = s]
  /\ turn' = [turn EXCEPT !.override = None]
  /\ UNCHANGED <<request, server, setup>>

\* setParams({...params, messages}), as a tool runner's setMessagesParams() does.
SetParams(messages) ==
  /\ Spend("edits")
  /\ LET t == [thread EXCEPT !.system = ParamsSystem]
     IN IF InTurn THEN thread' = t /\ turn' = DeferMessages(t, [turn EXCEPT !.override = None], messages)
        ELSE thread' = SetMessages(t, messages) /\ UNCHANGED turn
  /\ UNCHANGED <<request, server, setup>>

\* Variant: a turn that is refused before it is sent stays in flight.
CallRefusedStaysInFlight(items, override) ==
  /\ ~InTurn
  /\ LET pushed == Push(thread, items)
         begun == RetryPartialTurn(pushed)
         tn == [NoTurn EXCEPT !.own = Len(pushed.staged) - Len(thread.staged), !.override = override,
                              !.system = IF override # None THEN override ELSE thread.system]
     IN /\ thread' = begun /\ turn' = tn
        /\ request' = IF ChangesCreateOnly(begun, tn) THEN NoRequest ELSE CreateArguments(begun, tn)
  /\ UNCHANGED <<server, setup>>

\* send(), parse() or stream(), with messages of its own and create-only fields for this turn.  A call during a turn throws and changes nothing.
Call(items, override) ==
  /\ ~InTurn
  /\ LET pushed == Push(thread, items)
         begun == RetryPartialTurn(pushed)
         tn == [NoTurn EXCEPT !.own = Len(pushed.staged) - Len(thread.staged), !.override = override,
                              !.system = IF override # None THEN override ELSE thread.system]
     IN IF ChangesCreateOnly(begun, tn)
        THEN EndTurn(begun, tn) /\ UNCHANGED <<turn, request>>
        ELSE /\ thread' = begun /\ turn' = tn
             /\ request' = CreateArguments(begun, tn)
  /\ UNCHANGED <<server, setup>>

Send(new, override) ==
  LET cost == [turns |-> 1, says |-> IF new THEN 1 ELSE 0, edits |-> IF override = None THEN 0 ELSE 1, faults |-> 0]
  IN /\ \A k \in DOMAIN left : left[k] >= cost[k]
     /\ left' = [k \in DOMAIN left |-> left[k] - cost[k]]
     /\ Call(IF new THEN <<Item(NextUser)>> ELSE <<>>, override)

(***************************************************************************)
(* The turn in flight: answers, rejections, faults.                        *)
(***************************************************************************)
\* Variant: the thread stays taken.
EndedStaysTaken(t) == EndTurn(t, turn) /\ request' = NoRequest /\ UNCHANGED turn

Ended(t) == EndTurn(t, turn) /\ turn' = NoTurn /\ request' = NoRequest

\* Refusals and replies of a fallback model are counted with the faults.
Odd(it) == IF it THEN Spend("faults") ELSE UNCHANGED left

\* The whole reply of a send(), or the message_stop of a stream.
Answer(refusal, byFallback) ==
  /\ Ended(RecordReply(thread, turn, refusal, byFallback))
  /\ StoresReply(byFallback)
  /\ UNCHANGED setup

SendAnswered(refusal, byFallback) ==
  /\ request.phase = "sent" /\ ~setup.streamed /\ Servable
  /\ Odd(refusal \/ byFallback) /\ Answer(refusal, byFallback)

StreamStopped(byFallback) ==
  request.phase = "stopping" /\ Odd(byFallback) /\ Answer(request.refusal, byFallback)

\* message_start; content that is worth keeping; the message_delta that says how the reply ends.
StreamEvent ==
  /\ setup.streamed
  /\ \/ /\ request.phase = "sent" /\ Servable
        /\ request' = [request EXCEPT !.phase = "started"] /\ UNCHANGED left
     \/ request.phase = "started" /\ request' = [request EXCEPT !.phase = "content"] /\ UNCHANGED left
     \/ /\ request.phase = "content"
        /\ \E refusal \in BOOLEAN :
             request' = [request EXCEPT !.phase = "stopping", !.refusal = refusal] /\ Odd(refusal)
  /\ UNCHANGED <<thread, turn, server, setup>>

\* The turn fails: the caller aborts it or leaves its stream, it times out, the connection breaks, the server errs.
Break ==
  /\ InTurn /\ Spend("faults")
  /\ Ended(IF request.phase = "sent" THEN thread ELSE RecordPartialReply(thread, request))
  /\ server' \in Abandoned /\ UNCHANGED setup

\* The client's own retry: the same request again, although the server may have seen the first.
Retransmit ==
  /\ request.phase = "sent" /\ Spend("faults")
  /\ server' \in Abandoned
  /\ UNCHANGED <<thread, turn, request, setup>>

\* The state adjusted to a rejection; the same state when nothing can be adjusted.
Recovered(t, code) ==
  IF code # "unsupported" /\ t.anchor.type = "continue"
  THEN IF code = "thread_not_found" /\ t.anchor.replacesLost /\ setup.continues
       THEN [t EXCEPT !.anchor = Unthreaded]
       ELSE StartNewThread(t, code = "thread_not_found")
  ELSE IF code = "unsupported" /\ Threading(t) /\ setup.continues
  THEN [t EXCEPT !.anchor = Unthreaded]
  ELSE t

Rejected(code) ==
  /\ LET adjusted == Recovered(thread, code)
     IN IF adjusted # thread
        THEN /\ thread' = adjusted /\ UNCHANGED turn
             /\ request' = CreateArguments(adjusted, turn)
        ELSE Ended(thread)
  /\ UNCHANGED <<server, setup>>

RejectContinue ==
  /\ request.phase = "sent" /\ request.anchor = "continue" /\ UNCHANGED left
  /\ \/ (server.id # request.prev \/ server.status = "gone") /\ Rejected("thread_not_found")
     \/ server.id = request.prev /\ server.status = "continued" /\ Rejected("thread_already_continued")
     \/ server.id = request.prev /\ server.status = "busy" /\ Rejected("thread_continue_in_flight")

RejectUnsupported ==
  /\ request.phase = "sent" /\ request.anchor \in {"create", "continue"} /\ Spend("faults")
  /\ Rejected("unsupported")

\* The server forgets the thread, or finishes with a request the client gave up on.
LoseThread ==
  /\ server.status # "gone" /\ Spend("faults")
  /\ server' = [server EXCEPT !.status = "gone"]
  /\ UNCHANGED <<thread, turn, request, setup>>

AbandonedEnds ==
  /\ server.status = "busy"
  /\ \E s \in {"free", "continued"} : server' = [server EXCEPT !.status = s]
  /\ UNCHANGED <<thread, turn, request, setup, left>>

(***************************************************************************)
(* The specification.                                                      *)
(***************************************************************************)
Caller ==
  \/ AppendNew
  \/ \E received \in BOOLEAN : AppendReply(received)
  \/ \E s \in Systems : Update(s)
  \/ Messages # <<>> /\ (SetParams(Front(Messages)) \/ SetParams(Tail(Messages)))
  \/ \E new \in BOOLEAN, override \in Systems \cup {None} : Send(new, override)

\* What the server does with the request: an answer, or a rejection that its own state calls for.
Served ==
  \/ \E refusal, byFallback \in BOOLEAN : SendAnswered(refusal, byFallback)
  \/ \E byFallback \in BOOLEAN : StreamStopped(byFallback)
  \/ StreamEvent
  \/ RejectContinue

Faults == Break \/ Retransmit \/ RejectUnsupported \/ LoseThread \/ AbandonedEnds

Next == Caller \/ Served \/ Faults

\* Every request is answered in the end: fetch is bounded by the client's timeout, and the server ends its streams.
Spec == Init /\ [][Next]_vars /\ WF_vars(Served)

(***************************************************************************)
(* Properties.                                                             *)
(***************************************************************************)
TypeOK ==
  /\ thread.stored \in Seq(Entry) /\ thread.staged \in Seq(Entry)
  /\ thread.system \in Systems
  /\ thread.anchor.type \in {"never_threaded", "unthreaded", "create", "continue"}
  /\ turn.own \in -1..Len(thread.staged)
  /\ request.phase \in {"none", "sent", "started", "content", "stopping"}
  /\ InTurn = (request.phase # "none")
  /\ server.status \in {"free", "busy", "continued", "gone"}

\* The model answers under the create-only fields that the call was made with, although a continuation never sends them.
AnswersUnderItsSystem == InTurn => SystemOf(request) = turn.system

\* The thread is the conversation of the abstract specification: each question is the whole history the caller sees.
C == INSTANCE Conversation WITH
       history <- Messages,
       question <- IF InTurn THEN Context(request) ELSE None,
       asked <- IF InTurn THEN turn.own ELSE 0,
       rewritten <- turn.rewrite # None
IsConversation == C!Spec

\* A turn ends: recovery does not go round for ever and no rejection leaves the thread taken.
TurnsEnd == InTurn ~> ~InTurn
===============================================================================
