------------------------------- MODULE ToolLoop -------------------------------
(***************************************************************************)
(* BetaToolRunner (src/lib/tools/BetaToolRunner.ts): it sends a turn,      *)
(* hands the caller the reply, runs the calls the reply makes, puts their  *)
(* results behind it, and goes on until a reply makes no call.  Meanwhile  *)
(* the caller says more, takes the history over, holds calls, schedules a  *)
(* compaction, leaves; a stream breaks or is aborted; tools fail.          *)
(*                                                                         *)
(* The thread under the loop is the one that Conversation promises: a      *)
(* question is the whole history, and what is said meanwhile comes after   *)
(* the answer.  External: the model, the server, the tools.                *)
(***************************************************************************)
EXTENDS EagerCalls

CONSTANTS
  None,
  Setups    \* how the runner is set up, what the model may reply, and how much may happen

\* `mode`: stream false, stream true, or runToolsEagerly.  `turns` is max_iterations; the other numbers bound the caller's
\* messages, its calls of setMessagesParams(), deferToolCall() and compactBeforeNextTurn(), and the faults.
\* The server continues a turn that it paused: such a reply makes no call that the client would answer.
Replies ==
  {r \in [blocks : Seq(Blocks), stop : Stops] :
     r.stop = "resume" => \A i \in DOMAIN r.blocks : r.blocks[i] \notin {"tool", "member"}}
Setups0 ==
  [mode : {"whole", "stream", "eager"}, replies : SUBSET Replies, turns : Nat \ {0},
   says : Nat, takes : Nat, holds : Nat, compactions : Nat, readers : SUBSET Readers, faults : Nat]

Messages == [by : {"user", "reply", "cut", "results", "summary"}, n : Nat, asks : BOOLEAN]

ASSUME LoopAssumption == Setups \subseteq Setups0 /\ None \notin Seq(Messages)

VARIABLES
  loop,     \* where the loop is, and the runner's fields
  talk,     \* the thread: its history as the caller sees it, and the question in flight
  stream,   \* the last reply and its calls
  setup, left

vars == <<loop, talk, stream, setup, left>>

User(n) == [by |-> "user", n |-> n, asks |-> FALSE]
Reply(n, asks) == [by |-> "reply", n |-> n, asks |-> asks]
Cut(n) == [by |-> "cut", n |-> n, asks |-> FALSE]
Results(n) == [by |-> "results", n |-> n, asks |-> FALSE]
Summary == [by |-> "summary", n |-> 0, asks |-> FALSE]
Said(history) == {m.n : m \in {x \in Range(history) : x.by = "user"}}

Spend(what) == left[what] > 0 /\ left' = [left EXCEPT ![what] = @ - 1]
Eager == setup.mode = "eager"
Over0 == {"ended", "failed", "left"}

Init ==
  /\ setup \in Setups
  /\ left = [says |-> setup.says, takes |-> setup.takes, holds |-> setup.holds,
             compactions |-> setup.compactions, faults |-> setup.faults]
  /\ loop = [pc |-> "idle", mutated |-> FALSE, touched |-> FALSE, without |-> None, iterations |-> 0,
             compaction |-> "idle", final |-> FALSE, covers |-> 0, last |-> "none", awaits |-> {},
             response |-> "none", stray |-> FALSE]
  /\ talk = [history |-> <<>>, question |-> None, covered |-> {}, overridden |-> {}]
  /\ stream = NewStream(FALSE, [blocks |-> <<>>, stop |-> "stop"])

(***************************************************************************)
(* The thread, as Conversation has it.                                     *)
(***************************************************************************)
Ask == [talk EXCEPT !.question = talk.history]
\* What has become of the question, and then what was said since.
Settled(t, outcome) ==
  IF t.question = None THEN t
  ELSE [t EXCEPT !.history = outcome \o SubSeq(@, Len(t.question) + 1, Len(@)), !.question = None]
MakesCalls == CallsOf(stream) # {}
ThisReply == Reply(loop.iterations, MakesCalls)
Answered == Settled(talk, Append(talk.question, ThisReply))
\* The reply is kept as far as it came.
BrokenOff == Settled(talk, IF stream.emitted < 2 THEN talk.question ELSE Append(talk.question, Cut(loop.iterations)))

Compacting == loop.compaction = "in_flight"
OnThread == ~Compacting   \* the stream is that of a turn of the runner's own thread

(***************************************************************************)
(* The loop.                                                               *)
(***************************************************************************)
At(pc) == loop.pc = pc
Started == {i \in DOMAIN stream.calls : stream.calls[i].entry = "started"}
AwaitsOver == \A i \in loop.awaits : Over(stream.calls[i])
Finish(l) == [l EXCEPT !.pc = "ending", !.awaits = Started]
\* `#compact` up to its `#send`: what is said from here on is not summarized.
Compact(l, final) ==
  [l EXCEPT !.pc = "settle", !.compaction = "in_flight", !.final = final, !.response = "none",
            !.covers = Len(talk.history), !.awaits = Started]

Iterate == At("idle") /\ loop' = [loop EXCEPT !.pc = "top"] /\ UNCHANGED <<talk, stream, setup, left>>

Top ==
  /\ At("top")
  /\ loop' = IF loop.iterations = setup.turns THEN Finish(loop)
             ELSE IF loop.compaction = "scheduled" /\ loop.last # "resume" THEN Compact(loop, FALSE)
             ELSE [loop EXCEPT !.pc = "settle", !.mutated = FALSE, !.response = "none",
                               !.iterations = @ + 1, !.awaits = Started]
  /\ UNCHANGED <<talk, stream, setup, left>>

\* `#send`, after the calls started before have settled.
Send(reply) ==
  /\ At("settle") /\ AwaitsOver
  /\ stream' = NewStream(Eager /\ OnThread, reply)
  /\ talk' = IF OnThread THEN Ask ELSE talk
  /\ loop' = [loop EXCEPT !.pc = IF setup.mode = "whole" THEN "request" ELSE "body", !.touched = FALSE,
                          !.without = IF OnThread THEN talk.history ELSE None,
                          !.stray = \E i \in DOMAIN stream.calls : stream.calls[i].at \in {"queued", "running"}]
  /\ UNCHANGED <<setup, left>>

SendTurn == OnThread /\ \E reply \in setup.replies : Send(reply)
SendCompaction == Compacting /\ Send([blocks |-> <<>>, stop |-> "stop"])

\* A reply that is not streamed arrives whole.
WholeReply ==
  /\ At("request")
  /\ stream' = [stream EXCEPT !.end = "stopped"]
  /\ talk' = IF OnThread THEN Answered ELSE talk
  /\ loop' = [loop EXCEPT !.pc = "body"]
  /\ UNCHANGED <<setup, left>>

RequestFails ==
  /\ At("request") /\ Spend("faults")
  /\ talk' = IF OnThread THEN Settled(talk, talk.question) ELSE talk
  /\ loop' = [loop EXCEPT !.pc = "failed"]
  /\ UNCHANGED <<stream, setup>>

\* An event of the stream; the message_stop ends the thread's turn.  A listener may hold a call that it has seen.
StreamEvent ==
  /\ setup.mode # "whole" /\ stream.end = "open" /\ loop.pc \in {"body", "collect"}
  /\ \/ stream' = Deliver(stream) /\ UNCHANGED left
     \/ /\ Spend("holds")
        /\ \E i \in CallsOf(stream) : 2 * i <= stream.emitted + 1 /\ stream' = Deliver(Defer(stream, i))
  /\ talk' = IF OnThread /\ stream'.end = "stopped" THEN Answered ELSE talk
  /\ UNCHANGED <<loop, setup>>

Breaks(s) ==
  /\ stream' = s
  /\ talk' = IF OnThread /\ stream.end = "open" THEN BrokenOff ELSE talk

StreamBreaks ==
  /\ setup.mode # "whole" /\ stream.end = "open" /\ loop.pc \in {"body", "collect"} /\ Spend("faults")
  /\ Breaks(Fail(stream))
  /\ UNCHANGED <<loop, setup>>

\* Whether the results that the caller or the loop has asked for are there, or will not be.
Made == \A i \in CallsOf(stream) : stream.calls[i].at \in {"ok", "error"}
Threw == \E i \in CallsOf(stream) : stream.calls[i].at = "thrown"

\* generateToolResponse() in the loop body: it waits for the whole reply, and the caller waits for it.
Generate ==
  /\ At("body") /\ OnThread /\ loop.response = "none" /\ stream.end = "stopped"
  /\ stream' = StartCalls(stream)
  /\ loop' = [loop EXCEPT !.response = "asked"]
  /\ UNCHANGED <<talk, setup, left>>

\* The end of the loop body, of a reply that the caller left to the runner.
BodyEnds ==
  /\ At("body") /\ (loop.response = "asked" => Made)
  /\ loop.mutated => Compacting
  /\ loop' = [loop EXCEPT !.pc = "collect", !.without = None]
  /\ UNCHANGED <<talk, stream, setup, left>>

\* The end of the loop body after setMessagesParams(): the turn is cut off, and the history is what the caller made of it.
TakenOver ==
  /\ At("body") /\ (loop.response = "asked" => Made)
  /\ loop.mutated /\ OnThread
  /\ LET kept == loop.without
         answers == kept # <<>> /\ Last(kept) = ThisReply /\ MakesCalls
     IN /\ talk' = [talk EXCEPT !.history = kept, !.question = None,
                                !.overridden = @ \cup (Said(talk.history) \ Said(kept))]
        /\ stream' = IF answers /\ loop.response = "none" THEN StartCalls(Abort(stream)) ELSE Abort(stream)
        /\ loop' = [loop EXCEPT !.pc = IF answers THEN "answer" ELSE "top", !.without = None, !.last = "none",
                                !.response = IF answers THEN "loop" ELSE @]
  /\ UNCHANGED <<setup, left>>

\* The reply is there.  What it stops with decides.
Collect ==
  /\ At("collect") /\ OnThread /\ stream.end = "stopped"
  /\ LET stops == \/ stream.stop = "stop"
                  \/ stream.stop = "run_tools" /\ ~MakesCalls /\ ~loop.mutated /\ Last(talk.history).by = "reply"
         l == [loop EXCEPT !.last = stream.stop]
     IN IF stops
        THEN IF loop.compaction = "scheduled" /\ ~Last(talk.history).asks
             THEN loop' = Compact(l, TRUE) /\ stream' = stream
             ELSE /\ loop' = Finish([l EXCEPT !.compaction = "idle"])
                  /\ stream' = Abort(stream)
        ELSE IF stream.stop = "run_tools" /\ MakesCalls
        THEN /\ loop' = [l EXCEPT !.pc = "answer", !.response = "loop"]
             /\ stream' = IF loop.response = "none" THEN StartCalls(stream) ELSE stream
        ELSE loop' = [l EXCEPT !.pc = "top"] /\ stream' = Abort(stream)
  /\ UNCHANGED <<talk, setup, left>>

\* Variant: the results go to the end of the history.
AnswerAtTheEnd ==
  /\ At("answer") /\ Made
  /\ talk' = [talk EXCEPT !.history = Append(@, Results(loop.iterations))]
  /\ loop' = [loop EXCEPT !.pc = "top"]
  /\ stream' = Abort(stream)
  /\ UNCHANGED <<setup, left>>

\* The results go right behind the last message of the model.
Answer ==
  /\ At("answer") /\ Made
  /\ LET places == {i \in DOMAIN talk.history : talk.history[i].by \in {"reply", "cut", "summary"}}
         answered == Max({0} \cup places)
     IN talk' = [talk EXCEPT !.history = SubSeq(@, 1, answered) \o <<Results(loop.iterations)>>
                                           \o SubSeq(@, answered + 1, Len(@))]
  /\ loop' = [loop EXCEPT !.pc = "top"]
  /\ stream' = Abort(stream)
  /\ UNCHANGED <<setup, left>>

\* The reply to the compaction request, with or without a summary, takes the place of what it summarizes.
Compacted(summary) ==
  /\ At("collect") /\ Compacting /\ stream.end = "stopped"
  /\ talk' = IF summary
             THEN LET covered == SubSeq(talk.history, 1, loop.covers)
                  IN [talk EXCEPT !.history = <<Summary>> \o SubSeq(@, loop.covers + 1, Len(@)),
                                  !.covered = @ \cup Said(covered)]
             ELSE talk
  /\ loop' = LET l == [loop EXCEPT !.compaction = "idle"]
             IN IF loop.final THEN Finish(l) ELSE [l EXCEPT !.pc = "top"]
  /\ stream' = Abort(stream)
  /\ UNCHANGED <<setup, left>>

\* The stream failed or was aborted, or a call threw: so does the loop, or the body that waits.
Throws ==
  /\ \/ At("collect") /\ stream.end = "broken"
     \/ loop.response = "asked" /\ At("body") /\ Threw
     \/ At("answer") /\ Threw
  /\ loop' = [loop EXCEPT !.pc = IF At("body") THEN "left" ELSE "failed"]
  /\ stream' = Abort(stream)
  /\ UNCHANGED <<talk, setup, left>>

End == At("ending") /\ AwaitsOver /\ loop' = [loop EXCEPT !.pc = "ended"] /\ UNCHANGED <<talk, stream, setup, left>>

(***************************************************************************)
(* The caller.                                                             *)
(***************************************************************************)
NextUser == User(setup.says - left.says + 1)

\* append() on the thread, from wherever.
Append1 ==
  /\ loop.pc \notin Over0 /\ Spend("says")
  /\ talk' = [talk EXCEPT !.history = Append(@, NextUser)]
  /\ UNCHANGED <<loop, stream, setup>>

\* setMessagesParams() with these messages: while the caller handles a reply they wait for the end of the body.
SetMessagesParams(messages) ==
  /\ loop' = [loop EXCEPT !.mutated = TRUE, !.touched = TRUE, !.response = "none",
                          !.without = IF @ = None THEN None ELSE messages]
  /\ talk' = IF loop.without = None THEN [talk EXCEPT !.history = messages] ELSE talk
  /\ UNCHANGED <<stream, setup>>

Params == IF loop.without = None THEN talk.history ELSE loop.without
MayTake == loop.pc \notin Over0 /\ left.takes > 0 /\ (loop.response = "asked" => Made)
Take == [left EXCEPT !.takes = @ - 1]

\* The same messages and other params; pushMessages(), which throws while a compaction is in flight.
SetOther == MayTake /\ left' = Take /\ SetMessagesParams(Params)
Push ==
  /\ MayTake /\ ~Compacting /\ left.says > 0
  \* A caller that puts a reply with calls back leaves it last, as the runner's docs ask, or answers the calls itself.
  /\ At("body") /\ Params # <<>> => ~Last(Params).asks
  /\ left' = [Take EXCEPT !.says = @ - 1]
  /\ SetMessagesParams(Append(Params, NextUser))

\* The reply put back, alone or with the results the caller made.
PutBack(withResults) ==
  /\ MayTake /\ At("body") /\ OnThread /\ stream.end = "stopped"
  /\ withResults => loop.response = "asked" /\ MakesCalls
  /\ ThisReply \notin Range(loop.without)
  /\ left' = Take
  /\ SetMessagesParams(loop.without \o (IF withResults THEN <<ThisReply, Results(loop.iterations)>> ELSE <<ThisReply>>))

CompactBeforeNextTurn ==
  /\ loop.pc \notin Over0 /\ Spend("compactions")
  /\ loop' = [loop EXCEPT !.compaction = IF Compacting THEN @ ELSE "scheduled"]
  /\ UNCHANGED <<talk, stream, setup>>

\* `break`, or an error of the caller's own.
Leave ==
  /\ At("body") /\ Spend("faults")
  /\ Breaks(Abort(stream))
  /\ loop' = [loop EXCEPT !.pc = "left"]
  /\ UNCHANGED setup

(***************************************************************************)
(* Readers of the stream, and tools.                                       *)
(***************************************************************************)
Reads(s) == stream' = s /\ UNCHANGED <<loop, talk, setup, left>>

\* A reader comes while the stream is open, and a place is used once: one that came later would find
\* every event emitted, wait in vain and hold up nothing.
ReaderOpens(k) ==
  /\ At("body") /\ setup.mode # "whole" /\ stream.end = "open" /\ ~stream.readers[k].on /\ stream.readers[k].handled = 0
  /\ k \in setup.readers
  /\ Reads(Opens(stream, k))
ReaderStep(k) ==
  LET r == stream.readers[k]
  IN /\ r.on
     /\ \/ ~r.holds /\ r.handled < stream.emitted /\ Reads(Gets(stream, k))
        \/ r.holds /\ Reads(AsksOn(stream, k))
        \/ ~r.holds /\ r.handled = stream.emitted /\ stream.end # "open" /\ Reads(Drained(stream, k))
ReaderDefers(k) ==
  /\ stream.readers[k].on /\ stream.readers[k].holds /\ Spend("holds")
  /\ \E i \in CallsOf(stream) : 2 * i <= stream.readers[k].handled + 1 /\ stream' = Defer(stream, i)
  /\ UNCHANGED <<loop, talk, setup>>
ReaderLeaves(k) ==
  /\ stream.readers[k].on /\ stream.readers[k].holds /\ Spend("faults")
  /\ Breaks(Leaves(stream, k))
  /\ UNCHANGED <<loop, setup>>

CallTakesTurn == \E i \in DOMAIN stream.calls : Turns(stream, i) /\ Reads(TakesTurn(stream, i))
CallEnds == \E i \in DOMAIN stream.calls : stream.calls[i].at = "running" /\ Reads(Ends(stream, i, "ok"))
\* A tool that fails answers so; a toolset's call may also throw.
CallFails ==
  /\ Spend("faults")
  /\ \E i \in DOMAIN stream.calls, outcome \in {"error", "thrown"} :
       /\ stream.calls[i].at = "running" /\ (outcome = "thrown" => stream.blocks[i] = "member")
       /\ stream' = Ends(stream, i, outcome)
  /\ UNCHANGED <<loop, talk, setup>>

(***************************************************************************)
(* The specification.                                                      *)
(***************************************************************************)
Runner ==
  \/ Iterate \/ Top \/ SendTurn \/ SendCompaction \/ BodyEnds \/ TakenOver \/ Collect \/ Answer
  \/ \E summary \in BOOLEAN : Compacted(summary)
  \/ Throws \/ End
Surroundings ==
  \/ WholeReply \/ StreamEvent \/ CallTakesTurn \/ CallEnds
  \/ \E k \in Readers : ReaderStep(k)
Caller ==
  \/ Append1 \/ SetOther \/ Push \/ Generate \/ CompactBeforeNextTurn \/ Leave
  \/ \E withResults \in BOOLEAN : PutBack(withResults)
  \/ \E k \in Readers : ReaderOpens(k) \/ ReaderDefers(k) \/ ReaderLeaves(k)
Faults == RequestFails \/ StreamBreaks \/ CallFails

Next == Runner \/ Surroundings \/ Caller \/ Faults

\* The loop is iterated, its bodies end, requests are answered, streams and tools end.
Spec == Init /\ [][Next]_vars /\ WF_vars(Runner \/ Surroundings)

(***************************************************************************)
(* Properties.                                                             *)
(***************************************************************************)
\* The calls of a reply run once, whoever asks for their results and however often; only a runner that is not eager runs
\* them again, when the caller has changed the params since.  A toolset's calls run one at a time, in the model's order,
\* none after one that failed.  No call is still running when the next request goes out, but for the final compaction:
\* the last reply's stream is still open to a slow reader then (BetaToolRunner.ts:261).
CallsRunInTheirPlace ==
  /\ \A i \in CallsOf(stream) : stream.calls[i].runs > 1 => ~Eager /\ loop.touched
  /\ \A i, j \in Members(stream) :
       i < j /\ stream.calls[j].at \in {"running", "ok"} => stream.calls[i].at = "ok"
  /\ loop.stray => loop.final /\ setup.readers # {}

\* A call starts early only once every reader has handled the event that shows the model has moved on from it, and never
\* after the stream has failed or been aborted: whoever sees a call in time can still hold it.
DeferIsInTime ==
  [][\A i \in DOMAIN stream.calls :
       (stream'.blocks = stream.blocks /\ stream'.calls[i].early /\ ~stream.calls[i].early) =>
         /\ stream'.end # "broken" /\ ~stream'.aborted
         /\ stream.calls[i].entry = "none"
         /\ \A k \in Active(stream') : stream'.readers[k].handled >= MovedOn(i)]_vars

\* Every turn asks the model a history it can answer: the calls in it have their results right behind them, and all that
\* was said is in it, or in what a summary covers, unless the caller has replaced the history itself.
TurnsAreWhole ==
  talk.question # None =>
    /\ \A i \in DOMAIN talk.question :
         talk.question[i].asks => i < Len(talk.question) /\ talk.question[i + 1] = Results(talk.question[i].n)
    /\ 1..(setup.says - left.says) \subseteq
         Said(talk.history) \cup Said(Params) \cup talk.covered \cup talk.overridden

\* The loop comes to its end, with several readers, held calls and toolsets that wait for each other.
RunEnds == <>(loop.pc \in Over0)

\* A reply stays in the history unless the caller has changed the params since its request was sent.
RepliesAreKept ==
  [][loop.pc = "body" /\ OnThread /\ loop'.pc = "top" /\ ~loop.touched => ThisReply \in Range(talk'.history)]_vars
===============================================================================
