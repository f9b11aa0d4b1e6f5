------------------------------ MODULE EagerCalls ------------------------------
(***************************************************************************)
(* One streamed reply of a tool runner and the tool calls it makes:        *)
(* BetaToolRunnerStream (src/lib/internal/BetaToolRunnerStream.ts) and the *)
(* calls map of BetaToolRunner (src/lib/tools/BetaToolRunner.ts).  Several *)
(* `for await` loops read the stream, each at its own pace, and an eager   *)
(* runner starts a call as soon as the model has moved on from it and the  *)
(* slowest reader has seen that.  The rest, and every call of a runner     *)
(* that is not eager, starts when the results are asked for.  A toolset's  *)
(* calls run one at a time, and not after one of them has failed.          *)
(*                                                                         *)
(* A block is a call of a "tool" or of a toolset's "member", a "text", or  *)
(* the "fallback" to another model after a refusal.  Its events are its    *)
(* start and its stop; a message_delta and a message_stop end the reply.   *)
(***************************************************************************)
EXTENDS Integers, FiniteSetsExt, SequencesExt

CONSTANT Readers   \* for-await loops over one stream

Blocks == {"tool", "member", "text", "fallback"}
Stops == {"run_tools", "resume", "stop"}   \* what the loop makes of a stop_reason

\* An entry of the calls map, and how far the call has come.  `early`: it was started while the reply streamed.
NoCall == [entry |-> "none", at |-> "none", early |-> FALSE, runs |-> 0]
NoReader == [on |-> FALSE, handled |-> 0, holds |-> FALSE]

NewStream(eager, r) ==
  [eager |-> eager, blocks |-> r.blocks, stop |-> r.stop, emitted |-> 0, end |-> "open", aborted |-> FALSE,
   handed |-> 0, readers |-> [k \in Readers |-> NoReader], calls |-> [i \in DOMAIN r.blocks |-> NoCall],
   toolset |-> "idle"]

IsCall(s, i) == s.blocks[i] \in {"tool", "member"}
Members(s) == {i \in DOMAIN s.blocks : s.blocks[i] = "member"}
CallsOf(s) == {i \in DOMAIN s.blocks : IsCall(s, i)}
Over(c) == c.at \in {"ok", "error", "thrown"}
Events(s) == 2 * Len(s.blocks) + 2

\* The event that shows that the model has moved on from block i, and whether it ever hands the call over: not when the
\* reply was cut off in it, nor once a fallback has begun.
MovedOn(i) == 2 * i + 1
HandsOver(s, i) ==
  /\ IsCall(s, i)
  /\ i = Len(s.blocks) => s.stop = "run_tools"
  /\ \A j \in DOMAIN s.blocks : j <= i + 1 => s.blocks[j] # "fallback"

Begin(s, i, early) ==
  [s EXCEPT !.calls[i] = [entry |-> IF s.eager THEN "started" ELSE "none", at |-> "running",
                          early |-> early, runs |-> @.runs + 1]]

\* Variant: only a held call counts as known.
OnToolCallStartedBefore(s, i) ==
  LET known == s.calls[i].entry = "held"
  IN IF s.blocks[i] = "member"
     THEN IF known \/ s.toolset # "idle" THEN [s EXCEPT !.toolset = "waiting"]
          ELSE [Begin(s, i, TRUE) EXCEPT !.toolset = "running"]
     ELSE IF known THEN s ELSE Begin(s, i, TRUE)

\* onToolCall
OnToolCall(s, i) ==
  LET known == s.calls[i].entry # "none"
  IN IF s.blocks[i] = "member"
     THEN IF known \/ s.toolset # "idle" THEN [s EXCEPT !.toolset = "waiting"]
          ELSE [Begin(s, i, TRUE) EXCEPT !.toolset = "running"]
     ELSE IF known THEN s ELSE Begin(s, i, TRUE)

Active(s) == {k \in Readers : s.readers[k].on}
\* Variant: the readers are not waited for.
HandledByListeners(s) == s.emitted

Handled(s) == Min({s.emitted} \cup {s.readers[k].handled : k \in Active(s)})

\* The calls of `ready`, one after the other in the model's order.
HandOver(s, ready) ==
  LET after[n \in 0..Len(s.blocks)] ==
        IF n = 0 THEN s
        ELSE IF n \in ready THEN [OnToolCall(after[n - 1], n) EXCEPT !.handed = n]
        ELSE after[n - 1]
  IN after[Len(s.blocks)]

\* Hands over the calls that the listeners and every reader are done with.
Release(s) ==
  LET ready == {i \in s.handed + 1..Len(s.blocks) : HandsOver(s, i) /\ MovedOn(i) <= Handled(s)}
  IN IF ~s.eager \/ s.end = "broken" \/ s.aborted THEN s ELSE HandOver(s, ready)

\* The next event of the stream, after the listeners have handled it.
Deliver(s) ==
  Release([s EXCEPT !.emitted = @ + 1, !.end = IF s.emitted + 1 = Events(s) THEN "stopped" ELSE @])

Fail(s) == [s EXCEPT !.end = "broken"]
Abort(s) == [s EXCEPT !.end = IF @ = "open" THEN "broken" ELSE @, !.aborted = TRUE]

(***************************************************************************)
(* Readers.                                                                *)
(***************************************************************************)
Opens(s, k) == [s EXCEPT !.readers[k] = [on |-> TRUE, handled |-> s.emitted, holds |-> FALSE]]
Gets(s, k) == [s EXCEPT !.readers[k].holds = TRUE]
\* Asking for the next event says that the one in hand is handled.
AsksOn(s, k) == Release([s EXCEPT !.readers[k].handled = @ + 1, !.readers[k].holds = FALSE])
Leaves(s, k) == [Abort(s) EXCEPT !.readers[k] = NoReader]
Drained(s, k) == Release([s EXCEPT !.readers[k] = NoReader])

\* deferToolCall
Defer(s, i) == IF s.eager /\ s.calls[i].entry = "none" THEN [s EXCEPT !.calls[i].entry = "held"] ELSE s

(***************************************************************************)
(* Results.                                                                *)
(***************************************************************************)
\* generateToolResponse: started calls are kept, a toolset's queue up, the others start.
StartCalls(s) ==
  [s EXCEPT !.calls = [i \in DOMAIN s.blocks |->
     IF ~IsCall(s, i) \/ s.calls[i].entry = "started" THEN @[i]
     ELSE IF s.blocks[i] = "member"
     THEN [@[i] EXCEPT !.entry = IF s.eager THEN "started" ELSE "none", !.at = "queued"]
     ELSE Begin(s, i, FALSE).calls[i]]]

\* Variant: a toolset's calls wait for each other's success.
TurnsAfterSuccess(s, i) == s.calls[i].at = "queued" /\ \A j \in Members(s) : j < i => s.calls[j].at = "ok"

\* A queued call, once the toolset's earlier calls are over: it runs, or is answered without running.
Turns(s, i) == s.calls[i].at = "queued" /\ \A j \in Members(s) : j < i => Over(s.calls[j])
TakesTurn(s, i) ==
  IF \E j \in Members(s) : j < i /\ s.calls[j].at # "ok" THEN [s EXCEPT !.calls[i].at = "error"]
  ELSE Begin(s, i, FALSE)

Ends(s, i, outcome) ==
  [s EXCEPT !.calls[i].at = outcome,
            !.toolset = IF ~(s.calls[i].early /\ s.blocks[i] = "member") THEN @
                        ELSE IF outcome # "ok" \/ @ = "waiting" THEN "waiting" ELSE "idle"]
===============================================================================
