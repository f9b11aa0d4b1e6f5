# TLA+ models of the Anthropic TypeScript SDK

The SDK is mostly generated request builders; its own logic sits in a few
hand-written parts that run loops against a server, share state between
concurrent callers and tear themselves down under aborts. This directory holds
TLA+ modules of those parts, TLC configurations that check them on small
instances, and theorems about them with proofs for TLAPS. `PROJECT.json` maps
every definition to the lines it models and lists hazards, runs, mutants and
theorems. Paths below are relative to the repository.

## Inventory

JavaScript runs one callback at a time. What is concurrent here is everything
between two `await`s of different loops: network answers, timers, abort signals,
the consumer of an iterator, and other processes (the server, other workers,
other clients of a session).

| Component | State it keeps | Operations | What is hard |
|---|---|---|---|
| **SessionToolRunner** `src/lib/tools/SessionToolRunner.ts` | ids seen and answered, verdicts, held calls, idle clock with blockers, result queue, abort controller | attach a stream, reconcile the history, handle events, gate and dispatch calls, post results with retries, count down idleness, iterate, tear down | events repeated, reordered or missed around reconnects; lists that fail half-way; lost posts; countdown against gated work; abort against the last results |
| **EnvironmentWorker** `src/lib/environments/worker.ts` | the lease and why it ended, heartbeat stamp, ttl and interval, `cleanEnd` | serve one item: heartbeat, set up, run, tear down, stop | leases that lapse, hung or lost heartbeats, several workers, abort before or during the teardown, crashes |
| **WorkPoller** `src/lib/environments/poller.ts` | attempt counter, abort controller | poll, ack, yield, stop | an item claimed and not acknowledged; abort between claim and yield |
| **TokenCache** `src/lib/credentials/token-cache.ts` | cached token, pending refresh, force flag, time of the last advisory error | getToken, invalidate, (background) refresh | calls that settle out of order, a flag consumed by another caller, stale promises |
| **Credential providers** `src/lib/credentials/*.ts` | the credentials file | read, exchange, write back; user OAuth refresh; resolution chain | several writers of one file, rotating refresh tokens |
| **Client** `src/client.ts` | per-request auth flags, shared auth state | makeRequest, authHeaders, shouldRetry, retryRequest | retries, 401 refresh and abort of requests that share one cache |
| **Streaming** `src/core/streaming.ts`, `src/internal/decoders/line.ts` | partial lines and events, tee queues | decode chunks, iterate, tee | line ends split by chunks, two readers of one iterator |
| **BetaToolRunner** `src/lib/tools/BetaToolRunner.ts`, `src/lib/internal/BetaToolRunnerStream.ts` | thread, pending tool changes, calls started early, compaction | iterate turns, run tools, compact | the caller changes the history while a turn is in flight |
| **Threads** `src/lib/internal/threads/ThreadState.ts`, `src/lib/threads/BetaMessageThread.ts` | stored and staged entries, anchor on the server, parameters | append, update, setParams, send, stream, recover | edits during a turn, partial replies, a server that may or may not hold a turn |
| **Message streams** `src/lib/{Beta,}MessageStream.ts` | snapshot, listeners, promises | accumulate events, abort, final message | abort against the last event, unobserved rejections |
| **Memory stores** `src/tools/agent-toolset/memories.ts` | baseline, sent and refused hashes, pending deletes | download, sync, flush, finish, recover | both sides change, uploads that landed unheard, deletions that are none |
| **Bash tool** `src/tools/agent-toolset/node.ts` | shell process, buffer, waiting command | exec, close, restart | late sentinels, timeouts, serialised calls |
| **Queue, sleep, abort, backoff** `src/internal/utils/*.ts` | items and waiters | push, next, close | abort against push |
| **The rest** | | middleware, toolsets, pagination, parsers, uploads, tracing, platform packages, generated resources | little shared state; see "components" in `PROJECT.json` |

How they interact: the *worker* claims items through the *poller*, heartbeats,
mounts *memory stores* and drives one *SessionToolRunner* per item, whose tools
(the *bash tool* among them) run inline; everything talks to the API through the
*client*, which takes bearer tokens from the *token cache* over a *provider*. The
*tool runner* is the counterpart for one conversation, over a *thread* and its
*message streams*.

What makes each correct, in a sentence:

- runner: it runs what was approved and nothing else, once per connection; it
  answers what it owns; it stops when the session is over and not before; it
  ends cleanly however it is left;
- worker: a fresh lease means sole ownership, a healthy worker keeps it through
  the teardown, a worker that lost it gives up in time and does not touch the item;
- token cache: no settled promise is served, concurrent callers share calls as
  far as forced refreshes allow, a refused token is not sent again by the request
  that was refused, every request ends.

## Modules

| Module | Models |
|---|---|
| `SessionToolRunner` | the runner, its session's event log, user and other clients |
| `GatedDispatch` | what the runner promises: calls run one at a time, gated ones after an approval, none after they are settled |
| `WorkLease` | several workers of one environment, one work item, the work API |
| `TokenCache` | the cache and `cachedExchangeProvider`, as operators over their state |
| `AuthedRequests` | the requests of one client that share a `TokenCache`; the composed specification |
| `MemorySync` | one memory store of a session: the folder, the server, the sync passes, the flush, the worker's cut-offs |
| `MessageThread` | a thread: `ThreadState` under `BetaMessageThread`, the server and the network |
| `Conversation` | what a thread promises: each question is the whole history |
| `Subsequence` | what is left of a sequence when some of it is dropped, for the two modules above |
| `EagerCalls` | one streamed reply, its readers and the calls it makes, as operators over a record |
| `ToolLoop` | `BetaToolRunner` over `EagerCalls`; the composed specification |
| `MC*` | instances for TLC |
| `SessionToolRunnerProofs`, `GatedDispatchProofs` | theorems about the runner; that it implements `GatedDispatch` |
| `WorkLeaseProofs`, `AuthedRequestsProofs`, `MemorySyncProofs`, `MessageThreadProofs`, `ToolLoopProofs` | theorems about the module of that name |
| `InductionLemmas` | induction and extrema of natural numbers, for the last two |

Operators whose comment says *Variant* are not part of any specification: each is
the mapped definition above or below it with a plausible bug. Substituted for
that definition it makes TLC refute the property it is paired with under
"mutants", which shows that the property does depend on the code.

### SessionToolRunner

`pc` is where `#streamLoop` (with `#reconcile`, `#execute` and `#sendResult` called
inline) awaits: `connect`, `list`, `route`, `release`, `stream`, `tool`, `send`,
`backoff`, `stopped`. One action is the code from one await to the next. `log` is
the session's event log; the stream delivers what was appended after `Attach`
(`cursor`), the list reads `log`, possibly without its oldest `MaxMissing` events,
or fails after any prefix. `clock` is the `IdleClock`: `timer`, `pending`
(`#armPending`) and `blockers`; `Arm`, `Disarm`, `Block`, `Unblock` and `NoteEvent`
return the clock after the method. `RouteCall`, `Hold`, `ApplyVerdict` and
`Execute` are the private methods, called from the routing pass (`RouteNext`), from
the release of held calls (`ReleaseHeld`) and from the stream (`HandleUse`,
`NoteConfirmation`). `iter` is the async iterator: `phase1`, `phase2`, `done`, or
`broken` and `closed` after a consumer's break. `ran`, `passRuns`, `unposted` and
`quiet` are history variables that only properties read.

Abstracted: names and inputs of tools (a call is owned or not), waiting times (the
countdown may expire whenever it runs), tracing. An abort takes effect at the awaits
that check it; a buffered event can still be handled, and the routing pass goes on,
after an abort, as in the code. `OtherClientAnswers` is restricted to calls that are
allowed to run.

### WorkLease

`phase` follows `run` and `#handleItem`: `poll`, `ack`, `setup`, `serve`, then the
teardown `skills`, `finish`, `flush`, `dispose`, `await`, `stop`. `beat` is the state of
`heartbeatLoop` with its locals: `last` the stamp to expect, `since` the time since
`lastSuccessMs`, `age` the time in the current call or sleep, `known` whether the
server's ttl is known. `lease` is the `Lease` and its controller's signal, `quit` the
external signal. A heartbeat is sent, reaches the server, and is answered in separate
steps, so that an abandoned one (`stray`) can arrive late. The server hands an item
out again once its lease has lapsed, and compares stamps as
`src/resources/beta/environments/work.ts:751` documents.

Time is discrete; a timer that is due fires before `Tick`. So the bounds leave out
delays of the event loop, and the latency of a request beyond `MaxLatency` is charged
as a fault. `LongAgo` caps `since` where it no longer changes any comparison. Stamps
are names: a renewal takes one that nobody refers to (`FreeStamps`), and with
`MaxStamp` at three for each worker and one more there always is one (six are enough for
`lease_live`, where the guard is never false either).

### TokenCache and AuthedRequests

A provider call is state of its own (`calls`): reading the file, exchanging, then
served from the file or exchanged. Its settlement runs the handlers of `doRefresh`
and resumes every request that awaits it in one step (`Settles`, `Fails`): these are
microtasks with nothing in between. `pendingRefresh` names the pending call; slots
are only names, reused when a call has settled. A request is at `auth` (about to call
`getToken`), `await`, `fetch`, `sleep` (retryRequest), `ok` or `failed`. The server
refuses tokens that expired or were revoked, at any time. `refused` and `owed` are
history variables.

### MemorySync

`SessionMemoryStores` for one store; several stores do not share state. `life` is the
worker: `download`, `running`, then `finish` (the last sync of a clean end), `flush`,
`dispose`, `disposed`, or `failed`. `pc` is where the pass of `#syncStore` is: `scan`, `list`, one
path at a time (`path`, with `confirm` and `delete` for `#corroboratedDelete` and
`upload` for `#upload`), `pull`, or `open` for the recovery of a folder that is not to
be trusted. `fpc` is the flush. Between two requests the agent and other clients act;
`withTimeout` can cut off the last sync and the flush at any await, and a sync that was
cut off goes on beside the flush, on the same `baseline` and `sent`. An upload is read,
sent, answered or lost; a lost one may have landed. `removed`, `held` and `overtaken` are history:
how a file went missing, what a file ever held, and what the flush may leave alone (below);
`remote[p].by` is history too.

`#stampAndPull` clears `baseline` and `sentShas`. A session that had to fill its folder anew
therefore cannot tell what it uploaded before from what others wrote: where the download of a
file fails, the server's version, which may be the session's own and older, wins over the next
edit of that file. The model says what the records say: with `Stamp` every memory counts as
written by anyone. Stated of the whole session, `NoEditLostToOwnUpload` is false, which TLC
shows with one file, three edits and one fault.

`#upload` reads the file anew, so that what the server refuses need not be what the scan saw;
what enters `refusedShas` is the sha of the scan (`memories.ts:935`). Written back, that content
is then taken for refused and is not uploaded, by a sync or by the flush, although "the server
refused" it never (`memories.ts:125`): `Refused` says so, and without it `Converges` fails with
three edits and `FlushedWorkIsSaved` with four.

`overtaken` are the memories that the flush may leave alone although a file differs from them:
its listing shows a content of other clients there that is not the one last synced, or they
change the memory after the listing. `FlushedWorkIsSaved` asks of every other file, new ones and
first edits of a downloaded memory included, that it is on the server. It also accepts a file that the server
holds as the flush read it: after two changes by other clients a sync that was cut off may have
pulled an older version over the file in the meantime.

Abstracted: hashing (a content is its own sha), path checks, file modes, listings in
pages. The age of a pending delete is *young* or *old* (`Age`). A scan, a listing and
the check-then-act pairs of `file-store.ts` are single steps, since that file puts races
with its own syscalls out of scope. The memory server is external: conditions on the
content as `src/resources/beta/memory-stores/memories.ts:215`, `:363` and `:655` document
them, a create fails on a taken path. The agent acts while the tools are open
(`life = "running"`).

### MessageThread and Conversation

`thread` is `ThreadState`: `stored` and `staged` entries, the anchor (`create`,
`continue`, or the two kinds of no thread) and the create-only fields (`system` stands
for both of them). `turn` is the turn in flight with what the caller did to the history
meanwhile; `request` is what is on the wire; `server` is what the server holds of the
thread. Actions are the caller's methods, the answers and rejections of `Served`, and
faults: a stream that breaks at any event, a request the network repeats, a rejected
anchor, a lost thread, a turn that ended on the server although its client gave up.
Operators with a `t` are methods of `ThreadState` from state to state.

`Conversation` knows none of it: a history that the caller extends or edits, and a
question that is the history as a whole. `IsConversation` is the refinement: the
question is what the server's part and the request together amount to (`Context`).
One thing about repetitions has to show there: `push` and `setMessages` skip a message that
repeats the last reply (`#repeatsLastReply`), so a reply that the caller says again may
count for nothing (`Unrepeated`), when it is said, when an edit brings two copies together,
and when what was said during a turn is put behind the answer. What has become of a
question is put before what was said since, unless the caller has rewritten
the history meanwhile (`rewritten`, the code's `replacementHistory`).

Abstracted: content, usage, betas and headers; `fork()` and the parse helpers.

### EagerCalls and ToolLoop

`EagerCalls` is one reply: `blocks` so far, how far the events were `emitted`, each
reader's place, and for every call whether it is held, in the `calls` map, queued behind
its toolset, running or ended. `Release` is what `BetaToolRunnerStream` does whenever the
slowest reader moves. `ToolLoop` adds the loop (`loop.pc`: `idle`, `top`, `settle`,
`request`, `body`, `collect`, `answer`, `ending`, and how it is over), the talk with the model (`talk`: history, question, what a
summary covers) and the caller, who appends, rewrites the params, pushes, puts a reply
back with or without results, asks for results early, holds calls, opens and leaves
readers, schedules compactions and leaves the loop.

The thread below is what `Conversation` says of it, one history. Left out: `addTools` and
`removeTools`, iterating again after a failure, a caller that does not await
`generateToolResponse` before it acts on, telemetry. A caller that puts back a reply with
calls leaves it last or answers the calls. A paused reply makes no calls of the client: the
server continues its own turn (`Replies`). A reader can only be opened while the stream is
open: one that comes later reads nothing and holds up no call. A slow reader can let a call
start beside the final compaction (see below); `CallsRunInTheirPlace` does not rule that
out, it says that this is the only request that a call can run beside, and an instance has
such a reader.

## Runs

| Run | Question | Bounds | Result |
|---|---|---|---|
| `runner_safety` | gating, blockers, countdown, run-once, verdicts, teardown, and does the runner implement `GatedDispatch`? | a plain, a gated, a server-denied and an unowned call, 3 log events, 2 faults, 1 missing event | holds |
| `runner_live` | verdicts applied, calls answered, ended sessions released, aborts end the iteration | 2 calls, 3 events, 1 fault | holds |
| `runner_terminated` | "Iteration ends when the session terminates" | 1 call, 2 events, 1 fault | **violated** |
| `lease_safety` | exclusive fresh lease, kept while healthy, given up in time, no stop after loss | 2 workers, default ttl 3 and interval 2, server ttl 3 (so interval 1 after the first answer), 2 faults, 1 abort | holds |
| `lease_live` | loss is noticed, teardowns end | 2 workers, ttl 2, 1 fault | holds |
| `lease_stop` | "Stop only an item this worker still holds" | 2 workers, no fault, 1 abort | **violated** |
| `token_safety` | promises, deduplication, 401 handling, termination | 2 requests, 1 retry each, 3 calls in flight, 1 failure, 1 revocation, 1 abort, 2 ticks | holds |
| `memory_sync` | nothing overwritten unseen, wipes delete nothing, the flush saves, both sides come together | `MCSetups`: 1 to 3 files, 2 contents (one refused by the server in two setups), up to 4 edits, 2 changes by others, 1 fault; read-only, log-only and disabled deletes too; delete cap 1 | holds |
| `memory_wipe` | "emptied ... is re-downloaded rather than treated as a mass local delete" | 2 files, 1 edit, 1 change by others, no fault | **violated** |
| `thread_turns` | the refinement of `Conversation`, create-only fields, turns end | `MCSetups`: 2 or 3 turns, 1 or 2 messages said, 1 to 3 edits, 0 to 2 faults; with and without threads, streams and continuations | holds |
| `tool_loop` | calls run in their place, holds are in time, turns are whole, the loop ends | `MCSetups`: a loop of 2 or 3 turns, whole, streamed and eager; single replies with a toolset, a fallback, two readers, a held call, a fault; a reader beside the final compaction | holds |
| `loop_reply` | are replies kept unless the params changed since their request? | one reply, one change | **violated** |

Why these bounds are enough to be interesting. Three log events hold a call, its verdict
and an idle, in any order and on either side of a reconnect, and the second fault breaks
the second connection or its list. Three call slots let an advisory, a forced and a third
call overlap, and two ticks move a fresh token of life 3 through the advisory window (2)
into the mandatory one (1). With ttl 3 a worker can miss a beat and recover, or miss all
and give up, while another takes over; the interval changes with the first answer. Two
edits write a file and write it again while the first content is on its way; three files
are needed for a cap that stops a second delete and a wipe that takes several; one fault
loses one answer, fails one write or cuts one listing. Three turns are a thread created,
continued and continued after it broke. In the loop, the eager setups have two calls of a
toolset among others, which is what a failed or held call of it can hold up. Each setup
is a budget of its own (`edits`, `says`, `faults`...), so that a run explores several
kinds of session without their product. `CHECK_DEADLOCK FALSE` stands in every
configuration because the modelled programs end and the modelled environments may fall
silent.

### Fairness

`SessionToolRunner!Fairness`: the event loop runs what is due: the stream loop, an
expired timer, a consumer that keeps iterating. `LoopStep` includes `ToolReturns`,
because every tool's signal is aborted after `TOOL_TIMEOUT_MS` at the latest. The
session, the user and other clients owe nothing. `historyRead = FALSE` excuses the
liveness properties: after a failed list the code deliberately waits for the stream or
the next reconnect.

`WorkLease!Fairness`: time passes, timers fire, requests without a fault are answered,
and the awaits of a teardown settle, those of the memory stores only through
`withTimeout`. Nothing obliges a runner to end by itself.

`AuthedRequests!FairSpec`: each request and each provider call goes on. That provider
calls settle is an assumption about the provider: nothing in the cache bounds them.

`MemorySync!FairSpec`: the worker calls `syncIfDue` after a tool again and again, a pass
goes on, and time passes for pending deletes. `Converges` is about sides that have fallen
silent: the budgets of the agent and of others run out.

`MessageThread!Spec`: `WF(Served)`, since a request is bounded by the client's timeout.
`ToolLoop!Spec`: the loop is iterated, bodies, tools and streams end, readers read on.
The caller's own methods and the faults are never obliged.

### What the violated runs show

- `runner_terminated`: a termination logged while the stream is down is read in the
  history and ignored (`#ingestHistory`), and the new stream does not repeat it.
- `lease_stop`: an abort from outside ends the heartbeats at once (`linkAbort` to the
  controller they watch), the teardown goes on without them, and with no recorded
  reason the final stop is sent although the lease may have lapsed. It takes a teardown
  longer than what is left of the ttl: a tool that is slow to abort, the flush
  (30 s), skill cleanup.
- `memory_wipe`: whether a folder was emptied is judged from one scan. Emptied after that
  scan, and refilled with one file that the same pass pulls, it looks trustworthy to the
  next pass, which deletes the rest remotely. `WipesDeleteNothing` is what does hold: a
  wipe between passes deletes nothing.
- `loop_reply`: `#mutated` is cleared before `#send`, and the first thing `#send` does is
  to await. Params set in between go out with that request and still mark its reply as
  taken over.

Seen while modelling, and not in a run: handlers of an older provider call clear
`pendingRefresh` whoever is pending (`token-cache.ts:120`), so mandatory callers may start
one call each; a heartbeat whose answer was lost makes the worker refuse itself with a 412
of its own making (`worker.ts:713`); a slow reader of the last reply can start a call
beside the final compaction (`BetaToolRunner.ts:261`), which also looks at the last message
only (`:515`); after a `break`, `done()` and `runUntilDone()` never settle; a listing that
hangs through a cut-off `finish` can recover the folder after `dispose`
(`memories.ts:610`); a delete whose answer was lost leaves no record, so that the same
content written again is not uploaded (`memories.ts:1021`); a refusal can be booked for a
content that was not the one refused (`memories.ts:935`); the kept part of a reply that
was cut off may end in calls without results, which the next `send` passes on
(`ThreadState.ts:583`).

## Proofs

All theorems hold for every value of the constants that satisfies the named
assumptions (`RunnerAssumption`, `LeaseAssumption`, `CacheAssumption`,
`NoTokenAssumption`, `RequestAssumption`, `MemoryAssumption`, `ThreadAssumption`,
`LoopAssumption`), which TLC evaluates in every run. Each inductive invariant was checked by TLC before it was
proved.

**`SessionToolRunnerProofs`.** `IInv` is the inductive invariant: the types, `JobInv` (a
job exists exactly while a tool runs or its result is posted, and an approved job's call
is no longer held), `BlockersAreGatedWork`, `KnownVerdictsLogged` (an allow the runner
knows is in the log), `HeldAreAsk` (only calls with permission *ask* are held) and
`GatedCallsNeedApproval`. The last alone is not inductive: a step that runs a call looks
at `verdicts`, so the proof needs that verdicts come from the log, and a released call
must have been held for the right reason. One lemma per group of actions shows that it
is preserved; the dispatch operators have lemmas of their own, because three actions
share them. `CountdownIsSafe` adds the evidence last read (`quiet`) to that invariant.

- `TypeCorrectness`, `Invariance`, `GatingIsSafe`, `BlockersAreExact`, `CountdownIsSafe`.

**`GatedDispatchProofs`.** The refinement of `GatedDispatch` and what rests on the same
facts. Every dispatch of a call is one of three effects (`Starts`, `Ends`, `Holds`), for the
routing pass, the release of held calls and the stream alike, and each effect maps to steps of the abstract specification, as do the events
of the log; every other step is a stutter. `KnowledgeIsLogged` is the invariant this needs:
results and verdicts are logged after the call they are about, and what the runner has seen,
holds, ran or answered is a call in the log. For `OneRunPerConnection`, `RunsInv` adds that a
call that ran on this connection is off the list of the routing pass, not held, and either
known as seen or behind the cursor, so that neither history nor stream can show it again.
`HistoryInv` (a pass that read its history leaves no held call decided) gives
`NoVerdictOverlooked`; `CleanTeardown` is inductive beside `IInv`.

- `KnowledgeIsLogged`, `ImplementsDispatch`, `NoHeldCallIsOverlooked`,
  `ConnectionRunsACallOnce`, `TeardownIsClean`.

**`WorkLeaseProofs`.** What has to be shown is that two clocks agree: the worker's, which
counts from the answer to a beat, and the server's, which counts from its arrival.
`LeaseInv` has two parts for each worker beside the types. `Timely` bounds `since` by
where the beat is: within the ttl plus the current `age`, and one more interval while a
call is out. `Covered` says what a success still proves: either a whole ttl has passed, or
the worker holds the item, the item's stamp is in no other worker's hands (what it will
expect next, an answer it has not read, a request it abandoned), and `left` covers what
remains of the ttl. The exclusion of stray requests is what makes it inductive: a beat
that another worker gave up on could otherwise renew the item behind its owner's back.
Most actions are *quiet* (`QuietSteps`): they hand no stamp to anybody and claim no new
success; renewals (`RenewalCovered`), a read answer, ticks and handovers each have their
own lemma. `FreshLeaseIsExclusive` and `GivesUpInTime` follow at once.

Its last part is about a worker that nothing goes wrong for. `KeptInv` says that while the item is not stopped only its holder
is *bound* to it (claiming, waiting for an answer, abandoned request, or live), and that what
is left of the lease covers the longest way to the next renewal, by where the beat is.
`Healthy` is the hypothesis: no fault, a latency below the default interval (or the first beat
would be cut off before its answer), and twice the latency with an interval below the ttl.
With a latency of a whole interval the property fails, as TLC showed of an earlier and weaker
hypothesis; with the SDK's own numbers (30 s of interval, 90 s or more of ttl) it is far from
that.

- `TypeCorrectness`, `LeaseInvariant`, `LeaseIsGivenUp`, `LeaseIsExclusive`, `LossIsFinal`,
  `HealthyWorkerKeepsItsLease`.

**`AuthedRequestsProofs`.** Type correctness first. `SharedInv` joins `PendingIsInFlight`
with `OwedInv`: while any request's 401 is unanswered by a forced refresh, `nextForce`
is set (so no cached token can be taken), and such a request is asleep, about to ask, or
failed; `NoInvalidationLost` follows. `RefreshesCoalesce` counts: `Overlap` says that the
calls in flight other than the pending one, plus one while a force is outstanding, are at
most the requests that met a 401. A forced refresh spends the flag and may loose the
pending call; a settling call is replaced by the pending one among the loose.

`ForcedRefreshesBringNewTokens` needs two more facts: a call that was forced only ever
exchanges (`ForceInv`), and the serial of an exchanged token that has not settled is on
nobody's token, neither the cache's nor a request's nor the file's (`SerialInv`).

- `TypeCorrectness`, `NoSettledPromise`, `InvalidationsAreHonoured`, `RefreshesCoalesce`,
  `ForcedRefreshesBringNewTokens`.

**`MemorySyncProofs`.** `SyncInv` says that whatever the session compares with, is about to
record or has on its way (`baseline`, `sent`, a scan, the listing in hand, an upload read,
sent or lost) was in the file at some time, and that only a writable store is being written.
It is needed as a whole: a lost upload becomes `sent`, a settled one the baseline, and the
baseline the licence for a delete. `NothingUnseenIsOverwritten` then looks at the steps that
write: each carries a content precondition that is a content of `held`.

What the records lack is the subject of the second invariant, `BooksInv`, on top of the first.
`OursAreOnRecord` says of a memory that this session wrote where it is accounted for at each
point of a pass: its content is the baseline's or the one sent, is about to be, or (after the
agent has stopped, when a cut-off sync and the flush write the same records) is what the file
holds, if it is still there. `WipesAreNoticed` says of a file that went in a wipe that the next scan sees
an empty folder with more than one file on record, so that the listing turns to the recovery, and
that from a listing on no record of it is left that a delete could rest on. Neither is inductive
alone: `SentSince` (a listing leaves nothing sent ahead of the pass), `FlushSees` (a flush sends
what its file holds, and the pass leaves that file alone) and `FlushIsLate` say how the sync and
the flush share the records. Most of the pass is one of two effects, a path that is done
(`PathDone`) or waits for an answer (`PathWaits`), and each effect has one lemma.

The third, `SavingInv`, is about the end of a session, over the other two. From the end of the
run the agent writes no more, so the last pass sees what is in the folder (`SyncSees`), and a memory
this session wrote is on record or equal to its file whenever the flush looks (`LateRecords`). A file
that the flush finds clean is therefore on the server (`CleanIsSaved`), but for a memory that this
session deleted: that leaves no record unless the answer was lost (`DeletedIsOffRecord`, the case
`Saved` names). A file it finds dirty goes out from a memory that, if it still is this session's,
meets the condition of the upload (`Underway`); a pass beside it can change that file only by
bringing in what the server has (`FlushReads`, `DeletedBefore`), and none fills a folder while
a flush has work (`FillingAlone`). Each step either leaves a file as it was for all of this
(`FileStays`) or is a path, a stage of a pass or an upload with a lemma of its own.

`SavingInv` speaks of memories that this session wrote last, where `Saved` is the weaker
`SavedIfOurs`. Of the other files, new ones and first edits included, the fourth invariant,
`WorkInv`, says that the flush takes them up. From its scan on, a file is at rest (absent, refused,
or as it was synced with nothing unsettled, `AtRest`) or on the list (`ListTakes`); after the listing
it is being sent from the memory that the listing showed (`ItemIs`, so that the precondition holds),
or it has arrived or was overtaken (`Delivered`), or is at rest (`UploadTakes`). That a file at rest stays so
depends on the last pass, which may run beside all this: it keeps the record of a file that is as
it was synced (`StaysSynced`), uploads only what is news (`UploadsNews`) and fetches nothing
that has an unsettled upload (`PullsUnsent`).

- `RecordsAreKnown`, `TypeCorrectness`, `BaselineIsTrue`, `NothingUnseenIsOverwritten`,
  `WritesAreOnRecord`, `OwnUploadsReplaceNothing`, `WipedFilesStay`, `FlushSavesTheWork`.

**`MessageThreadProofs`.** The model walks through sequences of entries with recursive
functions (`Kept`); what these return is shown by induction over the length, which
`InductionLemmas` derives from the library's theorem that `<` is well-founded (in
a form about sets: the library's own induction rules take an operator). `ThreadInv` relates
three parties: `TurnBooks` (what a turn in flight can take back is staged, and without a turn
nothing is on its way), `ThreadIsStored` (an anchor to continue from
names the last reply the server stored and the fields it was created with) and
`RequestIsAnchored` (what is on the wire was made from that anchor and under those fields). The anchor alone is not inductive: the reply that moves it is
still under way while the caller edits.

- `TheAnchorIsTheServers`, `TypeCorrectness`, `CallsAreAnsweredUnderTheirSystem`.

**`ToolLoopProofs`.** The first part is one reply. `StreamInv` keeps the books of each call
(`Booked`: what its entry says of whether and how often it ran, and that an early one was handed
over), of what has been handed over (`AllOrEarly`, `InOrder`: what a slow reader still holds up is
behind what every reader has seen) and of a toolset's calls (`Row`: one running at most, the
earlier ones done). `HandOver` is a recursive function over the calls that are ready; that it
keeps the books is shown by induction. An entry goes from held to started only where the loop
asks for the call, which gives `HoldsAreInTime`.

The second part is the loop. `LoopInv` says which reply the loop is at (`ReplyBooks`,
`ResponseBooks`), what a caller may still do after the last one (`FinalBooks`), that the loop
waits for what it started (`WaitsForCalls`), that it lets no call go unless it is waiting for it
or has entered it (`LetsGo`), and how often a call may run (`RunOnce`); `StrayBooks` says that a
call beside a request is a slow reader's, at the final compaction. None of these is inductive
alone: that nothing runs when the request goes out depends on every call being entered, and
that on the reply the loop is at.

The third part is the history. `TurnsAreWhole` is about the moment a question goes out, but what
makes a history whole is said before: the reply, its results, what the caller pushed or set in
between. `TalkInv` says how whole it is at each point of the loop (`HistoryBooks`: wholly, or but
for the reply the loop is at), that a history taken over by a compaction is followed by words of
the caller only (`CompactedBooks`), that the edit of a loop body ends in the reply or has its
results (`WithoutBooks`), that a question is the beginning of the history it was made of
(`QuestionBooks`), when there is one (`AskingBooks`), and that every word said is in the history,
in the parameters or among what the caller or a compaction took away (`SaidBooks`). The lemmas in front
are about histories as sequences: appending, replacing the part a question covers, leaving out.

- `HoldsAreInTime`, `CallsInTheirPlace`, `QuestionsAreWhole`.

Only model-checked: the liveness properties and whatever depends on fairness, which the prover
does not reach; that `MessageThread` implements `Conversation` (`IsConversation`); and the
properties that fail.

## Plan

Written so far, in this order: the runner (the largest concurrent part), the lease, the
token cache; then the memory stores, the threads and the tool loop; then the proofs. No module
has recursive operators, so that each can be proved about.

Next:

1. `IsConversation`: the edits of a turn in flight, step by step as steps of `Conversation`.
2. `BashTool`: one shell with its buffer, timeouts, and calls that a restart overtakes.
3. `LineDecoder` and `SSEDecoder` as functions of the chunking against the whole text; `Tee`.
4. The user OAuth provider, whose refresh token rotates, as a second provider of `TokenCache`.

## Not modelled

Component by component, with the reason, in "components" of `PROJECT.json`. In short:
the API resources, more than two thirds of the implementation, are generated types and
builders of one request each, without state; a module of them would restate types, which
is why the map covers a small share of all lines although it covers most of the
concurrent code. Parsers, schema transforms, platform packages and pagination are pure
conversions or wrap one request. The bash session, the stream decoders, `tee` and the user
OAuth provider have hazards of their own, listed under "hazards" and planned above. Of the
modelled parts are left out: waiting times and jitter, tracing and logging, content,
headers, betas, usage and containers, `fork()` and parsing of threads, tool changes of the
tool runner, the poller's drain mode.
