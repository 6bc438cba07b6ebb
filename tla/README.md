# zmux-python: TLA+ models and proofs

zmux-python binds the Rust crate `zmux` (sessions that multiplex streams over
several carrier connections, "pipes") to Python's asyncio. The protocol itself
lives in the crate; what this repository adds is the border between a
multi-threaded Rust runtime and a single-threaded event loop: how a coroutine
becomes a Rust task and back, who may enter the interpreter when it exits, who
owns a stream part, a carrier or a reservation, what runs for a carrier a
listener takes in, the asyncio-style objects on top, and the translation of
options. These modules model that border.

## The system's parts

| Part | Source | State | Operations | Hard because |
|---|---|---|---|---|
| Exit gate | `rt.rs` | `EXITING`, `INFLIGHT`, the GIL | `attach`, `_shutdown` | every runtime thread races the interpreter's exit; attaches nest; the wait is bounded |
| Future bridge | `rt.rs` | asyncio future, `OnCancel`'s channel, the Rust task, the ready queue | `future_into_py`, `Complete`, `OnCancel` | a result races a cancellation, a closed loop, a forgotten future |
| Task bridge | `rt.rs` | `Slot`, the result channel, the asyncio task | `into_future`, `Start`, `Done`, `CancelOnDrop` | the Rust future is dropped on any thread while the loop starts or ends the task |
| Stream handles | `lib.rs`, `helpers.rs` | `Part` = mutex over the part or nothing | coroutines (`held`), plain methods (`held_now`), `take_now`, `pair`, `stream_pipe`, `splice` | cancelled calls, waiters, calls that use the handle up |
| StreamWriter | `zmux/__init__.py` | `_buf`, `_queued`, `_task`, `_closing` | `write`, `_flush`, `drain`, `close`, `wait_closed` | two background tasks, cancellation through `await`, failed sends |
| Carrier transport | `zmux/_layer.py` | queue, flags, two loops | `write`, `write_eof`, `close`, `abort`, `pause_reading` | loops against callbacks |
| Layer channels | `layer.rs`, `zmux/_layer.py` | two bounded channels, a reservation, two pumps | `ChanIo`, `LayerEnd`, `run` | backpressure, abandoned writes, cancelled pumps |
| Pipes, reservations, pools | `lib.rs`, `pool.rs`, `mode.rs` | take-once cells, futures in flight, the pool's dial | `PipeIo`, dials, `start`, `dial_mode`, `add_pipe`, `reserve_pipe`, `attach`, `maintain_pipes` | two takes of which one fails, futures dropped with a carrier inside, threads that race |
| Admission | `admission.rs` | the decider's loop, the exporter's channel, the coroutine | `with_info`, `export`, `decide`, credentials | the asked thread may be done; a decision is given up |
| Listener | `lib.rs`, `layer.rs` | accept loops, carriers under way | `serve_*`, `handle_pipe`, `accept`, `shutdown`, `close`, `transform` | a loop registered after the close; Python holds the carrier |
| Options | `lib.rs`, `pool.rs`, `mode.rs`, `admission.rs` | none | conversions | sentinels, fields that exclude each other, the way back to Python |

(`rt.rs` and the other Rust files are under `src/src/`, `zmux/` under
`src/python/`.)

Interaction: every coroutine of the native layer is a call of the future
bridge; every Python callback the crate makes (dialers, deciders,
transforms) is a call of the task bridge; both enter the interpreter only
through the exit gate. Stream handles and StreamWriter are clients of the
future bridge; the carrier transport and the layers are clients of both; the
listener shares one admission among its carriers and with other listeners.

What makes the parts correct, in short: no runtime thread in a finalizing
interpreter; a call is answered at most once, only with a result that exists,
and its operation is stopped only when its caller has gone; a stream part, a
carrier and a reservation have one user at a time and are used up once; bytes
arrive in order, without gaps, and before the end; a decision and everything
Python runs for it end; only accepted carriers get in. `PROJECT.json` lists the
hazards line by line with the property that would catch each.

## Modules

- `ExitGate`: one action per atomic step of `attach` on a runtime thread
  (`Count` = fetch_add, `Admit`/`Park` = the load of `EXITING` and what follows,
  `TakeGil`, `SwitchOut`, `Return`, `Uncount` = the drop of the guard), attach on
  threads of Python, and the main thread up to `Finalize`. `INFLIGHT` is kept as
  each thread's share, because the hook only compares the sum with zero.
  `Nesting` bounds attaches inside attaches (error construction inside a closure
  makes two).
- `AsyncCall`: the abstract specification of a call across the border: two sides
  (`caller`, `work`), an answer only from finished work, work stopped only for a
  caller that has gone.
- `FutureBridge`: `future_into_py`. Variables for the asyncio future, the task
  that awaits it, the references Python holds, the place of `OnCancel`'s sender,
  the Rust task and the loop's ready queue. `Call` is the whole function;
  `PollCancel`, `PollPending`, `PollReady` are one poll of the biased `select!`
  split where another thread can act; `Post` is the blocking job; `Complete`,
  `OnCancel` and `Wakeup` are handles the loop runs in queue order. asyncio
  (futures, tasks, `loop.close`) is external and modelled from how the code uses
  it. It implements `AsyncCall`.
- `TaskBridge`: `into_future`. `Start` holds the slot's lock throughout and is
  one step; `CancelOnDrop` is two, the lock being released before the
  cancellation is posted. It implements `AsyncCall` with the roles exchanged.
- `StreamParts`: extends `AsyncCall`, whose calls are the coroutines of the stream
  handles, by tokio's FIFO mutex (`line`, `ahead`), the parts still in their
  handles and the pairs taken out of them. Because the future bridge implements
  `AsyncCall`, what is shown here holds for the calls the bridge makes.
  `MCStreamParts` assigns calls to parts for TLC.
- `StreamWriter`: steps end at an `await`. Bytes are counted, not stored: the
  bytes written are 1..`written`, `took` of them left `_buf`, the last `flight`
  of these are in `stream.write`. The cancellation of `wait_closed` is one step
  that tears down what it awaits, as `Task.cancel` does through its chain of
  awaited futures. A stream that failed once fails later writes and `finish` too.
- `CarrierTransport`: `_CarrierTransport` over a `CarrierStream`. `rd` and `wr` say where
  the two loops are, `rop` and `wop` where their operations on the carrier are (asked
  for the half's mutex, holding it). An ended operation's result waits in `rd`/`wr` for
  the loop to resume its task, so every method of the transport can come in between. A
  cancelled loop runs nothing more, its operation is dropped later. `wrap` stands for the
  `wrap()` around the transport: its layer returns or raises at any time, and a raise takes
  both halves out (`release`). Entries of the queue carry their place in the order of the
  writes; bytes are lengths. The protocol is external: asyncio's stream or TLS protocol,
  which may pause from `data_received` or let an exception out.
- `LayerChannel`: `ChanIo` and `LayerEnd`, the bounded channels the crate reads and
  writes a layered carrier through, with the pumps `up` and `down` of `run()`. `PollWrite` is
  one poll of `poll_write`: the reserve of an earlier poll is kept when the crate abandons
  a write, and a sender lives in it until a shutdown drops it. A pump that is cancelled
  leaves its Rust operation behind (`"cancelled"`), which may still take or send a message
  before it is dropped. Both `finally` clauses are part of the actions that end a pump.
- `Admission`: `with_info` with its scoped thread, the answering loop and the channel of
  `CarrierInfo.export`; deciders, plain and `async`, and credentials. Three askers share a
  carrier's channel: the call, its coroutine, and whoever kept the view. A panic in the call
  sends no `Done`, and with a kept view the answering thread stays (`"stuck"`).
- `Serving`: extends `Admission` by a `Listener`: its construction (which checks come first
  decides whether the admission takes the loop), `serve_*` as bind, spawn and
  registration of the accept loop, `handle_pipe`, `accept`, `shutdown` and its cancellation,
  `close`, and for each carrier the admission and the inbound transform with its `Release`
  guard, while Python may use the given object up at any time. `made` is history: the loop a
  listener was made in and the one its admission had then.
- `Settings`: the conversions as operators, no state: `StoreUnsent`, pipe options to the
  crate and back (`pipe_options`, `options_obj`, `pipe_update`), the kinds of `Config` fields, TLS
  settings and ALPN lists, the arguments of dials, mode candidates and pools, and the probe settings
  of a policy's decision (`DecidedProbes`, `WithProbes`). A value that is only accepted or refused is a word. `None` passed for an unknown `Config` field is accepted,
  as in the code: it is skipped before the name is looked at.
- `PipeUse`: extends `Settings` by the carriers themselves. `held` is what each `PipeIo`
  holds, `call` the futures in flight with the connections they own, `pipe` the session's
  pipes with their options, `res` the reservations, `pool` and `pdial` a pool's maintainer
  and the coroutine of its dial. A policy decides at any time (`Decide`), and its probe settings hold
  for the pipes added from then on (`MemberOptions`); `join()` gets the options of when it was called.
  `attach()` takes two locks in turn and is two steps. A future that fails or is dropped drops the connections it
  has, except that of a `wrap()` cancelled once its layer runs (`WrapCancelled`): `layer.rs:253` releases the carrier
  only for the layer's own error, so it stays open with the transport Python made of it. Every
  call's guard is what the code accepts, so bad arguments start nothing, except where the code
  takes the carrier first (`Start`, `attach`). `MCPipeUse` gives the arguments for TLC.
- `*Proofs`: the theorems, see below.

Definitions whose names say so (`...Unasked`, `...Unbiased`, a comment "Mutant of
...") are mutated forms of the definition after them: plausible bugs that the
property named in `PROJECT.json` detects.

## Runs

| Run | Configuration | Shows |
|---|---|---|
| `exit_gate` | 3 runtime threads, 1 thread of Python, nesting 2 | the gate is safe; the exit is not held up except by an attach parked inside another |
| `exit_nested` (violated) | 2 runtime threads | a nested attach parks with the GIL, the main thread waits for ever |
| `future_bridge` | 2 calls on one loop | cancellation ends and pre-empts the operation, results are delivered, refinement of `AsyncCall` |
| `future_lost` (violated) | 1 call | until `OnCancel` has run on the loop, the operation of a cancelled future may still be polled ready: it takes its bytes, and nobody gets them |
| `task_bridge` | 2 calls on one loop | a drop cancels the task or it never starts, no awaitable is left, waiters are answered, refinement |
| `stream_parts` | write and finish on one part, read on the other, two streams, one of them without an ID | plain calls raise only while an operation is under way, pairs are taken whole and once, no hang on a busy, cancelled or used-up handle |
| `stream_writer` | up to 4 bytes, high-water mark 1 | FIN after every byte, `drain()` means sent, writes are sent, `close()` and `drain()` end |
| `carrier_transport` | 2 writes of 1 or 2 bytes, marks 2/0, changed limits | order, ends, pauses end, a layer that closed its writer fails `wrap()` |
| `layer_channel` | depth 2, 4 writes, 3 bytes read in chunks of up to 2 | each write once and in order, the end after the data, ends propagate, no write waits for ever |
| `admission` | 2 carriers, 2 loops; one carrier's call and coroutine ask, the other's view is kept | the call's requests are answered, nobody waits for ever, decisions end with their coroutines |
| `serving` | 1 listener, 1 serve call, 1 carrier, 2 loops | only accepted carriers pass, an `async` decider runs on the loop of the listener that gave its admission one, a transform keeps no carrier, the close ends loops and coroutines |
| `pipe_use` | 3 connections, 2 objects, 1 future, 1 reservation, at most 2 pipes, pools with and without a policy | one owner per connection, refused calls keep the carrier, pool options and the policy's probe settings reach the members |

Bounds. Two calls on one loop are enough for the bridges: calls share only the
ready queue, and two put any handle before or after any other's. Three runtime
threads let one park with the GIL, one wait for it and one be counted. In
`stream_parts` two calls compete for one part while a third keeps the other half
busy, so that `pair` meets every combination of locks; longer lines are covered by the
proofs. Four bytes and a mark of one let StreamWriter have data in flight, in the
buffer and already sent, above and below the mark. Two writes put one in flight and one
in the queue when the transport is closed, aborted or fails; the order of more is proved.
In `layer_channel` four writes fill a channel of two while one waits for a place and one was
abandoned before it; chunks of two bytes are read in part. In `admission` two carriers
compete for one loop, on which a coroutine that asks blocks the other, and two loops and
the listeners made on them race for the decider; the kept view of the second carrier asks
after the call's end. In `serving` another listener can be made on the admission at any
time and on either loop (`OtherListener`), also before the modelled one, a second carrier would add nothing: carriers share only the
listener's state and the admission, which `admission` checks with two. In
`pipe_use` three connections reach a full session (2 pipes) with one more carrier to be
refused, two objects let one be made out of another and be raced for; one future at a time is
enough because futures share nothing but what the actions take from objects, the session and
the reservation, which other threads' plain calls take meanwhile. Its two decisions are one that
is applied and one that is rejected, before, during and after a dial. Connections and objects are
interchangeable (symmetry): the run has no liveness property.
`CHECK_DEADLOCK FALSE` where a program that has made all its calls may stop; `pipe_use` checks
deadlock.

The violated runs each state a sentence of the repository's own documentation;
`findings` in `PROJECT.json` quotes it and the code that departs from it.

### Further configurations

Seven more configurations, not in the list of runs, state what the documentation
says and are violated by what the code does:

- `FutureBridgeDropped.cfg` (`DroppedEndsOperation`): `rt.rs:144-145` says "Cancelling it
  (or dropping it unawaited) drops `fut`." The spawned task holds `fut_py` (`rt.rs:159`), so an
  asyncio future dropped unawaited is never collected and its operation runs on.
- `StreamPartsSecond.cfg` (`SecondCallRaises`, module `MCStreamParts`): `_zmux.pyi:931-932` says
  "One operation at a time: a second concurrent call raises `RuntimeError`." Only plain methods
  do; a coroutine waits for the mutex (`lib.rs:2835`), behind a pending `stopped()` without bound.
- `StreamWriterClose.cfg` (`CloseFinishes`): `__init__.py:485-486` says "close()/write_eof()
  finish the stream once the queue is sent." A cancelled `wait_closed()` (`__init__.py:553`, no
  shield) cancels `_finish` and the background send: the queue is dropped on a healthy stream.
- `CarrierTransportRelease.cfg` (`LayerErrorRaises`): `_zmux.pyi:203` says "A layer's error raises
  `ConnectError`." `release()` (`layer.rs:51`) waits for the mutex a read holds; with a silent peer
  the failed `wrap()` neither raises nor closes the carrier.
- `AdmissionExport.cfg` (`AsyncExportAnswered`): `_zmux.pyi:291-293` and `admission.rs:384-385` say the
  exporter of an `async` decide answers before its first `await`. The coroutine is posted to its loop by the
  call (`admission.rs:329`), which sends `Done` afterwards: on a multi-threaded schedule the
  request may come behind `Done` and get None.
- `ServingLoop.cfg` (`DecidesOnListenerLoop`): `_zmux.pyi:327-328`, the repository's `README.md:169-170` and
  `admission.rs:384-385` say that an `async` decide runs on the event loop the `Listener` was made in. The loop is
  kept in the admission and set once (`admission.rs:294`): a listener made with an admission that was created
  on another loop, or that an earlier listener of another loop has used, decides on that loop.
  `DecidesAtHome` of the run `serving` is the part that holds.
- `ServingLate.cfg` (`CloseEndsEveryLoop`): `_zmux.pyi:1404-1406` says of `close()` that "the `serve_*` loops end".
  A loop is registered after its bind (`lib.rs:3295`): one whose call was under way at the close, or came
  after it, joins a list nobody empties again and runs on. `CloseEndsLoops` is the part that holds.

## Fairness

- Threads go on with their own code; the GIL's waiters are served in turn (strong
  fairness), as CPython's forced switching provides. Nothing forces a thread to
  attach, or the program to exit.
- An open loop runs its ready handles; tokio polls a task that was spawned or
  woken and runs its blocking jobs. An operation need never become ready, a task
  need never end, a future need never be dropped.
- `StreamParts` takes the drop of a cancelled call's operation as fair, which is
  `CancelEndsOperation` of `FutureBridge`.
- `StreamWriter` assumes that a write on the stream ends: the peer takes the data
  or the stream fails. The liveness properties of that run rest on it.
- `CarrierTransport` assumes the same of a carrier's write and shutdown, and nothing of its
  reads: the peer may stay silent. `release` waits in the mutexes' FIFO lines (strong
  fairness): only an operation that never ends keeps it out.
- `LayerChannel`: pumps are scheduled and their operations polled; a drain ends or
  fails; the crate polls again what was woken and goes on reading; the layer's reader ends once
  its writer is closed, as both are one asyncio transport. Nothing makes the crate write,
  shut down or drop, or the layer's peer send.
- `Admission`: both threads of `with_info` run and a call returns (a decider that never
  returns holds its thread: nothing in the code ends it). A loop starts what is posted and delivers
  cancellations although other coroutines run (strong fairness: its queue is in order); a
  coroutine's step ends. The crate's peek timeout ends a decision.
- `Serving`: besides, the crate ends the transforms and carriers that wait (handshake timeout, the
  listener's end) and a cancelled coroutine ends. Binds, accept loops and `shutdown()`
  need never end.
- `PipeUse` states no fairness and no liveness: dials, pipes and sessions may stay for ever.

## Proofs

All for arbitrary constants, checked by TLAPS:

- `RuntimeProofs`, the exit gate: `IInv` is inductive (each thread's share of `INFLIGHT` is its
  depth plus one while it is at the gate; the GIL's holder agrees with every
  thread's place; after the hook saw zero every thread is outside or at the
  gate). From it `TypeCorrect`, `NoEntry`, `GilSafety` and the action property
  `GateStaysShut`. `NoEntryWhileFinalizing` alone is not inductive: it needs the
  shares, and that `EXITING` is set by then. Assumptions: the thread sets are disjoint,
  `Nesting` is positive.
- `RuntimeProofs`, the task bridge: `TaskInv` is inductive. It justifies every handle of the
  ready queue (a `Start` only while its awaitable is held, and once; a `Done` only for an ended task;
  a cancellation only for a dropped future), ties the slot and the sender to the awaitable and the
  task, and says that the task of a dropped future runs only while its cancellation is queued.
  `loop.close()` made one clause necessary that no property states: a sender still in `Start` means
  an awaitable still held, or the close could answer a waiter whose awaitable never ended.
  `DroppedStartsNothing` (the safety half of `DropCancelsTask`) and the refinement `TaskRefinesCall`
  follow. No assumptions.
- `FutureBridgeProofs`: `FutureInv` is inductive as it stands. The main work is the ready
  queue: every handle is justified by the state (a `Complete` only after the
  operation, one wake-up per task), which lemmas carry through appending callbacks and
  removing the first handle. `FinalOutcome` and the refinement `FutureRefinesCall`
  follow action by action. `SignalPreempts` rests on a predicate that no step undoes: signalled, and
  between two polls or dropped.
- `StreamPartsProofs`: `PartsInv` is inductive (the waiters of each part are totally
  ordered by `ahead`, transitively, and all are running). `OneOwner`, `BusyJustified`, `NoTake`
  and `PairedOnce` follow. Assumption: `PartOf` maps calls to parts.
- `StreamWriterProofs`: `WriterInv` is inductive; it links the byte counts with the states of
  `_flush`, `_finish` and `drain()`. `FinLast` needs that `_finish` reaches
  `stream.finish()` only past a task that ended well, and `DrainSent` that `drain()` waits
  only while bytes are queued.
- `CarrierTransportProofs`: `TransportInv` is inductive. `OrderInv` places every accepted write
  (sent, in flight, queued, by number), also in the operation of a cancelled loop that is
  still to be dropped, which may reach the carrier after the loss; `LossInv` says when the
  write loop may have ended, on which the short cut of `close()` rests. `InOrder`, `CloseKeeps`
  and `PauseHeld` follow. Assumptions: lengths and marks are naturals.
- `LayerChannelProofs`: `TypeOK`, `WriteInv` and `ReadInv` are inductive together. `WriteInv`: what
  `poll_write` took is, in this order, in `w2`, in the pump's hand and in the channel; when the pump is over,
  `w2` has a prefix of it. `ReadInv`: what the crate read, the rest of its message, the messages of the
  channel and the pump's chunk are consecutive ranges of numbers that end at what the layer gave, unless a
  cancelled pump dropped its chunk. Both chains are stated link by link (each message starts where the one
  before ends, each ends at or before `fed`), because a fact about the whole channel would need induction over its
  length. `WrittenOnce` and `EofLast` follow. Assumption: the depth and the chunk size are positive.
- `PipeUseProofs`, conversions: facts for every value. `UnsentKept`: the sentinel of
  `UnsentCount` is never met by a count. `OptionsTyped` and `OptionsRoundTrip`: accepted options
  are options of the crate, and what `options_obj` makes of native options is accepted again and
  becomes the same options. `UpdateKeepsFixed`: `Pipe.update` never
  changes a fixed field. `AlpnAgrees`: a client and a server with equal ALPN lists (none included) share a protocol on
  every carrier over TLS. `ProbesTyped`: an accepted decision of a policy gives options of the crate. Assumptions: `u64::MAX` is at least 2, `None` and `Off` are no values of a field.
- `PipeUseProofs`, ownership: `PipesInv` with `MembersShareOptions` is inductive
  (`UseInvariance`). `OneOwner` alone is not: `CallsAgree` adds that a future that attaches has a reservation
  and one that waits holds no connection, `PoolAgrees` that a dial that returned has its object, that without a pool there
  are no members and no decisions, and that the options handed to a dial under way come from a decision.
  `CarriersOwned` and `RefusedKeeps` follow, and `MembersAgree`, which rests on `OptionsRoundTrip` and `ProbesTyped`.
  Assumptions: the arguments are arguments of the operations, and the words for
  "nothing" are no names of objects or connections.
- `ServingProofs`, admission: `AdmissionInv` is inductive. For each carrier `ChannelAgrees` (a request is in the
  channel once, exactly while its asker waits, and `Done` only after the call has sent it), `CallAgrees` (a call
  that is over waits for nothing and got its exporter values; only one with an exporter has a `Done` to send) and `DecisionAgrees` (coroutine, result and outcome).
  `CallAnswered` follows.
- `ServingProofs`, listener: `ServingInv` with `TransformReleases` and `CloseEndsLoops` is inductive
  (`ServingInvariance`); `AdmittedOnly`, `TransformLetsGo`, `LoopsEnd` and `DecidedAtHome` follow, the last from
  `HomeAgrees` (the admission of a listener that gave it its loop keeps it) and `OneLoop` (so does every coroutine posted). `ServingRefinesAdmission`: every step of
  the listener is a step of the admission or leaves it alone, so what is proved of the admission holds in the
  listener. Assumption: `"none"` is no listener.

`TypeOK`, `GilHeldInside`, `FutureInv`, `OutcomeIsFinal`, `PartsInv`, `MutualExclusion`,
`NoTakeUnderOperation`, `WriterInv`, `TransportInv`, `PauseHolds` and `TaskInv` are proved and no longer
part of a run; TLC checked the inductive invariants before they were proved. TLC evaluates the assumptions on the constants in the runs.

Only model-checked: everything under fairness (the liveness properties of all
runs, `DropCancelsTask`'s second half among them), which is out of the prover's reach. Every safety
invariant and action property of the passing runs is proved.

## Not modelled, and the plan

Next: facts that only proofs reach, past the bounds of the runs: that a carrier of `Serving` reaches the session
only through `PipeUse`'s ownership rules, and the safety core of the liveness arguments (what each fair
step decreases) of the bridges and the layers.

Left out: the protocol itself and the crate's own machines (pool policy,
carrier cache, shapers, the choice among a mode's candidates), not in this repository; `PyLimiter`
and `resolve_duplicate`, whose only steps are task-bridge calls the crate polls in a way `src/` does not show;
shaper definitions and the single fields of a `Config` (each is parsed and stored); file and PEM reading; statistics, events and typed records (copies of fields); the Python
`connect_*` helpers (a dial and a start in sequence); formatting of errors. In the modelled
parts: byte contents, error kinds, and the zero-copy buffers.
