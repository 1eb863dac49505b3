# Qwen3x-Orin: TLA+ models of the engine and its server

Qwen3x-Orin is a native inference engine for one model on one Jetson Orin, with an
OpenAI-compatible evaluation server in front of it. This directory models the parts of it
that are hard to test: the server's threads and queues, the mailbox two threads share for
every request, speculative (multi-token prediction) decoding, the prefill plan and the
submission of its work to the device, the hand-over of device memory from a request to the
next, the parallel weight loader, and the life of an engine with its repacked weights and
captured decode graphs.

Paths below are relative to the repository root. `evaluation_server.cpp` is
`src/server/evaluation_server.cpp`; runtime files are in `src/runtime/`.

## 1. Inventory

| Component | State it keeps | Operations | Modelled in |
|---|---|---|---|
| Gateway reactor (`run_evaluation_server`, `stage_http_connections`) | stop flag, staging vector with a deadline per connection, accept budget | poll, stage, accept, evict, leave, shut down and join | `Gateway` |
| Bounded queues (`BoundedQueue`) | deque, `closed_` | `try_push`, `pop`, `close` | `Gateway` |
| Ingress threads (`ingress_worker`, `handle_connection`) | the socket and request they hold | route, admit, refuse, wait, send, stream | `Gateway`, `InferenceJob` |
| Inference worker (`inference_worker`, `execute_job`) | the job it executes | pop, execute, publish, revalidate health | `Gateway`, `InferenceJob` |
| Job mailbox (`InferenceJob`) | event deque, one-shot response, stream start, cancellation flag | `push_event`, `close_events`, `set_response`, the three waits | `InferenceJob` |
| Health latch (`EvaluationProductionRuntimeHealth`) | `healthy_` | `observe`, `observe_failure`, `ready` | `InferenceJob`, `Gateway` |
| UTF-8 renderer (`render_utf8_output`) | pending bytes of a token | render, hold back, flush | `Utf8Output` |
| Generation control (`run_generation_control_impl`) | generated tokens, stop reason | admission, four prefill routes, commit, decode loop, failure exits | `RequestLifecycle`; the decode loop alone: `GreedyDecode` |
| MTP service (`mtp_detail::Service`, `run_round`, `TargetTransaction`, `Draft`) | transaction flags, snapshot slots, GDN owner, draft position and rows, poison flags | initialize, begin, propose, verify, commit a prefix, finish, abort | `MtpDecode` |
| Request state and reset (`RequestState`, `begin_ordinary_request`) | KV, convolution and GDN regions, sequence length, reuse boundary | three reset modes, stage, commit boundary, roll back | `RequestLifecycle`, `MtpDecode` |
| Prefill plan and progress (`prefill_execution_plan`) | panels, spans, progress cursor | plan, admit, nine progress calls, publish | `PrefillPlan`, `PrefillProgress`, `DecoderDataflow` |
| Whole-request submission (`prefill_whole_request_layer_major_core`) | ring of two events, stream contents | enqueue, record, retire, drain, replay, fail | `SubmissionWindow` |
| Decode graph cache of the runner | slots, shared executables, production flag | warm up, capture, publish, replay, retire | `DecodeGraph` |
| Resident loader (`load_resident_weights`) | arena, streams, staging buffers, shard outcomes | plan, claim, read, hash, copy, authenticate, join, unwind | `ResidentLoader` |
| Sidecar layouts (`prepare_*`) | repacked weights, pointers into them | select, inventory, allocate, pack, attach, fall back | `SidecarAssets` |
| Engine (`ReferenceEngine::Impl`) | its members, in declaration order | build, run, destroy | `EngineLifetime`, `MCEngine` |
| Marlin GEMM scheduler (`marlin_template.h`) | locks, `C_tmp` slots | partition into stripes, acquire, reduce, release | `MarlinStripes` |
| HTTP reading, sockets | byte buffers | recv, parse, send with timeout | outcomes only, in `Gateway` |
| OpenAI protocol, tokenizer | none | pure functions on strings | not modelled |
| Prefill authority and route evidence | digests, receipts | seal, attest, compare | not modelled |
| Other kernels, quantization, tools | device buffers, files | numerical work, measurement | not modelled |

How they interact. The reactor thread owns every socket until a whole request has been
read; then the socket moves through the ready queue to one ingress thread, which routes
it. Health and refused requests are answered on the spot. An inference request becomes a
job in the inference queue, and the ingress thread waits on the job's mailbox while the
single inference worker runs the engine. The engine resets its request state, prefills the
prompt (token by token, in tiles, or as one whole request whose work is submitted to the
device through a bounded window and accounted for in the progress ledger), and decodes,
step by step, by replaying captured graphs, or in MTP rounds. It calls back into the
gateway at every committed token (`observe_gateway_token`); that callback renders the
token's bytes, pushes into the mailbox and may block there. Cancellation goes the other way
through a lock-free flag.

What is hard in it, and what it takes to be correct:

* **Two threads, one mailbox.** Events are popped under a lock and sent outside it; an
  error may have to become a response or an event depending on a race; a slow client must
  not pin the only worker. Correct means: FIFO without loss or repetition, bounded, one
  kind of answer, a well-formed stream, and both threads get out.
* **Health.** The engine may invalidate its own receipt while it generates. No success may
  be published afterwards, and every completed queue item must leave the latch closed.
* **Limits and shutdown.** Staging, ready queue, inference queue and thread count are all
  bounded; the reactor closes two queues and joins threads that wait on each other.
* **Speculation.** Rejected proposals leave garbage in KV rows, snapshot slots and draft
  rows. What the client sees must be exactly the ordinary greedy continuation, and the next
  round, and the next request after a failure, must not see the garbage.
* **Reuse of device memory.** The cheap reset clears only what the previous request is known
  to have written. It may only be granted after a success that covers every write, and no
  request may read a position of another one.
* **Asynchronous device work.** The host runs ahead of the device: in the submission window,
  in the loader's copies, in the packing kernels. Nothing may be freed, reused or reported as
  done before the device is.
* **Order of a long schedule.** The progress ledger is the only witness that every panel of
  every layer was executed before the request is published.
* **Partial failure of construction.** An engine is built in some twenty steps, each of which
  may fail; what exists is destroyed in reverse order, and no pointer may outlive what it
  points to.
* **Blocks that wait for each other.** The stripe scheduler's blocks spin on counting locks
  that later launches reuse without clearing.

`PROJECT.json` lists every hazard with its line and the properties aimed at it.

## 2. Modules

### `InferenceJob`: one admitted request

One action is one critical section of the job's mutex, one engine callback, or one blocking
send. `wpc` and `ipc` are the program counters of the worker and of the ingress thread.

| Model | Code |
|---|---|
| `events`, `stream_start`, `response_ready`, ... | the fields of `InferenceJob` with those names |
| `PushSucceeds`, `PushRefused`, `CloseEvents`, `SetResponse` | `push_event`, `close_events`, `set_response` |
| `BeginExecute` ... `ConcludeResponse` | `execute_job` from its two early returns to its last publication |
| `ObserveToken`, `EncodeToken`, `EncodeFails` | `observe_gateway_token` |
| `PublishResponse`, `PublishEarlyError`, `PublishErrorEvent` | the three branches of `publish_job_error` |
| `WorkerThrows`, `RefreshHealth` | the handlers and the last call of `inference_worker` |
| `WaitAborts`, `WaitEnds`, `Stream*`, `Send*` | the waits, `stream_response` and the sends of `handle_connection` |
| `Stop`, `PeerDisconnects` | the signal handler and the client |

The text of an event is abstracted to its kind, token index and finish reason. `pushed`
and `send_failed` are history variables that only properties read. `receipt_ok` is whether
the engine's load receipt still matches the sealed route; `ReceiptDiverges` is the one place
where the engine changes it at run time (it retires its decode graph cache after a replay
failure). The model is of the enforced, sealed route; a development route is the special
case in which `receipt_ok` stays true and no failure counts as poison. A host exception may
leave `execute_job` anywhere and its handler once more.

### `Gateway`, `MCGateway`: everything around the jobs

`mpc` is the reactor, `tpc` the ingress threads, `wpc` the worker. A job is reduced to its
life cycle (`none`, `queued`, `active`, `done`), its cancellation flag and the status its
mailbox holds; what happens inside it is `InferenceJob`. `StageOne` is one iteration of
`stage_http_connections`, `Accept` one iteration of the accept loop, with eviction inside
it. `Shutdown` takes the three statements of `~WorkerJoinGuard` (stop flag, ready queue,
inference queue) one at a time, because their order matters, and `Join` waits for the threads
in the order the code does. An exception may leave `handle_connection` (`ThreadThrows`) or
`execute_job` (`JobThrows`); one that leaves while a stream is sent is only logged, and its job
is neither cancelled nor read any more. The event deque is reduced to whether a push waits
(`PushWaits`) and to what ends the wait: a thread that still reads the job, a cancellation, a
stop (`PushMayEnd`). A staged connection is `partial`, `whole` or `late`; `late` means
the deadline passed before the reactor read the rest, so the code drops it unread even if it
is complete.

`MCGateway` adds the symmetry sets (connections and threads are interchangeable) and, for the
liveness run, where symmetry is unsound, an initial condition that fixes one order of the
connections' kinds.

### `GreedyDecode`: what decoding promises

The abstract specification, and step for step the ordinary decode loop of
`run_generation_control_impl`: tokens of the greedy continuation `path` are handed to the
observer one at a time; a stop token takes precedence over a refusal, a refusal over the
length limit.

### `MtpDecode`: speculative decoding

`Service::decode`, `run_round`, `TargetTransaction` and `Draft`, call by call. The guards
`CanBegin`, `CanPropose`, `CanVerify`, `CanCommit`, `CanFinish` are the early returns of the
backend's calls; when one is false, or when the device fails, the only possible step is
`CallFails`, which aborts the round. `OptionsValid` is the option check of `run_round`.

The data abstraction: a piece of device memory holds a number `k`, "computed from the prompt
and the first `k` tokens of the greedy path", or `Off`, anything else. A row whose inputs are
`k` and the right token holds `k + 1`; any other row holds `Off`, and on such a row the
target's argmax is arbitrary (`Predictions`). The draft's proposals are arbitrary from the
start. So the model does not assume that the draft is any good, nor that a wrong prefix
predicts a wrong token: later predictions may match rejected proposals by accident.

The state that is edited in place is kept in place: KV rows, the convolution state and
final hidden row (`rec`), the GDN region of the arena (`home`), the snapshot slots, and the
owner of the live GDN state, which a commit moves to a slot instead of copying (the composed
MTP package builds with `Q3X_ENABLE_MTP_GDN_OWNER`). The draft's position, its rows, the
reused row of the pending token (`seedCache`) and the prepared tail are modelled as they are.
Positions count from the end of the prompt.

Between requests `ResetTarget` is the conservative reset: an MTP engine requires whole-request
layer-major prefill, and for that memory profile `select_request_reset` always asks for it.
Snapshot slots and draft rows survive it.

### `PrefillPlan`, `PrefillLedger`, `PrefillProgress`, `DecoderDataflow`: the schedule of a prompt

`PrefillPlan` is `prefill_execution_plan.{h,cpp}` as operators: the panels of a prompt, the
segments of a panel, which requests a tactic admits, and the calls that record one completed
piece of work in the ledger. A refused call returns an error and leaves the ledger alone.
`PrefillLedger` declares the two pieces of state this is about, a request's plan and its
ledger. `PrefillProgress` lets a caller make any of the calls with any argument at any time.
`DecoderDataflow` is what any prefill must respect: a layer's state covers only positions
whose input the layer below has produced, its output only positions its state covers, and
the request is committed once, at the end. `PrefillProgress` is shown to implement it by a
refinement mapping that reads, for each tactic, how far each layer's state and output reach
from the ledger's counters.

### `SubmissionWindow`: the host ahead of the device

One call of `prefill_whole_request_layer_major_core`. The stream is two counters, the quanta
submitted and the quanta finished; an event is the value of the first when it was recorded.
The host polls the client's cancellation where the code does, retires the oldest of two
slots, drains, replays the schedule into the same ledger, and stages the request.
The device is an actor of its own and may break for good; every CUDA call may fail.

### `RequestLifecycle`: one arena, many requests

`generate_tokenized`, `run_generation_control` and the runner's request boundary. A KV row is
zero, written by the current request, or left over; the recurrent state is the number of
tokens of this request it has absorbed, or `Off`. `SelectReset` is `select_request_reset`;
`Begin` chooses the prefill route; the whole-request route stages its state until
`CommitWhole` or `Rollback`; `Accept` promotes the reuse boundary. Every device operation may
fail, and so may the engine between them. An MTP round is reduced to what it leaves in the
arena (`MtpRound`); its inside is `MtpDecode`. The retained prefill mode exists in testing
builds only and is modelled as they have it.

### `Utf8Output`: text from bytes

`render_utf8_output` is a scan over bytes with the code's ranges for each lead byte; the
observer's pending bytes are carried from token to token. The reference is declarative: the
Unicode table of well-formed sequences and one U+FFFD per maximal ill-formed subpart.

### `MarlinStripes`: blocks that reduce a tile together

The persistent scheduler of the quantized prefill GEMM, `marlin_template.h`, a vendored
kernel the repository has modified and whose locks `reference_runner.cpp:2610` expects to
return to zero. A partial sum is how often it has added the product of each k step, so that
a tile is right exactly when every step was added once. The three raster policies of the
launchers are parameters of a launch; the group rounding of the stripe length is left out,
because no instantiated `kGroupBlocks` reaches it.

### `DecodeGraph`: captured decode steps

The runner's graph cache and the engine's use of it. A slot of the prepared window holds a
whole graph and shares one counted executable with the other slots; each replay first
updates that executable from the slot's own graph. A standalone slot of the screen owns its
executable and keeps only the embedding node. A request that fails after a production replay,
for the runner's sake or the control's own, clears and retires the cache. Handles are numbers with contents, the
position and token they would run, so a stale executable is visible as a wrong step.

### `ResidentLoader`: threads, streams, staging buffers

`load_resident_weights`. Every worker has a stream (a queue of copies and event records) and
two staging buffers; a copy reads its buffer when the device executes it, not when it is
queued, so a buffer that is refilled or freed too early corrupts the arena in the model as it
would on the device. A shard's digest matches exactly when its bytes do. `FreeWorker` and
`Return` are the unwinding of the owning objects, in the order of the code.

### `SidecarAssets`: repacked weights

`Selection` is the order in which `build` prepares layouts for a route (options, build flags
and, in a testing binary, the environment); `Conflicts` are the inventory checks each
preparation makes of those attached before. A preparation allocates its owner, queues one
pack per layer, waits, and attaches the pointers. A refused attach releases the owner, except
for target-AOT, whose owner is left to `Impl`'s destructor (`Refused`). Two layouts fall back when memory is tight,
the others fail the build; `scale6` is optional by itself, but the production build requires
`consumer_order`, which needs it. Freeing a buffer waits for the packs queued on it, as
`cudaFree` does. Scratch buffers inside one preparation are not modelled.

### `EngineLifetime`, `MCEngine`: the composition

One engine from `create` to its destruction: `ResidentLoader` fills the arena, the weights
are bound, the request state is created, `SidecarAssets` prepares its layouts, the runner is
built on all of them, and `DecodeGraph` captures and serves. A failure at any step, and the end
of a good engine, destroy the members of `Impl` in reverse order of declaration. `MCEngine`
gives the checkpoints and the routes.

### The proof modules

`InferenceJobProofs`, `GatewayProofs`, `RequestLifecycleProofs`, `MtpDecodeProofs`,
`Utf8OutputProofs` and `MarlinStripesProofs` each extend the module they are about. `PrefillProofs` extends
`PrefillProgress` and `SubmissionWindow`, which share the lemmas on how a prompt is cut.
`EngineProofs` extends `EngineInvariants`, which states the inductive invariants over
`EngineLifetime`, so what it shows of the loader, of the layouts and of the decode graphs holds
through the whole life of an engine. See section 5.

## 3. Runs

| Run | What it shows |
|---|---|
| `job` | One request with all interleavings of its two threads, a stop, a hang-up, failed sends and exceptions: `StreamIsFifo`, `SuccessIsSound`, `OneKindOfAnswer`, `StreamWellFormed`, `AnsweredInFull`, and `NeitherStranded` |
| `job_fail_closed` | finding 1 |
| `gateway` | `SocketsAreOwned`, `Bounded`, `AdmittedHasWaiter` (an uncancelled job has a thread that waits for it or streams it, save a stream whose thread threw while it sent), `HonestRefusal` (429 only for a full queue), `CleanExit`, `ControlPlaneHasThread` (some thread never waits for the worker) |
| `gateway_live` | `ShutdownCompletes`; `AcceptedIsClosed` (every accepted connection is closed, unless it asks for inference behind a stranded worker) |
| `gateway_evicts` | finding 2 |
| `mtp` | `ImplementsGreedy`: `MtpDecode` implements `GreedyDecode`; `StateMatchesOutput` at every round boundary; `FailsOnlyOnFault`: the backend's own checks never reject a healthy round |
| `prefill_progress` | `RespectsDataflow`: accepted calls implement `DecoderDataflow`; `LedgerIsSound`: panels cover the prompt, no scalar tail, spans fit, the cursor agrees with the totals; `Completes` |
| `submission_window` | `WindowIsSound`: at most two quanta outstanding, retired in order; `CancelIsObserved`; `OutcomeIsSound`: every return leaves the device drained and a staged request is complete; `CallReturns` |
| `request_lifecycle` | `RequestsAreIsolated`, `ReuseIsEarned`, `GenerationIsSound`, `RequestEnds` |
| `utf8_output` | `StreamMatchesReference`: the streamed pieces are the reference rendering, and only a completable suffix is held back |
| `marlin_stripes` | `LockProtocol`: a lock serves one tile at a time and a slot one block; `LaunchIsSound`: every tile adds every k step once and the locks return to zero; `LaunchEnds` |
| `engine_lifetime` | `CopiesAreSafe`, `LoadIsSound` (loader), `EngineIsSound` (pointers lead into live, packed memory; exclusive layouts; nested lifetimes), `HandlesAreSound`, `ReplaysOwnStep`, `CreationIsSound` (graphs) |

Several properties are conjunctions of named parts; the comment before each says which.
Every property of a passing run has a mutant: a small change of a definition that a slip in
the code could be (a dropped notification, a queue closed before the flag is raised, a slot
off by one, a buffer not waited for) under which TLC reports that property violated.

### Bounds

* `InferenceJob`: `EventCapacity = 2`, `MaxTokens = 3`. The deque can be empty, partly filled
  and full, and a stream with usage has five events, so the worker blocks on a full deque in
  the tokens and in the trailer. Exceptions: at most two (`caught`), because after the second
  the code catches everything.
* `Gateway`: three connections, three threads (the least `valid_options` allows for a queue of
  one), both queues of capacity one and an accept budget of two: queues full, eviction during
  a burst, every thread busy and a fourth party waiting all happen. `MaxHangUps = 1`: hang-ups
  of different clients are independent. The liveness run uses two connections of any kinds
  and an accept budget of one.
* `MtpDecode`: three tokens of which one is the stop token, six outputs, draft length 3 and the
  tightest capacity the engine admits (`prompt + max_new_tokens - 1`). Six outputs are a first
  token, a two-draft round, and then the four-output terminal round that `output_tail_budget`
  allows, or several shorter ones: rounds of one to four rows, in any order, occur. The number
  of requests is unbounded.
* `PrefillProgress`: three layers (a first, an inner and a last one), panels of 5 and 3 tokens,
  segments of 2, every prompt length up to 11: one to three panels, balanced and ragged, and
  every tactic.
* `SubmissionWindow`: the code's two slots; two layers; prompts of one panel, of exactly the
  prompt-wide width and of one token more, so that the ring wraps several times.
* `RequestLifecycle`: capacity 5, prompts of 1, 3 and 4 tokens (no prefix, a tile, a tile and a
  scalar rest), one or three new tokens, any number of requests: long and short requests
  follow each other, which is what leaves stale rows.
* `Utf8Output`: one byte for each class the code tells apart at any position (ASCII; the three
  ranges of continuation bytes; two-, three- and four-byte leads including E0, ED, F0 and F4),
  up to five bytes in tokens of up to two, so a four-byte character is split in every way and
  followed by another byte.
* `MarlinStripes`: three blocks, one to ten output tiles, 2, 3 or 5 k steps: tiles owned by one
  block and shared by two and by three, stripes that cross a tile border, and both parts of the
  schedule. Two launches share the locks.
* `EngineLifetime`: two workers, two shards of 5 and 3 bytes read in chunks of 2 (odd ends,
  both staging buffers reused), tensors that start and end inside chunks; one fault per load;
  two layers; a window of two cached positions in a capacity of four, so that requests run into
  it and past it; three requests. `MaxHandles` handles are never exhausted.

### Fairness

* `InferenceJob!FairSpec`: weak fairness of each thread. Every wait of the ingress thread polls
  again after 100 ms, every send ends within `write_timeout_milliseconds`, and the engine is
  assumed to keep stepping. The signal and the client owe nothing. `NeitherStranded` lets the
  worker wait for ever in one case only, `WaitsForNobody`: the deque is full, nothing cancelled
  or stopped it, and the ingress thread left by an exception.
* `Gateway!Fairness`: weak fairness of the reactor (its poll has a 50 ms timeout), of the
  worker, of some ingress thread, and of the passing of deadlines. A worker that waits in
  `push_event` for a reader that has left has no step, so fairness owes it nothing:
  `AcceptedIsClosed` says whom that can keep waiting (clients that ask for inference, until a
  stop), and `ShutdownCompletes` that a stop always releases it.
* `PrefillProgress`: accepted calls keep coming; that is the runner's loop over the schedule.
* `SubmissionWindow`: the host thread runs, and the device executes or breaks.
* `RequestLifecycle`: the engine's one thread runs.
* `MarlinStripes`: weak fairness of every block. The launchers start as many blocks as the
  device has multiprocessors, so all blocks are resident and a spinning one cannot keep
  another from being scheduled.
* The engine run checks safety only.

## 4. Findings

1. `job_fail_closed`, `evaluation_server.cpp:1580`. Between the engine's return and
   `observe_failure` the MTP build formats and writes a receipt. If that throws, the handler
   publishes an error and the final revalidation only looks at the load receipt, which an
   unrecoverable generation failure does not change: the latch stays open, although the comment
   at line 1750 says every completed queue item is fail-closed.
2. `gateway_evicts`, `evaluation_server.cpp:2728`. An accept burst evicts the oldest staged
   connection without reading it, so a complete request is dropped, where the comment at line
   1047 speaks of incomplete connections.

Observations that are not findings, because they contradict no document or comment:

* An exception while a stream is sent (`evaluation_server.cpp:2055-2098`) is logged by
  `ingress_worker` (2112-2119), which does not set `job->cancelled`. If the generation has more
  events than the deque has room for, the only worker waits in `push_event` until the server
  stops, and requests for inference queue up behind it; health and refused requests are still
  answered. `WorkerStranded` in `Gateway` is that state; a guard that cancels the job when
  `handle_connection` unwinds would remove it, and with it the exceptions in
  `AdmittedHasWaiter`, `AcceptedIsClosed` and `NeitherStranded`.

* A thread that still writes a finished answer to a slow client does not count as the active
  or a queued request of the thread budget (`evaluation_server.h:386`). `ControlPlaneHasThread`
  holds all the same: such a thread does not wait for the worker, and its write is bounded.
* The comment on the members of `Impl` (`reference_engine.cpp:4842`) gives a destruction order
  in which the target-AOT owner comes after the scale6 layout; the declarations destroy it
  second. Nothing refers to it by then.
* The QKV sidecar (`reference_engine.cpp:3047`) has no caller.

## 5. Proofs

The theorems hold for every value of the constants that satisfies the named assumptions;
the assumptions say what the code's own checks or types guarantee and TLC evaluates them on
every run. Each specification has an inductive invariant, the conjunction of named parts, which
TLC checked before it was proved. Below is why each is needed.

**`InferenceJobProofs`**, for every event capacity and every token limit (both positive). The
inductive invariant is `TypeOK /\ StreamIsFifo` with four parts that none
of the properties says: `Progress` (the engine has a token left whenever it runs, a push only
happens for a streamed request), `Verdict` (past the revalidation the receipt matches, and a
success that is being published belongs to a completed generation), `Answer` (the stream has
started exactly when something was pushed), `Delivery` (what the ingress thread holds and has
sent at each of its places). `SuccessIsSound` needs `Verdict` because the push of `[DONE]`
happens some steps after the test; `OneKindOfAnswer` needs `Answer` and `Delivery`.
`JobStreamWellFormed` rests on a second invariant, `Frontier`, which says for every place of the
worker which event it pushed last. `JobAnsweredInFull` rests on a third, `AnswerInv`: as long as
nobody has given up (`Calm`), a closed deque ends in a terminal event, and the ingress thread
leaves its loop only with that event sent.

**`GatewayProofs`**, for any number of connections, threads and capacities, with
`ThreadsAssumption`, the check of `valid_options`. `GatewayHonestRefusal` rests on `FlagFirst`
(the inference queue is closed only after the stop flag is raised, and nobody lowers the flag)
and on what a thread remembers between `try_push` and reading the flag. `GatewayBounded` rests
on the fact that the staging pass moves connections from one half of the staging vector to the
other without adding any. The other four rest on `FullInv`: `Sockets` (an open socket is in
one of the three queues, once, or with one thread; the queues have no repetitions), `Jobs` (a
queued job is in the queue once, the active one is the worker's, and a thread that sends for an
unfinished job does so because its answer has begun), `Waited` (an uncancelled job without a
thread has begun its answer, so that it is past the queue and in the worker) and `Exits` (what is over once a join has returned). `SocketsAreOwned`
counts holders, so its proof goes from `Sockets` to cardinalities. `ControlPlaneHasThread` is
a pigeonhole argument: the jobs not yet done are at most the queue and the one in the worker,
each waiting thread waits for another one, and there is one thread more than that.

**`RequestLifecycleProofs`**, for every capacity, prompt, output length and tile geometry
(`ChunkAssumption`: a chunk has at least two rows and a segment at least one). The properties
speak of the moments at which a request starts, emits or ends; the invariant says how far the
arena has got in between: `Prefilling`, `Staged` and `Generating` give, for every place of the
controller, exactly which rows are this request's, how much the recurrent state has absorbed
and how many passes are still to come; `Boundary` says that between requests a granted reuse
boundary covers every row that is not zero. `RouteWitnessComplete` needs that the number of
tiles of a prefix is that of a tile and the rest, which is a fact about the recursive function
`TileCount`.

**`PrefillProofs`**, first part, is about operators. The cutting loops are recursive functions, and
induction over them is by least counterexample: the set of arguments at which a claim fails
is a set of numbers, it has a least element, and the step before holds. This needs the least
number principle only for sets, which the provers can use. `CutsUnique` shows that the
recursive definition has one solution, `PlanIsGood` that every admitted plan covers the prompt
with panels of positive size within the limits, `SpansSuffice` that a panel's segments fit the
code's fixed arrays.

**`PrefillProofs`**, second part: `PrefillProgress` for every number of layers and every sequence of calls, legal or
not. `LedgerInv` gives the counters of every layer exactly: those of a finished layer below the
cursor, zero above it, and at the cursor those of a layer `k` panels of which are done, in each
phase of the tactic. From it `LedgerSound` and the refinement `LedgerRefinesDataflow`, step by
step: a refused call is a stutter, an accepted one moves the mapped state or output of one layer
as `DecoderDataflow` allows, and the commit maps to the commit.

**`PrefillProofs`**, third part: `SubmissionWindow` for every ring size and every admitted plan (`CountsAssumption`: a
prompt length is a natural number). `Ring` says that the outstanding slots, counted from the
oldest around the ring, hold the events of exactly the submissions after the retired ones;
`Position` says what has been submitted at each place of the function. `ReturnIsTrue` has a
second part, the replay: the ledger after `n` replayed quanta is given in closed form
(`IsLedger`), so no call of the replay is refused and the last one leaves the ledger ready for
the commit.

**`MtpDecodeProofs`**, for every vocabulary, greedy path and number of outputs, with draft
length 2 or 3 as the code has it. `Round` says, call by call, which input rows agree with the
greedy path (`OnPath`), what the verification wrote there, which snapshot holds which prefix and
what the draft has cached; `Boundary` says that between rounds target and draft stand at the
emitted tokens but the pending one. The acceptance test compares proposals with predictions, so
the accepted prefix is on the path although a rejected row may match by accident: that is why
`OnPath` is stated for prefixes. `NothingRejectedStays`, `OnlyTheDeviceFails` and the
refinement `SpeculationIsInvisible` follow; a round's steps before the emission are stutters of
`GreedyDecode`.

**`EngineProofs`** (invariants in `EngineInvariants`), for every checkpoint, number of workers, chunk size, capacity, window and
number of requests (`LoaderAssumption`: positive sizes and finitely many tensors;
`WindowAssumption`: a nonempty window that starts inside the capacity). The invariant has four
parts, and every step of `LifeNext` keeps all of them. `CopyInv` is about the loader:
`CopiesAreSafe` says that a queued copy still finds its bytes, and what keeps it true is
`Guarded`, that behind every copy of a worker that will fill its buffers again there is an
event of the same buffer which the worker knows of. A worker that gives up mid-chunk leaves
copies without an event, and this is sound only because it never fills a buffer again:
`Guarded` says nothing of an ended worker, and `Running` that its buffers are held until the
stream is drained. `GraphInv` is about the decode graphs: `Counted` (the count of an
executable is the number of slots, published and staged, that use it), `Sound` (a slot leads
to a live executable and to a graph of its own position; a shared executable can be brought
there from that graph, one of its own is there), `NoOrphans` (a live handle is in a slot or
in the running capture), `Capturing` (what a capture holds is in no slot, except the shared
executable) and `Filled` (a preparation has filled exactly the positions before its cursor).
Replacing a standalone slot is the delicate step: the old executable may have other users,
and the proof counts them (`RefsUpdate`, `RefsTwo`). `AssetInv` is about the build, and
`EngineIsSound` follows from it: `ArenaHeld` (the arena is live while the loader needs it,
then exactly while its owner exists), `Stages` (which members exist at each stage of `build`),
`Preparing` (every wanted layer of the layout under preparation is packed, queued or still to
come; a queued pack belongs to that layout, whose owner is alive), `Selected` (what is
attached was chosen by the route; what was chosen and is not optional is to come or attached;
those to come have no owner twice) and `LifetimesNest`. `Selected` is what makes a finished
build complete: when nothing is left to come, every choice is attached.

`LoadInv`, on top of `CopyInv`, is about what a load brings to the arena, and `LoadIsSound`
follows from it. `Claims` and `ClaimedBy` say that shards are claimed in order, each by one
worker which reports it, and that a worker ends without a shard only when none is left: so no
shard is unattempted once a worker of a call without failures has joined. `CountedAt` says that
a worker has read whole chunks and that its counters are the bytes (`PartSum`) and the copies
(`HitSum`) of the tensors up to there; `AimedAt` that a queued copy lies within one tensor of
the worker's shard; `LandingAt` that every byte read so far is in the arena or in a queued copy
that will put it there, as long as no chunk was corrupt and no stream is dead; `Arrived` the
same of a shard reported as loaded, with nothing queued. `Causes` says that nothing fails
without a fault and `Progress` what the calling thread knows at each place. A copy that runs
writes into the arena of all tensors, so `Arrived` and `LandingAt` need that their places do
not overlap (`PlacesApart`), and that the plan lists every text tensor once (`TensorsIs`). The
statistics are sums over sets. The community module's sum is a recursive function over the
subsets of a finite set; `SubsetInduction` is the induction for it, again by least
counterexample over the sizes, and `SumIsSolution` shows that the recursion has a solution.
From it sums can be split (`SumUnion`), reindexed (`SumReindex`) and taken by shard
(`SumGroups`), which gives `PartStep` and `HitStep` (what one chunk adds), and in the end
`StatisticsAgree`: what all workers counted is what the plan said.

**`Utf8OutputProofs`**, for all bytes, all lengths and all ways to cut the bytes into tokens.
The code tests ranges of the first byte and of the one after it, the reference is a table of
rows; `StartsIs` shows that they accept the same prefixes, so the longest accepted prefix of
the scan is the maximal subpart of the standard. `PieceIsLocal`: which piece comes next
depends on its own bytes and on what stops it. Loop and reference are recursive functions;
that they have one solution each, and which, is again by least counterexample, from the end
of the string backwards. `OpenRender` says of a rendering that is not final that what it
shows stays right whatever follows, and that what it keeps begins a character without being
one (`Carry`); `CarryIsWhole`, that the next rendering consumes such a carry as a whole or
not at all. The invariant of the stream is then short: what was sent is the reference of
what has arrived before the carry, and with any continuation the reference of all of it is
what was sent and the reference of carry and continuation.

**`MarlinStripesProofs`**, for every grid, shape and tile raster and any number of launches
(`GridAssumption`, `ShapeAssumption`, `LaunchesAssumption`: at least one block, k step, row and
column of tiles, launch). The first half is the partition, arithmetic without any state. The
output tiles are numbered as the blocks take them (`Positions`), the whole tiles of part 1
before the columns of part 2; `First` and `Last` are the blocks that meet a position. `TileIs`
shows that the three rasters reach every tile once, `Rows` that the blocks of a position split
its k steps, `SharingIs` that the slice count and index the kernel computes for itself are the
number of those blocks and the place in it, last block first, `LockIs` that no two shared
positions have the same lock, and `EnteredIs`, `NextSliceIs` and `LeftIs` that a block takes
its shares in order, the next one when it moves on, and leaves with none left. The second half
is the protocol and uses the first only through these facts. Neither property is inductive: a
lock value means something only with the blocks' places. `LocksCount` says that a lock counts
the blocks done with its position, from the last down, and is zero again when the first is
done, and that the slot holds the products of exactly those blocks; `Stored` that it holds
those of the block at its turn too once it has reduced; `Holders` that a block between acquire
and release has its turn; `Output` that a tile is written when the first block of its position
has left it, once, and with all products; `OtherLocksZero` and `Served` that the other locks
are untouched and that a lock serves one tile per launch. A new launch finds all locks zero
(`LocksAreZero`) and the slots as the last launch left them, which is sound because the slot
means nothing until the last block of its position has overwritten it.

Only model-checked:

* Liveness (`NeitherStranded`, `ShutdownCompletes`, `AcceptedIsClosed`, `Completes`,
  `CallReturns`, `RequestEnds`, `LaunchEnds`): temporal reasoning under fairness is outside the
  prover. Every invariant and every action property of the passing runs is proved.

## 6. What is not modelled

Most of the repository's lines are CUDA kernels, their numerics and their screens, and the
identities that attest which of them ran. A state machine has little to say of them:

* The numerical work. That a multi-row verification computes the same argmax as single steps is
  an assumption of `MtpDecode` (`Predictions`), not a result. The kernels other than the Marlin
  scheduler have no protocol between blocks; inside a block they are floating-point pipelines.
* Prefill authority, route evidence, receipts and digests. They compare long lists of
  identities for equality; the one number in them that depends on control flow, the count of
  route passes, is in `RequestLifecycle`.
* HTTP and JSON text, SSE framing, tokenization, the safetensors and JSON parsers of the
  loader: string functions. Their outcome (a request is refused, an encoding throws, a
  checkpoint is not accepted) is a choice in the models.
* Memory orderings. The flags are relaxed atomics and the model reads them sequentially
  consistently. Every wait re-reads its flag after a bounded time, so a delayed store only
  delays a step the model may also delay.
* Host memory exhaustion inside a layout preparation, and the scratch buffers there.
* The one-shot overlapped load of the command line tool (`reference_engine.cpp:9255`).
* Reports, timing, command line tools, benchmarks, vendored code.

## 7. Plan

1. `EventChannel`: what the mailbox promises (a bounded FIFO that is closed once), with
   `InferenceJob` shown to implement it.
2. The one-shot overlapped load, composed with `EngineLifetime`; liveness of the loader.
