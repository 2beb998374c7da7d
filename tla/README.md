# Formal model of the streaming UI runtime

This directory holds a TLA+ verification project for the repository: the
runtime in `runtime/`, a framework-agnostic core that takes messages, decides
whether the operation in each may take effect, keeps the log and the state of a
session of streamed text, and decides on the main thread whether a projection
of that state may be shown; and what is built around it to measure it, the
experiment pages in `bench/` and the scripts that capture, summarize and
publish their results.

TLC checks the modules on small instances; TLAPS proves the most important
properties of the runtime for every value of the constants. Line numbers refer
to the files under `src/`.

## 1. Inventory

### 1.1 The runtime

| Part (under `runtime/`) | State | Operations | Interacts with |
|---|---|---|---|
| `core/state-store.ts` | `session_version`, blocks (text, seal, chunk ids), messages | `applyOperationToState`, `applyOperationsToState` | called last by the engine |
| `core/op-validation.ts`, `ops.ts` | none | `validateOperation` | called by op log, engine, admission, store |
| `core/op-log.ts` | operations and their ids | `appendOperation`, `hasOperation` | owned by the engine context |
| `core/core-engine.ts`, `core-decision.ts` | op log, session state, processed message ids | `processRuntimeMessage`, `decideCoreAdmission` | calls everything above and the policies |
| `core/priorities.ts`, `scheduler-policy.ts`, `backpressure-policy.ts`, `recovery-policy.ts` | none: pure functions | admit, preempt, defer, throttle; what the sender is told | asked by engine and adapters |
| `core/transactions.ts`, `transaction-lifecycle.ts`, `transaction-validation.ts` | one status per transaction record | create, accept, complete, cancel, reject | the engine creates and accepts |
| `core/projection-policy.ts`, `checksums.ts` | none | `shouldCommitProjection` | engine and main adapter |
| `core/protocol.ts` | none | envelope validation | engine and worker adapter |
| `core/message-serialization.ts` | the objects a walk is inside of | `validateSerializableValue` | both adapters |
| `core/errors.ts`, `decision-trace.ts`, `metrics-snapshot.ts` | a trace per decision, merged metrics | trace, summarize, merge | built by the engine, kept by callers |
| `worker/worker-message-handler.ts`, `worker-context.ts` | engine context, three counters, last decision | `handleWorkerAdapterMessage` | validates the envelope, then calls the engine |
| `main/main-projection-adapter.ts` | none | `evaluateMainProjection` | calls the projection policy |
| `testing/in-memory-roundtrip.ts`, `in-memory-session-scenario.ts` | the worker's context, a list of step results | one round trip, a scenario of steps | worker adapter, then main adapter |

Everything in `runtime/` is sequential and functional: a call gets a context and
returns the next one. What is concurrent is around it. Messages are posted
between a page and a worker, so they arrive late, in another order, twice or
never. The backpressure snapshot, the active transaction and the projection
that come with a message are what somebody observed earlier. A projection is
made at one session version and evaluated at another.

### 1.2 Experiment pages and scripts

| Part | State | What is hard |
|---|---|---|
| `bench/p1/targets/p1_worker_scheduler_projection_baseline.html` | runs, a worker per run with a queue, timers, React renders | chunks, yields and urgent requests interleave; runs may overlap |
| `bench/p1/lib/streaming_markdown_stability_core.mjs`, its demo page | the text so far, committed keys, two panes | text is cut anywhere; what was complete can become something else |
| `bench/p5/targets` | a worker's transcript and active context, one record of metrics | interactions overlap and share the record; later sends work on a longer transcript |
| `scripts/p5/collect_*` | pasted rows, one result file each | eighteen copies of the same checks; completeness from a count and a lookup |
| `scripts/p1/run_single_capture_no_warmup.mjs` | a connection to Chrome, a capture with one cleanup, a frame probe, a trace | answers out of order, Chrome that goes away, signals, a page that is hidden, marks that are lost |
| `scripts/p0/run_capture.sh`, `summarize_trace.mjs` | traces, metadata and a log of rejections on disk | stopped between two writes and started again |
| the other pages of `bench/p0`, `p0f`, `p1`, `p5`; the audit, analysis and report scripts | none beyond one task, or reports | timing and formatting |

### 1.3 What makes each part correct

- **State store.** Text stays well-formed UTF-16 whatever is appended and
  patched; a chunk is applied once; a sealed block never changes; a message
  only lists blocks that exist and have text; a batch does what its operations
  would do one by one.
- **Op log and engine.** A message and an operation take effect at most once.
  The log, the session and the processed ids move together or not at all, also
  when the last of many checks fails. The log explains the session. Who is told
  to retry is not refused for having tried. Trace and metrics tell what was
  decided.
- **Policies.** A refusal for load always asks for throttling, so that room can
  come back.
- **Projections.** The screen does not go back in time unless the projection
  says that it is compatible; a refusal for staleness can be cured.
- **Transaction lifecycle.** No way out of a final status, however records are
  kept and marked again.
- **Serialization.** The walk ends, and its verdict and size are those of the
  payload written out as a tree.
- **Adapters, round trip.** Every message is counted once; the counters agree
  with the log; what the main thread refuses takes nothing back.
- **Scheduler page.** Urgent requests are served once and in their order; every
  heavy transaction completes; a run ends with its own work.
- **Markdown demo.** The stable pane shows every block of the text in order and
  saves exactly what the naive pane does twice.
- **Captures.** Success means that everything was written; an exit that could
  clean up has; a capture is used only if its page was not hidden while it ran;
  the report is that of the trace.
- **Sessions and results.** Committed runs are never written over and are
  counted; a result file covers the matrix, with comparable rows, each of
  one send.

`PROJECT.json` lists every component with its status and, under `hazards`,
what is hard to test in this code, each at the line where it bites.

## 2. Modules

```
                    SessionScenario       DecisionTrace
                          |                    |
                    WorkerAdapter              |
                          |                    |
                          v                    v
Utf16Text <- StateStore <-------- CoreEngine -> AdmissionPolicy <- AdmissionLoad
                 |                 |      |
          OperationBatch    SessionLog    +---> ProjectionPolicy -> DecisionTable
                           (refinement)             |      |            |
                                  MainProjection ---+      |      Serialization
                                  TransactionLifecycle ----+

WorkerScheduler -> MeasuredRun (refinement)      MarkdownStability
StressCollector -> StressRows <- StressPage
CdpConnection -> CdpCalls (refinement)           CaptureRun   VisibilityProbe
CaptureSession                                   TraceForensics
```

(An arrow goes from a module to one it extends, or, where noted, to the abstract
specification it is shown to implement; CoreEngine is used by DecisionTrace and
WorkerAdapter.) `MCx` modules give small instances. The theorems are in
`StateStoreProofs` (with texts), `OperationBatchProofs` (with the scan),
`PolicyProofs` (tables and policies), `CoreEngineProofs` (engine, worker,
scenario, traces), `MainThreadProofs` (payloads, load, main projection,
transactions),
`CaptureProofs` (everything of section 2.3), `StressProofs`
(stress page and collectors) and `PageProofs` (Markdown demo, scheduler page).

### 2.1 Session and engine

**Utf16Text** — `isWellFormedUtf16` and `isUtf16OffsetBoundary`
(state-store.ts:319-356) as sets and quantifiers over sequences of code units:
high surrogates, low surrogates, plain units. **TypedText** has the scanning
loop of the code as a recursive function, and a text that grows unit by unit, to
compare.

**StateStore** — one action per operation type, `CanX` for its checks in
`applyX` and `X` for what it assigns. A refused operation returns the state it
was given, so it is a stuttering step. SetViewport, RequestProjection,
CancelTransaction and CommitProjectionAck only move the version
(`StateNoOp`). Chunks by reference are refused by the code after validation;
`PayloadRef` stands for one.

**OperationBatch** — `applyOperationsToState`: the operations of a batch one
after the other until one is refused; the refusing decision carries the state
made by those before it. The call is synchronous; its steps are kept apart so
that each is a step of StateStore, which is its abstract specification.

**DecisionTable** — the core's policies are sequences of early returns. A table
is a sequence of checks, each with the answer given when it is the first to
fail; the order of the table is the order of the code.

**AdmissionPolicy**, **ProjectionPolicy** — the pure policies, operator by
function. **AdmissionLoad** asks them at every load around the limits.

**CoreEngine** — `processRuntimeMessage`. `Checks` is every check a message
passes, in order: the envelope (`envelope_error` stands for the first error in
its form, any of the codes the validator may give), the processed message ids,
the form of the operation (`op_error`, likewise), the op log, the transaction,
then `decideCoreAdmission` (identity, version, backpressure, scheduler,
projection) and last the state store. `Accept` is the step when all pass: log,
session and processed ids change together. `Reject` answers with the first
failure and returns the context it got.

**SessionLog** — what the engine promises without its policies: an append-only
log in which a message and an operation take effect at most once and versions
do not decrease.

**DecisionTrace** — the trace of each decision and the metrics merged over a
session. The stages of `decideCoreAdmission` are written down after it has
returned, from the type of the decision; `given` keeps what came with the
message, so that the property can compare.

**WorkerAdapter** — `handleWorkerAdapterMessage` around the engine. The adapter
checks form and payload of the envelope without the processed ids
(`RejectBeforeCore`); what passes goes to the engine, which checks the envelope
again with them (`ProcessMessage`).

**SessionScenario** — one step of a scenario is a round trip: the worker handles
a message; if it accepts, a projection is made of its new context and
`evaluateMainProjection` decides, at the session version of the step or of the
scenario, which never advances.

**MainProjection** — `evaluateMainProjection` with a caller that shows what is
let through and a session that moves on (both external).

**TransactionLifecycle** — creation from an operation, validation of the fields
(as a set of faults), and the marking functions. They are pure, so any record
that was ever made may be marked again; `path` is a history variable.

**Serialization** — `validateSerializableValue` step by step: frames for the
objects the walk is inside of, `seen`, the byte sum, the limits in the order of
the code. Payloads are values over a heap, so they may share objects and be
cyclic. The reference definition writes the payload out as a tree: `Levels` has
the values that many steps below the root, `Sizes` the bytes of a value written
out that many steps deep. A level deeper than there are objects is empty unless
the payload is cyclic. Each object the walk is inside of is a call on a stack
that holds `stack` of them; one more is a RangeError nobody catches.

### 2.2 Pages and measurements

**WorkerScheduler** — the scheduler page: `Mount`, `CaptureStart`, the timer of
the urgent request, the worker's message handler, the return of a yield
(`YieldReturns`), results on the main thread and React's `RenderRows`, which may
commit two projections together. Requests carry the number of the run they were
made for, which the code does not (a history field). **MeasuredRun** is what
measurements take for granted: runs follow one another, commit one projection
of each kind and end once, exactly then.

**MarkdownStability** — a line of text is its class under the parser's regular
expressions; `Grows` says what more characters can make of it. One parser
action per branch of `parseMarkdownBlocks`; `Render` updates both runs and
panes. The parser goes step by step because it need not end: a line that looks
like the start of a block and is none leaves the paragraph branch with nothing
to consume, and `ExhaustHeap` is where that leads.

**StressPage** — the product-trace page: the worker's transcript and context,
the merge of lanes, one record of metrics for all interactions, input tasks,
and the row that is copied. The merge is a loop over phases around a loop of
visits to the lanes in turn, each a recursive function. **StressRows** is what
each of the eighteen collectors demands of a row, the shared checks named once; **StressCollector**
runs them row by row and writes the result file.

### 2.3 Captures

**CdpConnection** — commands by number, waiters by event, and a socket whose
events reach the script as one sequence; **CdpCalls** is what a capture may
count on. **CaptureRun** — main as a script of steps with who has to answer and
what a failure does, a launch that may throw or start no Chrome, the cleanup
shared with the signal handlers, and a Chrome that may go away at any moment. **VisibilityProbe** — the frame probe, a
page that is hidden, shown, focused and left at any moment, and the verdict.
**TraceForensics** — a section's marks, tasks of several threads, the file order
and the lost events, and what is read out of them. **CaptureSession** — the
capture loop on its files, one action per write, stopped anywhere and started
again, with the runs the summary counts.

## 3. Runs

Components that share no state are checked in one run as *parts*: a variable
`part` is chosen in the initial state, a behaviour belongs to one part for ever,
and the variables of the other parts stand still. States add up; they do not
multiply.

| Run | Question | States |
|---|---|---|
| `state_store` | Do the store's invariants survive every sequence of operations and batches? Is a batch its operations, and are the text definitions the code's scan? | 15217 |
| `session` | Do late, repeated, renamed and broken messages under any pressure give one exactly-once log that explains the session, and do traces tell the decision? Do the worker's counters, acknowledgements and advice fit its log, alone and in round trips with the main thread? | 18324 |
| `policies` | Do the answers to load agree? Can an old projection get on the screen, is the advice about it right? Which ways can a record come? Is the serialization verdict that of the tree, and does its recursion end? | 168978 |
| `capture_tools` | Is a call to Chrome settled, does a capture end and clean up whatever fails, and was a usable one seen? | 941866 |
| `evidence` | Do committed runs survive restarts and get counted, and is a report that of its trace? | 1979965 |
| `stress` | Is a published result complete and comparable, and each row of one send? | 100504 |
| `pages` | Are urgent requests served in order and heavy work completed; can the stable pane be trusted? | 984458 |
| `urgent_input`, `leftover_chrome`, `stale_pane`, `review_log`, `summary_selection` | Does the code do what the documentation or a test says? (no: section 4) | until the counterexample |

What each property says is in the comment above it, with the lines it is about.

### Bounds and why they are enough

- `state_store`: two blocks, two chunks, one message, versions 0 and 1, texts of
  up to `MaxLength` = 3 units with payloads that contain a surrogate pair, a
  lone half, the empty text and a reference: enough for a patch in the middle
  of a text, a cut between the halves, a chunk resent after its text was patched
  away, a stale operation. Batches: nine, which are refused at their first, a
  middle or no operation depending on what came before. Texts of up to
  `MaxTyped` = 5 units: the loop looks at two neighbours, so every pattern of
  pair, lone half and plain unit before and after another occurs.
- `session`, the engine: 18 inputs (`MCInput`), one per kind of repetition or defect
  the checks tell apart; snapshots below and at the limit; a projection that is
  stale from version 1 on, or none; each input any number of times, at any
  moment. `ActiveLane` bounds the active lanes, the worker's too, to none, the highest and one in
  the middle, which is preempted, kept or matched by what is sent. Traces are
  followed for the ten messages of `TracedInput`, one for every way through the
  engine, with every active lane.
- `session`, the worker: messages that are accepted, repeated, renamed, refused by
  each table of checks and refused before the engine, up to `MaxMessages` = 6;
  at most three of their operations can take effect, so six hold every order of
  these with refused and repeated ones between. Scenarios of up to `MaxSteps` =
  4 round trips, with a projection of the new context, a stale one, a cyclic
  one and none, and with the session version told or not.
- `policies`: loads 0 to 3 around a limit of 2 in each field; session versions 0
  to 3 against projections of 0 to 2 with every status and each defect alone or
  with a stale version; records of one transaction with every set of marks;
  three objects that may refer to one another and themselves in every
  arrangement of up to two items in two of them, under each limit alone or with
  another; stacks of two calls, fewer than there are objects, and three.
- `capture_tools`: two commands (`MaxCalls`), three waits for two methods, two
  events, a stray answer; each flaw of the arguments alone; one poll more than
  the first and both signals; a probe that needs two frames of at most three,
  with four changes of visibility and focus, so that a page can be hidden and
  shown before, during and after the capture.
- `evidence`, `summary_selection`: one or two slots, up to three starts, four
  measured captures: a slot rejected twice, a restart with a larger or smaller target, a crash between
  any two writes. Sections with up to three lost marks; three tasks and the
  name of a thread anywhere in the file of the shortest section. `LongTask` and
  `TopLimit` are small, so that both are passed.
- `stress`: three clicks after the first request on a page with three lanes over
  two phases, whose transcript outgrows the window of four; every collector,
  twice, on pairs of rows that are sound, of the page it is compared with, or
  wrong in one metric. A scenario's context is at least one block and at most
  the blocks it begins with, as in every scenario of the source.
- `pages`: five units of work in chunks of two, so that a request can come
  before, between and after three chunks; three runs one after the other, or
  two that overlap, to which a third may come in the scheduled mode of a page
  that is ready and whose workers have not begun (`FewOverlaps`), with each
  result rendered before the next comes (`OneByOne`). Texts of five pieces of every class, or six
  of what tables are made of (`OnlyTablesAreLong`): a table with a header, a
  separator, a row and what follows needs six. `HeapBlocks` = 8 is more than
  the lines of any such text (an assumption of the module), so the heap is only
  filled by a parser that does not move.

CHECK_DEADLOCK is off where the system may stop, each time with the reason in
the cfg.

### Fairness

Safety needs none. The liveness properties assume of the code only that what
has been scheduled runs:

- `WalkEnds`: the walk over a payload is one synchronous call, so it goes on.
  That it ends is the work of the objects it remembers.
- `EveryRunEnds`: the event loop of the capture script goes on. Nothing is
  assumed of Chrome, which may go away, answer or be silent, and nobody has to
  send a signal. Commands and waits have no timeout, so the property says that
  a run ends or waits for ever for a Chrome that is there.
- `HeavyWorkCompletes`, `ImplementsMeasuredRun`: workers run their next message
  and their yield callbacks; the page's event loop serves its timers, messages,
  renders and its mounting. No capture need come. Weak fairness suffices, as
  each of these steps stays possible until it is taken.

## 4. Findings

Five places where a document or a test says one thing and the code does
another, each a run with one property that TLC violates.

1. **An urgent input is dropped** (`urgent_input`). It is deferred when another
   urgent transaction is active, but the error given is `AdmissionRejected`,
   for which the recovery policy forbids the retry; nothing keeps it.
2. **Chrome is left running** (`leftover_chrome`). `chrome.killed` is set once
   SIGTERM was sent, so the SIGKILL after three seconds is never tried; and a
   signal before the launch cleans up beside a main that launches all the same.
3. **The stable pane keeps what became something else** (`stale_pane`). A
   paragraph counts as complete when any line follows it, so the header of a
   table whose separator comes in the next chunk is committed and stays.
4. **The review settles nothing** (`review_log`). The loop reads the log on the
   standard input that the question inside it reads too; the first answer is the
   next line of the log, or its end, at which the script stops.
5. **A reverted rejection is not counted** (`summary_selection`). The
   specification bases the result on the first valid traces and includes a
   reverted rejection again. The summary takes one trace of each slot, the
   committed one before all others, and the script goes on until each slot is
   committed.

Other disagreements found while modelling. The models show the behaviour; no
run of the project states it:

- **The Markdown parser can hang** (streaming_markdown_stability_core.mjs:316).
  On "``", "# ", a fence with two words or a separator without a header, the
  paragraph branch pushes an empty paragraph for ever. `ExhaustHeap` is reached
  in the `pages` run; `StablePaneIsSound` says that only such lines lead there.
- A second `AddMessage` for a session message is acknowledged like a processed
  envelope though it was not applied (state-store.ts:277, recovery-policy.ts:88).
- The limit on uncommitted projections refuses that lane alone, so lower lanes
  pass it (backpressure-policy.ts:164; docs/p2/p2-runtime-abstraction-spec.md:176).
- result_version may go back (projection-policy.ts:98;
  docs/p2/p2-api-and-protocol-contract.md:230).
- A projection of a canceled transaction is committed
  (projection-policy.ts:179; docs/p2/p2-runtime-abstraction-spec.md:179).
- Traces show a passed backpressure-check for refusals that come before it
  (core-engine.ts:312), and no projection-policy for refusals by the store that
  come after it (core-engine.ts:227).
- A page that is hidden at the start mark and shown before its first frame is
  recorded as visible at the start, and its capture is used
  (run_single_capture_no_warmup.mjs:518). `UsableMeansSeen` says nothing of
  that moment.
- A Chrome that cannot be started emits an error nobody listens to: the process
  ends with code 1, no cleanup and the profile left
  (run_single_capture_no_warmup.mjs:2159; `SpawnFailed` in CaptureRun).
- A Chrome that stays and is silent hangs the capture script, which has no
  timeout on its commands (run_single_capture_no_warmup.mjs:247; `AwaitsChrome`
  in MCCaptureTools).
- The F0 page's own claim of complete marks overrides the report's
  (run_single_capture_no_warmup.mjs:1832).
- The summary's target is that of the first metadata file, so that after a
  restart with a higher target committed runs beyond the first one are not
  counted (summarize_trace.mjs:347). `CommittedAreCounted` allows exactly that.
- A row of the worker page is published as a row of the main-thread page
  (collect_p5i_manual_b2_compact_results.mjs:206).
- An input delay may count from zero when sends overlap
  (p5x_r0c_product_trace_shaped_stress.html:962).
- The last task of the scheduled worker computes the whole transaction again,
  without a yield and with another checksum than the monolithic one
  (p1_worker_scheduler_projection_baseline.html:587, 1050).

## 5. Proofs

All theorems hold for every value of the constants under the assumptions named
in the modules: payloads are texts or one reference, block lists are sequences
of block ids, versions and lengths are bounded by arbitrary naturals, and the
messages that may arrive are of `InputType`; which they are, and how many, is
left open. `Limits`, `Bounds`, `Snapshot` and `Projection` are unconstrained in
the proofs of the engine, except that `RetryLeadsSomewhere` assumes limits that
leave room for one transaction. Each inductive invariant was an invariant of a
run before it was proved.

The library's induction theorems take an operator as a parameter, which the
installed provers cannot instantiate. Where a proof needs an induction over
numbers it is done with sets: a set of naturals that is not empty has a least
element (`LeastNumber`, from the well-founded order of finite sets), so a set
that has 0 and with every k also k + 1 has them all (`UpTo`), and a function
that is given step by step exists and keeps its step (`StepByStep`). With these
the loops of the code, which are recursive functions in the modules, are
unfolded one step at a time.

### 5.1 The runtime

- **Text** (`StateStoreProofs`): a splice of a well-formed text into a
  well-formed text at two boundaries is well formed, and so is a concatenation.
  `BoundariesAreNeeded` adds the converse: a nonempty well-formed replacement
  leaves the text well formed only if both offsets are boundaries, so the two
  checks of PatchRange refuse exactly the cuts that break a text. `SafeCuts`
  (`OperationBatchProofs`) says it of the loop itself, for every text: the scan
  accepts the texts whose halves are paired, by the first place where it and the
  definition could part, and its boundaries are the safe cuts.
- **State store** (`StateStoreProofs`): `IInv` is inductive. It adds
  `BlocksNonEmpty` to the properties: `AddMessage` only checks that its blocks
  exist, so `MessagesShowBlocks` is kept only because no existing block is ever
  empty. That in turn holds because payloads are non-empty (op-validation.ts:250)
  and a patch replaces by something non-empty. From it follow type correctness,
  well-formed texts, chunks applied once, and the blocks of messages. The action
  properties `SealedBlocksFrozen` and `SessionOnlyGrows` follow from the same
  invariant, operation by operation.
- **Batches** (`OperationBatchProofs`): each step of a batch is a store step or
  leaves the session alone (`BatchRefinesStore`), so the store's theorems hold
  in the middle of a batch too. `ResendRefused` needs to know that the chunk a
  batch begins with is in its block for as long as the call goes on
  (`FirstChunkIsKept`): nothing takes a chunk id out of a block, and a batch is
  only resent whole.
- **Tables** (`PolicyProofs`): in a table with a failing check, `FirstFailure`
  is one of its rows and all rows before it pass. The least index exists because
  a non-empty finite set of integers has one. The lemmas on the admission and
  projection policies, which several components ask, are here as well.
- **Engine** (`CoreEngineProofs`): an engine step is a store step or leaves the
  session alone (`ImplementsStateStore`), so the theorems about the store carry
  over. `EngineIInv` adds to the types and `ExactlyOnce` that no logged version
  is ahead of the session. This is what the refinement to `SessionLog`
  (`ImplementsLog`) needs: an accepted operation is at or above the session
  version, and so above every logged one. `RetryAdvice` is inductive by itself:
  the errors that advise a retry stand behind both duplicate checks in
  `Checks`, and a first failure implies that every check before it passed.
- **The log explains the session** (`LogExplains`): the session has exactly the
  blocks and messages the log put there, sealed as it says, and the text of a
  block that was never patched is its payloads in the order of the log. The
  inductive form adds that only blocks that exist are sealed. The text is no
  fold in the property: it is stated at each payload's offset, so no induction
  over the log is needed.
- **Worker** (`CoreEngineProofs`): a step of the worker is one of the engine or
  leaves its context alone (the lemma `WorkerRunsEngine`), so the engine's
  theorems hold of a worker. `AcknowledgedIs` says what an acknowledgement is
  worth: an operation is in the log under that message id, or the session has
  the message to be added. It needs that every processed id has its place in
  the log.
  `CountersAgree` uses the engine's invariant through that refinement: the
  adapter counts by the error of the answer, and a check that fails always has
  an error (`RowType`, `RejectedRow`), so the error tells whether the log grew.
  `RedeliveryAnswer` and `RetryLeadsSomewhere` follow from the order of
  `Checks`: a processed id is the second row, and the two rows that advise a
  retry stand behind everything that an idle worker would refuse as well.
- **Scenarios** (`CoreEngineProofs`): a scenario runs the worker
  (`ScenarioRunsTheWorker`), and its log is the list of its accepted steps
  (`LogOfScenario`). The invariant counts: as many steps were accepted as there
  are entries in the log, and the n-th of them made the n-th entry.
- **Traces** (`CoreEngineProofs`): a traced session is a session of the engine
  (`TracedIsEngine`). For `TraceIsTrue`, the list of stages of every decision is
  shown to be a path (`IsPath`): stages come in the order of the code, all but
  the last have passed, and the last tells the decision.
- **Load, main thread, transactions** (`MainThreadProofs`): `RefusalThrottles`
  compares the limits of two policies at every load. `GoesBackOnlyCompatible` and
  `StaleAdvice` follow from `MainIInv`: what is shown was let through at a
  version the session had reached. `LegalWay` is inductive record by record
  (`CameALegalWay`): a marking function checks the status of the record it is
  given, and records that were superseded may be marked again.

- **Payloads** (`MainThreadProofs`): `WalkIInv` says of every visit in progress
  that it is for the value its caller is at, that the items it has passed are
  done (`Done`: they end as deep as the objects that are not being visited
  allow, and all in them fits), and that its bytes are those of these items
  written out. Objects being visited are distinct, so there are never more
  visits than objects (`CallsAreFew`, by an injection). A value that is being
  visited already has values any number of steps below it (`CycleHasNoEnd`), and
  the value the walk is at is in the tree, as deep as there are visits
  (`ValueReached`), so a fault found is a fault of the tree. Sharing is no obstacle: the size of a value
  that ends does not depend on how deep it is written out (`SizeIsStable`). From
  it, `PayloadsAreMeasured`.

### 5.2 Pages and measurements

- **Connection to Chrome** (`CaptureProofs`): `ConnectionIInv` says who owns a
  command: the pending map has the unsettled ones until the close event is
  handled, the queue of a method has those who wait for it in turn, and the
  close event is the last thing the socket delivers. With it every step of the
  connection is one of `CdpCalls` (`ConnectionImplementsCalls`).
- **Capture run** (`CaptureProofs`): how far main is tells which files are
  written (`FilesAt`), and the one cleanup has an owner who is still there
  (`CleanupOK`). From these, `CaptureIsWhole` and `ExitsCleanUp`, with a launch
  that may throw or fail to start Chrome, Chrome free to go and signals to come
  at any step. `ExitsCleanUp` names the ways out that clean nothing up: a port
  that is taken, before anything is made, and a Chrome that cannot be started.
- **Frame probe** (`CaptureProofs`): the probe in the page is the last one
  installed, it was there before the start mark, and it has noted whether the
  page was hidden between the marks. That a page hidden at the end mark is found
  out needs its frames (`FramesOK`): they are given to a page that is seen, so
  one that had a frame after the start mark was hidden later, which is an event.
  So `UsableWasSeen`.
- **Capture sessions** (`CaptureProofs`): `SessionIInv` says what the files tell
  of one another wherever the script is stopped: slots are committed in turn,
  attempts of a slot are numbered without a gap, and metadata comes after its
  trace. `RecordsAreKept` is the action property. `CommittedCount` needs in
  addition that as many files as the target are named by consecutive numbers,
  which is proved with cardinalities (`NoGap`), and that the metadata have a
  first one, whose target is the summary's (`FirstMeta`).
- **Report of a trace** (`CaptureProofs`): `TraceIInv` says that an event is in
  the trace once, that it is a task or a mark made so far, and that no mark is
  missing if none was lost. What one pass over the events adds up is then said
  without their order (`MetricsOK`): a row's count and total are sums, and its
  maximum is the largest, over the events of its name, which a pass the other
  way round gives as well (`WindowMirrored`, with prefix sums turned around).
  As each mark is there at most once, its first event and its last are the same
  in both orders, so `ReportOfReverse`. That no row outside the list took
  longer than one in it is an invariant of the insertions (`TopOK`). The
  overlaps of a task with collections, none of which overlap, add up to the
  number of units both run in (`OverlapsAreUnits`, by cardinalities). A window
  goes from a mark to a later one (`InOrder`), so it is measured and within its
  section when both are there. Together they are `ReportSound`; that Chrome's
  tasks have a name, a thread and natural times is `WorkAssumption`.
- **Collectors** (`StressProofs`): rows are validated in order with pairwise
  distinct scenarios, and what was written was validated to its end
  (`CollectorIInv`). A file with as many distinct scenarios as the matrix, all
  of the matrix, covers it (`ResultsCover`, by counting), and compared metrics
  were checked alike by both collectors (`ComparesAlike`).
- **Scheduler page** (`PageProofs`): every worker is waiting, working or done
  (`Good`), and what it was sent, has queued and has served are increasing
  sequences of run numbers, each after the one before; requests still due come
  after all that were sent. `UrgentOrder` holds for every amount of work, size
  of chunks and number of overlapping runs.
- **Markdown demo** (`PageProofs`): what the parser makes of a text is said of
  the text alone (`IsParse`: a list of blocks, each from its first line to the
  end its kind has). Texts that agree up to a line have the same blocks before
  it (`ParsesAgree`), by the first block at which two parses could differ. The
  invariant `MdIInv` says that the blocks so far are such a parse of the lines
  before the parser's place, that the last render showed the parse of a text
  this one begins with, and what is in the pane; the sums of the two runs are
  unfolded with `StepByStep`. From it, `PaneSound` and `PassedBlocksRemain`, for
  every text and every way to cut it.
- **Stress page** (`StressProofs`): `Turns` counts the turns a lane has had by a
  visit of the merge, and after each visit a lane has either given as many
  events as it had turns or given all (`AfterVisits`). So the merge takes every
  event once and its lanes in turns (`MergedIsSound`), phase after phase. The
  invariant `PageIInv` has four parts. Messages travel in the order of their
  ids (`TrafficOK`). Between two requests the transcript is sound (`WorkerOK`),
  from which follows `TranscriptSound`. Wherever the work of a send is reported,
  the count of context updates is reported with it (`Evidence`); the count grows
  with every send, so the one the collector demands belongs to one send alone.
  And while no two sends overlap one at most is under way, whose mark is the one
  the input delay counts from (`DelayOK`). Both give `OneSendAccepted`.
- **Measured runs** (`PageProofs`): driven as the measurements drive the page,
  each of its steps is a step of `MeasuredRun` or a stutter
  (`StepsOfMeasuredRuns`). The invariant counts the places where the one request
  of each kind of a run may be (due, in an inbox, queued or under way, posted,
  on its way to the page, pending, committed): they are at most one together,
  and none is left of an earlier run. `Held` is kept by every function of the
  worker, so no kind is committed twice.

### 5.3 Only model-checked

- The liveness properties `WalkEnds`, `EveryRunEnds`, `HeavyWorkCompletes`, and
  of `ImplementsMeasuredRun` the fairness: its steps are proved.
- The five findings of section 4.

Every safety invariant and every action property of the passing runs is a
theorem; what is left needs fairness, which this prover cannot reason about.

## 6. Not modelled, and abstractions

- Fields that are copied and never read (checksum, role, timestamps), the
  wording of errors and reasons, and all errors but the first of a list.
- Missing and mistyped fields one by one: they are `envelope_error` and
  `op_error`, any of the codes the validators can give. Projection fields are
  `form`; bounds, limits and snapshots are numbers the code accepts.
- Ids are distinct values. An id that is a name on `Object.prototype` would be
  found by the store's lookups in plain objects; the model's functions have no
  such keys.
- `max_inline_payload_bytes` and the scheduler options no caller sets;
  `shouldRejectStaleResult`, `selectHigherPriority`, `canMergeStreamUpdate`,
  `shouldQuarantineResult`, which have no caller in the runtime; the comparison
  of work counters in `checksums.ts`.
- `createInitialCoreContext` with a log or processed ids given by the caller:
  a session starts empty, at any version.
- UTF-8 and JSON lengths of single strings and numbers: fields of a leaf.
- Times, except their order: durations, deadlines (a poll's is a number of
  polls), gaps between frames, the update-time estimate of the Markdown demo.
- The content of results, texts and checksums of the pages: whose they are and
  in which order is what the properties tell apart. 32-bit hashes of different
  texts are taken as different.
- The scheduler page's answers to a worker that reports an error or a result
  of another request (p1_worker_scheduler_projection_baseline.html:1112, 1174,
  1225, 1254): its own workers, run with a valid configuration, send none.
- Chrome, the socket, React's rendering and the operator: external, as the
  source uses them.
- The flush and fanout baselines, the streaming chat page, the production
  sanity page and the P0 and P0f surfaces: each is one task or the scheduler
  page's protocol with less behaviour; what they are about is timing. The
  synthetic workload and the B0 to B2c stress pages work in one task.
- The audit, analysis, matrix and serving scripts and the `run_p5*` instructions:
  reads, arithmetic on reports and text.
- Vendored React, stored results, documentation.

## 7. Plan

Done: the modules of section 2, with the proofs of section 5.

What could follow: the pages and scripts of section 6, if what they are about
comes to be more than timing and reports.
