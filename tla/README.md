# A TLA+ verification of starstream-run

`starstream-run` runs Starstream contracts: WebAssembly components whose
exported instance owns a `utxo` resource. The runtime crate links and
instantiates a component on wasmtime, the CLI mints or loads one UTXO and can
serve its methods over wRPC, and the web playground runs the same runtime
inside a Web Worker per contract, on a single-threaded wasm32 build of wasmtime
whose fibers are emulated with JSPI.

This directory holds TLA+ modules of the parts whose correctness depends on
order, interleaving and failure, the TLC configurations that check them, and
the theorems that TLAPS proves about them. `PROJECT.json` lists the components,
runs, mutants, findings, hazards and theorems, and maps every definition to the
lines it stands for.

## 1. Inventory

| Component | Source | State it keeps | Operations | Talks to |
|---|---|---|---|---|
| Fiber glue | `crates/web/web/fiber-env.js`, `crates/web/src/fiber.rs` | the promise chain, the `fibers` map and its slots, `__stack_pointer`, `parked` and `wakePending` | `setup`, `drive`, `fiber_init`, `fiberSwitch`, `park`, `unpark`; `run`, `block_on`, the waker | wasmtime (its fiber ABI), the JSPI host, `Contract` |
| Start of the CLI | `crates/cli/src/bin/starstream-run.rs` up to line 326, `crates/cli/src/lib.rs` | the selected instance, the UTXO, the declared method hashes | load, link, select, `new`, `load`, print the WIT | runtime |
| Serve loop | `starstream-run.rs:328-501` | listener, connection in hand, per-method invocation streams, invocation in hand | peek, routes, handshake, `srv.accept`, registration, poll function, decode / call / encode, shutdown | TCP clients, `wrpc_transport`, codec, guest |
| wRPC codec | `crates/cli/src/codec.rs` | none (a stream position) | `ValEncoder::encode`, `read_value` | the serve loop and its peers |
| Runtime | `crates/runtime/src/lib.rs` | `InstancePre`, `Store`, instance and resource of a UTXO | link imports, classify exports, create / load / call / storage / drop | wasmtime |
| Contract, worker, proxy | `crates/web/src/lib.rs`, `crates/web/web/contract.worker.js`, `ContractProxy` of `crates/web/web/index.html` | handle table, `next_id`, Cardano context, event buffer; `booted`; the `pending` map | instantiate, describe, call, load, storage, drop, `setCardano`, `drain_events` | page and worker by `postMessage`, fiber glue |
| Contract card | `index.html`: `addContract` and the render functions | live handles, selection, panel, storage views, Cardano form | every button of a card | its proxy; other cards through `registry.notify` |
| Page registry | `index.html`: `addContract`, `addFiles`, `addDefault` | `registry.contracts`, `loadedHashes`, the example button | drop files, load example, terminate | cards |
| JSON conversion | `crates/web/src/lib.rs:430-697`, the input widgets of `index.html` | none | `val_to_json`, `json_to_val`, `convert_args`, `handle_id`; what the page shows and lets be typed | worker, card |
| Platform shim | `crates/web/src/wasmtime.rs` | TLS slot, allocations | virtual-memory hooks | wasmtime |
| Score example, test components, tests, `serve.mjs`, `repro.mjs` | `examples/`, `crates/test-components`, `crates/*/tests`, `crates/web/*.mjs` | - | - | - |

What is hard here, and what makes each part correct:

* **Fiber glue.** Any number of callers drive jobs, each suspends anywhere, a
  fiber or a job can trap between any two steps, wakers fire before, during and
  after `park`. All of them share one shadow stack pointer. Correct means: one
  root activation at a time, control neither lost nor doubled, no live frame
  overwritten, no lost wakeup, every accepted job settles with its own outcome,
  in order.
* **Serve loop.** Two tasks, each blocking on the client it has in hand, and a
  process that ends on the first error. Correct means: nothing executed twice
  or undeclared, no effect that nobody is told of, no starvation, ^C works.
* **Worker and proxy.** `onmessage` is async: while an operation is parked other
  messages meet a borrowed `Contract`. Events of all UTXOs share a buffer.
  Correct means: each call answered once, each event shown once and with its
  own call, handles never reused, a mint keeps the context it started with.
* **Card and registry.** Every `await` is a point where the user may have
  dropped, selected, typed or terminated. Correct means: what is displayed or
  offered is what the runtime holds, and nothing is loaded twice or leaks.
* **Runtime and CLI start.** Types are checked when an export is looked up and
  relied on afterwards, and two front ends list constructors and methods with
  loops of their own. Correct means: no operation later meets a resource or a
  result it was not checked for, and the front ends offer the same.
* **JSON conversion.** Values cross into doubles and back, through casts that
  truncate. Correct means: the guest gets values of its parameter types
  whatever JSON arrives, and what is shown can be typed back.
* **Codec.** Writer and reader are separate code with a dozen widths, over a
  stream that may stop anywhere. Correct means: round trip, and nothing
  ill-typed is read.

## 2. The modules

| Module | Models | Extends / instantiates |
|---|---|---|
| `JobQueue` | abstract: what `drive` promises, a serial FIFO executor | - |
| `FiberGlue` | the fiber glue; `QueueSpec` is its refinement of `JobQueue` | `JobQueue` by INSTANCE |
| `FiberGlueInv` | its inductive invariant | `FiberGlue` |
| `FiberGlueProofs` | its theorems | `FiberGlueInv` |
| `Runtime` | what is linked, and what counts as a UTXO, constructor, method, storage | - |
| `CliStart` | the CLI from its arguments to the registered methods | `Runtime` |
| `CliStartProofs` | its theorems | `CliStart` |
| `ServeLoop` | accept task and main task of `--serve` | - |
| `ServeLoopProofs` | its invariant and theorems | `ServeLoop`, `SeqFacts` |
| `UtxoLedger` | abstract: what a `Contract` promises the page | - |
| `WebWorker` | proxy, worker and `Contract`, with any client; `LedgerSpec` is its refinement of `UtxoLedger` | `UtxoLedger` by INSTANCE |
| `WebWorkerInv` | its inductive invariant | `WebWorker` |
| `WebWorkerProofs` | that invariant, the safety theorems and the refinement proved | `WebWorkerInv`, `SeqFacts` |
| `ContractCard` | the page's card, composed with `WebWorker` | `WebWorker` |
| `ContractCardInv` | its inductive invariant | `ContractCard`, `WebWorkerInv` |
| `ContractCardProofs` | its theorems | `ContractCardInv`, `WebWorkerProofs` |
| `PageRegistry` | loading and unloading of contracts | - |
| `PageRegistryProofs` | its invariant and theorems | `PageRegistry` |
| `WitTypes` | component types, which drive both conversions of values | - |
| `Codec` | encoder and reader over a stream | `WitTypes` |
| `JsonVals` | values between runtime, JSON and the page's widgets | `WitTypes` |
| `ValueProofs` | the invariants and theorems of both, and induction over their data | `Codec`, `JsonVals` |
| `SeqFacts` | lemmas: the elements of a queue, and which follows which, after each FIFO operation | - |

The `MC*` modules give the constants for TLC. Operators whose comment begins
with "Mutant:" are variants with a plausible bug; `PROJECT.json` says which
property each of them must violate.

### FiberGlue
One action per call the host, wasmtime or compiled code makes into the glue.
`chain`/`after` are the promise chain (`after[j]` is the job whose link `j`
waits for); `cur` is the activation that executes, `None` when JavaScript
idles; `pend[a]` is the settled promise that a suspended activation will resume
with, `fin[f]` the settled promise of `enterFiber`; `slot[f]` the parked other
side with its saved stack pointer. A stack position is a region and a depth;
`base` and `top` are history variables that record where an activation's frames
lie. Ready promise reactions may run in any order, a superset of the microtask
order. `StaleWake` lets any waker fire at any time; `PlainExportTraps` lets a
plain export trap and leave its frame on the main stack between two job steps.
JSPI itself, wasmtime's use of the fiber ABI and function prologues are external
and modelled from how the glue relies on them.

### CliStart and Runtime
A component is a record of imports and exports, functions from names to items;
names are tuples (`<<"method", "utxo", "get">>` for `[method]utxo.get`). The
`get_*` functions of the runtime are predicates, a `bail!` is the predicate not
holding. `Described` and `Implemented` are the two lists the web front end makes
of a contract. `CliStart` is the straight line of `main`, where every step may fail.
The guest declares any subset of the hashes of its methods; the hash keeps only
the last segment of a name, as `method_hash` does.

### ServeLoop
The accept task and the main task have a program counter each (`accAt`,
`mainAt`) and a client in hand (`conn`, `inv`). Clients send their bytes in
parts - part of a head, the head, the header frame, the parameters - and may go
away at any point. `peek` decides on what has arrived. A method's stream is a
bounded FIFO queue. `Shutdown`, `Pick` and `StreamError` are the outcomes of the
poll function, ^C first; any `?` is `Fail`. Whether parameters decode is a
nondeterministic choice here; the codec is its own module. What plain HTTP
clients are told (WIT, 404, 405, 101) is abstracted to the reply "http".

### WebWorker, UtxoLedger, ContractCard
Messages are FIFO sequences. `OnMessage` is the synchronous part of a handler,
one disjunct per operation; one that enters the guest (`New`, `LoadUtxo`,
`CallMethod`, `StorageGet`, `DropResource`) becomes `cur`, which holds the
exclusive borrow until `Finish`, where each has its own continuation
(`ConstructUtxo`, `CallAsync`, `GetAsync`, `DropAsync`). `Suspends = TRUE` lets
other messages be handled meanwhile: the glue allows for guests that park on a
host future, although today's host functions are synchronous.

`UtxoLedger` knows no messages, borrow, fibers or events: requests are open
until they are refused, which changes nothing, or take effect, all at once and
oldest first. The mapping: `open` is the inbox and the running operation,
unless that is a drop, which is `closing` since its handle has left the table;
`live` is the handle table, `used` the ids below `next_id`, `context` the
Cardano context, `answers` the outbox without its events. A request's effect is
at its synchronous handler or at its `Finish`. A mint therefore takes the
context it copied when it started; that the ledger's context of the later
moment is the same one is a consequence of the borrow, and one of the things
that `LedgerSpec` checks.

`WebWorker`'s own `Next` lets the page be any client; `ContractCard` restricts
it to what the buttons and the replies do in `index.html`: one action per
button, one disjunct of `OnReply` per kind of awaiting code, and each of them
posts what the page posts in the same turn. The invocation panel is shared
between contracts: `here` says whether it shows this one, `SwitchContract` moves
it here or away, `OtherContract` is a redraw on behalf of another card.
`ClearLog` empties the log.

### PageRegistry
Each drop or click is a task with a list of files and a stage; each `await` of
`addContract` ends an action. A read that rejects ends the task ("failed").
A page without `crypto.subtle` is left out.

### WitTypes and Codec
A type is a kind and its parts; types are finite trees with distinct names
(`TypeAssumption`, what WIT validation guarantees). The recursion of
`ValEncoder::encode` and `read_value` over the type is a recursive function:
`Encode` and `Decode` are functions of the type, and `Written` and `ReadAs` are
one level of them, given the function that treats the parts, and follow the code
case by case. wasm_tokio's LEB128 and UTF-8 are external operators. `HasType`,
the reference, says which values a type has without mentioning a format.
`Deliver` hands the encoder's bytes over one by one, `Feed` bytes of a peer's
choice; `Read` decodes when what has arrived suffices.

### JsonVals
A form shows a handle and values the runtime holds (`val_to_json`), the user
types them back or something else (`buildInput`), and the call is lowered
(`json_to_val`, `convert_args`, `handle_id`). As in `Codec`, `Lifted` and
`Lowered` are one level of the recursive functions `val_to_json` and
`json_to_val`. A double rounds integers beyond
2^`Safe`; the casts of `json_to_val` truncate to `Width`. `MCCodec` runs `Codec`
and `JsonVals` side by side: a behaviour belongs to one of the two conversions.

## 3. Runs

| Run | Instance | What it shows |
|---|---|---|
| `fiber_safety` | 2 jobs, 2 fibers, depth 2, symmetric | `OneRoot`, `OneContinuation`, `StackSafe`, `NoLostWake`, `ParkSlotFree`, and that `IndInv` is an invariant |
| `fiber_liveness` | 2 jobs, 2 fibers, depth 1, fair | `QueueSpec` (refinement of `JobQueue`), `EveryJobSettles`, `TrapReachesJob` |
| `start` | every combination of right and wrong types for `utxo`, storage accessors, constructor and methods, with another export or an import | `OperationsFit`: whatever passes the checks fits together; `PageAgrees`: the page describes and enables what the CLI makes and serves |
| `start_default_instance` | one owner next to other exports | violated: `DefaultsToTheOwner` |
| `serve` | 2 clients, 3 methods of which 2 declared, streams of 1, fair tasks | `AtMostOnce`, `EffectsAnswered`, `OnlyDeclared`, `EventuallyAnswered`, `CtrlCStops` |
| `serve_until_ctrl_c` | 2 clients, 1 method | violated: `ServesUntilCtrlC` |
| `serve_stops_on_ctrl_c` | 1 client, 1 method, fair tasks | violated: `StopsOnCtrlC` |
| `worker` | 4 RPCs, 2 events, 2 contexts, operations may park, fair | `LedgerSpec` (refinement of `UtxoLedger`), `OneAnswer`, `EventsExactlyOnce`, `EventsWithTheirOp`, `EveryCallSettles` |
| `card` | 4 user actions (other contracts' redraws and taking the panel included), 15 RPCs, fair | `CardsMatchTable`, `FormIsApplied`, `StorageIsCurrent`, `OnlyCallableOffered`, `PanelIsDrawn`, `LoadingEnds` |
| `card_drawn_twice` | 3 user actions | violated: `DrawnOnce` |
| `registry` | 3 tasks, 2 contents, drops of up to 2 files, fair | `LoadedOnce`, `ButtonTracksExample`, `FilesAreLoaded` |
| `codec_round_trip` | wire: boundary values of every kind of type, feeds of up to 3 of 7 bytes; page: integers of 3, 4, 5 and 8 bits, doubles exact to 6, 3 handles | `RoundTrip`, `ReadIsWellTyped`; `LoweredFits`, `TypedBackArrives` |

**Why the bounds are enough.** Fiber glue: the slot `parked`, the chain and the
stack pointer are shared by at most a running job, a queued one and nested
fibers; two of each give a job behind a trapped one, a fiber resumed by a fiber,
and a stale wake between jobs. The proofs remove the bounds for safety. Serve
loop: the interesting races are between one client in the hands of each task and
a second one behind it; with a stream of one, `Dispatch` also blocks. Three
methods with a gap among the declared ones exercise both the filter and the
order of polling. Worker: instantiate plus three operations is a mint, an
operation in progress and one that overtakes it. Card: mint, call, drop and one
of typing, selecting, redrawing, switching contracts or terminating in every order; `MaxRpc` is large
enough that no click is ever cut off (`CardAssumption`). Registry: three tasks
are two that race and one after a termination. Codec: LEB128 group boundaries,
all flag widths (0, 1, 8, 9, 16, 17, 24, 128, 129) and discriminants of two
bytes; TLC's integers limit numbers to 31 bits, so `Bits` is 16 and 28, and
`IsText` is ASCII. JSON: what the casts and the rounding do depends only on the
order of the widths (8 <= 16 <= 32 <= 53 < 64, `WidthAssumption`), which the
scaled ones keep, and small widths let every integer of the 32- and 64-bit kinds
be shown and typed back. The proofs of both need no more of the widths than
that, and cover the real ones.

Deadlock checking is off throughout: every one of these systems may stop (no
more jobs, clients or clicks, a process that ended, a stream read to its end,
or a bound reached).

**Fairness.** `FiberGlue`: the host runs ready reactions (WF), an armed event
comes about (WF on `Wake`), and a guest that is given control again and again
finally returns or returns Pending (SF on `RootReturn`, `FiberReturn`, `Park`;
the assumption on guest code). `Drive`, `Trap` and switches are not fair.
`ServeLoop`: tokio schedules both tasks (WF); nothing is assumed about clients or
`^C`. The properties state what they need of clients: `EventuallyAnswered` holds
if all of them go on sending (`ClientsGoOn`), `CtrlCStops` if the one whose
parameters are awaited is not silent for ever (`[]<>~Silent`). Without that
condition it is `StopsOnCtrlC`, which is violated. `WebWorker`, `ContractCard`: messages are
delivered, guest functions return or trap; the user may do nothing.
`PageRegistry`: files are read and hashed and workers answer.

## 4. Proofs

`FiberGlueProofs` proves for every number of jobs and fibers and every depth:
`TypeCorrect`, `AtMostOneRoot`, `ControlIsKept`, `StacksStaySafe`,
`WakesAreKept`, `ParkNeverThrows`, and `ImplementsQueue` (every step of
`FiberGlue` is a step of `JobQueue` or leaves its variables unchanged).
Assumptions: `Names` (jobs, fibers, `Main` and `None` are told apart),
`Bounds` (the depth bound is positive) and `NullIsNoParty` (null is no slot
value).

None of the properties is inductive alone. `IndInv` joins them with:
`QueueInv` (tickets number the chain; whoever has begun has only settled jobs
before it - this gives `OneRoot`), `TokenInv` and `HolderInv` (at most one of
running, resuming, ended, parked, held by something alive), `FlightInv` (there is
a token exactly while a job is in flight), `SlotInv` (who waits in a slot holds
no token and waits in no other slot), `StackInv` (saved positions lie beyond the
frames of those who will resume there) and `WakeInv` (a wake that found nobody
is remembered). The step proof is split by part: `TypeStep`, `QueueStep`,
`ControlStep`, `StackStep`, `WakeStep`, each with one lemma per action that
disturbs it. `OneContinuation` and `ParkSlotFree` then follow from the token
and flight parts.

`CliStartProofs` proves `StartTypeCorrect`, `OperationsAlwaysFit` and
`FrontEndsAgree` (`PageAgrees`) for every set of components, from
`ComponentAssumption` (`None` names no export, a UTXO's
resource type is one of `Resources`), `ConstructorAssumption` (the constructor
`new` is looked up by is a `[static]` name) and `NoneIsFresh`. Its invariant says
what each check leaves for the steps after it, `Made` for instance that a UTXO
came from a constructor of its own instance or from storage of the right type;
`FailedStep` covers every failing step at once.

`PageRegistryProofs` proves `RegistryTypeCorrect`, `NeverLoadedTwice`
(`LoadedOnce`) and `ButtonNeverStuck` (`ButtonTracksExample`) for any files,
tasks and number of steps, from `RegistryAssumption`. `RegistryInv` adds what a
task holds at each of its awaits (`TaskInv`), that a card belongs to a task that
has begun and that the example's card is of the example file (`CardInv`, so that
with `LoadedOnce` there is one such card for the button to follow), and that
nothing gets past its read before the runtime is compiled (`RuntimeInv`).

`ServeLoopProofs` proves `ServeTypeCorrect`, `ExecutedAtMostOnce`
(`AtMostOnce`), `EffectsAreAnswered` and `ServesOnlyDeclared` for any number of
clients, methods and any stream capacity, from `Assumptions`. The heart of
`ServeInv` is `PlaceInv`: a client is in one place of the pipeline only
(listener, hand of the accept task, one stream, hand of the main task), which is
what makes "executed at most once" inductive; `StreamInv` says that a stream
holds invocations of its own, declared method, and `WaitInv` that nothing was
executed of a client whose turn has not come.

`WebWorkerProofs` proves `WorkerTypeCorrect`, `AnsweredExactlyOnce`
(`OneAnswer`), `LoggedExactlyOnce` (`EventsExactlyOnce`) and
`EventsBeforeResult` (`EventsWithTheirOp`) for any methods and contexts, any
number of requests and events, and operations that park or not, from
`WorkerAssumption` and `NoneIsNoOperation` (the model value `None` is no
activation). `WorkerInv` joins: `OrderInv` (the running operation is older than
what is in the inbox, the inbox is in order), `BeginInv` (the contract comes into
being once, after the boot and before any UTXO or operation), `BoundInv` (handles and storage
versions are outnumbered by requests, which is what keeps them in their
domains), `HandleInv` (a handle is below `next_id`; the running operation works
on a UTXO still in the table, unchanged but for its declarations, or on a fresh
one with the present context), `PendingInv` (who waits is in the inbox, running
or answered, and in one of them only), `EventInv` (events are in the buffer only
while their operation runs, so an answer given at once takes none) and `LogInv`
(a result is in the log only when its request is settled). `CoreInv`, the part
without the log, is shown to survive any turn of any page (`PageStep`) and any
step of the worker (`WorkerStepKeepsCore`).

It also proves `WorkerImplementsLedger`: `Spec => LedgerSpec`, step by
step. One lemma per ledger action says when it is taken (`RefuseMaps`,
`MintMaps`, `RunMaps`, ...), one per kind of worker step which of them it is.
That a mint's context is still the ledger's context when it finishes, and a
call's UTXO still in the ledger, come from `HandleInv`; that the request is the
oldest one open comes from `OrderInv`.

`ContractCardProofs` proves the card for any methods and contexts and any
number of clicks, from `CardAssumption` besides the two assumptions of the
worker. `CardInv` has two halves.

* `PageInv` holds of any worker, operations that park included, and gives
  `CardTypeCorrect`, `PanelNeverEmpty` (`PanelIsDrawn`) and `CardAnsweredOnce`
  (`OneAnswer` under this page). It joins `CoreInv` with `LoadInv` (`addContract`
  waits for one request, and is the only one to boot, instantiate and describe),
  `RequestInv` (requests are about handles that were given out), `ReplyInv` (what
  a success answers), `PanelInv` (a selected UTXO's methods are listed or asked
  for) and `BudgetInv`. The last one counts: a click costs at most three
  requests, its own and the two that the answer to a mint makes, and what a
  pending request will still lead to is set aside for it. So the numbers of the
  requests stay below `MaxRpc` although the page never looks at that bound.
* `SerialInv` needs `~Suspends`, under which `NoUtxoWithoutCard`
  (`CardsMatchTable`), `FormReachesRuntime` (`FormIsApplied`),
  `StorageNeverStale` (`StorageIsCurrent`) and `OffersOnlyDeclared`
  (`OnlyCallableOffered`) are stated: none of today's host functions suspends a
  guest, and with a parked operation a refused drop or read would leave the card
  wrong. It says what the replies on their way are worth when they
  arrive: they come in the order of the requests (`SerialOrder`), a drop or a
  refused query is about a handle that is gone (`AnswerInv`), each handle is
  announced once (`CardsInv`), the youngest `setCardano` carries what the form
  shows (`FormInv`), and each live UTXO's storage is being read, was read at its
  present version, or will be read after a call (`StorageInv`).

The step proof has three layers. `Turn` is what all clicks and replies have in
common, and one lemma per part of the invariant says which turns keep it
(`TurnKeepsCards`, ...). Each action then has a lemma of its own, which shows
that it is such a turn or treats the part it changes. For the worker,
`WorkerMoves` sums up a step as `Quiet` (an operation starts or runs) or `Served`
(a request is answered, with its `Effect` and, without parking, its `Verdict`),
and one lemma per part (`WorkerKeepsStorage`, ...) uses nothing else of it.

`ValueProofs` proves `GuestGetsItsTypes` (`LoweredFits`) and `ShownValuesArrive`
(`TypedBackArrives`) of `JsonVals`, and `ParametersRoundTrip` (`RoundTrip`) and
`ReadValuesAreTyped` (`ReadIsWellTyped`) of `Codec`, for every set of types,
values and JSON values, every nesting, every width, any bytes and any number of
them. Assumptions: `TypeAssumption` (types are finite trees, with the distinct
names WIT demands), `TreeAssumption` (values are, too), `JsonAssumption` (JSON has
the shape its tag says), `HeldAssumption` and `CaseAssumption` (the parameters
under way fit their types), `WidthAssumption` and `WireAssumption` (the order of the
widths; fewer cases than a `u32` can number). `IsText`, which bytes are UTF-8, is
arbitrary. The argument, from the bottom up:

* **Induction.** The library's induction theorems take a predicate, which no
  installed prover can instantiate. `Induction` is over the *set* of numbers with
  a property instead, from the well-foundedness of < on Nat; `PowSucc` and the
  other facts about 2^n come from the number of subsets of a set.
* **Recursive functions.** That `Encode`, `Decode`, `json_to_val`, `ULeb` and the
  others satisfy their own definitions has to be shown, since a recursive function
  is a CHOOSE. `Recursion` names each of them as one `Level` over the arguments
  its `Parts` gives, of smaller `Rank`; a solution below each rank exists and is
  unique (`SolutionBelow`, `SolutionUnique`), and gluing them gives the function
  (`SolutionExists`). What makes this work is that one level looks at the parts only
  (`LevelLocal`, from `WrittenLocal`, `ReadAsLocal`, `LoweredLocal`, ...).
* **One level.** For each kind of type a lemma shows what the conversion does if
  the parts do it right: `LoweredOneLevel` and `BackOneLevel` for JSON,
  `BoolOneLevel` ... `VariantOneLevel`, `ResultOneLevel` for the codec. Below these are
  the formats: the casts and the rounding (`CastFits`, `DoubleExact`,
  `DoubleLast`), LEB128 (`LebBack`, `LebTyped`), UTF-8 (`CharBack`,
  `CharTyped`), flags (`FlagsBack`). Induction on `Depth` gives every type
  (`LoweredHasType`, `Back`, `EveryType`).
* **The stream.** `Faithful(t)` says that a value's bytes are read as that value
  with whatever follows them left over, and that every proper prefix of them (`Cut`)
  is waited on; `Sound(t)` that what is read, from any bytes at all, is a value
  of the type. `Arrives` composes: a cut of two pieces is a cut of the first, or the
  first and a cut of the second (`CutOfTwo`), which is how a list, a record or
  a parameter list follows from its elements (`EachBack`, `EachTyped`).
* **The invariants.** `CodecInv` (what was read is what was written, and what has
  arrived and what is on its way are the encoding of the rest) and `CallInv` (up
  to its submission a call carries the handle and JSON for every parameter, as
  shown until retyped). `RoundTrip` does not say that what was read is
  typed, and `ReadIsWellTyped` not that it is what was written; `CodecInv`
  carries both through a `Read`.

Only model-checked: the liveness properties (`EveryJobSettles`, `TrapReachesJob`,
`EventuallyAnswered`, `CtrlCStops`, `EveryCallSettles`, `LoadingEnds`, `FilesAreLoaded`):
TLAPS does not reason about ENABLED. Every other property of a passing run is
stated by a theorem.

## 5. Findings

* `starstream-run.rs:45-46` says `--utxo` defaults to the only instance owning a
  `utxo`; the code counts every exported instance (`start_default_instance`).
* `starstream-run.rs:50-51` says `--serve` serves until Ctrl-C; one failing
  invocation ends the server (`serve_until_ctrl_c`), and one client that stops
  in the middle of its parameters keeps it from ^C, which the main task does not
  poll while it reads them (`serve_stops_on_ctrl_c`).
* `index.html:768-769` argues that a newer render makes the older one bail; two
  renders for the same UTXO both append (`card_drawn_twice`).

Seen while modelling, in the modules but without a run of their own:

* the example button says `Bundled score.wasm example loaded` (`index.html:1183`)
  also over a card whose boot or instantiate failed: `addContract` returns the
  entry all the same (the case "failed" of `Loaded` in `PageRegistry`);
* a file that cannot be read ends its drop without a word: the files behind it
  are left unread (`ReadFails` in `PageRegistry`);
* a handshake whose head arrives in two segments is answered as plain HTTP
  (`PeekHttp` on a partial head; the comment at `starstream-run.rs:119-121`
  assumes one segment);
* terminating a card that is still loading leaves its `addContract` waiting and
  the rest of that drop unread (`Orphaned` in `PageRegistry`);
* `Render` ends the CLI over any listed `[method]` that is not the UTXO's,
  after the UTXO was made, also one of another resource of the instance;
* `set-storage` of the score example declares no methods
  (`examples/components/score/src/lib.rs:48` declares them in the constructor),
  so a UTXO reloaded from saved state, which the repository's `README.md:82-83`
  presents as the way to go on with it, has no method either front end offers;
* a 64-bit integer beyond 2^53 leaves the worker as exact JSON text, but the
  page's `JSON.parse` (`index.html:990` for storage) rounds it; `Carried` in
  `JsonVals` says which values `TypedBackArrives` covers;
* `some(none)` is shown as `null`, and typed back it is `none`;
* `StackSafe` holds although every trap leaves its frames on the main shadow
  stack; the space is never reclaimed.

## 6. Not modelled

* **Platform shim** (`crates/web/src/wasmtime.rs`): the hooks wasmtime calls on
  wasm32. Each is one store, one allocator call or a constant; the state they
  serve and the order of the calls are wasmtime's.
* **Score example**: a guest of straight-line functions. What it may do to the
  host is within what `ServeLoop`, `CliStart` and `WebWorker` let any guest do.
* **Tests, test components, `serve.mjs`, `repro.mjs`**: read for what they expect
  of the program.
* **WIT and WAVE text, HTML, logging, styling**: formatting. Where it can fail,
  the failure is in the model.
* In the runtime crate: the conversion to its own `Val`, which nothing calls,
  `componentize`, and the breakpoint handler of the `trace` feature.
* **Memory use** (a list's capacity is reserved from a length the peer sent) and
  **shadow stack exhaustion**.
* **Ownership of the job closure** in `run` (`fiber.rs:157`): no caller cancels
  the future.
* **A peek at part of a head** (`starstream-run.rs:346`): the model makes it, but
  which protocol the client meant is nothing a property could hold the program
  to.
* Starvation among streams by an endless supply of clients: each client makes
  one connection.
* Pages without `crypto.subtle`, which have no duplicate check.

## 7. Plan

Done, in this order: 1 `FiberGlue` with `JobQueue`, its invariant and proofs
(the core: everything in the browser runs inside it); 2 `ServeLoop`;
3 `WebWorker`, then 4 `ContractCard` composed over it; 5 `PageRegistry`;
6 `Codec`; 7 `Runtime` and `CliStart` with proofs; 8 `UtxoLedger` and its
refinement by `WebWorker`; 9 `JsonVals`; 10 the agreement of the two front ends,
checked and proved; 11 the panel that is shared between contracts; 12 the
inductive invariants and theorems of `PageRegistry`, `ServeLoop`, `WebWorker`, its
refinement and `ContractCard`; 13 `WitTypes`, with the recursion of `JsonVals` and
`Codec` as recursive functions, and the theorems of both.

Next, modelling:

1. `WebWorker` over `JobQueue`: the guest operation as a job of the glue, so that
   a trap in a fiber is followed up to the reply.
2. A third connection per client in `ServeLoop`, to look at starvation.

Next, proving: the refinement of 1, when it is there; and that the card, while its
worker lives, implements `UtxoLedger` as any client does (a turn that posts two
requests is two steps of the ledger, so the ledger needs a step that opens a set
of them).
