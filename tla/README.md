# Verification of roc-signals

TLA+ models of the parts of roc-signals where order, lifetime and bookkeeping
decide whether the program is right, checked with TLC on small instances, and
proved with TLAPS for every instance where stated. Every definition is a
translation of code; `PROJECT.json` maps each one to its lines.

## The system

A Roc application hands a descriptor tree to a host once. From then on a Zig
**engine** (`src/signals/engine.zig`) keeps the tree alive: it owns the states,
evaluates the signals that depend on them and turns changes into render
commands. Two hosts embed the engine: the **native host**
(`src/native_host.zig`), which runs specs against a simulated DOM, and the
**Wasm host** (`src/wasm_host.zig`) with its JavaScript runtime
(`www/static/signals.mjs`).

| component | state | operations | talks to |
|---|---|---|---|
| scopes and identities (`scope_tree`, `scope_runtime`, `identity_table`) | slots with lifecycle, parent, activation stamp; a ring of reusable slots; node and DOM identities | claim, publish, retire a subtree | structural transactions |
| signal graph (`active_signal_graph`, `signal_graph`) | dense array of records, use counts, ranks, dependents with back slots, source and sink routes | prepare a release closure, prepare an append, commit | structural transactions, propagation |
| change sinks (`descriptor_stream`, `engine`) | lane of descriptors, per-scope ownership, per-record routes, pending commands | retire, publish, run initial and change commands | graph, effects |
| propagation (`engine`, `signal_records`, `render_cache`) | cached values, dirty generation, overlay of a prepared update | mark, evaluate by rank, prune, publish | graph, structural transactions |
| structural transactions (`engine`, `collection_plan`, `structural_splice`, ...) | staged descriptors, removals, publications | prepare (may fail), commit (may not) | everything above |
| keyed rows (`each_*`, `rows_*`, `Rows.roc`) | sites, generations, row handles, order | diff, transition, publish | structural transactions |
| effects in the engine (`engine`) | queue, running table, effect origin, owner chains | admit, take, finish, clear | hosts, scopes |
| intervals (`effects_runtime`, `native_timers`) | active timers by record | sync with the graph, tick | hosts |
| command batches (`render_commands`) | staged commands, buffers | begin, append, publish, discard | hosts |
| browser effect executor (`signals.mjs`, `bounded_effect_runner.mjs`, `effect_http.mjs`, `wasm_host.zig`) | effect slots, stacks, stack limits, pump flag, running set | pump, suspend, resume, complete, contain | engine, network |
| browser drain and DOM runtime (`signals.mjs`) | element ids, listeners by element, behaviour instances, intervals, storage batch, failure | drain a batch, call behaviours, contain, clear | engine, DOM |
| event bindings (`descriptor_reindex`, `render_cache`, `render_commands`, `signals.mjs`) | lane of event descriptors, wire records, listeners | move ids, journal, encode, decode, bind, dispatch a payload | engine, DOM |
| browser environment (`signals.mjs`, `wasm_memory_views.mjs`) | mount generation, environment listeners, views of the memory, payloads in flight | prepare, commit, seed, report a change, free | engine, page |
| controlled inputs (`controlled_input_policy.mjs`, `signals.mjs`) | focus, composition and pending value per input; values waiting for options | events, set value, reapply | DOM |
| host values (`host_value_registry`, `retained_values`) | reference counts of erased values | retain, release | everything |

An *action* is a command that a handler returns. It writes states in one
transaction; the transaction re-evaluates what depends on them and may retire
and create scopes; then its follow-on commands (initial commands of new
change sinks, change sinks whose signal changed) run, each with a transaction of its own,
before the first command returns. `Then` adds an effect: Roc code with hosted
calls such as `Http.send!`, run by the host between turns, whose result is
another action.

What is hard here, and a test seldom reaches:

- an effect outlives the scope that started it, while slots and node ids are
  recycled; the identity of what it names is a stamp or a plain number;
- commits nest, so what was read, reserved or indexed before a commit is used
  after others have run;
- arrays are kept dense by swap removal, and four indexes refer to positions;
- effects suspend on private stacks of one Wasm instance, and answers,
  events, aborts, failures, unmounts and remounts interleave;
- failures are contained in JavaScript, by callbacks that are queued behind
  others;
- a batch is applied while foreign code (behaviours, listeners) is called, may
  throw and may begin another batch;
- ids of elements and of events are dense and used again, on both sides of the
  boundary, by records that are bytes;
- users type, compose and choose while the engine writes the same controls;
- the page changes while it is mounted, unmounted and remounted, through a
  memory whose views any call may detach.

`hazards` in `PROJECT.json` lists these at their lines, with the
properties that cover them.

What makes each component correct:

- *scopes*: active scopes form a tree; a retired slot is not reused within the
  generation that retired it; nothing recorded about a lifetime matches
  another;
- *graph*: a record is present exactly while it is used, with its exact count;
  back slots and dependents are inverse; ranks order inputs first;
- *change sinks*: lane, routes and ownership lists agree after every commit;
- *propagation*: after a transaction every cache holds what its transform gives
  for the present sources, what is rendered agrees with the caches, and an
  observer has run once, with the value its signal settled at;
- *effects*: admitted effects start in order, settle once, and run their
  result in the nearest surviving owner;
- *DOM runtime*: between turns the document, the listeners, the behaviours, the
  timer and the storage are what the engine asked for; nothing acts after
  containment;
- *event bindings*: the listeners of the page are those of the committed
  handlers, and an event reaches the handler it was raised for with its
  payload and policy;
- *environment*: payloads are freed exactly once; the engine knows the page
  as it is; listeners belong to the present mount, and a contained or unmounted
  page has none;
- *controlled inputs*: no write disturbs editing, none is lost, none reaches
  another element (two ways around the last two are known deviations);
- *executor*: between segments the instance is on its main stack; every running
  effect has one continuation; slots do not leak; unmount completes.

## Modules

| module | content |
|---|---|
| `EffectQueue` | abstract specification: effects with fresh ids, started in admission order, settled at most once |
| `EffectLifecycle` | the engine's half of an effect, with scopes, states, commits and nested commands; the strengthened invariant |
| `MCEffectLifecycle` | its instance for TLC and the refinement mapping to `EffectQueue` |
| `SequenceFacts` | lemmas on sequences for the proofs |
| `EffectLifecycle_proofs` | theorems about `EffectLifecycle`: stamps and types; its scopes, with the tree, the owner chains and the search for a survivor; that it implements `EffectQueue` |
| `SignalGraph` | the graph as a value: release closure, dense renumbering, adjacency edits, append |
| `ChangeSinks` | composes `SignalGraph` with lane, routes, ownership lists and pending commands |
| `MCChangeSinks` | a program of five records for TLC |
| `Propagation` | one transaction over a signal graph: waves, overlay, reconciliation of rows, commit |
| `MCPropagation` | every graph of a few records, for TLC |
| `Propagation_proofs` | theorems about `Propagation` |
| `BrowserRuntime` | event loop, drains, executor and Wasm registers |
| `BrowserRuntime_proofs` | theorems about `BrowserRuntime` |
| `DomRuntime`, `MCDomRuntime` | the drain of a batch into the document, with behaviours and their callbacks |
| `DomRuntime_proofs` | theorems about `DomRuntime`: containment |
| `DomMirror_proofs` | theorems about `DomRuntime`: document, registrations and widgets mirror the engine, widgets are cleaned up in place |
| `RenderWire` | event records, extraction plans and payloads, byte by byte |
| `EventBinding`, `MCEventBinding` | composes `RenderWire` with the lane of events, the page's listeners and an event on its way |
| `BrowserEnvironment`, `MCBrowserEnvironment` | mounting and reporting changes of the page through the instance's memory |
| `BrowserEnvironment_proofs` | theorems about `BrowserEnvironment` |
| `ControlledInput`, `MCControlledInput` | text inputs and selects under users' hands |
| `ControlledInput_proofs` | theorems about `ControlledInput` |

### EffectLifecycle

`lifecycle`, `parentOf`, `activation`, `retiredAt` are the fields of a scope
slot; `nodes` the node identities with the scope that owns the state;
`generation` is `dirty_signal_generation`, which is also the reuse
barrier. `frames` is the call stack of commands: an entry of kind `then` is
inside `tryThenCommand` between its reservation and its append, and `nested` is
what its commit has still to run. `pending` with its `capacity`, `running` and
`nextId` are the fields of the engine of those names. `births` counts
lifetimes and `finished` collects settled ids; the program has neither, and
no guard reads them.

| action | code |
|---|---|
| `DispatchEvent` | `dispatchRocEventWithStats`, `roc_ui_event` into `tryRunCommand` |
| `EnterThen`, `EnterUpdate` (within the actions that start a command) | `tryThenCommand` up to its commit, `tryUpdate*Commands` |
| `CommitChanges` | `prepareRootsInto` and `commitWithPublication`: any subtrees retire, scopes and states are claimed in the engine's order |
| `RunFollowOn` | `runActiveOnChangeInitialCommandIndices`, `runActiveMountCommandIndices`, `runPostCommitCommands` |
| `LeaveCommand` | `tryThenCommand` after its commit: snapshot and append |
| `StartEffect`, `FinishEffect` | `runNextEffect`/`roc_ui_effect_next`, `completeEffectJob`/`roc_ui_effect_complete` |
| `TearDown` | `clearEffects` |

A state is the identity of what it holds: reads and snapshots are sets of
(node id, lifetime). Which descriptors a change of state adds or
removes is application code, so a commit chooses any subtrees and any claims.
Row scopes carry the activation stamp that their preparation saw
(`reserveEachRowScopeGeneration`), others the generation of the commit.

`mode` records how the host failed, where it can: a retired read
(`evalHostSignalRecordRead` panics), an initial command without its owner
(`findStateCommandTarget` panics), an append past the reserved place.

### SignalGraph and ChangeSinks

A graph value has the dense order of records and per record its id, use
count, rank, dependents and back slots. `Released` follows
`prepareReleaseClosure` and the two apply functions step by step, in the order
of the code: compacted lists, dropped edges, renumbered edges, dense array,
routes. `Appended` follows `prepareGraphAppend`. Whether a list is compacted
depends on allocated capacity, so `Compactable` inputs are chosen freely.

`ChangeSinks` adds the lane (`sinks`), its ownership lists (`owned`) and the
routes (`routes`). `SinkSlots` is the overlay of `prepareSinkSlots`, whose
journal of physical slots `Replayed` applies. Commands left by a commit wait in
`due`; an entry carries the index the code keeps and, for the properties
only, where its sink is now. `refused` is set when a preparation finds
committed state inconsistent (`InvalidEdit`, `InvalidRelease`): in the program that
fails the host.

Sinks choose any watched record and any scope; a transaction retires any scopes
but the root, activates at most one, and fires any set of records that have sinks.

### Propagation

`program` is the signal graph with its sinks (texts, observers, collections),
fixed at mount. `cache` and `sinkCache` are the `cached_value` slots of records
and descriptors, `shown` the texts of the render cache, `item` the committed
item of the surviving row of each collection. `plan` is the transaction in
preparation with its `PreparedCacheUpdates`: `staged` and `sinks` are its slots,
`memo` the remembered evaluations and whether they changed.

| action | code |
|---|---|
| `WriteStates`, `NotifySource` (both by `Prepare`) | `PreparedStateWrites`, `prepare`, `prepareMany`, and `prepareRootsInto` up to its loop: roots, first wave, texts, collections to reconcile, observers' commands |
| `Reconcile` | one turn of the loop of `prepareRootsInto`, with `appendChangedRowPropagation` |
| `Commit` | `commitWithPublication` with `commitSourceCaches` |
| `Abandon` | a preparation that is refused |

Records are numbered inputs first, which is what ranks give; evaluation is by
need and memoized, so the order among independent records does not matter. A
collection is a value with one row that survives every change and has that value as
its item. Rows that come and go belong to the structural transaction, and so do
`when` sinks. Boolean and custom attributes follow the path of texts;
constants never change and `combine` is evaluated as `map2` is, so none has a
kind of its own. A provisional state cell is the staged value of the state's
record. The commands of observers are values; the transactions they run are in
`EffectLifecycle`.

The code does not settle every graph in one transaction, and the properties say
where it does (`Settling` of caches, `SettlingAtOnce` of sinks as well). They leave out

- records that read a row's item and anything else, as far as their sinks are
  concerned (their caches do settle): texts and commands made from the old item
  stay in the plan;
- selectors on a row's item that such a record reads, and rows of a collection
  computed from such a record;
- selectors below a selector.

The last is a finding with a run of its own, the first a known deviation (below); the
rest are hazards of `PROJECT.json`. TLC found each of them as a violation of `CachesSettled`
or `SinksSettled` before it was left out.

### BrowserRuntime

`micro` is the microtask queue, `frames` the calls of `applyPendingCommands` in
progress, `js` the flags of the runtime, `wasm` the stack pointer, the
limits, the main stack and the active effect, `jobs` the executor's slots,
`launch` what a started effect captured, `waiting` the fetches in flight.
A stack is the token of its effect, 0 the main stack.

| action | code |
|---|---|
| `DispatchEvent`, `ApplyReentrant` | a DOM listener, from a task or from within a drain: `dispatch` and its drain |
| `NotifySource` | `tickTimer`, `dispatchPopstate`, `dispatchVisibilitychange`, `dispatchOnlineChange` |
| `ApplyCommand`, `ApplyThrows`, `EndApply` | `applyPendingCommands` |
| `PumpTurn` | the microtask of `scheduleEffects` with `roc_ui_effect_next` and the trampoline |
| `AnswerTurn`, `ResumeTurn` | `execute` after its fetch, `roc_http_send` after its suspending import |
| `SettleTurn` | the effect's promise: `roc_ui_effect_complete` or containment |
| `FetchSettles` | the network's answer, failure or timeout |
| `Mount`, `Unmount` | `mount`, `unmount` and `finishUnmount` |

Every host call may trap. Some traps mark the instance poisoned first
(`failHostWith`), a bare one does not (stack overflow, an unreachable in Roc
code), and the model has both. The slots, tokens and calls of effects are
exact; the engine behind a host call is two numbers, the effects it has queued
and the commands it has published.

The promise of a suspended call is one microtask per step. JSPI and the
promise jobs of the language may take more; the relative order of callbacks
that the properties depend on (a rejection handler behind an already queued
pump) is the same.

### DomRuntime

`BrowserRuntime` has the event loop and the engine's stacks with commands that are
numbers; `DomRuntime` has what the commands do. `eng` is what the engine has
rendered and what it publishes as commands (`Turn`), `dom` the document, `nodes`
the runtime's map of element ids, `ears` the listeners the browser has,
`cleanups` and `owned` the runtime's two indexes of them, `widgets`
the behaviour instances and `pending` the two sets of deferred work. `frames`
is the stack of drains: a callback may raise an event, whose listener
dispatches and drains before the outer batch goes on.

| action | code |
|---|---|
| `Turn`, `Publish` | the engine's changes and their commands (`WasmSink`), read by `readPendingCommands` |
| `CreateElement`, `Place` | `registerNode`; `appendChild`, `moveBefore` |
| `RemoveNode`, `ReleaseNode`, `Detach` | `remove_node`: the walk of `releaseSubtree`, node by node, then `removeChild` |
| `BindEvent`, `ClearEvent` | `registerEventCleanup`, `dropEventCleanup` |
| `SetMarker`, `RemoveMarker`, `SetAttribute` | the behaviour attribute and the other attributes of a marked element |
| `StartOrCancelInterval`, `QueueStorage` | `startInterval`, `cancelInterval`; `queueStorageCommand` |
| `EndCommands`, `AttachBehavior`, `EndAttach`, `UpdateBehavior`, `EndDrain` | the storage flush and `flushBehaviorEffects` |
| `Return`, `Reenter` | a behaviour's callback returns, or raises an event first |
| `Throw` | a command, a callback or the flush throws: containment for events, none for timers and mounts |
| `Mount`, `Event`, `Tick`, `Unmount` | what begins a turn; `clearDom` |

Which changes the engine makes is free; what it publishes for them is
`WasmSink`'s commands in its order. Text, labels, titles and navigation are
commands that touch nothing the properties relate, and are left out. There is
one stored item, one interval and one listener per element.

### RenderWire and EventBinding

An event's id is the index of its descriptor in one lane. A commit swap-removes
descriptors of retired and re-collected elements and appends new ones, so that
ids of handlers that stay move; the page must follow in the same batch.

| definition | code |
|---|---|
| `NextLane` (`RemovedIndexes`, `Survivors`, `Added`) | `descriptor_reindex.Plan`, the replacement stream |
| `Journaled`, `WithFixed`, `WithNamed`, `Differs` | which bindings the render cache edits, for moved and for new events |
| `Staged` | the order of the commands of a commit |
| `AppendRecord`, `BindRecord`, `ClearRecord` | `DynamicBuffer` |
| `Operands`, `DecodeDynamicCommand`, `ParsePlan`, `Decode` | the browser's reading of them, with every check that makes a record malformed |
| `Applied`, `BindEvent`, `ClearEvent`, `RemoveNode` | `applyCommand` of event commands and of removal |
| `Fire`, `Hop` | an event and one of its hops (capture, target, bubble): filter, `once`, policy, extraction, delivery by id, the commands that come back |
| `Commit` | a commit no listener began |

`Fixed` commands are the compact opcodes, used when `CanUseFixedOpcode`. Numbers
are below 256, so three bytes of each u32 are zero; names are short byte
strings of different lengths, which is what alignment and padding depend on. An
element has at most one handler per DOM event (see the hazard at
`signals.mjs:1707`). `asked` and `delivered` are history.

### BrowserEnvironment

`world` is the page (one version per source: address, visibility, connection),
`due` the events queued for its changes, `told` what the engine was told, `rooted`
whether it has the root of a mount (`root_elem`), `mem` how
often the memory has grown and when the views were made, `heap` the
payloads allocated in the instance, `stranded` those of them that nobody will
free, and `task` the JavaScript that runs, with the payloads it holds.
`rt.unmount` says how far `unmount` has come: waiting for effects, stopped by a
cleanup that threw, or finished.

| action | code |
|---|---|
| `Mount`, `PrepareOne`, `Prepared`, `CommitOne`, `Committed`, `ReleaseOne`, `Released` | `mount` up to its generation: `prepareInitialEnvironmentPayloads`, `commitInitialEnvironmentPayloads`, `freePreparedPayloads` |
| `CommitRefused` | the engine refuses a `roc_ui_set_` call while it has a root (`setInitialLocationPayload` and the other three) |
| `Declare` | `roc_ui_prepare_mount` in `prepareMountEnvironment`; `seedInitialStorageSnapshots` begins |
| `CallMount` | the listeners are installed, then `roc_ui_mount` |
| `EventFires` | a listener of the page with the generation it was installed in |
| `Dispatch` | an event of the document with its payload |
| `AllocatePayload`, `CallHost`, `FreePayload` | `allocatePayload`, the write and the host call, `deallocEventPayload` |
| `Drained`, `DrainThrows` | `applyPendingCommands` |
| `Refused`, `Trap` (with `Trapping`) | an allocation refused by the limit or by the instance; a call that traps, with `poisonAfterHostFailure` |
| `DeallocTraps` | `roc_dealloc` traps, which its callers do not contain but for the seeding of storage |
| `Unmount`, `EffectsReturn`, `Finish` | `unmount`; the last effect in flight returns; `finishUnmount` |
| `Change` | the page changes |

The storage seeds are a number of items (`Declared`), each allocated, written
and freed like an update. A listener that throws between two steps unwinds
through the `finally` and `catch` of the code; `failing` says that a task does.
A mount is tried on any page, mounted or not, as the code does not ask.

### ControlledInput

`inputs` holds the policy's record per element id (`value`, `focused`,
`composing`, `pending`) and the node whose listeners feed it, `selects` the
values to be applied again, `dom` the controls. The six functions of
`controlled_input_policy.mjs` are operators of the same shape (`SetValueOn`,
`Flushed`, `Focused`, `Blurred`, `Synced`, ...), and an action is a listener or a
command.

| action | code |
|---|---|
| `Create`, `BindInput`, `SetValue`, `AddOption`, `RemoveOption`, `Move`, `Remove` | commands of a batch |
| `BeginBatch`, `EndBatch` | `applyPendingCommands`, with `reapplyPendingSelectValues` |
| `Focus`, `Blur`, `Edit`, `StartComposition`, `EndComposition` | the user, with the six listeners of `controlledInput` |
| `Mount`, `Unmount`, `Fail` | `clearControlledInputs` from `clearDom` and from containment |

A focused node that is moved loses the focus with the events of `blur` or
without: browsers differ, and the model has both. Selection positions are left
out. The rest is history: `wanted` and `asked` are the last value set and the
values ever set; `touched` are the controls that, since the last value was set,
the user has edited or that have lost the option they showed or were to show;
`missed` the selects that the runtime's own write went by (`WriteMissed`,
`SkippedUnshown`); `leftover` the ids for which an unmount left a value in
`selects`. `SelectSettles` leaves out what is touched or missed and
`WritesReachTheirNode` what is left over; the last two are gaps of the code
(Known deviations).

## Runs

| run | shows | states |
|---|---|---|
| `effect_scopes` | recycling never redirects a result; a result finds its nearest survivor; scopes form a tree; the proofs' invariant holds | 190 786 |
| `effect_queue` | refinement of `EffectQueue`; every effect returns | 100 314 |
| `change_sinks` | graph, lane, routes and ownership agree; no preparation refuses | 20 908 |
| `propagation` | caches, texts, rows and observers settle in one transaction; waves never clash in the overlay; the proofs' invariant holds | 206 087 |
| `browser_runtime` | contract assertions never fire; stacks, slots and continuations; pump and unmount make progress; the proofs' invariant holds | 227 058 |
| `dom_runtime` | document, registrations and behaviours mirror the engine over nested drains; clean-up in place; nothing acts after containment | 198 199 |
| `event_binding` | registrations are the committed bindings; an event reaches its handler with its policy and payload; `once` | 21 184 |
| `browser_environment` | payloads freed once, unless the free itself traps; the engine knows the page; no listener on a contained or unmounted page; changes are reported; the proofs' invariant holds | 616 092 |
| `controlled_input` | editing is safe; deferred writes of texts are not lost, no write is misdirected but for what an unmount leaves; selects settle but for two gaps; the proofs' invariant holds | 2 209 189 |
| `effect_reserved` | *violated*: the reserved place is taken by a nested effect | |
| `browser_trap` | *violated*: the pump enters an instance that has trapped | |
| `propagation_selector` | *violated*: a selector below a selector keeps its old value | |

The violated properties quote documents, comments or tests of the repository;
`findings` explains each trace. Deadlock is not checked: the system
idles when users do, stops after a teardown, and stops when it fails.

### Known deviations

Seven more statements of the documents, or properties one would ask for, do not hold of
the code. They are properties of the modules, without a run of their own; each is
found in seconds with the constants given here, all others as in the named cfg.

- `EffectLifecycle!SnapshotIsOwn`. `readsStatesActive` (engine.zig:16988) decides by
  node id whether the read states survived the commit. A follow-on commit may
  retire a state and another recycle its id, and the snapshot is taken from
  the new state, though design.md:459-460 says "when that commit retired the read
  states, the snapshot its handler observed". (`MCEffectScopes.cfg` with `MaxScope` 1,
  `MaxNested` 2.)
- `EffectLifecycle!ChainSurvivesDisposal`. A result's command may be another `Then`,
  whose reads are evaluated before anything else (engine.zig:16963); a read whose
  state was retired while the effect ran panics. design.md:1877 says "The action a
  thunk returns is applied like any other command" and design.md:1889 "Disposing the
  owning scope neither cancels nor orphans a queued or running effect".
  (`MCEffectQueue.cfg` with `MaxEffects` 2, `MaxFrames` 1, `MaxNested` 0, `Spec`.)
- `ChangeSinks!OriginIsProducer`. A change command records its sink's lane index
  before the commit (engine.zig:13945) and looks it up after it (17121), when
  removals have moved sinks: another sink, or none, is the effect origin of the
  command, which engine.zig:174 calls "The producing change sink".
  (`MCChangeSinks.cfg` with `Watched` {4, 5}, `MaxSinks` 3, `MaxDue` 2.)
- `Propagation!ObserversSeeFinalValue`. The first wave appends the command of an observer
  whose signal reads a state and a row's old item (engine.zig:16415); the wave of the
  reconciled collection forgets the evaluation and appends a second command.
  design.md:1821-1822 says observers "observe the final value once per changed
  edge, not intermediate writes". (`MCPropagation.cfg` with `Size` 4.)
- `DomRuntime!AbandonedDrainIsContained`. A drain of a timer's, a popstate's or a mount's
  batch that throws leaves the rest of its batch unapplied and the runtime
  usable: only events and effects contain it (signals.mjs:1777, 1020).
  design.md:2161-2163 says "For unexpected executor or widget failure after earlier commands
  ran, stop the drain, report the failure, detach registrations and asynchronous work, and
  contain the mount". (`MCDomRuntime.cfg` with `Throwing` {"event", "timer"}.)
- `DomRuntime!NothingActsAfterwards` with callbacks other than updates that raise events. The
  inner event's drain throws and contains the runtime; the browser swallows
  what its listener throws, and nothing in `applyPendingCommands` looks at
  the failure, so the outer drain goes on with its commands and registers
  a listener, an instance or an attach in a runtime that has been contained.
  The same sentence of the document asks to "stop the drain". (`MCDomRuntime.cfg`
  with `Reentry` {"attach"} or {"cleanup"}.)
- `DomRuntime!WidgetsMirrorMarkers` with attaches that raise events. The event's turn
  removes the element or its marker while its behaviour's `attach` runs;
  `attachBehavior` registers the instance afterwards (signals.mjs:1914-1915), on an
  element that no later command names, and no step cleans it up. (`MCDomRuntime.cfg`
  with `Reentry` {"attach"}, `Throwing` {}.)

Five more are written into the properties as named exceptions, each by a history
variable or an action of its own, so that the runs show the rest to hold:

- a select's write that was deferred by focus is flushed on `blur` by `writeToDom`
  alone (signals.mjs:2112). If its option is not there yet the select shows nothing, and
  the value is not put into `pendingSelectValues`, so that an option which comes
  later does not bring it back; the comment at signals.mjs:2163-2167 says "Remember the
  intent and re-apply it once the whole batch - options included - has been
  materialised". (`ControlledInput!WriteMissed`.)
- a write is skipped as equal to the value of the entry
  (controlled_input_policy.mjs:60), although the select shows another option, which the browser
  picked or `reapplyPendingSelectValues` wrote without the entry.
  (`ControlledInput!SkippedUnshown`.)
- `clearControlledInputs` (signals.mjs:2203) does not clear `pendingSelectValues`: a value that
  waited for its option when the page was unmounted is written to the element that has
  its id in the next mount. (`ControlledInput!leftover`.)
- a trap of `roc_dealloc` is dropped or rethrown by `deallocEventPayload`
  (signals.mjs:968-977) and thrown on by `freePreparedPayloads` (619-622) and by the
  writers of updates (701) without containment: the payload and those still to be freed stay allocated, and the runtime goes
  on in the trapped instance. (`BrowserEnvironment!DeallocTraps`, `stranded`.)
- a mount whose drain throws leaves its listeners on a page that is not mounted, where
  they ignore their events. The next `mount`, like one on a mounted page, is refused by the engine
  at its first `roc_ui_set_` call (wasm_host.zig:1130, 1139, 1167, 1186), which contains the runtime.
  (`BrowserEnvironment!CommitRefused`, last conjunct of `ListenersFollowMount`.)

### Bounds

- `effect_scopes`: slots 0..2 allow a chain of three owners, two siblings, and
  recycling of each; four commits allow retire, recycle, retire and recycle
  again around one effect; one follow-on command nests once.
- `effect_queue`: three effects exercise order and overlap; two nested frames
  with two follow-on commands each admit inside a commit; two commits
  retire and recycle an owner. `InitCapacity` 2 is small so that the
  list grows within the bound.
- `change_sinks`: four sinks in three scopes on three of five records: two sinks
  per record, records shared between scopes, removals in the middle and at
  the end, chains of two swap removals. The state space is closed under
  these bounds without a bound on the number of transactions.
- `propagation`: all 1666 graphs of five records over one or two roots in which every
  record but the last is read by another, each record with a text and an observer.
  Five records give a diamond, a row below a row, a selector with a reader below
  and a record that mixes a row with a state. Values 0..2 with the
  transforms `v \div 2` and `(v + w) % 3` let a change be pruned or cancel out; the
  selector keys 0 and 1 leave a value that selects nothing. The state space is
  closed without a bound on the number of transactions.
- `browser_runtime`: three tokens with two slots (a slot is reused and the
  executor can be full), two calls per effect (suspended, resumed, suspended
  again), two nested drains, two mounts, two queued effects. Tokens are
  never reused, so their number bounds the effects of a behaviour; in the program they
  are 32 bits and running out fails the host, as it does here.

- `dom_runtime`: two elements, one of which may be below the other or beside it,
  three nodes (an id is used again for a new node), two behaviours and two event
  ids (a listener or a marker is replaced by another), five changes of the
  engine in any division over turns, two drains inside each other. Only updates
  raise events (`Reentry`) and only drains of events throw by themselves
  (`Throwing`). This is an assumption on the application's behaviours, not a bound:
  where attaches or cleanups raise events two of the properties fail (Known
  deviations), and `DocumentMirrorsEngine` and `RegistrationsMirrorEngine` still
  hold at these bounds when nothing throws by itself. The callbacks that containment and
  unmount run are assumed to return: `cleanupBehaviors` (signals.mjs:1948) has
  no `catch`, so a cleanup that throws there leaves the rest. Elements,
  behaviours and event ids are interchangeable (symmetry).
- `event_binding`: a box and two rows, each with two forms that share event names
  and differ in policy, delivery and plan: compact and dynamic records, all
  five kinds of payload, capture and bubble, filters with and without `once`. Two
  commits move an id and move it again, or put an element back; one
  of them may come in the midst of the one event.
- `browser_environment`: two sources and two storage items, so that one payload is
  prepared while another is held; three mounts leave events of two older
  generations queued; one growth, one refusal at any allocation, one trap of any
  call and one `roc_dealloc` that strands what is held, in any order. `MaxStranded` bounds
  the traps of `roc_dealloc`: there may be more in the program, each as this one.
- `controlled_input`: one id with two nodes and two mounts (the id is used again
  within a mount and over mounts), two values besides the empty one, which are
  interchangeable. Controls do not interact but through the focus.

### Fairness

`Propagation`, `ChangeSinks`, `DomRuntime`, `EventBinding` and `ControlledInput` state none:
their properties are about safety. `EffectLifecycle`: a
turn runs to its end (weak). Starting an effect and
finishing each running one are strongly fair: the host's pump is a queued
callback that events cannot overtake for ever but may come before, and hosted
calls return (requests have timeouts chosen by the application;
without one this is an assumption on the network). `BrowserRuntime`, where liveness must hold without the network, assumes
only that a drain proceeds and that microtasks run; nothing of the network,
the page or users. So `UnmountCompletes` says that unmounting does not wait for
servers.

`BrowserEnvironment` assumes that a task runs to its end (weak) and that the browser
takes a queued event of each source, which events of the document may precede
but not for ever (strong); nothing of the page, which may stop changing,
or of users, who may unmount.

`PendingEffectsStart` excludes one case, written into it: a batch that throws
outside an event or effect is abandoned without containment and without a pump
(`threw`).

## Proofs

All theorems hold for every value of the constants that satisfies the named
assumptions; TLC evaluates these in the runs.

**Effects: lifetimes** (`EffectLifecycle_proofs`, from `EffectConstants`):
`StampsOrderLifetimes` (`Spec => []Inductive`), `TypeCorrect`, `NoOwnerAliases`
(`Spec => []OwnerNeverAliases`). `OwnerNeverAliases` is not inductive: that a recorded
stamp differs from a later lifetime's stamp depends on how stamps grow. `StampsGrow`
says that stamps do not exceed the generation and that a retired slot was
activated strictly before it was retired; `OwnersRecorded` says that a recorded owner of
an earlier lifetime has a smaller stamp than the slot has now, and one of the
present lifetime the same. A row scope is the delicate case: it is stamped with
the generation *before* the commit that publishes it, and the argument
needs that the slot it takes was retired in an earlier generation than that
one (the reuse barrier). Without the barrier two lifetimes can carry the same
stamp. Each action has one lemma, with one step per conjunct it disturbs.

**Effects: scopes** (`EffectLifecycle_proofs`, second part): `ScopesStayLinked` (`Spec => []TreeInductive`),
`ScopesAreATree` (`ScopesFormTree`), `ResultsFindSurvivors` (`ResultFindsNearestSurvivor`).
`TreeInductive` adds to `Inductive` that the parent of an active scope is active and that a
path leads from each to the root (`RootedTree`), and of every held chain of
owners that whoever of it lives has the next one as its living parent
(`ChainsLinked`); so survivors are the outer part of a chain, and the engine's
search for the first one that matches finds the innermost. The lemma for
commits shows that a path of staying scopes is still a path after a
subtree is retired and that a claimed slot extends its parent's path. That a
walk shorter than the number of slots reaches the root uses the theorems on finite sets;
where an induction was needed, it is over a set of numbers that has a least
element.

**Effects: the queue** (`EffectLifecycle_proofs`, third part): `EffectsStayAccounted` says where
each id that was given out is, `EffectsAreAQueue` (`Spec => ImplementsEffectQueue`) that
`EffectLifecycle` implements `EffectQueue` under the mapping of `MCEffectLifecycle`.
`StepKinds` sorts the actions into those that append one effect, start one,
finish one, tear down, and the rest, which the queue sees as stutters or as its
closing. What each kind does to ids uses `EffectsAccounted`: an id that starts is
the smallest queued one, and one that returns is not running a second time.

**Propagation** (`Propagation_proofs`, from `ProgramsAreGraphs` and
`TransformsClosed`): `PropagationInductive` (`Spec => []Inductive`),
`PropagationTypeCorrect`, `OverlayIsUsedOnce` (`OverlayNeverClashes`),
`CachesAreSettled` (`CachesSettled`), `SinksAreSettled` (`SinksSettled`) and the action
property `ObserversRunOncePerChange` (`ObserversRunOnce`), for every signal graph with its
sinks, all values and all transforms of the application; with the exclusions of
`Settling` and `SettlingAtOnce`, which are exactly those of the run.

`CachesSettled` and `SinksSettled` speak of committed state only, and a transaction is
prepared in several waves of which a later one forgets what an earlier one
evaluated. So the invariant describes the overlay between any two waves.
`CommittedAgrees` is record by record what `CachesSettled` says of whole graphs: a
cache holds what its transform gives for the caches of its inputs. `Coherent` relates the
slots, the memory and the commands of the plan. `ValuesAgree` says that a
remembered record has the value of its inputs in the overlay, and that one which is
not remembered has nothing to expect from inputs that changed. `RowsInTurn` is
what makes forgetting harmless: until a collection is reconciled, nothing that settles
has been staged from its rows (but by records that mix a row with something
else, which is why those are excluded for sinks), and no selector that reads them
has been evaluated. Forgetting the closure of a row therefore takes no value away that
something else was computed from, or that a sink that settles was told.
`SinksAgree` says that such a sink has its edit, its command or its reconciliation
if its signal is staged, once, and none otherwise.

What the model computes by folds and recursive functions is reasoned about without the
library's induction theorems: a fold is a function on an interval that is read
one step at a time (`IsFold`), a recursion over the graph is a `Course` over the numbers
of the records, and a statement about all of them is proved from the least number
for which it fails. On these rest what a wave evaluates (`Touched`, `Rooted`), which
values it leaves (`WaveValues`, `WaveTurn`), which sinks are told (`Told`), and the
same for the wave of a reconciled collection (`RootedRows`, `RowWaveAgrees`). That a
graph which agrees record by record is the reference `Settled` is the last of these
inductions.

**Executor** (`BrowserRuntime_proofs`, from `BrowserConstants`): `EffectsStayInStep`
(`Spec => []Inductive`), `TypeCorrect`, `ContractIsKept` (`NoContractFailure`), `ExecutorRests`
(`ExecutorAtRest`), `EffectsContinueOnce` (`OneContinuation`). The invariant says that a running
effect is named by one callback or one fetch (`Continued`), that its slot is in
the state which that continuation expects (`InStep`), that slots no running
effect holds are free (`Released`), that between segments an instance that has not
trapped is on its main stack and every suspended call was made from it
(`OnMainStack`), and that effects belong to the mount in progress (`InOrder`). A
segment of a microtask is several host calls, each of which may trap: the lemmas
on single calls give what holds in between, and each action composes them.

**DOM runtime** (`DomRuntime_proofs`, from `DomConstants` and `NoneIsNoInstance`):
`ListenersCanBeReleased` (`Spec => []ListenersAreIndexed`) for all callbacks that may raise
events; `ContainmentIsFinal` (`NothingActsAfterwards`) where only updates raise
events. The second has this hypothesis because it is false without it (Known
deviations). `Held` says that live instances are indexed and that an element
whose behaviour is to be attached has none; `Busy` says what a drain may be
calling in each of its stages, `Waiting` that the drains below the innermost
wait for an update. The argument is that a containment can come in the
middle of another drain only where this drain does nothing afterwards
but update instances that are still indexed (`Contained`). Every
action is first reduced to what it does to the innermost drain (`Moves`), whose
effect on the stack is proved once. TLC has checked `Inductive` on the
instance of `MCDomRuntime.cfg`.

**DOM runtime: the mirrors** (`DomMirror_proofs`, also from `NoneIsNoValue`): `DocumentIsEngine`
(`Spec => []DocumentMirrorsEngine`), `RegistrationsAreEngine` (`RegistrationsMirrorEngine`),
`WidgetsAreMarkers` (`WidgetsMirrorMarkers`), where only updates raise events and
no drain of the timer throws. Without the first, `WidgetsMirrorMarkers` is false,
without the second a batch is abandoned half-way and all three are (Known
deviations); both hold of the instance that TLC checks.

The three speak of the time between turns. In the middle of a drain the page is
behind the engine, and while a subtree is removed it is nothing the engine ever
rendered. So `Mirroring`, the invariant, relates them through *snapshots*, the values of
all that the engine asks the page to show. `Follows` says what a single command
does to a snapshot, and `Leads` that a batch goes from one snapshot to another
through well-formed trees. `Mirrored` then says that the page shows a snapshot
from which the commands still to be applied lead to the engine's (`Ahead`), but for the
widgets that wait for their attach. In a removal the page shows the
snapshot before it less the elements released so far; `Walked` says that every other
element of the subtree is on the walk, or below one that is. `Orderly` says
what a drain may be calling in each of its stages, `Mounting` that a mount's drain is
alone. Each kind of command has a lemma that the page follows it; for a
removal there is one for the start of the walk, one for each element released and
one for its end, which rest on lemmas about subtrees (`Below`) and about lists of
children without repetition. A turn inside a drain comes only while an update runs,
when the outer drain's batch is applied, so the inner one starts from a page that
shows the engine. `Mirroring` quantifies over snapshots and is proved without
having been run; TLC has checked the three properties that it implies.

The action property `CleanedUpInPlace` is `WidgetsLeaveInPlace`, under the same two
hypotheses. A snapshot may have an element that is made and not yet placed, so the
mirror alone does not say where a widget's element hangs. `InPlace` adds this: every
element the runtime knows is below the root (`Hanging`), but for one whose append is
the next command and which has no marker yet, because a drain's create is always
followed by its append (`Paired`). A removal takes the whole subtree out in its last
step, when the walk has forgotten all of it. `DrawnBelow` carries what is below the
root from the snapshot to the page; `PlacedHangs` and `RetiredHangs` say what a move
and a removal do to it. TLC has checked `InPlace` on the instance of `MCDomRuntime.cfg`.

**Environment** (`BrowserEnvironment_proofs`, from `EnvironmentConstants`):
`EnvironmentInvariant` (`Spec => []Inductive`), `PayloadsAreReturned` (`PayloadsReturned`),
`ListenersFollow` (`ListenersFollowMount`), `EngineFollowsPage` (`EngineKnowsThePage`), for any
finite set of sources in any order and any number of storage items. None of the
three properties is inductive. `EngineKnowsThePage` speaks of a page at rest, so
`KnowledgeFollows` says of every stage of a mount what its task has read and
which sources the engine has been told of already; a page that changes after
it was read has an event queued, and that event is of the new
mount's listeners only because `ListenersLag` bounds when listeners and
generation may differ. `GenerationsCounted` makes a listener of an earlier mount
carry a smaller generation than the present one. `StagesAgree` relates the
stage of a task to the payloads it holds, which is what
`PayloadsReturned` needs when a call is refused or traps. A block is a number, and
a new payload takes a free one of the first `Cardinality(heap) + 1`: there is one
because the live payloads are finite (`BlockIsFree`, by the theorems on finite sets). `ListenersLag` also says when the
engine has its root, from the declaration of a mount until it is told of the
unmount: this is what makes a second mount fail at its first commit and
bounds how long listeners may stay on a page that is not mounted. Whatever the reason,
a trap that is contained is one operator (`Trapping`), and has one lemma.

**Controlled inputs** (`ControlledInput_proofs`, from `InputConstants` and
`NullIsNoEntry`): `ControlsStayInStep` (`Spec => []Inductive`), `TypeCorrect`,
`WritesAreNotMisdirected` (`WritesReachTheirNode`), `DeferredWritesArrive` (`NoLostWrite`),
`SelectsSettle` (`SelectSettles`), and the action property `FocusedTextIsTheUsers` (`EditingIsSafe`).
`NodesInUse` says which ids, entries and nodes belong together (a new node is one no
id and no entry has); `ControlsInStep` says for each state of an entry what its
control shows: the value last set, the user's text, or an older text while
the value is pending. `ValuesWait` says that a value which waits for its option was set
for the node that has the id now (`WaitsForOption`), unless an unmount left it; without it
`WritesReachTheirNode` is not inductive, for the write at the end of a batch looks
only at ids. The policy's functions have lemmas of their own, so that an
action needs to say only which of them it calls on which entry.

`SequenceFacts` has what `Append`, `Tail` and removal in the middle do to the
elements of a sequence, for all of these.

Only model-checked:

- `ChangeSinks` and `SignalGraph`, which are written with recursive operators;
- `RenderWire` and `EventBinding`: their properties relate bytes written by one fold
  to bytes read by another, at positions that depend on the lengths before them, and
  commands in a batch to listeners; each command would need the invariant of
  both sides in the middle of a record;
- every liveness property, and the refinement's fairness.

## Plan

1. *(done)* effects in the engine, abstract queue, proofs of type correctness
   and of owner identity;
2. *(done)* signal graph and change sinks;
3. *(done)* browser executor;
4. *(done, but for structural sinks)* `Propagation`;
5. *(done)* the browser's half of the boundary: `DomRuntime`, `RenderWire` with
   `EventBinding`, `BrowserEnvironment` with its proofs, `ControlledInput`;
6. *(done)* theorems: owner paths and survivors, the refinement of `EffectQueue`, the
   executor, controlled inputs, containment in the DOM runtime, its mirrors of the engine and the place
   of its cleanups, propagation in full;
7. `ScopeTree`: child lists, reuse ring and claim overlay
   (`scope_tree.zig`, `scope_runtime.zig`), shown to implement the claim
   order that `EffectLifecycle` assumes; follow-on commands in recycled
   scopes;
8. `when` sinks and rows that are inserted and removed in `Propagation`;
   `KeyedRows`: row diff and per-site generations against a reference on
   bounded lists.

Items 7 and 8 come next.

## Not modelled

Generated bindings and layouts, the spec language and its runner, the simulated
DOM, benchmarks, build and release scripts, examples and vendored code,
telemetry and diagnostics text, by choice: they keep no state the program depends on,
or test it. Keyed rows, the rows collection of the application side and the
reference counts of host values are in the plan or need models of
their own. Of the browser's runtime, navigation commands, pointer drags, the
response bits of handlers and the formatting of text and attributes are left
out. Of the engine, a late write to a retired state, which is skipped
one by one while the rest of its batch commits (engine.zig:16917), and the
flag `applying_effect_result` that stays set over follow-on commands
(engine.zig:811) are not observed by any property.
