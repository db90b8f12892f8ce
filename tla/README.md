# A TLA+ model of quickjs-bun

quickjs-bun embeds the QuickJS engine into Bun.  `src/src/*.ts` is the API
(`QuickJS`, `JSRuntime`, `JSContext`, `JSValue`, `JSAtom`),
`src/src/native/quickjs_bridge.c` a thin C layer over the vendored engine in
`src/quickjs/`.  Everything runs on one thread, but nothing is sequential in the
ordinary sense: every native operation can run guest code, guest code can call
the host back, a reference count that drops to zero runs class finalizers on the
host side, and a deadline can cut all of that short at any poll.  The modules
here model this re-entrancy: *what may happen between two lines of a function
that calls out*.

Paths are relative to the repository; `PROJECT.json` maps every definition to the
lines it models.

## 1. Inventory

| Component | State | Operations | What makes it correct |
|---|---|---|---|
| Deadlines and interrupts (`quickjs_bridge.c` 38-175, `JSContext.dump`, interrupt polls in `quickjs.c`) | `deadline_ms` of the runtime, `interrupt_counter` of every context, a saved deadline per scope, the pending exception and its uncatchable flag | enter and leave a scope, poll, interrupt, unwind, settle a promise | The deadline is always the tightest of the open scopes; nothing that catches or swallows an interrupt keeps the guest running; an operation reports its own timeout and nobody else's |
| Handles (`value.ts`, `context.ts`) | `JSContext.handles`, `JSValue.#slot`, `#disposed`, reference counts | construct, `dup`, `dispose`, borrow for a callback, return from a host function, `JSContext.dispose` | Table and slots agree, one reference per live handle, nothing is freed twice, nothing leaks |
| Host slots (`runtime.ts` 88-103, `newFunction`, `newArrayBuffer`, finalizers in the bridge) | `#hosts`, `#freeSlots`, the number in every `QJSBunHostSlot` | `slot`, `release`, make, fail, finalize, detach, transfer | A number leads to the closure or array it was taken for, is held once and given back once |
| Atoms (`JSContext.atom`, `JSAtom`) | `#atoms`, reference counts of atoms | look up, empty the cache, `newAtom`, `dup`, `dispose` | An atom that a native operation uses is not freed under it; counts balance |
| Life cycle (`ffi.ts` `QuickJS`, `runtime.ts`, `context.ts` `dispose`, the bridge's context list) | `QuickJS.runtimes`, `JSRuntime.contexts`, `QJSBunRuntime.contexts`, `hostDepth`, pending jobs | create, operate, run a job, call the host, dispose, close | Nothing is freed under a frame that will return to it; the two lists of contexts agree; disposal ends |
| Host calls (`#callHost`) | `hostDepth`, argument handles | call, convert the result, convert an error | Arguments are released, results change owner |
| Promises, jobs, rejection tracker (`newPromise`, `Deferred`, `enqueueJob`, `executePendingJob(s)`, promises in `quickjs.c` 53829-54760) | promises with their reactions, resolving functions with `already_resolved`, the job list, the tracker | make, resolve, reject, `then`, run a job, report | The first call decides; reactions run once and in order; no promise is lost or settled twice; reports agree with the promises; jobs of disposed contexts are safe |
| `dump` (`context.ts` 638-727) | `seen` (visited values by address), `kept` | traverse with limits | No value is taken for another one; the limits are exact |
| Own keys and strings (`JSValue.keys`, `#text`) | a scratch buffer per context | read, grow and retry | The names returned are those of one read |
| Value conversion, UTF-8 | none | `newValue`, `isJson`, strings with lone surrogates | Round trips |
| Modules (`setModuleLoader`, `newCModule`, `compileCode`, `evalFunction`, `loadModule`, modules in `quickjs.c` 29954-31890) | the loaded modules with their requests, statuses, cycle roots, counts of awaited requests and promises | load, link, evaluate, resume after an await, propagate an error | A body runs once and after what it imports; the promise of an evaluation tells what happened and is settled; a module's requests exist |
| Classes and opaque data | finalizer table by class id | register, finalize | A finalizer runs once |
| FFI tables, examples, scripts | constants | | not modelled |

**Interactions.**  All components share the call stack and `hostDepth`:
a callback of any kind raises it, and `JSContext.dispose`, `JSRuntime.dispose`
and the emptying of the atom cache look at it.  Handles of a context are disposed
before its atoms, its atoms before the native context, contexts before the
runtime, the runtime before its callbacks and the library last.  Finalizers run
inside each of these.

**What is hard.**  Interrupts that are caught, swallowed or made catchable on
their way; scopes that nest across host functions; finalizers that re-enter a
table that is being emptied; a number, slot or cache entry that is reused while
someone still carries it; a failure between two native steps; jobs that outlive
their context; closing the library from a finalizer; modules that wait for each
other across cycles and awaits, and loads that fail in the middle of a cycle;
trackers, getters and handlers that change the promise they are called for.  `PROJECT.json` lists
these under `hazards`, each at its line.

## 2. Modules

Each component has one module with its `VARIABLES`, `Init`, one action per
operation or handler, `Next` and `Spec`, and an `MC` module that TLC instantiates.
Definitions named `X_Something` directly before a definition `X` are mutated forms
of `X` (a dropped guard, a missing reset, ...), as are those with the comment
"Mutant"; they are used nowhere in the specification and serve to show that a property can fail.

### Deadlines

The state is the call stack, the clock, the deadline, the counters and the
pending exception.  A frame is a scope (`call` for eval, call and every guest
operation, `job`, `dump`), guest code (`js`, `async`, a builtin that iterates), a
promise job (`reaction`, then `settle`) or a host function.  `mode` tells
whether the innermost frame runs, unwinds, resumes a suspended body or settles a
promise.

* `qjs_bun_enter`, `RestoreDeadline`, `LeaveOk`, `LeaveFailed` are
  `qjs_bun_enter`, `qjs_bun_leave` and `qjs_bun_leave_scope`; `DumpOk`,
  `DumpThrow` and `DumpCatch` the branches of `JSContext.dump`.
* `PollPasses` and `PollFires` are `js_poll_interrupts`; `qjs_bun_interrupt` is what
  the handler does to the counters of *all* contexts: the poll that calls a
  reject function must pass, the one after it must not.
* `CallPasses`, `LoopFires`, `Unwind`, `Catch`, `ClosePasses`, `TakeException`,
  `SettleFires` ... are the points of the engine where an interrupt is raised,
  passed on, made catchable (`JS_IteratorClose` throws the pending exception
  again) or dropped.

`unsettled`, `hot` and `passed` are history variables; no guard reads them.
Contexts are not disposed during a run of this module (see Lifecycle).

### HandleSet, Handles

`Handles` models the swap-remove table, the reference counts, and the callbacks
that borrow handles (`call` for host functions and everything that goes through
`#callHost`'s pattern, `tracker`, `loader`).  Borrowing, running and giving back
are separate phases, and the handles are given back one by one, because each
`dispose` may run a finalizer.  The engine runs finalizers one after the other
(`gc_zero_ref_count_list`), never nested.  `HandleSet` is what the tables promise:
sets of owned handles, changed one at a time; `RefinesHandleSet` says that the
tables implement it.

### HostSlots

Numbers are counted from 1 here, from 0 in the code.  `newFunction` and
`newArrayBuffer` take a number, then make the native object, which succeeds
(`Made`), fails before the object carries the number (`FailsEarly`) or, for a
function, after it (`FailsLate`: its finalizer has released the number when
the catch clause releases it again).  Collections may happen in between, but not
between a failure and its catch.

### AtomCache

`Hit`, `Miss`, `MissFails` are the ways through `JSContext.atom`; the atom is used
by the native operation that is pushed on the stack, whose guest code may call
the host, which may look up more names.  An operation with a `JSAtom` or an
integer as its key is `Operate`: keeping that `JSAtom` alive is up to its
holder.  `lost` counts references of `JSAtom`s that were disposed after their
context, which are never given back while the runtime lives.

### Lifecycle

The TypeScript side (`registered`, `runtimes`, `callbacks`, `hostDepth`) and the
native side (`native`, `entries`, `jobs`) of runtimes and contexts.
`JSRuntime.dispose` is modelled step by step through `stage`, since finalizers run
in the middle of it.  A native context may outlive its `JSContext`: jobs refer to
it, and its own functions may (then a later `Collect` frees it).
The program does not use a library that it has closed, and finalizers do not
make the engine that runs them allocate, which the engine does not support.

### Dump

`visit` recurses; `stack` holds the arrays and objects it is in, `cur` the value it is
called for.  The engine's memory is a set of cells: the guest makes values in free
cells and drops them, and a cell is freed when neither the guest nor a handle
refers to its value.  Guest code runs while a length, keys or an entry are read
(getters, traps) and answers with any value.  `heap` numbers guest values by their
birth, so that a value and its successor in the same cell are told apart;
`made` and `pairs` record which host value stands for which guest value, and `visits` the depth of
every visit, whether it converts a value, meets one again or meets a primitive; it is kept apart
from the program's own count (`nodes`).
The host program may dispose the dumped handle from a host function in the middle
of the dump; then an address in `seen` may be reused, and `SharingIsFaithful`
makes no claim.

### OwnKeys

A stack of `keys` calls, each with its local `scratch` (`buf`), on top of the
context's `vm.scratch`.  While the innermost one is `reading`, the trap may run and,
through a host function, read strings or start another call.  Names are copied
when the trap has run, and decoded before anything else runs.  The trap picks any
list of names in every read.

### Modules

The engine walks the graph of modules with recursive functions, and host code
can run in the middle of them: as the loader, as a module's body, as the init
function of a C module.  So the native stack is explicit: a record for every call
of the host (`compileCode`, `evalCode`, `loadModule`, which becomes
`js_link_module` and then `js_evaluate_module`) and for every reaction.  Its `path` is the
recursion of `js_resolve_module`, `js_inner_module_linking` or
`js_inner_module_evaluation`, its `list` the stack of modules of the walk, or what a
reaction has still to execute; `loads` and `body` say that the loader, or the body of a
module, is running in it.  A step is one turn of a loop.

* *Loading.*  `Compile`, `ImportFound`, `ImportCallsLoader`, `loaderReturnsSource`,
  `loaderReturnsModule`, `loaderFails`, `normalizerThrows`, `resolveDone`.  A module is
  marked resolved before its requests are loaded; a failure frees the modules that
  are being compiled (`AbandonLoad`), and no others.
* *Linking.*  `linkRequest`, `linkDone`, `linkFails` are `js_inner_module_linking` with
  its depth-first indices; which name is missing is data, that one is missing
  (`world.broken`) is kept.
* *Evaluation.*  `evaluateRequest`, `waitForRequests`, `executeModule`, `evaluateDone`;
  after an await, `js_async_module_execution_fulfilled` gathers what became
  available (`Available`, `Gathered` are the recursion of
  `gather_available_ancestors` as a least fixed point) and executes it by
  timestamp, `js_async_module_execution_rejected` passes an error on
  (`Rejected`).

`world` holds what guest and host provide: the imports of every module, its
awaits, C modules, names that cannot be loaded.  `import()` is `loadModule` from a job.
`runs` and `out` of a module are history.  `Reenter` says whether host code may
evaluate modules that are being worked on, or run jobs in the middle of an
evaluation; the passing run has it `FALSE` (see Disagreements).

### Promises

A promise has its reactions and `is_handled`; a pair of resolving functions has
`already_resolved`.  `js_promise_resolve_function_call`,
`fulfill_or_reject_promise` and `perform_promise_then` are operators that the
actions share, as the functions of that name are in the engine; each may push the code it
calls: the getter of an object's `then` (`getterReturnsThen`, ...), or the tracker
(`trackerReturns` is the rest of the function that called it).  Code may run the
jobs (`executePendingJob`, or the loop of `executePendingJobs`) wherever it runs.
`reports`, `registered`, `ran` and `got` are history.

Abstracted: the species constructor (`then` of a subclass), the promise that the
`then` of a followed promise returns and nobody sees, and `await`, which adds a
reaction without a promise.  The tracker is set before promises are made; one that is
set later hears of handlers for rejections that it was not told of.

## 3. Runs

| Run | Instance | Properties |
|---|---|---|
| `deadlines` | 2 contexts, timeouts 1 and 2, clock 0..3, stack of 3, counter 3, `FairSpec` | `DeadlineIsTightest`, `SecondPollFires`, `CutBodyRejects`, `RawInterruptIsOuter`, `NoRawInterruptOutside`, `OperationsEnd` |
| `deadlines_readme` | 1 context, stack of 4 | *violated*: `InterruptedBodyRejects` |
| `handles` | 2 contexts, 3 handles, a plain object and one with a finalizer, two nested frames below finalizers | `TypeOK`, `TableAgrees`, `RefsBalance`, `ClosedOwnsNothing`, `NoCallbackIntoClosed`, `ArgsReleased`, `RefinesHandleSet` |
| `host_slots` | 4 objects, 4 values | `SlotLeadsToItsValue`, `FreeSlotsAreFree`, `NoSlotLeaks` |
| `atom_cache` | 2 contexts, 3 names, 2 `JSAtom`s, limit 2, stack of 4 | `AtomsInUseAreAlive`, `AtomRefsBalance`, `CacheStaysWithinLimit` |
| `lifecycle` | 2 runtimes, 2 contexts, 2 jobs, 2 objects, stack of 5, `FairSpec` | `EntriesMatchContexts`, `FramesAreAlive`, `HostCodeHasItsContext`, `JobsKeepTheirContext`, `NoLiveRuntimeWhenClosed`, `DisposeEnds` |
| `lifecycle_close` | 1 runtime | *violated*: `LibraryOutlivesRuntimes` |
| `dump` | 4 cells, 4 values, `maxDepth` 2, `maxNodes` 4, 2 entries | `SharingIsFaithful`, `WithinLimits` |
| `own_keys` | 2 nested calls, 4 buffers, 4 retries, lists of 1 to 95 bytes | `ReturnsOwnRead`, `GivesUpOnGrowth` |
| `modules` | worlds of up to 4 modules (below), 2 nested calls, `FairSpec` | `BodyRunsOnce`, `RequestsRunFirst`, `PromiseTellsOutcome`, `PendingCountsWaits`, `AssertsHold`, `EvaluationsSettle` |
| `modules_load` | a cycle of 2 whose first module imports one that cannot be loaded, 2 calls | *violated*: `RequestsAreLoaded` |
| `promises` | 3 promises and host jobs, 4 pairs of resolving functions, 1 value, code 2 deep, `FairSpec` | `OutcomeOfFirstCall`, `ReactionsRunInOrder`, `OneWayToSettle`, `ReportsAgree`, `WaitersAreSettled` |

**Why the bounds suffice.**  Three frames of `deadlines` hold a scope, a host
function and a scope inside it, a scope, an iteration and the closing of its
iterator, or a job, the settling of its promise and guest code; the invariants of that
run are also proved for stacks of any depth.  Two timeouts
make an inner deadline earlier or later than the outer one; the clock reaches both.
`CounterInit` is 10000 in the engine; three is the least number that tells a full
counter from the two polls that the handler leaves.  Three handles make the
swap in `dispose` move an entry that is neither first nor the one disposed, and
two contexts allow a foreign handle.  A cache limit of two with three names makes a
nested look-up meet a full cache.  Two runtimes allow a finalizer of one to
dispose the other.  A dump of three values reuses a cell after one of two
siblings was dropped, and four values give each a successor; four visits are more than the
longest path (three), so that each of the two limits is reached without the other, by arrays of primitives too.  Four buffers are the
two calls' own, the current scratch buffer and a new one; the lists double closely enough to
use up all four retries.  `modules` covers every graph of three modules whose first
imports the others, each with five choices of awaits: all shapes of a cycle, inside and across
which modules wait; chains and cycles of four, for waiters of waiters; and two calls
that share modules, one perhaps inside the other, with a C module, a failing
load and a failing link among them; three cycles in which linking fails, at the module that was entered
first and further down, and whose modules a second call meets again.  Three promises are a chain, two reactions on one promise, or a
promise that follows another one; the fourth pair of functions is the one a
thenable gets; code two deep is a getter, handler or tracker that runs the jobs
from inside.  `own_keys` runs with a view that leaves out what is left in
buffers that nothing refers to.  Symmetry is used in `handles`, `host_slots`, `atom_cache` and `dump`, which check safety only.

`CHECK_DEADLOCK` is off: a host program may stop at any time, and the bounds end
every behaviour.

**Fairness.**  `Deadlines`: the clock advances, native code runs on, host code
finishes (nothing bounds host code in the repository either).  Of guest code only
this is assumed (`LoopsOrEnds`): a body that runs for ever takes loop
back-edges for ever, as straight-line code is finite, and a back-edge polls.
`Lifecycle`: each frame eventually proceeds, guest operations by
`OperationsEnd`, and a runtime that is being freed runs the finalizers that are
left.  `Modules`: native code goes on, bodies and the loader end (by
their deadlines), what a body awaits happens, and the host runs the jobs; it need
not call again.  `Promises`: the host runs jobs while there are any, and code that
was called returns; nothing is assumed of code that might resolve a promise, and
`WaitersAreSettled` only speaks of promises whose outcome is decided.

### Disagreements with the documentation

* `deadlines_readme`: README 166 says that code interrupted in an async function
  surfaces as a rejected promise.  When the interrupt passes an iterator that has to
  be closed, the call of its `return` method takes the one poll that
  `qjs_bun_interrupt` leaves; the reject function's poll then fires and the promise stays
  pending.  `CutBodyRejects` is what does hold: an interrupt that reaches the body
  without such a detour rejects its promise.
* `lifecycle_close`: README 167 and the assertion in `QuickJS.close` say that the library
  is not closed while a runtime is alive.  `JSRuntime.dispose` lowers
  `library.runtimes` before it frees the engine's runtime, and a finalizer that runs
  then may close the library.  `NoLiveRuntimeWhenClosed` is what does hold.
* `modules_load`: `js_resolve_module` loads "all the required modules for module 'm'".
  If `a` imports `b` and `c`, `b` imports `a`, and `c` cannot be loaded, the failed
  compilation frees `a`, but `b` stays registered, marked resolved, with a request that
  points to `a`, which a later import of `b` follows.

One more hazard is not stated anywhere and therefore is no run: with
`Reenter = TRUE` TLC finds `AssertsHold`, `RequestsRunFirst` and `PendingCountsWaits` violated.  Host code that a module's body calls
may evaluate a module that imports one still being evaluated, or run the jobs of the
evaluation it is in; the engine's own assertions then fail, and the build
(`NDEBUG`) leaves them out.  The comment at `quickjs.c` 31451 shows that the engine defers `import()`
to a job to avoid just that.

## 4. Proofs

The modules `...Proofs` (`TablesProofs` those of HostSlots and AtomCache, `ReadsProofs` those of Dump and
OwnKeys, `ModulesShapeProofs` and `ModulesProofs` those of Modules) prove the safety properties of their modules for every value
of the constants, with no assumption but those the modules name: `Timeouts` are
positive, `CounterInit > 2`, the limits of a dump and of an atom cache are positive,
sizes and bounds are natural numbers, `Undefined`, `None` and `Nil` are no values, and
in Modules no name is `0` (which stands for `NULL`) and C modules have neither imports nor awaits,
the sets whose members are counted (handles, names, `JSAtom`s and the contexts that
cache them) are finite, as everything in memory is.  The bounds on depths, jobs and objects are arbitrary
natural numbers, so the theorems hold for stacks of any depth.

*Deadlines.*  `DeadlineIsTightest` is not inductive: leaving a scope restores what it
saved.  `SavedIsTightest` says the same of every saved deadline.  `SecondPollFires`
follows from `PollBudget` (polls left and polls let through are at most two),
`CutBodyRejects` from `RejectBudget` (an uncatchable interrupt on its way to a
promise has used no poll), the two statements about raw interrupts from
`InterruptIsBlamed` (wherever an interrupt is kept or thrown, a scope around it has
expired; the clock only moves forward) and `BottomIsScope`.  Most actions are
pushes, pops or changes of the top frame that leave the scopes alone: the lemmas on
`GuestMove` treat them together, scopes are entered and left in steps of
their own.

*HostSlots.*  The invariant partitions the table: every number is free (and
occurs once on the stack of free numbers), or held by one object, or that of the
object being made, whose late failure may already have released it.

*Dump.*  `SharingIsFaithful` speaks of the past, so the invariant ties the past to
the memory: every address in `seen` is held, by `kept` or by the dumped handle, and
still has the value it was entered for (`SeenIsCurrent`); every host value was
entered (`MadeIsSeen`); a guest value has one address (`OneAddress`).  A value that
is not in `seen` is therefore new.  `WithinLimits` speaks of the visits, the checks of
the program's count; `VisitsCounted` says that the two agree as long as the dump goes on.

*OwnKeys.*  Only the innermost call is past its read (`OthersWait`), so nothing writes
into its buffer before it is decoded (`TopHolds`).  `CallOK` keeps the size of every
call's buffer at twice its last need, which no allocation of another call changes:
a read that is short again therefore asked for more than twice as much.

*Handles.*  `TableAgrees` and `RefsBalance` are inductive together with `ClosedOwnsNothing`
and the types; removing a handle from a table moves the last one into its slot, which the
lemmas on the tables treat once for every action.  `NoCallbackIntoClosed` needs what
`hostDepth` means: `DepthCounts` says that it is the number of frames for which a context
may not go, `FramesOK` that a context is only disposed at the bottom of the stack and that the
arguments a callback has given back stay disposed.  `ArgsReleased`, an action property,
follows at the step that pops the callback.  `Refinement` maps every step to
one of `HandleSet` or to a stutter; what the mapping has to show is that a step never acquires
or releases two handles.

*AtomCache.*  `AtomsInUseAreAlive` follows from `AtomRefsBalance` and `KeysInUseAreCached`: the
cache keeps the names of all operations under way.  That emptying a cache does not break
this rests on `DepthIsHalf`: native operations and host code alternate, so where
host code runs and `hostDepth` is 0 there is no operation under way.

*Lifecycle.*  Everything rests on what may lie on what on the stack.  `Adjacent`: on top of engine
code there is only host code of the same runtime, or the disposal of a context by that of its
runtime.  `DepthCounts`: `hostDepth` is the number of host frames of a runtime.  From the two,
`IdleMeansAbsent`: where host code runs, a runtime with `hostDepth` 0 has nothing on the
stack, so that a disposal starts over nothing of its runtime (`Alone`).  Freeing a context or a
runtime therefore takes nothing away from a frame (`FramesOK`), from a job (`JobsOK`) or
from a registered context (`RegisteredOK`).  `NoLiveRuntimeWhenClosed` needs `LiveCount`, that
`QuickJS.runtimes` is the number of live runtimes; `EntriesMatchContexts` rests on lemmas on
unlinking from, and adding to, a list without duplicates.

*Promises.*  The invariant `WInv` is an operator of the promises, functions, reactions, jobs and
stack, because one step of the model does several things to them: resolving functions are
called, which settles their promise, which queues its reactions.  Each is a lemma of its own (`FirstCall`,
`Settled1`, `ThenableQueued`, `Registered`, `ReactionRuns`), and in between the state looks as if a
handler, a getter or the tracker were about to return; the last argument of `WInv`
names functions that are being called.  The parts say where everything is.  `WaysOf`: functions that
were not called, the job of a thenable or a getter on the stack are the ways to settle a promise, and there is at most
one.  `TrackersOK` and `HandlersOK`: the functions of a reaction are with the tracker that is told about it,
then with the promise or the queue, then with its handler.  `Queued`, `AllQueued` and `InOrder`: the queue has
what was registered on a settled promise and has not run, in that order.  `OneWayToSettle` and
`ReactionsRunInOrder` follow.  `OutcomeOfFirstCall` compares two promises that many steps may lie between:
`OutcomesOK` adds that, as long as a promise waits for another one it was resolved
with, a job or a reaction without handlers on that other promise links them.
`ReportsAgree` needs that a promise whose report is being made was reported before (`ReportOK`).

*Modules.*  `BodyRunsOnce` and `PendingCountsWaits` are proved for every graph of imports, any
number of calls and any depth of nesting.  Both speak of what the walk does to modules far from
the one it is at, so the invariant is built in layers, each proved with the ones before.
`ShapeInv` says what a call in progress looks like: the path of a walk is a chain of
requests, everything on it is on the list of the walk and in the status of the walk, and
the calls, and the modules they work on, are apart from each other.  `AwaitInv` follows the bodies: which module is
suspended, has a job or runs, so that a job always finds the module it is for still evaluating.
`CycleInv` says how a walk leaves cycles: what is above a module on the list was entered after it and leads
back to it or below, so `root` is set once, for a whole cycle, and an error leaves no module of a cycle behind.
`CountInv` is `PendingCountsWaits` together with what it needs at the moments in which the
engine has changed one side only: the list of a reaction (`fulfilled`) has modules whose count is
already zero, and what `gather_available_ancestors` collects is exactly what its decrements
bring to zero.  `OrderInv` says where a module waits for its turn, and by which timestamp: it is
evaluated, executed or queued at one place only, which gives `BodyRunsOnce`.  All of this is under the hypothesis
`Reenter = FALSE`: host code may call the context from the loader and from bodies, but not
for modules that are being worked on; without it `PendingCountsWaits` does not hold (see Disagreements).

Type correctness of these modules is proved (`TypeCorrect`, in HostSlots and OwnKeys `SlotsTypeCorrect` and
`KeysTypeCorrect`; in Promises it is the part `Typed` of the invariant, in Modules a part of
`ShapeInv`) and, but for Handles, not repeated in the runs; so is `OneHolderPerSlot` (`HolderIsUnique`).

Left to TLC: liveness (`OperationsEnd`, `DisposeEnds`, `EvaluationsSettle`,
`WaitersAreSettled`), which this prover cannot treat, and of Modules `RequestsRunFirst`,
`PromiseTellsOutcome` and `AssertsHold`.  They need two more layers: that every request a walk
has passed is done or leads back to its list, and that an outcome has reached all modules
of a cycle through the modules that wait for it.

## 5. Not modelled, and plan

Order of what is left:

1. Theorems about the rest of Modules: `RequestsRunFirst` and `PromiseTellsOutcome`, on top of `ModulesInv`.
2. `NewValue`: `isJson` and the recursive conversion of host values, whose partial
   results must be released on every failure (`context.ts` 625-636, 787-848).
3. The exports of C modules (`addExport`, `setExport`, namespaces): which variables exist
   at which point of linking.
4. Pure operators: UTF-8 with lone surrogates.

Modules that `readObject` builds from bytecode, and `resolveModule`, which only they
need, are left out of Modules: a failure there frees every unresolved module
of the context, and nothing in the repository says what is to hold then.

Not planned: the engine's parser, bytecode and garbage collector (vendored; only
what the bindings rely on is modelled), FFI declarations, native build, examples
and scripts.  Threads do not occur; nothing is persisted.
