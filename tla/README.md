# kelcoro: specifications, model checking and proofs

[kelcoro](../src/README.md) is a header-only C++20 coroutine library. This directory
holds TLA+ modules for the parts of it whose correctness depends on the order of
steps: threads that race, frames that are destroyed by whoever comes last, intrusive
lists whose nodes live in those frames, resumptions inside of resumptions. All paths
below are relative to `src/include/kelcoro/`.

## 1. Inventory

| part | state | operations | interacts with |
|---|---|---|---|
| `task_queue` (`thread_pool.hpp`) | `first`, `last`, mutex, condition variable | `push`, `push_list`, `pop_all`, `pop_all_not_empty` | nodes lie in coroutine frames that die when they are resumed |
| `thread_pool` | queues, threads | constructor, `attach`, `attach_list`, `jump_on`, `request_stop`, `wait_stop`, destructor, `default_worker_job` | pushes pills and jobs into the queues; tasks jump back while they are executed or cancelled |
| `latch` + `nonowner_lockfree_stack` | counter, lock-free stack that can be closed, executor | `count_down`, `wait`, `arrive_and_wait`, `ready` | a woken waiter may destroy the latch |
| `async_task` | frame with flag, reference count and result; object | `wait`, `get`, `ready`, `detach`, moves; final suspension | producer and consumer on two threads |
| `logical_thread` | frame with stop flag and two-way bound; object | `join`, `detach`, `request_stop`, moves, `stop` | as `async_task`; the destructor joins |
| `when_all`, `when_any` (`algorithm.hpp`) | counter and results in the owner's frame; shared state with mutex | jobs that wait for a task and store its result | the last (first) job transfers control to the owner |
| `event` (`events.hpp`) | lock-free stack of subscribers | `co_await`, `set_callback`, `notify_all`; `when_all`, `when_any` of events | callbacks write into the awaiter of the suspended coroutine |
| `gate` | count, closed flag, waiters | `enter`, `leave`, `close`, `reopen` | `leave` resumes waiters inside of the call |
| `road` | closed flag, waiters | `close`, `open`, `wait_open` | `open` resumes or attaches waiters |
| `stack_resource`, `overload_new_delete` (`memory_support.hpp`) | current chunk, headers, freelist; a copy of the resource behind each frame | `allocate`, `deallocate`, `reuse_memory`, destructor; `operator new`, `operator delete` | frames of coroutines |
| `task` | frame with result and `who_waits`; object, result of `start()` | `co_await`, `wait`, `start`, `start_and_detach`, `detach`, `get` | transfers control to its owner at its end; `get` blocks the thread in an `async_task` |
| `generator`, `channel` | chain of frames; promises with root, current worker and a union of consumer and owner | iteration, `elements_of`, exceptions, `clear`, `release`, `reset`, `swap` | a leaf reports to the object that is iterated, not to the one it came from; nested frames destroyed in any order |
| `executor_interface.hpp`, `common.hpp`, `job.hpp` | task nodes, result storage, self-destroying jobs | `attach_list`, `create_node_and_attach`, control transfer | used by everything above |
| rest of `memory_support.hpp`, `operation_hash.hpp`, `noexport/` | none of interest | compile-time choices, a hash, containers | |

What is hard is always one of these: a notification that may be lost; a node or a
frame that is destroyed by one side while the other still needs it; a frame that both
or neither of two sides destroy; work that is dropped, or executed twice, while
something stops; and calls that come back into an object from a coroutine it has just
resumed. `PROJECT.json` lists each such place with its line and with the properties
that cover it.

What makes the parts correct:

* `task_queue`: it is a FIFO queue; no notification is lost; every node is in one list.
* `thread_pool`: everything attached is resumed, with or without the status
  `cancelled`; pills never outlive their lists; destructor and `wait_stop` return.
* `latch`: nobody passes before the counter is zero, everybody passes afterwards, and
  the latch is not touched after a waiter has returned.
* `async_task`, `logical_thread`, `task`: the frame is destroyed once, after its last
  use; whoever waits is woken and finds the result.
* `when_all`, `when_any`, `event`: the owner is resumed once, at the right moment,
  with the right results, and its frame is not touched afterwards.
* `gate`, `road`: what a waiter is told is still true when it is resumed; nobody waits
  without somebody who will wake it.
* `stack_resource`: live allocations are disjoint and in bounds, chunks are neither
  lost nor freed twice.
* `generator`, `channel`: however frames were nested, swapped, released or cleared, the
  innermost one works, its value and its end reach the object that is iterated, and
  every frame has one holder.
* `get()`: it returns with the outcome of the task, unless the threads wait for each
  other.

## 2. Modules

Each component has a module with its state, one action per step of its code,
`Spec` and, where liveness is checked, `FairSpec`; an `MC` module that instantiates
it; and one `.cfg` per question. Three `MC` modules hold several components that share
nothing: `MCSharedFrame` has `AsyncTask`, `LogicalThread`, `Latch`, `Events` and
`BlockingGet`; `MCTasks` has `WhenAll`, `WhenAny` and `Task`; `MCGenerators` has
`Generator`, `Channel` and `StackResource`. A variable `which`, chosen in the initial
state, says whose behaviour it is, the others do not move, and the fairness of each is
repeated for its own behaviours. `MCRoadGate` has `Road` and `Gate`, with a specification
for each.
Definitions that begin with the comment "Wrong:" are
mutated forms of the action that follows; no specification uses them. They show
that the property which excludes them is about the code (`PROJECT.json`, `mutants`).
`PROJECT.json`, `map`, gives the lines every definition stands for.

| module | models | how state and steps correspond |
|---|---|---|
| `LinkedLists` | `task_node` lists | a list is a head in a memory `nxt`; the leaves of `LeafChain` and the chunks of `StackResource` are found by the same walk |
| `AbstractQueue` | what `task_queue` promises | a sequence; push appends, pop takes all |
| `TaskQueue` | `task_queue` | `first`, `last`, `nxt` are the pointers; lock, look, sleep, wake, pop and notify are steps; wakeups may be spurious. `ImplementsAbstractQueue` maps the pointer list to the sequence |
| `ThreadPool` | `thread_pool`, workers, pills | a push or pop is one step, because `TaskQueue` shows that it is atomic; a client attaches lists, coroutines jump again, stop and end, `Main` constructs, waits and destroys. The queue a hash selects is any queue |
| `Latch` | `latch`, `try_push`, `close` | load and compare-exchange are separate steps; a returning waiter may destroy the latch |
| `AsyncTask` | `async_task` and its promise | exchange, notification and decrement of the final suspension are separate steps |
| `LogicalThread` | `logical_thread`, `two_way_bound`, `stop` | likewise; several objects and frames |
| `WhenAll`, `WhenAny` | the algorithms and their jobs | jobs run inside of the start loop or on threads of their own; lock, store, unlock are steps |
| `Events` | `event`, `when_all` and `when_any` of events | registration, push, pop, callback, counter and store are steps of several threads |
| `Gate`, `Road` | `gate`, `road` | one thread; its call stack is a sequence of coroutines and of `attach_list` loops with the rest of their list. `close()` and the `co_await` of its result are two steps |
| `StackResource` | `stack_resource`; `operator new` and `delete` of `overload_new_delete` | a pointer is a chunk and an offset; the loops of `deallocate` and `reuse_memory` are steps. What is allocated is a frame with a copy of the resource behind it, at an aligned offset |
| `Task` | `task`, `start_result`, `null_context` | one thread with a call stack; `obj` is what the owner holds; a task ends with a value, `return_exception` or a `throw`, and may write to a `return_place` |
| `BlockingGet` | `task::get()` | threads with call stacks and queues; tasks jump between them and call `get()` themselves. That `wait()` returns once `ready` is set is taken from `AsyncTask` |
| `LeafChain` | what `generator` and `channel` have in common | promises, frames and objects with their pointers; operators take the promises and return them changed |
| `RecursiveRange` | what `generator` and `channel` promise | each object has a stack of coroutines; there are no pointers |
| `Generator`, `Channel` | `generator`, `channel` and their promises | `begin`, `++`, `co_yield`, `co_return`, `throw`, `swap`, every round of `clear()` are steps; in `Channel` consumers are coroutines and their iterations interleave. `MCGenerators!LeavesFormAStack` maps both to `RecursiveRange` |
| `ListProofs` | facts about the lists of `LinkedLists` | section 5 |
| `TaskQueueProofs`, `ThreadPoolProofs`, `StackResourceProofs` | theorems about the module of that name | section 5 |
| `SharedFrameProofs`, `TasksProofs` | theorems about `AsyncTask`, `LogicalThread`, `Latch`, `Events` and `BlockingGet`, and about `WhenAll`, `WhenAny` and `Task` | section 5 |
| `RoadGateProofs`, `GeneratorProofs` | theorems about `Road` and `Gate`, and about `Generator`, `Channel` and the refinement of `RecursiveRange` | section 5 |

Not under `src/`, and modelled from their use (marked external in the map): mutex and
condition variable, the event loop that resumes coroutines, the bodies of the tasks.
Data is abstracted: a result is a value or an exception, an input of an event is the
number of its notification, a yielded value is the frame it lies in. Sequential consistency is assumed: the orderings the code
asks for (`acquire`, `release`, `acq_rel`) are not weakened any further.

## 3. Runs

Most invariants that a run checks are conjunctions of named parts: the types of the state
and two or three statements, each with its own comment in the module.

Bounds are named constants. They were chosen so that the races happen; larger ones
add threads that do the same.

| run | checks | states |
|---|---|---|
| `task_queue` | 2 producers, 2 consumers, 1 drainer, 3 nodes, lists of 2: no lost wakeup, lists partition live nodes, refinement of `AbstractQueue`, every pushed node is resumed | 31 500 |
| `thread_pool` | 2 workers, 2 coroutines, one of which may jump again, 1 `request_stop`, a constructor that fails: nothing forgotten, no dead pill in a list, tasks ahead of a pill are executed, a dead pool leaves nothing, destructor and `wait_stop` return | 147 000 |
| `shared_frame` | `async_task` and `logical_thread`, 2 coroutines and 2 objects each, with moves: one destruction after the last use, no leak, whoever blocks wakes. `latch`: 3 actors, counter up to 2, decrements 1 and 2, destruction: nobody passes early, nobody uses the dead latch, every waiter returns. `when_all` or `when_any` of 2 events, 2 threads, 1 other subscriber, 2 rounds, 3 notifications: fresh inputs, a live awaiter, whoever is notified is resumed. `get()`: 2 threads, 3 tasks, 1 jump each: safe, and it returns unless threads wait for each other | 115 000 |
| `tasks` | `when_all` of 4 tasks, `when_any` of 3 with values, exceptions and stores that throw, and a `task` in every way of starting, waiting, dropping: the owner is resumed once with the right results, dead frames are not used, frames destroy themselves when nobody holds them | 16 200 |
| `gate` | 3 coroutines, 2 holders each: `close` returns closed and empty, every waiter is woken | 1 042 |
| `road` | 4 coroutines, waiters resumed inside of `open` or queued: one closes at a time, nobody waits for nobody, nobody whom `open` resumes starves | 1 834 |
| `generators` | 2 generators, or 2 channels and 2 consumers, over 3 frames, 1 released handle: the pointers implement `RecursiveRange`, a frame has one holder, a worker reports to who waits for it. `stack_resource`: 3 sizes, 4 live frames, 3 chunks: live frames intact, chunks used or free, no gaps between the frames of a chunk | 182 000 |
| `latch_count_zero`, `logical_thread_notify`, `events_any_register`, `channel_swap`, `task_return_exception` | violations, see section 4 | |

Why the bounds are enough. Two pushers and two poppers give every order of lock,
look, sleep and notify; a third node gives a list with a middle. Two workers make the
pill of the destructor meet a second queue; a task that jumps once from a worker or
while it is cancelled comes back to a queue that was emptied already. Two rounds of
`when_any` with three notifications let a late callback of the first meet the second. A
latch of two with decrements of one and two has a last
and an earlier decrement, with actors left to wait and to destroy it. Four road users give two
losers of one `open`. Three frames give a root, an inner leaf and one leaf that is skipped, ends
or is released on its own; two objects exchange frames, and a third would be a copy of
either. Frames of the three sizes, with a resource of size and alignment 2 behind them
and an alignment of 4: one is padded and fits into the initial buffer of 8 bytes, one
needs a small chunk, and one skips that chunk in the freelist. Two threads and three
tasks, one jump each, give `get()` inside of `get()`, a thread that waits for itself and
two that wait for each other.

The run `generators` uses symmetry of frames, objects and consumers: nothing
distinguishes them, and it checks no liveness. The other runs use none.

Deadlock is checked except where the system may stop: `async_task`, `logical_thread`,
`latch`, `event` and `get()` end when all their users are done.

Fairness. Threads that can take a step take it in the end (weak fairness), which is
what an operating system gives; the mutex is not assumed to be fair. The body of a
task ends, a coroutine that holds a gate or has closed a road gives it back, and the
event loop comes back to what is ready (strong fairness, because the one thread has
other work in between): these are duties of the users, without which no waiting
operation could return. Nothing obliges anybody to push, to notify, to stop, to call
`get()` or to wake spuriously. `Events` and the loops that retry a compare-exchange do not need it to
succeed: it fails only if another one has succeeded.

## 4. Where code and comments disagree

Each of these has a run that TLC refutes; `PROJECT.json`, `findings`, quotes the lines.

* `latch_count_zero`: `count_down(0)`, allowed by its precondition, wakes the waiters
  next to the `count_down` that was the last, which then uses a latch that a waiter has
  destroyed (`latch.hpp:75`). `Decrements` is without 0 in the run `shared_frame`.
* `logical_thread_notify`: `try_inform` notifies a flag whose frame the other side may
  have destroyed since the exchange (`logical_thread.hpp:22`).
* `events_any_register`: `when_any` of events goes on reading its awaiter while an
  event that fired meanwhile has resumed the coroutine (`events.hpp:209`). In the run
  `shared_frame` such a thread may crash, and the properties allow for it.
* `channel_swap`: `swap` of two channels does not tell the promises their new consumer, so
  an iterator that is used after it, as its comment allows, resumes a worker that
  reports to the other channel (`channel.hpp:243`). In the run `generators` iterators end
  with a swap (`IteratorsSurviveSwap`).
* `task_return_exception`: `co_return return_exception(e)` of a detached task loses the
  exception, although it is said to be equal to `throw` (`common.hpp:154`).

Smaller ones were met while modelling. The models take the code as it is, and the
properties say what does hold:

* `async_task.hpp:123`, `task.hpp:114`: an exception is taken out of the promise by the
  first `get()` or `co_await`; another one reads a result that is not there, although
  `ready()` is true. `AwaitFindsTheResult` names the exception.
* `gate.hpp:97`: a `reopen()` between `close()` and its `co_await` makes the `co_await`
  return with the gate open. `Reopen` is allowed only when nobody is between the two.
* `stack_memory_resource.hpp:185`: `reuse_memory` does not free the initial buffer.
  `UsedSpaceIsLive`, a part of `ChunksAreConsistent`, accounts for it with `kept`.
* `task.hpp:126`: the exception of a task that ends inside of `start()` and is never
  awaited is not reported; `DetachedExceptionIsReported` is about tasks that were
  dropped before their end.
* `generator.hpp:342`, `channel.hpp:332`: `clear()` and `release()` leave
  `current_result`, so that an iterator of the emptied object is not equal to `end()`.
  `RecursiveRange` speaks of the value of an object that holds a frame.
* `generator.hpp:311`: `reset(handle)` of another generator than the one that has released
  the handle leaves the old `_consumer` in the promise. `Clear` of `Generator` asks that
  the handle comes back to its object; a channel sets it in `begin()` and needs no such rule.

## 5. Proofs

Checked by TLAPS for every value of the constants. Each inductive invariant was checked
by TLC, on the instance of the component's run, before it was proved; every module proves
that it holds initially, that each action keeps it (one lemma or step per action), and
that it implies the property.

### `ListProofs`

What a walk along `next` finds, and what pushing, popping and chaining nodes does to
it, for any memory. `IsChain(nxt, s)` says that the nodes of `s` are linked in this
order, each once, and end with `nullptr`; `ListOfChain` that the walk from its first
node, the recursive function in `ListOf`, returns `s`; `ChainedIsChain`, `TailChain`,
`ConcatChain` and `ChainKept` are about building a list, stepping to the next node,
linking one behind the other, and writes to other nodes. The provers have no induction over
an operator; `LeastNumber`, every set of numbers that is not empty has a least
member, takes its place. Assumed: `NodesAreFinite` and `NullIsNoNode`.

### `TaskQueueProofs`

Any number of producers, consumers, drainers and nodes, lists of any length. Assumed:
`ThreadAssumption` (the kinds of threads are distinct), `MaxListAssumption` and those of
the lists.

* `TypeCorrect`: `Spec => []TypeOK`. The work is in the lists handed to `push_list`
  (lemmas `DistinctSeqsType`, `ChainedType`).
* `MutualExclusion`: two threads are never both at points where the mutex is held.
* `WakeupsAreNotLost`: `Spec => []NoLostWakeup`. A consumer that is about to sleep has
  seen an empty queue and could miss a push, so `NoLostWakeup` is not inductive. The
  invariant `WakeupInv` adds that who is in the critical section owns the mutex
  (`LockInv`) and that a consumer between look and sleep still sees the empty queue
  (`SleepInv`).
* `ListsStayDisjoint`: `Spec => []ListsPartitionLiveNodes`. The invariant `ListInv` says
  that there is a list for each holder (the queue, a producer, a taker) to which its
  pointer leads, that these are disjoint, hold exactly the live nodes, and end where
  `last` says (`Holds`), and who has one (`HoldersAreBusy`). The lists are bound by a
  quantifier; the step of each action gives the ones after it.
* `QueueIsAtomic`: `Spec => ImplementsAbstractQueue`, the refinement of `AbstractQueue`.
  `ListsStep` says what a step does to the lists: nothing, or what one of the four abstract
  actions does to its sequences. This is what lets `ThreadPool` treat a push or a pop as
  one step.

### `ThreadPoolProofs`

Any number of workers, coroutines that jump any number of times, lists and calls of
`request_stop`. Assumed: `PoolAssumption` (there are workers, and finitely many
coroutines and calls), `CallersAreDistinct` and `NullIsNowhere` (the constants are
distinct).

* `PoolListsAreSafe`: `Spec => []ListsAreDisjointAndAlive`; `PoolLosesNothing`:
  `Spec => []NothingIsLost`. One invariant gives both. `Lists` says that the queues, the
  batches of the workers, the list of the client and that of the owner are lists without a
  common node; `NodesOK` that they hold what is alive, and all of it except pills;
  `PairsOK` that a job of `push_deadpill` comes right behind its pill, until somebody who
  cancels has stepped over that. `WorkersOK` and `ThreadsOK` say which thread executes
  what and which threads have been joined, and `OwnerOK` where the one pill of the
  destructor (or of the constructor that failed) is: in the queue or the batch of the
  worker that is joined just now, so that pushing it again, with its `next` overwritten,
  breaks no list. That nothing is left at the end rests on all of them: queues that were
  drained stay empty only because nobody executes any more.
* `PillsStopOnlyWhatFollows`: `Spec => TasksAheadOfPillAreExecuted`, an action property.
  `Line(t)` is what stands in front of worker `t`, its batch and then its queue. `StepAhead`
  shows from the invariant that every step leaves the line as it is, appends to it
  (`ListGrows` of `ListProofs`) or removes the first node, whose coroutine `t` then executes.
* The steps of the pool are pushes, pops and moves of whole lists. `Separate` of
  `ListProofs` (several heads with disjoint lists in one memory) and its lemmas say once what each does to
  all the lists; the proof of an action applies one of them.

### `SharedFrameProofs`

Any number of coroutines and objects. Assumed: `AsyncAssumption` (`Null` is neither a
frame nor an object).

* `TypesHold`: `Spec => []TypeOK` of `AsyncTask`.
* `FrameSafety`: `Spec => []FrameDiesAfterLastUse`; `FramesDoNotLeak`:
  `Spec => []NoFrameLeaks`. Neither is inductive without the meaning of the reference
  count: `Inv` says that a frame has at most one holder (`OneHolder`), that the count
  is the number of sides that have not given up (`RefCount`), and that the frame has
  been destroyed exactly when both have left (`Life`).
* `LogicalThreadSafety`: `L!Spec => []LogicalFrameSafe`. Here one flag replaces the count,
  and `ThreadLife` says what it means at each point of the coroutine: that the owner has left,
  or that the coroutine has. `ThreadPlan` is about the operations that take several objects in
  turn, `stop` and the move assignment.

### `latch`, in `SharedFrameProofs`

Any number of actors, counters and decrements. Assumed: `NothingCountsZero`, distinct
constants and nobody who counts down by zero; with `count_down(0)` both theorems are false
(section 4).

* `LatchOpensAtZero`: `T!Spec => []NobodyPassesEarly`; `LatchMayBeDestroyed`:
  `T!Spec => []NothingDeadIsTouched`. The invariant says that the counter is the sum of what
  calls have still to subtract and of what no call has claimed (`LatchAccounts`, as the
  cardinality of a set of units), that one call at most wakes, and only after the counter
  is zero (`LatchPhases`), and that the nodes of suspended coroutines form lists that nobody
  else leads into (`WaitersOK`).

### Events, in `SharedFrameProofs`

Any number of events, plain subscribers, threads, notifications and awaits. Assumed:
`EventsAssumption` (the constants have their types, there are finitely many subscribers
and `nullptr` is no node). The `next` pointers are handled with `Separate` of `ListProofs`,
where `SeparatePush` and `SeparateKept` say what a push and a write to a node outside
of all lists do.

* `SubscribersAreNotLost`: `E!Spec => []SubscriberIsInOneList`. Stacks and popped lists
  share no node (`Lists`), and a node's state says in which of them it is (`Listed`).
  A push may compare against an address that was popped and pushed again: the
  argument does not need it to be the same push, only that `next` holds the top at the moment
  of the exchange and that nobody else has the pushing node in hand (`ThreadsOK`).
* `MainIsResumedOnce`: `E!Spec => []MainGetsFreshInputs`; `AwaiterOutlivesCallbacks`:
  `E!Spec => []LiveAwaiterOnly`. `CountsOK` says that the counter of a round is the number
  of callbacks that have counted (a cardinality), so that the one that makes it `N`, or
  finds it 0, is alone, and that the awaiter lives until that one resumes main; `InputsOK`
  follows an input from the notification through list and node into the awaiter, newer
  than the subscription all the way; `RoundsOK` that one thread registers a round, in
  the order of the events, and that rounds begin when the one before has ended. That the
  registration of `when_any` reads a live awaiter is not claimed, because it is false
  (section 4); the theorems hold although that step may crash a thread.

### `get()`, in `SharedFrameProofs`

Any number of threads and tasks, any depth of `get()` inside of `get()`. Assumed: the
bound on jumps, `MaxHops`, is a number.

* `GetKeepsFramesAlive`: `G!Spec => []GetIsSafe`. The property counts the threads that
  execute a task and those that have it in a queue; it is not inductive without knowing that
  a stack or queue holds a frame or task once (`OccursOnce`), and on which side of `get()`
  a task is. `GetLife` says that for each task: where its caller is (`Calling`), where the
  thread that executes it is (`Executing`), and that `ready` and the reference count are
  functions of the two. What pushing, popping and replacing frames does to
  `Occurs` is shown once, for any sequences.

### `TasksProofs`

Any number of tasks. Assumed: `N` is a positive number (`NAssumption`,
`ConstantsAreSane`).

* `WhenAllIsLast`: `Spec => []OwnerIsLast`. `LastOneResumes` says that the counter is the
  number of jobs that have not counted down and that who finds it to be the last is
  alone; `SlotsAreFilled` that what it finds in the slots are the outcomes.
* `WhenAnyIsAlone`: `Any!Spec => []OwnerIsAlone`; `WhenAnyReturnsFirst`:
  `Any!Spec => []FirstValueOrLastException`. `JobsReportOnce` counts the tasks without a
  report, `ValueIsLast` says that only exceptions were reported before the result was
  decided, `OneIsChosen` that one job is to resume the owner.
* `TaskFrameHasOneEnd`: `T!Spec => []FrameHasOneEnd`; `TaskOutcomeIsNotLost`:
  `T!Spec => []OutcomeIsNotLost`. `Task` has no constants, and the run sees all its states;
  the proof tells why it holds. `TaskHeld` says which `who_waits` goes with what the owner
  holds until the task has ended, so that the frame it leaves behind is one that somebody
  holds or that destroys itself; `TaskExecuted` what the call stack says of the two
  coroutines, `TaskResult` what of the outcome is left at each point.

### `RoadGateProofs`

The call stack with its lists of coroutines to be resumed is the same in `Road` and `Gate`;
the lemmas about stacks and lists are stated once. Any number of coroutines.

* `RoadIsSafe`: `R!Spec => []RoadInv`, for any depth of `open()` inside of `open()`.
  Nothing is assumed. The invariant speaks of the call stack: a coroutine
  is on it once and only while it is executed (`RoadStackOK`), one that was woken is not
  interrupted before it has looked at the road (`Uninterrupted`), a waiting coroutine is in
  one of the lists (those of the `open()` calls on the stack included) and only once
  (`RoadEachOnce`, `RoadListedWait`).
* `GateIsSafe`: `Spec => []GateInv`, for any number of holders and any depth of `leave()`
  inside of `leave()`. Assumed: `GateAssumption` (the bound on holders of one coroutine is a
  positive number). `Counted` says that the counter is the number of holders (the
  cardinality of a set of them), without which `leave()` could make it negative;
  `ReturnedIsOnTop` that nothing comes between the return of `co_await close()` and the
  coroutine, and `ClosedForThem` that the gate stays closed as long as somebody has asked
  for it, and empty as long as a `leave()` is not through with its waiters. The last one
  rests on the precondition of `reopen()` as section 4 reads it: with the assertion of
  the code, which only looks at the queue, it is not an invariant.

### `GeneratorProofs`

Any finite set of frames, any objects, consumers and released handles, any depth of
`elements_of`. Assumed: `LeafChainAssumption` (`nullptr` is neither a frame nor an
object) and, of channels, `~IteratorsSurviveSwap`: with iterators that are used after
`swap` the second theorem is false (section 4, `channel_swap`).

* `FramesAreHeldOnce`: `MCSpec => []FramesHaveOneHolder`; `WorkersReport`:
  `MCSpec => []WorkerReportsToConsumer`; `LeavesAreAStack`: `MCSpec => LeavesFormAStack`,
  the refinement of `RecursiveRange`. All three rest on one invariant.
* `Forest(p, Heads)` is about the promises alone: from each head, a frame held by an object
  or a released handle, the leaves form a path (`Shape`), paths do not meet, and they contain
  all frames that exist. Only the last frame of a path may run or have ended; the
  `current_worker` of the head is this frame or, if it has ended, its owner, and the worker's
  `root` is the head. Nothing is said of the `root` and `worker` of the other frames: they
  are stale, and every member function that makes one of them the worker writes its `root` first.
  A leaf that has ended stays in the path until its owner goes on, so that the abstract
  stack is the path without it.
* Each member function of the promise is shown to turn a forest into a forest, with one path
  longer, shorter, joined to another or cut off, and the others as they were (`Change`,
  `Popped`, `Joined`, `Stopped`, `Skipped`). The abstract steps follow from that.
* `Holders` says that heads have one holder each, also between the rounds of a `clear()`,
  `Workers` that the frames that run belong to the objects that are iterated.
  `GeneratorInv` and `ChannelInv` add what the `link` of a head, the `handle` of a channel
  and a valid iterator say of each other (`ValidIterator`); without the last one a worker
  could report to a channel whose consumer is another one.

### `StackResourceProofs`

Frames of any sizes, any alignments and initial buffer, any number of frames and chunks.
Assumed: `ConstantsAreSane` (sizes and alignments are positive, that of the resource
divides that of the frames, and the initial buffer is aligned).

* `LiveFramesAreIntact`: `S!Spec => []LiveAllocationsAreIntact`; `ChunksStayConsistent`:
  `S!Spec => []ChunksAreConsistent`. The invariant is `Good(s)` for some sequence `s` of chunks:
  the headers chain exactly these, the current one first (`Linked`, with `ListProofs`), the
  others are in the freelist (`Shared`), and what is used of a chunk ends in it, aligned
  (`Marked`).
* Not overlapping is not inductive: `deallocate` moves the mark back by the size it is
  given, and that this uncovers the last frame and nothing else needs the order of
  the frames. `Placed` says that later frames lie in chunks that are not older, and behind
  the earlier ones of the same chunk; `Tiled` that the frames of a chunk leave no gap up
  to its mark. So the last frame of the newest chunk that has any ends at the mark, and the
  chunks above it, which the loop of `deallocate` drops, are empty. While `deallocate` searches,
  its frame is not alive any more but still in its place (`Known`).
* The arithmetic of alignment (`RoundUpFacts`, `SumAligned`, `WeakerAlignment`) is proved
  from division with remainder.

### Only model-checked

Liveness: `~>` under fairness is out of the prover's reach, and so are the thirteen
properties that say that something happens in the end. Every safety property of the
passing runs has a theorem.

## 6. Not modelled

* `worker` is one queue and one thread of `thread_pool`, with the same loop and the same
  end; `strand` forwards to a `task_queue`. A module of their own would repeat both.
* `generator` of `nothing_t`, which has no `current_result`; the adapter with which a
  channel yields the elements of a channel of another type, a body like any other.
* Contexts of `task` other than `null_context`; an `on_ignored_exception` that throws.
* Moves of `gate` and `stack_resource`, which hand over the whole state.
* `with`, `chain`, `avalue`, `ignore_result` and the awaiters and concepts of `common.hpp`: no
  state of their own.
* The choice of promise and memory resource by types, the hash that selects a queue,
  monitoring counters, containers, macros.
* Exceptions of `attach`, which end in `std::terminate` or are marked TODO in the code.

## 7. Plan

1. Done: queue, pool, latch, `async_task`, `logical_thread`, `when_all`, `when_any`,
   events, gate, road, `stack_resource` with the frames it is for, `task` and its
   blocking `get`, `generator` and `channel`; the theorems above.
2. Compositions: `when_any` over tasks that jump on a pool which stops; a latch whose
   executor is the pool.
