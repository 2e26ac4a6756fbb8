# TLA+ verification of CloudAutoGear

CloudAutoGear bundles an Android emulator support library in C and C++
(`src/aemu-main-next`), the scripts, gateway and web client that run an emulator
in a container (`src/android-emulator-container-scripts`), tools for emulator
developers and sample car apps. This directory models the parts with a core logic
of their own - threads, callbacks, messages, snapshots, allocation, crashes -
checks the models with TLC and proves the central results with TLAPS.
`PROJECT.json` lists the components, runs, theorems, hazards and the source
lines behind every definition.

Below, `base/` is `src/aemu-main-next/base`, `inc/` its `include/aemu/base`,
`host/` is `src/aemu-main-next/host-common`, `cli/` is
`src/aemu-main-next/tools/emu-dev-cli` and `ec/` is
`src/android-emulator-container-scripts`.

## 1. The system

### Parts, state and operations

| component | state it keeps | operations | who else acts on it | here |
|---|---|---|---|---|
| **MessageChannel** `inc/synchronization/MessageChannel.h`, `base/MessageChannel.cpp` | a ring of `CAPACITY` slots (`mPos`, `mCount`), `mStopped`, two condition variables | `send`, `trySend`, `receive`, `tryReceive`, `timedReceive`, `waitForEmpty`, `stop` | any number of threads on both sides | modelled, proved |
| **BufferQueue** `inc/containers/BufferQueue.h` | a ring that doubles in snapshot mode, `mClosed`, `mSnapshotMode`, two condition variables | `push/pop` (blocking, try, before a deadline), the `waitUntil…` pair, `close`, `setSnapshotMode`, `onSave`, `onLoad` | two threads under a lock the owner supplies | modelled but for one failed load; proved |
| **WorkerThread** `inc/threads/WorkerThread.h` (on `base/Thread_pthread.cpp`) | a command queue with a promise per command, `mStarted`, `mFinished`, one worker thread | `start`, `enqueue`, `waitQueuedItems`, `join` | any number of enqueuers, the worker | modelled but for the destructor; proved |
| **ring_buffer** `base/ring_buffer.cpp` | two 32-bit positions, a power-of-two buffer, a `state` word | write, read, advance, wait, full transfers, copy of the contents; acquire, idle, hang up | one producer and one consumer, without a lock | modelled, proved |
| **Signalling driver** `ec/js/.../ws_jsep_protocol_driver.ts` | WebSocket, peer connection, signal queue, candidates, reconnect timer and counter | `startStream`, socket and peer callbacks, `disconnect` | browser event loop; the gateway | modelled but for data channels; proved |
| **Gateway** `ec/gateway/.../gateway_server.py` | one session per WebSocket: a Video Bridge id and a reader task | the WebSocket handler and the stream reader | browser, Video Bridge | modelled but for its HTTP routes; proved |
| **HealthMonitor** `base/HealthMonitor.cpp` | an event queue, the monitored tasks with their timeouts and parents, `mHungTasks` | start, touch, stop, poll, the monitor's round | monitored threads, the monitor thread | modelled, proved |
| **SubAllocator** `base/SubAllocator.cpp`, `inc/address_space.h` | a list of blocks, a count | alloc, allocFixed, free, freeAll, save, load | sequential | modelled but for the array's growth; proved |
| **Entity and component managers** `inc/containers/*EntityManager.h` | slots with generations and a free list; a map above `maxIndex`; components by entity | add, addFixed, remove, get, clear | threads, under two locks | modelled, proved; other containers not |
| **AndroidPipe, DeviceContextRunner** `host/AndroidPipe.cpp`, `host/include/host-common/DeviceContextRunner.h` | pipe services, one host object per guest pipe, pending wake commands | open, send, close, wake, save, load; `queueDeviceOperation`, the timer event | VM threads, service threads, another process after a load | modelled but for a service's transfers; proved |
| **Tidy transactions** `cli/src/lib/git_transaction.py`, `level1_engine.py`, `tidy_engine.py`, `agent_dispatcher.py`, `cli/src/commands/tidy/fix_cmd.py` | commits with trailers; anchor, level and failed symbols of a run in memory | fix, `--continue`, `--abort`; step, rollback, squash | the user's edits and commits, coding agents, the compiler | modelled up to Level 2, proved |
| **ThreadPool** `inc/threads/ThreadPool.h` | a vector of workers and an atomic round-robin index | `start`, `enqueue`, `broadcast`, `waitAllItems`, `done`, `join` | owns WorkerThreads | no |
| **RecurrentTask** `inc/async/RecurrentTask.h` | `mInFlight`, a looper timer | `start`, `stopAsync`, `stopAndWait`, the timer callback | callers, the looper thread | no |
| **Event support** `inc/events/*` | a set of listeners under one lock, callbacks under another, event counters | add, remove, fire; `EventWaiter::next` | any thread | no |
| **DmaMap** `host/DmaMap.cpp` | guest buffers and their host mappings under a reader-writer lock | add, remove, look up (and map on demand), invalidate, save, load | guest-driven threads | no |
| **HostmemIdMapping, RefcountPipe** `host/HostmemIdMapping.cpp` | id tables, a count | add, remove, get | sequential | no |

MessageChannel is used by `Event.h` and declared in `CallbackRegistry.h` and
`address_space_graphics.h`; BufferQueue in `AsyncSocket.h`; ThreadPool is built
from WorkerThreads; ring_buffer carries the command streams of guest and host;
SubAllocator divides the memory they share; AndroidPipe owns a
DeviceContextRunner; ComponentManager attaches data to the entities of a
HybridEntityManager; the browser driver talks to the gateway, which talks to the
Video Bridge over gRPC.

### What is hard, and what makes each part correct

* **Blocking queues** (MessageChannel, BufferQueue). Each signals one thread,
  only on some transitions, while other threads may take the slot first and
  wakeups may be spurious. Correct: no thread sleeps while there is something
  for it, a stop or close releases everybody, and the items form a FIFO queue
  through wrapping, growing, timeouts, save and load.
* **WorkerThread**. A command arrives while the stopping batch is being
  processed; `start` races with `enqueue`. Correct: items are processed in order,
  none after a stop, and every future becomes ready exactly once.
* **ring_buffer**. No lock: correctness rests on the order of copying and of
  publishing a position, on one slot kept free and on 32-bit wrap-around.
  Correct: no slot belongs to both sides, the bytes arrive unchanged and in
  order, and two full transfers do not wait for each other. On the hang-up word
  both sides use compare-and-exchange and plain stores: the producer must get the
  channel back and both threads must finish.
* **Signalling**. Callbacks of sockets, timers and peer connections come between
  the awaits of a signal. Correct: nothing is left open, one signal at a time,
  nothing of one session in the next, a lost socket is replaced or given up.
* **HealthMonitor**. Events are applied late and out of order, and touches of
  children go through the queue again. Correct: a report is true, the count is
  exact but for tasks whose stop comes after the deadline it sets, no task is
  forgotten or comes back.
* **Allocation** (SubAllocator, the managers). Long sequences of calls split,
  merge and reuse. Correct: blocks tile the buffer, free lists are exact, stale
  handles stay stale - also while another thread is between its two locks.
* **AndroidPipe**. Wakes wait in a queue while pipes are closed, reopened, saved
  and loaded in another process. Correct: no wake lost, none for the wrong pipe
  (with the exception that section 5 names), each service its own stream.
* **Tidy**. The only memory that survives a kill is in commit trailers, in a
  repository the user works in too; agents of a session change the tree while the
  tool verifies and commits it. Correct: what is committed is what was verified, as
  far as the tool can know, and nothing of the user's is lost.

## 2. Plan

1. *(done)* MessageChannel, its abstract channel, safety and refinement proofs.
2. *(done)* BufferQueue with its abstract snapshot queue, safety and refinement proofs.
3. *(done)* WorkerThread and its proof.
4. *(done)* ring_buffer with its abstract pipe, safety and refinement proofs; the hang-up
   protocol on top of it, with its proof.
5. *(done)* The signalling driver composed with the gateway, and its proof.
6. *(done)* HealthMonitor and its proof.
7. *(done)* SubAllocator with its abstract pool, safety and refinement proofs.
8. *(done)* EntityManager, HybridEntityManager on it, ComponentManager on both,
   with the proof.
9. *(done)* AndroidPipe with DeviceContextRunner and its proof.
10. *(done)* Tidy transactions and their proof.
11. DmaMap: the lookup that changes locks; no mapping is lost or used after it
    has been removed. Then the two locks of the event support, RecurrentTask,
    ThreadPool over WorkerThread (by `INSTANCE`).

No module that is proved about uses a RECURSIVE operator, each takes its sizes
and thread sets as constants with named assumptions, and has one action per
operation.

## 3. Modules

| module | role |
|---|---|
| `MessageChannel` | the channel, with its lock, condition variables, timeouts and stop |
| `BoundedChannel` | what it promises: a bounded FIFO channel with calls in progress |
| `BufferQueue`, `MCBufferQueue` | the growing ring; symmetry and view for TLC |
| `SnapshotQueue` | what it promises: a FIFO queue that grows in snapshot mode, with save and load |
| `BufferQueueProofs` | theorems about `BufferQueue` |
| `WorkerThread` | the worker, its starters and its enqueuers |
| `ThreadProofs` | theorems about `MessageChannel` and `WorkerThread` |
| `RingBuffer` | the lock-free ring, step by step |
| `BytePipe` | what it promises: a bounded FIFO pipe of bytes |
| `RingBufferSync` | the hang-up protocol, driven by the two threads of its test |
| `RingBufferProofs` | theorems about `RingBuffer` and `RingBufferSync` |
| `Signaling` | driver, view and gateway |
| `HealthMonitor`, `HealthMonitorProofs` | clients, watchdogs and the monitor thread; theorems about them |
| `SubAllocator`, `SubAllocatorProofs` | the block list; theorems about it |
| `AllocatorPool` | what it promises: disjoint ranges, refused only for want of room |
| `EntityManager` | slots, generations and the free list, as operators on a manager |
| `HybridEntityManager` | inline slots and the map, with threads between the two locks |
| `ComponentManager` | components of those entities |
| `ComponentManagerProofs` | theorems about the three managers together |
| `AndroidPipe`, `AndroidPipeProofs` | pipes, services, waker and snapshots; theorems about them |
| `TidyTransaction` | the tidy command on a Git repository |
| `ToolProofs` | theorems about `TidyTransaction` and `Signaling` |

Where one module of proofs extends two models, the second calls its specification after
itself: `WorkerSpec`, `SyncSpec`, `SignalingSpec`.

Definitions named "Mutant" are plausible bugs, each a variant of the definition
below it; they are not part of the model. Every property of a run fails when the
mutant paired with it in `PROJECT.json` replaces that definition.

### Conventions of the models

* A step of a lock-based model is one section under the lock. The condition
  variables are the sets of threads that wait on them: `signal` takes one thread
  out, whichever, and `broadcast` all. A woken thread acts in a later step, so
  others can get the lock first. Any waiting thread may wake spuriously.
* `signalAndUnlock` signals before it unlocks, as the POSIX version does. The
  Windows version unlocks first; a thread between its unlock and its signal is
  then in a state the models do not have.
* A deadline is an action, `DeadlinePasses`, at any time during a timed call. A
  wait that has timed out returns without looking at the queue again where the
  code does so, and looks again where it does that.
* Messages, items and commands are model values. The slots left behind keep
  their old content or, where the code moves from them, `Nothing`.

### MessageChannel

`mPos`, `mCount`, `mItems` and `mStopped` are the fields of the class; `op` and
`msg` say which blocking call each thread is in and with what message; `late` and
`timedOut` are about deadlines. `Call` enters `send`, `receive`, `timedReceive`
or `waitForEmpty`; `SendWaits`/`Send`, `ReceiveWaits`/`Receive` and so on are the
two outcomes of one turn of the wait loops, including `afterWrite` and
`afterRead`. `TrySend`, `TryReceive` and `Stop` are single steps. `size` and
`isStopped` only read. The abstract `BoundedChannel` has the queue and the calls
in progress but no ring, no wakeups and no condition variables; the refinement
maps its queue to the slots from `mPos` on.

### BufferQueue

One locked section per step, on the ring `mBuffers`. `Grown` is `grow()`, which
rebases a wrapped ring; `Save` and `Load` copy the contents to and from a stream.
A load happens only while no thread waits: loading does not signal, and the
queue's threads start after it. A load whose stream ends early is left out: it
reports failure and its owner drops the queue. Pushing on a full ring in snapshot
mode stops at `MaxSize`, the one bound added. The class is documented for two
threads, one at each end, and the properties are stated for these.

Where the header's comments differ from the code the model follows the code
(section 5).

### WorkerThread

`Handle` is one turn of the loop over a batch, outside the lock; `Exit` is
`setFinishedAndDrainTasks`. `start` takes no lock until `Thread::start` has failed
and is therefore three steps. `StartFails` is the failed start: it holds `mLock` and
asks for it again. `join` has no step of its own: it returns when the worker has
exited. Commands enqueued before `start()` returns are queued and processed,
contrary to WorkerThread.h:103-105.

### RingBuffer and BytePipe

Each side of the ring runs a small program: a call (`write`, `advance`, `fully`,
`wait`, and for the consumer `peek`) goes from its check or wait over the one or
two pieces of its copy to the store that publishes the position. The producer's
bytes are 0, 1, 2, …, so that `ImplementsPipe` can tell a lost, repeated or
reordered byte; `Stale` marks slots the consumer has given back. `sure` is the
room or data that a successful wait has promised. Positions count modulo `Word`,
which stands for 2^32 and is a multiple of the size as 2^32 is. The atomic
accesses are sequentially consistent in the code and in the model. A wait polls
the positions with a timeout; a full transfer repeats it. The abort value of a
transfer is not modelled (section 5).

`RingBufferSync` has one action per operation on the `state` word. The only user in
the repository is the test `ProducerDrivenSync`, so its two loops drive the
protocol. `consumer_hung_up` is a plain store, so `HUNG_UP` may overwrite
`ACTIVE`; the model includes this and the properties hold nevertheless. The header
describes the state that `ring_buffer_consumer_hangup` sets as hung up
(ring_buffer.h:213-217); the code sets `HANGING_UP`. The ring may be smaller than the
transfer, as it is in the test; then both threads can spin for ever, in one state
only, which is named `Jammed` (section 5).

### Signaling

One action per callback of the driver and per stretch between two awaits; `js`
holds its fields, `procs` the calls of `_processSignalQueue` that are suspended or
running. A new task starts only when no call can go on by itself, as on an event
loop. Each socket has its own gateway handler with its reader task (`gw`), and
ordered messages both ways. External: sockets may fail at any time, the bridge
sends what it likes, and, as WebRTC has it, promises of a closed connection never
settle. `MaxStarts`, `MaxSignals` and the number of calls in `procs` are bounds.

### HealthMonitor

Client threads build and leave watchdogs and touch tasks; `mEventQueue` is filled
under the lock and swapped by the monitor (`Swap`). `ApplyEvent` is one turn of its loop
over what it took: the event is applied, a stopped task is noted in `tasksToRemove`,
and the touch of the parent goes to the end of what is left. `EndRound` looks for hung
tasks, erases the stopped ones, and leaves when `keepMonitoring` is false. The monitor
reads the clock once, before the loop, so no tick falls between two events. Times are relative to the present, so that the
state space is finite. One assumption is named, that the monitor's next step comes
within `MaxLag` ticks of its swap. Timeouts may be shorter than that:
`startMonitoringTask` raises only those below one interval, so an event can be
applied after the deadline it sets. `overdue` is a history of the tasks that this
happened to in their last event; they are erased while they are marked as hung, and
`HungCount` says that `mHungTasks` goes on counting them. `HangIsReal` allows for the
disorder of one batch and no more.

### SubAllocator and AllocatorPool

`blocks` is the array; `TakeEnd` splits the end of the best fitting block off for a
request, `TakeAt` cuts a fixed request out of the block that holds it, `ReleaseBlock`
merges a freed block with its neighbours. A size has `Word` values, which stand for
the 63 bits of the field. With `MayOverrun` a fixed request may reach past its block,
as the code allows; the run and the theorems set it to FALSE, which is what callers
that ask for ranges they once had keep to. `AllocatorPool` knows only the set of
ranges in use and the longest request there can be, `MaxRequest`.

### EntityManager, HybridEntityManager, ComponentManager

`EntityManager` is a module of operators from a manager to a manager: `Added`,
`AddedFixed` (with the walk of the free list), `Removed`, `Cleared`. They are used
twice: as the inline part of the hybrid manager and for the components.
`HybridEntityManager` has one action per locked section, so that a thread may stand
between the inline manager and the map in `add` and in `clear`. What clients are
assumed not to do is named: to keep a handle past a wrap-around of its generation
(`Forgotten`) or of a map index past `clear` (`ClearMap`), to fix a handle older than
one that is held (`MayFix`), to fix an index the map has (the code aborts), to pass
type 0 (`add` gives back the invalid handle, on which the hybrid manager aborts). Handles
have `Generations` generations; 4 stand for 2^generationBits.

### AndroidPipe

The device, its VM lock and its timer are external. Calls of the device are one
action each, except `onGuestClose`, during which a service thread can still signal
(`GuestClose`, `CloseEnds`); `HostSignals` and `HostStartsTimer` are the two halves of a
signal, between which the queue's lock is free. `Save` is pre-save, the pipes and
post-save; `Restart` is another process with any of the services in any order; a load
goes through `PreLoadAborts`, `PreLoadDefers`, a step per pipe and `PostLoad`. A service
may refuse to create a pipe or to load one, and a process may lack the `Optional`
services; `AssertFails` is the assertion at AndroidPipe.cpp:654, which ends a build
that has it. `late` marks an operation queued while its pipe is being closed.
`owed` is a history of what services have signalled and the device has not been told,
and `savedOwed` its value when the snapshot was saved; neither is computed from the
queue or from the flags the code saves.

### TidyTransaction

A commit is a tree with the trailers of its transaction, and a hash is a position in
the branch. A tree is told by the replacements and renames in it, whether its target
compiles, whether its test target passes, and the user's edits in it. Neither of the
two checks follows from the other, as they are of different targets. `pc` goes through
the engines statement by statement; `git add -u` (`CommitStep`) and `git commit`
(`CommitStaged`, `CommitFails`) are steps of their own, so a kill or a hook can leave
the tree staged.

`Agent` is `dispatch_refactor_step`. A standalone agent is waited for and leaves any
tree behind. In an agent session it only starts a conversation, which `asked`
remembers; from then on `AgentWrites` may change the tree at any time, while the tool
verifies and commits, after it has ended, or after a kill. A report may be of any tree
(`Diagnostics`), as its build is not checked, and a `git status` that fails reads as a
clean tree (`Reads`). `misled` is a history of the two ways in which the tool acts on
something that was never true or no longer is: a failed status, and a write of an agent
between a check and its use (`Relying`). `Crash` is a kill at any point: memory is
gone, the repository stays. Level 2 stands for Levels 2 to 4, which differ in
diagnostics and compiled targets.

Two things are assumed: the user does not touch the repository while the tool runs,
and the target lies in the repository of the source directory (section 5).

## 4. Runs

| run | instance and bounds | what it shows |
|---|---|---|
| `channel_live` | 2 senders, 2 receivers, 2 slots, 1 message | no lost wakeup on either side, a stop is final, the fair bounded channel is implemented, a timed receive returns |
| `channel_empty` | 1 sender, 1 receiver, 1 thread in `waitForEmpty`, 2 slots, 2 messages | FIFO order of distinct messages; a stop releases all kinds of waiter |
| `bufferqueue` | 1 thread per end with all blocking calls, 2 symmetric items, ring 2 growing to 4; the view leaves out the last result | nobody is left asleep in `push`, `pop` or `popBefore`; every step, those of the `waitUntil…` pair included, is a step of a FIFO queue |
| `workerthread` | 2 items, a stop, a sync, 2 starters, start may fail | order, stop and sync; every future becomes ready unless the start failed |
| `ringbuffer` | size 4, positions modulo 8, steps of 1 and 3 bytes, two steps per transfer, all calls, a view | no shared slot, promises of waits, no mutual blocking, the byte pipe, full transfers end |
| `ringbuffer_sync` | 6 bytes through a ring of 2 | the channel is got back; both threads finish, or jam in a full ring and in no other way |
| `signaling` | 1 start, 1 reconnect, 2 messages of the bridge | nothing left open, one signal at a time, sessions apart, a lost socket is replaced or given up, queued signals are processed |
| `healthmonitor` | 2 threads, 2 tasks, 1 touch, timeout 4, lag 2 | true reports, a count that is exact but for stops that come too late, tasks watched until stopped |
| `suballocator` | 3 pages of 2 bytes, sizes of 32 values | tiling, merging, the abstract pool |
| `components` | 2 threads, 6 calls, 2 inline slots, map indices up to 3, 3 components, 4 generations | exact free lists, handles resolve as long as their entity is there, tracked entities lead to a component |
| `androidpipe` | 1 pipe, 2 services, of which 1 loads and the other may be missing, a buffer of 2, 2 waiting operations | wakes neither lost nor misdelivered, each service its stream |
| `tidy` | 1 diagnostic of each kind, up to Level 2, 1 fix and 1 `--continue` with a test target, standalone or in a session, 1 upset: an edit of the user, a late write of an agent or a failed status | verified steps, commits and edits kept, a run ends |

Why the bounds are enough to be interesting. Two threads on each side are what a
stolen wakeup needs: one is woken, the other overtakes it. Two slots wrap at
every position, and hold an order. A ring of 2 that grows to 4 is copied in two
halves. Four enqueuers and a stop fill several batches and leave commands behind
the stopping one. A ring of 4 bytes with steps of 3 copies across the end, is
full after one step, and meets positions that overflow in the middle of a step.
A ring of 2 jams, and six bytes through it repeat the hang-up several times. One start with one reconnect has two
sockets and two peer connections, so that everything of the first can meet the
second. A parent and a child task show every order of touch and stop; a lag of half the
timeout lets events meet their own deadline. Three pages
hold a block between two others. Six calls on two inline slots take a slot from
the middle of the free list and reuse it, and leave a thread between two locks
while the other clears. One pipe is enough for a hwPipe's second connection to
inherit from its first; with two the state space is out of reach, and nothing but
the order of the queue relates them. A fix and a
`--continue` of tidy follow a kill at every point, with the user's commit on top or
below, or an agent's write in between; a second fix after the first is beyond TLC's
reach here and is left to the proofs. What does not depend on these
numbers is proved (section 6).

### Fairness

* A thread inside a call goes on when it can run, a deadline passes, and a wait
  whose deadline has passed ends: weak fairness of `Proceed`, `DeadlinePasses` and
  `Timeout` per thread. The operating system schedules runnable threads and its
  clock advances.
* No thread has to make a call, to stop or to close, and no spurious wakeup is
  owed. The liveness properties speak of calls in progress only.
* In `WorkerThread`, threads inside `start` and `enqueue` go on, and the processing
  function returns: the class offers nothing to a caller whose function does
  not. In `RingBuffer` a side inside a call goes on; nothing makes it call again.
* In `Signaling` the event loop and the gateway do what is due (`Due`): events that
  are there, promises, timers. Neither the user, nor the network, nor the bridge has
  to do anything.
* In `TidyTransaction` a tool that is not killed takes its next step: compilers,
  tests and standalone agents return, as the tool waits for them without a limit of
  its own. In an agent session the dispatch returns at once, and nothing is owed by
  the agent.
* Weak fairness is enough because a lock-based step that is enabled stays enabled
  until the thread takes it or another thread's step makes waiting right.

Deadlock is not checked where the system may stop or a bound ends it:
`signaling` and `healthmonitor` (all starts, messages or tasks used up and nothing
due), `components` (`MaxCalls`), `androidpipe` (`MaxPending` operations wait while
the load of a pipe has one to add) and `tidy` (all runs used up). All others check it.

## 5. Disagreements met while modelling

The models have the code's behaviour in each; none has a run of its own.

* `waitForEmpty` waits on the senders' condition variable, and `afterRead` gives
  one signal per slot (MessageChannel.cpp:43, 117): if the waiter for emptiness
  gets it, a sender sleeps beside free slots. `SendersKeepUp` is stated without
  such a caller; the repository has none.
* BufferQueue: `waitUntilPopableLocked` and its twin test once with `if`
  (BufferQueue.h:73, 84). In snapshot mode a pop fails only when the queue is empty,
  where :92-94 says that the queue "returns error on all reads"; `canPushLocked` is
  false for a full queue that would grow, where :67-68 says it is true "if it is not
  full or it would grow anyway".
* A failed `Thread::start` makes `WorkerThread::start` take its lock twice
  (WorkerThread.h:88, 166).
* `ring_buffer_copy_contents` without a view measures its first piece from
  `write_pos` (ring_buffer.cpp:277); the abort value of a full transfer is looked at
  only between steps whose waits have no timeout (:553).
* ring_buffer: a consumer that could not hang up waits for an idle producer without
  reading, while the producer, in the middle of a byte, waits for room in a full ring.
  The test moves more bytes than the 2047 a ring of it holds
  (ring_buffer.h:15) and has both of these loops (ring_buffer_unittest.cpp:460); it is
  disabled with the remark that it hangs on Windows (:426-428). `FinishOrJam` and the theorem `OnlyFullRingJams` say
  that this is the one way to hang, and `NoJamWithRoom` that a ring with room for the
  transfer has none.
* HealthMonitor.h:85-87 says that a timeout must be larger than the monitor's interval;
  HealthMonitor.cpp:65 accepts one that is equal. A stop can then be applied after the
  deadline it sets: the task is counted as hung (:227) and erased in the same round
  (:245), and `mHungTasks` is too high from then on. `ExactWhenPrompt` says which
  timeouts exclude that.
* PROTOCOL.md:99 has either side send `bye` before closing; the driver closes its
  socket without one (ws_jsep_protocol_driver.ts:535, 551), and the gateway sends the
  bridge nothing on the way out (gateway_server.py:263).
* A fixed request of the SubAllocator can reach past the block it starts in
  (address_space.h:143), against the invariant stated at :51-54; see `MayOverrun`.
* An operation queued while `onGuestClose` runs stays in the queue, and the next
  connection of the hwPipe inherits it (AndroidPipe.cpp:607): `OnlyLateOutlive`
  excludes every other way.
* Tidy: README.md:295 of the tool says of its rollback that "the working tree is
  never left dirty"; files that an agent adds are neither committed (`add -u`) nor removed (`reset --hard`), and
  Level 1 commits its replacements before it has verified them
  (level1_engine.py:139). A kill between the soft reset and the squashed commit
  loses the trailers (git_transaction.py:277): the work stays staged, and no
  transaction is found.
* Tidy in an agent session: `dispatch_refactor_step` returns when the conversation has
  started (agent_dispatcher.py:285-293), while `dispatch_investigation` polls for its
  end (:157-184). The agent may change the tree after the check that lets it pass and
  before the commit.
* Tidy's checks: Level 1 says that compilation and tests have succeeded
  (level1_engine.py:247) also when its last step was a repair of the tests, after which
  nothing was compiled again (:199-212), or a fix without replacements, after which no
  test was run. A `--continue` of Level 2 that adds no step squashes whatever is staged,
  which after a commit that failed was never verified; finalize_transaction "Squashes
  all verified transaction step commits" (tidy_utils.py:168).
* Tidy's tests of the repository: a failing `git status` reads as a clean tree
  (git_transaction.py:127-134). `--abort` and `--continue` read HEAD of `source_dir`,
  while the transaction resets the root of its own workspace (fix_cmd.py:48-56): these
  may be two repositories.
* Tidy's loop: it need not end when agents undo the rename they are given, as the step
  commit takes the symbol off the failed ones (tidy_engine.py:214), or when the build
  of the report fails unseen and an old report is read (:83-87): `RunEnds` names both.

## 6. Proofs

All theorems hold for every value of the constants that satisfies the named
assumptions of the module. Run `tlapm` on each of the proof modules.

**ThreadProofs.** For `MessageChannel`, `Invariance` proves an inductive invariant, of which
`TypeCorrect`, `StopIsFinal`, `NoLostReadWakeup` and `NoLostWriteWakeup` follow. The
safety properties are not inductive alone: that a message in the ring has a
receiver awake for it depends on who may be in which waiting set (only threads
inside a matching call wait), that a timed-out thread waits nowhere, and on the
counts changing by one at each step. `NoLostWriteWakeup` assumes that no thread
calls `waitForEmpty`; it fails otherwise (section 5).

`Refinement` shows that every step of the ring is a step of `BoundedChannel` or
leaves it unchanged: lemmas say what one slot written or taken does to the
sequence of slots read from `mPos`.

For `WorkerThread`, `InOrder` (`ProcessedInOrder`) and `SyncWaits`
(`SyncWaitsForEarlier`), for any number of commands and callers. Three facts make
them inductive: what is being processed followed by the queue is what has been
accepted and not yet processed, in its order (across the swap of a batch); a
command is accepted once; and before the worker exits an answered command is one it
has handled. With them, `Done` says that what has been processed lists the items
among the handled commands in order, or, once an item has said stop, among those up
to that item: the rest of the batch is handled without being processed.

**BufferQueueProofs.** `QueueImplemented` (`ImplementsQueue`) holds for every initial
capacity and all sets of threads: read from `mPos` on, the slots in use are the items of
`SnapshotQueue`, and each step does to them what the queue does. The lemmas say what
one slot written or taken does to that sequence, and that `grow()` puts the two halves of
a wrapped ring into their order at the front of one of twice the size; the invariant is
that every slot in use holds an item and that each call has its argument.

`NoneStranded` (`NobodyStranded`) assumes one thread at each end (`OneEach`), the use the
class is documented for: with two poppers, one of them can be left asleep beside an item,
as a push signals only when the queue was empty. The invariant adds who may wait where:
only a pusher that pushes or waits for room on one condition variable, only a popper
that has not timed out on the other.

**RingBufferProofs.** For `RingBuffer`, `Invariance`, and from it `TypeCorrect`, `NoSharedSlot`,
`PromisesKept` and `NoMutualBlocking`. The argument: `Available` shows, for
positions less than a buffer apart, that the masked differences that the code
compares are the true ones, also across overflow, because `Word` is a multiple of
`Size`. Each side then keeps a discipline (what its program counter says of its
step, and that a step of a full transfer is at most half the ring), a
producer's step only shrinks the room and a consumer's only the data, so what
one side has checked stays true under the other's steps. `NoMutualBlocking`
needs the half: room and data add up to `Size - 1`.

`PipeImplemented` shows that each step is a step of `BytePipe` or leaves it
unchanged. Slots are numbered from the read position on (`Slot`), which turns the
masking and the overflow into one subtraction, and the invariant says what lies in
each: the unread bytes, then what the producer has copied and not yet published,
then leftovers (`Written`); and that the consumer's copy is the first of the unread
bytes (`CopiedOut`). It assumes that copies of the contents go through a view; from
the ring's own buffer they do not give the unread bytes (section 5).

For `RingBufferSync`, `Reacquired` says that the compare-and-exchange after a hang-up
succeeds, `OnlyFullRingJams` that one of the two threads can move until both are done
except in `Jammed`, and `NoJamWithRoom` that `Jammed` needs a transfer longer than the
ring. The invariant says of every pair of program counters which words they leave
possible (`Words`) and what each thread has handled at its place (`Shares`), so that
no thread waits for a state that nobody will set.

**HealthMonitorProofs.** `CountIsRight` (`HungCount`) and `NoneLost`
(`WatchedUntilStopped`), for any number of threads, tasks and touches and any threshold
and lag, however these two compare. A task that is erased while marked as hung stays counted; the
invariant is that such tasks are `overdue`: an event that is applied in time gives a
deadline that is still ahead when the round ends, and the round takes the mark off
first. `ExactWhenPrompt` says that with a threshold above twice `MaxLag` no task is ever
overdue, so that the count is exact: an event is at most one tick old when it is
queued, at most `MaxLag` more when it is taken and as many again when it is applied
(`Recent`). For the watched tasks the invariant says that each is started once and told to
stop once and after its start, in the queue, in what was taken and across both
(`InOrder`); this in turn needs that a watchdog is held once, by one thread or by nobody
(`Watchdogs`). A touch that is passed on only changes tasks that are there.
`HangsReported` (`HangIsReal`) adds a second invariant, `HInv`. A deadline is never later
than that of the latest event (`Deadlines`), so a task is marked once its timeout has passed.
For the converse, the deadline of a task answers for the latest event of each child
but for what one batch can lack in order, or a touch is still on its way to the task
(`Family`); a round ends when no touch is on its way. That an event which arrives
late moves a deadline back by no more than that needs the order in which the loop works:
level by level, as what is passed on joins the end (`Levels`). When the loop is at the
events that were passed on k times, none of the times it has applied in this round
is later than the swap plus k, and none still to come is earlier than the oldest event plus k.
Ids grow from parent to child (`Numbered`), so there are at most `MaxTasks` levels,
whose epsilons add up to less than a tick.

**SubAllocatorProofs.** `Listed` proves the inductive invariant that the blocks and
the snapshot are merged lists that tile the buffer; `BlocksTile` and `BlocksMerged`
follow. It assumes that fixed requests end in the block they start in
(`MayOverrun = FALSE`). The argument is a lemma about splicing: replacing
neighbouring blocks by a list of the same bytes leaves a tiling, if its edges are
not available beside an available block (`SpliceLists`); the rest says what each
operation puts in place. The snapshot must be in the invariant because a load
puts it back. `CountExact` says that `allocCount` is the number of blocks in use;
with it, the same lists give `PoolRefined`: each operation does to the set of ranges
in use what `AllocatorPool` says. Its hard half is a refusal: from "no block is
long enough" it follows that the pool has no free range of that length, since a free
range lies within one block when the list is merged.

**ComponentManagerProofs.** `FreeListsHold` (`FreeListsExact`), `HandlesHold`
(`HandlesResolve`) and `TrackedHold` (`TrackedResolves`), for any number of threads,
entries and calls. That a free list is exact is put as a rank: each entry that is not
live has a distance to the end of the list, its successor has one less, no two have
the same, and the first has the greatest (`Chain`). Taking the first entry, putting one in front, cutting one
out of the middle and clearing each have a lemma that gives the new rank, and
`addFixed`'s walk ends at the entry before the one it looks for because the rank falls.
For handles the invariant adds that none that is held is ahead of its entry's
generation, and that a current one is abreast of it with the entry in use; for
components the same, and that what the map tracks is in use for that very entity.

**AndroidPipeProofs.** `TypeCorrect`, `AbortComplete` (`OnlyLateOutlive`), `WakesKept`
(`LoadKeepsWakes`) and `StreamsMatched` (`ServicesMatched`), for any finite set of
services. What is pending for an unconnected pipe was queued late, for which every
operation on a pipe being closed must be late (`LateWhileClosing`). `WakesKept` relates
the queue to what services have signalled, a history that does not look at the queue:
the invariant adds that only a pipe with a service is owed anything (`OwedLive`), and
that what was owed at the save is among the flags that the snapshot has
(`SavedWaits`). While the pipes
of a snapshot load, the streams are still those given to the services at the start
(`StreamsStand`). The scans of the code are recursive functions, whose values are
known by looking at the least position at which they would differ.

**ToolProofs.** For `TidyTransaction`, `StepsFollowAnchor` (theorem `Anchored`) says of the
branch that the anchor in a step's trailers lies below it with nothing but steps of
that transaction in between. With what the running command knows of its own
anchor it is inductive; from it `Kept` follows, since abort and squash, the only
steps that shorten the branch, give up what lies above an anchor. `EditsUntouched`
adds that while a fresh run that was not forced is past its start, and was not misled,
the user's part of the staged tree and of every commit from its anchor on is the same
(`EditInv`). `CommitsVerified` (`StepsVerified`) adds what the checks have told of the
tree at each place of the program (`PlaceInv`) and of the tree at HEAD between two
steps (`KnownInv`). A write of an agent keeps these facts at the places that promise
nothing and sets `misled` at those that rely on one. The exceptions are in
the property itself, and section 5 says what the code does in each.

For `Signaling`, `HoldsWhatIsOpen` (`NothingLeftOpen`), `OneAtATime` (`OneProcessor`) and
`SessionsKept` (`OwnSession`), for any number of starts, reconnects and messages. They
follow from one invariant. `Held`: the open socket and the open peer connection are those
of the driver, and the connection belongs to that socket. `StartsOnce`: "start" is the
first that a browser gets of a session and comes once, so no second connection is made
while one is open. `OneCall`: at most one call of `_processSignalQueue` is under way, and
one that awaits does so on the driver's connection; this is why nothing that an await
returns to is of an earlier session, since dropping a connection leaves the calls that await
on it suspended for good (`Stranded`). `Session`: what was sent on a socket names a
connection of that socket, and a remote description that the driver takes for set is. The
proof has a lemma for each way in which the driver lets go of its session, and one per
callback.

Assumptions on constants are those of the modules: sizes and bounds are natural
numbers, at least one where the code divides by them or needs an entry; there are
at least three generations (`GenerationsAssumption`), as two bits give; the sets of threads and
services whose members are counted are finite; `Word` is a multiple of the ring's
size. Where an argument would go by induction, it takes the least natural number
at which the claim fails, as the provers cannot use the induction theorems of the
library.

Only model-checked: all liveness and, with it, `ImplementsFairChannel`, since the
prover does not reason about `ENABLED` and fairness (the safety part of that
refinement is proved). Every invariant and every action property that a run checks is
stated by a theorem.

## 7. Not modelled

* `DmaMap`, the event support, `RecurrentTask` and `ThreadPool` are the next in the
  plan; their hazards are in `PROJECT.json` or, for the last, in its component's note.
  The looper of `RecurrentTask` is not in the repository.
* `CallbackRegistry` and `AndroidAsyncMessagePipe` are declared in headers without
  an implementation in the repository.
* `EventWaiter` is a counter under one lock whose waits re-test their condition;
  the remaining containers, `HostmemIdMapping` and `RefcountPipe` are thin and
  sequential.
* Inside modelled components: a BufferQueue load that fails, the growth of the
  SubAllocator's array, iteration and types of the entity managers, the transfers of
  a pipe's service and pipes with flags, data channels of the driver, HTTP routes of
  the gateway, and of tidy `--status`, upload, Levels 3 and 4 apart from Level 2,
  untracked files, rewritten history, edits of the user while the tool runs and a target
  in another repository than the source directory.
* Most of the repository by size is none of this: sockets, files, streams, paths,
  logging, metrics, the Windows shims and platform threads wrap the operating
  system; hardware settings and feature flags are tables; the container tooling,
  the rest of the developer command line and the resource monitor ask, print and
  draw; protocols and build files are definitions; the CUDA headers are
  third-party; the car samples are user-interface code; and the unit tests are
  where the promises were read. They hold no state over several steps that a
  model of theirs could get wrong.
