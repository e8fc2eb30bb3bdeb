# A verification development for myUtils

myUtils is a C++ library with two parts: an actor runtime (actors with mailboxes on a
work-stealing thread pool, `src/src/Actors.cpp`, `src/src/Runtime.cpp`) and a send-buffer
allocator (`src/src/SendBuffer.cpp`). Both rest on hand-made protocols between threads:
compare-and-exchange loops, an idle count, empty critical sections, reference counts, a
shutdown whose order of steps is a contract. This directory models those protocols in
TLA+, checks them with TLC on small instances and proves the most important facts with
the TLA+ proof system for every number of threads, actors and messages.

The reference is the code. Where a comment or a design document says something that the
code does not do, the difference is a finding (below).

## The system

| Component | State | Operations | Interacts with |
|---|---|---|---|
| **ActorControlBlock** (Actors.cpp) | `_state` (atomic, five values), `_mailbox` under `_mailboxLock`, `_finalizeStarted`, `_actor` | `Send`, `Stop`, `Execute`, `TrySchedule`, `Finalize` | submits itself to the pool, is executed by it; unregisters from the registry; runs user code (`Handle`, destructors) that calls back |
| **WorkerPool** (Runtime.cpp) | injection queue, one deque per worker, `_sleepLock`, `_idleCount`, `_stopping` | `Submit`, `WorkerLoop`, `StopAndJoin`, `DiscardPending` | executes tasks; called by `TrySchedule` and `Shutdown` |
| **ActorRegistry** (Actors.cpp) | `_registry`, `_accepting` under `_lock` | `TryRegister`, `Unregister`, `CloseGate`, `FinalizeAll` | holds every control block until its `Finalize` |
| **RuntimeBody** (Runtime.cpp) | `_shutdownStarted`, the pool, the registry; a function-local static | start on first use, `Shutdown`, destruction at the end of the process | drives pool and registry in order |
| **Send buffers** (SendBuffer.cpp) | per chunk `_offset` and a reference count; per thread a current chunk; a pool of idle chunks with a limit | `Reserve`, `Commit`, destructors, `SendView` copies, `ReleaseCurrentChunk`, `SetPoolIdleLimit` | none of the above |
| **Statistics** (Runtime.cpp, SendBuffer.cpp) | a thread-local block per thread, a registry of them and a retired sum under a lock, all statics | counters, `SnapshotStats` | every component counts |
| **Configuration** (Runtime.cpp) | `GDesiredWorkerCount`, `GStarted` | `SetWorkerCount`, `WorkerCount` | read when the runtime starts |

What makes each of them hard, and what makes it correct:

* **ActorControlBlock.** Senders, stoppers, a worker and the shutdown meet at one atomic
  word without a common lock. Correct means: one executor at a time; no message asleep in
  an idle actor; nothing handled after `Stop`; every stopped actor cleaned up, once, when
  nobody runs it; no way back from `STOPPING`.
* **WorkerPool.** A producer must not miss a worker that is about to sleep, and may skip
  the notification when it reads an idle count of zero. Correct means: no queued task
  beside sleeping workers only; every task executed once or dropped after the workers
  have left; outside work is not starved by local work; a queued task is put off for ever
  only if tasks are submitted again for ever (section 11 of design/actor-runtime.md accepts
  that); a stop always ends.
* **ActorRegistry and RuntimeBody.** `Spawn`, `Send`, `Stop` and a second `Shutdown` run
  while the shutdown takes the runtime apart. Correct means: no actor escapes it, and
  what it leaves behind is closed.
* **Statistics, configuration and the life of the process.** Counters are read while they
  are written, blocks come and go with their threads, and what a worker uses must be
  destroyed after the worker has ended, although C++ destroys statics in an order that
  depends on who used them first. Correct means: no count is lost or added twice, a setting
  that is accepted is used, nothing is used after its destruction, and the process ends.
* **Send buffers.** `_offset` is neither atomic nor locked; it is safe only because of who
  holds which reference. Correct means: no byte is handed out twice, the offset has one
  owner at a time, and no chunk is lost or in the pool while in use.

PROJECT.json lists the hazards of the code line by line under "hazards", with the
properties that cover each.

## Modules

| Module | Role |
|---|---|
| `Actor` | what an actor promises: messages handled one at a time and in order while it is open, none after it is closed, leftovers discarded, the object destroyed once |
| `ActorControlBlock` | one control block under any number of threads; implements `Actor` |
| `ActorControlBlock_proofs` | its inductive invariant and the theorems |
| `ActorShutdown` | extends `ActorControlBlock` with the frame of `RuntimeBody::Shutdown` and `FinalizeAll`, run by any client |
| `ActorShutdown_proofs` | the invariant of the control block carried through `Shutdown`, and the theorems |
| `ActorRegistry` | `Spawn` and the registry with several actors against the shutdown |
| `ActorRegistry_proofs` | its inductive invariant and the theorems |
| `TaskPool` | what the pool promises: a task taken is started once by one worker, or dropped after all have left |
| `WorkerPool` | injection queue, deques, sleep protocol, stop; implements `TaskPool` |
| `WorkerPool_proofs` | its inductive invariant, the theorems and the refinement of `TaskPool` |
| `ThreadStats` | blocks of counters, their registry, retirement and snapshots |
| `RuntimeLifetime` | extends `ThreadStats`: configuration, start of the body, end of threads, Shutdown, destruction of the statics |
| `RuntimeLifetime_proofs` | the inductive invariants of both and the theorems |
| `SendBuffer` | chunks, managers, reservations, views and the chunk pool |
| `SendBuffer_proofs` | its inductive invariant and the theorems |
| `MC...` | the instances that TLC checks |

### How state and actions correspond to the code

A variable has the name of the member it stands for, without the underscore, and a
comment names that member. Positions of threads inside functions are variables of their
own. An action is what the code does between two points at which another thread can
interfere: an access to an atomic, a critical section, a read or a write of shared
memory. A critical section is one step if nothing in it can be seen from outside the
lock before its end, and otherwise several with the lock held (`locked`, `sleepLock`).

**ActorControlBlock.** A thread has an `Execute` frame (`exec`) and above it a leaf call
(`call`), since a handler may `Send` to and `Stop` its own actor. `Send` is `Send` (the
gate, under the lock), `SendPush`, then `TrySchedule`, `SubmitCheck`, `SubmitEnqueue` or
`AbortSchedule`. `Stop` is the load before the lock, the lock and the turns of its
exchange loop (`CallStop`, `StopLock`, `StopCas`). `Execute` is `ExecuteBegin`, `Pop` and
`PopFront` for each message, `HandleReturns` or `HandleThrows`, `ExecuteEnd`, `Recheck`.
`Finalize` is `FinalizeGate` to `FinalizeDead`. The pool is reduced to the number of queue
entries that refer to the actor. A handler of another actor is a client. The operations
that the destructors of messages and of the user's object may call are not nested in
`FinalizeDestroy`: at that point the actor is closed, so they are refused like any other
client's, and clients call at every moment.

**WorkerPool.** Each look at a queue is a step (`Find`, `Miss`) along the list of sources
that the code visits (`NextTaskOrder`, `AcquireOrder`). Waiting on the condition variable
is `Wait`, which gives up the lock indivisibly, a notification picks any waiter, and
`SpuriousWakeup` wakes one for no reason. `tick` is kept modulo the poll interval. A task
is opaque. With `Requeue` any thread may submit a task again once it has begun, a worker also
the one it runs, but never a task that is queued or on its way into or out of a queue
(`InHand`, `NotBegun`): the control block's token sees to that. So work may be supplied
without end, from inside and from outside.

**ActorShutdown.** Steps of `Shutdown` lie below the leaf calls, so that `FinalizeAll`
uses the very actions `StopLoad` ... `FinalizeDead` of `ActorControlBlock`.

**ActorRegistry.** Keeps of each control block only what the registry sees.

**ThreadStats** keeps sums apart by the thread that counted, so that a snapshot can be
compared with what each thread had counted. One counter stands for all; it is read and
written whole, which an aligned 64-bit word is on the supported platforms, although the
language calls the unsynchronized read a race.

**RuntimeLifetime.** `built` is the sequence of the statics that exist: `"stats"` (those of
Runtime.cpp), `"body"` (the RuntimeBody) and `"buffers"` (those of SendBuffer.cpp). A use
builds a static that does not exist (`Touch`); the exit destroys the last one first
(`DestroyStatic`), and for the body runs its destructor and those of its members.
`SetWorkerCount` is two steps, and so is `StartWorkerCount` (`ReadWorkerCount`,
`RaiseStarted`). A start by a second thread waits for the first, as at any function-local
static (`Instance` is not enabled meanwhile). `StartFails` is the exception of a
std::thread that cannot be created; `Unwind` is the destructor of the pool behind it. A
handler that calls `Shutdown` gets as far as the join of its own thread and is left by the
exception (`Join`). A thread's end folds its block into the sum (`EndThread`).
`misuse` records what is used after its destruction. What a handler does is reduced to
counting, using send buffers and calling `Shutdown`; `FinalizeAll` is only what it
counts, since ActorShutdown and ActorRegistry model the rest.

**SendBuffer.** An offset is read in one step and written in a later one (`Reserve` and
`Bump`, `CloseBuffer` and `Rewind`), which is how a data race would show. Dropping a
reference is one step; whoever drops the last one goes on to `Return` and `Enqueue`, also
inside `Reserve` (`Install`). A `SendBuffer` or `SendView` is a slot; any thread may
commit, copy or destroy it. Moving an object changes nothing but the slot's name, and a
move assignment first closes its target (`CloseBuffer`).

## Runs

| Run | Instance | What it shows |
|---|---|---|
| `actor` | 2 workers, 2 clients, 2 messages, budget 2, 2 Stops, pool may stop | all safety of the control block, `ImplementsActor`; and, if the pool takes the actor's entries and does not stop, that messages leave the mailbox and stopped actors become DEAD |
| `pool_safety` | 3 workers, 1 client, 3 tasks | no lost wakeup, the idle count, who is called, `ImplementsTaskPool`; a worker's deque may be unable to allocate |
| `pool_live` | 2 workers, 1 client, 2 tasks that any thread may submit again without end, poll interval 2 | queued tasks leave the queues unless tasks are submitted again for ever; stops return in any case |
| `pool_poll` | 1 worker, 2 clients, 3 tasks that any thread may submit again without end, poll interval 3 | unless clients supply it for ever, the injection queue is served, by the periodic look at it and, with a single worker, by the empty critical section |
| `shutdown` | 2 workers, 2 clients, 2 messages, 2 Stops, submissions that are refused or throw | what `Shutdown` guarantees on return, with the actor's promise intact |
| `shutdown_dead` | 1 worker, 2 clients | finding 1 |
| `registry` | 3 actors | nobody escapes the shutdown, and the shutdown ends |
| `sendbuffer` | 2 threads, 3 chunks of 2 bytes, 3 buffers or views, sizes 1 to 3, limits 0 and 1 | disjoint reservations, one owner per offset, no chunk lost, bounded overrun of the idle limit |
| `lifetime` | the main thread, one other, up to 2 workers, 1 count each, failing starts, handlers that shut down | snapshots are exact up to what is counted meanwhile, the statistics outlive the workers, no half-started runtime, the process ends |
| `lifetime_setting` | 2 clients, up to 2 workers | finding 2 |
| `lifetime_buffers` | the main thread, 1 worker | finding 3 |
| `lifetime_handler` | the main thread, 1 worker | finding 4 |

### Bounds, and why they suffice

* Two workers and two clients give every pair of roles that meets at a control block:
  two senders, sender and stopper, worker and stopper, worker and worker. Two messages
  and a budget of 2 give a batch that ends by an empty mailbox, by the budget, by a Stop
  and by an exception, each with mail left or not. With two Stops, one runs against the
  other and against the one of `HandleThrows`. The theorems remove these bounds.
* Three workers let one steal while another sleeps and a third declares itself idle; the
  idle count distinguishes 0, 1 and more. The poll interval of the code is 61; what
  matters is that it is larger than 1 (`pool_poll`) or that both orders of the first two
  looks occur (`pool_live`).
* `pool_live` and `pool_poll` let tasks come back without end (`Requeue`); `pool_safety`, with
  three workers, submits each task once. The theorems hold with `Requeue` and without it.
* In `shutdown` a second worker allows for one that has left its loop while another is
  inside Execute; two clients are needed, so that one can be inside `Stop` or `Send` while the
  other shuts down.
* Chunks of two bytes with reservations of one and two give a chunk that is full, one
  with room for the smaller request only, and a commit that keeps a part; size 3 is above
  the threshold. Three chunks and two threads leave one chunk to be idle or in transit.
* In `lifetime` two workers allow for one that runs when the second cannot be started, and
  for one that is never joined because the join of the other threw. Which clients take
  snapshots (`Readers`) and which threads use send buffers (`BufferUsers`) are bounds too; a
  snapshot of a worker would take the same steps. One count per thread is enough to be lost
  or added twice.
* `Room`, in SendBuffer, is a bound of the model: a reservation starts only if a slot is
  free for its result.
* Runs with `CHECK_DEADLOCK FALSE` are of systems that come to rest: all messages sent,
  all tasks done, the runtime shut down.
* Symmetry is used in `pool_safety` (tasks, clients) and `sendbuffer` (threads, chunks,
  slots), which check no liveness.

### Fairness

* A thread inside a call takes its next step (weak fairness per thread): the operating
  system schedules every thread.
* Handlers return: the documents require that they do not block. In `WorkerPool` this is
  strong fairness of `FinishTask`, because a task that calls Submit again and again is
  between two calls only now and then.
* Mutexes are not assumed fair. No property needs it: the sleep lock is weakly fair only,
  and a thread may lose the race for it for ever.
* That the pool takes an actor's entry is **not** assumed. A worker takes the newest task of
  its deque first, and section 11 of design/actor-runtime.md says that beside an actor that
  sends to itself for ever an older one may never run. So the liveness properties of the
  control block name the condition (`EntryIsTaken`), and `TasksLeaveQueues` says what the
  pool does for it: the entry is taken unless tasks are submitted again for ever
  (`Resubmission`). `InjectionIsServed` needs less, since it concerns the queue that workers
  look at periodically: only clients that supply that queue for ever, whose order between
  producers is not specified, can put a client's task off.
* In `lifetime` a worker gets to look at `_stopping`: handlers return.
* Users' calls, `Shutdown`'s start and spurious wakeups are under no fairness.

## What is proved

`ActorControlBlock_proofs` proves, with no bound on threads, messages, Stops or the
budget and with `EnqueueMayFail` and `PoolMayStop` arbitrary:

* `TypeCorrect`, `SerialExecutionHolds`, `NoLostWakeupHolds`, `StopIsCleanedUpHolds`,
  `HandlerHasActorHolds`, `FinalizeOnceHolds`, `DeadIsCleanHolds`, `NeverReopensHolds`;
* `Implementation`: `Spec => ImplementsActor`, the refinement of `Actor`.

The properties are not inductive by themselves. The invariant `IInv` is the conjunction of

1. `TypeOK`;
2. `FrameInv`: which leaf call may lie above which Execute frame, and which message is in
   hand;
3. `LockInv`: who holds the mailbox lock, that one thread does, and what the lock holder
   knows of the state it has read (a gate that was passed stays passed until the push,
   because Stop needs the lock; a batch that saw RUNNING pops before a Stop);
4. `TokenInv`: the right to run the actor is a single token, in the queue, with a
   submitter, with the thread that dequeued it or with the drain loop, and what the state
   word says about it;
5. `FinalizeInv`: Finalize is reached only when the token is gone for good, and how far it
   has come is visible in `actorAlive`, `registered` and the mailbox;
6. `ProgressInv`: who is responsible for mail in an idle actor, for a submission and for a
   stopped actor.

Each part is shown to be preserved by every action, in that order, using the earlier ones
(`TypeStep` ... `ProgressStep`); the theorems follow from `Invariance`. `RunBoundary` is the
lemma that ties Execute's two exchanges to the token. An observation that came out of the
proof: for the control block alone the once gate of `Finalize` is redundant, because only
the holder of the token, or a Stop that found IDLE, gets there. It is needed for
`FinalizeAll`, so `FinalizeOnce` is checked in `shutdown` and proved there.

`ActorShutdown_proofs` proves the same actor under `Shutdown` by any client: `ShutTypeCorrect`,
`ShutdownClosesHolds`, `DeadOrBeingFinalizedHolds`, `ShutFinalizeOnceHolds`, and
`ShutImplementation`, that the promise `Actor` also holds during and after the shutdown. The
invariant `IInv` above, which says that whoever reaches Finalize has consumed the right to run,
carries over as it is: `FinalizeAll` comes to Finalize without that right, but its Stop has
closed the actor and the join has left nobody who runs (`IInvKept`). For this the proof needs

1. `ShutFrameInv`: one thread is inside Shutdown, makes no other call there before it calls
   Stop for the actor, and nobody begins a second Shutdown after it has returned;
2. `WorkersInv`: only a worker that has not left its loop is inside Execute, so past the join
   nobody is;
3. `OutcomeInv`: the state that a Stop has read stays closed once it was; the registry loses the
   actor only to a Finalize that began; at its own Finalize, FinalizeAll has a closed actor;
   afterwards somebody has passed the once gate; and the thread that has returned cleans
   nothing up any more. The last conjunct is what makes `DeadOrBeingFinalized` name *another*
   thread.

A step of the control block moves one thread and takes back no flag (`ActorStepFrame`,
`ActorStepWorkers`, `LeafStep`).

`WorkerPool_proofs` proves, for any numbers of workers, clients and tasks and any poll interval:
`TypeCorrect`, `IdleCountExactHolds`, `NoLostWakeupHolds`, `WaitersAreCalledHolds`, and
`Implementation`: `Spec => ImplementsTaskPool`. The invariant `IInv` is

1. `BaseInv`: `TypeOK`; `RegionInv` (`IdleCountExact`, and one worker at most holds the sleep
   lock across steps); `SubmitInv` (a worker submits only from a task, only workers skip the
   notification); `PhaseInv` (a worker has a task exactly while it runs it or leaves the sleep
   region with it, and all workers are out before the queues are discarded);
2. `LookInv`: `NoLostWakeup`, and what a worker in its last search before the wait has seen: a
   deque of its own that it has passed is empty, since nobody else pushes into it, and behind
   an injection queue that it has passed and that holds a task there is a client that has yet
   to go through the empty critical section, since the worker holds the lock;
3. `QueueInv` and `TakenInv`: a task is in one queue, once, is not in a producer's hand at the
   same time, and whatever runs has been submitted;
4. `CallInv`: `WaitersAreCalled`, that the sets it counts are finite, and `PassedInv`: the
   sources that such a worker has passed hold no more tasks than there are producers that
   have yet to read the idle count or to enter the section. Whoever filled one of them cannot
   have read an idle count of zero, because the worker declared itself idle before it looked,
   nor be through the section. This is the argument for skipping the notification at zero.

Numbers are compared by lemmas on finite sets of which a step adds or removes one element.
The lemmas on sequences say what taking the first or the last task leaves in a queue, and that
`AcquireOrder` visits every source. `Implementation` follows from `QueueInv`.

`ActorRegistry_proofs` proves for any set of actors that no actor escapes the shutdown
(`NobodyEscapesHolds`) and that the registry drops only closed actors
(`DropsOnlyClosedHolds`). The invariant says that the gate is closed from the end of
`CloseGate`, that a Spawn holding the lock has seen it open and so precedes it, that a
closed gate leaves the registry to shrink, and that the open actors are exactly in the
registry and, during the loop, still in the snapshot.

`SendBuffer_proofs` proves, for any numbers of threads, chunks and slots and any sizes
that satisfy the static_assert: `TypeCorrect`, `ReservationsDisjointHolds`,
`WithinOffsetHolds`, `OneOwnerHolds`, `ChunksAccountedForHolds` and `OffsetIsOwnedHolds`.
None of these is inductive alone. The invariant `IInv` is

1. `TypeOK`;
2. `ThreadInv`: at each position a thread has at most one chunk in transit and at most one
   SendBuffer that it closes, and no two threads close the same one;
3. `PlaceInv`: `OneOwner` and `ChunksAccountedFor`, with dedicated chunks kept apart;
4. `OwnerInv`: what a thread has read of its current chunk's offset is still true when it
   writes it (nobody else can write it, by 3), and a reservation fits;
5. `RegionInv`: `ReservationsDisjoint`, and reserved bytes are below the offset. The
   exception is the moment between a rewind and the shortening of the slot it was for
   (`Rewound`); only the chunk's owner can be there, and it reserves nothing meanwhile.

`OwnersBytes` is the lemma on which both writers of an offset, Bump and Rewind, rest: the
owner finds all bytes of its chunk below the offset.

`IdleOvershootBoundedHolds` needs one more invariant, `OvershootInv`, and that there are
finitely many threads (`ThreadsAssumption`): the idle chunks and the threads between the test
of the limit and the push (`Enqueuing`) are together fewer than the sum of the largest limit
and the number of threads, because a thread passes the test only below the limit.

`RuntimeLifetime_proofs` proves, for any numbers of threads, workers and counts, any value
of the setting and of the hardware's answer, and whether or not starts may fail and handlers
shut down: `TypeCorrect`, `SnapshotBoundsHolds`, `StatsOutliveWorkersHolds` and
`NoHalfStartHolds`. There are two invariants. `IInv`, about the statistics:

1. `BlocksInv`: what a thread has counted is its share of the retired sum plus its block,
   which is empty unless live, and the registry is the set of live blocks;
2. `ReadingInv`: while a snapshot holds the lock nobody registers or retires, so of a block
   it has still to visit it has only the retired share, and of the others a value between
   what was counted when it began and what is counted by now;
3. `EndedInv`: a worker that does not run has no live block.

`LifeInv`, about the process, uses the first:

1. `LifeTypeOK`;
2. `PlaceInv`: the exit begins when the user's other threads have ended, one thread builds
   the body, and nothing is destroyed before the exit;
3. `OrderInv`: each static is in `built` once, `"body"` after `"stats"`. This is what
   TouchStatsGlobals is for; destruction takes the last one (`DestroysLast`), so the body
   never goes after the statistics;
4. `WorkersInv`: workers run only while the body is under construction, exists or is being
   destroyed, and the statistics exist then;
5. `GoneInv`: destroyed statistics leave nobody who could use them.

`BuildsLast`, `Touches`, `UseKeeps` and `DestroysLast` say what the steps on `built` keep.

Only model-checked: the liveness properties (`MessagesLeave`, `StopCompletes`,
`TasksLeaveQueues`, `StopReturns`, `InjectionIsServed`, `ShutdownReturns`, `ShutdownEnds`,
`ExitEnds`), since liveness under fairness is out of the prover's reach. Every invariant, every
action property and every refinement that a passing run checks is also a theorem. The proofs
rest on the named assumptions about the constants in the modules and on nothing else.

## Findings

1. **Shutdown may return before an actor is DEAD** (`shutdown_dead`). A Stop that found
   the actor IDLE and is inside Finalize makes both calls of `FinalizeAll` return at once.
   LT2 of design/actor-runtime.md says that the shutdown makes every control block DEAD
   before it returns. What does hold is `DeadOrBeingFinalized` and `ShutdownCloses`: sends
   are refused in any case.
2. **A setting can be ignored in silence** (`lifetime_setting`). A `SetWorkerCount` that
   overlaps the start of the runtime passes its assertion and stores too late; afterwards
   `WorkerCount()` reports a number of workers that is not in use. Runtime.h calls the
   silent loss of a setting the worst outcome.
3. **The send buffers' statics may be destroyed under a worker** (`lifetime_buffers`). The
   constructor of the body touches the statistics of Runtime.cpp, so that they outlive the
   workers (`StatsOutliveWorkers`), but not the statics of SendBuffer.cpp. When a handler is
   the first to use a send buffer and main() returns without a Shutdown, they are destroyed
   before the workers are joined, against the rule in design/threading.md.
4. **Members are destroyed under running workers after a Shutdown by a handler**
   (`lifetime_handler`). The join of the handler's own thread throws; `~RuntimeBody` then
   finds the shutdown started, and destroys the registry before `~WorkerPool` has joined
   anybody. RuntimeInternal.h says that Shutdown joins the workers before members are
   destroyed. What does hold is that the process still ends (`ExitEnds`).

Three smaller observations from the reading, which no run states: a second caller of
Shutdown returns at once while the first still waits (Runtime.cpp:432); Submit's false also
means that the injection queue could not allocate (Runtime.cpp:245), and the accepted
message then waits in an IDLE actor for the next Send, Stop or Shutdown, which the contract
of Send allows (design/actor-runtime.md:427); threads that return chunks at the same time can
exceed the pool's idle limit, by less than their number (`IdleOvershootBounded`).

## What is not modelled

* Memory order weaker than sequential consistency: the state word, the idle count and the
  flags use the default order, and `_offset` is shown to have one owner; `relaxed` is used
  only for counters and for the idle limit.
* Assertions (they appear as guards and
  invariants), the contents of messages and buffers, invalid arguments that return at once
  (a null message, a reservation of size 0).
* At the end of the process: ActorRefs of the program that outlive the body, exit() called
  by a handler, threads of the user that outlive main(), and two threads that join the same
  worker at once (a handler's Shutdown that is still joining and `~WorkerPool`).
* A `SetWorkerCount` after the start: it ends the process, and the model offers no such
  step. After a failed start this is so too, although nothing runs.
* `bad_alloc` other than from the queues and deques: the mailbox, the chunks, the vectors.
* The counters of SendBuffer.cpp: their classes repeat those of Runtime.cpp.
* moodycamel's queue is external and modelled by what the code uses of it. A look that finds
  nothing (`Miss`) sees the queues of all producers empty at one moment; the library visits
  one after the other.

## Plan

In order of importance; the first nine are done.

1. `ActorControlBlock` with `Actor`, and its proofs.
2. `WorkerPool` with `TaskPool`.
3. `ActorShutdown` and `ActorRegistry` with its proofs.
4. `SendBuffer`.
5. `SendBuffer_proofs`.
6. `ThreadStats` and `RuntimeLifetime`.
7. `RuntimeLifetime_proofs`.
8. `WorkerPool_proofs`.
9. `ActorShutdown_proofs`.
10. Left: `Runtime`: several actors that send to each other on one pool, composing
   `ActorControlBlock` and `WorkerPool`.
