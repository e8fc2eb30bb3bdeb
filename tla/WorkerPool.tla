----------------------------- MODULE WorkerPool -----------------------------
(***************************************************************************)
(* The WorkerPool (Runtime.cpp): an injection queue for outside threads, a *)
(* deque per worker with stealing, the sleep protocol, and the stop.       *)
(*                                                                         *)
(* A task is an opaque value; what Execute does is that it ends, and that  *)
(* it may submit tasks on the way (as a finished run of an actor submits   *)
(* the actor again).  Each look at a queue is one step: the queue has its  *)
(* own lock and nothing else is done under it.  _sleepLock is a variable   *)
(* because a worker holds it from its declaration of idleness to the wait. *)
(*                                                                         *)
(* The injection queue is moodycamel's ConcurrentQueue, which keeps the    *)
(* order of one producer and promises no order between producers.          *)
(***************************************************************************)
EXTENDS Integers, Sequences, FiniteSets

CONSTANTS WorkerCount,   \* _workerCount
          Clients,       \* outside threads that submit
          Tasks,         \* the tasks; Requeue says how often each is submitted
          PollInterval,  \* INJECTION_POLL_INTERVAL
          Requeue        \* a task that has begun may be submitted again, without limit

ASSUME WorkerCountAssumption == WorkerCount \in Nat \ {0}
ASSUME PollAssumption == PollInterval \in Nat \ {0}
ASSUME RequeueAssumption == Requeue \in BOOLEAN

Workers == 0 .. WorkerCount - 1
ASSUME ClientsAssumption == Clients \cap Workers = {}

Threads == Workers \cup Clients

\* The places a worker looks for a task: deque w, or the injection queue.
InjectionQueue == WorkerCount
Sources == 0 .. WorkerCount

VARIABLES
  injection,   \* _injection, one FIFO per producer
  local,       \* _local[w]->items; front is the oldest
  sleepLock,   \* _sleepLock is held across steps
  idleCount,   \* _idleCount
  stopping,    \* _stopping
  stopPhase,   \* how far StopAndJoin and DiscardPending have come
  pc,          \* position of each worker in WorkerLoop
  todo,        \* the sources this worker still has to look at
  tick,        \* the local "tick", modulo PollInterval
  task,        \* the local "task", as a set
  submit,      \* position of each thread in Submit
  arg,         \* the argument of each thread's Submit, as a set
  submitted    \* tasks that have been submitted

queueVars  == <<injection, local>>
sleepVars  == <<sleepLock, idleCount>>
stopVars   == <<stopping, stopPhase>>
workerVars == <<pc, todo, tick, task>>
submitVars == <<submit, arg, submitted>>
vars == <<queueVars, sleepVars, stopVars, workerVars, submitVars>>

WorkerPc == {"top", "scan", "lock", "recheck", "leave", "waiting", "signalled",
             "run", "out"}
SubmitPc == {"none", "push", "count", "section", "notify"}
StopPhase == {"running", "notify", "join", "discard", "done"}

Items(q) == {q[i] : i \in 1..Len(q)}

\* Tasks that are in some queue.
Queued == (UNION {Items(injection[c]) : c \in Clients})
            \cup UNION {Items(local[w]) : w \in Workers}

\* Tasks on the way to a queue.
InHand == UNION {arg[t] : t \in Threads}

Init ==
  /\ injection = [c \in Clients |-> << >>]
  /\ local = [w \in Workers |-> << >>]
  /\ sleepLock = FALSE
  /\ idleCount = 0
  /\ stopping = FALSE
  /\ stopPhase = "running"
  /\ pc = [w \in Workers |-> "top"]
  /\ todo = [w \in Workers |-> << >>]
  /\ tick = [w \in Workers |-> 0]
  /\ task = [w \in Workers |-> {}]
  /\ submit = [t \in Threads |-> "none"]
  /\ arg = [t \in Threads |-> {}]
  /\ submitted = {}

-----------------------------------------------------------------------------
(* Submit *)

\* Tasks found by a worker that has yet to withdraw its declaration of idleness.
NotBegun == UNION {task[w] : w \in {v \in Workers : pc[v] = "leave"}}

\* The check of _stopping.  Outside threads submit at any time, a worker while
\* it runs a task.  A task that has begun may be submitted again, by the worker
\* that runs it or by any other thread, also before Execute has returned (an
\* actor is scheduled again once it is IDLE, but never queued twice, nor on its
\* way there twice: SerialExecution of ActorControlBlock).
Submit(t, x) ==
  /\ submit[t] = "none"
  /\ t \in Workers => pc[t] = "run"
  /\ \/ /\ x \notin submitted
        /\ submitted' = submitted \cup {x}
     \/ /\ Requeue
        /\ x \in submitted \ (Queued \cup InHand \cup NotBegun)
        /\ UNCHANGED submitted
  /\ \/ /\ ~stopping
        /\ submit' = [submit EXCEPT ![t] = "push"]
        /\ arg' = [arg EXCEPT ![t] = {x}]
     \/ /\ stopping
        /\ UNCHANGED <<submit, arg>>
  /\ UNCHANGED <<queueVars, sleepVars, stopVars, workerVars>>

\* A worker pushes to the back of its own deque, which may be unable to allocate:
\* push_back throws bad_alloc out of Submit and of the handler that called it.
\* (Out of Execute, which submits the task it runs, it would end the process.)
PushLocal(w) ==
  /\ w \in Workers
  /\ submit[w] = "push"
  /\ \/ /\ \E x \in arg[w] : local' = [local EXCEPT ![w] = Append(@, x)]
        /\ submit' = [submit EXCEPT ![w] = "count"]
     \/ /\ arg[w] \cap task[w] = {}
        /\ submit' = [submit EXCEPT ![w] = "none"]
        /\ UNCHANGED local
  /\ arg' = [arg EXCEPT ![w] = {}]
  /\ UNCHANGED <<injection, sleepVars, stopVars, workerVars, submitted>>

\* Any other thread enqueues to the injection queue, which may be unable to
\* allocate: Submit then returns false.
PushInjection(c) ==
  /\ c \in Clients
  /\ submit[c] = "push"
  /\ \/ /\ \E x \in arg[c] : injection' = [injection EXCEPT ![c] = Append(@, x)]
        /\ submit' = [submit EXCEPT ![c] = "section"]
     \/ /\ submit' = [submit EXCEPT ![c] = "none"]
        /\ UNCHANGED injection
  /\ arg' = [arg EXCEPT ![c] = {}]
  /\ UNCHANGED <<local, sleepVars, stopVars, workerVars, submitted>>

NobodyIdle == idleCount = 0

\* After a local push, nobody idle means nobody to notify.
ReadIdleCount(w) ==
  /\ w \in Workers
  /\ submit[w] = "count"
  /\ submit' = [submit EXCEPT ![w] = IF NobodyIdle THEN "none" ELSE "section"]
  /\ UNCHANGED <<queueVars, sleepVars, stopVars, workerVars, arg, submitted>>

SectionIgnoresLock == TRUE
SectionCanRun == ~sleepLock

\* The empty critical section before the notification.
EmptySection(t) ==
  /\ submit[t] = "section"
  /\ SectionCanRun
  /\ submit' = [submit EXCEPT ![t] = "notify"]
  /\ UNCHANGED <<queueVars, sleepVars, stopVars, workerVars, arg, submitted>>

Waiting == {w \in Workers : pc[w] = "waiting"}

\* notify_one: some waiting worker, if there is one.
NotifyOne(t) ==
  /\ submit[t] = "notify"
  /\ \/ \E w \in Waiting : pc' = [pc EXCEPT ![w] = "signalled"]
     \/ Waiting = {} /\ UNCHANGED pc
  /\ submit' = [submit EXCEPT ![t] = "none"]
  /\ UNCHANGED <<queueVars, sleepVars, stopVars, todo, tick, task, arg, submitted>>

-----------------------------------------------------------------------------
(* WorkerLoop *)

Victims(w) == [o \in 1 .. WorkerCount - 1 |-> (w + o) % WorkerCount]

LocalAlwaysFirst(w) == <<w, InjectionQueue>> \o Victims(w)

\* NextTask: every PollInterval-th turn looks at the injection queue first.
NextTaskOrder(w) ==
  (IF tick[w] = 0 THEN <<InjectionQueue, w>> ELSE <<w, InjectionQueue>>) \o Victims(w)

\* AcquireAnywhere.
AcquireNotStealing(w) == <<w, InjectionQueue>>
AcquireFromDeques(w) == <<w>> \o Victims(w)
AcquireOrder(w) == <<w, InjectionQueue>> \o Victims(w)

NextTick(w) == tick' = [tick EXCEPT ![w] = (@ + 1) % PollInterval]

LoopTop(w) ==
  /\ pc[w] = "top"
  /\ \/ /\ stopping
        /\ pc' = [pc EXCEPT ![w] = "out"]
        /\ UNCHANGED todo
     \/ /\ ~stopping
        /\ pc' = [pc EXCEPT ![w] = "scan"]
        /\ todo' = [todo EXCEPT ![w] = NextTaskOrder(w)]
  /\ UNCHANGED <<queueVars, sleepVars, stopVars, tick, task, submitVars>>

Butlast(q) == SubSeq(q, 1, Len(q) - 1)

\* Task x is what worker w gets from source s: PopLocal takes the newest of its
\* own deque, TrySteal the oldest of another, try_dequeue the oldest of some
\* producer.
TakeFrom(w, s, x) ==
  \/ /\ s = w
     /\ local[w] # << >> /\ x = local[w][Len(local[w])]
     /\ local' = [local EXCEPT ![w] = Butlast(@)]
     /\ UNCHANGED injection
  \/ /\ s \in Workers \ {w}
     /\ local[s] # << >> /\ x = Head(local[s])
     /\ local' = [local EXCEPT ![s] = Tail(@)]
     /\ UNCHANGED injection
  \/ /\ s = InjectionQueue
     /\ \E c \in Clients :
          /\ injection[c] # << >> /\ x = Head(injection[c])
          /\ injection' = [injection EXCEPT ![c] = Tail(@)]
     /\ UNCHANGED local

EmptySource(s) ==
  IF s = InjectionQueue THEN \A c \in Clients : injection[c] = << >>
                   ELSE local[s] = << >>

\* One look of NextTask ("scan") or AcquireAnywhere ("recheck") that finds a task.
Find(w) ==
  /\ pc[w] \in {"scan", "recheck"}
  /\ todo[w] # << >>
  /\ \E x \in Tasks :
       /\ TakeFrom(w, Head(todo[w]), x)
       /\ task' = [task EXCEPT ![w] = {x}]
  /\ todo' = [todo EXCEPT ![w] = << >>]
  /\ pc' = [pc EXCEPT ![w] = IF @ = "scan" THEN "run" ELSE "leave"]
  /\ UNCHANGED <<sleepVars, stopVars, tick, submitVars>>

\* One look that finds nothing.
Miss(w) ==
  /\ pc[w] \in {"scan", "recheck"}
  /\ todo[w] # << >>
  /\ EmptySource(Head(todo[w]))
  /\ todo' = [todo EXCEPT ![w] = Tail(@)]
  /\ UNCHANGED <<queueVars, sleepVars, stopVars, pc, tick, task, submitVars>>

NothingFound(w) ==
  /\ pc[w] = "scan"
  /\ todo[w] = << >>
  /\ pc' = [pc EXCEPT ![w] = "lock"]
  /\ UNCHANGED <<queueVars, sleepVars, stopVars, todo, tick, task, submitVars>>

NoDeclaration == idleCount
Declaration == idleCount + 1
NoWithdrawal == idleCount
Withdrawal == idleCount - 1

\* With _sleepLock taken: stop, or declare idleness and look everywhere again.
EnterSleepRegion(w) ==
  /\ pc[w] = "lock"
  /\ ~sleepLock
  /\ \/ /\ stopping
        /\ pc' = [pc EXCEPT ![w] = "out"]
        /\ UNCHANGED <<sleepVars, todo>>
     \/ /\ ~stopping
        /\ sleepLock' = TRUE
        /\ idleCount' = Declaration
        /\ todo' = [todo EXCEPT ![w] = AcquireOrder(w)]
        /\ pc' = [pc EXCEPT ![w] = "recheck"]
  /\ UNCHANGED <<queueVars, stopVars, tick, task, submitVars>>

\* A task was found: withdraw the declaration, unlock, execute.
LeaveSleepRegion(w) ==
  /\ pc[w] = "leave"
  /\ idleCount' = Withdrawal
  /\ sleepLock' = FALSE
  /\ pc' = [pc EXCEPT ![w] = "run"]
  /\ UNCHANGED <<queueVars, stopVars, todo, tick, task, submitVars>>

\* wait() gives up the lock and waits in one indivisible step.
Wait(w) ==
  /\ pc[w] = "recheck"
  /\ todo[w] = << >>
  /\ sleepLock' = FALSE
  /\ pc' = [pc EXCEPT ![w] = "waiting"]
  /\ UNCHANGED <<queueVars, idleCount, stopVars, todo, tick, task, submitVars>>

\* A condition variable may wake a thread for no reason.
SpuriousWakeup(w) ==
  /\ pc[w] = "waiting"
  /\ pc' = [pc EXCEPT ![w] = "signalled"]
  /\ UNCHANGED <<queueVars, sleepVars, stopVars, todo, tick, task, submitVars>>

\* wait() returns with the lock, which is given up at the end of the turn.
Wake(w) ==
  /\ pc[w] = "signalled"
  /\ ~sleepLock
  /\ idleCount' = idleCount - 1
  /\ pc' = [pc EXCEPT ![w] = "top"]
  /\ NextTick(w)
  /\ UNCHANGED <<queueVars, sleepLock, stopVars, todo, task, submitVars>>

\* Execute returns.
FinishTask(w) ==
  /\ pc[w] = "run"
  /\ submit[w] = "none"
  /\ task' = [task EXCEPT ![w] = {}]
  /\ pc' = [pc EXCEPT ![w] = "top"]
  /\ NextTick(w)
  /\ UNCHANGED <<queueVars, sleepVars, stopVars, todo, submitVars>>

-----------------------------------------------------------------------------
(* StopAndJoin and DiscardPending *)

StopIgnoresLock == TRUE
StopCanBeSet == ~sleepLock

\* _stopping is set under _sleepLock.
SetStopping ==
  /\ stopPhase = "running"
  /\ StopCanBeSet
  /\ stopping' = TRUE
  /\ stopPhase' = "notify"
  /\ UNCHANGED <<queueVars, sleepVars, workerVars, submitVars>>

NotifyAll ==
  /\ stopPhase = "notify"
  /\ pc' = [w \in Workers |-> IF pc[w] = "waiting" THEN "signalled" ELSE pc[w]]
  /\ stopPhase' = "join"
  /\ UNCHANGED <<queueVars, sleepVars, stopping, todo, tick, task, submitVars>>

JoinsSleepersOnly == \A w \in Workers : pc[w] # "waiting"
Joinable == \A w \in Workers : pc[w] = "out"

Join ==
  /\ stopPhase = "join"
  /\ Joinable
  /\ stopPhase' = "discard"
  /\ UNCHANGED <<queueVars, sleepVars, stopping, workerVars, submitVars>>

\* try_dequeue until it fails.
DiscardInjection ==
  /\ stopPhase = "discard"
  /\ \E c \in Clients :
       /\ injection[c] # << >>
       /\ injection' = [injection EXCEPT ![c] = Tail(@)]
  /\ UNCHANGED <<local, sleepVars, stopVars, workerVars, submitVars>>

DiscardLocal ==
  /\ stopPhase = "discard"
  /\ EmptySource(InjectionQueue)
  /\ local' = [w \in Workers |-> << >>]
  /\ stopPhase' = "done"
  /\ UNCHANGED <<injection, sleepVars, stopping, workerVars, submitVars>>

-----------------------------------------------------------------------------
WorkerStep(w) ==
  \/ LoopTop(w) \/ Find(w) \/ Miss(w) \/ NothingFound(w) \/ EnterSleepRegion(w)
  \/ LeaveSleepRegion(w) \/ Wait(w) \/ Wake(w) \/ FinishTask(w)

SubmitStep(t) ==
  \/ PushLocal(t) \/ PushInjection(t) \/ ReadIdleCount(t) \/ EmptySection(t)
  \/ NotifyOne(t)

StopStep ==
  \/ NotifyAll \/ Join \/ DiscardInjection \/ DiscardLocal

Next ==
  \/ \E t \in Threads : SubmitStep(t) \/ \E x \in Tasks : Submit(t, x)
  \/ \E w \in Workers : WorkerStep(w) \/ SpuriousWakeup(w)
  \/ SetStopping
  \/ StopStep

Spec == Init /\ [][Next]_vars

\* The operating system runs every thread that can run, and a Shutdown that began
\* goes on.  Tasks end (handlers must not block): strong fairness, since a task
\* cannot end while it is inside Submit, which it may call any number of times.
\* Mutexes need not be fair: a thread may lose the race for _sleepLock for ever.
Fairness ==
  /\ \A w \in Workers : WF_vars(WorkerStep(w)) /\ SF_vars(FinishTask(w))
  /\ \A t \in Threads : WF_vars(SubmitStep(t))
  /\ WF_vars(StopStep)

FairSpec == Spec /\ Fairness

-----------------------------------------------------------------------------
(* Correctness *)

\* Every variable keeps its type.
TypeOK ==
  /\ injection \in [Clients -> Seq(Tasks)]
  /\ local \in [Workers -> Seq(Tasks)]
  /\ sleepLock \in BOOLEAN
  /\ idleCount \in Nat
  /\ stopping \in BOOLEAN
  /\ stopPhase \in StopPhase
  /\ pc \in [Workers -> WorkerPc]
  /\ todo \in [Workers -> Seq(Sources)]
  /\ tick \in [Workers -> 0 .. PollInterval - 1]
  /\ task \in [Workers -> SUBSET Tasks]
  /\ submit \in [Threads -> SubmitPc]
  /\ arg \in [Threads -> SUBSET Tasks]
  /\ submitted \subseteq Tasks

\* t has pushed a task and will notify.
Notifying(t) == submit[t] \in {"section", "notify"}

\* No wakeup is lost.  The owner of a deque never waits while the deque holds a
\* task, so skipping the notification after a local push cannot strand it; and
\* all workers may be waiting while the injection queue holds a task only for as
\* long as an outside thread is on its way to notify_one.  This is what the second look under
\* _sleepLock is for, and, where there is a single worker, the empty critical
\* section of Submit; the last of several workers to wait looks after the others
\* have begun to, and then a notification meets one of them.
NoLostWakeup ==
  /\ \A w \in Workers : pc[w] \in {"waiting", "signalled"} => local[w] = << >>
  /\ (\A w \in Workers : pc[w] = "waiting") /\ ~EmptySource(InjectionQueue) =>
       \E c \in Clients : Notifying(c)

\* _idleCount counts the workers inside the sleep region, so that a producer
\* that reads 0 knows that nobody is in it.
IdleCountExact ==
  idleCount = Cardinality({w \in Workers :
                             pc[w] \in {"recheck", "leave", "waiting", "signalled"}})

\* w will look for a task before it waits.
Seeking(w) ==
  \/ pc[w] \in {"top", "scan", "lock", "signalled"}
  \/ pc[w] = "recheck" /\ \E i \in 1..Len(todo[w]) : ~EmptySource(todo[w][i])

\* As long as some worker waits, there is for every queued task a worker that
\* is about to look or a thread that is about to notify: skipping the
\* notification when _idleCount is 0 leaves no worker idle beside queued work.
WaitersAreCalled ==
  Waiting # {} /\ ~stopping =>
    Cardinality(Queued) <=
      Cardinality({w \in Workers : Seeking(w)})
        + Cardinality({t \in Threads : Notifying(t) \/ submit[t] = "count"})

\* The pool implements its promise: each task taken is started once by one
\* worker, or dropped after the workers have left, and none is started then.
Promise == INSTANCE TaskPool WITH
  pending <- Queued,
  running <- task,
  joined  <- stopPhase \in {"discard", "done"}
ImplementsTaskPool == Promise!Spec

\* A thread of S submits a task that was submitted before.
Resubmission(S) == \E t \in S, x \in submitted : Submit(t, x)

\* Unless tasks are submitted again for ever, every queued task leaves the
\* queues: it is executed, or dropped by a stop that came before the task was
\* pushed or found.  The condition is needed: a worker takes its newest task
\* first, so that one that comes back for ever hides the older ones in the deque
\* (PopLocal; design/actor-runtime.md, section 11, promises no fairness).
TasksLeaveQueues ==
  \/ []<><<Resubmission(Threads)>>_vars
  \/ \A x \in Tasks : x \in Queued ~> x \notin Queued \/ stopPhase = "done"

\* A task of an outside thread is not put off for ever by tasks that come back
\* to the workers' deques for ever; it may be by outside threads that supply the
\* injection queue for ever, which has no order between producers (NextTask).
InjectionIsServed ==
  \/ []<><<Resubmission(Clients)>>_vars
  \/ \A c \in Clients, x \in Tasks :
       x \in Items(injection[c]) ~> x \notin Items(injection[c]) \/ stopPhase = "done"

\* A stop gets every worker out of its loop, out of the wait as well as away from
\* work that threads supply without end (WorkerLoop, StopAndJoin).
StopReturns == stopping ~> stopPhase = "done"
=============================================================================
