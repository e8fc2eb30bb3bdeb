------------------------- MODULE ActorControlBlock -------------------------
(***************************************************************************)
(* One ActorControlBlock (Actors.cpp) under any number of worker and       *)
(* client threads.                                                         *)
(*                                                                         *)
(* A thread runs at most two nested frames on the control block: an        *)
(* Execute frame, whose position is exec[t], and above it a leaf call      *)
(* (Send, Stop, TrySchedule, Finalize), whose position is call[t].  A      *)
(* handler may Send to or Stop its own actor, so the leaf call also occurs *)
(* inside "handle".  The calls Execute makes last (Finalize, TrySchedule)  *)
(* are tail calls: exec[t] is already "out" while they run.                *)
(*                                                                         *)
(* Each access to the atomic state word is a step of its own, also inside  *)
(* the critical sections of the mailbox lock: Send reads the state and     *)
(* then pushes, Execute reads it and then pops, Stop loops over a compare  *)
(* and exchange.  A critical section that reads or writes the mailbox and  *)
(* nothing else is one step that needs the lock free.                      *)
(*                                                                         *)
(* The worker pool appears only as what the control block can tell of it:  *)
(* how many queue entries refer to this actor, whether Submit refuses, and *)
(* which workers have left their loop.  WorkerPool models it in full.      *)
(***************************************************************************)
EXTENDS Naturals, Sequences

CONSTANTS Workers,         \* the pool's threads
          Clients,         \* the threads that hold an ActorRef
          Messages,        \* the message objects; each is sent at most once
          Budget,          \* DEFAULT_MESSAGE_BUDGET
          MaxStops,        \* bound: how often Stop is called by users
          EnqueueMayFail,  \* the pool's queues may fail to allocate
          PoolMayStop      \* Shutdown may run during the behaviour

Threads == Workers \cup Clients

\* The code's actor.Stop() has no limit and its budget is 32.
ASSUME BoundsAssumption == Budget \in Nat \ {0} /\ MaxStops \in Nat
ASSUME FlagsAssumption == EnqueueMayFail \in BOOLEAN /\ PoolMayStop \in BOOLEAN

VARIABLES
  state,            \* _state
  mailbox,          \* _mailbox
  locked,           \* _mailboxLock is held across steps
  finalizeStarted,  \* _finalizeStarted
  actorAlive,       \* _actor is not null
  registered,       \* the registry holds this control block
  queued,           \* pool queue entries that refer to this control block
  stopping,         \* WorkerPool::_stopping
  exited,           \* workers that have left WorkerLoop
  exec,             \* position of each thread's Execute frame
  call,             \* position of each thread's leaf call
  prev,             \* the local "prev" of each thread's Stop
  processed,        \* the local "processed" of each thread's Execute
  message,          \* the message each thread's Send is about to push, as a set
  sent,             \* messages that have been passed to Send
  stops             \* Stop calls made by users so far

poolVars   == <<queued, stopping, exited>>
cbVars     == <<state, mailbox, locked, finalizeStarted, actorAlive, registered>>
frameVars  == <<exec, call, prev, processed, message>>
envVars    == <<sent, stops>>
vars == <<cbVars, poolVars, frameVars, envVars>>

ActorState == {"IDLE", "SCHEDULED", "RUNNING", "STOPPING", "DEAD"}
Closed == {"STOPPING", "DEAD"}

ExecPc == {"out", "begin", "pop", "popFront", "handle", "toIdle", "recheck"}
CallPc == {"none", "sendPush", "trySchedule", "submit", "enqueue", "abort",
           "stopLock", "stopCas",
           "finGate", "finSwap", "finDestroy", "finUnregister", "finDead"}

Init ==
  /\ state = "IDLE"
  /\ mailbox = << >>
  /\ locked = FALSE
  /\ finalizeStarted = FALSE
  /\ actorAlive = TRUE
  /\ registered = TRUE
  /\ queued = 0
  /\ stopping = FALSE
  /\ exited = {}
  /\ exec = [t \in Threads |-> "out"]
  /\ call = [t \in Threads |-> "none"]
  /\ prev = [t \in Threads |-> "IDLE"]
  /\ processed = [t \in Threads |-> 0]
  /\ message = [t \in Threads |-> {}]
  /\ sent = {}
  /\ stops = 0

GoExec(t, pc) == exec' = [exec EXCEPT ![t] = pc]
GoCall(t, pc) == call' = [call EXCEPT ![t] = pc]

\* User code runs on t: a client between calls, or the actor's own handler.
InUserCode(t) ==
  /\ call[t] = "none"
  /\ exec[t] = "handle" \/ (t \in Clients /\ exec[t] = "out")

-----------------------------------------------------------------------------
(* Send and TrySchedule *)

\* What the acceptance gate asks of the state.
AcceptsUntilDead == state # "DEAD"
Accepts == state \notin Closed

\* The acceptance gate, first half: the state, under the lock.  A rejected
\* message is destroyed.
Send(t, m) ==
  /\ InUserCode(t)
  /\ ~locked
  /\ m \in Messages \ sent
  /\ sent' = sent \cup {m}
  /\ \/ /\ Accepts
        /\ locked' = TRUE
        /\ message' = [message EXCEPT ![t] = {m}]
        /\ GoCall(t, "sendPush")
     \/ /\ ~Accepts
        /\ UNCHANGED <<locked, message, call>>
  /\ UNCHANGED <<state, mailbox, finalizeStarted, actorAlive, registered,
                 poolVars, exec, prev, processed, stops>>

\* The acceptance gate, second half: push_back, then the lock is released.
SendPush(t) ==
  /\ call[t] = "sendPush"
  /\ \E m \in message[t] : mailbox' = Append(mailbox, m)
  /\ message' = [message EXCEPT ![t] = {}]
  /\ locked' = FALSE
  /\ GoCall(t, "trySchedule")
  /\ UNCHANGED <<state, finalizeStarted, actorAlive, registered,
                 poolVars, exec, prev, processed, envVars>>

ScheduleByStore == state \notin Closed
ScheduleWins == state = "IDLE"

\* compare_exchange IDLE -> SCHEDULED; only the winner goes on to submit.
TrySchedule(t) ==
  /\ call[t] = "trySchedule"
  /\ \/ /\ ScheduleWins
        /\ state' = "SCHEDULED"
        /\ GoCall(t, "submit")
     \/ /\ ~ScheduleWins
        /\ GoCall(t, "none")
        /\ UNCHANGED state
  /\ UNCHANGED <<mailbox, locked, finalizeStarted, actorAlive, registered,
                 poolVars, exec, prev, processed, message, envVars>>

\* WorkerPool::Submit looks at _stopping before it touches a queue.
SubmitCheck(t) ==
  /\ call[t] = "submit"
  /\ GoCall(t, IF stopping THEN "abort" ELSE "enqueue")
  /\ UNCHANGED <<cbVars, poolVars, exec, prev, processed, message, envVars>>

\* The queue takes the entry, or the injection queue has no memory for it, or
\* push_back of the local deque throws out of TrySchedule and Send (a client may
\* be a worker that runs another actor's handler): nothing is rolled back.
SubmitEnqueue(t) ==
  /\ call[t] = "enqueue"
  /\ \/ /\ queued' = queued + 1
        /\ GoCall(t, "none")
     \/ /\ EnqueueMayFail
        /\ GoCall(t, "abort")
        /\ UNCHANGED queued
     \/ /\ EnqueueMayFail
        /\ t \in Clients
        /\ GoCall(t, "none")
        /\ UNCHANGED queued
  /\ UNCHANGED <<cbVars, stopping, exited, exec, prev, processed, message, envVars>>

RollbackByStore == "IDLE"
Rollback == IF state = "SCHEDULED" THEN "IDLE" ELSE state

\* Submit returned false: compare_exchange SCHEDULED -> IDLE.
AbortSchedule(t) ==
  /\ call[t] = "abort"
  /\ state' = Rollback
  /\ GoCall(t, "none")
  /\ UNCHANGED <<mailbox, locked, finalizeStarted, actorAlive, registered,
                 poolVars, exec, prev, processed, message, envVars>>

-----------------------------------------------------------------------------
(* Stop *)

\* The load of prev, outside the lock.
StopLoad(t) ==
  /\ prev' = [prev EXCEPT ![t] = state]
  /\ GoCall(t, "stopLock")

CallStop(t) ==
  /\ InUserCode(t)
  /\ stops < MaxStops
  /\ stops' = stops + 1
  /\ StopLoad(t)
  /\ UNCHANGED <<cbVars, poolVars, exec, processed, message, sent>>

StopLock(t) ==
  /\ call[t] = "stopLock"
  /\ ~locked
  /\ locked' = TRUE
  /\ GoCall(t, "stopCas")
  /\ UNCHANGED <<state, mailbox, finalizeStarted, actorAlive, registered,
                 poolVars, exec, prev, processed, message, envVars>>

\* The exchange succeeds when the state still is what prev says.
StopByStore(t) == TRUE
StopWins(t) == state = prev[t]

\* Stop itself cleans up an actor that it found idle, and only such a one.
StopNeverFinalizes(t) == FALSE
StopFinalizes(t) == prev[t] = "IDLE"

\* One turn of the CAS loop.  A spurious failure of the weak exchange changes
\* nothing and is a stuttering step.
StopCas(t) ==
  /\ call[t] = "stopCas"
  /\ \/ /\ prev[t] \in Closed
        /\ locked' = FALSE
        /\ GoCall(t, "none")
        /\ UNCHANGED <<state, prev>>
     \/ /\ prev[t] \notin Closed
        /\ StopWins(t)
        /\ state' = "STOPPING"
        /\ locked' = FALSE
        /\ GoCall(t, IF StopFinalizes(t) THEN "finGate" ELSE "none")
        /\ UNCHANGED prev
     \/ /\ prev[t] \notin Closed
        /\ ~StopWins(t)
        /\ prev' = [prev EXCEPT ![t] = state]
        /\ UNCHANGED <<state, locked, call>>
  /\ UNCHANGED <<mailbox, finalizeStarted, actorAlive, registered,
                 poolVars, exec, processed, message, envVars>>

-----------------------------------------------------------------------------
(* Execute *)

NoEntryNeeded == TRUE
HasEntry == queued > 0

\* WorkerLoop takes the entry out of whichever queue it is in.
Dequeue(t) ==
  /\ t \in Workers \ exited
  /\ exec[t] = "out"
  /\ call[t] = "none"
  /\ HasEntry
  /\ queued' = queued - 1
  /\ GoExec(t, "begin")
  /\ UNCHANGED <<cbVars, stopping, exited, call, prev, processed, message, envVars>>

\* compare_exchange SCHEDULED -> RUNNING, else Stop came first: Finalize.
ExecuteBegin(t) ==
  /\ exec[t] = "begin"
  /\ \/ /\ state = "SCHEDULED"
        /\ state' = "RUNNING"
        /\ processed' = [processed EXCEPT ![t] = 0]
        /\ GoExec(t, "pop")
        /\ UNCHANGED call
     \/ /\ state # "SCHEDULED"
        /\ GoExec(t, "out")
        /\ GoCall(t, "finGate")
        /\ UNCHANGED <<state, processed>>
  /\ UNCHANGED <<mailbox, locked, finalizeStarted, actorAlive, registered,
                 poolVars, prev, message, envVars>>

MayAlwaysPop == TRUE
MayPop == state = "RUNNING"

\* The consumption boundary, first half: the state, under the lock.
Pop(t) ==
  /\ exec[t] = "pop"
  /\ ~locked
  /\ \/ /\ ~MayPop
        /\ GoExec(t, "toIdle")
        /\ UNCHANGED locked
     \/ /\ MayPop
        /\ locked' = TRUE
        /\ GoExec(t, "popFront")
  /\ UNCHANGED <<state, mailbox, finalizeStarted, actorAlive, registered,
                 poolVars, call, prev, processed, message, envVars>>

\* The consumption boundary, second half: the lock is released, then Handle.
PopFront(t) ==
  /\ exec[t] = "popFront"
  /\ locked' = FALSE
  /\ \/ /\ mailbox = << >>
        /\ GoExec(t, "toIdle")
        /\ UNCHANGED mailbox
     \/ /\ mailbox # << >>
        /\ mailbox' = Tail(mailbox)
        /\ GoExec(t, "handle")
  /\ UNCHANGED <<state, finalizeStarted, actorAlive, registered,
                 poolVars, call, prev, processed, message, envVars>>

HandleReturns(t) ==
  /\ exec[t] = "handle"
  /\ call[t] = "none"
  /\ processed' = [processed EXCEPT ![t] = @ + 1]
  /\ GoExec(t, IF processed[t] + 1 < Budget THEN "pop" ELSE "toIdle")
  /\ UNCHANGED <<cbVars, poolVars, call, prev, message, envVars>>

\* catch (...): Stop() the actor, then leave the drain loop.
HandleThrows(t) ==
  /\ exec[t] = "handle"
  /\ call[t] = "none"
  /\ GoExec(t, "toIdle")
  /\ StopLoad(t)
  /\ UNCHANGED <<cbVars, poolVars, processed, message, envVars>>

\* compare_exchange RUNNING -> IDLE, else Stop came during the run: Finalize.
ExecuteEnd(t) ==
  /\ exec[t] = "toIdle"
  /\ call[t] = "none"
  /\ \/ /\ state = "RUNNING"
        /\ state' = "IDLE"
        /\ GoExec(t, "recheck")
        /\ UNCHANGED call
     \/ /\ state # "RUNNING"
        /\ GoExec(t, "out")
        /\ GoCall(t, "finGate")
        /\ UNCHANGED state
  /\ UNCHANGED <<mailbox, locked, finalizeStarted, actorAlive, registered,
                 poolVars, prev, processed, message, envVars>>

NeverHasMail == FALSE
HasMail == mailbox # << >>

\* MailboxEmpty, after the transition to IDLE.
Recheck(t) ==
  /\ exec[t] = "recheck"
  /\ ~locked
  /\ GoExec(t, "out")
  /\ GoCall(t, IF HasMail THEN "trySchedule" ELSE "none")
  /\ UNCHANGED <<cbVars, poolVars, prev, processed, message, envVars>>

-----------------------------------------------------------------------------
(* Finalize *)

NoOnceGate == FALSE
AlreadyFinalizing == finalizeStarted

\* The once gate.
FinalizeGate(t) ==
  /\ call[t] = "finGate"
  /\ finalizeStarted' = TRUE
  /\ GoCall(t, IF AlreadyFinalizing THEN "none" ELSE "finSwap")
  /\ UNCHANGED <<state, mailbox, locked, actorAlive, registered,
                 poolVars, exec, prev, processed, message, envVars>>

FinalizeSwap(t) ==
  /\ call[t] = "finSwap"
  /\ ~locked
  /\ mailbox' = << >>
  /\ GoCall(t, "finDestroy")
  /\ UNCHANGED <<state, locked, finalizeStarted, actorAlive, registered,
                 poolVars, exec, prev, processed, message, envVars>>

\* drained.clear() and _actor.reset(), outside the lock.
FinalizeDestroy(t) ==
  /\ call[t] = "finDestroy"
  /\ actorAlive' = FALSE
  /\ GoCall(t, "finUnregister")
  /\ UNCHANGED <<state, mailbox, locked, finalizeStarted, registered,
                 poolVars, exec, prev, processed, message, envVars>>

FinalizeUnregister(t) ==
  /\ call[t] = "finUnregister"
  /\ registered' = FALSE
  /\ GoCall(t, "finDead")
  /\ UNCHANGED <<state, mailbox, locked, finalizeStarted, actorAlive,
                 poolVars, exec, prev, processed, message, envVars>>

FinalizeDead(t) ==
  /\ call[t] = "finDead"
  /\ state' = "DEAD"
  /\ GoCall(t, "none")
  /\ UNCHANGED <<mailbox, locked, finalizeStarted, actorAlive, registered,
                 poolVars, exec, prev, processed, message, envVars>>

-----------------------------------------------------------------------------
(* The pool, as far as the control block can tell *)

\* StopAndJoin sets _stopping.
PoolStop ==
  /\ PoolMayStop
  /\ ~stopping
  /\ stopping' = TRUE
  /\ UNCHANGED <<cbVars, queued, exited, frameVars, envVars>>

\* A worker sees _stopping between two tasks.
WorkerExit(t) ==
  /\ t \in Workers \ exited
  /\ stopping
  /\ exec[t] = "out"
  /\ call[t] = "none"
  /\ exited' = exited \cup {t}
  /\ UNCHANGED <<cbVars, queued, stopping, frameVars, envVars>>

\* DiscardPending, once every worker has been joined.
DiscardPending ==
  /\ stopping
  /\ exited = Workers
  /\ queued > 0
  /\ queued' = 0
  /\ UNCHANGED <<cbVars, stopping, exited, frameVars, envVars>>

-----------------------------------------------------------------------------
\* A step that the code of a call in progress takes by itself.
Proceed(t) ==
  \/ SendPush(t)
  \/ TrySchedule(t)
  \/ SubmitCheck(t)
  \/ SubmitEnqueue(t)
  \/ AbortSchedule(t)
  \/ StopLock(t)
  \/ StopCas(t)
  \/ ExecuteBegin(t)
  \/ Pop(t)
  \/ PopFront(t)
  \/ HandleReturns(t)
  \/ HandleThrows(t)
  \/ ExecuteEnd(t)
  \/ Recheck(t)
  \/ FinalizeGate(t)
  \/ FinalizeSwap(t)
  \/ FinalizeDestroy(t)
  \/ FinalizeUnregister(t)
  \/ FinalizeDead(t)

\* A step that begins something: a user's call or a worker's task.
Begin(t) ==
  \/ \E m \in Messages : Send(t, m)
  \/ CallStop(t)
  \/ Dequeue(t)

Next ==
  \/ \E t \in Threads : Begin(t) \/ Proceed(t) \/ WorkerExit(t)
  \/ PoolStop
  \/ DiscardPending

Spec == Init /\ [][Next]_vars

\* The operating system runs every thread, and handlers return or throw.  That
\* the pool takes the actor's entry is not assumed: a worker that takes its
\* newest entry first may leave an older one where it is for ever.
Fairness == \A t \in Threads : WF_vars(Proceed(t))

FairSpec == Spec /\ Fairness

-----------------------------------------------------------------------------
(* Correctness *)

\* t runs the drain loop: it is past IDLE/SCHEDULED -> RUNNING and before the
\* exchange that ends the run.
Executing(t) == exec[t] \in {"pop", "popFront", "handle", "toIdle"}

\* t carries the one right to run the actor, on its way into or out of the pool.
Submitting(t) == call[t] \in {"submit", "enqueue", "abort"}
Ticket(t) == exec[t] = "begin" \/ Submitting(t)

\* t is past the once gate.
Finalizing(t) == call[t] \in {"finSwap", "finDestroy", "finUnregister", "finDead"}

\* Every variable keeps its type.
TypeOK ==
  /\ state \in ActorState
  /\ mailbox \in Seq(Messages)
  /\ locked \in BOOLEAN
  /\ finalizeStarted \in BOOLEAN
  /\ actorAlive \in BOOLEAN
  /\ registered \in BOOLEAN
  /\ queued \in Nat
  /\ stopping \in BOOLEAN
  /\ exited \subseteq Workers
  /\ exec \in [Threads -> ExecPc]
  /\ call \in [Threads -> CallPc]
  /\ prev \in [Threads -> ActorState]
  /\ processed \in [Threads -> Nat]
  /\ message \in [Threads -> SUBSET Messages]
  /\ sent \subseteq Messages
  /\ stops \in Nat

\* The right to run an actor is never duplicated: there is one queue entry, or
\* one thread submitting or just dequeued, or one thread in the drain loop.
\* Hence no two threads are ever inside the same actor's Handle
\* (TrySchedule, Execute; design/actor-runtime.md, single executor).
SerialExecution ==
  /\ queued \in {0, 1}
  /\ \A t \in Threads : Ticket(t) \/ Executing(t) => queued = 0
  /\ \A t, u \in Threads :
       (Ticket(t) \/ Executing(t)) /\ (Ticket(u) \/ Executing(u)) => t = u
  /\ \A t \in Threads : ~(Executing(t) /\ Submitting(t))

\* Outside shutdown, an actor that has mail and is not being run is on its way
\* to being run: a sender or a finished run has yet to look (IDLE), or the
\* right to run it exists somewhere (SCHEDULED).  This is what the recheck
\* after RUNNING -> IDLE is for (Execute, Recheck).
NoLostWakeup ==
  ~stopping /\ ~EnqueueMayFail =>
    /\ state = "IDLE" /\ mailbox # << >> =>
         \E t \in Threads : call[t] = "trySchedule" \/ exec[t] = "recheck"
    /\ state = "SCHEDULED" => queued = 1 \/ \E t \in Threads : Ticket(t)
    /\ state = "RUNNING" => \E t \in Threads : Executing(t)

\* Outside shutdown, a stopped actor always has someone who will clean it up:
\* Stop itself when it found IDLE, otherwise whoever holds the right to run
\* (Stop hands the cleanup to the worker by making its exchange fail).
StopIsCleanedUp ==
  ~stopping /\ ~EnqueueMayFail /\ state = "STOPPING" =>
    \/ queued = 1
    \/ \E t \in Threads :
         Ticket(t) \/ Executing(t) \/ call[t] = "finGate" \/ Finalizing(t)

\* Finalize never overlaps a run of the same actor, so the Actor* that Execute
\* read once stays valid for the whole batch although no lock protects _actor.
HandlerHasActor ==
  \A t \in Threads : Executing(t) =>
    actorAlive /\ \A u \in Threads : ~Finalizing(u)

\* The cleanup runs once: one thread at most is past the once gate, and none
\* is once the actor is DEAD.
FinalizeOnce ==
  /\ \A t, u \in Threads : Finalizing(t) /\ Finalizing(u) => t = u
  /\ state = "DEAD" => \A t \in Threads : ~Finalizing(t)

\* From the moment Finalize has emptied the mailbox nothing enters it any more,
\* and a DEAD actor has no mail, no user object and no registry entry.
DeadIsClean ==
  /\ (\E t \in Threads : call[t] \in {"finDestroy", "finUnregister", "finDead"})
       => mailbox = << >>
  /\ state = "DEAD" => mailbox = << >> /\ ~actorAlive /\ ~registered

\* Stop is final: no interleaving of Send, TrySchedule, a refused Submit or the
\* end of a run brings a stopped actor back.
NeverReopens ==
  [][/\ state \in Closed => state' \in Closed
     /\ state = "DEAD" => state' = "DEAD"]_vars

\* The control block implements the promise made to the program: messages are
\* handled one at a time, in order, none after Stop, and the rest is discarded.
Promise == INSTANCE Actor WITH
  inbox    <- mailbox,
  open     <- state \notin Closed,
  handlers <- {t \in Threads : exec[t] = "handle"},
  alive    <- actorAlive
ImplementsActor == Promise!Spec

\* The pool does not leave an entry of the actor where it is for ever: whenever
\* there is one, it is taken sometime.  design/actor-runtime.md (section 11) does
\* not promise it; TasksLeaveQueues of WorkerPool says when it is so.
EntryIsTaken == []<>(queued = 0)

\* If the pool takes the actor's entries and does not stop, an accepted message
\* is handed to Handle or discarded by a Stop: Send, TrySchedule and Execute
\* never let it sleep in the mailbox of an actor that has no entry.
InMailbox(m) == \E i \in 1..Len(mailbox) : mailbox[i] = m
MessagesLeave ==
  EntryIsTaken =>
    \A m \in Messages : InMailbox(m) ~> ~InMailbox(m) \/ stopping

\* If the pool takes the actor's entries and does not stop, a stopped actor
\* becomes DEAD: Stop, the begin or the end of a run does the cleanup.
StopCompletes ==
  EntryIsTaken => (state = "STOPPING" ~> state = "DEAD" \/ stopping)
=============================================================================
