---------------------- MODULE ActorControlBlock_proofs ----------------------
(***************************************************************************)
(* Proofs about ActorControlBlock, for any sets of workers, clients and    *)
(* messages and any budget: the safety invariants that the runs check are  *)
(* consequences of the inductive invariant IInv.                           *)
(***************************************************************************)
EXTENDS ActorControlBlock, TLAPS, SequenceTheorems

-----------------------------------------------------------------------------
(* The inductive invariant *)

\* Outside user code and the end of a run, Execute has no call in progress.
FrameInv ==
  \A t \in Threads :
    exec[t] \in {"begin", "pop", "popFront", "recheck"} => call[t] = "none"

\* t is inside a critical section of the mailbox lock.
HoldsLock(t) == call[t] \in {"sendPush", "stopCas"} \/ exec[t] = "popFront"

\* The lock excludes, and what a critical section has seen of the state stays
\* true until it ends.
LockInv ==
  /\ \A t \in Threads : HoldsLock(t) => locked
  /\ \A t, u \in Threads : HoldsLock(t) /\ HoldsLock(u) => t = u
  /\ \A t \in Threads : call[t] = "sendPush" => state \notin Closed
  /\ \A t \in Threads : exec[t] = "popFront" => state = "RUNNING"

\* The state word says where the right to run the actor is.
TokenInv ==
  /\ SerialExecution
  /\ queued = 1 => state \in {"SCHEDULED", "STOPPING", "DEAD"}
  /\ \A t \in Threads : Ticket(t) => state \in {"SCHEDULED", "STOPPING", "DEAD"}
  /\ \A t \in Threads : Executing(t) => state \in {"RUNNING", "STOPPING", "DEAD"}

\* Whoever reaches Finalize has consumed the right to run, so nobody runs.
FinalizeInv ==
  /\ finalizeStarted \/ (\E t \in Threads : call[t] = "finGate") =>
       state \in Closed /\ \A t \in Threads : ~Executing(t)
  /\ \A t \in Threads : Finalizing(t) => finalizeStarted
  /\ state = "DEAD" => finalizeStarted
  /\ finalizeStarted => state = "DEAD" \/ \E t \in Threads : Finalizing(t)
  /\ FinalizeOnce
  /\ ~actorAlive => finalizeStarted
  /\ DeadIsClean
  /\ \A t \in Threads : call[t] \in {"finSwap", "finDestroy"} => actorAlive
  /\ \A t \in Threads : call[t] \in {"finUnregister", "finDead"} => ~actorAlive
  /\ \A t \in Threads : call[t] = "finDead" => ~registered

\* Submit refuses only when the pool stops or memory ran out.
ProgressInv ==
  /\ \A t \in Threads : call[t] = "abort" => stopping \/ EnqueueMayFail
  /\ NoLostWakeup
  /\ StopIsCleanedUp

IInv == TypeOK /\ FrameInv /\ LockInv /\ TokenInv /\ FinalizeInv /\ ProgressInv

-----------------------------------------------------------------------------
(* It holds initially and every step preserves it *)

\* The initial state satisfies the inductive invariant.
LEMMA InitIInv == Init => IInv
<1> SUFFICES ASSUME Init PROVE IInv
    OBVIOUS
<1> USE DEF Init
<1>1. TypeOK
  <2>1. mailbox \in Seq(Messages)
        BY EmptySeq
  <2> QED BY <2>1 DEF TypeOK, ActorState, ExecPc, CallPc
<1>2. LockInv
      BY DEF LockInv, HoldsLock
<1>6. FrameInv
      BY DEF FrameInv
<1>3. TokenInv
      BY DEF TokenInv, SerialExecution, Ticket, Submitting, Executing
<1>4. FinalizeInv
      BY DEF FinalizeInv, FinalizeOnce, Finalizing, DeadIsClean
<1>5. ProgressInv
      BY DEF ProgressInv, NoLostWakeup, StopIsCleanedUp
<1> QED BY <1>1, <1>2, <1>3, <1>4, <1>5, <1>6 DEF IInv

\* Every step keeps every variable in its type.
LEMMA TypeStep == TypeOK /\ [Next]_vars => TypeOK'
<1> SUFFICES ASSUME TypeOK, [Next]_vars PROVE TypeOK'
    OBVIOUS
<1> USE DEF TypeOK, ActorState, ExecPc, CallPc, GoExec, GoCall, Accepts, ScheduleWins,
            Rollback, StopWins, StopFinalizes, HasEntry, MayPop, HasMail, AlreadyFinalizing,
            poolVars, cbVars, frameVars, envVars
<1>1. CASE UNCHANGED vars
      BY <1>1 DEF vars
<1>2. ASSUME NEW t \in Threads, NEW m \in Messages, Send(t, m) PROVE TypeOK'
  <2>1. call' \in [Threads -> CallPc] /\ locked' \in BOOLEAN
        BY <1>2 DEF Send
  <2>2. message' \in [Threads -> SUBSET Messages]
        BY <1>2 DEF Send
  <2> QED BY <1>2, <2>1, <2>2 DEF Send
<1>3. ASSUME NEW t \in Threads, CallStop(t) PROVE TypeOK'
      BY <1>3 DEF CallStop, StopLoad
<1>4. ASSUME NEW t \in Threads, Dequeue(t) PROVE TypeOK'
      BY <1>4 DEF Dequeue
<1>5. ASSUME NEW t \in Threads, Proceed(t) PROVE TypeOK'
  <2>1. CASE SendPush(t)
    <3>1. PICK m \in message[t] : mailbox' = Append(mailbox, m)
          BY <2>1 DEF SendPush
    <3>2. m \in Messages
          BY <3>1
    <3>3. mailbox' \in Seq(Messages)
          BY <3>1, <3>2
    <3> QED BY <2>1, <3>3 DEF SendPush
  <2>2. CASE TrySchedule(t)
        BY <2>2 DEF TrySchedule
  <2>3. CASE SubmitCheck(t)
        BY <2>3 DEF SubmitCheck
  <2>4. CASE SubmitEnqueue(t)
    <3>1. queued' \in Nat
          BY <2>4 DEF SubmitEnqueue
    <3>2. call' \in [Threads -> CallPc]
          BY <2>4 DEF SubmitEnqueue
    <3> QED BY <2>4, <3>1, <3>2 DEF SubmitEnqueue
  <2>5. CASE AbortSchedule(t)
        BY <2>5 DEF AbortSchedule
  <2>6. CASE StopLock(t)
        BY <2>6 DEF StopLock
  <2>7. CASE StopCas(t)
        BY <2>7 DEF StopCas
  <2>8. CASE ExecuteBegin(t)
    <3>1. exec' \in [Threads -> ExecPc] /\ call' \in [Threads -> CallPc]
          BY <2>8 DEF ExecuteBegin
    <3>2. processed' \in [Threads -> Nat] /\ state' \in ActorState
          BY <2>8 DEF ExecuteBegin
    <3> QED BY <2>8, <3>1, <3>2 DEF ExecuteBegin
  <2>9. CASE Pop(t)
        BY <2>9 DEF Pop
  <2>10. CASE PopFront(t)
    <3>1. mailbox # << >> => Tail(mailbox) \in Seq(Messages)
          BY HeadTailProperties
    <3> QED BY <2>10, <3>1 DEF PopFront
  <2>11. CASE HandleReturns(t)
         BY <2>11 DEF HandleReturns
  <2>12. CASE HandleThrows(t)
         BY <2>12 DEF HandleThrows, StopLoad
  <2>13. CASE ExecuteEnd(t)
         BY <2>13 DEF ExecuteEnd
  <2>14. CASE Recheck(t)
         BY <2>14 DEF Recheck
  <2>15. CASE FinalizeGate(t)
         BY <2>15 DEF FinalizeGate
  <2>16. CASE FinalizeSwap(t)
         BY <2>16 DEF FinalizeSwap
  <2>17. CASE FinalizeDestroy(t)
         BY <2>17 DEF FinalizeDestroy
  <2>18. CASE FinalizeUnregister(t)
         BY <2>18 DEF FinalizeUnregister
  <2>19. CASE FinalizeDead(t)
         BY <2>19 DEF FinalizeDead
  <2> QED BY <1>5, <2>1, <2>2, <2>3, <2>4, <2>5, <2>6, <2>7, <2>8, <2>9, <2>10, <2>11,
             <2>12, <2>13, <2>14, <2>15, <2>16, <2>17, <2>18, <2>19 DEF Proceed
<1>6. ASSUME NEW t \in Threads, WorkerExit(t) PROVE TypeOK'
      BY <1>6 DEF WorkerExit
<1>7. CASE PoolStop
      BY <1>7 DEF PoolStop
<1>8. CASE DiscardPending
      BY <1>8 DEF DiscardPending
<1> QED BY <1>1, <1>2, <1>3, <1>4, <1>5, <1>6, <1>7, <1>8 DEF Next, Begin

\* User code and the calls at the end of Execute are the only places where a
\* call begins.
LEMMA FrameStep == TypeOK /\ FrameInv /\ [Next]_vars => FrameInv'
<1> SUFFICES ASSUME TypeOK, FrameInv, [Next]_vars PROVE FrameInv'
    OBVIOUS
<1> exec \in [Threads -> ExecPc] /\ call \in [Threads -> CallPc]
    BY DEF TypeOK
<1> USE DEF Closed, FrameInv,
            GoExec, GoCall, Accepts, ScheduleWins,
            Rollback, StopWins, StopFinalizes, HasEntry, MayPop, HasMail, AlreadyFinalizing, poolVars, cbVars, frameVars, envVars
<1>1. CASE UNCHANGED vars
      BY <1>1 DEF vars
<1>2. ASSUME NEW t \in Threads, NEW m \in Messages, Send(t, m) PROVE FrameInv'
      BY <1>2 DEF Send, InUserCode
<1>3. ASSUME NEW t \in Threads, CallStop(t) PROVE FrameInv'
      BY <1>3 DEF CallStop, StopLoad, InUserCode
<1>4. ASSUME NEW t \in Threads, Dequeue(t) PROVE FrameInv'
      BY <1>4 DEF Dequeue
<1>5. ASSUME NEW t \in Threads, Proceed(t) PROVE FrameInv'
  <2>1. CASE SendPush(t)
        BY <2>1 DEF SendPush
  <2>2. CASE TrySchedule(t)
        BY <2>2 DEF TrySchedule
  <2>3. CASE SubmitCheck(t)
        BY <2>3 DEF SubmitCheck
  <2>4. CASE SubmitEnqueue(t)
        BY <2>4 DEF SubmitEnqueue
  <2>5. CASE AbortSchedule(t)
        BY <2>5 DEF AbortSchedule
  <2>6. CASE StopLock(t)
        BY <2>6 DEF StopLock
  <2>7. CASE StopCas(t)
        BY <2>7 DEF StopCas
  <2>8. CASE ExecuteBegin(t)
        BY <2>8 DEF ExecuteBegin
  <2>9. CASE Pop(t)
        BY <2>9 DEF Pop
  <2>10. CASE PopFront(t)
         BY <2>10 DEF PopFront
  <2>11. CASE HandleReturns(t)
         BY <2>11 DEF HandleReturns
  <2>12. CASE HandleThrows(t)
         BY <2>12 DEF HandleThrows, StopLoad
  <2>13. CASE ExecuteEnd(t)
         BY <2>13 DEF ExecuteEnd
  <2>14. CASE Recheck(t)
         BY <2>14 DEF Recheck
  <2>15. CASE FinalizeGate(t)
         BY <2>15 DEF FinalizeGate
  <2>16. CASE FinalizeSwap(t)
         BY <2>16 DEF FinalizeSwap
  <2>17. CASE FinalizeDestroy(t)
         BY <2>17 DEF FinalizeDestroy
  <2>18. CASE FinalizeUnregister(t)
         BY <2>18 DEF FinalizeUnregister
  <2>19. CASE FinalizeDead(t)
         BY <2>19 DEF FinalizeDead
  <2> QED BY <1>5, <2>1, <2>2, <2>3, <2>4, <2>5, <2>6, <2>7, <2>8,
             <2>9, <2>10, <2>11, <2>12, <2>13, <2>14, <2>15, <2>16, <2>17, <2>18, <2>19 DEF Proceed
<1>6. ASSUME NEW t \in Threads, WorkerExit(t) PROVE FrameInv'
      BY <1>6 DEF WorkerExit
<1>7. CASE PoolStop
      BY <1>7 DEF PoolStop
<1>8. CASE DiscardPending
      BY <1>8 DEF DiscardPending
<1> QED BY <1>1, <1>2, <1>3, <1>4, <1>5, <1>6, <1>7, <1>8 DEF Next, Begin

\* Critical sections exclude one another, and nobody closes the actor or ends
\* the run under a thread that is about to push or pop.
LEMMA LockStep == TypeOK /\ FrameInv /\ LockInv /\ TokenInv /\ FinalizeInv /\ [Next]_vars => LockInv'
<1> SUFFICES ASSUME TypeOK, FrameInv, LockInv, TokenInv, FinalizeInv, [Next]_vars PROVE LockInv'
    OBVIOUS
<1> exec \in [Threads -> ExecPc] /\ call \in [Threads -> CallPc]
    BY DEF TypeOK
<1> USE DEF Closed, FrameInv, LockInv, HoldsLock,
            Finalizing, FinalizeInv,
            TokenInv, SerialExecution, Ticket, Submitting, Executing,
            GoExec, GoCall, Accepts, ScheduleWins,
            Rollback, StopWins, StopFinalizes, HasEntry, MayPop, HasMail, AlreadyFinalizing, poolVars, cbVars, frameVars, envVars
<1>1. CASE UNCHANGED vars
      BY <1>1 DEF vars
<1>2. ASSUME NEW t \in Threads, NEW m \in Messages, Send(t, m) PROVE LockInv'
      BY <1>2 DEF Send, InUserCode
<1>3. ASSUME NEW t \in Threads, CallStop(t) PROVE LockInv'
      BY <1>3 DEF CallStop, StopLoad, InUserCode
<1>4. ASSUME NEW t \in Threads, Dequeue(t) PROVE LockInv'
      BY <1>4 DEF Dequeue
<1>5. ASSUME NEW t \in Threads, Proceed(t) PROVE LockInv'
  <2>1. CASE SendPush(t)
        BY <2>1 DEF SendPush
  <2>2. CASE TrySchedule(t)
        BY <2>2 DEF TrySchedule
  <2>3. CASE SubmitCheck(t)
        BY <2>3 DEF SubmitCheck
  <2>4. CASE SubmitEnqueue(t)
        BY <2>4 DEF SubmitEnqueue
  <2>5. CASE AbortSchedule(t)
        BY <2>5 DEF AbortSchedule
  <2>6. CASE StopLock(t)
        BY <2>6 DEF StopLock
  <2>7. CASE StopCas(t)
    <3>1. \A u \in Threads : HoldsLock(u) => u = t
          BY <2>7 DEF StopCas
    <3>2. CASE prev[t] \in Closed
          BY <2>7, <3>1, <3>2 DEF StopCas
    <3>3. CASE prev[t] \notin Closed /\ state = prev[t]
          BY <2>7, <3>1, <3>3 DEF StopCas
    <3>4. CASE prev[t] \notin Closed /\ state # prev[t]
          BY <2>7, <3>1, <3>4 DEF StopCas
    <3> QED BY <2>7, <3>2, <3>3, <3>4 DEF StopCas
  <2>8. CASE ExecuteBegin(t)
        BY <2>8 DEF ExecuteBegin
  <2>9. CASE Pop(t)
        BY <2>9 DEF Pop
  <2>10. CASE PopFront(t)
         BY <2>10 DEF PopFront
  <2>11. CASE HandleReturns(t)
         BY <2>11 DEF HandleReturns
  <2>12. CASE HandleThrows(t)
         BY <2>12 DEF HandleThrows, StopLoad
  <2>13. CASE ExecuteEnd(t)
         BY <2>13 DEF ExecuteEnd
  <2>14. CASE Recheck(t)
         BY <2>14 DEF Recheck
  <2>15. CASE FinalizeGate(t)
         BY <2>15 DEF FinalizeGate
  <2>16. CASE FinalizeSwap(t)
         BY <2>16 DEF FinalizeSwap
  <2>17. CASE FinalizeDestroy(t)
         BY <2>17 DEF FinalizeDestroy
  <2>18. CASE FinalizeUnregister(t)
         BY <2>18 DEF FinalizeUnregister
  <2>19. CASE FinalizeDead(t)
         BY <2>19 DEF FinalizeDead
  <2> QED BY <1>5, <2>1, <2>2, <2>3, <2>4, <2>5, <2>6, <2>7, <2>8,
             <2>9, <2>10, <2>11, <2>12, <2>13, <2>14, <2>15, <2>16, <2>17, <2>18, <2>19 DEF Proceed
<1>6. ASSUME NEW t \in Threads, WorkerExit(t) PROVE LockInv'
      BY <1>6 DEF WorkerExit
<1>7. CASE PoolStop
      BY <1>7 DEF PoolStop
<1>8. CASE DiscardPending
      BY <1>8 DEF DiscardPending
<1> QED BY <1>1, <1>2, <1>3, <1>4, <1>5, <1>6, <1>7, <1>8 DEF Next, Begin

\* The exchanges that start and end a run are made by the one thread that has
\* the right to run the actor.
LEMMA RunBoundary ==
  ASSUME TypeOK, FrameInv, TokenInv,
         NEW t \in Threads, ExecuteBegin(t) \/ ExecuteEnd(t)
  PROVE  TokenInv'
<1> USE DEF GoExec, GoCall, Accepts, ScheduleWins,
            Rollback, StopWins, StopFinalizes, HasEntry, MayPop, HasMail, AlreadyFinalizing, poolVars
<1>1. /\ queued' = queued
      /\ \A u \in Threads \ {t} : exec'[u] = exec[u] /\ call'[u] = call[u]
      BY DEF ExecuteBegin, ExecuteEnd, TypeOK
<1>2. Ticket(t) \/ Executing(t)
      BY DEF ExecuteBegin, ExecuteEnd, Ticket, Executing
<1>3. queued' = 0
      BY <1>1, <1>2 DEF TokenInv, SerialExecution
<1>4. \A u \in Threads \ {t} : ~Ticket(u)' /\ ~Executing(u)' /\ ~Submitting(u)'
  <2>1. \A u \in Threads \ {t} : ~Ticket(u) /\ ~Executing(u)
        BY <1>2 DEF TokenInv, SerialExecution
  <2> QED BY <1>1, <2>1 DEF Ticket, Executing, Submitting
<1>5. call'[t] \in {"none", "finGate"}
      BY DEF ExecuteBegin, ExecuteEnd, TypeOK, FrameInv
<1>6. \/ exec'[t] = "pop" /\ state' = "RUNNING"
      \/ exec'[t] \in {"out", "recheck"}
      BY DEF ExecuteBegin, ExecuteEnd, TypeOK
<1>7. ~Submitting(t)' /\ ~Ticket(t)' /\ (Executing(t)' => state' = "RUNNING")
      BY <1>5, <1>6 DEF Ticket, Executing, Submitting
<1>8. SerialExecution'
      BY <1>3, <1>4, <1>7 DEF SerialExecution
<1> QED BY <1>3, <1>4, <1>7, <1>8 DEF TokenInv

\* The right to run the actor is passed on, never copied.
LEMMA TokenStep == TypeOK /\ FrameInv /\ TokenInv /\ [Next]_vars => TokenInv'
<1> SUFFICES ASSUME TypeOK, FrameInv, TokenInv, [Next]_vars PROVE TokenInv'
    OBVIOUS
<1>0. ASSUME NEW t \in Threads, ExecuteBegin(t) \/ ExecuteEnd(t) PROVE TokenInv'
      BY <1>0, RunBoundary
<1> exec \in [Threads -> ExecPc] /\ call \in [Threads -> CallPc]
    BY DEF TypeOK
<1> USE DEF Closed, FrameInv,
            TokenInv, SerialExecution, Ticket, Submitting, Executing,
            GoExec, GoCall, Accepts, ScheduleWins,
            Rollback, StopWins, StopFinalizes, HasEntry, MayPop, HasMail, AlreadyFinalizing, poolVars, cbVars, frameVars, envVars
<1>1. CASE UNCHANGED vars
      BY <1>1 DEF vars
<1>2. ASSUME NEW t \in Threads, NEW m \in Messages, Send(t, m) PROVE TokenInv'
      BY <1>2 DEF Send, InUserCode
<1>3. ASSUME NEW t \in Threads, CallStop(t) PROVE TokenInv'
      BY <1>3 DEF CallStop, StopLoad, InUserCode
<1>4. ASSUME NEW t \in Threads, Dequeue(t) PROVE TokenInv'
      BY <1>4 DEF Dequeue
<1>5. ASSUME NEW t \in Threads, Proceed(t) PROVE TokenInv'
  <2>1. CASE SendPush(t)
        BY <2>1 DEF SendPush
  <2>2. CASE TrySchedule(t)
        BY <2>2 DEF TrySchedule
  <2>3. CASE SubmitCheck(t)
        BY <2>3 DEF SubmitCheck
  <2>4. CASE SubmitEnqueue(t)
        BY <2>4 DEF SubmitEnqueue
  <2>5. CASE AbortSchedule(t)
        BY <2>5 DEF AbortSchedule
  <2>6. CASE StopLock(t)
        BY <2>6 DEF StopLock
  <2>7. CASE StopCas(t)
        BY <2>7 DEF StopCas
  <2>8. CASE ExecuteBegin(t)
        BY <2>8, <1>0
  <2>9. CASE Pop(t)
    <3>1. UNCHANGED <<state, queued, call>>
          BY <2>9 DEF Pop
    <3>2. /\ \A u \in Threads \ {t} : exec'[u] = exec[u]
          /\ exec[t] = "pop" /\ exec'[t] \in {"popFront", "toIdle"}
          BY <2>9 DEF Pop
    <3>3. \A u \in Threads : Submitting(u)' <=> Submitting(u)
          BY <3>1
    <3>4. \A u \in Threads : Ticket(u)' <=> Ticket(u)
          BY <3>1, <3>2
    <3>5. \A u \in Threads : Executing(u)' <=> Executing(u)
          BY <3>2
    <3> HIDE DEF Ticket, Executing, Submitting
    <3> QED BY <3>1, <3>3, <3>4, <3>5
  <2>10. CASE PopFront(t)
         BY <2>10 DEF PopFront
  <2>11. CASE HandleReturns(t)
         BY <2>11 DEF HandleReturns
  <2>12. CASE HandleThrows(t)
         BY <2>12 DEF HandleThrows, StopLoad
  <2>13. CASE ExecuteEnd(t)
         BY <2>13, <1>0
  <2>14. CASE Recheck(t)
         BY <2>14 DEF Recheck
  <2>15. CASE FinalizeGate(t)
         BY <2>15 DEF FinalizeGate
  <2>16. CASE FinalizeSwap(t)
         BY <2>16 DEF FinalizeSwap
  <2>17. CASE FinalizeDestroy(t)
         BY <2>17 DEF FinalizeDestroy
  <2>18. CASE FinalizeUnregister(t)
         BY <2>18 DEF FinalizeUnregister
  <2>19. CASE FinalizeDead(t)
         BY <2>19 DEF FinalizeDead
  <2> QED BY <1>5, <2>1, <2>2, <2>3, <2>4, <2>5, <2>6, <2>7, <2>8,
             <2>9, <2>10, <2>11, <2>12, <2>13, <2>14, <2>15, <2>16, <2>17, <2>18, <2>19 DEF Proceed
<1>6. ASSUME NEW t \in Threads, WorkerExit(t) PROVE TokenInv'
      BY <1>6 DEF WorkerExit
<1>7. CASE PoolStop
      BY <1>7 DEF PoolStop
<1>8. CASE DiscardPending
      BY <1>8 DEF DiscardPending
<1> QED BY <1>1, <1>2, <1>3, <1>4, <1>5, <1>6, <1>7, <1>8 DEF Next, Begin

\* Finalize is reached only when nobody runs the actor, and never twice.
LEMMA FinalizeStep == TypeOK /\ FrameInv /\ LockInv /\ TokenInv /\ FinalizeInv /\ [Next]_vars => FinalizeInv'
<1> SUFFICES ASSUME TypeOK, FrameInv, LockInv, TokenInv, FinalizeInv, [Next]_vars PROVE FinalizeInv'
    OBVIOUS
<1> exec \in [Threads -> ExecPc] /\ call \in [Threads -> CallPc]
    BY DEF TypeOK
<1> USE DEF Closed, FrameInv, LockInv, HoldsLock, TokenInv,
            SerialExecution, Ticket, Submitting, Executing, FinalizeInv, FinalizeOnce,
            Finalizing, DeadIsClean,
            GoExec, GoCall, Accepts, ScheduleWins,
            Rollback, StopWins, StopFinalizes, HasEntry, MayPop, HasMail, AlreadyFinalizing, poolVars, cbVars, frameVars, envVars
<1>1. CASE UNCHANGED vars
      BY <1>1 DEF vars
<1>2. ASSUME NEW t \in Threads, NEW m \in Messages, Send(t, m) PROVE FinalizeInv'
      BY <1>2 DEF Send, InUserCode
<1>3. ASSUME NEW t \in Threads, CallStop(t) PROVE FinalizeInv'
      BY <1>3 DEF CallStop, StopLoad, InUserCode
<1>4. ASSUME NEW t \in Threads, Dequeue(t) PROVE FinalizeInv'
      BY <1>4 DEF Dequeue
<1>5. ASSUME NEW t \in Threads, Proceed(t) PROVE FinalizeInv'
  <2>1. CASE SendPush(t)
        BY <2>1 DEF SendPush
  <2>2. CASE TrySchedule(t)
        BY <2>2 DEF TrySchedule
  <2>3. CASE SubmitCheck(t)
        BY <2>3 DEF SubmitCheck
  <2>4. CASE SubmitEnqueue(t)
    <3>1. \A u \in Threads :
            call'[u] = call[u] \/ (u = t /\ call'[u] \in {"none", "abort"})
          BY <2>4 DEF SubmitEnqueue
    <3>2. UNCHANGED <<state, mailbox, finalizeStarted, actorAlive, registered, exec>>
          BY <2>4 DEF SubmitEnqueue
    <3>3. \A u \in Threads : Finalizing(u)' <=> Finalizing(u)
          BY <2>4, <3>1 DEF SubmitEnqueue
    <3> QED BY <3>1, <3>2, <3>3
  <2>5. CASE AbortSchedule(t)
        BY <2>5 DEF AbortSchedule
  <2>6. CASE StopLock(t)
        BY <2>6 DEF StopLock
  <2>7. CASE StopCas(t)
        BY <2>7 DEF StopCas
  <2>8. CASE ExecuteBegin(t)
        BY <2>8 DEF ExecuteBegin
  <2>9. CASE Pop(t)
        BY <2>9 DEF Pop
  <2>10. CASE PopFront(t)
         BY <2>10 DEF PopFront
  <2>11. CASE HandleReturns(t)
         BY <2>11 DEF HandleReturns
  <2>12. CASE HandleThrows(t)
         BY <2>12 DEF HandleThrows, StopLoad
  <2>13. CASE ExecuteEnd(t)
         BY <2>13 DEF ExecuteEnd
  <2>14. CASE Recheck(t)
         BY <2>14 DEF Recheck
  <2>15. CASE FinalizeGate(t)
         BY <2>15 DEF FinalizeGate
  <2>16. CASE FinalizeSwap(t)
         BY <2>16 DEF FinalizeSwap
  <2>17. CASE FinalizeDestroy(t)
         BY <2>17 DEF FinalizeDestroy
  <2>18. CASE FinalizeUnregister(t)
         BY <2>18 DEF FinalizeUnregister
  <2>19. CASE FinalizeDead(t)
         BY <2>19 DEF FinalizeDead
  <2> QED BY <1>5, <2>1, <2>2, <2>3, <2>4, <2>5, <2>6, <2>7, <2>8,
             <2>9, <2>10, <2>11, <2>12, <2>13, <2>14, <2>15, <2>16, <2>17, <2>18, <2>19 DEF Proceed
<1>6. ASSUME NEW t \in Threads, WorkerExit(t) PROVE FinalizeInv'
      BY <1>6 DEF WorkerExit
<1>7. CASE PoolStop
      BY <1>7 DEF PoolStop
<1>8. CASE DiscardPending
      BY <1>8 DEF DiscardPending
<1> QED BY <1>1, <1>2, <1>3, <1>4, <1>5, <1>6, <1>7, <1>8 DEF Next, Begin

\* Mail, a submission or a stopped actor is never left with nobody responsible.
LEMMA ProgressStep == TypeOK /\ FrameInv /\ TokenInv /\ FinalizeInv /\ ProgressInv /\ [Next]_vars => ProgressInv'
<1> SUFFICES ASSUME TypeOK, FrameInv, TokenInv, FinalizeInv, ProgressInv, [Next]_vars PROVE ProgressInv'
    OBVIOUS
<1> exec \in [Threads -> ExecPc] /\ call \in [Threads -> CallPc]
    BY DEF TypeOK
<1> USE DEF Closed, FrameInv,
            TokenInv, SerialExecution, Ticket, Submitting, Executing, FinalizeInv,
            Finalizing, FinalizeOnce, ProgressInv, NoLostWakeup, StopIsCleanedUp,
            GoExec, GoCall, Accepts, ScheduleWins,
            Rollback, StopWins, StopFinalizes, HasEntry, MayPop, HasMail, AlreadyFinalizing, poolVars, cbVars, frameVars, envVars
<1>1. CASE UNCHANGED vars
      BY <1>1 DEF vars
<1>2. ASSUME NEW t \in Threads, NEW m \in Messages, Send(t, m) PROVE ProgressInv'
      BY <1>2 DEF Send, InUserCode
<1>3. ASSUME NEW t \in Threads, CallStop(t) PROVE ProgressInv'
      BY <1>3 DEF CallStop, StopLoad, InUserCode
<1>4. ASSUME NEW t \in Threads, Dequeue(t) PROVE ProgressInv'
      BY <1>4 DEF Dequeue
<1>5. ASSUME NEW t \in Threads, Proceed(t) PROVE ProgressInv'
  <2>1. CASE SendPush(t)
        BY <2>1 DEF SendPush
  <2>2. CASE TrySchedule(t)
        BY <2>2 DEF TrySchedule
  <2>3. CASE SubmitCheck(t)
        BY <2>3 DEF SubmitCheck
  <2>4. CASE SubmitEnqueue(t)
        BY <2>4 DEF SubmitEnqueue
  <2>5. CASE AbortSchedule(t)
        BY <2>5 DEF AbortSchedule
  <2>6. CASE StopLock(t)
        BY <2>6 DEF StopLock
  <2>7. CASE StopCas(t)
    <3>1. UNCHANGED <<mailbox, queued, stopping, exec, finalizeStarted>>
          BY <2>7 DEF StopCas
    <3>2. \A u \in Threads \ {t} : call'[u] = call[u]
          BY <2>7 DEF StopCas
    <3>3. CASE state' = state
          BY <2>7, <3>1, <3>2, <3>3 DEF StopCas
    <3>4. CASE state' # state
      <4>1. /\ state' = "STOPPING" /\ state \notin Closed /\ state = prev[t]
            /\ call'[t] = IF state = "IDLE" THEN "finGate" ELSE "none"
            BY <2>7, <3>4 DEF StopCas
      <4>2. \A u \in Threads : Ticket(u) \/ Executing(u) => Ticket(u)' \/ Executing(u)'
            BY <2>7, <3>1, <3>2 DEF StopCas
      <4>3. StopIsCleanedUp'
        <5>1. CASE state = "IDLE"
              BY <4>1, <5>1
        <5>2. CASE state # "IDLE"
              BY <3>1, <4>1, <4>2, <5>2, TypeOK DEF TypeOK, ActorState
        <5> QED BY <5>1, <5>2
      <4>4. NoLostWakeup'
            BY <4>1
      <4>5. \A u \in Threads : call'[u] = "abort" => stopping' \/ EnqueueMayFail
            BY <3>1, <3>2, <4>1
      <4> QED BY <4>3, <4>4, <4>5
    <3> QED BY <3>3, <3>4
  <2>8. CASE ExecuteBegin(t)
        BY <2>8 DEF ExecuteBegin
  <2>9. CASE Pop(t)
        BY <2>9 DEF Pop
  <2>10. CASE PopFront(t)
         BY <2>10 DEF PopFront
  <2>11. CASE HandleReturns(t)
         BY <2>11 DEF HandleReturns
  <2>12. CASE HandleThrows(t)
         BY <2>12 DEF HandleThrows, StopLoad
  <2>13. CASE ExecuteEnd(t)
         BY <2>13 DEF ExecuteEnd
  <2>14. CASE Recheck(t)
         BY <2>14 DEF Recheck
  <2>15. CASE FinalizeGate(t)
         BY <2>15 DEF FinalizeGate
  <2>16. CASE FinalizeSwap(t)
         BY <2>16 DEF FinalizeSwap
  <2>17. CASE FinalizeDestroy(t)
         BY <2>17 DEF FinalizeDestroy
  <2>18. CASE FinalizeUnregister(t)
         BY <2>18 DEF FinalizeUnregister
  <2>19. CASE FinalizeDead(t)
         BY <2>19 DEF FinalizeDead
  <2> QED BY <1>5, <2>1, <2>2, <2>3, <2>4, <2>5, <2>6, <2>7, <2>8,
             <2>9, <2>10, <2>11, <2>12, <2>13, <2>14, <2>15, <2>16, <2>17, <2>18, <2>19 DEF Proceed
<1>6. ASSUME NEW t \in Threads, WorkerExit(t) PROVE ProgressInv'
      BY <1>6 DEF WorkerExit
<1>7. CASE PoolStop
      BY <1>7 DEF PoolStop
<1>8. CASE DiscardPending
      BY <1>8 DEF DiscardPending
<1> QED BY <1>1, <1>2, <1>3, <1>4, <1>5, <1>6, <1>7, <1>8 DEF Next, Begin

\* The inductive step.
LEMMA IInvStep == IInv /\ [Next]_vars => IInv'
  BY TypeStep, FrameStep, LockStep, TokenStep, FinalizeStep, ProgressStep DEF IInv

-----------------------------------------------------------------------------
(* The theorems *)

\* IInv is an inductive invariant of the specification.
THEOREM Invariance == Spec => []IInv
  BY InitIInv, IInvStep, PTL DEF Spec

\* Every variable of a control block keeps its type.
THEOREM TypeCorrect == Spec => []TypeOK
<1>1. IInv => TypeOK
      BY DEF IInv
<1> QED BY Invariance, <1>1, PTL

\* No two threads ever run the same actor, and it is never queued twice,
\* whatever the number of workers, clients and messages.
THEOREM SerialExecutionHolds == Spec => []SerialExecution
<1>1. IInv => SerialExecution
      BY DEF IInv, TokenInv
<1> QED BY Invariance, <1>1, PTL

\* Outside shutdown an actor with mail is being run or on its way to being run.
THEOREM NoLostWakeupHolds == Spec => []NoLostWakeup
<1>1. IInv => NoLostWakeup
      BY DEF IInv, ProgressInv
<1> QED BY Invariance, <1>1, PTL

\* Outside shutdown somebody is responsible for cleaning up a stopped actor.
THEOREM StopIsCleanedUpHolds == Spec => []StopIsCleanedUp
<1>1. IInv => StopIsCleanedUp
      BY DEF IInv, ProgressInv
<1> QED BY Invariance, <1>1, PTL

\* The object a handler runs on exists, and nobody is finalizing it.
THEOREM HandlerHasActorHolds == Spec => []HandlerHasActor
<1>1. IInv => HandlerHasActor
      BY DEF IInv, FinalizeInv, HandlerHasActor
<1> QED BY Invariance, <1>1, PTL

\* The cleanup of an actor is done by one thread, once.
THEOREM FinalizeOnceHolds == Spec => []FinalizeOnce
<1>1. IInv => FinalizeOnce
      BY DEF IInv, FinalizeInv
<1> QED BY Invariance, <1>1, PTL

\* Nothing enters a mailbox that Finalize has emptied.
THEOREM DeadIsCleanHolds == Spec => []DeadIsClean
<1>1. IInv => DeadIsClean
      BY DEF IInv, FinalizeInv
<1> QED BY Invariance, <1>1, PTL

\* What a step may do with the state of an actor that has been closed.
Final ==
  /\ state \in Closed => state' \in Closed
  /\ state = "DEAD" => state' = "DEAD"

\* Every exchange and store of the state leaves a closed actor closed.
LEMMA FinalStep == IInv /\ [Next]_vars => Final
<1> SUFFICES ASSUME IInv, [Next]_vars PROVE Final
    OBVIOUS
<1> USE DEF Final, Closed, cbVars, ScheduleWins, Rollback, StopWins
<1>1. CASE UNCHANGED vars
      BY <1>1 DEF vars
<1>2. ASSUME NEW t \in Threads, Begin(t) \/ WorkerExit(t) PROVE state' = state
      BY <1>2 DEF Begin, Send, CallStop, Dequeue, WorkerExit
<1>3. ASSUME NEW t \in Threads, Proceed(t) PROVE Final
  <2>1. CASE \/ TrySchedule(t) \/ AbortSchedule(t) \/ StopCas(t)
             \/ ExecuteBegin(t) \/ ExecuteEnd(t) \/ FinalizeDead(t)
        BY <2>1 DEF TrySchedule, AbortSchedule, StopCas, ExecuteBegin, ExecuteEnd,
                    FinalizeDead
  <2>2. CASE ~(\/ TrySchedule(t) \/ AbortSchedule(t) \/ StopCas(t)
               \/ ExecuteBegin(t) \/ ExecuteEnd(t) \/ FinalizeDead(t))
    <3>1. state' = state
          BY <1>3, <2>2
          DEF Proceed, SendPush, SubmitCheck, SubmitEnqueue, StopLock, Pop, PopFront,
              HandleReturns, HandleThrows, Recheck, FinalizeGate, FinalizeSwap,
              FinalizeDestroy, FinalizeUnregister
    <3> QED BY <3>1
  <2> QED BY <2>1, <2>2
<1>4. CASE PoolStop \/ DiscardPending
      BY <1>4 DEF PoolStop, DiscardPending
<1> QED BY <1>1, <1>2, <1>3, <1>4 DEF Next

\* A step never takes a stopped actor back to a state in which it is scheduled
\* or accepts messages.
THEOREM NeverReopensHolds == Spec => NeverReopens
<1>1. IInv /\ [Next]_vars => [Final]_vars
      BY FinalStep
<1> QED BY Invariance, <1>1, PTL DEF Spec, NeverReopens, Final

-----------------------------------------------------------------------------
(* The control block implements the promise *)

Handlers == {t \in Threads : exec[t] = "handle"}

\* A step that neither enters nor leaves Handle leaves the set of handlers alone.
LEMMA SameHandlers ==
  ASSUME \A t \in Threads : exec'[t] = "handle" <=> exec[t] = "handle"
  PROVE  Handlers' = Handlers
  BY DEF Handlers

\* A step of one thread maps to a step of the promise or to a stutter.
LEMMA ProceedImplements ==
  ASSUME IInv, NEW t \in Threads, Proceed(t)
  PROVE  Promise!Next \/ UNCHANGED Promise!vars
<1> USE DEF Promise!vars, GoExec, GoCall, Accepts, ScheduleWins,
            Rollback, StopWins, StopFinalizes, HasEntry, MayPop, HasMail, AlreadyFinalizing, poolVars, cbVars, frameVars, envVars
<1>0. /\ TypeOK /\ FrameInv /\ LockInv /\ TokenInv /\ FinalizeInv
      BY DEF IInv
<1>1. CASE SendPush(t)
  <2>1. PICK m \in message[t] : mailbox' = Append(mailbox, m)
        BY <1>1 DEF SendPush
  <2>2. m \in Messages
        BY <1>0, <2>1 DEF TypeOK
  <2>3. state \notin Closed
        BY <1>0, <1>1 DEF SendPush, LockInv
  <2>4. Promise!Accept(m)
        BY <1>1, <2>1, <2>3 DEF SendPush, Promise!Accept
  <2> QED BY <2>2, <2>4 DEF Promise!Next
<1>2. CASE StopCas(t)
  <2>1. UNCHANGED <<mailbox, actorAlive, exec>>
        BY <1>2 DEF StopCas
  <2>2. CASE state' = state
        BY <2>1, <2>2
  <2>3. CASE state' # state
    <3>1. state \notin Closed /\ state' \in Closed
          BY <1>2, <2>3 DEF StopCas, Closed
    <3>2. Promise!Close
          BY <2>1, <3>1 DEF Promise!Close
    <3> QED BY <3>2 DEF Promise!Next
  <2> QED BY <2>2, <2>3
<1>3. CASE PopFront(t)
  <2>1. state = "RUNNING" /\ state' = state /\ actorAlive' = actorAlive
        BY <1>0, <1>3 DEF PopFront, LockInv
  <2>2. \A u \in Threads : exec[u] # "handle"
        BY <1>0, <1>3 DEF PopFront, TokenInv, SerialExecution, Executing
  <2>3. CASE mailbox = << >>
    <3>1. \A u \in Threads : exec'[u] # "handle"
          BY <1>0, <1>3, <2>2, <2>3 DEF PopFront, TypeOK
    <3> QED BY <1>3, <2>1, <2>2, <2>3, <3>1 DEF PopFront
  <2>4. CASE mailbox # << >>
    <3>1. \A u \in Threads : exec'[u] = "handle" <=> u = t
          BY <1>0, <1>3, <2>2, <2>4 DEF PopFront, TypeOK
    <3>2. Handlers = {} /\ Handlers' = {t}
          BY <2>2, <3>1 DEF Handlers
    <3>3. Promise!Take(t)
          BY <1>3, <2>1, <2>4, <3>2 DEF PopFront, Promise!Take, Handlers, Closed
    <3> QED BY <3>3 DEF Promise!Next
  <2> QED BY <2>3, <2>4
<1>4. CASE HandleReturns(t) \/ HandleThrows(t)
  <2>1. UNCHANGED <<state, mailbox, actorAlive>>
        BY <1>4 DEF HandleReturns, HandleThrows
  <2>2. \A u \in Threads : exec'[u] = "handle" <=> exec[u] = "handle" /\ u # t
        BY <1>0, <1>4 DEF HandleReturns, HandleThrows, TypeOK
  <2>3. t \in Handlers /\ Handlers' = Handlers \ {t}
        BY <1>4, <2>2 DEF Handlers, HandleReturns, HandleThrows
  <2>4. Promise!Leave(t)
        BY <2>1, <2>3 DEF Promise!Leave, Handlers
  <2> QED BY <2>4 DEF Promise!Next
<1>5. CASE FinalizeSwap(t)
  <2>1. finalizeStarted /\ state \in Closed /\ actorAlive
        BY <1>0, <1>5 DEF FinalizeSwap, FinalizeInv, Finalizing
  <2>2. Handlers = {}
        BY <1>0, <2>1 DEF FinalizeInv, Executing, Handlers
  <2>3. Promise!Discard
        BY <1>5, <2>1, <2>2 DEF FinalizeSwap, Promise!Discard, Handlers
  <2> QED BY <2>3 DEF Promise!Next
<1>6. CASE FinalizeDestroy(t)
  <2>1. finalizeStarted /\ state \in Closed /\ actorAlive /\ mailbox = << >>
        BY <1>0, <1>6 DEF FinalizeDestroy, FinalizeInv, Finalizing, DeadIsClean
  <2>2. Handlers = {}
        BY <1>0, <2>1 DEF FinalizeInv, Executing, Handlers
  <2>3. Promise!Destroy
        BY <1>6, <2>1, <2>2 DEF FinalizeDestroy, Promise!Destroy, Handlers
  <2> QED BY <2>3 DEF Promise!Next
<1>7. CASE \/ TrySchedule(t) \/ AbortSchedule(t) \/ ExecuteBegin(t)
           \/ ExecuteEnd(t) \/ FinalizeDead(t)
  <2>1. mailbox' = mailbox /\ actorAlive' = actorAlive
        BY <1>7 DEF TrySchedule, AbortSchedule, ExecuteBegin, ExecuteEnd, FinalizeDead
  <2>2. state' \in Closed <=> state \in Closed
        BY <1>0, <1>7 DEF TrySchedule, AbortSchedule, ExecuteBegin, ExecuteEnd,
           FinalizeDead, FinalizeInv, Finalizing, Closed
  <2>3. \A u \in Threads : exec'[u] = "handle" <=> exec[u] = "handle"
        BY <1>0, <1>7 DEF TypeOK, TrySchedule, AbortSchedule, ExecuteBegin, ExecuteEnd,
           FinalizeDead
  <2> QED BY <2>1, <2>2, <2>3, SameHandlers DEF Handlers
<1>8. CASE \/ SubmitCheck(t) \/ SubmitEnqueue(t) \/ StopLock(t) \/ Pop(t) \/ Recheck(t)
           \/ FinalizeGate(t) \/ FinalizeUnregister(t)
  <2>1. UNCHANGED <<state, mailbox, actorAlive>>
        BY <1>8 DEF SubmitCheck, SubmitEnqueue, StopLock, Pop, Recheck, FinalizeGate,
           FinalizeUnregister
  <2>2. \A u \in Threads : exec'[u] = "handle" <=> exec[u] = "handle"
        BY <1>0, <1>8 DEF TypeOK, SubmitCheck, SubmitEnqueue, StopLock, Pop, Recheck,
           FinalizeGate, FinalizeUnregister
  <2> QED BY <2>1, <2>2, SameHandlers DEF Handlers
<1> QED BY <1>1, <1>2, <1>3, <1>4, <1>5, <1>6, <1>7, <1>8 DEF Proceed

\* Every step maps to a step of the promise or to a stutter.
LEMMA StepImplements == IInv /\ [Next]_vars => [Promise!Next]_(Promise!vars)
<1> SUFFICES ASSUME IInv, [Next]_vars PROVE Promise!Next \/ UNCHANGED Promise!vars
    OBVIOUS
<1> USE DEF GoExec, GoCall, Accepts, ScheduleWins,
            Rollback, StopWins, StopFinalizes, HasEntry, MayPop, HasMail, AlreadyFinalizing, poolVars, cbVars, frameVars, envVars
<1>0. TypeOK
      BY DEF IInv
<1>1. CASE UNCHANGED vars
      BY <1>1 DEF vars, Promise!vars
<1>2. ASSUME NEW t \in Threads, Begin(t) \/ WorkerExit(t) PROVE UNCHANGED Promise!vars
  <2>1. UNCHANGED <<state, mailbox, actorAlive>>
        BY <1>2 DEF Begin, Send, CallStop, Dequeue, WorkerExit
  <2>2. \A u \in Threads : exec'[u] = "handle" <=> exec[u] = "handle"
        BY <1>0, <1>2 DEF TypeOK, Begin, Send, CallStop, StopLoad, Dequeue, WorkerExit
  <2> QED BY <2>1, <2>2, SameHandlers DEF Handlers, Promise!vars
<1>3. ASSUME NEW t \in Threads, Proceed(t) PROVE Promise!Next \/ UNCHANGED Promise!vars
      BY <1>3, ProceedImplements
<1>4. CASE PoolStop \/ DiscardPending
      BY <1>4 DEF PoolStop, DiscardPending, Promise!vars
<1> QED BY <1>1, <1>2, <1>3, <1>4 DEF Next

\* Messages are handled one at a time in the order in which they were accepted,
\* none is taken after Stop, and the cleanup follows: every behaviour of the
\* control block is a behaviour of the promise.
THEOREM Implementation == Spec => ImplementsActor
<1>1. Init => Promise!Init
  <2> SUFFICES ASSUME Init PROVE Promise!Init
      OBVIOUS
  <2>1. {t \in Threads : exec[t] = "handle"} = {}
        BY DEF Init
  <2> QED BY <2>1 DEF Init, Promise!Init, Closed
<1> QED BY <1>1, StepImplements, Invariance, PTL DEF Spec, ImplementsActor, Promise!Spec
=============================================================================
