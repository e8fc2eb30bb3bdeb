------------------------ MODULE ActorShutdown_proofs ------------------------
(***************************************************************************)
(* Proofs about one actor during Shutdown, for any numbers of workers,     *)
(* clients and messages.  The invariant of the control block survives the  *)
(* steps of FinalizeAll as it is: the workers have been joined before a    *)
(* second thread gets to Finalize, and the once gate separates the two.    *)
(***************************************************************************)
EXTENDS ActorShutdown, ActorControlBlock_proofs

-----------------------------------------------------------------------------
(* The inductive invariant *)

\* One thread is inside Shutdown, and runs no user code there.  Until it calls
\* Stop for the actor it makes no leaf call.
ShutFrameInv ==
  /\ (\E t \in Threads : shut[t] # "none") \/ shutter # {} => shutdownStarted
  /\ \A t \in Threads : shut[t] # "none" => shutter = {} /\ exec[t] = "out"
  /\ \A t, u \in Threads : shut[t] # "none" /\ shut[u] # "none" => t = u
  /\ \A t \in Threads :
       shut[t] \in {"stop", "join", "discard", "snapshot", "stopActor"} => call[t] = "none"

\* Shutdown is past the join of the workers.
PastJoin ==
  shutter # {} \/ \E t \in Threads : shut[t] \notin {"none", "stop", "join"}

\* Only a worker that has not left its loop executes, and none does after the join.
WorkersInv ==
  /\ \A t \in Threads : exec[t] # "out" => t \in Workers \ exited
  /\ \A t \in Threads : shut[t] \notin {"none", "stop"} => stopping
  /\ PastJoin => exited = Workers

\* What a Stop has read of a closed state stays true; the registry loses the actor
\* only to a Finalize that began; when FinalizeAll goes on, its Stop has closed the
\* actor and its Finalize has passed the once gate or met another that did; and
\* the thread that has returned cleans nothing up any more.
OutcomeInv ==
  /\ \A t \in Threads : prev[t] \in Closed => state \in Closed
  /\ ~registered => finalizeStarted
  /\ \A t \in Threads : shut[t] = "finalizeActor" =>
       state \in Closed \/ call[t] \in {"stopLock", "stopCas"}
  /\ \A t \in Threads : shut[t] = "clear" => finalizeStarted \/ call[t] = "finGate"
  /\ shutter # {} => ~registered
  /\ \A t \in shutter : call[t] # "finGate" /\ ~Finalizing(t)

ShutInv == IInv /\ ShutTypeOK /\ ShutFrameInv /\ WorkersInv /\ OutcomeInv

-----------------------------------------------------------------------------
(* The control block under the steps of Shutdown *)

\* The initial state satisfies the invariant.
LEMMA InitShutInv == ShutInit => ShutInv
<1> SUFFICES ASSUME ShutInit PROVE ShutInv
    OBVIOUS
<1>1. IInv /\ TypeOK
      BY InitIInv DEF ShutInit, IInv
<1>2. ShutTypeOK
      BY <1>1 DEF ShutInit, ShutTypeOK, ShutPc
<1>3. ShutFrameInv /\ WorkersInv /\ OutcomeInv
      BY DEF ShutInit, Init, ShutFrameInv, WorkersInv, PastJoin, OutcomeInv, Closed
<1> QED BY <1>1, <1>2, <1>3 DEF ShutInv

\* A step of the control block or of a worker is one of ActorControlBlock.
LEMMA ActorStepIsNext ==
  ASSUME NEW t \in Threads, ActorStep(t)
  PROVE  [Next]_vars /\ UNCHANGED shutVars
  BY DEF ActorStep, Next

\* Setting _stopping.
LEMMA StopKeepsIInv ==
  ASSUME IInv, NEW t \in Threads, ShutdownStop(t)
  PROVE  IInv'
<1>1. /\ stopping' = TRUE
      /\ UNCHANGED <<cbVars, queued, exited, frameVars, envVars>>
      BY DEF ShutdownStop
<1> USE DEF cbVars, frameVars, envVars
<1>2. TypeOK'
      BY <1>1 DEF IInv, TypeOK
<1>3. FrameInv' /\ LockInv'
      BY <1>1 DEF IInv, FrameInv, LockInv, HoldsLock
<1>4. TokenInv'
      BY <1>1 DEF IInv, TokenInv, SerialExecution, Ticket, Submitting, Executing
<1>5. FinalizeInv'
      BY <1>1 DEF IInv, FinalizeInv, FinalizeOnce, Finalizing, DeadIsClean, Executing
<1>6. ProgressInv'
      BY <1>1 DEF ProgressInv, NoLostWakeup, StopIsCleanedUp
<1> QED BY <1>2, <1>3, <1>4, <1>5, <1>6 DEF IInv

\* The queues are emptied when nobody executes.
LEMMA DiscardKeepsIInv ==
  ASSUME IInv, stopping, NEW t \in Threads, ShutdownDiscard(t)
  PROVE  IInv'
<1>1. /\ queued' = 0
      /\ UNCHANGED <<cbVars, stopping, exited, frameVars, envVars>>
      BY DEF ShutdownDiscard
<1> USE DEF cbVars, frameVars, envVars
<1>2. TypeOK'
      BY <1>1 DEF IInv, TypeOK
<1>3. FrameInv' /\ LockInv'
      BY <1>1 DEF IInv, FrameInv, LockInv, HoldsLock
<1>4. TokenInv'
      BY <1>1 DEF IInv, TokenInv, SerialExecution, Ticket, Submitting, Executing
<1>5. FinalizeInv'
      BY <1>1 DEF IInv, FinalizeInv, FinalizeOnce, Finalizing, DeadIsClean, Executing
<1>6. ProgressInv'
      BY <1>1 DEF ProgressInv, NoLostWakeup, StopIsCleanedUp
<1> QED BY <1>2, <1>3, <1>4, <1>5, <1>6 DEF IInv

\* A thread without a call begins a Stop, or, when the actor is closed and
\* nobody executes, a Finalize.
LEMMA CallKeepsIInv ==
  ASSUME IInv, stopping, NEW t \in Threads, call[t] = "none", exec[t] = "out",
         \/ call' = [call EXCEPT ![t] = "stopLock"] /\ prev' = [prev EXCEPT ![t] = state]
         \/ /\ call' = [call EXCEPT ![t] = "finGate"] /\ prev' = prev
            /\ state \in Closed /\ \A u \in Threads : ~Executing(u),
         UNCHANGED <<cbVars, poolVars, exec, processed, message, envVars>>
  PROVE  IInv'
<1> USE DEF cbVars, poolVars, envVars
<1>0. TypeOK /\ FrameInv /\ LockInv /\ TokenInv /\ FinalizeInv /\ ProgressInv
      BY DEF IInv
<1>1. PICK p \in {"stopLock", "finGate"} :
        /\ call' = [call EXCEPT ![t] = p]
        /\ p = "finGate" => state \in Closed /\ \A u \in Threads : ~Executing(u)
      OBVIOUS
<1>2. /\ call'[t] = p
      /\ \A u \in Threads \ {t} : call'[u] = call[u]
      BY <1>0, <1>1 DEF TypeOK
<1>3. TypeOK'
  <2>1. call' \in [Threads -> CallPc]
        BY <1>0, <1>1 DEF TypeOK, CallPc
  <2>2. prev' \in [Threads -> ActorState]
        BY <1>0 DEF TypeOK
  <2> QED BY <1>0, <2>1, <2>2 DEF TypeOK
<1>4. FrameInv' /\ LockInv'
      BY <1>0, <1>2 DEF FrameInv, LockInv, HoldsLock
<1>5. TokenInv'
      BY <1>0, <1>2 DEF TokenInv, SerialExecution, Ticket, Submitting, Executing
<1>6. FinalizeInv'
      BY <1>0, <1>1, <1>2 DEF FinalizeInv, FinalizeOnce, Finalizing, DeadIsClean, Executing
<1>7. ProgressInv'
      BY <1>0, <1>2 DEF ProgressInv, NoLostWakeup, StopIsCleanedUp
<1> QED BY <1>3, <1>4, <1>5, <1>6, <1>7 DEF IInv

\* The registry is cleared.
LEMMA ClearKeepsIInv ==
  ASSUME IInv, NEW t \in Threads, ClearRegistry(t)
  PROVE  IInv'
<1>1. /\ registered' = FALSE
      /\ UNCHANGED <<state, mailbox, locked, finalizeStarted, actorAlive,
                     poolVars, frameVars, envVars>>
      BY DEF ClearRegistry
<1> USE DEF poolVars, frameVars, envVars
<1>2. TypeOK'
      BY <1>1 DEF IInv, TypeOK
<1>3. FrameInv' /\ LockInv'
      BY <1>1 DEF IInv, FrameInv, LockInv, HoldsLock
<1>4. TokenInv'
      BY <1>1 DEF IInv, TokenInv, SerialExecution, Ticket, Submitting, Executing
<1>5. FinalizeInv'
      BY <1>1 DEF IInv, FinalizeInv, FinalizeOnce, Finalizing, DeadIsClean, Executing
<1>6. ProgressInv'
      BY <1>1 DEF IInv, ProgressInv, NoLostWakeup, StopIsCleanedUp, Ticket, Submitting,
             Executing, Finalizing
<1> QED BY <1>2, <1>3, <1>4, <1>5, <1>6 DEF IInv

\* Nobody executes after the join.
LEMMA NobodyExecutes ==
  ASSUME WorkersInv, PastJoin
  PROVE  \A t \in Threads : exec[t] = "out" /\ ~Executing(t)
  BY DEF WorkersInv, Executing

\* Every step keeps the invariant of the control block.
LEMMA IInvKept == ShutInv /\ [ShutNext]_allVars => IInv'
<1> SUFFICES ASSUME ShutInv, [ShutNext]_allVars PROVE IInv'
    OBVIOUS
<1>0. IInv /\ ShutTypeOK /\ ShutFrameInv /\ WorkersInv /\ OutcomeInv
      BY DEF ShutInv
<1>1. ASSUME UNCHANGED vars PROVE IInv'
      BY <1>0, <1>1, IInvStep
<1>2. ASSUME NEW t \in Threads, ActorStep(t) PROVE IInv'
      BY <1>0, <1>2, IInvStep, ActorStepIsNext
<1>3. ASSUME NEW t \in Threads, CallShutdown(t) \/ ShutdownJoin(t) \/ Snapshot(t) PROVE IInv'
      BY <1>1, <1>3 DEF CallShutdown, ShutdownJoin, Snapshot
<1>4. ASSUME NEW t \in Threads, ShutdownStop(t) PROVE IInv'
      BY <1>0, <1>4, StopKeepsIInv
<1>5. ASSUME NEW t \in Threads, ShutdownDiscard(t) PROVE IInv'
  <2>1. stopping
        BY <1>0, <1>5 DEF ShutdownDiscard, WorkersInv
  <2> QED BY <1>0, <1>5, <2>1, DiscardKeepsIInv
<1>6. ASSUME NEW t \in Threads, SnapshotStop(t) PROVE IInv'
  <2>1. stopping /\ call[t] = "none" /\ exec[t] = "out"
        BY <1>0, <1>6 DEF SnapshotStop, WorkersInv, ShutFrameInv
  <2>2. /\ call' = [call EXCEPT ![t] = "stopLock"] /\ prev' = [prev EXCEPT ![t] = state]
        /\ UNCHANGED <<cbVars, poolVars, exec, processed, message, envVars>>
        BY <1>6 DEF SnapshotStop, StopActor, StopLoad, GoCall
  <2> QED BY <1>0, <2>1, <2>2, CallKeepsIInv
<1>7. ASSUME NEW t \in Threads, SnapshotFinalize(t) PROVE IInv'
  <2>1. stopping /\ call[t] = "none" /\ exec[t] = "out"
        BY <1>0, <1>7 DEF SnapshotFinalize, WorkersInv, ShutFrameInv
  <2>2. /\ call' = [call EXCEPT ![t] = "finGate"] /\ prev' = prev
        /\ UNCHANGED <<cbVars, poolVars, exec, processed, message, envVars>>
        BY <1>7 DEF SnapshotFinalize, FinalizeActor, GoCall
  <2>3. state \in Closed /\ \A u \in Threads : ~Executing(u)
    <3>1. shut[t] = "finalizeActor"
          BY <1>7 DEF SnapshotFinalize
    <3>2. PastJoin
          BY <3>1 DEF PastJoin
    <3> QED BY <1>0, <2>1, <3>1, <3>2, NobodyExecutes DEF OutcomeInv
  <2> QED BY <1>0, <2>1, <2>2, <2>3, CallKeepsIInv
<1>8. ASSUME NEW t \in Threads, ClearRegistry(t) PROVE IInv'
      BY <1>0, <1>8, ClearKeepsIInv
<1>9. CASE UNCHANGED allVars
      BY <1>1, <1>9 DEF allVars
<1> QED BY <1>2, <1>3, <1>4, <1>5, <1>6, <1>7, <1>8, <1>9 DEF ShutNext, ShutdownStep

-----------------------------------------------------------------------------
(* What a step of the control block or of a worker does to the threads *)

\* It moves one thread, takes back no flag, and leaves a closed actor closed.
LEMMA ActorStepFrame ==
  ASSUME IInv, NEW t \in Threads, ActorStep(t)
  PROVE  /\ \A u \in Threads \ {t} :
              exec'[u] = exec[u] /\ call'[u] = call[u] /\ prev'[u] = prev[u]
         /\ prev'[t] \in {prev[t], state}
         /\ stopping' = stopping
         /\ registered' \in {registered, FALSE}
         /\ finalizeStarted => finalizeStarted'
         /\ state \in Closed => state' \in Closed
<1> USE DEF GoExec, GoCall
<1>0. TypeOK
      BY DEF IInv
<1>1. state \in Closed => state' \in Closed
      BY ActorStepIsNext, FinalStep DEF Final
<1>2. CASE Begin(t) \/ WorkerExit(t)
  <2>1. UNCHANGED <<stopping, registered, finalizeStarted>>
        BY <1>2 DEF Begin, Send, CallStop, Dequeue, WorkerExit, poolVars, cbVars
  <2>2. \A u \in Threads \ {t} :
          exec'[u] = exec[u] /\ call'[u] = call[u] /\ prev'[u] = prev[u]
        BY <1>0, <1>2 DEF TypeOK, Begin, Send, CallStop, StopLoad, Dequeue, WorkerExit, frameVars
  <2>3. prev'[t] \in {prev[t], state}
        BY <1>0, <1>2 DEF TypeOK, Begin, Send, CallStop, StopLoad, Dequeue, WorkerExit, frameVars
  <2> QED BY <1>1, <2>1, <2>2, <2>3
<1>3. CASE Proceed(t)
  <2> USE DEF Proceed, SendPush, TrySchedule, SubmitCheck, SubmitEnqueue, AbortSchedule,
              StopLock, StopCas, ExecuteBegin, Pop, PopFront, HandleReturns, HandleThrows,
              StopLoad, ExecuteEnd, Recheck, FinalizeGate, FinalizeSwap, FinalizeDestroy,
              FinalizeUnregister, FinalizeDead
  <2>1. stopping' = stopping /\ registered' \in {registered, FALSE}
        BY <1>3 DEF poolVars, cbVars
  <2>2. finalizeStarted => finalizeStarted'
        BY <1>3 DEF cbVars
  <2>3. \A u \in Threads \ {t} : exec'[u] = exec[u]
        BY <1>0, <1>3 DEF TypeOK
  <2>4. \A u \in Threads \ {t} : call'[u] = call[u]
        BY <1>0, <1>3 DEF TypeOK
  <2>5. /\ \A u \in Threads \ {t} : prev'[u] = prev[u]
        /\ prev'[t] \in {prev[t], state}
        BY <1>0, <1>3 DEF TypeOK
  <2> QED BY <1>1, <2>1, <2>2, <2>3, <2>4, <2>5
<1> QED BY <1>2, <1>3 DEF ActorStep

\* A thread executes only from a worker's dequeue on; a worker that executes does
\* not leave its loop.
LEMMA ActorStepWorkers ==
  ASSUME IInv, NEW t \in Threads, ActorStep(t)
  PROVE  /\ exec'[t] # "out" => exec[t] # "out" \/ t \in Workers \ exited
         /\ exited' = exited \/ (t \in Workers \ exited /\ exited' = exited \cup {t}
                                 /\ exec' = exec /\ exec[t] = "out")
<1> USE DEF GoExec, poolVars, frameVars
<1>0. TypeOK
      BY DEF IInv
<1>1. CASE Begin(t) \/ WorkerExit(t)
      BY <1>0, <1>1 DEF TypeOK, Begin, Send, CallStop, Dequeue, WorkerExit
<1>2. CASE Proceed(t)
      BY <1>0, <1>2 DEF TypeOK, Proceed, SendPush, TrySchedule, SubmitCheck, SubmitEnqueue,
         AbortSchedule, StopLock, StopCas, ExecuteBegin, Pop, PopFront, HandleReturns,
         HandleThrows, ExecuteEnd, Recheck, FinalizeGate, FinalizeSwap, FinalizeDestroy,
         FinalizeUnregister, FinalizeDead
<1> QED BY <1>1, <1>2 DEF ActorStep

\* What a leaf call does on a thread that executes nothing: it begins no run, it
\* ends a Stop only when the actor is closed, passes or ends at the once gate, and
\* reaches Finalize only by closing the actor itself.
LEMMA LeafStep ==
  ASSUME IInv, NEW t \in Threads, Proceed(t) \/ WorkerExit(t), exec[t] = "out"
  PROVE  /\ exec'[t] = "out"
         /\ call[t] = "none" => call'[t] = "none"
         /\ call[t] \in {"stopLock", "stopCas"} =>
              \/ call'[t] \in {"stopLock", "stopCas"}
              \/ state' \in Closed \/ prev[t] \in Closed
         /\ call[t] = "finGate" => finalizeStarted'
         /\ call[t] # "finGate" /\ ~Finalizing(t) /\ state \in Closed =>
              call'[t] # "finGate" /\ ~Finalizing(t)'
         /\ registered' # registered => finalizeStarted
<1> USE DEF GoExec, GoCall
<1>0. TypeOK /\ FinalizeInv
      BY DEF IInv
<1>1. CASE WorkerExit(t)
      BY <1>0, <1>1 DEF WorkerExit, frameVars, cbVars, Finalizing, FinalizeInv
<1>2. CASE StopCas(t)
      BY <1>0, <1>2 DEF StopCas, StopWins, TypeOK, Closed, Finalizing
<1>3. CASE StopLock(t)
      BY <1>0, <1>3 DEF StopLock, TypeOK, Finalizing
<1>4. CASE SendPush(t) \/ TrySchedule(t) \/ SubmitCheck(t) \/ SubmitEnqueue(t) \/ AbortSchedule(t)
      BY <1>0, <1>4 DEF SendPush, TrySchedule, SubmitCheck, SubmitEnqueue, AbortSchedule,
         TypeOK, Finalizing, cbVars
<1>5. CASE \/ FinalizeGate(t) \/ FinalizeSwap(t) \/ FinalizeDestroy(t)
           \/ FinalizeUnregister(t) \/ FinalizeDead(t)
      BY <1>0, <1>5 DEF FinalizeGate, FinalizeSwap, FinalizeDestroy, FinalizeUnregister,
         FinalizeDead, TypeOK, Finalizing, FinalizeInv
<1>6. ~(\/ ExecuteBegin(t) \/ Pop(t) \/ PopFront(t) \/ HandleReturns(t) \/ HandleThrows(t)
        \/ ExecuteEnd(t) \/ Recheck(t))
      BY DEF ExecuteBegin, Pop, PopFront, HandleReturns, HandleThrows, ExecuteEnd, Recheck
<1> QED BY <1>1, <1>2, <1>3, <1>4, <1>5, <1>6 DEF Proceed

-----------------------------------------------------------------------------
(* Every step preserves the rest of the invariant *)

\* The types.
LEMMA ShutTypeStep == ShutInv /\ [ShutNext]_allVars => ShutTypeOK'
<1> SUFFICES ASSUME ShutInv, [ShutNext]_allVars PROVE ShutTypeOK'
    OBVIOUS
<1>1. TypeOK'
      BY IInvKept DEF IInv
<1>2. ShutTypeOK /\ TypeOK
      BY DEF ShutInv, ShutTypeOK
<1>3. CASE UNCHANGED allVars
      BY <1>1, <1>2, <1>3 DEF allVars, shutVars, ShutTypeOK
<1>4. ASSUME NEW t \in Threads, ActorStep(t) PROVE ShutTypeOK'
      BY <1>1, <1>2, <1>4 DEF ActorStep, shutVars, ShutTypeOK
<1>5. ASSUME NEW t \in Threads, CallShutdown(t) \/ ShutdownStep(t) PROVE ShutTypeOK'
  <2> USE DEF CallShutdown, ShutdownStep, ShutdownStop, ShutdownJoin, ShutdownDiscard,
              Snapshot, SnapshotStop, SnapshotFinalize, ClearRegistry, GoShut
  <2>1. shut' \in [Threads -> ShutPc]
        BY <1>2, <1>5 DEF ShutTypeOK, ShutPc
  <2>2. shutdownStarted' \in BOOLEAN
        BY <1>2, <1>5 DEF ShutTypeOK
  <2>3. inSnapshot' \in BOOLEAN
        BY <1>2, <1>5 DEF ShutTypeOK, TypeOK
  <2>4. shutter' \subseteq Threads
        BY <1>2, <1>5 DEF ShutTypeOK
  <2> QED BY <1>1, <2>1, <2>2, <2>3, <2>4 DEF ShutTypeOK
<1> QED BY <1>3, <1>4, <1>5 DEF ShutNext

\* One thread is inside Shutdown.
LEMMA ShutFrameStep == ShutInv /\ [ShutNext]_allVars => ShutFrameInv'
<1> SUFFICES ASSUME ShutInv, [ShutNext]_allVars PROVE ShutFrameInv'
    OBVIOUS
<1>0. IInv /\ ShutTypeOK /\ TypeOK /\ ShutFrameInv /\ WorkersInv
      BY DEF ShutInv, ShutTypeOK
<1>1. CASE UNCHANGED allVars
      BY <1>0, <1>1 DEF allVars, vars, frameVars, shutVars, ShutFrameInv
<1>2. ASSUME NEW t \in Threads, ActorStep(t) PROVE ShutFrameInv'
  <2>1. UNCHANGED shutVars
        BY <1>2 DEF ActorStep
  <2>2. \A u \in Threads \ {t} : exec'[u] = exec[u] /\ call'[u] = call[u]
        BY <1>0, <1>2, ActorStepFrame
  <2>3. shut[t] # "none" =>
          exec[t] = "out" /\ exec'[t] = "out" /\ (call[t] = "none" => call'[t] = "none")
        BY <1>0, <1>2, LeafStep DEF ActorStep, ShutFrameInv
  <2> QED BY <1>0, <2>1, <2>2, <2>3 DEF shutVars, ShutFrameInv
<1>3. ASSUME NEW t \in Threads, CallShutdown(t) PROVE ShutFrameInv'
  <2>1. /\ exec[t] = "out" /\ call[t] = "none" /\ ~shutdownStarted /\ shutdownStarted'
        /\ shut' = [shut EXCEPT ![t] = "stop"]
        /\ UNCHANGED <<exec, call, shutter>>
        BY <1>3 DEF CallShutdown, GoShut, InUserCode, vars, frameVars
  <2>2. shutter = {} /\ \A u \in Threads : shut[u] = "none"
        BY <1>0, <2>1 DEF ShutFrameInv
  <2> QED BY <1>0, <2>1, <2>2 DEF ShutFrameInv, ShutTypeOK
<1>4. ASSUME NEW t \in Threads, ShutdownStep(t) PROVE ShutFrameInv'
  <2>1. /\ shut[t] # "none" /\ shutter = {} /\ shutdownStarted /\ exec[t] = "out"
        /\ \A u \in Threads \ {t} : shut[u] = "none"
        BY <1>0, <1>4 DEF ShutFrameInv, ShutdownStep, ShutdownStop, ShutdownJoin,
           ShutdownDiscard, Snapshot, SnapshotStop, SnapshotFinalize, ClearRegistry
  <2>2. shutdownStarted' = shutdownStarted /\ exec' = exec
        BY <1>4 DEF ShutdownStep, ShutdownStop, ShutdownJoin, ShutdownDiscard, Snapshot,
           SnapshotStop, SnapshotFinalize, ClearRegistry, vars, frameVars
  <2>3. CASE ClearRegistry(t)
    <3>1. \A u \in Threads : shut'[u] = "none"
          BY <1>0, <2>1, <2>3 DEF ClearRegistry, GoShut, ShutTypeOK
    <3> QED BY <2>1, <2>2, <3>1 DEF ShutFrameInv
  <2>4. CASE ~ClearRegistry(t)
    <3>1. shutter' = {} /\ \A u \in Threads \ {t} : shut'[u] = "none"
          BY <1>0, <1>4, <2>1, <2>4 DEF ShutTypeOK, GoShut, ShutdownStep, ShutdownStop,
             ShutdownJoin, ShutdownDiscard, Snapshot, SnapshotStop, SnapshotFinalize
    <3>2. \/ call' = call /\ shut[t] \in {"stop", "join", "discard", "snapshot"}
          \/ shut'[t] \in {"finalizeActor", "clear"}
          BY <1>0, <1>4, <2>4 DEF ShutTypeOK, GoShut, ShutdownStep, ShutdownStop,
             ShutdownJoin, ShutdownDiscard, Snapshot, SnapshotStop, SnapshotFinalize, vars,
             frameVars
    <3>3. shut'[t] \in {"stop", "join", "discard", "snapshot", "stopActor"} => call'[t] = "none"
          BY <1>0, <3>2 DEF ShutFrameInv
    <3> QED BY <2>1, <2>2, <3>1, <3>3 DEF ShutFrameInv
  <2> QED BY <2>3, <2>4
<1> QED BY <1>1, <1>2, <1>3, <1>4 DEF ShutNext

\* The workers are gone when Shutdown goes on past the join.
LEMMA WorkersStep == ShutInv /\ [ShutNext]_allVars => WorkersInv'
<1> SUFFICES ASSUME ShutInv, [ShutNext]_allVars PROVE WorkersInv'
    OBVIOUS
<1>0. IInv /\ ShutTypeOK /\ TypeOK /\ ShutFrameInv /\ WorkersInv
      BY DEF ShutInv, ShutTypeOK
<1>1. CASE UNCHANGED allVars
      BY <1>0, <1>1 DEF allVars, vars, frameVars, poolVars, shutVars, WorkersInv, PastJoin
<1>2. ASSUME NEW t \in Threads, ActorStep(t) PROVE WorkersInv'
  <2>1. UNCHANGED <<shut, shutter, stopping>>
        BY <1>0, <1>2, ActorStepFrame DEF ActorStep, shutVars
  <2>2. \A u \in Threads \ {t} : exec'[u] = exec[u]
        BY <1>0, <1>2, ActorStepFrame
  <2>3. /\ exec'[t] # "out" => exec[t] # "out" \/ t \in Workers \ exited
        /\ exited' = exited \/ (t \in Workers \ exited /\ exited' = exited \cup {t}
                                /\ exec' = exec /\ exec[t] = "out")
        BY <1>0, <1>2, ActorStepWorkers
  <2>4. \A u \in Threads : exec'[u] # "out" => u \in Workers \ exited'
        BY <1>0, <2>2, <2>3 DEF WorkersInv
  <2>5. PastJoin' => exited' = Workers
        BY <1>0, <2>1, <2>3 DEF WorkersInv, PastJoin
  <2> QED BY <1>0, <2>1, <2>4, <2>5 DEF WorkersInv
<1>3. ASSUME NEW t \in Threads, CallShutdown(t) \/ ShutdownStep(t) PROVE WorkersInv'
  <2> USE DEF CallShutdown, ShutdownStep, ShutdownStop, ShutdownJoin, ShutdownDiscard,
              Snapshot, SnapshotStop, SnapshotFinalize, ClearRegistry, GoShut
  <2>1. UNCHANGED <<exec, exited>> /\ (stopping => stopping')
        BY <1>3 DEF vars, poolVars, frameVars
  <2>2. \A u \in Threads \ {t} : shut'[u] = shut[u]
        BY <1>0, <1>3 DEF ShutTypeOK
  <2>3. shut'[t] \notin {"none", "stop"} => stopping'
    <3>1. CASE ShutdownStop(t)
          BY <3>1
    <3>2. CASE ~ShutdownStop(t)
          BY <1>0, <1>3, <2>1, <3>2 DEF ShutTypeOK, WorkersInv
    <3> QED BY <3>1, <3>2
  <2>4. \A u \in Threads : shut'[u] \notin {"none", "stop"} => stopping'
        BY <1>0, <2>1, <2>2, <2>3 DEF WorkersInv
  <2>5. shut'[t] \notin {"none", "stop", "join"} => PastJoin \/ exited = Workers
        BY <1>0, <1>3 DEF ShutTypeOK, PastJoin, Joined
  <2>6. shutter' # {} => PastJoin
        BY <1>3 DEF PastJoin
  <2>7. PastJoin' => exited' = Workers
        BY <1>0, <2>1, <2>2, <2>5, <2>6 DEF WorkersInv, PastJoin
  <2> QED BY <1>0, <2>1, <2>4, <2>7 DEF WorkersInv
<1> QED BY <1>2, <1>1, <1>3 DEF ShutNext

\* What Stop and Finalize have done stays done while the clients go on calling.
LEMMA OutcomeActorStep ==
  ASSUME ShutInv, NEW t \in Threads, ActorStep(t)
  PROVE  OutcomeInv'
<1>0. IInv /\ TypeOK /\ FinalizeInv /\ ShutFrameInv /\ WorkersInv /\ OutcomeInv
      BY DEF ShutInv, IInv
<1>1. UNCHANGED <<shut, shutter>>
      BY DEF ActorStep, shutVars
<1>2. /\ \A u \in Threads \ {t} :
            exec'[u] = exec[u] /\ call'[u] = call[u] /\ prev'[u] = prev[u]
      /\ prev'[t] \in {prev[t], state}
      /\ registered' \in {registered, FALSE}
      /\ finalizeStarted => finalizeStarted'
      /\ state \in Closed => state' \in Closed
      BY <1>0, ActorStepFrame
<1>3. \A u \in Threads : prev'[u] \in Closed => state' \in Closed
      BY <1>0, <1>2 DEF OutcomeInv
<1>4. ~registered' => finalizeStarted'
  <2>1. registered' = registered \/ finalizeStarted
        BY <1>0 DEF ActorStep, Begin, Send, CallStop, Dequeue, WorkerExit, Proceed, SendPush,
           TrySchedule, SubmitCheck, SubmitEnqueue, AbortSchedule, StopLock, StopCas,
           ExecuteBegin, Pop, PopFront, HandleReturns, HandleThrows, ExecuteEnd, Recheck,
           FinalizeGate, FinalizeSwap, FinalizeDestroy, FinalizeUnregister, FinalizeDead,
           cbVars, Finalizing, FinalizeInv
  <2> QED BY <1>0, <1>2, <2>1 DEF OutcomeInv
<1>5. shut[t] # "none" => exec[t] = "out" /\ (Proceed(t) \/ WorkerExit(t))
      BY <1>0 DEF ActorStep, ShutFrameInv
<1>6. \A u \in Threads : shut'[u] = "finalizeActor" =>
        state' \in Closed \/ call'[u] \in {"stopLock", "stopCas"}
  <2>1. shut[t] = "finalizeActor" => state' \in Closed \/ call'[t] \in {"stopLock", "stopCas"}
        BY <1>0, <1>2, <1>5, LeafStep DEF OutcomeInv
  <2> QED BY <1>0, <1>1, <1>2, <2>1 DEF OutcomeInv
<1>7. \A u \in Threads : shut'[u] = "clear" => finalizeStarted' \/ call'[u] = "finGate"
  <2>1. shut[t] = "clear" => finalizeStarted'
        BY <1>0, <1>2, <1>5, LeafStep DEF OutcomeInv
  <2> QED BY <1>0, <1>1, <1>2, <2>1 DEF OutcomeInv
<1>8. shutter' # {} => ~registered'
      BY <1>0, <1>1, <1>2 DEF OutcomeInv
<1>9. \A u \in shutter' : call'[u] # "finGate" /\ ~Finalizing(u)'
  <2>1. ASSUME t \in shutter PROVE call'[t] # "finGate" /\ ~Finalizing(t)'
    <3>1. state \in Closed /\ call[t] # "finGate" /\ ~Finalizing(t)
          BY <1>0, <2>1 DEF OutcomeInv, FinalizeInv
    <3>2. exec[t] = "out"
          BY <1>0, <2>1, NobodyExecutes DEF PastJoin
    <3>3. CASE Begin(t)
          BY <1>0, <3>1, <3>3 DEF Begin, Send, CallStop, StopLoad, Dequeue, GoCall, TypeOK,
             Finalizing
    <3>4. CASE Proceed(t) \/ WorkerExit(t)
          BY <1>0, <3>1, <3>2, <3>4, LeafStep
    <3> QED BY <3>3, <3>4 DEF ActorStep
  <2>2. shutter \subseteq Threads
        BY DEF ShutInv, ShutTypeOK
  <2> QED BY <1>0, <1>1, <1>2, <2>1, <2>2 DEF OutcomeInv, Finalizing
<1> QED BY <1>3, <1>4, <1>6, <1>7, <1>8, <1>9 DEF OutcomeInv

\* What Shutdown itself does.
LEMMA OutcomeShutdownStep ==
  ASSUME ShutInv, NEW t \in Threads, CallShutdown(t) \/ ShutdownStep(t)
  PROVE  OutcomeInv'
<1> USE DEF GoShut, GoCall
<1>0. /\ TypeOK /\ ShutTypeOK /\ ShutFrameInv /\ OutcomeInv
      /\ shut \in [Threads -> ShutPc] /\ call \in [Threads -> CallPc]
      /\ prev \in [Threads -> ActorState]
      BY DEF ShutInv, ShutTypeOK, TypeOK
<1>1. shutter = {}
      BY <1>0 DEF ShutFrameInv, CallShutdown, ShutdownStep, ShutdownStop, ShutdownJoin,
         ShutdownDiscard, Snapshot, SnapshotStop, SnapshotFinalize, ClearRegistry
<1>2. CASE CallShutdown(t) \/ ShutdownStop(t) \/ ShutdownJoin(t) \/ ShutdownDiscard(t) \/ Snapshot(t)
  <2>1. UNCHANGED <<state, registered, finalizeStarted, call, prev, shutter>>
        BY <1>2 DEF CallShutdown, ShutdownStop, ShutdownJoin, ShutdownDiscard, Snapshot,
           vars, cbVars, frameVars
  <2>2. /\ \A u \in Threads \ {t} : shut'[u] = shut[u]
        /\ shut'[t] # "finalizeActor"
        /\ shut'[t] = "clear" => ~registered
        BY <1>0, <1>2 DEF CallShutdown, ShutdownStop, ShutdownJoin, ShutdownDiscard, Snapshot
  <2> QED BY <1>0, <1>1, <2>1, <2>2 DEF OutcomeInv
<1>3. CASE SnapshotStop(t)
  <2>1. /\ UNCHANGED <<state, registered, finalizeStarted, shutter>>
        /\ call' = [call EXCEPT ![t] = "stopLock"] /\ prev' = [prev EXCEPT ![t] = state]
        /\ shut' = [shut EXCEPT ![t] = "finalizeActor"]
        BY <1>3 DEF SnapshotStop, StopActor, StopLoad, cbVars
  <2> QED BY <1>0, <1>1, <2>1 DEF OutcomeInv
<1>4. CASE SnapshotFinalize(t)
  <2>1. /\ UNCHANGED <<state, registered, finalizeStarted, prev, shutter>>
        /\ call' = [call EXCEPT ![t] = "finGate"]
        /\ shut' = [shut EXCEPT ![t] = "clear"]
        BY <1>4 DEF SnapshotFinalize, FinalizeActor, cbVars
  <2> QED BY <1>0, <1>1, <2>1 DEF OutcomeInv
<1>5. CASE ClearRegistry(t)
  <2>1. /\ UNCHANGED <<state, finalizeStarted, call, prev>>
        /\ call[t] = "none" /\ shut[t] = "clear"
        /\ ~registered' /\ shutter' = {t}
        /\ shut' = [shut EXCEPT ![t] = "none"]
        BY <1>5 DEF ClearRegistry, frameVars
  <2> QED BY <1>0, <2>1 DEF OutcomeInv, Finalizing
<1> QED BY <1>2, <1>3, <1>4, <1>5 DEF ShutdownStep

\* What Stop and Finalize have done stays done.
LEMMA OutcomeStep == ShutInv /\ [ShutNext]_allVars => OutcomeInv'
<1> SUFFICES ASSUME ShutInv, [ShutNext]_allVars PROVE OutcomeInv'
    OBVIOUS
<1>1. CASE UNCHANGED allVars
      BY <1>1 DEF ShutInv, allVars, vars, cbVars, frameVars, shutVars, OutcomeInv, Finalizing
<1> QED BY <1>1, OutcomeActorStep, OutcomeShutdownStep DEF ShutNext

-----------------------------------------------------------------------------
(* The theorems *)

\* ShutInv is an inductive invariant of the specification.
THEOREM ShutInvariance == ShutSpec => []ShutInv
<1>1. ShutInv /\ [ShutNext]_allVars => ShutInv'
      BY IInvKept, ShutTypeStep, ShutFrameStep, WorkersStep, OutcomeStep DEF ShutInv
<1> QED BY InitShutInv, <1>1, PTL DEF ShutSpec

\* Every variable of an actor and of Shutdown keeps its type.
THEOREM ShutTypeCorrect == ShutSpec => []ShutTypeOK
<1>1. ShutInv => ShutTypeOK
      BY DEF ShutInv
<1> QED BY ShutInvariance, <1>1, PTL

\* When Shutdown has returned, no worker is inside Execute, the registry does not
\* hold the actor and its Send is refused, whatever calls were under way.
THEOREM ShutdownClosesHolds == ShutSpec => []ShutdownCloses
<1>1. ShutInv => ShutdownCloses
  <2> SUFFICES ASSUME ShutInv, shutter # {} PROVE ShutdownCloses
      BY DEF ShutdownCloses
  <2>1. FinalizeInv /\ WorkersInv /\ OutcomeInv
        BY DEF ShutInv, IInv
  <2>2. \A t \in Threads : ~Executes(t)
        BY <2>1, NobodyExecutes DEF PastJoin, Executes
  <2>3. ~registered /\ state \in Closed
        BY <2>1 DEF OutcomeInv, FinalizeInv
  <2> QED BY <2>2, <2>3 DEF ShutdownCloses
<1> QED BY ShutInvariance, <1>1, PTL

\* When Shutdown has returned, the actor is DEAD, or another thread, whose Stop
\* found it IDLE, is inside Finalize.
THEOREM DeadOrBeingFinalizedHolds == ShutSpec => []DeadOrBeingFinalized
<1>1. ShutInv => DeadOrBeingFinalized
  <2> SUFFICES ASSUME ShutInv, shutter # {}, state # "DEAD"
               PROVE  \E t \in Threads \ shutter : Finalizing(t)
      BY DEF DeadOrBeingFinalized
  <2>1. FinalizeInv /\ OutcomeInv
        BY DEF ShutInv, IInv
  <2>2. PICK t \in Threads : Finalizing(t)
        BY <2>1 DEF OutcomeInv, FinalizeInv
  <2>3. t \notin shutter
        BY <2>1, <2>2 DEF OutcomeInv
  <2> QED BY <2>2, <2>3
<1> QED BY ShutInvariance, <1>1, PTL

\* Also with FinalizeAll as a second finalizer the cleanup is done once.
THEOREM ShutFinalizeOnceHolds == ShutSpec => []FinalizeOnce
<1>1. ShutInv => FinalizeOnce
      BY DEF ShutInv, IInv, FinalizeInv
<1> QED BY ShutInvariance, <1>1, PTL

\* Also during and after Shutdown an actor keeps the promise made to the program:
\* messages are handled one at a time and in order, none after Stop, and the user
\* object is destroyed after the last of them.
THEOREM ShutImplementation == ShutSpec => ImplementsActor
<1>1. ShutInit => Promise!Init
  <2> SUFFICES ASSUME ShutInit PROVE Promise!Init
      OBVIOUS
  <2>1. {t \in Threads : exec[t] = "handle"} = {}
        BY DEF ShutInit, Init
  <2> QED BY <2>1 DEF ShutInit, Init, Promise!Init, Closed
<1>2. ShutInv /\ [ShutNext]_allVars => [Promise!Next]_(Promise!vars)
  <2> SUFFICES ASSUME ShutInv, [ShutNext]_allVars PROVE [Promise!Next]_(Promise!vars)
      OBVIOUS
  <2>1. CASE UNCHANGED allVars
        BY <2>1 DEF allVars, vars, cbVars, frameVars, Promise!vars
  <2>2. ASSUME NEW t \in Threads, ActorStep(t) PROVE [Promise!Next]_(Promise!vars)
        BY <2>2, ActorStepIsNext, StepImplements DEF ShutInv
  <2>3. ASSUME NEW t \in Threads, CallShutdown(t) \/ ShutdownStep(t)
        PROVE  UNCHANGED Promise!vars
    <3>1. UNCHANGED <<state, mailbox, actorAlive, exec>>
          BY <2>3 DEF CallShutdown, ShutdownStep, ShutdownStop, ShutdownJoin, ShutdownDiscard,
             Snapshot, SnapshotStop, SnapshotFinalize, ClearRegistry, vars, cbVars, frameVars
    <3> QED BY <3>1 DEF Promise!vars
  <2> QED BY <2>1, <2>2, <2>3 DEF ShutNext
<1> QED BY <1>1, <1>2, ShutInvariance, PTL DEF ShutSpec, ImplementsActor, Promise!Spec
=============================================================================
