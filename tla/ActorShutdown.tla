--------------------------- MODULE ActorShutdown ---------------------------
(***************************************************************************)
(* RuntimeBody::Shutdown (Runtime.cpp) and ActorRegistry::FinalizeAll      *)
(* (Actors.cpp) acting on one registered actor, while clients go on        *)
(* calling Send and Stop and may call Shutdown themselves.                 *)
(*                                                                         *)
(* The control block is that of ActorControlBlock, action for action; the  *)
(* module adds the frame of Shutdown, which any client may run, below the  *)
(* leaf calls: FinalizeAll calls the same Stop and Finalize as everybody   *)
(* else.  Closing the Spawn gate concerns actors that are not registered   *)
(* yet and is modelled in ActorRegistry.                                   *)
(***************************************************************************)
EXTENDS ActorControlBlock

VARIABLES
  shutdownStarted,  \* _shutdownStarted
  shut,             \* position of each thread's Shutdown
  inSnapshot,       \* FinalizeAll's snapshot holds the control block
  shutter           \* the thread whose Shutdown did the work and returned, as a set

shutVars == <<shutdownStarted, shut, inSnapshot, shutter>>
allVars == <<vars, shutVars>>

ShutPc == {"none", "stop", "join", "discard", "snapshot", "stopActor",
           "finalizeActor", "clear"}

ShutInit ==
  /\ Init
  /\ shutdownStarted = FALSE
  /\ shut = [t \in Threads |-> "none"]
  /\ inSnapshot = FALSE
  /\ shutter = {}

GoShut(t, pc) == shut' = [shut EXCEPT ![t] = pc]

\* The exchange that lets one caller through; any other returns at once, and
\* nothing has changed.
CallShutdown(t) ==
  /\ InUserCode(t)
  /\ exec[t] = "out"
  /\ shut[t] = "none"
  /\ ~shutdownStarted
  /\ shutdownStarted' = TRUE
  /\ GoShut(t, "stop")
  /\ UNCHANGED <<vars, inSnapshot, shutter>>

\* StopAndJoin, first half.
ShutdownStop(t) ==
  /\ shut[t] = "stop"
  /\ stopping' = TRUE
  /\ GoShut(t, "join")
  /\ UNCHANGED <<cbVars, queued, exited, frameVars, envVars,
                 shutdownStarted, inSnapshot, shutter>>

NeverWaits == TRUE
WaitsForEmptyQueue == exited = Workers /\ queued = 0
Joined == exited = Workers

\* StopAndJoin, second half: every worker has returned.
ShutdownJoin(t) ==
  /\ shut[t] = "join"
  /\ Joined
  /\ GoShut(t, "discard")
  /\ UNCHANGED <<vars, shutdownStarted, inSnapshot, shutter>>

\* DiscardPending.
ShutdownDiscard(t) ==
  /\ shut[t] = "discard"
  /\ queued' = 0
  /\ GoShut(t, "snapshot")
  /\ UNCHANGED <<cbVars, stopping, exited, frameVars, envVars,
                 shutdownStarted, inSnapshot, shutter>>

\* FinalizeAll copies the registry.
Snapshot(t) ==
  /\ shut[t] = "snapshot"
  /\ inSnapshot' = registered
  /\ GoShut(t, IF registered THEN "stopActor" ELSE "clear")
  /\ UNCHANGED <<vars, shutdownStarted, shutter>>

SkipStop(t) == UNCHANGED <<prev, call>>
StopActor(t) == StopLoad(t)

\* cb->Stop().
SnapshotStop(t) ==
  /\ shut[t] = "stopActor"
  /\ StopActor(t)
  /\ GoShut(t, "finalizeActor")
  /\ UNCHANGED <<cbVars, poolVars, exec, processed, message, envVars,
                 shutdownStarted, inSnapshot, shutter>>

SkipFinalize(t) == UNCHANGED call
FinalizeActor(t) == GoCall(t, "finGate")

\* cb->Finalize(), when Stop has returned.
SnapshotFinalize(t) ==
  /\ shut[t] = "finalizeActor"
  /\ call[t] = "none"
  /\ FinalizeActor(t)
  /\ GoShut(t, "clear")
  /\ UNCHANGED <<cbVars, poolVars, exec, prev, processed, message, envVars,
                 shutdownStarted, inSnapshot, shutter>>

\* The snapshot and the registry are cleared; Shutdown returns.
ClearRegistry(t) ==
  /\ shut[t] = "clear"
  /\ call[t] = "none"
  /\ registered' = FALSE
  /\ inSnapshot' = FALSE
  /\ shutter' = {t}
  /\ GoShut(t, "none")
  /\ UNCHANGED <<state, mailbox, locked, finalizeStarted, actorAlive,
                 poolVars, frameVars, envVars, shutdownStarted>>

ShutdownStep(t) ==
  \/ ShutdownStop(t) \/ ShutdownJoin(t) \/ ShutdownDiscard(t) \/ Snapshot(t)
  \/ SnapshotStop(t) \/ SnapshotFinalize(t) \/ ClearRegistry(t)

\* A step of the control block or of a worker; no user code runs on a thread
\* that is inside Shutdown.
ActorStep(t) ==
  /\ \/ shut[t] = "none" /\ Begin(t)
     \/ Proceed(t)
     \/ WorkerExit(t)
  /\ UNCHANGED shutVars

ShutNext == \E t \in Threads : ActorStep(t) \/ CallShutdown(t) \/ ShutdownStep(t)

ShutSpec == ShutInit /\ [][ShutNext]_allVars

\* The fairness of ActorControlBlock; a Shutdown that began goes on, and a
\* worker that sees _stopping leaves its loop.
ShutFairness ==
  /\ \A t \in Threads :
       /\ WF_allVars(Proceed(t) /\ UNCHANGED shutVars)
       /\ WF_allVars(ShutdownStep(t))
       /\ WF_allVars(WorkerExit(t) /\ UNCHANGED shutVars)

ShutFairSpec == ShutSpec /\ ShutFairness

-----------------------------------------------------------------------------
(* Correctness *)

\* Every variable keeps its type.
ShutTypeOK ==
  /\ TypeOK
  /\ shutdownStarted \in BOOLEAN
  /\ shut \in [Threads -> ShutPc]
  /\ inSnapshot \in BOOLEAN
  /\ shutter \subseteq Threads

Executes(t) == Executing(t) \/ exec[t] \in {"begin", "recheck"}

\* Once the Shutdown that did the work has returned, no worker is inside
\* Execute, the registry does not hold the actor, and Send is refused: the
\* state is STOPPING or DEAD, whatever Send, Stop and rolled back submissions
\* were under way (Runtime.h: after the shutdown Send returns false).
ShutdownCloses ==
  shutter # {} =>
    /\ \A t \in Threads : ~Executes(t)
    /\ ~registered
    /\ state \in Closed

\* What Shutdown leaves behind is DEAD, or about to be: some other thread's Stop
\* found the actor IDLE and is inside Finalize.
DeadOrBeingFinalized ==
  shutter # {} =>
    state = "DEAD" \/ \E t \in Threads \ shutter : Finalizing(t)

\* A Shutdown that began returns, also while clients keep calling.
ShutdownReturns == shutdownStarted ~> shutter # {}

\* LT2 of design/actor-runtime.md: the shutdown returns after it has made every
\* control block of the registry DEAD.
ShutdownLeavesDead == shutter # {} => state = "DEAD"
=============================================================================
