---------------------------- MODULE ActorRegistry ----------------------------
(***************************************************************************)
(* The ActorRegistry (Actors.cpp) with any number of actors: Spawn against *)
(* the shutdown, which closes the gate, joins the workers and finalizes    *)
(* what it finds in the registry.                                          *)
(*                                                                         *)
(* Of a control block remains what the registry can tell: whether it       *)
(* accepts messages, and how far its cleanup has come.  ActorControlBlock  *)
(* models it in full; that a Stop is cleaned up by Stop itself or by a     *)
(* worker, depending on the state it found, is a choice here.  TryRegister *)
(* looks at the gate and inserts under one lock, in two steps; the other   *)
(* critical sections are one step that needs the lock free.                *)
(***************************************************************************)
CONSTANT Actors  \* each is spawned at most once, by a thread of its own

VARIABLES
  accepting,        \* _accepting
  registry,         \* _registry
  locked,           \* _lock is held across steps
  spawn,            \* position of each actor's Spawn, and what it returned
  open,             \* the actors whose state is neither STOPPING nor DEAD
  finalizeStarted,  \* the actors whose _finalizeStarted is set
  cleanup,          \* position of each actor's cleanup by Stop or a worker
  onWorker,         \* the actors that a worker cleans up
  shut,             \* position of Shutdown
  snapshot,         \* FinalizeAll's snapshot, what is left of it
  turn              \* the actor FinalizeAll is at, as a set

actorVars == <<open, finalizeStarted, cleanup, onWorker>>
shutVars  == <<shut, snapshot, turn>>
vars == <<accepting, registry, locked, spawn, actorVars, shutVars>>

SpawnPc == {"unborn", "register", "insert", "valid", "refused"}
CleanupPc == {"none", "gate", "unregister", "store"}
ShutPc == {"none", "join", "snapshot", "next", "finalize", "unregister", "clear", "done"}

Init ==
  /\ accepting = TRUE
  /\ registry = {}
  /\ locked = FALSE
  /\ spawn = [a \in Actors |-> "unborn"]
  /\ open = {}
  /\ finalizeStarted = {}
  /\ cleanup = [a \in Actors |-> "none"]
  /\ onWorker = {}
  /\ shut = "none"
  /\ snapshot = {}
  /\ turn = {}

GoSpawn(a, pc) == spawn' = [spawn EXCEPT ![a] = pc]
GoCleanup(a, pc) == cleanup' = [cleanup EXCEPT ![a] = pc]

-----------------------------------------------------------------------------
(* Spawn *)

\* IsAccepting, without the lock.
Spawn(a) ==
  /\ spawn[a] = "unborn"
  /\ GoSpawn(a, IF accepting THEN "register" ELSE "refused")
  /\ UNCHANGED <<accepting, registry, locked, actorVars, shutVars>>

TrustsFastPath == TRUE
GateIsOpen == accepting

\* TryRegister, first half: the gate, under the lock.
TryRegister(a) ==
  /\ spawn[a] = "register"
  /\ ~locked
  /\ \/ GateIsOpen /\ locked' = TRUE /\ GoSpawn(a, "insert")
     \/ ~GateIsOpen /\ GoSpawn(a, "refused") /\ UNCHANGED locked
  /\ UNCHANGED <<accepting, registry, actorVars, shutVars>>

\* TryRegister, second half; Spawn returns a valid ActorRef.
Register(a) ==
  /\ spawn[a] = "insert"
  /\ registry' = registry \cup {a}
  /\ open' = open \cup {a}
  /\ locked' = FALSE
  /\ GoSpawn(a, "valid")
  /\ UNCHANGED <<accepting, finalizeStarted, cleanup, onWorker, shutVars>>

-----------------------------------------------------------------------------
(* Stop and Finalize by the users and the workers *)

\* Stop found IDLE and goes on to Finalize; or it found SCHEDULED or RUNNING, and
\* a worker does; or the worker's queue entry is discarded by the shutdown.
Stop(a) ==
  /\ a \in open
  /\ open' = open \ {a}
  /\ \/ GoCleanup(a, "gate") /\ UNCHANGED onWorker
     \/ shut \in {"none", "join"} /\ GoCleanup(a, "gate") /\ onWorker' = onWorker \cup {a}
     \/ UNCHANGED <<cleanup, onWorker>>
  /\ UNCHANGED <<accepting, registry, locked, spawn, finalizeStarted, shutVars>>

\* The once gate.
FinalizeGate(a) ==
  /\ cleanup[a] = "gate"
  /\ finalizeStarted' = finalizeStarted \cup {a}
  /\ IF a \in finalizeStarted
       THEN GoCleanup(a, "none") /\ onWorker' = onWorker \ {a}
       ELSE GoCleanup(a, "unregister") /\ UNCHANGED onWorker
  /\ UNCHANGED <<accepting, registry, locked, spawn, open, shutVars>>

Unregister(a) ==
  /\ cleanup[a] = "unregister"
  /\ ~locked
  /\ registry' = registry \ {a}
  /\ GoCleanup(a, "store")
  /\ UNCHANGED <<accepting, locked, spawn, open, finalizeStarted, onWorker, shutVars>>

\* DEAD is stored and Finalize returns.
StoreDead(a) ==
  /\ cleanup[a] = "store"
  /\ GoCleanup(a, "none")
  /\ onWorker' = onWorker \ {a}
  /\ UNCHANGED <<accepting, registry, locked, spawn, open, finalizeStarted, shutVars>>

-----------------------------------------------------------------------------
(* Shutdown *)

CloseGate ==
  /\ shut = "none"
  /\ ~locked
  /\ accepting' = FALSE
  /\ shut' = "join"
  /\ UNCHANGED <<registry, locked, spawn, actorVars, snapshot, turn>>

\* StopAndJoin: the workers are gone, and with them the cleanups they did.
JoinWorkers ==
  /\ shut = "join"
  /\ onWorker = {}
  /\ shut' = "snapshot"
  /\ UNCHANGED <<accepting, registry, locked, spawn, actorVars, snapshot, turn>>

HeldOverLoop == TRUE
LockAfterSnapshot == FALSE

\* FinalizeAll copies the registry and gives the lock up before its loop.
Snapshot ==
  /\ shut = "snapshot"
  /\ ~locked
  /\ snapshot' = registry
  /\ locked' = LockAfterSnapshot
  /\ shut' = "next"
  /\ UNCHANGED <<accepting, registry, spawn, actorVars, turn>>

FinalizeOnly(a) == UNCHANGED open
StopFirst(a) == open' = open \ {a}

\* One turn of the loop: Stop closes the actor.  Its own Finalize, if it found
\* IDLE, and the one that follows have the effect of one.
StopNext ==
  /\ shut = "next"
  /\ \/ /\ snapshot = {}
        /\ shut' = "clear"
        /\ UNCHANGED <<open, snapshot, turn>>
     \/ \E a \in snapshot :
          /\ snapshot' = snapshot \ {a}
          /\ turn' = {a}
          /\ StopFirst(a)
          /\ shut' = "finalize"
  /\ UNCHANGED <<accepting, registry, locked, spawn, finalizeStarted, cleanup, onWorker>>

FinalizeNext ==
  /\ shut = "finalize"
  /\ finalizeStarted' = finalizeStarted \cup turn
  /\ shut' = IF turn \subseteq finalizeStarted THEN "next" ELSE "unregister"
  /\ UNCHANGED <<accepting, registry, locked, spawn, open, cleanup, onWorker, snapshot, turn>>

UnregisterNext ==
  /\ shut = "unregister"
  /\ ~locked
  /\ registry' = registry \ turn
  /\ shut' = "next"
  /\ UNCHANGED <<accepting, locked, spawn, actorVars, snapshot, turn>>

ClearRegistry ==
  /\ shut = "clear"
  /\ ~locked
  /\ registry' = {}
  /\ turn' = {}
  /\ shut' = "done"
  /\ UNCHANGED <<accepting, locked, spawn, actorVars, snapshot>>

-----------------------------------------------------------------------------
\* A step of a call in progress on actor a.
Proceed(a) ==
  TryRegister(a) \/ Register(a) \/ FinalizeGate(a) \/ Unregister(a) \/ StoreDead(a)

ShutdownStep ==
  JoinWorkers \/ Snapshot \/ StopNext \/ FinalizeNext \/ UnregisterNext \/ ClearRegistry

Next ==
  \/ \E a \in Actors : Spawn(a) \/ Stop(a) \/ Proceed(a)
  \/ CloseGate
  \/ ShutdownStep

Spec == Init /\ [][Next]_vars

\* Every thread that is inside a call goes on, and a thread that waits for _lock
\* gets it, as it is held for a moment only and by finitely many Spawns.
FairSpec ==
  /\ Spec
  /\ \A a \in Actors : WF_vars(Proceed(a))
  /\ WF_vars(ShutdownStep)

-----------------------------------------------------------------------------
(* Correctness *)

\* Every variable keeps its type; _lock is held across steps by TryRegister only.
TypeOK ==
  /\ accepting \in BOOLEAN
  /\ registry \subseteq Actors
  /\ locked = (\E a \in Actors : spawn[a] = "insert")
  /\ spawn \in [Actors -> SpawnPc]
  /\ open \subseteq Actors
  /\ finalizeStarted \subseteq Actors
  /\ cleanup \in [Actors -> CleanupPc]
  /\ onWorker \subseteq Actors
  /\ shut \in ShutPc
  /\ snapshot \subseteq Actors
  /\ turn \subseteq Actors

\* No actor escapes the shutdown: from the moment the snapshot is taken no Spawn
\* is about to register, and when Shutdown has returned every actor that was
\* ever handed out is closed and out of the registry (TryRegister, CloseGate).
NobodyEscapes ==
  /\ shut \in {"next", "finalize", "unregister", "clear", "done"} =>
       \A a \in Actors : spawn[a] # "insert"
  /\ shut = "done" => registry = {} /\ open = {}

\* The registry never drops an actor that still accepts messages, neither one by
\* one nor when FinalizeAll clears it: nobody would finalize it any more.
DropsOnlyClosed == [][registry \ registry' \subseteq Actors \ open']_vars

\* A Shutdown that has closed the gate comes to its end: the finalization of an
\* actor, which takes the registry's lock, never waits for the loop it is in.
ShutdownEnds == shut = "join" ~> shut = "done"
=============================================================================
