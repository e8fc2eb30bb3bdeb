------------------------ MODULE ActorRegistry_proofs ------------------------
(***************************************************************************)
(* Theorems about the registry for any set of actors.  NobodyEscapes is    *)
(* not inductive: it needs that a Spawn that inserts has seen the gate     *)
(* open and keeps the lock that CloseGate needs, and where the actors that *)
(* still accept messages are at each point of the shutdown.                *)
(***************************************************************************)
EXTENDS ActorRegistry, TLAPS

\* One Spawn at a time is between its look at the gate and its insertion, and
\* the gate stays open that long.
InsertInv ==
  /\ \A a, b \in Actors : spawn[a] = "insert" /\ spawn[b] = "insert" => a = b
  /\ \A a \in Actors : spawn[a] = "insert" => accepting

\* The gate is closed for ever by the first step of the shutdown.
GateInv ==
  /\ shut # "none" => ~accepting
  /\ shut = "none" => turn = {}

\* An actor that accepts messages was handed out, is in the registry, is not
\* being cleaned up, and is still ahead of FinalizeAll.
OpenInv ==
  /\ open \subseteq registry
  /\ \A a \in Actors : a \in open \/ cleanup[a] # "none" => spawn[a] = "valid"
  /\ \A a \in open : cleanup[a] = "none"
  /\ shut \in {"next", "finalize", "unregister"} => open \subseteq snapshot
  /\ turn \cap open = {}
  /\ shut \in {"clear", "done"} => open = {}
  /\ shut = "done" => registry = {}

RegInv == TypeOK /\ InsertInv /\ GateInv /\ OpenInv

-----------------------------------------------------------------------------
\* The initial state satisfies the invariant.
LEMMA InitRegInv == Init => RegInv
  BY DEF Init, RegInv, TypeOK, InsertInv, GateInv, OpenInv, SpawnPc, CleanupPc, ShutPc

\* Spawn changes neither the lock's holder nor the gate except as it may.
LEMMA SpawnStep ==
  ASSUME RegInv, NEW a \in Actors, Spawn(a) \/ TryRegister(a) \/ Register(a)
  PROVE  RegInv'
<1> USE DEF RegInv, TypeOK, InsertInv, GateInv, OpenInv, SpawnPc, CleanupPc, ShutPc,
            GoSpawn, actorVars, shutVars
<1>1. CASE Spawn(a)
  <2>1. TypeOK'
    BY <1>1 DEF Spawn
  <2>2. InsertInv' /\ GateInv'
    BY <1>1 DEF Spawn
  <2>3. OpenInv'
    BY <1>1 DEF Spawn
  <2> QED BY <2>1, <2>2, <2>3
<1>2. CASE TryRegister(a)
  <2>1. TypeOK'
    BY <1>2 DEF TryRegister, GateIsOpen
  <2>2. InsertInv' /\ GateInv'
    <3>1. CASE accepting /\ GoSpawn(a, "insert")
      BY <1>2, <3>1 DEF TryRegister
    <3>2. CASE ~accepting /\ GoSpawn(a, "refused")
      BY <1>2, <3>2 DEF TryRegister
    <3> QED BY <1>2, <3>1, <3>2 DEF TryRegister, GateIsOpen
  <2>3. OpenInv'
    BY <1>2 DEF TryRegister, GateIsOpen
  <2> QED BY <2>1, <2>2, <2>3
<1>3. CASE Register(a)
  <2>1. TypeOK'
    BY <1>3 DEF Register
  <2>2. InsertInv' /\ GateInv'
    BY <1>3 DEF Register
  <2>3. OpenInv'
    BY <1>3 DEF Register
  <2> QED BY <2>1, <2>2, <2>3
<1> QED BY <1>1, <1>2, <1>3

\* A Stop and the cleanup that follows it.
LEMMA CleanupStep ==
  ASSUME RegInv, NEW a \in Actors,
         Stop(a) \/ FinalizeGate(a) \/ Unregister(a) \/ StoreDead(a)
  PROVE  RegInv'
<1> USE DEF RegInv, TypeOK, InsertInv, GateInv, OpenInv, SpawnPc, CleanupPc, ShutPc,
            GoCleanup, shutVars
<1>1. CASE Stop(a)
  <2>1. TypeOK'
    BY <1>1 DEF Stop
  <2>2. InsertInv' /\ GateInv'
    BY <1>1 DEF Stop
  <2>3. OpenInv'
    BY <1>1 DEF Stop
  <2> QED BY <2>1, <2>2, <2>3
<1>2. CASE FinalizeGate(a)
  <2>1. TypeOK'
    BY <1>2 DEF FinalizeGate
  <2>2. InsertInv' /\ GateInv'
    BY <1>2 DEF FinalizeGate
  <2>3. OpenInv'
    BY <1>2 DEF FinalizeGate
  <2> QED BY <2>1, <2>2, <2>3
<1>3. CASE Unregister(a)
  BY <1>3 DEF Unregister
<1>4. CASE StoreDead(a)
  BY <1>4 DEF StoreDead
<1> QED BY <1>1, <1>2, <1>3, <1>4

\* The steps of the shutdown.
LEMMA ShutdownInv == ASSUME RegInv, CloseGate \/ ShutdownStep PROVE RegInv'
<1> USE DEF RegInv, TypeOK, InsertInv, GateInv, OpenInv, SpawnPc, CleanupPc, ShutPc,
            actorVars
<1>1. CASE CloseGate
  BY <1>1 DEF CloseGate
<1>2. CASE JoinWorkers
  BY <1>2 DEF JoinWorkers
<1>3. CASE Snapshot
  BY <1>3 DEF Snapshot, LockAfterSnapshot
<1>4. CASE StopNext
  BY <1>4 DEF StopNext, StopFirst
<1>5. CASE FinalizeNext
  BY <1>5 DEF FinalizeNext
<1>6. CASE UnregisterNext
  BY <1>6 DEF UnregisterNext
<1>7. CASE ClearRegistry
  BY <1>7 DEF ClearRegistry
<1> QED BY <1>1, <1>2, <1>3, <1>4, <1>5, <1>6, <1>7 DEF ShutdownStep

\* RegInv is an inductive invariant of the specification.
THEOREM Invariance == Spec => []RegInv
<1>1. RegInv /\ [Next]_vars => RegInv'
  <2> SUFFICES ASSUME RegInv, [Next]_vars PROVE RegInv'
    OBVIOUS
  <2>1. CASE UNCHANGED vars
    BY <2>1 DEF vars, actorVars, shutVars, RegInv, TypeOK, InsertInv, GateInv, OpenInv
  <2>2. CASE Next
    BY <2>2, SpawnStep, CleanupStep, ShutdownInv DEF Next, Proceed
  <2> QED BY <2>1, <2>2
<1> QED BY <1>1, InitRegInv, PTL DEF Spec

\* Every variable of the registry keeps its type, and its lock is held across
\* steps by TryRegister only.
THEOREM TypeCorrect == Spec => []TypeOK
<1>1. RegInv => TypeOK
  BY DEF RegInv
<1> QED BY <1>1, Invariance, PTL

\* No Spawn slips past FinalizeAll's snapshot, whatever the number of actors.
THEOREM NobodyEscapesHolds == Spec => []NobodyEscapes
<1>1. RegInv => NobodyEscapes
  BY DEF RegInv, InsertInv, GateInv, OpenInv, NobodyEscapes
<1> QED BY <1>1, Invariance, PTL

\* The registry drops only actors that accept no messages any more.
THEOREM DropsOnlyClosedHolds == Spec => DropsOnlyClosed
<1>1. RegInv /\ RegInv' /\ [Next]_vars => [registry \ registry' \subseteq Actors \ open']_vars
  BY DEF RegInv, OpenInv, TypeOK
<1> QED BY <1>1, Invariance, PTL DEF Spec, DropsOnlyClosed
=============================================================================
