----------------------- MODULE RuntimeLifetime_proofs -----------------------
(***************************************************************************)
(* Proofs about the life of the runtime: whoever starts it, ends or fails to *)
(* start meanwhile, a snapshot is right, nobody gets half a runtime, and the *)
(* statistics outlive whoever counts.                                       *)
(***************************************************************************)
EXTENDS RuntimeLifetime, SequenceTheorems, TLAPS

\* A count is in the block of its thread or in the retired sum, and a block is
\* in the registry exactly while it lives.
BlocksInv ==
  /\ registry = {t \in Threads : block[t] = "live"}
  /\ \A t \in Threads : /\ counted[t] = retired[t] + value[t]
                        /\ block[t] # "live" => value[t] = 0

\* What a snapshot has of a thread: the retired sum, as long as it has still to
\* visit its block, and then what SnapshotBounds says.
ReadingInv ==
  reader # {} =>
    /\ toRead \subseteq registry
    /\ \A t \in Threads :
         /\ floor[t] <= counted[t]
         /\ t \in toRead => total[t] = retired[t]
         /\ t \notin toRead => floor[t] <= total[t] /\ total[t] <= counted[t]

\* A worker that does not run has no live block.
EndedInv == \A w \in Workers : worker[w] # "run" => block[w] # "live"

IInv ==
  /\ StatsTypeOK
  /\ worker \in [Workers -> {"none", "run", "ended"}]
  /\ BlocksInv /\ ReadingInv /\ EndedInv

-----------------------------------------------------------------------------
(* The steps of ThreadStats keep the parts that are about it. *)

StatsInv == StatsTypeOK /\ BlocksInv /\ ReadingInv

\* A new thread enters the registry with an empty block.
LEMMA RegisterKeeps ==
  ASSUME StatsInv, NEW t \in Threads, Register(t)
  PROVE  StatsInv'
<1>1. StatsTypeOK'
  BY DEF StatsInv, StatsTypeOK, Register, snapshotVars
<1>2. BlocksInv'
  BY DEF StatsInv, StatsTypeOK, BlocksInv, Register
<1>3. ReadingInv'
  BY DEF StatsInv, ReadingInv, Register, LockIsFree, snapshotVars
<1> QED BY <1>1, <1>2, <1>3 DEF StatsInv

\* A count goes to the block of the thread that counts.
LEMMA CountKeeps ==
  ASSUME StatsInv, NEW t \in Threads, Count(t)
  PROVE  StatsInv'
<1>1. StatsTypeOK'
  BY DEF StatsInv, StatsTypeOK, Count, snapshotVars
<1>2. BlocksInv'
  BY DEF StatsInv, StatsTypeOK, BlocksInv, Count
<1>3. ReadingInv'
  BY DEF StatsInv, StatsTypeOK, ReadingInv, Count, snapshotVars
<1> QED BY <1>1, <1>2, <1>3 DEF StatsInv

\* A block is folded into the retired sum and leaves the registry, under the lock.
LEMMA RetireKeeps ==
  ASSUME StatsInv, NEW t \in Threads, Retire(t)
  PROVE  StatsInv'
<1>1. StatsTypeOK'
  BY DEF StatsInv, StatsTypeOK, Retire, AccumulateInto, snapshotVars
<1>2. BlocksInv'
  BY DEF StatsInv, StatsTypeOK, BlocksInv, Retire, AccumulateInto
<1>3. ReadingInv'
  BY DEF StatsInv, ReadingInv, Retire, LockIsFree, snapshotVars
<1> QED BY <1>1, <1>2, <1>3 DEF StatsInv

\* A snapshot begins with the retired sum.
LEMMA SnapshotBeginKeeps ==
  ASSUME StatsInv, NEW t \in Threads, SnapshotBegin(t)
  PROVE  StatsInv'
<1>1. StatsTypeOK'
  BY DEF StatsInv, StatsTypeOK, SnapshotBegin, blockVars
<1>2. BlocksInv'
  BY DEF StatsInv, BlocksInv, SnapshotBegin, blockVars
<1>3. ReadingInv'
  BY DEF StatsInv, StatsTypeOK, BlocksInv, ReadingInv, SnapshotBegin, blockVars
<1> QED BY <1>1, <1>2, <1>3 DEF StatsInv

\* A snapshot adds one of the registered blocks.
LEMMA SnapshotReadKeeps ==
  ASSUME StatsInv, NEW t \in Threads, SnapshotRead(t)
  PROVE  StatsInv'
<1> PICK u \in toRead : total' = AccumulateInto(total, u) /\ toRead' = toRead \ {u}
  BY DEF SnapshotRead
<1>0. u \in Threads
  BY DEF StatsInv, StatsTypeOK
<1>1. StatsTypeOK'
  BY <1>0 DEF StatsInv, StatsTypeOK, SnapshotRead, AccumulateInto, blockVars
<1>2. BlocksInv'
  BY DEF StatsInv, BlocksInv, SnapshotRead, blockVars
<1>3. ReadingInv'
  BY <1>0 DEF StatsInv, StatsTypeOK, BlocksInv, ReadingInv, SnapshotRead, AccumulateInto,
              blockVars
<1> QED BY <1>1, <1>2, <1>3 DEF StatsInv

\* A snapshot releases the lock.
LEMMA SnapshotEndKeeps ==
  ASSUME StatsInv, NEW t \in Threads, SnapshotEnd(t)
  PROVE  StatsInv'
<1>1. StatsTypeOK'
  BY DEF StatsInv, StatsTypeOK, SnapshotEnd, Nothing, blockVars
<1>2. BlocksInv'
  BY DEF StatsInv, BlocksInv, SnapshotEnd, blockVars
<1>3. ReadingInv'
  BY DEF ReadingInv, SnapshotEnd
<1> QED BY <1>1, <1>2, <1>3 DEF StatsInv

\* The statistics are not touched.
LEMMA StutterKeeps ==
  ASSUME StatsInv, UNCHANGED statsVars
  PROVE  StatsInv'
BY DEF StatsInv, StatsTypeOK, BlocksInv, ReadingInv, statsVars, blockVars, snapshotVars

\* The end of a thread leaves it no live block.
LEMMA EndThreadKeeps ==
  ASSUME StatsInv, NEW t \in Threads, EndThread(t)
  PROVE  StatsInv' /\ block'[t] # "live"
                   /\ \A u \in Threads : block'[u] = "live" => block[u] = "live"
<1>1. CASE Retire(t)
  BY <1>1, RetireKeeps DEF Retire, StatsInv, StatsTypeOK
<1>2. CASE block[t] # "live" /\ UNCHANGED statsVars
  BY <1>2, StutterKeeps DEF statsVars, blockVars
<1> QED BY <1>1, <1>2 DEF EndThread

-----------------------------------------------------------------------------

\* The invariant of the statistics holds initially.
LEMMA InitIInv == Init => IInv
<1> SUFFICES ASSUME Init PROVE IInv
  OBVIOUS
<1> USE DEF Init, StatsInit, Nothing
<1>1. StatsTypeOK
  BY DEF StatsTypeOK
<1>2. BlocksInv /\ ReadingInv /\ EndedInv
  BY ThreadsAssumption DEF BlocksInv, ReadingInv, EndedInv
<1> QED BY <1>1, <1>2 DEF IInv

\* Steps that leave the statistics and the workers alone.
LEMMA QuietStep ==
  ASSUME IInv, UNCHANGED <<statsVars, worker>>
  PROVE  IInv'
<1>1. StatsInv'
  BY StutterKeeps DEF IInv, StatsInv, statsVars
<1> QED BY <1>1 DEF IInv, EndedInv, StatsInv, statsVars, blockVars

\* Steps of one thread that use or read the statistics.
LEMMA UseStep ==
  ASSUME IInv, NEW t \in Threads, UseStats(t) \/ Snapshot(t)
  PROVE  IInv'
<1>0. StatsInv
  BY DEF IInv, StatsInv
<1>1. StatsInv'
  <2>1. CASE UseStats(t)
    BY <1>0, <2>1, RegisterKeeps, CountKeeps, SnapshotBeginKeeps DEF UseStats
  <2>2. CASE Snapshot(t)
    BY <1>0, <2>2, SnapshotReadKeeps, SnapshotEndKeeps DEF Snapshot
  <2> QED BY <2>1, <2>2
<1>2. UNCHANGED worker
  BY DEF UseStats, Snapshot, lifeVars, poolVars
<1>3. EndedInv'
  <2> SUFFICES ASSUME NEW w \in Workers, worker[w] # "run"
               PROVE  block'[w] # "live"
    BY <1>2 DEF EndedInv
  <2>1. w \in Threads
    BY ThreadsAssumption
  <2>2. CASE Register(t) /\ Runs(t)
    BY <2>1, <2>2 DEF Register, Runs, IInv, EndedInv, StatsTypeOK
  <2>3. CASE UNCHANGED block
    BY <2>3 DEF IInv, EndedInv
  <2> QED
    BY <2>2, <2>3 DEF UseStats, Snapshot, Count, SnapshotBegin, SnapshotRead, SnapshotEnd,
                      blockVars
<1> QED BY <1>1, <1>2, <1>3 DEF IInv, StatsInv

\* Ends of threads.
LEMMA EndStep ==
  ASSUME IInv, NEW t \in Threads,
         EndThread(t),
         \/ UNCHANGED worker
         \/ t \in Workers /\ worker' = [worker EXCEPT ![t] = "ended"]
  PROVE  IInv'
<1>0. StatsInv
  BY DEF IInv, StatsInv
<1>1. /\ StatsInv' /\ block'[t] # "live"
      /\ \A u \in Threads : block'[u] = "live" => block[u] = "live"
  BY <1>0, EndThreadKeeps
<1>2. worker' \in [Workers -> {"none", "run", "ended"}]
  BY DEF IInv
<1>3. EndedInv'
  BY <1>1, ThreadsAssumption DEF IInv, EndedInv
<1> QED BY <1>1, <1>2, <1>3 DEF IInv, StatsInv

\* WorkerPool::Start.
LEMMA StartStep ==
  ASSUME IInv, NEW t \in Threads, StartWorker(t)
  PROVE  IInv'
<1>1. StatsInv'
  BY StutterKeeps DEF StartWorker, IInv, StatsInv
<1>2. UNCHANGED block
  BY DEF StartWorker, statsVars, blockVars
<1>3. /\ worker' \in [Workers -> {"none", "run", "ended"}]
      /\ \A w \in Workers : worker'[w] # "run" => worker[w] # "run"
  BY DEF StartWorker, IInv
<1> QED BY <1>1, <1>2, <1>3 DEF IInv, StatsInv, EndedInv

\* The new threads of another body: the old ones had ended.
LEMMA UnwindStep ==
  ASSUME IInv, NEW t \in Threads, Unwind(t)
  PROVE  IInv'
<1>1. \A w \in Workers : block[w] # "live"
  BY DEF Unwind, NoneRuns, IInv, EndedInv
<1>2. StatsTypeOK'
  BY DEF Unwind, IInv, StatsTypeOK, snapshotVars
<1>3. \A u \in Threads : block'[u] = "live" <=> block[u] = "live"
  BY <1>1 DEF Unwind
<1>4. BlocksInv'
  BY <1>3 DEF Unwind, IInv, BlocksInv
<1>5. ReadingInv'
  BY DEF Unwind, IInv, ReadingInv, snapshotVars
<1>6. EndedInv' /\ worker' \in [Workers -> {"none", "run", "ended"}]
  BY <1>1, <1>3, ThreadsAssumption DEF Unwind, EndedInv
<1> QED BY <1>2, <1>4, <1>5, <1>6 DEF IInv

\* Every step of the process preserves the invariant of the statistics.
LEMMA NextIInv == IInv /\ [Next]_vars => IInv'
<1> SUFFICES ASSUME IInv, [Next]_vars PROVE IInv'
  OBVIOUS
<1>1. ASSUME NEW t \in Threads,
             \/ \E n \in Workers : SetWorkerCount(t, n)
             \/ Instance(t) \/ UseBuffers(t) \/ Shutdown(t)
      PROVE  IInv'
  BY <1>1, QuietStep DEF SetWorkerCount, Instance, UseBuffers, Shutdown, poolVars
<1>2. ASSUME NEW t \in Threads,
             \/ StoreSetting(t) \/ ReadWorkerCount(t) \/ RaiseStarted(t)
             \/ TouchGlobals(t) \/ BodyBuilt(t) \/ StartFails(t)
      PROVE  IInv'
  BY <1>2, QuietStep DEF StoreSetting, ReadWorkerCount, RaiseStarted, TouchGlobals,
                         BodyBuilt, StartFails, poolVars
<1>3. ASSUME NEW t \in Threads, StopPool(t) \/ Join(t) \/ FinalizeAll(t)
      PROVE  IInv'
  BY <1>3, QuietStep DEF StopPool, Join, FinalizeAll, poolVars
<1>4. ASSUME NEW t \in Threads, UseStats(t) \/ Snapshot(t)
      PROVE  IInv'
  BY <1>4, UseStep
<1>5. ASSUME NEW t \in Threads, ClientEnds(t)
      PROVE  IInv'
  BY <1>5, EndStep DEF ClientEnds, poolVars
<1>6. ASSUME NEW t \in Threads, WorkerEnds(t)
      PROVE  IInv'
  BY <1>6, EndStep DEF WorkerEnds
<1>7. ASSUME NEW t \in Threads, StartWorker(t)
      PROVE  IInv'
  BY <1>7, StartStep
<1>8. ASSUME NEW t \in Threads, Unwind(t)
      PROVE  IInv'
  BY <1>8, UnwindStep
<1>9. CASE Exit \/ DestroyStatic \/ DestroyRegistry \/ DestroyPool \/ End
  BY <1>9, QuietStep DEF Exit, DestroyStatic, DestroyRegistry, DestroyPool, End, poolVars
<1>10. CASE DestroyBlocks
  BY <1>10, EndStep, ThreadsAssumption DEF DestroyBlocks, poolVars, Clients
<1>11. CASE UNCHANGED vars
  BY <1>11, QuietStep DEF vars, lifeVars, poolVars
<1>12. CASE ExitStep
  BY <1>9, <1>10, <1>12 DEF ExitStep
<1>13. ASSUME NEW t \in Threads, Proceed(t)
       PROVE  IInv'
  BY <1>2, <1>3, <1>4, <1>6, <1>7, <1>8, <1>13 DEF Proceed
<1> QED BY <1>1, <1>4, <1>5, <1>9, <1>11, <1>12, <1>13 DEF Next

\* What holds of the statistics throughout.
LEMMA Invariance == Spec => []IInv
BY InitIInv, NextIInv, PTL DEF Spec

\* Snapshots are right for any number of threads and counts: what one says of a
\* thread lies between what the thread had counted when the snapshot took the
\* lock and what it has counted since (SnapshotStats, ~ThreadStatsBlock).
THEOREM SnapshotBoundsHolds == Spec => []SnapshotBounds
<1>1. IInv => SnapshotBounds
  BY DEF IInv, ReadingInv, SnapshotBounds
<1> QED BY <1>1, Invariance, PTL

-----------------------------------------------------------------------------
(* The life of the runtime *)

BuildPositions == {"count", "flag", "touch", "start", "unwind"}
ExitPositions == {"blocks", "statics", "registry", "pool", "end"}

\* Which positions exclude each other: the exit begins when the other threads
\* of the user have ended, one thread builds the body, and nothing is destroyed
\* before the exit.
PlaceInv ==
  /\ at[Main] \in ExitPositions => exiting
  /\ exiting => /\ at[Main] \in ExitPositions \cup {"stop", "join", "finalize"}
                /\ \A t \in Others : at[t] = "end"
  /\ \A w \in Workers : at[w] \in {"user", "stop", "join"}
  /\ \A t, u \in Clients : at[t] \in BuildPositions /\ at[u] \in BuildPositions => t = u
  /\ destroyed # {} => exiting /\ at[Main] # "blocks"

\* The order of the statics: each is built once, and the body after the
\* statistics.
OrderInv ==
  /\ \A i, j \in 1..Len(built) : built[i] = built[j] => i = j
  /\ \A i \in 1..Len(built) : built[i] = "body" => \E j \in 1..(i - 1) : built[j] = "stats"

\* There are workers only while the body is built, exists or is destroyed, and
\* the statistics exist then.
WorkersInv ==
  /\ \A t \in Clients : /\ at[t] \in BuildPositions => ~Exists("body")
                        /\ at[t] \in {"start", "unwind"} => Exists("stats")
  /\ NoneRuns \/ /\ Exists("stats")
                 /\ \/ Exists("body")
                    \/ \E t \in Clients : at[t] \in {"start", "unwind"}
                    \/ exiting /\ at[Main] \in {"stop", "join", "registry", "pool"}
  /\ \A w \in Workers : worker[w] = "ended" => stopping
  /\ Exists("body") => stopping \/ \A w \in 1..poolSize : worker[w] = "run"

\* Destroyed statistics are not used any more.
GoneInv ==
  /\ "stats" \in destroyed =>
       NoneRuns /\ ~Exists("stats") /\ ~Exists("body") /\ at[Main] \in {"statics", "end"}
  /\ "stats" \notin misuse

LifeInv == LifeTypeOK /\ PlaceInv /\ OrderInv /\ WorkersInv /\ GoneInv

Statics == {"stats", "body", "buffers"}

\* A static that is built is the last one.
LEMMA BuildsLast ==
  ASSUME built \in Seq(Statics), OrderInv, NEW s \in Statics,
         ~Exists(s), built' = Append(built, s),
         s = "body" => Exists("stats")
  PROVE  /\ built' \in Seq(Statics)
         /\ OrderInv'
         /\ \A x \in Statics : Exists(x)' <=> Exists(x) \/ x = s
<1>1. /\ Len(built) \in Nat
      /\ built' \in Seq(Statics) /\ Len(built') = Len(built) + 1
      /\ \A i \in 1..Len(built) : built'[i] = built[i]
      /\ built'[Len(built) + 1] = s
  OBVIOUS
<1>2. \A x \in Statics : Exists(x)' <=> Exists(x) \/ x = s
  BY <1>1 DEF Exists
<1>3. OrderInv'
  <2>1. ASSUME NEW i \in 1..Len(built'), NEW j \in 1..Len(built'), built'[i] = built'[j]
        PROVE  i = j
    BY <1>1, <2>1 DEF OrderInv, Exists
  <2>2. ASSUME NEW i \in 1..Len(built'), built'[i] = "body"
        PROVE  \E j \in 1..(i - 1) : built'[j] = "stats"
    <3>1. CASE i \in 1..Len(built)
      <4>1. PICK j \in 1..(i - 1) : built[j] = "stats"
        BY <1>1, <2>2, <3>1 DEF OrderInv
      <4>2. j \in 1..Len(built)
        BY <1>1, <3>1
      <4> QED BY <1>1, <4>1, <4>2
    <3>2. CASE i = Len(built) + 1
      BY <1>1, <2>2, <3>2 DEF Exists
    <3> QED BY <1>1, <3>1, <3>2
  <2> QED BY <2>1, <2>2 DEF OrderInv
<1> QED BY <1>1, <1>2, <1>3

\* A use of a static: it may be built, and used after its destruction.
LEMMA Touches ==
  ASSUME built \in Seq(Statics), OrderInv, NEW s \in {"stats", "buffers"}, Touch(s)
  PROVE  /\ built' \in Seq(Statics)
         /\ OrderInv'
         /\ \A x \in Statics : Exists(x) => Exists(x)'
         /\ \A x \in Statics : Exists(x)' => Exists(x) \/ (x = s /\ s \notin destroyed)
         /\ s \notin destroyed => Exists(s)'
         /\ destroyed' = destroyed
         /\ misuse' = misuse \cup ({s} \cap destroyed)
<1>1. CASE Exists(s) \/ s \in destroyed
  <2>1. built' = built
    BY <1>1 DEF Touch
  <2>2. OrderInv'
    BY <2>1 DEF OrderInv
  <2>3. \A x : Exists(x)' <=> Exists(x)
    BY <2>1 DEF Exists
  <2> QED BY <1>1, <2>1, <2>2, <2>3 DEF Touch
<1>2. CASE ~Exists(s) /\ s \notin destroyed
  <2>1. built' = Append(built, s) /\ s \in Statics /\ s # "body"
    BY <1>2 DEF Touch, Statics
  <2>2. /\ built' \in Seq(Statics)
        /\ OrderInv'
        /\ \A x \in Statics : Exists(x)' <=> Exists(x) \/ x = s
    BY <1>2, <2>1, BuildsLast
  <2> QED BY <1>2, <2>1, <2>2 DEF Touch
<1> QED BY <1>1, <1>2

\* A use, by a thread that moves nowhere, keeps the parts that are not types; the
\* statistics must not have been destroyed when they are what is used.
LEMMA UseKeeps ==
  ASSUME LifeInv, NEW s \in {"stats", "buffers"}, Touch(s),
         s = "stats" => "stats" \notin destroyed,
         UNCHANGED <<poolVars, at, exiting>>
  PROVE  PlaceInv' /\ OrderInv' /\ WorkersInv' /\ GoneInv'
<1>1. built \in Seq(Statics)
  BY DEF LifeInv, LifeTypeOK, Statics
<1>2. /\ OrderInv'
      /\ \A x \in Statics : Exists(x) => Exists(x)'
      /\ \A x \in Statics : Exists(x)' => Exists(x) \/ (x = s /\ s \notin destroyed)
      /\ destroyed' = destroyed
      /\ misuse' = misuse \cup ({s} \cap destroyed)
  BY <1>1, Touches DEF LifeInv
<1>3. PlaceInv'
  BY <1>2 DEF LifeInv, PlaceInv
<1>4. WorkersInv'
  <2>1. Exists("body")' <=> Exists("body")
    BY <1>2 DEF Statics
  <2>2. Exists("stats") => Exists("stats")'
    BY <1>2 DEF Statics
  <2> QED BY <2>1, <2>2 DEF LifeInv, WorkersInv, NoneRuns, poolVars
<1>5. GoneInv'
  BY <1>2 DEF LifeInv, GoneInv, NoneRuns, poolVars, Statics
<1> QED BY <1>2, <1>3, <1>4, <1>5

\* What a sequence without its last element has kept.
LEMMA AllButLast ==
  ASSUME NEW S, NEW q \in Seq(S), q # << >>
  PROVE  /\ SubSeq(q, 1, Len(q) - 1) \in Seq(S)
         /\ Len(SubSeq(q, 1, Len(q) - 1)) = Len(q) - 1
         /\ \A i \in 1..(Len(q) - 1) : SubSeq(q, 1, Len(q) - 1)[i] = q[i]
<1>1. Len(q) \in Nat \ {0}
  OBVIOUS
<1>2. SubSeq(q, 1, Len(q) - 1) \in Seq(S)
  OBVIOUS
<1>3. DOMAIN SubSeq(q, 1, Len(q) - 1) = 1..(Len(q) - 1)
  BY <1>1
<1>4. Len(SubSeq(q, 1, Len(q) - 1)) = Len(q) - 1
  <2> DEFINE front == SubSeq(q, 1, Len(q) - 1)
  <2>1. Len(front) \in Nat /\ DOMAIN front = 1..Len(front)
    BY <1>2
  <2> HIDE DEF front
  <2>2. 1..Len(front) = 1..(Len(q) - 1)
    BY <1>3, <2>1 DEF front
  <2>3. Len(front) = Len(q) - 1
    BY <1>1, <2>1, <2>2
  <2> QED BY <2>3 DEF front
<1>5. \A i \in 1..(Len(q) - 1) : SubSeq(q, 1, Len(q) - 1)[i] = q[i]
  OBVIOUS
<1> QED BY <1>2, <1>4, <1>5

\* The last static is destroyed; the body never before the statistics.
LEMMA DestroysLast ==
  ASSUME built \in Seq(Statics), OrderInv, built # << >>,
         built' = SubSeq(built, 1, Len(built) - 1)
  PROVE  /\ built[Len(built)] \in Statics
         /\ built' \in Seq(Statics)
         /\ OrderInv'
         /\ \A x \in Statics : Exists(x)' <=> Exists(x) /\ x # built[Len(built)]
         /\ built[Len(built)] = "stats" => ~Exists("body")
<1> DEFINE n == Len(built)
<1>1. n \in Nat /\ n # 0 /\ \A i \in 1..n : built[i] \in Statics
  OBVIOUS
<1>2. /\ built' \in Seq(Statics) /\ Len(built') = n - 1
      /\ \A i \in 1..(n - 1) : built'[i] = built[i]
  BY <1>1, AllButLast DEF Statics
<1>3. \A i, j \in 1..n : built[i] = built[j] => i = j
  BY DEF OrderInv
<1>4. \A i \in 1..n : built[i] = "body" => \E j \in 1..(i - 1) : built[j] = "stats"
  BY DEF OrderInv
<1> HIDE DEF n
<1>5. OrderInv'
  <2>1. \A i, j \in 1..Len(built') : built'[i] = built'[j] => i = j
    BY <1>1, <1>2, <1>3
  <2>2. ASSUME NEW i \in 1..Len(built'), built'[i] = "body"
        PROVE  \E j \in 1..(i - 1) : built'[j] = "stats"
    <3>1. PICK j \in 1..(i - 1) : built[j] = "stats"
      BY <1>1, <1>2, <1>4, <2>2
    <3> QED BY <1>1, <1>2, <3>1
  <2> QED BY <2>1, <2>2 DEF OrderInv
<1>6. ASSUME NEW x \in Statics
      PROVE  Exists(x)' <=> Exists(x) /\ x # built[n]
  <2>1. Exists(x)' <=> \E i \in 1..(n - 1) : built[i] = x
    BY <1>2 DEF Exists
  <2>2. Exists(x) <=> \E i \in 1..n : built[i] = x
    BY DEF Exists, n
  <2> QED BY <1>1, <1>3, <2>1, <2>2
<1>7. ASSUME built[n] = "stats", Exists("body") PROVE FALSE
  <2>1. PICK i \in 1..n : built[i] = "body"
    BY <1>7 DEF Exists, n
  <2>2. PICK j \in 1..(i - 1) : built[j] = "stats"
    BY <1>4, <2>1
  <2> QED BY <1>1, <1>3, <1>7, <2>2
<1> QED BY <1>1, <1>2, <1>5, <1>6, <1>7 DEF n

\* Every step keeps the five parts; those that build or destroy a static rest on
\* the lemmas above.
LEMMA LifeStep ==
  ASSUME LifeInv, IInv', [Next]_vars
  PROVE  LifeInv'
<1> USE ThreadsAssumption
    DEF Go, configVars, poolVars, staticVars, lifeVars, Clients, Positions,
        BuildPositions, ExitPositions, NoneRuns
<1> USE DEF LifeInv, LifeTypeOK, PlaceInv, OrderInv, WorkersInv, GoneInv, Exists, IInv
<1>1. ASSUME NEW t \in Threads, NEW n \in Workers, SetWorkerCount(t, n) PROVE LifeInv'
  BY <1>1, MaxWorkersAssumption DEF SetWorkerCount, Workers, InUser, Runs, Building
<1>2. ASSUME NEW t \in Threads, StoreSetting(t) PROVE LifeInv'
  <2>1. t \in Clients
    BY <1>2 DEF StoreSetting
  <2>2. LifeTypeOK'
    BY <1>2, <2>1, MaxWorkersAssumption DEF StoreSetting
  <2>3. PlaceInv' /\ OrderInv' /\ WorkersInv' /\ GoneInv'
    BY <1>2, <2>1 DEF StoreSetting
  <2> QED BY <2>2, <2>3
<1>3. ASSUME NEW t \in Threads, Instance(t) PROVE LifeInv'
  BY <1>3 DEF Instance, InUser, Runs, Building
<1>4. ASSUME NEW t \in Threads, ReadWorkerCount(t) PROVE LifeInv'
  BY <1>4, MaxWorkersAssumption, HardwareAssumption DEF ReadWorkerCount,
         ResolveWorkerCount
<1>5. ASSUME NEW t \in Threads, RaiseStarted(t) PROVE LifeInv'
  BY <1>5 DEF RaiseStarted
<1>6. ASSUME NEW t \in Threads, TouchGlobals(t) PROVE LifeInv'
  <2> HIDE DEF OrderInv, Exists
  <2>1. /\ built' \in Seq(Statics)
        /\ OrderInv'
        /\ \A x \in Statics : Exists(x) => Exists(x)'
        /\ \A x \in Statics : Exists(x)' => Exists(x) \/ x = "stats"
        /\ "stats" \notin destroyed => Exists("stats")'
    BY <1>6, Touches DEF TouchGlobals, TouchStatsGlobals, Statics
  <2>2. LifeTypeOK'
    BY <1>6, <2>1 DEF TouchGlobals, TouchStatsGlobals, Touch, Statics
  <2>3. PlaceInv'
    BY <1>6 DEF TouchGlobals, TouchStatsGlobals, Touch
  <2>4. WorkersInv' /\ GoneInv'
    BY <1>6, <2>1 DEF TouchGlobals, TouchStatsGlobals, Touch, Statics
  <2> QED BY <2>1, <2>2, <2>3, <2>4
<1>7. ASSUME NEW t \in Threads, StartWorker(t) PROVE LifeInv'
  BY <1>7 DEF StartWorker
<1>8. ASSUME NEW t \in Threads, BodyBuilt(t) PROVE LifeInv'
  <2>1. /\ t \in Clients /\ ~Exists("body") /\ Exists("stats")
        /\ built' = Append(built, "body")
    BY <1>8 DEF BodyBuilt
  <2>2. /\ built' \in Seq(Statics)
        /\ OrderInv'
        /\ \A x \in Statics : Exists(x)' <=> Exists(x) \/ x = "body"
    <3> HIDE DEF OrderInv, Exists
    <3> QED BY <2>1, BuildsLast DEF Statics
  <2>3. PlaceInv'
    BY <1>8, <2>1 DEF BodyBuilt
  <2>4. LifeTypeOK'
    <3> HIDE DEF OrderInv, PlaceInv, WorkersInv, GoneInv, Exists
    <3> QED BY <1>8, <2>2 DEF BodyBuilt, Statics
  <2>5. \A w \in 1..poolSize : worker[w] = "run" \/ stopping
    BY <1>8, MaxWorkersAssumption DEF BodyBuilt, Workers
  <2> HIDE DEF Exists, OrderInv
  <2>6. WorkersInv' /\ GoneInv'
    BY <1>8, <2>1, <2>2, <2>5 DEF BodyBuilt, Statics
  <2> QED BY <2>2, <2>3, <2>4, <2>6
<1>9. ASSUME NEW t \in Threads, StartFails(t) PROVE LifeInv'
  BY <1>9 DEF StartFails, AfterRefusal
<1>10. ASSUME NEW t \in Threads, Unwind(t) PROVE LifeInv'
  <2>1. LifeTypeOK'
    <3>1. poolSize' \in 0..MaxWorkers
      BY <1>10, MaxWorkersAssumption DEF Unwind
    <3>2. at' \in [Threads -> {"user", "store", "count", "flag", "touch", "start", "unwind",
                              "stop", "join", "finalize", "blocks", "statics", "registry",
                              "pool", "end"}]
      BY <1>10 DEF Unwind
    <3>3. users' \subseteq Threads
      BY <1>10 DEF Unwind
    <3> HIDE DEF OrderInv, Exists, PlaceInv, WorkersInv, GoneInv
    <3> QED BY <1>10, <3>1, <3>2, <3>3 DEF Unwind
  <2>2. PlaceInv' /\ OrderInv' /\ WorkersInv' /\ GoneInv'
    BY <1>10 DEF Unwind
  <2> QED BY <2>1, <2>2
<1>11. ASSUME NEW t \in Threads, UseStats(t) PROVE LifeInv'
  <2>1. UNCHANGED <<configVars, poolVars, at, exiting, users>> /\ Touch("stats")
    BY <1>11 DEF UseStats
  <2>2. "stats" \notin destroyed
    BY <1>11 DEF UseStats, Runs, InUser, Building
  <2>3. LifeTypeOK'
    BY <2>1, <2>2, Touches DEF Touch, Statics
  <2>4. PlaceInv' /\ OrderInv' /\ WorkersInv' /\ GoneInv'
    <3> HIDE DEF LifeInv
    <3> QED BY <2>1, <2>2, UseKeeps
  <2> QED BY <2>3, <2>4
<1>12. ASSUME NEW t \in Threads, Snapshot(t) PROVE LifeInv'
  BY <1>12 DEF Snapshot
<1>13. ASSUME NEW t \in Threads, UseBuffers(t) PROVE LifeInv'
  <2>1. /\ UNCHANGED <<statsVars, configVars, poolVars, at, exiting>> /\ Touch("buffers")
        /\ users' = users \cup {t}
    BY <1>13 DEF UseBuffers
  <2>2. LifeTypeOK'
    <3>1. built' \in Seq({"stats", "body", "buffers"}) /\ destroyed' = destroyed
      BY <2>1, Touches DEF Statics
    <3>2. misuse' \subseteq {"stats", "buffers", "block"} /\ users' \subseteq Threads
      BY <2>1 DEF Touch
    <3> HIDE DEF OrderInv, PlaceInv, WorkersInv, GoneInv, Exists
    <3> QED BY <2>1, <3>1, <3>2
  <2>3. PlaceInv' /\ OrderInv' /\ WorkersInv' /\ GoneInv'
    <3> HIDE DEF LifeInv
    <3> QED BY <2>1, UseKeeps
  <2> QED BY <2>2, <2>3
<1>14. ASSUME NEW t \in Threads, ClientEnds(t) PROVE LifeInv'
  <2>1. LifeTypeOK'
    BY <1>14 DEF ClientEnds, InUser, Runs, Building, EndThread
  <2>2. PlaceInv'
    BY <1>14 DEF ClientEnds, InUser, Runs, Building, EndThread
  <2>3. OrderInv'
    BY <1>14 DEF ClientEnds, InUser, Runs, Building, EndThread
  <2>4. WorkersInv'
    BY <1>14 DEF ClientEnds, InUser, Runs, Building, EndThread
  <2>5. GoneInv'
    BY <1>14 DEF ClientEnds, InUser, Runs, Building, EndThread
  <2> QED BY <2>1, <2>2, <2>3, <2>4, <2>5
<1>15. ASSUME NEW t \in Threads, WorkerEnds(t) PROVE LifeInv'
  BY <1>15 DEF WorkerEnds, Runs, EndThread
<1>16. ASSUME NEW t \in Threads, Shutdown(t) PROVE LifeInv'
  BY <1>16 DEF Shutdown, InUser, Runs, Building
<1>17. ASSUME NEW t \in Threads, StopPool(t) PROVE LifeInv'
  BY <1>17 DEF StopPool, SetStopping
<1>18. ASSUME NEW t \in Threads, Join(t) PROVE LifeInv'
  <2>1. UNCHANGED <<built, destroyed, misuse, worker, stopping, exiting, poolSize>>
    BY <1>18 DEF Join
  <2>2. /\ at[t] = "join"
        /\ \/ t \in Workers /\ at' = [at EXCEPT ![t] = "user"]
           \/ t \in Clients /\ (\A w \in Workers : worker[w] # "run")
                            /\ at' = [at EXCEPT ![t] = "finalize"]
    BY <1>18 DEF Join
  <2>3. PlaceInv'
    BY <2>1, <2>2
  <2>4. LifeTypeOK'
    BY <1>18 DEF Join
  <2> QED BY <2>1, <2>2, <2>3, <2>4
<1>19. ASSUME NEW t \in Threads, FinalizeAll(t) PROVE LifeInv'
  BY <1>19 DEF FinalizeAll
<1>20. CASE Exit
  BY <1>20 DEF Exit, InUser, Runs, Building
<1>21. CASE DestroyBlocks
  BY <1>21 DEF DestroyBlocks, EndThread
<1>22. CASE DestroyStatic
  <2> HIDE DEF OrderInv, Exists
  <2>1. /\ built[Len(built)] \in Statics
        /\ built' \in Seq(Statics)
        /\ OrderInv'
        /\ \A x \in Statics : Exists(x)' <=> Exists(x) /\ x # built[Len(built)]
        /\ built[Len(built)] = "stats" => ~Exists("body")
    BY <1>22, DestroysLast DEF DestroyStatic, Statics
  <2>2. Exists(built[Len(built)])
    BY <1>22 DEF DestroyStatic, Exists
  <2>3. Exists("body") => Exists("stats")
    BY DEF OrderInv, Exists
  <2>4. LifeTypeOK'
    <3>1. destroyed' \subseteq {"stats", "body", "buffers", "registry"}
      <4>1. destroyed' = destroyed \/ destroyed' = destroyed \cup {built[Len(built)]}
        BY <1>22 DEF DestroyStatic
      <4>2. destroyed \subseteq {"stats", "body", "buffers", "registry"}
        OBVIOUS
      <4> QED BY ONLY <2>1, <4>1, <4>2 DEF Statics
    <3>2. at' \in [Threads -> Positions] /\ shutdownStarted' \in BOOLEAN
      <4>1. /\ \/ at' = at
               \/ at' = [at EXCEPT ![Main] = "registry"]
               \/ at' = [at EXCEPT ![Main] = "stop"]
            /\ shutdownStarted' = TRUE \/ shutdownStarted' = shutdownStarted
        BY <1>22 DEF DestroyStatic
      <4>2. at \in [Threads -> Positions] /\ shutdownStarted \in BOOLEAN
        OBVIOUS
      <4> QED BY ONLY <4>1, <4>2 DEF Positions
    <3>3. built' \in Seq({"stats", "body", "buffers"})
      BY <2>1 DEF Statics
    <3> QED BY <1>22, <3>1, <3>2, <3>3 DEF DestroyStatic
  <2>5. PlaceInv'
    BY <1>22 DEF DestroyStatic
  <2>6. WorkersInv' /\ GoneInv'
    <3>1. CASE built[Len(built)] = "body"
      BY <1>22, <2>1, <2>2, <2>3, <3>1 DEF DestroyStatic, Statics
    <3>2. CASE built[Len(built)] # "body"
      BY <1>22, <2>1, <2>2, <2>3, <3>2 DEF DestroyStatic, Statics
    <3> QED BY <3>1, <3>2
  <2> QED BY <2>1, <2>4, <2>5, <2>6
<1>23. CASE DestroyRegistry
  BY <1>23 DEF DestroyRegistry
<1>24. CASE DestroyPool
  BY <1>24 DEF DestroyPool
<1>25. CASE End
  BY <1>25 DEF End
<1>26. CASE UNCHANGED vars
  BY <1>26 DEF vars
<1>27. ASSUME NEW t \in Threads, Proceed(t) PROVE LifeInv'
  BY <1>2, <1>4, <1>5, <1>6, <1>7, <1>8, <1>9, <1>10, <1>12, <1>15, <1>17, <1>18,
         <1>19, <1>27 DEF Proceed
<1>28. CASE ExitStep
  BY <1>21, <1>22, <1>23, <1>24, <1>25, <1>28 DEF ExitStep
<1> HIDE DEF LifeInv
<1> QED BY <1>1, <1>3, <1>11, <1>13, <1>14, <1>16, <1>20, <1>26, <1>27, <1>28 DEF Next

\* The invariant of the process holds initially.
LEMMA LifeInit == Init => LifeInv
<1> SUFFICES ASSUME Init PROVE LifeInv
  OBVIOUS
<1> USE ThreadsAssumption DEF Init
<1>1. StatsTypeOK
  BY InitIInv DEF IInv
<1>2. LifeTypeOK
  <2>1. 0 \in 0..MaxWorkers
    BY MaxWorkersAssumption
  <2>2. << >> \in Seq({"stats", "body", "buffers"})
    OBVIOUS
  <2> QED BY <1>1, <2>1, <2>2 DEF LifeTypeOK, Positions
<1>3. PlaceInv
  BY DEF PlaceInv, ExitPositions, BuildPositions, Clients
<1>4. OrderInv /\ WorkersInv /\ GoneInv
  BY DEF OrderInv, WorkersInv, GoneInv, Exists, NoneRuns, Clients, BuildPositions
<1> QED BY <1>2, <1>3, <1>4 DEF LifeInv

\* What holds of the process throughout.
LEMMA LifeInvariance == Spec => []LifeInv
<1>1. LifeInv /\ IInv' /\ [Next]_vars => LifeInv'
  BY LifeStep
<1> QED BY LifeInit, Invariance, <1>1, PTL DEF Spec

\* The variables of the statistics and of the runtime keep their types, for any
\* number of threads, workers and counts (Runtime.cpp).
THEOREM TypeCorrect == Spec => []LifeTypeOK
<1>1. LifeInv => LifeTypeOK
  BY DEF LifeInv
<1> QED BY <1>1, LifeInvariance, PTL

\* For any number of threads and workers, nobody counts or folds a block after
\* the statistics have been destroyed (TouchStatsGlobals before the workers).
THEOREM StatsOutliveWorkersHolds == Spec => []StatsOutliveWorkers
<1>1. LifeInv => StatsOutliveWorkers
  BY DEF LifeInv, GoneInv, StatsOutliveWorkers
<1> QED BY <1>1, LifeInvariance, PTL

\* For any number of workers, a body that exists has all of them until it is
\* stopped, and where there is none, no worker is left (WorkerPool::Start).
THEOREM NoHalfStartHolds == Spec => []NoHalfStart
<1>1. LifeInv => NoHalfStart
  BY DEF LifeInv, WorkersInv, NoHalfStart, Building, NoneRuns
<1> QED BY <1>1, LifeInvariance, PTL
=============================================================================
