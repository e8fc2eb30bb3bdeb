--------------------------- MODULE RuntimeLifetime ---------------------------
(***************************************************************************)
(* The life of the process-wide runtime (Runtime.cpp): its configuration,   *)
(* the magic static that starts it, the workers with their thread_local     *)
(* blocks, Shutdown, and the end of the process, which destroys the blocks  *)
(* of the main thread first and then the function-local statics in the      *)
(* reverse order of their construction.                                     *)
(*                                                                         *)
(* What workers run is of no concern here, only what it touches: the        *)
(* statistics (ThreadStats), the registry in the body, and the statics of   *)
(* SendBuffer.cpp, which the body does not know.  A SetWorkerCount after    *)
(* the start ends the process by an assertion, and so does a behaviour.     *)
(***************************************************************************)
EXTENDS ThreadStats, Sequences

CONSTANTS
  Main,              \* the thread that returns from main()
  Others,            \* other threads of the user, which end before main() does
  MaxWorkers,        \* bound: how many workers are asked for
  Hardware,          \* std::thread::hardware_concurrency()
  Readers,           \* the clients that take snapshots
  BufferUsers,       \* the threads that use send buffers
  HandlersShutDown,  \* a handler may call Shutdown
  StartMayFail       \* the operating system may refuse a thread

Workers == 1..MaxWorkers
Clients == {Main} \cup Others

ASSUME ThreadsAssumption ==
  Threads = Clients \cup Workers /\ Clients \cap Workers = {} /\ Main \notin Others
ASSUME UsersAssumption == Readers \subseteq Clients /\ BufferUsers \subseteq Threads
ASSUME MaxWorkersAssumption == MaxWorkers \in Nat \ {0}
ASSUME HardwareAssumption == Hardware \in 0..MaxWorkers

VARIABLES
  desired,          \* GDesiredWorkerCount, 0 for the default
  started,          \* GStarted
  setting,          \* the argument of each thread's SetWorkerCount, 0 outside
  poolSize,         \* WorkerPool::_workerCount
  worker,           \* the std::thread of each worker
  stopping,         \* WorkerPool::_stopping
  shutdownStarted,  \* _shutdownStarted
  at,               \* position of each thread
  exiting,          \* main() has returned
  built,            \* the statics that exist, in the order of their construction
  destroyed,        \* the statics and members that have been destroyed
  users,            \* threads that have a thread_local of SendBuffer.cpp
  misuse            \* history: what was used after it had been destroyed

configVars == <<desired, started, setting>>
poolVars   == <<poolSize, worker, stopping, shutdownStarted>>
staticVars == <<built, destroyed, users, misuse>>
lifeVars   == <<configVars, poolVars, at, exiting, staticVars>>
vars       == <<statsVars, lifeVars>>

Positions ==
  {"user", "store", "count", "flag", "touch", "start", "unwind", "stop", "join",
   "finalize", "blocks", "statics", "registry", "pool", "end"}

Exists(s) == \E i \in 1..Len(built) : built[i] = s

Init ==
  /\ StatsInit
  /\ desired = 0 /\ started = FALSE
  /\ setting = [t \in Clients |-> 0]
  /\ poolSize = 0
  /\ worker = [w \in Workers |-> "none"]
  /\ stopping = FALSE /\ shutdownStarted = FALSE
  /\ at = [t \in Threads |-> "user"]
  /\ exiting = FALSE
  /\ built = << >> /\ destroyed = {} /\ users = {} /\ misuse = {}

Go(t, position) == at' = [at EXCEPT ![t] = position]

Building == \E t \in Clients : at[t] \in {"count", "flag", "touch", "start", "unwind"}
NoneRuns == \A w \in Workers : worker[w] # "run"

\* Thread t is neither inside a call of the runtime nor at its end.
Runs(t) ==
  /\ at[t] = "user" /\ t \notin reader /\ block[t] # "gone"
  /\ IF t \in Workers THEN worker[t] = "run" ELSE ~exiting

\* It runs code of the user: a client's, or that of a handler, which there is
\* only when Instance() has returned.
InUser(t) == Runs(t) /\ (t \in Workers => ~Building)

\* A use of a function-local static: built by the first, misuse after the end.
Touch(s) ==
  /\ built' = IF Exists(s) \/ s \in destroyed THEN built ELSE Append(built, s)
  /\ misuse' = misuse \cup ({s} \cap destroyed)
  /\ UNCHANGED destroyed

-----------------------------------------------------------------------------
(* Configuration *)

\* SetWorkerCount looks at GStarted, and stores.
SetWorkerCount(t, n) ==
  /\ t \in Clients /\ InUser(t)
  /\ ~started
  /\ setting' = [setting EXCEPT ![t] = n]
  /\ Go(t, "store")
  /\ UNCHANGED <<statsVars, desired, started, poolVars, exiting, staticVars>>

StoreSetting(t) ==
  /\ at[t] = "store"
  /\ desired' = setting[t]
  /\ setting' = [setting EXCEPT ![t] = 0]
  /\ Go(t, "user")
  /\ UNCHANGED <<statsVars, started, poolVars, exiting, staticVars>>

\* What WorkerCount() returns as well.
ResolveWorkerCount ==
  IF desired # 0 THEN desired ELSE IF Hardware = 0 THEN 1 ELSE Hardware

-----------------------------------------------------------------------------
(* Instance() and the constructor of the body *)

\* The first use; further ones wait at the magic static until it is built.
Instance(t) ==
  /\ t \in Clients /\ InUser(t)
  /\ ~Exists("body") /\ ~Building
  /\ Go(t, "count")
  /\ UNCHANGED <<statsVars, configVars, poolVars, exiting, staticVars>>

\* StartWorkerCount reads the setting and raises the flag.
ReadWorkerCount(t) ==
  /\ at[t] = "count"
  /\ poolSize' = ResolveWorkerCount
  /\ Go(t, "flag")
  /\ UNCHANGED <<statsVars, configVars, worker, stopping, shutdownStarted, exiting, staticVars>>

RaiseStarted(t) ==
  /\ at[t] = "flag"
  /\ started' = TRUE
  /\ Go(t, "touch")
  /\ UNCHANGED <<statsVars, desired, setting, poolVars, exiting, staticVars>>

TouchNothing == UNCHANGED <<built, destroyed, misuse>>
TouchStatsGlobals == Touch("stats")

TouchGlobals(t) ==
  /\ at[t] = "touch"
  /\ TouchStatsGlobals
  /\ Go(t, "start")
  /\ UNCHANGED <<statsVars, configVars, poolVars, exiting, users>>

\* WorkerPool::Start.
StartWorker(t) ==
  /\ at[t] = "start"
  /\ \E w \in 1..poolSize :
       /\ worker[w] = "none"
       /\ \A v \in 1..(w - 1) : worker[v] # "none"
       /\ worker' = [worker EXCEPT ![w] = "run"]
  /\ UNCHANGED <<statsVars, configVars, poolSize, stopping, shutdownStarted, at, exiting, staticVars>>

\* The constructor returns.
BodyBuilt(t) ==
  /\ at[t] = "start"
  /\ \A w \in 1..poolSize : worker[w] # "none"
  /\ built' = Append(built, "body")
  /\ Go(t, "user")
  /\ UNCHANGED <<statsVars, configVars, poolVars, exiting, destroyed, users, misuse>>

SkipsTheDestructor == "user"
AfterRefusal == "unwind"

\* The operating system refuses a thread: the exception destroys the members,
\* and ~WorkerPool stops and joins the workers that had been started.
StartFails(t) ==
  /\ StartMayFail
  /\ at[t] = "start"
  /\ \E w \in 1..poolSize : worker[w] = "none"
  /\ stopping' = TRUE
  /\ Go(t, AfterRefusal)
  /\ UNCHANGED <<statsVars, configVars, poolSize, worker, shutdownStarted, exiting, staticVars>>

\* The exception leaves Instance(); the next use constructs another body, whose
\* workers are new threads.
Unwind(t) ==
  /\ at[t] = "unwind"
  /\ NoneRuns
  /\ worker' = [w \in Workers |-> "none"]
  /\ block' = [u \in Threads |-> IF u \in Workers THEN "none" ELSE block[u]]
  /\ users' = users \ Workers
  /\ poolSize' = 0 /\ stopping' = FALSE
  /\ Go(t, "user")
  /\ UNCHANGED <<value, registry, retired, counted, snapshotVars, configVars, shutdownStarted,
                 exiting, built, destroyed, misuse>>

-----------------------------------------------------------------------------
(* What threads use *)

\* Any thread counts, a worker also while the body is built.  Snapshots are those
\* of clients: in a handler they would take the same steps.
UseStats(t) ==
  /\ Runs(t)
  /\ Register(t) \/ Count(t) \/ (t \in Readers /\ SnapshotBegin(t))
  /\ Touch("stats")
  /\ UNCHANGED <<configVars, poolVars, at, exiting, users>>

Snapshot(t) ==
  /\ SnapshotRead(t) \/ SnapshotEnd(t)
  /\ UNCHANGED lifeVars

\* SendBufferManager::Current() and the statistics of SendBuffer.cpp.
UseBuffers(t) ==
  /\ t \in BufferUsers /\ InUser(t)
  /\ Touch("buffers")
  /\ users' = users \cup {t}
  /\ UNCHANGED <<statsVars, configVars, poolVars, at, exiting>>

\* The thread_local objects of t are destroyed: its blocks are folded.
EndThread(t) ==
  /\ \/ Retire(t)
     \/ block[t] # "live" /\ UNCHANGED statsVars
  /\ misuse' = misuse \cup (destroyed \cap ((IF block[t] = "live" THEN {"stats"} ELSE {})
                                       \cup (IF t \in users THEN {"buffers"} ELSE {})))

\* A thread of the user ends.
ClientEnds(t) ==
  /\ t \in Others /\ InUser(t)
  /\ EndThread(t)
  /\ Go(t, "end")
  /\ UNCHANGED <<configVars, poolVars, exiting, built, destroyed, users>>

\* WorkerLoop sees _stopping and returns.
WorkerEnds(w) ==
  /\ w \in Workers /\ Runs(w)
  /\ stopping
  /\ worker' = [worker EXCEPT ![w] = "ended"]
  /\ EndThread(w)
  /\ UNCHANGED <<configVars, poolSize, stopping, shutdownStarted, at, exiting,
                 built, destroyed, users>>

-----------------------------------------------------------------------------
(* Shutdown *)

\* Called by a client, or by a handler; only the first call does anything.
Shutdown(t) ==
  /\ InUser(t)
  /\ t \in Clients => Exists("body")
  /\ t \in Workers => HandlersShutDown
  /\ ~shutdownStarted
  /\ shutdownStarted' = TRUE
  /\ Go(t, "stop")
  /\ UNCHANGED <<statsVars, configVars, poolSize, worker, stopping, exiting, staticVars>>

LeavesStopping == stopping
SetStopping == TRUE

StopPool(t) ==
  /\ at[t] = "stop"
  /\ stopping' = SetStopping
  /\ Go(t, "join")
  /\ UNCHANGED <<statsVars, configVars, poolSize, worker, shutdownStarted, exiting, staticVars>>

\* StopAndJoin.  The join of a worker with itself throws out of Shutdown and of
\* the handler that called it, after that of some of the others.
Join(t) ==
  /\ at[t] = "join"
  /\ \/ t \in Workers /\ Go(t, "user")
     \/ t \in Clients /\ NoneRuns /\ Go(t, "finalize")
  /\ UNCHANGED <<statsVars, configVars, poolVars, exiting, staticVars>>

\* FinalizeAll counts each finalization in the block of its thread.
FinalizeAll(t) ==
  /\ at[t] = "finalize"
  /\ misuse' = IF block[t] = "gone" THEN misuse \cup {"block"} ELSE misuse
  /\ Go(t, IF exiting THEN "registry" ELSE "user")
  /\ UNCHANGED <<statsVars, configVars, poolVars, exiting, built, destroyed, users>>

-----------------------------------------------------------------------------
(* The end of the process *)

\* main() returns, or exit() is called, when the other threads have ended.
Exit ==
  /\ InUser(Main)
  /\ \A t \in Others : at[t] = "end"
  /\ exiting' = TRUE
  /\ Go(Main, "blocks")
  /\ UNCHANGED <<statsVars, configVars, poolVars, staticVars>>

\* The thread_local objects of the main thread go first.
DestroyBlocks ==
  /\ at[Main] = "blocks"
  /\ EndThread(Main)
  /\ Go(Main, "statics")
  /\ UNCHANGED <<configVars, poolVars, exiting, built, destroyed, users>>

\* Then the statics, the last one built first.  ~RuntimeBody calls Shutdown,
\* which returns at once if it has been called before.
DestroyStatic ==
  /\ at[Main] = "statics"
  /\ built # << >>
  /\ built' = SubSeq(built, 1, Len(built) - 1)
  /\ IF built[Len(built)] = "body"
       THEN /\ shutdownStarted' = TRUE
            /\ Go(Main, IF shutdownStarted THEN "registry" ELSE "stop")
            /\ UNCHANGED destroyed
       ELSE /\ destroyed' = destroyed \cup {built[Len(built)]}
            /\ UNCHANGED <<shutdownStarted, at>>
  /\ UNCHANGED <<statsVars, configVars, poolSize, worker, stopping, exiting, users, misuse>>

\* The members of the body in reverse order: _registry, and _pool, whose
\* destructor stops and joins once more.
DestroyRegistry ==
  /\ at[Main] = "registry"
  /\ destroyed' = destroyed \cup {"registry"}
  /\ stopping' = TRUE
  /\ Go(Main, "pool")
  /\ UNCHANGED <<statsVars, configVars, poolSize, worker, shutdownStarted, exiting,
                 built, users, misuse>>

DestroyPool ==
  /\ at[Main] = "pool"
  /\ NoneRuns
  /\ destroyed' = destroyed \cup {"body"}
  /\ Go(Main, "statics")
  /\ UNCHANGED <<statsVars, configVars, poolVars, exiting, built, users, misuse>>

End ==
  /\ at[Main] = "statics"
  /\ built = << >>
  /\ Go(Main, "end")
  /\ UNCHANGED <<statsVars, configVars, poolVars, exiting, staticVars>>

-----------------------------------------------------------------------------
\* A step of a call, of the exit or of a worker's end that is under way.
Proceed(t) ==
  \/ StoreSetting(t)
  \/ ReadWorkerCount(t) \/ RaiseStarted(t) \/ TouchGlobals(t) \/ StartWorker(t)
  \/ BodyBuilt(t) \/ StartFails(t) \/ Unwind(t)
  \/ Snapshot(t) \/ WorkerEnds(t)
  \/ StopPool(t) \/ Join(t) \/ FinalizeAll(t)

ExitStep == DestroyBlocks \/ DestroyStatic \/ DestroyRegistry \/ DestroyPool \/ End

Next ==
  \/ \E t \in Threads :
       \/ \E n \in Workers : SetWorkerCount(t, n)
       \/ Instance(t) \/ UseStats(t) \/ UseBuffers(t) \/ Shutdown(t) \/ ClientEnds(t)
       \/ Proceed(t)
  \/ Exit
  \/ ExitStep

Spec == Init /\ [][Next]_vars

\* Every thread inside a call goes on, handlers return, so that a worker gets to
\* look at _stopping, and so do the destructors at exit.
FairSpec ==
  /\ Spec
  /\ \A t \in Threads : WF_vars(Proceed(t))
  /\ WF_vars(ExitStep)

-----------------------------------------------------------------------------
(* Correctness *)

\* Every variable keeps its type.
LifeTypeOK ==
  /\ StatsTypeOK
  /\ desired \in 0..MaxWorkers /\ started \in BOOLEAN
  /\ setting \in [Clients -> 0..MaxWorkers]
  /\ poolSize \in 0..MaxWorkers
  /\ worker \in [Workers -> {"none", "run", "ended"}]
  /\ stopping \in BOOLEAN /\ shutdownStarted \in BOOLEAN /\ exiting \in BOOLEAN
  /\ at \in [Threads -> Positions]
  /\ built \in Seq({"stats", "body", "buffers"})
  /\ destroyed \subseteq {"stats", "body", "buffers", "registry"}
  /\ users \subseteq Threads
  /\ misuse \subseteq {"stats", "buffers", "block"}

\* The statistics of the runtime outlive everybody who counts, whoever started
\* the runtime, whoever shut it down and however the process ends: this is what
\* TouchStatsGlobals before the first worker is for.
StatsOutliveWorkers == "stats" \notin misuse

\* Nobody ever gets a runtime that has only some of its workers, and a start
\* that failed leaves none behind (WorkerPool::Start, ~WorkerPool).
NoHalfStart ==
  IF Exists("body")
    THEN stopping \/ \A w \in 1..poolSize : worker[w] = "run"
    ELSE Building \/ exiting \/ NoneRuns

\* A process that leaves main() comes to its end, with or without a Shutdown
\* before, from a handler too: nobody joins a thread that waits for the joiner.
ExitEnds == exiting ~> at[Main] = "end"

\* Runtime.h: WorkerCount() is the effective number of workers, and a setting
\* is never silently ignored.
SettingIsUsed ==
  Exists("body") /\ (\A t \in Clients : at[t] # "store") => poolSize = ResolveWorkerCount

\* design/threading.md: what workers touch is built before the body, so that it
\* is destroyed after they have been joined.
BuffersOutliveWorkers == "buffers" \notin misuse

\* RuntimeInternal.h: the members of the body are destroyed only after Shutdown
\* has joined the workers.
JoinedBeforeDestroyed == "registry" \in destroyed => NoneRuns
=============================================================================
