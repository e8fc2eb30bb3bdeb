----------------------------- MODULE ThreadStats -----------------------------
(***************************************************************************)
(* The statistics of Runtime.cpp (and, class for class, of SendBuffer.cpp): *)
(* a thread counts in its own thread_local block without any lock, a block  *)
(* enters StatsRegistry when it is built, and when its thread ends it       *)
(* leaves the registry and its values are folded into RetiredStats.         *)
(* SnapshotStats adds everything up under StatsLock.                        *)
(*                                                                         *)
(* One counter stands for all of them.  Sums are kept apart by the thread   *)
(* that counted, so that what a snapshot says of each thread can be told.   *)
(* A counter is loaded and stored whole, as aligned 64 bit words are on     *)
(* the platforms the build supports; the race is otherwise modelled.        *)
(***************************************************************************)
EXTENDS Naturals

CONSTANTS Threads,
          MaxCount    \* bound: how often a thread counts

ASSUME CountAssumption == MaxCount \in Nat

VARIABLES
  block,     \* the ThreadStatsBlock of each thread
  value,     \* its _values
  registry,  \* StatsRegistry: the threads whose block is in it
  retired,   \* RetiredStats
  reader,    \* the thread inside SnapshotStats, which holds StatsLock, as a set
  toRead,    \* the blocks that its loop has still to visit
  total,     \* its local "total"
  counted,   \* history: how often each thread has counted
  floor      \* history: "counted" when the snapshot took StatsLock

blockVars    == <<block, value, registry, retired, counted>>
snapshotVars == <<reader, toRead, total, floor>>
statsVars    == <<blockVars, snapshotVars>>

Nothing == [t \in Threads |-> 0]

StatsInit ==
  /\ block = [t \in Threads |-> "none"]
  /\ value = Nothing /\ retired = Nothing /\ counted = Nothing
  /\ registry = {} /\ reader = {} /\ toRead = {}
  /\ total = Nothing /\ floor = Nothing

IgnoresLock == TRUE
LockIsFree == reader = {}

\* ThreadStatsBlock(): the first use of ThreadStats() by a thread.
Register(t) ==
  /\ block[t] = "none"
  /\ LockIsFree
  /\ block' = [block EXCEPT ![t] = "live"]
  /\ registry' = registry \cup {t}
  /\ UNCHANGED <<value, retired, counted, snapshotVars>>

\* ThreadStats().someCount += 1, which takes no lock.
Count(t) ==
  /\ block[t] = "live"
  /\ counted[t] < MaxCount
  /\ value' = [value EXCEPT ![t] = @ + 1]
  /\ counted' = [counted EXCEPT ![t] = @ + 1]
  /\ UNCHANGED <<block, registry, retired, snapshotVars>>

TakeAway(sum, t) == [sum EXCEPT ![t] = @ - value[t]]
AccumulateInto(sum, t) == [sum EXCEPT ![t] = @ + value[t]]

\* ~ThreadStatsBlock(), when the thread ends.  The values of a block that does
\* not exist are 0.
Retire(t) ==
  /\ block[t] = "live"
  /\ LockIsFree
  /\ registry' = registry \ {t}
  /\ retired' = AccumulateInto(retired, t)
  /\ value' = [value EXCEPT ![t] = 0]
  /\ block' = [block EXCEPT ![t] = "gone"]
  /\ UNCHANGED <<counted, snapshotVars>>

\* SnapshotStats takes the lock and starts from RetiredStats.
SnapshotBegin(t) ==
  /\ reader = {}
  /\ reader' = {t}
  /\ total' = retired
  /\ toRead' = registry
  /\ floor' = counted
  /\ UNCHANGED blockVars

\* One turn of its loop.
SnapshotRead(t) ==
  /\ t \in reader
  /\ \E u \in toRead : /\ total' = AccumulateInto(total, u)
                       /\ toRead' = toRead \ {u}
  /\ UNCHANGED <<blockVars, reader, floor>>

SnapshotEnd(t) ==
  /\ t \in reader
  /\ toRead = {}
  /\ reader' = {}
  /\ total' = Nothing
  /\ floor' = Nothing
  /\ UNCHANGED <<blockVars, toRead>>

-----------------------------------------------------------------------------
(* Correctness *)

StatsTypeOK ==
  /\ block \in [Threads -> {"none", "live", "gone"}]
  /\ value \in [Threads -> Nat]
  /\ registry \subseteq Threads
  /\ retired \in [Threads -> Nat]
  /\ reader \subseteq Threads
  /\ toRead \subseteq Threads
  /\ total \in [Threads -> Nat]
  /\ counted \in [Threads -> Nat]
  /\ floor \in [Threads -> Nat]

\* A snapshot that is about to return holds of each thread, whether it still
\* runs or has ended, no less than the thread had counted when StatsLock was
\* taken and no more than it has counted by now: no count is lost or added twice
\* by a thread that ends, and of an ended thread it is exact (ThreadStatsBlock).
SnapshotBounds ==
  reader # {} /\ toRead = {} =>
    \A t \in Threads : floor[t] <= total[t] /\ total[t] <= counted[t]
=============================================================================
