----------------------------- MODULE SendBuffer -----------------------------
(***************************************************************************)
(* The send buffers (SendBuffer.cpp): a bump allocator per thread, chunks  *)
(* with a reference count, and a pool of idle chunks that all threads      *)
(* share.                                                                  *)
(*                                                                         *)
(* A chunk's _offset is neither atomic nor locked, so it is read in one    *)
(* step and written in another: Reserve reads, then bumps; Commit and the  *)
(* destructor compare, then rewind.  A reference count is atomic: dropping *)
(* a reference is one step, and whoever drops the last one goes on to      *)
(* return the chunk, which is two steps, the look at the pool's size and   *)
(* the enqueue.                                                            *)
(*                                                                         *)
(* The SendBuffer and SendView objects of the program are slots; which     *)
(* thread holds one is not recorded, since both may be handed to any other *)
(* thread.  The bytes themselves are not modelled, only who may write      *)
(* where.  The idle queue is moodycamel's: an enqueue may fail to allocate *)
(* and a dequeue may miss an element, so Acquire may always create.        *)
(***************************************************************************)
EXTENDS Naturals, FiniteSets

CONSTANTS Threads,    \* each has a SendBufferManager
          Chunks,     \* the addresses a chunk can have
          Slots,      \* SendBuffer and SendView objects
          Capacity,   \* DEFAULT_CHUNK_CAPACITY
          Threshold,  \* LARGE_ALLOCATION_THRESHOLD
          MaxSize,    \* MAX_SEND_BUFFER_SIZE
          Limits      \* the values given to SetPoolIdleLimit

\* The static_assert of SendBuffer.h.
ASSUME ThresholdAssumption == /\ Capacity \in Nat /\ Threshold \in Nat
                              /\ Threshold <= Capacity
ASSUME SizeAssumption == MaxSize \in Nat
ASSUME LimitsAssumption == Limits \subseteq Nat /\ Limits # {}
ASSUME ThreadsAssumption == IsFiniteSet(Threads) /\ Threads # {}

VARIABLES
  live,       \* the chunks that exist
  dedicated,  \* those made for one large reservation
  capacity,   \* _capacity of each chunk
  offset,     \* _offset of each chunk
  current,    \* _current of each thread's manager, as a set
  slot,       \* what each SendBuffer or SendView holds
  idle,       \* ChunkPool::_idle
  idleLimit,  \* ChunkPool::_idleLimit
  pc,         \* position of each thread
  need,       \* the size of each thread's Reserve, 0 when it is in none
  seen,       \* the offset that a Reserve has read
  job,        \* the slot that a Commit or a destructor works on, as a set
  usedSize,   \* how much of the reservation is kept
  commits,    \* it is a Commit
  inHand      \* the chunk between a thread and the pool, as a set

chunkVars  == <<live, dedicated, capacity, offset>>
poolVars   == <<idle, idleLimit>>
jobVars    == <<job, usedSize, commits>>
threadVars == <<pc, need, seen, jobVars, inHand>>
vars == <<chunkVars, current, slot, poolVars, threadVars>>

Empty == [kind |-> "empty"]
Region == [kind : {"buffer", "view"}, chunk : Chunks, from : Nat, to : Nat]

ThreadPc == {"none", "acquire", "install", "bump", "rewind", "finish",
             "return", "enqueue"}

Init ==
  /\ live = {}
  /\ dedicated = {}
  /\ capacity = [c \in Chunks |-> 0]
  /\ offset = [c \in Chunks |-> 0]
  /\ current = [t \in Threads |-> {}]
  /\ slot = [s \in Slots |-> Empty]
  /\ idle = {}
  /\ idleLimit \in Limits
  /\ pc = [t \in Threads |-> "none"]
  /\ need = [t \in Threads |-> 0]
  /\ seen = [t \in Threads |-> 0]
  /\ job = [t \in Threads |-> {}]
  /\ usedSize = [t \in Threads |-> 0]
  /\ commits = [t \in Threads |-> FALSE]
  /\ inHand = [t \in Threads |-> {}]

Go(t, p) == pc' = [pc EXCEPT ![t] = p]

Held(s) == slot[s] # Empty
IsBuffer(s) == Held(s) /\ slot[s].kind = "buffer"
IsView(s) == Held(s) /\ slot[s].kind = "view"
Free == {s \in Slots : ~Held(s)}
Busy(s) == \E t \in Threads : s \in job[t]

\* Bound: a Reserve begins only if a slot will be left for it.
Room == Cardinality(Free) > Cardinality({t \in Threads : need[t] > 0})

-----------------------------------------------------------------------------
(* References *)

\* The references to chunk c, given the slots and the managers.
OnlySlotsRefer(c, slots, managers) ==
  \E s \in Slots : slots[s] # Empty /\ slots[s].chunk = c
Referenced(c, slots, managers) ==
  \/ \E s \in Slots : slots[s] # Empty /\ slots[s].chunk = c
  \/ \E t \in Threads : c \in managers[t]

\* What exists after the pool has deleted a chunk that it did not take.
ForgottenDelete(c) == live
AfterDelete(c) == live \ {c}

\* ~SendBufferChunk.  The fields of what does not exist are 0.
DeleteChunk(c) ==
  /\ live' = AfterDelete(c)
  /\ dedicated' = dedicated \ {c}
  /\ capacity' = [capacity EXCEPT ![c] = 0]
  /\ offset' = [offset EXCEPT ![c] = 0]

\* Thread t drops a reference to chunk c, of which slot' and current' already
\* tell, and is done if others remain.  The last reference deletes a dedicated
\* chunk and returns any other to the pool.
DropReference(t, c, done) ==
  \/ /\ Referenced(c, slot', current')
     /\ Go(t, done)
     /\ UNCHANGED <<chunkVars, inHand>>
  \/ /\ ~Referenced(c, slot', current')
     /\ c \in dedicated
     /\ DeleteChunk(c)
     /\ Go(t, done)
     /\ UNCHANGED inHand
  \/ /\ ~Referenced(c, slot', current')
     /\ c \notin dedicated
     /\ inHand' = [inHand EXCEPT ![t] = {c}]
     /\ Go(t, "return")
     /\ UNCHANGED chunkVars

-----------------------------------------------------------------------------
(* Reserve *)

\* Bump compares without adding, as the sum could overflow.
FitsWithOneOver(c, n) == n <= capacity[c] - offset[c] + 1
Fits(c, n) == n <= capacity[c] - offset[c]

\* A request above the threshold gets a chunk of its own.
ReserveLarge(t, c, s, n) ==
  /\ pc[t] = "none"
  /\ n > Threshold
  /\ c \notin live
  /\ s \in Free /\ Room
  /\ live' = live \cup {c}
  /\ dedicated' = dedicated \cup {c}
  /\ capacity' = [capacity EXCEPT ![c] = n]
  /\ offset' = [offset EXCEPT ![c] = n]
  /\ slot' = [slot EXCEPT ![s] = [kind |-> "buffer", chunk |-> c, from |-> 0, to |-> n]]
  /\ UNCHANGED <<current, poolVars, threadVars>>

\* Any other is cut from the current chunk if it fits there; Offset is read.
Reserve(t, n) ==
  /\ pc[t] = "none"
  /\ n <= Threshold
  /\ Room
  /\ need' = [need EXCEPT ![t] = n]
  /\ \/ \E c \in current[t] :
          /\ Fits(c, n)
          /\ seen' = [seen EXCEPT ![t] = offset[c]]
          /\ Go(t, "bump")
     \/ /\ \A c \in current[t] : ~Fits(c, n)
        /\ Go(t, "acquire")
        /\ UNCHANGED seen
  /\ UNCHANGED <<chunkVars, current, slot, poolVars, jobVars, inHand>>

\* ChunkPool::Acquire takes an idle chunk or makes one.
Acquire(t, c) ==
  /\ pc[t] = "acquire"
  /\ \/ /\ c \in idle
        /\ idle' = idle \ {c}
        /\ UNCHANGED chunkVars
     \/ /\ c \notin live
        /\ live' = live \cup {c}
        /\ capacity' = [capacity EXCEPT ![c] = Capacity]
        /\ offset' = [offset EXCEPT ![c] = 0]
        /\ UNCHANGED <<dedicated, idle>>
  /\ inHand' = [inHand EXCEPT ![t] = {c}]
  /\ Go(t, "install")
  /\ UNCHANGED <<current, slot, idleLimit, need, seen, jobVars>>

\* The new owner resets the chunk and makes it current; then the reference to
\* the old one is dropped, which may return that one to the pool.
Install(t) ==
  /\ pc[t] = "install"
  /\ \E c \in inHand[t] :
       /\ offset' = [offset EXCEPT ![c] = 0]
       /\ current' = [current EXCEPT ![t] = {c}]
  /\ seen' = [seen EXCEPT ![t] = 0]
  /\ UNCHANGED slot
  /\ \/ \E old \in current[t] :
          /\ ~Referenced(old, slot', current')
          /\ inHand' = [inHand EXCEPT ![t] = {old}]
          /\ Go(t, "return")
     \/ /\ \A old \in current[t] : Referenced(old, slot', current')
        /\ inHand' = [inHand EXCEPT ![t] = {}]
        /\ Go(t, "bump")
  /\ UNCHANGED <<live, dedicated, capacity, poolVars, need, jobVars>>

\* The offset is written and the SendBuffer made.
Bump(t, s) ==
  /\ pc[t] = "bump"
  /\ s \in Free
  /\ \E c \in current[t] :
       LET end == seen[t] + need[t]
       IN  /\ offset' = [offset EXCEPT ![c] = end]
           /\ slot' = [slot EXCEPT ![s] =
                         [kind |-> "buffer", chunk |-> c, from |-> seen[t], to |-> end]]
  /\ need' = [need EXCEPT ![t] = 0]
  /\ seen' = [seen EXCEPT ![t] = 0]
  /\ Go(t, "none")
  /\ UNCHANGED <<live, dedicated, capacity, current, poolVars, jobVars, inHand>>

-----------------------------------------------------------------------------
(* Commit, the destructors and the copies *)

\* TryRewind's two conditions: this thread owns the chunk, and nothing was cut
\* from it after this reservation.
TailOnly(t, r) == offset[r.chunk] = r.to
OwnerOnly(t, r) == current[t] = {r.chunk}
MayRewind(t, r) == current[t] = {r.chunk} /\ offset[r.chunk] = r.to

\* Commit keeps used bytes.  The destructor and the move assignment, which first
\* gives up what it holds, keep none and make no view.
CloseBuffer(t, s, used, commit) ==
  /\ pc[t] = "none"
  /\ IsBuffer(s) /\ ~Busy(s)
  /\ used <= slot[s].to - slot[s].from
  /\ commit \/ used = 0
  /\ job' = [job EXCEPT ![t] = {s}]
  /\ usedSize' = [usedSize EXCEPT ![t] = used]
  /\ commits' = [commits EXCEPT ![t] = commit]
  /\ Go(t, IF MayRewind(t, slot[s]) THEN "rewind" ELSE "finish")
  /\ UNCHANGED <<chunkVars, current, slot, poolVars, need, seen, inHand>>

Rewind(t) ==
  /\ pc[t] = "rewind"
  /\ \E s \in job[t] :
       offset' = [offset EXCEPT ![slot[s].chunk] = slot[s].from + usedSize[t]]
  /\ Go(t, "finish")
  /\ UNCHANGED <<live, dedicated, capacity, current, slot, poolVars, need, seen,
                 jobVars, inHand>>

\* The SendBuffer becomes a view, or gives up its reference.
Finish(t) ==
  /\ pc[t] = "finish"
  /\ UNCHANGED current
  /\ \E s \in job[t] :
       \/ /\ commits[t]
          /\ slot' = [slot EXCEPT ![s].kind = "view",
                                  ![s].to = slot[s].from + usedSize[t]]
          /\ Go(t, "none")
          /\ UNCHANGED <<chunkVars, inHand>>
       \/ /\ ~commits[t]
          /\ slot' = [slot EXCEPT ![s] = Empty]
          /\ DropReference(t, slot[s].chunk, "none")
  /\ job' = [job EXCEPT ![t] = {}]
  /\ usedSize' = [usedSize EXCEPT ![t] = 0]
  /\ commits' = [commits EXCEPT ![t] = FALSE]
  /\ UNCHANGED <<poolVars, need, seen>>

CopyView(s, copy) ==
  /\ IsView(s)
  /\ copy \in Free /\ Room
  /\ slot' = [slot EXCEPT ![copy] = slot[s]]
  /\ UNCHANGED <<chunkVars, current, poolVars, threadVars>>

DestroyView(t, s) ==
  /\ pc[t] = "none"
  /\ IsView(s)
  /\ slot' = [slot EXCEPT ![s] = Empty]
  /\ UNCHANGED current
  /\ DropReference(t, slot[s].chunk, "none")
  /\ UNCHANGED <<poolVars, need, seen, jobVars>>

\* ReleaseCurrentChunk, or the end of the thread.
ReleaseCurrentChunk(t) ==
  /\ pc[t] = "none"
  /\ current' = [current EXCEPT ![t] = {}]
  /\ UNCHANGED slot
  /\ \E c \in current[t] : DropReference(t, c, "none")
  /\ UNCHANGED <<poolVars, need, seen, jobVars>>

-----------------------------------------------------------------------------
(* ChunkPool::Return *)

FullAboveLimit == Cardinality(idle) > idleLimit
PoolIsFull == Cardinality(idle) >= idleLimit

Poolable(c) == capacity[c] = Capacity

\* A thread that returned the old chunk inside Reserve goes on to bump.
AfterReturn(t) == IF need[t] > 0 THEN "bump" ELSE "none"

\* The pool does not take chunk c.
Refuse(t, c) ==
  /\ DeleteChunk(c)
  /\ inHand' = [inHand EXCEPT ![t] = {}]
  /\ Go(t, AfterReturn(t))

\* The look at the size of the pool.
Return(t) ==
  /\ pc[t] = "return"
  /\ \/ \E c \in inHand[t] :
          /\ ~Poolable(c) \/ PoolIsFull
          /\ Refuse(t, c)
     \/ /\ \A c \in inHand[t] : Poolable(c) /\ ~PoolIsFull
        /\ Go(t, "enqueue")
        /\ UNCHANGED <<chunkVars, inHand>>
  /\ UNCHANGED <<current, slot, poolVars, need, seen, jobVars>>

Enqueue(t) ==
  /\ pc[t] = "enqueue"
  /\ \E c \in inHand[t] :
       \/ /\ idle' = idle \cup {c}
          /\ inHand' = [inHand EXCEPT ![t] = {}]
          /\ Go(t, AfterReturn(t))
          /\ UNCHANGED chunkVars
       \/ /\ Refuse(t, c)
          /\ UNCHANGED idle
  /\ UNCHANGED <<current, slot, idleLimit, need, seen, jobVars>>

SetPoolIdleLimit(limit) ==
  /\ idleLimit' = limit
  /\ UNCHANGED <<chunkVars, current, slot, idle, threadVars>>

-----------------------------------------------------------------------------
ThreadStep(t) ==
  \/ \E c \in Chunks, s \in Slots, n \in 1 .. MaxSize : ReserveLarge(t, c, s, n)
  \/ \E n \in 1 .. MaxSize : Reserve(t, n)
  \/ \E c \in Chunks : Acquire(t, c)
  \/ Install(t)
  \/ \E s \in Slots : Bump(t, s)
  \/ \E s \in Slots, used \in 0 .. MaxSize, commit \in BOOLEAN :
       CloseBuffer(t, s, used, commit)
  \/ Rewind(t)
  \/ Finish(t)
  \/ \E s \in Slots : DestroyView(t, s)
  \/ ReleaseCurrentChunk(t)
  \/ Return(t)
  \/ Enqueue(t)

Next ==
  \/ \E t \in Threads : ThreadStep(t)
  \/ \E s, copy \in Slots : CopyView(s, copy)
  \/ \E limit \in Limits : SetPoolIdleLimit(limit)

Spec == Init /\ [][Next]_vars

-----------------------------------------------------------------------------
(* Correctness *)

\* Every variable keeps its type.
TypeOK ==
  /\ live \subseteq Chunks
  /\ dedicated \subseteq live
  /\ capacity \in [Chunks -> Nat]
  /\ offset \in [Chunks -> Nat]
  /\ current \in [Threads -> SUBSET Chunks]
  /\ slot \in [Slots -> Region \cup {Empty}]
  /\ idle \subseteq live
  /\ idleLimit \in Limits
  /\ pc \in [Threads -> ThreadPc]
  /\ need \in [Threads -> Nat]
  /\ seen \in [Threads -> Nat]
  /\ job \in [Threads -> SUBSET Slots]
  /\ usedSize \in [Threads -> Nat]
  /\ commits \in [Threads -> BOOLEAN]
  /\ inHand \in [Threads -> SUBSET Chunks]

\* Regions r and q have a byte in common.
HasBytes(r) == r.from < r.to
Overlap(r, q) ==
  r.chunk = q.chunk /\ HasBytes(r) /\ HasBytes(q) /\ r.from < q.to /\ q.from < r.to

\* What a SendBuffer may write belongs to it alone: it overlaps no other
\* SendBuffer and no SendView that an I/O may still be reading, and two views
\* overlap only if one is a copy of the other (Bump, TryRewind, Reset).
ReservationsDisjoint ==
  \A s, u \in Slots :
    s # u /\ Held(s) /\ Held(u) /\ Overlap(slot[s], slot[u]) =>
      IsView(s) /\ IsView(u) /\ slot[s] = slot[u]

\* Every byte of a reservation or a view lies below its chunk's offset, so that
\* the next Bump does not hand it out again, and no offset passes the capacity,
\* so that Bump's subtraction does not wrap.  (A view of no bytes may end up
\* above the offset.)
WithinOffset ==
  /\ \A c \in live : offset[c] <= capacity[c]
  /\ \A s \in Slots : Held(s) /\ HasBytes(slot[s]) /\ ~Busy(s) =>
       slot[s].to <= offset[slot[s].chunk]

\* A chunk is the current one of at most one thread, and while it is, or while
\* a SendBuffer or a SendView refers to it, it is neither idle nor on its way to
\* or from the pool, nor deleted.
OneOwner ==
  \A c \in Chunks :
    /\ \A t, u \in Threads : c \in current[t] /\ c \in current[u] => t = u
    /\ Referenced(c, slot, current) =>
         c \in live /\ c \notin idle /\ \A t \in Threads : c \notin inHand[t]

\* The chunks whose offset thread t will write next.
Writes(t) ==
  CASE pc[t] = "bump"    -> current[t]
    [] pc[t] = "install" -> inHand[t]
    [] pc[t] = "rewind"  -> {slot[s].chunk : s \in job[t]}
    [] OTHER             -> {}

\* No two threads are ever between reading and writing the offset of one chunk,
\* and a thread that is has that chunk for itself: _offset needs no lock.
OffsetIsOwned ==
  \A t, u \in Threads : t # u =>
    Writes(t) \cap (Writes(u) \cup current[u] \cup inHand[u]) = {}

\* Each existing chunk is in one place: referred to, idle, or in the hands of
\* one thread; none is leaked and none is returned twice.
ChunksAccountedFor ==
  /\ \A c \in live :
       \/ Referenced(c, slot, current)
       \/ c \in idle
       \/ \E t \in Threads : c \in inHand[t]
  /\ idle \cap dedicated = {}
  /\ \A t \in Threads : inHand[t] \cap idle = {}
  /\ \A t, u \in Threads : t # u => inHand[t] \cap inHand[u] = {}

\* Threads that return chunks at the same time overrun the pool's limit (the
\* largest that was set) by less than their number, counting those that have
\* seen room and are about to enqueue.
IdleOvershootBounded ==
  \E limit \in Limits :
    Cardinality(idle) + Cardinality({t \in Threads : pc[t] = "enqueue"})
      < limit + Cardinality(Threads)
=============================================================================
