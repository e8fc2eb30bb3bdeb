------------------------- MODULE SendBuffer_proofs -------------------------
(***************************************************************************)
(* Theorems about the send buffers for any numbers of threads, chunks and  *)
(* buffers and any sizes: no byte has two owners although offsets are      *)
(* neither atomic nor locked.                                              *)
(***************************************************************************)
EXTENDS SendBuffer, FiniteSetTheorems, TLAPS

-----------------------------------------------------------------------------
(* The inductive invariant *)

\* What a thread holds at each position: at most one chunk on its way to or from
\* the pool, at most one SendBuffer that it closes, and which nobody else does.
ThreadInv ==
  /\ \A t \in Threads :
       /\ pc[t] \in {"install", "return", "enqueue"} <=> inHand[t] # {}
       /\ \A c, d \in inHand[t] : c = d
       /\ \A c, d \in current[t] : c = d
       /\ pc[t] \in {"acquire", "install", "bump"} => need[t] > 0
       /\ pc[t] \in {"none", "rewind", "finish"} => need[t] = 0
       /\ pc[t] \in {"bump", "return", "enqueue"} /\ need[t] > 0 => current[t] # {}
       /\ pc[t] \in {"rewind", "finish"} <=> job[t] # {}
       /\ \A s, u \in job[t] : s = u
       /\ \A s \in job[t] : IsBuffer(s) /\ slot[s].from + usedSize[t] <= slot[s].to
  /\ \A t, u \in Threads : t # u => job[t] \cap job[u] = {}

\* Where the chunks are.
PlaceInv ==
  /\ OneOwner
  /\ ChunksAccountedFor
  /\ \A t \in Threads : /\ inHand[t] \subseteq live \ dedicated
                        /\ current[t] \cap dedicated = {}

\* What a chunk's owner knows of its offset while it reserves and rewinds.
Knows(t) ==
  /\ need[t] <= Threshold
  /\ pc[t] \in {"bump", "return", "enqueue"} /\ need[t] > 0 =>
       \A c \in current[t] : /\ seen[t] = offset[c]
                             /\ seen[t] + need[t] <= capacity[c]
  /\ pc[t] = "rewind" => \A s \in job[t] : MayRewind(t, slot[s])

\* No chunk is overfull, and those of the pool have the default capacity.
SizeInv ==
  /\ \A c \in live : offset[c] <= capacity[c]
  /\ \A c \in live \ dedicated : capacity[c] = Capacity

OwnerInv == SizeInv /\ \A t \in Threads : Knows(t)

\* Its owner t has rewound the chunk of slot s, which it still has to shorten.
Rewound(t, s) ==
  /\ s \in job[t]
  /\ pc[t] = "finish"
  /\ current[t] = {slot[s].chunk}
  /\ slot[s].from + usedSize[t] <= offset[slot[s].chunk]

\* The bytes of slot s lie below the offset.
Below(s) ==
  Held(s) /\ HasBytes(slot[s]) =>
    \/ slot[s].to <= offset[slot[s].chunk]
    \/ \E t \in Threads : Rewound(t, s)

RegionInv ==
  /\ \A s \in Slots : IsBuffer(s) => HasBytes(slot[s])
  /\ \A s \in Slots : Below(s)
  /\ ReservationsDisjoint

IInv == TypeOK /\ ThreadInv /\ PlaceInv /\ OwnerInv /\ RegionInv

-----------------------------------------------------------------------------
(* Records *)

\* A slot that is held has the fields of a region.
LEMMA HeldRegion ==
  ASSUME TypeOK, NEW s \in Slots, Held(s)
  PROVE  /\ slot[s] \in Region
         /\ slot[s].kind \in {"buffer", "view"}
         /\ slot[s].chunk \in Chunks
         /\ slot[s].from \in Nat
         /\ slot[s].to \in Nat
<1>1. slot[s] \in Region
  BY DEF TypeOK, Held
<1> QED BY <1>1 DEF Region

\* A region is not the empty slot.
LEMMA NewRegion ==
  ASSUME NEW kind \in {"buffer", "view"}, NEW c \in Chunks, NEW from \in Nat,
         NEW to \in Nat,
         NEW r, r = [kind |-> kind, chunk |-> c, from |-> from, to |-> to]
  PROVE  /\ r \in Region /\ r # Empty
         /\ r.kind = kind /\ r.chunk = c /\ r.from = from /\ r.to = to
<1>1. r \in Region /\ r.kind = kind /\ r.chunk = c /\ r.from = from /\ r.to = to
  BY DEF Region
<1>2. Empty.kind = "empty"
  BY DEF Empty
<1> QED BY <1>1, <1>2

\* The two updates of Finish make a view of a region.
LEMMA ShortenedRegion ==
  ASSUME NEW r \in Region, NEW end
  PROVE  [r EXCEPT !.kind = "view", !.to = end]
           = [kind |-> "view", chunk |-> r.chunk, from |-> r.from, to |-> end]
<1>1. PICK kind \in {"buffer", "view"}, c \in Chunks, from \in Nat, to \in Nat :
        r = [kind |-> kind, chunk |-> c, from |-> from, to |-> to]
  BY DEF Region
<1>2. [r EXCEPT !.kind = "view"] = [kind |-> "view", chunk |-> c, from |-> from, to |-> to]
  BY <1>1
<1>3. [r EXCEPT !.kind = "view", !.to = end]
        = [[kind |-> "view", chunk |-> c, from |-> from, to |-> to] EXCEPT !.to = end]
  BY <1>2
<1> QED BY <1>1, <1>3

\* The view that a Commit of thread t makes of the SendBuffer in slot s.
Kept(t, s) == [kind |-> "view", chunk |-> slot[s].chunk, from |-> slot[s].from,
               to |-> slot[s].from + usedSize[t]]

\* A kept view is a region.
LEMMA KeptRegion ==
  ASSUME TypeOK, NEW t \in Threads, NEW s \in Slots, Held(s)
  PROVE  /\ Kept(t, s) \in Region /\ Kept(t, s) # Empty
         /\ Kept(t, s).kind = "view" /\ Kept(t, s).chunk = slot[s].chunk
         /\ Kept(t, s).from = slot[s].from
         /\ Kept(t, s).to = slot[s].from + usedSize[t]
<1>1. slot[s].from + usedSize[t] \in Nat
  BY HeldRegion DEF TypeOK
<1> QED BY <1>1, HeldRegion, NewRegion DEF Kept

\* What Finish does with slot s: it makes a view of it, or empties it.
Finishes(t, s) ==
  /\ job[t] = {s} /\ IsBuffer(s)
  /\ \/ /\ commits[t]
        /\ slot' = [slot EXCEPT ![s] = Kept(t, s)]
        /\ Go(t, "none")
        /\ UNCHANGED <<chunkVars, inHand>>
     \/ /\ ~commits[t]
        /\ slot' = [slot EXCEPT ![s] = Empty]
        /\ DropReference(t, slot[s].chunk, "none")

\* Finish works on the one slot of its thread.
LEMMA FinishSlot ==
  ASSUME IInv, NEW t \in Threads, Finish(t)
  PROVE  \E s \in Slots : Finishes(t, s)
<1>1. PICK s \in job[t] :
        \/ /\ commits[t]
           /\ slot' = [slot EXCEPT ![s].kind = "view",
                                   ![s].to = slot[s].from + usedSize[t]]
           /\ Go(t, "none")
           /\ UNCHANGED <<chunkVars, inHand>>
        \/ /\ ~commits[t]
           /\ slot' = [slot EXCEPT ![s] = Empty]
           /\ DropReference(t, slot[s].chunk, "none")
  BY DEF Finish
<1>2. s \in Slots /\ job[t] = {s} /\ IsBuffer(s)
  BY DEF IInv, TypeOK, ThreadInv
<1>3. slot[s] \in Region
  BY <1>2, HeldRegion DEF IInv, IsBuffer
<1>4. [slot[s] EXCEPT !.kind = "view", !.to = slot[s].from + usedSize[t]] = Kept(t, s)
  BY <1>3, ShortenedRegion DEF Kept
<1>5. [slot EXCEPT ![s].kind = "view", ![s].to = slot[s].from + usedSize[t]]
        = [slot EXCEPT ![s] = [slot[s] EXCEPT !.kind = "view",
                                              !.to = slot[s].from + usedSize[t]]]
  BY <1>2 DEF IInv, TypeOK
<1> QED BY <1>1, <1>2, <1>4, <1>5 DEF Finishes

-----------------------------------------------------------------------------
(* Types *)

\* The initial states satisfy the invariant.
LEMMA InitIInv == Init => IInv
  BY ThresholdAssumption, LimitsAssumption
     DEF Init, IInv, TypeOK, ThreadInv, PlaceInv, OneOwner, ChunksAccountedFor, OwnerInv,
         SizeInv, Knows, RegionInv, Below, ReservationsDisjoint, Referenced, IsBuffer, Held, HasBytes, ThreadPc

\* No slot and no thread refers to an idle chunk.
LEMMA ReferencedNotIdle ==
  ASSUME IInv
  PROVE  /\ \A s \in Slots : Held(s) => slot[s].chunk \notin idle
         /\ \A t \in Threads, c \in Chunks : c \in current[t] => c \notin idle
<1>1. ASSUME NEW s \in Slots, Held(s) PROVE slot[s].chunk \notin idle
  BY <1>1, HeldRegion DEF IInv, PlaceInv, OneOwner, Referenced, Held
<1> QED BY <1>1 DEF IInv, PlaceInv, OneOwner, Referenced

\* A step of DropReference.
LEMMA DropTypes ==
  ASSUME IInv, NEW t \in Threads, NEW c \in Chunks, NEW done \in ThreadPc,
         DropReference(t, c, done), c \notin idle
  PROVE  /\ live' \subseteq Chunks
         /\ dedicated' \subseteq live'
         /\ idle \subseteq live'
         /\ capacity' \in [Chunks -> Nat]
         /\ offset' \in [Chunks -> Nat]
         /\ pc' \in [Threads -> ThreadPc]
         /\ inHand' \in [Threads -> SUBSET Chunks]
  BY DEF IInv, TypeOK, DropReference, DeleteChunk, AfterDelete, Go, ThreadPc, chunkVars

\* Every step keeps the types.
LEMMA TypeStep == IInv /\ [Next]_vars => TypeOK'
<1> SUFFICES ASSUME IInv, [Next]_vars PROVE TypeOK'
  OBVIOUS
<1> USE DEF chunkVars, poolVars, jobVars, threadVars
<1>0. TypeOK
  BY DEF IInv
<1>s. 1 .. MaxSize \subseteq Nat
  BY SizeAssumption
<1>1. ASSUME NEW t \in Threads, NEW c \in Chunks, NEW s \in Slots, NEW n \in 1 .. MaxSize,
             ReserveLarge(t, c, s, n)
      PROVE  TypeOK'
  <2> DEFINE r == [kind |-> "buffer", chunk |-> c, from |-> 0, to |-> n]
  <2>1. r \in Region
    BY <1>s, NewRegion
  <2> HIDE DEF r
  <2>2. slot' = [slot EXCEPT ![s] = r]
    BY <1>1 DEF ReserveLarge, r
  <2> QED BY <1>0, <1>1, <1>s, <2>1, <2>2 DEF ReserveLarge, TypeOK
<1>2. ASSUME NEW t \in Threads, NEW n \in 1 .. MaxSize, Reserve(t, n)
      PROVE  TypeOK'
  BY <1>0, <1>2, <1>s DEF Reserve, TypeOK, Go, ThreadPc
<1>3. ASSUME NEW t \in Threads, NEW c \in Chunks, Acquire(t, c)
      PROVE  TypeOK'
  BY <1>0, <1>3, ThresholdAssumption DEF Acquire, TypeOK, Go, ThreadPc
<1>4. ASSUME NEW t \in Threads, Install(t)
      PROVE  TypeOK'
  BY <1>0, <1>4 DEF Install, TypeOK, Go, ThreadPc
<1>5. ASSUME NEW t \in Threads, NEW s \in Slots, Bump(t, s)
      PROVE  TypeOK'
  <2> DEFINE end == seen[t] + need[t]
  <2>1. PICK c \in current[t] :
          /\ offset' = [offset EXCEPT ![c] = end]
          /\ slot' = [slot EXCEPT ![s] = [kind |-> "buffer", chunk |-> c, from |-> seen[t], to |-> end]]
    BY <1>5 DEF Bump
  <2> DEFINE r == [kind |-> "buffer", chunk |-> c, from |-> seen[t], to |-> end]
  <2>2. c \in Chunks /\ end \in Nat /\ seen[t] \in Nat
    BY <1>0 DEF TypeOK
  <2>3. r \in Region
    BY <2>2, NewRegion
  <2>4. slot' = [slot EXCEPT ![s] = r]
    BY <2>1
  <2> HIDE DEF r, end
  <2> QED BY <1>0, <1>5, <2>1, <2>2, <2>3, <2>4 DEF Bump, TypeOK, Go, ThreadPc
<1>6. ASSUME NEW t \in Threads, NEW s \in Slots, NEW used \in 0 .. MaxSize,
             NEW commit \in BOOLEAN, CloseBuffer(t, s, used, commit)
      PROVE  TypeOK'
  <2>1. used \in Nat
    BY SizeAssumption
  <2> QED BY <1>0, <1>6, <2>1 DEF CloseBuffer, TypeOK, Go, ThreadPc
<1>7. ASSUME NEW t \in Threads, Rewind(t)
      PROVE  TypeOK'
  <2>1. PICK s \in job[t] :
          offset' = [offset EXCEPT ![slot[s].chunk] = slot[s].from + usedSize[t]]
    BY <1>7 DEF Rewind
  <2>2. s \in Slots /\ Held(s)
    BY <1>0 DEF IInv, ThreadInv, TypeOK, IsBuffer
  <2>3. slot[s].from + usedSize[t] \in Nat
    BY <1>0, <2>2, HeldRegion DEF TypeOK
  <2> QED BY <1>0, <1>7, <2>1, <2>3 DEF Rewind, TypeOK, Go, ThreadPc
<1>8. ASSUME NEW t \in Threads, Finish(t)
      PROVE  TypeOK'
  <2>1. PICK s \in Slots : Finishes(t, s)
    BY <1>8, FinishSlot
  <2> USE DEF Finishes
  <2>2. slot[s].chunk \in Chunks \ idle /\ Kept(t, s) \in Region
    BY <1>0, <2>1, HeldRegion, KeptRegion, ReferencedNotIdle DEF IsBuffer
  <2>3. slot' \in [Slots -> Region \cup {Empty}]
    BY <1>0, <2>1, <2>2 DEF TypeOK
  <2>4. /\ UNCHANGED <<current, poolVars, need, seen>>
        /\ job' = [job EXCEPT ![t] = {}]
        /\ usedSize' = [usedSize EXCEPT ![t] = 0]
        /\ commits' = [commits EXCEPT ![t] = FALSE]
    BY <1>8 DEF Finish
  <2>5. CASE commits[t]
    BY <1>0, <2>1, <2>3, <2>4, <2>5 DEF TypeOK, Go, ThreadPc
  <2>6. CASE ~commits[t]
    <3>1. DropReference(t, slot[s].chunk, "none")
      BY <2>1, <2>6
    <3> QED BY <1>0, <2>2, <2>3, <2>4, <3>1, DropTypes DEF TypeOK, ThreadPc
  <2> QED BY <2>5, <2>6
<1>9. ASSUME NEW t \in Threads, NEW s \in Slots, DestroyView(t, s)
      PROVE  TypeOK'
  <2>1. slot[s].chunk \in Chunks \ idle
    BY <1>0, <1>9, HeldRegion, ReferencedNotIdle DEF DestroyView, IsView
  <2>2. DropReference(t, slot[s].chunk, "none")
    BY <1>9 DEF DestroyView
  <2> QED BY <1>0, <1>9, <2>1, <2>2, DropTypes DEF DestroyView, TypeOK, ThreadPc
<1>10. ASSUME NEW t \in Threads, ReleaseCurrentChunk(t)
       PROVE  TypeOK'
  <2>1. PICK c \in current[t] : DropReference(t, c, "none")
    BY <1>10 DEF ReleaseCurrentChunk
  <2>2. c \in Chunks \ idle
    BY <1>0, ReferencedNotIdle DEF TypeOK
  <2> QED BY <1>0, <1>10, <2>1, <2>2, DropTypes DEF ReleaseCurrentChunk, TypeOK, ThreadPc
<1>11. ASSUME NEW t \in Threads, Return(t)
       PROVE  TypeOK'
  BY <1>0, <1>11 DEF Return, Refuse, DeleteChunk, AfterDelete, AfterReturn, IInv, PlaceInv,
                     TypeOK, ChunksAccountedFor, Go, ThreadPc
<1>12. ASSUME NEW t \in Threads, Enqueue(t)
       PROVE  TypeOK'
  <2>1. PICK c \in inHand[t] :
          \/ /\ idle' = idle \cup {c}
             /\ inHand' = [inHand EXCEPT ![t] = {}]
             /\ Go(t, AfterReturn(t))
             /\ UNCHANGED chunkVars
          \/ Refuse(t, c) /\ UNCHANGED idle
    BY <1>12 DEF Enqueue
  <2>2. c \in live /\ c \notin idle
    BY <1>0 DEF IInv, PlaceInv, ChunksAccountedFor
  <2>3. UNCHANGED <<current, slot, idleLimit, need, seen, jobVars>>
    BY <1>12 DEF Enqueue
  <2> QED
    BY <1>0, <2>1, <2>2, <2>3 DEF Refuse, DeleteChunk, AfterDelete, AfterReturn, TypeOK, Go,
                                  ThreadPc
<1>13. ASSUME NEW s \in Slots, NEW copy \in Slots, CopyView(s, copy)
       PROVE  TypeOK'
  BY <1>0, <1>13 DEF CopyView, TypeOK
<1>14. ASSUME NEW limit \in Limits, SetPoolIdleLimit(limit)
       PROVE  TypeOK'
  BY <1>0, <1>14 DEF SetPoolIdleLimit, TypeOK
<1>15. CASE UNCHANGED vars
  BY <1>0, <1>15 DEF vars, TypeOK
<1> QED
  BY <1>1, <1>2, <1>3, <1>4, <1>5, <1>6, <1>7, <1>8, <1>9, <1>10, <1>11, <1>12, <1>13,
     <1>14, <1>15 DEF Next, ThreadStep

-----------------------------------------------------------------------------
(* What threads hold *)

\* DropReference, as far as its thread is concerned.
LEMMA DropThread ==
  ASSUME NEW t \in Threads, NEW c, DropReference(t, c, "none")
  PROVE  \/ Go(t, "none") /\ UNCHANGED inHand
         \/ Go(t, "return") /\ inHand' = [inHand EXCEPT ![t] = {c}]
  BY DEF DropReference

\* Every step keeps what threads hold.
LEMMA ThreadInvStep == IInv /\ [Next]_vars => ThreadInv'
<1> SUFFICES ASSUME IInv, [Next]_vars PROVE ThreadInv'
  OBVIOUS
<1> USE DEF chunkVars, poolVars, jobVars, threadVars
<1>0. TypeOK /\ ThreadInv
  BY DEF IInv
<1>1. ASSUME NEW t \in Threads, NEW c \in Chunks, NEW s \in Slots, NEW n \in 1 .. MaxSize,
             ReserveLarge(t, c, s, n)
      PROVE  ThreadInv'
  BY <1>0, <1>1 DEF ReserveLarge, Free, TypeOK, ThreadInv, IsBuffer, Held
<1>2. ASSUME NEW t \in Threads, NEW n \in 1 .. MaxSize, Reserve(t, n)
      PROVE  ThreadInv'
  <2>1. n > 0
    BY SizeAssumption
  <2> QED BY <1>0, <1>2, <2>1 DEF Reserve, Go, TypeOK, ThreadInv, IsBuffer, Held
<1>3. ASSUME NEW t \in Threads, NEW c \in Chunks, Acquire(t, c)
      PROVE  ThreadInv'
  BY <1>0, <1>3 DEF Acquire, Go, TypeOK, ThreadInv, IsBuffer, Held
<1>4. ASSUME NEW t \in Threads, Install(t)
      PROVE  ThreadInv'
  <2>1. PICK c \in inHand[t] : current' = [current EXCEPT ![t] = {c}]
    BY <1>4 DEF Install
  <2>2. \/ \E old \in Chunks : inHand' = [inHand EXCEPT ![t] = {old}] /\ Go(t, "return")
        \/ inHand' = [inHand EXCEPT ![t] = {}] /\ Go(t, "bump")
    BY <1>0, <1>4 DEF Install, TypeOK
  <2>3. pc[t] = "install" /\ UNCHANGED <<slot, need, jobVars>>
    BY <1>4 DEF Install
  <2>4. need[t] > 0 /\ job[t] = {}
    BY <1>0, <2>3 DEF ThreadInv
  <2>5. ASSUME NEW old \in Chunks, inHand' = [inHand EXCEPT ![t] = {old}], Go(t, "return")
        PROVE  ThreadInv'
    BY <1>0, <2>1, <2>3, <2>4, <2>5 DEF Go, TypeOK, ThreadInv, IsBuffer, Held
  <2>6. CASE inHand' = [inHand EXCEPT ![t] = {}] /\ Go(t, "bump")
    <3>1. /\ pc'[t] = "bump" /\ need'[t] > 0 /\ job'[t] = {}
          /\ inHand'[t] = {} /\ current'[t] = {c}
      BY <1>0, <2>1, <2>3, <2>4, <2>6 DEF Go, TypeOK
    <3>2. \A u \in Threads \ {t} :
            pc'[u] = pc[u] /\ inHand'[u] = inHand[u] /\ current'[u] = current[u]
      BY <1>0, <2>1, <2>6 DEF Go, TypeOK
    <3> QED BY <1>0, <2>3, <3>1, <3>2 DEF ThreadInv, IsBuffer, Held
  <2> QED BY <2>2, <2>5, <2>6
<1>5. ASSUME NEW t \in Threads, NEW s \in Slots, Bump(t, s)
      PROVE  ThreadInv'
  BY <1>0, <1>5 DEF Bump, Free, Go, TypeOK, ThreadInv, IsBuffer, Held
<1>6. ASSUME NEW t \in Threads, NEW s \in Slots, NEW used \in 0 .. MaxSize,
             NEW commit \in BOOLEAN, CloseBuffer(t, s, used, commit)
      PROVE  ThreadInv'
  <2>1. slot[s].from \in Nat /\ slot[s].to \in Nat /\ used \in Nat
    BY <1>0, <1>6, SizeAssumption, HeldRegion DEF CloseBuffer, IsBuffer
  <2>2. slot[s].from + used <= slot[s].to
    BY <1>6, <2>1 DEF CloseBuffer
  <2> QED BY <1>0, <1>6, <2>2 DEF CloseBuffer, Go, TypeOK, ThreadInv, IsBuffer, Held, Busy
<1>7. ASSUME NEW t \in Threads, Rewind(t)
      PROVE  ThreadInv'
  BY <1>0, <1>7 DEF Rewind, Go, TypeOK, ThreadInv, IsBuffer, Held
<1>8. ASSUME NEW t \in Threads, Finish(t)
      PROVE  ThreadInv'
  <2>1. PICK s \in Slots : Finishes(t, s)
    BY <1>8, FinishSlot
  <2> USE DEF Finishes
  <2>2. \A u \in Slots \ {s} : slot'[u] = slot[u]
    BY <1>0, <2>1 DEF TypeOK
  <2>3. \/ Go(t, "none") /\ UNCHANGED inHand
        \/ Go(t, "return") /\ inHand' = [inHand EXCEPT ![t] = {slot[s].chunk}]
    BY <2>1, DropThread
  <2>4. /\ pc[t] = "finish" /\ UNCHANGED <<current, need>>
        /\ job' = [job EXCEPT ![t] = {}]
        /\ usedSize' = [usedSize EXCEPT ![t] = 0]
    BY <1>8 DEF Finish
  <2>5. CASE Go(t, "none") /\ UNCHANGED inHand
    BY <1>0, <2>1, <2>2, <2>4, <2>5 DEF Go, TypeOK, ThreadInv, IsBuffer, Held
  <2>6. CASE Go(t, "return") /\ inHand' = [inHand EXCEPT ![t] = {slot[s].chunk}]
    BY <1>0, <2>1, <2>2, <2>4, <2>6 DEF Go, TypeOK, ThreadInv, IsBuffer, Held
  <2> QED BY <2>3, <2>5, <2>6
<1>9. ASSUME NEW t \in Threads, NEW s \in Slots, DestroyView(t, s)
      PROVE  ThreadInv'
  <2>1. \/ Go(t, "none") /\ UNCHANGED inHand
        \/ Go(t, "return") /\ inHand' = [inHand EXCEPT ![t] = {slot[s].chunk}]
    BY <1>9, DropThread DEF DestroyView
  <2>2. /\ pc[t] = "none" /\ IsView(s)
        /\ slot' = [slot EXCEPT ![s] = Empty]
        /\ UNCHANGED <<current, need, jobVars>>
    BY <1>9 DEF DestroyView
  <2>3. \A u \in Threads : s \notin job[u]
    BY <1>0, <2>2 DEF ThreadInv, IsBuffer, IsView
  <2>4. CASE Go(t, "none") /\ UNCHANGED inHand
    BY <1>0, <2>2, <2>3, <2>4 DEF Go, TypeOK, ThreadInv, IsBuffer, Held
  <2>5. CASE Go(t, "return") /\ inHand' = [inHand EXCEPT ![t] = {slot[s].chunk}]
    BY <1>0, <2>2, <2>3, <2>5 DEF Go, TypeOK, ThreadInv, IsBuffer, Held
  <2> QED BY <2>1, <2>4, <2>5
<1>10. ASSUME NEW t \in Threads, ReleaseCurrentChunk(t)
       PROVE  ThreadInv'
  <2>1. PICK c \in current[t] :
          \/ Go(t, "none") /\ UNCHANGED inHand
          \/ Go(t, "return") /\ inHand' = [inHand EXCEPT ![t] = {c}]
    BY <1>10, DropThread DEF ReleaseCurrentChunk
  <2>2. /\ pc[t] = "none"
        /\ current' = [current EXCEPT ![t] = {}]
        /\ UNCHANGED <<slot, need, jobVars>>
    BY <1>10 DEF ReleaseCurrentChunk
  <2>3. CASE Go(t, "none") /\ UNCHANGED inHand
    BY <1>0, <2>2, <2>3 DEF Go, TypeOK, ThreadInv, IsBuffer, Held
  <2>4. CASE Go(t, "return") /\ inHand' = [inHand EXCEPT ![t] = {c}]
    BY <1>0, <2>2, <2>4 DEF Go, TypeOK, ThreadInv, IsBuffer, Held
  <2> QED BY <2>1, <2>3, <2>4
<1>11. ASSUME NEW t \in Threads, Return(t)
       PROVE  ThreadInv'
  BY <1>0, <1>11 DEF Return, Refuse, AfterReturn, Go, TypeOK, ThreadInv, IsBuffer, Held
<1>12. ASSUME NEW t \in Threads, Enqueue(t)
       PROVE  ThreadInv'
  BY <1>0, <1>12 DEF Enqueue, Refuse, AfterReturn, Go, TypeOK, ThreadInv, IsBuffer, Held
<1>13. ASSUME NEW s \in Slots, NEW copy \in Slots, CopyView(s, copy)
       PROVE  ThreadInv'
  BY <1>0, <1>13 DEF CopyView, Free, TypeOK, ThreadInv, IsBuffer, Held
<1>14. ASSUME NEW limit \in Limits, SetPoolIdleLimit(limit)
       PROVE  ThreadInv'
  BY <1>14 DEF SetPoolIdleLimit, IInv, ThreadInv, IsBuffer, Held
<1>15. CASE UNCHANGED vars
  BY <1>15 DEF vars, IInv, ThreadInv, IsBuffer, Held
<1> QED
  BY <1>1, <1>2, <1>3, <1>4, <1>5, <1>6, <1>7, <1>8, <1>9, <1>10, <1>11, <1>12, <1>13,
     <1>14, <1>15 DEF Next, ThreadStep

-----------------------------------------------------------------------------
(* Where the chunks are *)

Refers(c) == Referenced(c, slot, current)

\* While nothing is written to slots and managers, the references stay.
LEMMA SameReferences ==
  ASSUME UNCHANGED <<slot, current>>
  PROVE  \A c \in Chunks : Refers(c)' <=> Refers(c)
  BY DEF Refers, Referenced

\* A slot or a thread gives up its reference to chunk c.
LEMMA DropPlaces ==
  ASSUME IInv, NEW t \in Threads, NEW c \in Chunks, Refers(c),
         DropReference(t, c, "none"), inHand[t] = {}, UNCHANGED idle,
         \A u \in Threads : current'[u] \subseteq current[u],
         \A d \in Chunks : Refers(d)' => Refers(d),
         \A d \in Chunks : Refers(d) => Refers(d)' \/ d = c
  PROVE  PlaceInv'
<1> USE DEF IInv, TypeOK, PlaceInv, OneOwner, ChunksAccountedFor, chunkVars
<1>0. /\ \A d \in Chunks : Refers(d) <=> Referenced(d, slot, current)
      /\ \A d \in Chunks : Refers(d)' <=> Referenced(d, slot', current')
  BY DEF Refers
<1>1. CASE Refers(c)' /\ UNCHANGED <<chunkVars, inHand>>
  BY <1>0, <1>1
<1>2. CASE ~Refers(c)' /\ c \in dedicated /\ DeleteChunk(c) /\ UNCHANGED inHand
  BY <1>0, <1>2 DEF DeleteChunk, AfterDelete
<1>3. CASE /\ ~Refers(c)' /\ c \notin dedicated
           /\ inHand' = [inHand EXCEPT ![t] = {c}] /\ UNCHANGED chunkVars
  BY <1>0, <1>3
<1> QED BY <1>0, <1>1, <1>2, <1>3 DEF DropReference

\* A thread puts the chunk c it holds in the place of those it had, of which it
\* keeps H in its hand.
LEMMA InstallPlaces ==
  ASSUME TypeOK, PlaceInv, NEW t \in Threads, NEW c \in Chunks, NEW H \in SUBSET Chunks,
         c \in live \ dedicated, c \notin idle, ~Refers(c), inHand[t] = {c},
         H \subseteq current[t], UNCHANGED <<live, dedicated, idle>>,
         inHand'[t] = H, current'[t] = {c},
         \A u \in Threads \ {t} : inHand'[u] = inHand[u] /\ current'[u] = current[u],
         \A d \in Chunks : Refers(d)' <=> (Refers(d) /\ d \notin H) \/ d = c
  PROVE  PlaceInv'
<1>1. /\ \A d \in Chunks : Refers(d) <=> Referenced(d, slot, current)
      /\ \A d \in Chunks : Refers(d)' <=> Referenced(d, slot', current')
  BY DEF Refers
<1>2. \A u \in Threads : /\ \A d \in current[u] : Refers(d)
                         /\ inHand[u] \subseteq Chunks
                         /\ current[u] \subseteq Chunks
  BY <1>1 DEF TypeOK, Referenced
<1>3. \A u \in Threads \ {t} : c \notin inHand[u] /\ c \notin current[u]
  BY <1>2 DEF PlaceInv, ChunksAccountedFor
<1>4. \A d \in H : d \in live \ dedicated /\ d \notin idle /\ d # c
                  /\ \A u \in Threads : d \notin inHand[u]
  BY <1>1, <1>2 DEF PlaceInv, OneOwner
<1>5. OneOwner'
  <2>1. ASSUME NEW d \in Chunks, NEW u \in Threads, NEW v \in Threads,
               d \in current'[u], d \in current'[v]
        PROVE  u = v
    BY <1>3, <2>1 DEF PlaceInv, OneOwner
  <2>2. ASSUME NEW d \in Chunks, Refers(d)'
        PROVE  d \in live' /\ d \notin idle' /\ \A u \in Threads : d \notin inHand'[u]
    <3>1. CASE d = c
      BY <1>3, <1>4, <3>1
    <3>2. CASE Refers(d) /\ d \notin H
      BY <1>1, <3>2 DEF PlaceInv, OneOwner
    <3> QED BY <2>2, <3>1, <3>2
  <2> QED BY <1>1, <2>1, <2>2 DEF OneOwner
<1>6. \A d \in live' : Refers(d)' \/ d \in idle' \/ \E u \in Threads : d \in inHand'[u]
  <2> SUFFICES ASSUME NEW d \in live, ~Refers(d)', d \notin idle
               PROVE  \E u \in Threads : d \in inHand'[u]
    OBVIOUS
  <2>1. d \in Chunks
    BY DEF TypeOK
  <2>2. CASE Refers(d)
    BY <2>1, <2>2
  <2>3. CASE ~Refers(d)
    <3>1. PICK u \in Threads : d \in inHand[u]
      BY <1>1, <2>1, <2>3 DEF PlaceInv, ChunksAccountedFor
    <3> QED BY <2>1, <3>1
  <2> QED BY <2>2, <2>3
<1>7. /\ idle' \cap dedicated' = {}
      /\ \A u \in Threads : inHand'[u] \cap idle' = {}
      /\ \A u, v \in Threads : u # v => inHand'[u] \cap inHand'[v] = {}
  BY <1>4 DEF PlaceInv, ChunksAccountedFor
<1>8. ChunksAccountedFor'
  BY <1>1, <1>6, <1>7 DEF ChunksAccountedFor, TypeOK
<1>9. \A u \in Threads : inHand'[u] \subseteq live' \ dedicated' /\ current'[u] \cap dedicated' = {}
  BY <1>4 DEF PlaceInv
<1> QED BY <1>5, <1>8, <1>9 DEF PlaceInv

\* Every step keeps the chunks in their places.
LEMMA PlaceStep == IInv /\ [Next]_vars => PlaceInv'
<1> SUFFICES ASSUME IInv, [Next]_vars PROVE PlaceInv'
  OBVIOUS
<1> USE DEF chunkVars, poolVars, jobVars, threadVars
<1>0. /\ TypeOK /\ ThreadInv /\ PlaceInv
      /\ \A d \in Chunks : Refers(d) <=> Referenced(d, slot, current)
      /\ \A d \in Chunks : Refers(d)' <=> Referenced(d, slot', current')
  BY DEF IInv, Refers
<1>s. ASSUME UNCHANGED <<live, dedicated, idle, inHand, current>>,
             \A d \in Chunks : Refers(d)' <=> Refers(d)
      PROVE  PlaceInv'
  BY <1>0, <1>s DEF TypeOK, PlaceInv, OneOwner, ChunksAccountedFor
<1>1. ASSUME NEW t \in Threads, NEW c \in Chunks, NEW s \in Slots, NEW n \in 1 .. MaxSize,
             ReserveLarge(t, c, s, n)
      PROVE  PlaceInv'
  <2> DEFINE r == [kind |-> "buffer", chunk |-> c, from |-> 0, to |-> n]
  <2>1. r # Empty /\ r.chunk = c
    BY SizeAssumption, NewRegion
  <2>2. slot' = [slot EXCEPT ![s] = r] /\ slot[s] = Empty /\ UNCHANGED current
    BY <1>1 DEF ReserveLarge, Free, Held
  <2> HIDE DEF r
  <2>3. \A d \in Chunks : Refers(d)' <=> Refers(d) \/ d = c
    BY <1>0, <2>1, <2>2 DEF Referenced, TypeOK
  <2>4. /\ c \notin live
        /\ live' = live \cup {c} /\ dedicated' = dedicated \cup {c}
        /\ UNCHANGED <<current, idle, inHand>>
    BY <1>1 DEF ReserveLarge
  <2>5. c \notin idle /\ \A u \in Threads : c \notin inHand[u] /\ c \notin current[u]
    BY <1>0, <2>4 DEF TypeOK, PlaceInv, OneOwner, Referenced
  <2> QED BY <1>0, <2>3, <2>4, <2>5 DEF TypeOK, PlaceInv, OneOwner, ChunksAccountedFor
<1>2. ASSUME NEW t \in Threads, NEW n \in 1 .. MaxSize, Reserve(t, n)
      PROVE  PlaceInv'
  BY <1>s, <1>2, SameReferences DEF Reserve
<1>3. ASSUME NEW t \in Threads, NEW c \in Chunks, Acquire(t, c)
      PROVE  PlaceInv'
  <2>1. \A d \in Chunks : Refers(d)' <=> Refers(d)
    BY <1>3, SameReferences DEF Acquire
  <2>2. inHand[t] = {}
    BY <1>0, <1>3 DEF Acquire, ThreadInv
  <2> QED
    BY <1>0, <1>3, <2>1, <2>2 DEF Acquire, TypeOK, PlaceInv, OneOwner, ChunksAccountedFor
<1>4. ASSUME NEW t \in Threads, Install(t)
      PROVE  PlaceInv'
  <2>1. PICK c \in inHand[t] : current' = [current EXCEPT ![t] = {c}]
    BY <1>4 DEF Install
  <2>2. c \in live \ dedicated /\ c \notin idle /\ ~Refers(c) /\ inHand[t] = {c}
    BY <1>0, <2>1 DEF TypeOK, ThreadInv, PlaceInv, OneOwner, ChunksAccountedFor
  <2>3. UNCHANGED <<slot, live, dedicated, idle>>
    BY <1>4 DEF Install
  <2>4. \A d \in Chunks : /\ Refers(d)' => Refers(d) \/ d = c
                          /\ Refers(d) => Refers(d)' \/ d \in current[t]
    BY <1>0, <2>1, <2>3 DEF Referenced, TypeOK
  <2>5. Refers(c)'
    BY <1>0, <2>1, <2>2 DEF Referenced, TypeOK
  <2>6. ASSUME NEW old \in current[t], ~Refers(old)', inHand' = [inHand EXCEPT ![t] = {old}]
        PROVE  PlaceInv'
    <3>1. old \in live \ dedicated /\ old \notin idle /\ Refers(old)
      BY <1>0, <2>6 DEF TypeOK, PlaceInv, OneOwner, Referenced
    <3>2. \A d \in current[t] : d = old
      BY <1>0 DEF ThreadInv
    <3>3. \A d \in Chunks : Refers(d)' <=> (Refers(d) /\ d # old) \/ d = c
      BY <2>4, <2>5, <2>6, <3>2
    <3>4. /\ inHand'[t] = {old} /\ current'[t] = {c}
          /\ \A u \in Threads \ {t} : inHand'[u] = inHand[u] /\ current'[u] = current[u]
      BY <1>0, <2>1, <2>6 DEF TypeOK
    <3> QED BY <1>0, <2>2, <2>3, <3>1, <3>3, <3>4, InstallPlaces DEF TypeOK
  <2>7. CASE inHand' = [inHand EXCEPT ![t] = {}] /\ \A old \in current[t] : Refers(old)'
    <3>1. \A d \in Chunks : Refers(d)' <=> Refers(d) \/ d = c
      BY <2>4, <2>5, <2>7
    <3>2. /\ inHand'[t] = {} /\ current'[t] = {c}
          /\ \A u \in Threads \ {t} : inHand'[u] = inHand[u] /\ current'[u] = current[u]
      BY <1>0, <2>1, <2>7 DEF TypeOK
    <3> QED BY <1>0, <2>2, <2>3, <3>1, <3>2, InstallPlaces DEF TypeOK
  <2> QED BY <1>0, <1>4, <2>6, <2>7 DEF Install, TypeOK
<1>5. ASSUME NEW t \in Threads, NEW s \in Slots, Bump(t, s)
      PROVE  PlaceInv'
  <2>1. PICK c \in current[t] :
          slot' = [slot EXCEPT ![s] = [kind |-> "buffer", chunk |-> c, from |-> seen[t],
                                       to |-> seen[t] + need[t]]]
    BY <1>5 DEF Bump
  <2> DEFINE r == [kind |-> "buffer", chunk |-> c, from |-> seen[t], to |-> seen[t] + need[t]]
  <2>2. c \in Chunks /\ seen[t] \in Nat /\ seen[t] + need[t] \in Nat
    BY <1>0 DEF TypeOK
  <2>3. r # Empty /\ r.chunk = c
    BY <2>2, NewRegion
  <2>4. slot' = [slot EXCEPT ![s] = r] /\ slot[s] = Empty
    BY <1>5, <2>1 DEF Bump, Free, Held
  <2> HIDE DEF r
  <2>5. UNCHANGED <<live, dedicated, idle, inHand, current>>
    BY <1>5 DEF Bump
  <2>6. \A d \in Chunks : Refers(d)' <=> Refers(d)
    BY <1>0, <2>2, <2>3, <2>4, <2>5 DEF Referenced, TypeOK
  <2> QED BY <1>s, <2>5, <2>6
<1>6. ASSUME NEW t \in Threads, NEW s \in Slots, NEW used \in 0 .. MaxSize,
             NEW commit \in BOOLEAN, CloseBuffer(t, s, used, commit)
      PROVE  PlaceInv'
  BY <1>s, <1>6, SameReferences DEF CloseBuffer
<1>7. ASSUME NEW t \in Threads, Rewind(t)
      PROVE  PlaceInv'
  BY <1>s, <1>7, SameReferences DEF Rewind
<1>8. ASSUME NEW t \in Threads, Finish(t)
      PROVE  PlaceInv'
  <2>1. PICK s \in Slots : Finishes(t, s)
    BY <1>8, FinishSlot
  <2> USE DEF Finishes
  <2>2. pc[t] = "finish" /\ UNCHANGED <<current, idle>>
    BY <1>8 DEF Finish
  <2>3. slot[s] # Empty /\ slot[s].chunk \in Chunks
    BY <1>0, <2>1, HeldRegion DEF IsBuffer, Held
  <2>4. CASE commits[t]
    <3>1. Kept(t, s) # Empty /\ Kept(t, s).chunk = slot[s].chunk
      BY <1>0, <2>1, KeptRegion DEF IsBuffer
    <3>2. \A d \in Chunks : Refers(d)' <=> Refers(d)
      BY <1>0, <2>1, <2>2, <2>3, <2>4, <3>1 DEF Referenced, TypeOK
    <3> QED BY <1>s, <2>1, <2>2, <2>4, <3>2
  <2>5. CASE ~commits[t]
    <3>1. slot' = [slot EXCEPT ![s] = Empty] /\ DropReference(t, slot[s].chunk, "none")
      BY <2>1, <2>5
    <3>2. Refers(slot[s].chunk) /\ inHand[t] = {}
      BY <1>0, <2>2, <2>3 DEF Referenced, ThreadInv
    <3>3. \A d \in Chunks : /\ Refers(d)' => Refers(d)
                            /\ Refers(d) => Refers(d)' \/ d = slot[s].chunk
      BY <1>0, <2>2, <3>1 DEF Referenced, TypeOK
    <3> QED BY <2>2, <2>3, <3>1, <3>2, <3>3, DropPlaces
  <2> QED BY <2>4, <2>5
<1>9. ASSUME NEW t \in Threads, NEW s \in Slots, DestroyView(t, s)
      PROVE  PlaceInv'
  <2>1. /\ slot' = [slot EXCEPT ![s] = Empty] /\ DropReference(t, slot[s].chunk, "none")
        /\ pc[t] = "none" /\ UNCHANGED <<current, idle>>
    BY <1>9 DEF DestroyView
  <2>2. slot[s] # Empty /\ slot[s].chunk \in Chunks
    BY <1>0, <1>9, HeldRegion DEF DestroyView, IsView, Held
  <2>3. Refers(slot[s].chunk) /\ inHand[t] = {}
    BY <1>0, <2>1, <2>2 DEF Referenced, ThreadInv
  <2>4. \A d \in Chunks : /\ Refers(d)' => Refers(d)
                          /\ Refers(d) => Refers(d)' \/ d = slot[s].chunk
    BY <1>0, <2>1 DEF Referenced, TypeOK
  <2> QED BY <2>1, <2>2, <2>3, <2>4, DropPlaces
<1>10. ASSUME NEW t \in Threads, ReleaseCurrentChunk(t)
       PROVE  PlaceInv'
  <2>1. PICK c \in current[t] : DropReference(t, c, "none")
    BY <1>10 DEF ReleaseCurrentChunk
  <2>2. /\ current' = [current EXCEPT ![t] = {}]
        /\ pc[t] = "none" /\ UNCHANGED <<slot, idle>>
    BY <1>10 DEF ReleaseCurrentChunk
  <2>3. Refers(c) /\ inHand[t] = {} /\ c \in Chunks
    BY <1>0, <2>2 DEF Referenced, ThreadInv, TypeOK
  <2>4. \A d \in Chunks : /\ Refers(d)' => Refers(d)
                          /\ Refers(d) => Refers(d)' \/ d = c
    BY <1>0, <2>2 DEF Referenced, TypeOK, ThreadInv
  <2> QED BY <1>0, <2>1, <2>2, <2>3, <2>4, DropPlaces DEF TypeOK
<1>11. ASSUME NEW t \in Threads, Return(t)
       PROVE  PlaceInv'
  <2>1. UNCHANGED <<current, slot, idle>>
    BY <1>11 DEF Return
  <2>2. \A d \in Chunks : Refers(d)' <=> Refers(d)
    BY <2>1, SameReferences
  <2>3. ASSUME NEW c \in inHand[t], Refuse(t, c)
        PROVE  PlaceInv'
    BY <1>0, <2>1, <2>2, <2>3
       DEF Refuse, DeleteChunk, AfterDelete, TypeOK, ThreadInv, PlaceInv, OneOwner,
           ChunksAccountedFor
  <2>4. CASE UNCHANGED <<chunkVars, inHand>>
    BY <1>s, <2>1, <2>2, <2>4
  <2> QED BY <1>11, <2>3, <2>4 DEF Return
<1>12. ASSUME NEW t \in Threads, Enqueue(t)
       PROVE  PlaceInv'
  <2>1. UNCHANGED <<current, slot>>
    BY <1>12 DEF Enqueue
  <2>2. \A d \in Chunks : Refers(d)' <=> Refers(d)
    BY <2>1, SameReferences
  <2>3. ASSUME NEW c \in inHand[t], Refuse(t, c), UNCHANGED idle
        PROVE  PlaceInv'
    BY <1>0, <2>1, <2>2, <2>3
       DEF Refuse, DeleteChunk, AfterDelete, TypeOK, ThreadInv, PlaceInv, OneOwner,
           ChunksAccountedFor
  <2>4. ASSUME NEW c \in inHand[t], idle' = idle \cup {c},
               inHand' = [inHand EXCEPT ![t] = {}], UNCHANGED chunkVars
        PROVE  PlaceInv'
    BY <1>0, <2>1, <2>2, <2>4
       DEF TypeOK, ThreadInv, PlaceInv, OneOwner, ChunksAccountedFor
  <2> QED BY <1>12, <2>3, <2>4 DEF Enqueue
<1>13. ASSUME NEW s \in Slots, NEW copy \in Slots, CopyView(s, copy)
       PROVE  PlaceInv'
  <2>1. /\ slot' = [slot EXCEPT ![copy] = slot[s]] /\ slot[copy] = Empty
        /\ UNCHANGED <<live, dedicated, idle, inHand, current>>
    BY <1>13 DEF CopyView, Free, Held
  <2>2. \A d \in Chunks : Refers(d)' <=> Refers(d)
    BY <1>0, <2>1 DEF Referenced, TypeOK
  <2> QED BY <1>s, <2>1, <2>2
<1>14. ASSUME NEW limit \in Limits, SetPoolIdleLimit(limit)
       PROVE  PlaceInv'
  BY <1>s, <1>14, SameReferences DEF SetPoolIdleLimit
<1>15. CASE UNCHANGED vars
  BY <1>s, <1>15, SameReferences DEF vars
<1> QED
  BY <1>1, <1>2, <1>3, <1>4, <1>5, <1>6, <1>7, <1>8, <1>9, <1>10, <1>11, <1>12, <1>13,
     <1>14, <1>15 DEF Next, ThreadStep

-----------------------------------------------------------------------------
(* Offsets *)

\* Thread u knows as much as before if another thread's step spares the chunk
\* that it owns and the SendBuffer that it closes.
LEMMA KnowsFrame ==
  ASSUME IInv, NEW u \in Threads,
         pc'[u] = pc[u], need'[u] = need[u], seen'[u] = seen[u], job'[u] = job[u],
         current'[u] = current[u],
         \A s \in job[u] : slot'[s] = slot[s],
         \A c \in current[u] : offset'[c] = offset[c] /\ capacity'[c] = capacity[c]
  PROVE  Knows(u)'
<1>1. Knows(u)
  BY DEF IInv, OwnerInv
<1> QED BY <1>1 DEF Knows, MayRewind

\* A dropped reference changes neither the sizes nor, of the chunks that are
\* still referred to, the offset.
LEMMA DropSizes ==
  ASSUME IInv, NEW t \in Threads, NEW c \in Chunks, DropReference(t, c, "none")
  PROVE  /\ SizeInv'
         /\ \A d \in Chunks : Refers(d)' => offset'[d] = offset[d] /\ capacity'[d] = capacity[d]
         /\ \A u \in Threads \ {t} : pc'[u] = pc[u]
         /\ pc'[t] \in {"none", "return"}
<1>1. CASE DeleteChunk(c) /\ ~Refers(c)' /\ Go(t, "none")
  BY <1>1 DEF DeleteChunk, AfterDelete, IInv, TypeOK, OwnerInv, SizeInv, Go
<1>2. CASE UNCHANGED chunkVars /\ (Go(t, "none") \/ Go(t, "return"))
  BY <1>2 DEF chunkVars, IInv, TypeOK, OwnerInv, SizeInv, Go
<1> QED BY <1>1, <1>2 DEF DropReference, Refers

\* What remains to be shown of a step that drops a reference.
LEMMA DropOwner ==
  ASSUME IInv, NEW t \in Threads, NEW c \in Chunks, DropReference(t, c, "none"),
         need[t] = 0, UNCHANGED <<need, seen>>,
         \A u \in Threads \ {t} : /\ current'[u] = current[u] /\ job'[u] = job[u]
                                  /\ \A s \in job[u] : slot'[s] = slot[s]
  PROVE  OwnerInv'
<1>1. SizeInv'
  BY DropSizes
<1>2. Knows(t)'
  BY DropSizes DEF IInv, TypeOK, OwnerInv, Knows
<1>3. ASSUME NEW u \in Threads \ {t} PROVE Knows(u)'
  <2>1. \A d \in current[u] : d \in Chunks /\ Refers(d)'
    BY DEF IInv, TypeOK, Refers, Referenced
  <2> QED BY <2>1, DropSizes, KnowsFrame
<1> QED BY <1>1, <1>2, <1>3 DEF OwnerInv

\* Every step leaves the owners' knowledge true.
LEMMA OwnerStep == IInv /\ [Next]_vars => OwnerInv'
<1> SUFFICES ASSUME IInv, [Next]_vars PROVE OwnerInv'
  OBVIOUS
<1> USE DEF chunkVars, poolVars, jobVars, threadVars
<1>0. /\ TypeOK /\ ThreadInv /\ PlaceInv /\ SizeInv
      /\ \A u \in Threads : Knows(u)
  BY DEF IInv, OwnerInv
<1>l. /\ \A u \in Threads : current[u] \subseteq live
      /\ \A u, v \in Threads : u # v => current[u] \cap current[v] = {}
      /\ \A u, v \in Threads : current[u] \cap inHand[v] = {}
  BY <1>0 DEF TypeOK, PlaceInv, OneOwner, Referenced
<1>j. \A u \in Threads : \A s \in job[u] : s \in Slots /\ slot[s] # Empty
  BY <1>0 DEF TypeOK, ThreadInv, IsBuffer, Held
<1>1. ASSUME NEW t \in Threads, NEW c \in Chunks, NEW s \in Slots, NEW n \in 1 .. MaxSize,
             ReserveLarge(t, c, s, n)
      PROVE  OwnerInv'
  <2>1. SizeInv'
    BY <1>0, <1>1, SizeAssumption DEF ReserveLarge, SizeInv, TypeOK
  <2>2. ASSUME NEW u \in Threads PROVE Knows(u)'
    <3>1. \A q \in job[u] : slot'[q] = slot[q]
      BY <1>0, <1>1, <1>j DEF ReserveLarge, Free, Held, TypeOK
    <3>2. \A d \in current[u] : offset'[d] = offset[d] /\ capacity'[d] = capacity[d]
      BY <1>0, <1>1, <1>l DEF ReserveLarge, TypeOK
    <3> QED BY <1>1, <3>1, <3>2, KnowsFrame DEF ReserveLarge
  <2> QED BY <2>1, <2>2 DEF OwnerInv
<1>2. ASSUME NEW t \in Threads, NEW n \in 1 .. MaxSize, Reserve(t, n)
      PROVE  OwnerInv'
  <2>1. SizeInv'
    BY <1>0, <1>2 DEF Reserve, SizeInv
  <2>2. Knows(t)'
    <3>1. need'[t] = n /\ n <= Threshold /\ UNCHANGED <<offset, capacity, current>>
      BY <1>0, <1>2 DEF Reserve, TypeOK
    <3>2. CASE pc'[t] = "acquire"
      BY <3>1, <3>2 DEF Knows
    <3>3. ASSUME NEW c \in current[t], Fits(c, n), seen' = [seen EXCEPT ![t] = offset[c]],
                 Go(t, "bump")
          PROVE  Knows(t)'
      <4>1. \A d \in current[t] : d = c
        BY <1>0 DEF ThreadInv
      <4>2. offset[c] + n <= capacity[c] /\ seen'[t] = offset[c] /\ pc'[t] = "bump"
        BY <1>0, <3>3, SizeAssumption DEF Fits, TypeOK, Go
      <4> QED BY <3>1, <4>1, <4>2 DEF Knows
    <3> QED BY <1>0, <1>2, <3>2, <3>3 DEF Reserve, Go, TypeOK
  <2>3. ASSUME NEW u \in Threads \ {t} PROVE Knows(u)'
    BY <1>0, <1>2, KnowsFrame DEF Reserve, Go, TypeOK
  <2> QED BY <2>1, <2>2, <2>3 DEF OwnerInv
<1>3. ASSUME NEW t \in Threads, NEW c \in Chunks, Acquire(t, c)
      PROVE  OwnerInv'
  <2>1. SizeInv'
    BY <1>0, <1>3, ThresholdAssumption DEF Acquire, SizeInv, TypeOK
  <2>2. Knows(t)'
    BY <1>0, <1>3 DEF Acquire, Go, TypeOK, Knows
  <2>3. ASSUME NEW u \in Threads \ {t} PROVE Knows(u)'
    <3>1. \A d \in current[u] : offset'[d] = offset[d] /\ capacity'[d] = capacity[d]
      BY <1>0, <1>3, <1>l DEF Acquire, TypeOK
    <3> QED BY <1>0, <1>3, <3>1, KnowsFrame DEF Acquire, Go, TypeOK
  <2> QED BY <2>1, <2>2, <2>3 DEF OwnerInv
<1>4. ASSUME NEW t \in Threads, Install(t)
      PROVE  OwnerInv'
  <2>1. PICK c \in inHand[t] : /\ offset' = [offset EXCEPT ![c] = 0]
                               /\ current' = [current EXCEPT ![t] = {c}]
    BY <1>4 DEF Install
  <2>2. c \in live \ dedicated /\ capacity[c] = Capacity /\ c \in Chunks
    BY <1>0, <2>1 DEF TypeOK, PlaceInv, SizeInv
  <2>3. /\ seen' = [seen EXCEPT ![t] = 0] /\ pc[t] = "install"
        /\ UNCHANGED <<live, dedicated, capacity, need, job, slot>>
        /\ Go(t, "return") \/ Go(t, "bump")
    BY <1>4 DEF Install
  <2>4. SizeInv'
    BY <1>0, <2>1, <2>2, <2>3 DEF SizeInv, TypeOK
  <2>5. Knows(t)'
    <3>1. current'[t] = {c} /\ offset'[c] = 0 /\ seen'[t] = 0 /\ pc'[t] # "rewind"
      BY <1>0, <2>1, <2>2, <2>3 DEF TypeOK, Go
    <3>2. need[t] \in Nat /\ need[t] <= Threshold
      BY <1>0 DEF TypeOK, Knows
    <3> QED BY <2>2, <2>3, <3>1, <3>2, ThresholdAssumption DEF Knows
  <2>6. ASSUME NEW u \in Threads \ {t} PROVE Knows(u)'
    <3>1. \A d \in current[u] : offset'[d] = offset[d] /\ capacity'[d] = capacity[d]
      BY <1>0, <1>l, <2>1, <2>3 DEF TypeOK
    <3> QED BY <1>0, <2>1, <2>3, <3>1, KnowsFrame DEF Go, TypeOK
  <2> QED BY <2>4, <2>5, <2>6 DEF OwnerInv
<1>5. ASSUME NEW t \in Threads, NEW s \in Slots, Bump(t, s)
      PROVE  OwnerInv'
  <2>1. PICK c \in current[t] : offset' = [offset EXCEPT ![c] = seen[t] + need[t]]
    BY <1>5 DEF Bump
  <2>2. c \in Chunks /\ seen[t] + need[t] <= capacity[c]
    BY <1>0, <1>5 DEF Bump, TypeOK, ThreadInv, Knows
  <2>3. SizeInv'
    BY <1>0, <1>5, <2>1, <2>2 DEF Bump, SizeInv, TypeOK
  <2>4. Knows(t)'
    BY <1>0, <1>5, ThresholdAssumption DEF Bump, Go, TypeOK, Knows
  <2>5. ASSUME NEW u \in Threads \ {t} PROVE Knows(u)'
    <3>1. \A d \in current[u] : offset'[d] = offset[d]
      BY <1>0, <1>l, <2>1 DEF TypeOK
    <3>2. \A q \in job[u] : slot'[q] = slot[q]
      BY <1>0, <1>5, <1>j DEF Bump, Free, Held, TypeOK
    <3> QED BY <1>0, <1>5, <3>1, <3>2, KnowsFrame DEF Bump, Go, TypeOK
  <2> QED BY <2>3, <2>4, <2>5 DEF OwnerInv
<1>6. ASSUME NEW t \in Threads, NEW s \in Slots, NEW used \in 0 .. MaxSize,
             NEW commit \in BOOLEAN, CloseBuffer(t, s, used, commit)
      PROVE  OwnerInv'
  <2>1. SizeInv'
    BY <1>0, <1>6 DEF CloseBuffer, SizeInv
  <2>2. Knows(t)'
    BY <1>0, <1>6 DEF CloseBuffer, Go, TypeOK, Knows, MayRewind
  <2>3. ASSUME NEW u \in Threads \ {t} PROVE Knows(u)'
    BY <1>0, <1>6, KnowsFrame DEF CloseBuffer, Go, TypeOK
  <2> QED BY <2>1, <2>2, <2>3 DEF OwnerInv
<1>7. ASSUME NEW t \in Threads, Rewind(t)
      PROVE  OwnerInv'
  <2>1. PICK s \in job[t] :
          offset' = [offset EXCEPT ![slot[s].chunk] = slot[s].from + usedSize[t]]
    BY <1>7 DEF Rewind
  <2>2. /\ s \in Slots /\ IsBuffer(s) /\ slot[s].from + usedSize[t] <= slot[s].to
        /\ slot[s].from \in Nat /\ slot[s].to \in Nat /\ slot[s].chunk \in Chunks
    BY <1>0, <1>j, HeldRegion DEF ThreadInv, IsBuffer
  <2>3. current[t] = {slot[s].chunk} /\ offset[slot[s].chunk] = slot[s].to
    BY <1>0, <1>7 DEF Rewind, Knows, MayRewind
  <2>4. SizeInv'
    <3>1. slot[s].chunk \in live
      BY <1>l, <2>3
    <3> QED BY <1>0, <1>7, <2>1, <2>2, <2>3, <3>1 DEF Rewind, SizeInv, TypeOK
  <2>5. Knows(t)'
    BY <1>0, <1>7 DEF Rewind, Go, TypeOK, Knows
  <2>6. ASSUME NEW u \in Threads \ {t} PROVE Knows(u)'
    <3>1. \A d \in current[u] : offset'[d] = offset[d]
      BY <1>0, <1>l, <2>1, <2>3 DEF TypeOK
    <3> QED BY <1>0, <1>7, <3>1, KnowsFrame DEF Rewind, Go, TypeOK
  <2> QED BY <2>4, <2>5, <2>6 DEF OwnerInv
<1>8. ASSUME NEW t \in Threads, Finish(t)
      PROVE  OwnerInv'
  <2>1. PICK s \in Slots : Finishes(t, s)
    BY <1>8, FinishSlot
  <2> USE DEF Finishes
  <2>2. /\ pc[t] = "finish" /\ UNCHANGED <<current, need, seen>>
        /\ job' = [job EXCEPT ![t] = {}]
    BY <1>8 DEF Finish
  <2>3. ASSUME NEW u \in Threads \ {t} PROVE \A q \in job[u] : slot'[q] = slot[q]
    BY <1>0, <1>j, <2>1 DEF TypeOK, ThreadInv
  <2>4. CASE commits[t]
    <3>1. SizeInv'
      BY <1>0, <2>1, <2>4 DEF SizeInv
    <3>2. Knows(t)'
      BY <1>0, <2>1, <2>2, <2>4 DEF Go, TypeOK, Knows
    <3>3. ASSUME NEW u \in Threads \ {t} PROVE Knows(u)'
      BY <1>0, <2>1, <2>2, <2>3, <2>4, KnowsFrame DEF Go, TypeOK
    <3> QED BY <3>1, <3>2, <3>3 DEF OwnerInv
  <2>5. CASE ~commits[t]
    <3>1. slot[s].chunk \in Chunks /\ need[t] = 0
      BY <1>0, <2>1, <2>2, HeldRegion DEF IsBuffer, ThreadInv
    <3>2. \A u \in Threads \ {t} : job'[u] = job[u]
      BY <1>0, <2>2 DEF TypeOK
    <3> QED BY <2>1, <2>2, <2>3, <2>5, <3>1, <3>2, DropOwner
  <2> QED BY <2>4, <2>5
<1>9. ASSUME NEW t \in Threads, NEW s \in Slots, DestroyView(t, s)
      PROVE  OwnerInv'
  <2>1. /\ slot' = [slot EXCEPT ![s] = Empty] /\ DropReference(t, slot[s].chunk, "none")
        /\ pc[t] = "none" /\ IsView(s) /\ UNCHANGED <<current, need, seen, job>>
    BY <1>9 DEF DestroyView
  <2>2. slot[s].chunk \in Chunks /\ need[t] = 0
    BY <1>0, <2>1, HeldRegion DEF IsView, ThreadInv
  <2>3. ASSUME NEW u \in Threads PROVE \A q \in job[u] : slot'[q] = slot[q]
    BY <1>0, <1>j, <2>1 DEF TypeOK, ThreadInv, IsView, IsBuffer
  <2> QED BY <2>1, <2>2, <2>3, DropOwner
<1>10. ASSUME NEW t \in Threads, ReleaseCurrentChunk(t)
       PROVE  OwnerInv'
  <2>1. PICK c \in current[t] : DropReference(t, c, "none")
    BY <1>10 DEF ReleaseCurrentChunk
  <2>2. /\ current' = [current EXCEPT ![t] = {}]
        /\ pc[t] = "none" /\ UNCHANGED <<slot, need, seen, job>>
    BY <1>10 DEF ReleaseCurrentChunk
  <2>3. c \in Chunks /\ need[t] = 0 /\ \A u \in Threads \ {t} : current'[u] = current[u]
    BY <1>0, <2>2 DEF TypeOK, ThreadInv
  <2> QED BY <2>1, <2>2, <2>3, DropOwner
<1>11. ASSUME NEW t \in Threads, NEW c \in inHand[t], Refuse(t, c), pc[t] # "rewind",
              pc[t] \in {"return", "enqueue"},
              UNCHANGED <<current, slot, need, seen, job>>
       PROVE  OwnerInv'
  <2>1. c \in Chunks
    BY <1>0 DEF TypeOK
  <2>2. SizeInv'
    BY <1>0, <1>11, <2>1 DEF Refuse, DeleteChunk, AfterDelete, SizeInv, TypeOK
  <2>3. \A u \in Threads : \A d \in current[u] : offset'[d] = offset[d] /\ capacity'[d] = capacity[d]
    BY <1>0, <1>11, <1>l DEF Refuse, DeleteChunk, TypeOK
  <2>4. Knows(t)'
    BY <1>0, <1>11, <2>3 DEF Refuse, AfterReturn, Go, TypeOK, Knows
  <2>5. ASSUME NEW u \in Threads \ {t} PROVE Knows(u)'
    BY <1>0, <1>11, <2>3, KnowsFrame DEF Refuse, Go, TypeOK
  <2> QED BY <2>2, <2>4, <2>5 DEF OwnerInv
<1>12. ASSUME NEW t \in Threads, pc[t] \in {"return", "enqueue"},
              Go(t, "enqueue") \/ Go(t, AfterReturn(t)),
              UNCHANGED <<chunkVars, current, slot, need, seen, job>>
       PROVE  OwnerInv'
  <2>1. SizeInv'
    BY <1>0, <1>12 DEF SizeInv
  <2>2. Knows(t)'
    BY <1>0, <1>12 DEF AfterReturn, Go, TypeOK, Knows
  <2>3. ASSUME NEW u \in Threads \ {t} PROVE Knows(u)'
    BY <1>0, <1>12, KnowsFrame DEF Go, TypeOK
  <2> QED BY <2>1, <2>2, <2>3 DEF OwnerInv
<1>13. ASSUME NEW t \in Threads, Return(t)
       PROVE  OwnerInv'
  BY <1>11, <1>12, <1>13 DEF Return
<1>14. ASSUME NEW t \in Threads, Enqueue(t)
       PROVE  OwnerInv'
  BY <1>11, <1>12, <1>14 DEF Enqueue
<1>15. ASSUME NEW s \in Slots, NEW copy \in Slots, CopyView(s, copy)
       PROVE  OwnerInv'
  <2>1. \A u \in Threads : \A q \in job[u] : slot'[q] = slot[q]
    BY <1>0, <1>15, <1>j DEF CopyView, Free, Held, TypeOK
  <2>2. SizeInv'
    BY <1>0, <1>15 DEF CopyView, SizeInv
  <2> QED BY <1>15, <2>1, <2>2, KnowsFrame DEF CopyView, OwnerInv
<1>16. ASSUME UNCHANGED <<chunkVars, current, slot, threadVars>>
       PROVE  OwnerInv'
  BY <1>0, <1>16, KnowsFrame DEF SizeInv, OwnerInv
<1>17. ASSUME NEW limit \in Limits, SetPoolIdleLimit(limit)
       PROVE  OwnerInv'
  BY <1>16, <1>17 DEF SetPoolIdleLimit
<1>18. CASE UNCHANGED vars
  BY <1>16, <1>18 DEF vars
<1> QED
  BY <1>1, <1>2, <1>3, <1>4, <1>5, <1>6, <1>7, <1>8, <1>9, <1>10, <1>13, <1>14, <1>15,
     <1>17, <1>18 DEF Next, ThreadStep

-----------------------------------------------------------------------------
(* Regions *)

\* The bytes of a slot stay below the offset if neither changes, nor the thread
\* that has rewound for it.
LEMMA BelowFrame ==
  ASSUME IInv, NEW s \in Slots, slot'[s] = slot[s],
         Held(s) => offset'[slot[s].chunk] = offset[slot[s].chunk],
         \A t \in Threads : Rewound(t, s) =>
           /\ pc'[t] = pc[t] /\ job'[t] = job[t] /\ usedSize'[t] = usedSize[t]
           /\ current'[t] = current[t]
  PROVE  Below(s)'
<1>1. Below(s)
  BY DEF IInv, RegionInv
<1> QED BY <1>1 DEF Below, Rewound, Held

\* Where no slot changes, the regions stay disjoint.
LEMMA SameSlots ==
  ASSUME IInv, UNCHANGED slot, \A s \in Slots : Below(s)'
  PROVE  RegionInv'
  BY DEF IInv, RegionInv, ReservationsDisjoint, IsBuffer, IsView, Held

\* Outside Finish, the owner of a chunk finds all bytes below the offset.
LEMMA OwnersBytes ==
  ASSUME IInv, NEW t \in Threads, pc[t] # "finish", NEW s \in Slots, Held(s),
         HasBytes(slot[s]), slot[s].chunk \in current[t]
  PROVE  slot[s].to <= offset[slot[s].chunk]
<1>1. ASSUME NEW u \in Threads, Rewound(u, s) PROVE FALSE
  <2>1. slot[s].chunk \in current[u] /\ slot[s].chunk \in Chunks
    BY <1>1, HeldRegion DEF Rewound, IInv
  <2>2. u = t
    BY <2>1 DEF IInv, PlaceInv, OneOwner
  <2> QED BY <1>1, <2>2 DEF Rewound
<1> QED BY <1>1 DEF IInv, RegionInv, Below

\* A slot is emptied: what remains is disjoint as before.
LEMMA EmptiedSlot ==
  ASSUME IInv, NEW s \in Slots, slot' = [slot EXCEPT ![s] = Empty],
         \A q \in Slots \ {s} : Below(q)'
  PROVE  RegionInv'
<1>1. slot'[s] = Empty /\ \A q \in Slots \ {s} : slot'[q] = slot[q]
  BY DEF IInv, TypeOK
<1>2. \A q \in Slots : Held(q)' => q # s
  BY <1>1 DEF Held
<1>3. Below(s)'
  BY <1>2 DEF Below
<1>4. \A q \in Slots : IsBuffer(q)' => HasBytes(slot[q])'
  BY <1>1, <1>2 DEF IInv, RegionInv, IsBuffer, Held
<1>5. ReservationsDisjoint'
  BY <1>1, <1>2 DEF IInv, RegionInv, ReservationsDisjoint, IsView, Held
<1> QED BY <1>3, <1>4, <1>5 DEF RegionInv

\* A free slot becomes a SendBuffer whose bytes nobody has.
LEMMA NewBuffer ==
  ASSUME IInv, NEW s \in Slots, ~Held(s), NEW r \in Region,
         r # Empty, r.kind = "buffer", HasBytes(r), slot' = [slot EXCEPT ![s] = r],
         Below(s)', \A q \in Slots \ {s} : Below(q)',
         \A q \in Slots : Held(q) /\ HasBytes(slot[q]) /\ slot[q].chunk = r.chunk =>
           slot[q].to <= r.from
  PROVE  RegionInv'
<1>1. slot'[s] = r /\ \A q \in Slots \ {s} : slot'[q] = slot[q]
  BY DEF IInv, TypeOK
<1>2. \A q \in Slots : IsBuffer(q)' => HasBytes(slot[q])'
  BY <1>1 DEF IInv, RegionInv, IsBuffer, Held
<1>3. ASSUME NEW q \in Slots \ {s}, Held(q)'
      PROVE  ~Overlap(r, slot[q]) /\ ~Overlap(slot[q], r)
  <2>1. Held(q)
    BY <1>1, <1>3 DEF Held
  <2>2. slot[q].from \in Nat /\ slot[q].to \in Nat /\ r.from \in Nat /\ r.to \in Nat
    BY <2>1, HeldRegion DEF IInv, Region
  <2> QED BY <2>1, <2>2 DEF Overlap
<1>4. ReservationsDisjoint'
  BY <1>1, <1>3 DEF IInv, RegionInv, ReservationsDisjoint, IsView, Held
<1> QED BY <1>2, <1>4 DEF RegionInv

\* Every step keeps reserved bytes below the offset and with one owner.
LEMMA RegionStep == IInv /\ [Next]_vars => RegionInv'
<1> SUFFICES ASSUME IInv, [Next]_vars PROVE RegionInv'
  OBVIOUS
<1> USE DEF chunkVars, poolVars, jobVars, threadVars
<1>0. /\ TypeOK /\ ThreadInv /\ PlaceInv /\ SizeInv /\ RegionInv
      /\ \A u \in Threads : Knows(u)
  BY DEF IInv, OwnerInv
<1>c. \A q \in Slots : Held(q) => /\ slot[q].chunk \in live
                                  /\ \A u \in Threads : slot[q].chunk \notin inHand[u]
  BY <1>0, HeldRegion DEF PlaceInv, OneOwner, Referenced, Held
<1>1. ASSUME NEW t \in Threads, NEW c \in Chunks, NEW s \in Slots, NEW n \in 1 .. MaxSize,
             ReserveLarge(t, c, s, n)
      PROVE  RegionInv'
  <2> DEFINE r == [kind |-> "buffer", chunk |-> c, from |-> 0, to |-> n]
  <2>1. n \in Nat /\ n > 0
    BY SizeAssumption
  <2>2. r \in Region /\ r # Empty /\ r.kind = "buffer" /\ r.chunk = c /\ r.from = 0 /\ r.to = n
    BY <2>1, NewRegion
  <2>3. slot' = [slot EXCEPT ![s] = r] /\ ~Held(s)
    BY <1>1 DEF ReserveLarge, Free
  <2> HIDE DEF r
  <2>4. /\ c \notin live /\ offset' = [offset EXCEPT ![c] = n]
        /\ UNCHANGED <<current, threadVars>>
    BY <1>1 DEF ReserveLarge
  <2>5. Below(s)'
    BY <1>0, <2>1, <2>2, <2>3, <2>4 DEF Below, TypeOK
  <2>6. ASSUME NEW q \in Slots \ {s} PROVE Below(q)'
    <3>1. slot'[q] = slot[q] /\ (Held(q) => offset'[slot[q].chunk] = offset[slot[q].chunk])
      BY <1>0, <1>c, <2>3, <2>4 DEF TypeOK
    <3> QED BY <2>4, <3>1, BelowFrame
  <2>7. \A q \in Slots : Held(q) => slot[q].chunk # r.chunk
    BY <1>c, <2>2, <2>4
  <2> QED BY <2>1, <2>2, <2>3, <2>5, <2>6, <2>7, NewBuffer DEF HasBytes
<1>2. ASSUME NEW t \in Threads, NEW n \in 1 .. MaxSize, Reserve(t, n)
      PROVE  RegionInv'
  <2>1. ASSUME NEW q \in Slots PROVE Below(q)'
    BY <1>0, <1>2, BelowFrame DEF Reserve, Go, Rewound, TypeOK
  <2> QED BY <1>2, <2>1, SameSlots DEF Reserve
<1>3. ASSUME NEW t \in Threads, NEW c \in Chunks, Acquire(t, c)
      PROVE  RegionInv'
  <2>1. ASSUME NEW q \in Slots PROVE Below(q)'
    <3>1. Held(q) => offset'[slot[q].chunk] = offset[slot[q].chunk]
      BY <1>0, <1>3, <1>c DEF Acquire, TypeOK
    <3> QED BY <1>0, <1>3, <3>1, BelowFrame DEF Acquire, Go, Rewound, TypeOK
  <2> QED BY <1>3, <2>1, SameSlots DEF Acquire
<1>4. ASSUME NEW t \in Threads, Install(t)
      PROVE  RegionInv'
  <2>1. PICK c \in inHand[t] : /\ offset' = [offset EXCEPT ![c] = 0]
                               /\ current' = [current EXCEPT ![t] = {c}]
    BY <1>4 DEF Install
  <2>2. /\ pc[t] = "install" /\ UNCHANGED <<slot, job, usedSize>>
        /\ \A u \in Threads \ {t} : pc'[u] = pc[u] /\ current'[u] = current[u]
    BY <1>0, <1>4, <2>1 DEF Install, Go, TypeOK
  <2>3. ASSUME NEW q \in Slots PROVE Below(q)'
    <3>1. Held(q) => offset'[slot[q].chunk] = offset[slot[q].chunk]
      BY <1>0, <1>c, <2>1 DEF TypeOK
    <3> QED BY <2>2, <3>1, BelowFrame DEF Rewound
  <2> QED BY <2>2, <2>3, SameSlots
<1>5. ASSUME NEW t \in Threads, NEW s \in Slots, Bump(t, s)
      PROVE  RegionInv'
  <2> DEFINE end == seen[t] + need[t]
  <2>1. PICK c \in current[t] :
          /\ offset' = [offset EXCEPT ![c] = end]
          /\ slot' = [slot EXCEPT ![s] = [kind |-> "buffer", chunk |-> c, from |-> seen[t], to |-> end]]
    BY <1>5 DEF Bump
  <2> DEFINE r == [kind |-> "buffer", chunk |-> c, from |-> seen[t], to |-> end]
  <2>2. c \in Chunks /\ seen[t] \in Nat /\ end \in Nat /\ seen[t] < end
    BY <1>0, <1>5 DEF Bump, TypeOK, ThreadInv
  <2>3. /\ r \in Region /\ r # Empty /\ r.kind = "buffer"
        /\ r.chunk = c /\ r.from = seen[t] /\ r.to = end
    BY <2>2, NewRegion
  <2>4. slot' = [slot EXCEPT ![s] = r] /\ ~Held(s)
    BY <1>5, <2>1 DEF Bump, Free
  <2>5. /\ pc[t] = "bump" /\ UNCHANGED <<current, job, usedSize>>
        /\ \A u \in Threads \ {t} : pc'[u] = pc[u]
        /\ need[t] > 0
    BY <1>0, <1>5 DEF Bump, Go, TypeOK, ThreadInv
  <2>6. seen[t] = offset[c]
    BY <1>0, <2>5 DEF Knows
  <2> HIDE DEF r, end
  <2>7. \A q \in Slots : Held(q) /\ HasBytes(slot[q]) /\ slot[q].chunk = c =>
          slot[q].to <= offset[c]
    BY <2>1, <2>5, OwnersBytes
  <2>8. Below(s)'
    BY <1>0, <2>1, <2>2, <2>3, <2>4 DEF Below, TypeOK
  <2>9. ASSUME NEW q \in Slots \ {s} PROVE Below(q)'
    <3>1. slot'[q] = slot[q]
      BY <1>0, <2>4 DEF TypeOK
    <3>2. CASE Held(q) /\ HasBytes(slot[q]) /\ slot[q].chunk = c
      <4>1. slot[q].to \in Nat /\ slot[q].to <= offset[c] /\ offset'[c] = end
        BY <1>0, <2>1, <2>2, <2>7, <3>2, HeldRegion DEF TypeOK
      <4> QED BY <2>2, <2>6, <3>1, <3>2, <4>1 DEF Below
    <3>3. CASE Held(q) /\ slot[q].chunk # c
      BY <1>0, <2>1, <2>5, <3>1, <3>3, BelowFrame DEF TypeOK, Rewound
    <3>4. CASE ~(Held(q) /\ HasBytes(slot[q]))
      BY <3>1, <3>4 DEF Below, Held
    <3> QED BY <3>2, <3>3, <3>4
  <2> QED BY <2>2, <2>3, <2>4, <2>6, <2>7, <2>8, <2>9, NewBuffer DEF HasBytes
<1>6. ASSUME NEW t \in Threads, NEW s \in Slots, NEW used \in 0 .. MaxSize,
             NEW commit \in BOOLEAN, CloseBuffer(t, s, used, commit)
      PROVE  RegionInv'
  <2>1. ASSUME NEW q \in Slots PROVE Below(q)'
    BY <1>0, <1>6, BelowFrame DEF CloseBuffer, Go, Rewound, TypeOK
  <2> QED BY <1>6, <2>1, SameSlots DEF CloseBuffer
<1>7. ASSUME NEW t \in Threads, Rewind(t)
      PROVE  RegionInv'
  <2>1. PICK s \in job[t] :
          offset' = [offset EXCEPT ![slot[s].chunk] = slot[s].from + usedSize[t]]
    BY <1>7 DEF Rewind
  <2>2. /\ s \in Slots /\ IsBuffer(s) /\ Held(s) /\ slot[s].from + usedSize[t] <= slot[s].to
        /\ slot[s].from \in Nat /\ slot[s].to \in Nat /\ slot[s].chunk \in Chunks
        /\ usedSize[t] \in Nat
    BY <1>0, HeldRegion DEF ThreadInv, IsBuffer, TypeOK
  <2>3. current[t] = {slot[s].chunk} /\ offset[slot[s].chunk] = slot[s].to
    BY <1>0, <1>7 DEF Rewind, Knows, MayRewind
  <2>4. /\ pc[t] = "rewind" /\ pc' = [pc EXCEPT ![t] = "finish"]
        /\ UNCHANGED <<slot, current, job, usedSize>>
    BY <1>7 DEF Rewind, Go
  <2>5. offset'[slot[s].chunk] = slot[s].from + usedSize[t]
    BY <1>0, <2>1, <2>2 DEF TypeOK
  <2>6. Below(s)'
    <3>1. Rewound(t, s)'
      BY <1>0, <2>1, <2>2, <2>3, <2>4, <2>5 DEF Rewound, TypeOK
    <3> QED BY <3>1 DEF Below
  <2>7. ASSUME NEW q \in Slots \ {s} PROVE Below(q)'
    <3>1. CASE Held(q) /\ HasBytes(slot[q]) /\ slot[q].chunk = slot[s].chunk
      <4>1. slot[q].to <= slot[s].to /\ slot[q].to \in Nat /\ slot[q].from \in Nat
        BY <1>0, <2>3, <2>4, <3>1, OwnersBytes, HeldRegion
      <4>2. ~Overlap(slot[s], slot[q])
        BY <1>0, <2>2, <3>1 DEF RegionInv, ReservationsDisjoint, IsView, IsBuffer
      <4>3. HasBytes(slot[s])
        BY <1>0, <2>2 DEF RegionInv
      <4>4. slot[q].to <= slot[s].from
        BY <2>2, <3>1, <4>1, <4>2, <4>3 DEF Overlap, HasBytes
      <4>5. slot[q].to <= slot[s].from + usedSize[t]
        BY <2>2, <4>1, <4>4
      <4> QED BY <2>4, <2>5, <3>1, <4>5 DEF Below
    <3>2. CASE Held(q) /\ slot[q].chunk # slot[s].chunk
      BY <1>0, <2>1, <2>4, <3>2, BelowFrame DEF TypeOK, Rewound
    <3>3. CASE ~(Held(q) /\ HasBytes(slot[q]))
      BY <2>4, <3>3 DEF Below, Held
    <3> QED BY <3>1, <3>2, <3>3
  <2> QED BY <2>4, <2>6, <2>7, SameSlots
<1>8. ASSUME NEW t \in Threads, Finish(t)
      PROVE  RegionInv'
  <2>1. PICK s \in Slots : Finishes(t, s)
    BY <1>8, FinishSlot
  <2> USE DEF Finishes
  <2>2. Held(s) /\ slot[s].chunk \in Chunks
    BY <1>0, <2>1, HeldRegion DEF IsBuffer
  <2>3. \A q \in Slots \ {s} : slot'[q] = slot[q]
    BY <1>0, <2>1 DEF TypeOK
  <2>4. /\ UNCHANGED current
        /\ \A u \in Threads \ {t} : pc'[u] = pc[u] /\ job'[u] = job[u] /\ usedSize'[u] = usedSize[u]
    BY <1>0, <1>8, <2>1 DEF Finish, Go, TypeOK, DropReference
  <2>5. ASSUME NEW q \in Slots \ {s}, Held(q) => offset'[slot[q].chunk] = offset[slot[q].chunk]
        PROVE  Below(q)'
    BY <2>1, <2>3, <2>4, <2>5, BelowFrame DEF Rewound
  <2>6. CASE commits[t]
    <3>1. slot' = [slot EXCEPT ![s] = Kept(t, s)] /\ UNCHANGED offset
      BY <2>1, <2>6
    <3>2. /\ Kept(t, s).kind = "view" /\ Kept(t, s) # Empty
          /\ Kept(t, s).chunk = slot[s].chunk /\ Kept(t, s).from = slot[s].from
          /\ Kept(t, s).to = slot[s].from + usedSize[t]
      BY <1>0, <2>2, KeptRegion
    <3>3. /\ slot[s].from + usedSize[t] <= slot[s].to /\ usedSize[t] \in Nat
          /\ slot[s].from \in Nat /\ slot[s].to \in Nat
      BY <1>0, <2>1, <2>2, HeldRegion DEF ThreadInv, TypeOK
    <3>4. slot'[s] = Kept(t, s)
      BY <1>0, <3>1 DEF TypeOK
    <3>5. Below(s)'
      <4>1. \A u \in Threads : Rewound(u, s) => u = t
        BY <1>0, <2>1 DEF Rewound, ThreadInv
      <4>2. HasBytes(slot[s])
        BY <1>0, <2>1 DEF RegionInv
      <4>3. slot[s].from + usedSize[t] <= offset[slot[s].chunk]
        <5>1. slot[s].to <= offset[slot[s].chunk] \/ \E u \in Threads : Rewound(u, s)
          BY <1>0, <2>2, <4>2 DEF RegionInv, Below
        <5>2. CASE slot[s].to <= offset[slot[s].chunk]
          <6>1. offset[slot[s].chunk] \in Nat
            BY <1>0, <2>2 DEF TypeOK
          <6> QED BY <3>3, <5>2, <6>1
        <5>3. CASE \E u \in Threads : Rewound(u, s)
          BY <4>1, <5>3 DEF Rewound
        <5> QED BY <5>1, <5>2, <5>3
      <4> QED BY <3>1, <3>2, <3>4, <4>3 DEF Below
    <3>6. \A q \in Slots : IsBuffer(q)' => HasBytes(slot[q])'
      BY <1>0, <2>3, <3>2, <3>4 DEF RegionInv, IsBuffer, Held
    <3>7. ASSUME NEW q \in Slots \ {s}, Held(q)
          PROVE  ~Overlap(Kept(t, s), slot[q]) /\ ~Overlap(slot[q], Kept(t, s))
      <4>1. slot[q].from \in Nat /\ slot[q].to \in Nat
        BY <1>0, <3>7, HeldRegion
      <4>2. ~Overlap(slot[s], slot[q])
        BY <1>0, <2>1, <2>2, <3>7 DEF RegionInv, ReservationsDisjoint, IsView, IsBuffer
      <4>3. HasBytes(slot[s])
        BY <1>0, <2>1 DEF RegionInv
      <4> QED BY <3>2, <3>3, <4>1, <4>2, <4>3 DEF Overlap, HasBytes
    <3>8. ReservationsDisjoint'
      BY <1>0, <2>3, <3>4, <3>7 DEF RegionInv, ReservationsDisjoint, IsView, Held
    <3>9. \A q \in Slots \ {s} : Below(q)'
      BY <2>5, <3>1
    <3> QED BY <3>5, <3>6, <3>8, <3>9 DEF RegionInv
  <2>7. CASE ~commits[t]
    <3>1. slot' = [slot EXCEPT ![s] = Empty] /\ DropReference(t, slot[s].chunk, "none")
      BY <2>1, <2>7
    <3>2. ASSUME NEW q \in Slots \ {s}, Held(q)
          PROVE  offset'[slot[q].chunk] = offset[slot[q].chunk]
      <4>1. slot[q].chunk \in Chunks /\ Refers(slot[q].chunk)'
        BY <1>0, <2>3, <3>2, HeldRegion DEF Refers, Referenced, Held
      <4> QED BY <2>2, <3>1, <4>1, DropSizes
    <3> QED BY <2>5, <3>1, <3>2, EmptiedSlot
  <2> QED BY <2>6, <2>7
<1>9. ASSUME NEW t \in Threads, NEW s \in Slots, DestroyView(t, s)
      PROVE  RegionInv'
  <2>1. /\ slot' = [slot EXCEPT ![s] = Empty] /\ DropReference(t, slot[s].chunk, "none")
        /\ pc[t] = "none" /\ IsView(s) /\ UNCHANGED <<current, job, usedSize>>
    BY <1>9 DEF DestroyView
  <2>2. slot[s].chunk \in Chunks /\ \A q \in Slots \ {s} : slot'[q] = slot[q]
    BY <1>0, <2>1, HeldRegion DEF IsView, TypeOK
  <2>3. ASSUME NEW q \in Slots \ {s} PROVE Below(q)'
    <3>1. Held(q) => slot[q].chunk \in Chunks /\ Refers(slot[q].chunk)'
      BY <1>0, <2>2, HeldRegion DEF Refers, Referenced, Held
    <3>2. Held(q) => offset'[slot[q].chunk] = offset[slot[q].chunk]
      BY <2>1, <2>2, <3>1, DropSizes
    <3> QED BY <2>1, <2>2, <3>2, BelowFrame, DropSizes DEF Rewound
  <2> QED BY <2>1, <2>3, EmptiedSlot
<1>10. ASSUME NEW t \in Threads, ReleaseCurrentChunk(t)
       PROVE  RegionInv'
  <2>1. PICK c \in current[t] : DropReference(t, c, "none")
    BY <1>10 DEF ReleaseCurrentChunk
  <2>2. /\ current' = [current EXCEPT ![t] = {}]
        /\ pc[t] = "none" /\ UNCHANGED <<slot, job, usedSize>>
    BY <1>10 DEF ReleaseCurrentChunk
  <2>3. c \in Chunks
    BY <1>0 DEF TypeOK
  <2>4. \A u \in Threads \ {t} : current'[u] = current[u] /\ pc'[u] = pc[u]
    BY <1>0, <2>1, <2>2, <2>3, DropSizes DEF TypeOK
  <2>5. \A d \in Chunks : Refers(d)' => offset'[d] = offset[d]
    BY <2>1, <2>3, DropSizes
  <2>6. ASSUME NEW q \in Slots PROVE Below(q)'
    <3>1. Held(q) => slot[q].chunk \in Chunks /\ Refers(slot[q].chunk)'
      BY <1>0, <2>2, HeldRegion DEF Refers, Referenced, Held
    <3> QED BY <2>2, <2>4, <2>5, <3>1, BelowFrame DEF Rewound
  <2> QED BY <2>2, <2>6, SameSlots
<1>11. ASSUME NEW t \in Threads, pc[t] \in {"return", "enqueue"},
              \/ UNCHANGED offset
              \/ \E c \in inHand[t] : Refuse(t, c),
              \A u \in Threads \ {t} : pc'[u] = pc[u],
              UNCHANGED <<current, slot, jobVars>>
       PROVE  RegionInv'
  <2>1. ASSUME NEW q \in Slots PROVE Below(q)'
    <3>1. Held(q) => offset'[slot[q].chunk] = offset[slot[q].chunk]
      BY <1>0, <1>c, <1>11 DEF Refuse, DeleteChunk, TypeOK
    <3> QED BY <1>11, <3>1, BelowFrame DEF Rewound
  <2> QED BY <1>11, <2>1, SameSlots
<1>12. ASSUME NEW t \in Threads, Return(t)
       PROVE  RegionInv'
  BY <1>0, <1>11, <1>12 DEF Return, Refuse, Go, TypeOK
<1>13. ASSUME NEW t \in Threads, Enqueue(t)
       PROVE  RegionInv'
  BY <1>0, <1>11, <1>13 DEF Enqueue, Refuse, Go, TypeOK
<1>14. ASSUME NEW s \in Slots, NEW copy \in Slots, CopyView(s, copy)
       PROVE  RegionInv'
  <2>1. /\ slot' = [slot EXCEPT ![copy] = slot[s]] /\ ~Held(copy) /\ IsView(s) /\ Held(s)
        /\ UNCHANGED <<offset, current, threadVars>>
    BY <1>14 DEF CopyView, Free, IsView
  <2>2. slot'[copy] = slot[s] /\ \A q \in Slots \ {copy} : slot'[q] = slot[q]
    BY <1>0, <2>1 DEF TypeOK
  <2>3. \A q \in Slots \ {copy} : Below(q)'
    BY <2>1, <2>2, BelowFrame
  <2>4. Below(copy)'
    <3>1. \A t \in Threads : ~Rewound(t, s)
      BY <1>0, <2>1 DEF Rewound, ThreadInv, IsBuffer, IsView
    <3>2. HasBytes(slot[s]) => slot[s].to <= offset[slot[s].chunk]
      BY <1>0, <2>1, <3>1 DEF RegionInv, Below
    <3> QED BY <2>1, <2>2, <3>2 DEF Below
  <2>5. \A q \in Slots : IsBuffer(q)' => HasBytes(slot[q])'
    BY <1>0, <2>1, <2>2 DEF RegionInv, IsBuffer, IsView, Held
  <2>6. ReservationsDisjoint'
    BY <1>0, <2>1, <2>2 DEF RegionInv, ReservationsDisjoint, IsView, Held, Overlap
  <2> QED BY <2>3, <2>4, <2>5, <2>6 DEF RegionInv
<1>15. ASSUME UNCHANGED <<chunkVars, current, slot, threadVars>>
       PROVE  RegionInv'
  BY <1>15, BelowFrame, SameSlots
<1>16. ASSUME NEW limit \in Limits, SetPoolIdleLimit(limit)
       PROVE  RegionInv'
  BY <1>15, <1>16 DEF SetPoolIdleLimit
<1>17. CASE UNCHANGED vars
  BY <1>15, <1>17 DEF vars
<1> QED
  BY <1>1, <1>2, <1>3, <1>4, <1>5, <1>6, <1>7, <1>8, <1>9, <1>10, <1>12, <1>13, <1>14,
     <1>16, <1>17 DEF Next, ThreadStep

-----------------------------------------------------------------------------
(* The theorems *)

\* IInv is an inductive invariant of the specification.
THEOREM Invariance == Spec => []IInv
<1>1. IInv /\ [Next]_vars => IInv'
  BY TypeStep, ThreadInvStep, PlaceStep, OwnerStep, RegionStep DEF IInv
<1> QED BY <1>1, InitIInv, PTL DEF Spec

\* Every variable of the send buffers keeps its type.
THEOREM TypeCorrect == Spec => []TypeOK
<1>1. IInv => TypeOK
  BY DEF IInv
<1> QED BY <1>1, Invariance, PTL

\* The bytes of a SendBuffer are nobody else's, for any number of threads.
THEOREM ReservationsDisjointHolds == Spec => []ReservationsDisjoint
<1>1. IInv => ReservationsDisjoint
  BY DEF IInv, RegionInv
<1> QED BY <1>1, Invariance, PTL

\* Reserved bytes lie below the offset, and the offset below the capacity.
THEOREM WithinOffsetHolds == Spec => []WithinOffset
<1>1. IInv => WithinOffset
  BY DEF IInv, OwnerInv, SizeInv, RegionInv, Below, Rewound, WithinOffset, Busy
<1> QED BY <1>1, Invariance, PTL

\* A chunk in use has one owner and is neither in the pool nor deleted.
THEOREM OneOwnerHolds == Spec => []OneOwner
<1>1. IInv => OneOwner
  BY DEF IInv, PlaceInv
<1> QED BY <1>1, Invariance, PTL

\* No chunk is lost and none is returned twice.
THEOREM ChunksAccountedForHolds == Spec => []ChunksAccountedFor
<1>1. IInv => ChunksAccountedFor
  BY DEF IInv, PlaceInv
<1> QED BY <1>1, Invariance, PTL

\* Whoever writes an offset next has the chunk for itself.
THEOREM OffsetIsOwnedHolds == Spec => []OffsetIsOwned
<1>1. IInv => OffsetIsOwned
  <2> SUFFICES ASSUME IInv, NEW t \in Threads, NEW u \in Threads, t # u
               PROVE  Writes(t) \cap (Writes(u) \cup current[u] \cup inHand[u]) = {}
    BY DEF OffsetIsOwned
  <2>1. ASSUME NEW v \in Threads PROVE Writes(v) \subseteq current[v] \cup inHand[v]
    BY DEF IInv, OwnerInv, Knows, MayRewind, Writes
  <2>2. /\ current[t] \cap current[u] = {} /\ inHand[t] \cap inHand[u] = {}
        /\ current[t] \cap inHand[u] = {} /\ inHand[t] \cap current[u] = {}
    BY DEF IInv, TypeOK, PlaceInv, OneOwner, ChunksAccountedFor, Referenced
  <2> QED BY <2>1, <2>2
<1> QED BY <1>1, Invariance, PTL

-----------------------------------------------------------------------------
(* The limit of the pool *)

Enqueuing == {t \in Threads : pc[t] = "enqueue"}

\* The bound is inductive, given that the pool is finite.
OvershootInv == IsFiniteSet(idle) /\ IdleOvershootBounded

\* There are no more threads that enqueue than threads.
LEMMA EnqueuingFinite ==
  /\ Cardinality(Threads) \in Nat /\ Cardinality(Threads) > 0
  /\ IsFiniteSet(Enqueuing) /\ Cardinality(Enqueuing) \in Nat
  /\ IsFiniteSet(Enqueuing') /\ Cardinality(Enqueuing') \in Nat
  /\ Cardinality(Enqueuing') <= Cardinality(Threads)
<1>1. Enqueuing \in SUBSET Threads /\ Enqueuing' \in SUBSET Threads
  BY DEF Enqueuing
<1>2. Cardinality(Threads) \in Nat /\ Cardinality(Threads) # 0
  BY ThreadsAssumption, FS_CardinalityType, FS_EmptySet
<1> QED BY <1>1, <1>2, ThreadsAssumption, FS_Subset, FS_CardinalityType

\* A step that puts no chunk into the pool and sends nobody to do so.
LEMMA NoMoreIdle ==
  ASSUME OvershootInv, idle' \subseteq idle,
         \A t \in Threads : pc'[t] = "enqueue" => pc[t] = "enqueue"
  PROVE  OvershootInv'
<1>1. /\ IsFiniteSet(idle') /\ Cardinality(idle') <= Cardinality(idle)
      /\ Cardinality(idle') \in Nat /\ Cardinality(idle) \in Nat
  BY FS_Subset, FS_CardinalityType DEF OvershootInv
<1>2. Cardinality(Enqueuing') <= Cardinality(Enqueuing)
  <2>1. Enqueuing' \subseteq Enqueuing
    BY DEF Enqueuing
  <2> QED BY <2>1, EnqueuingFinite, FS_Subset
<1>3. PICK limit \in Limits :
        Cardinality(idle) + Cardinality(Enqueuing) < limit + Cardinality(Threads)
  BY DEF OvershootInv, IdleOvershootBounded, Enqueuing
<1>4. Cardinality(idle') + Cardinality(Enqueuing') < limit + Cardinality(Threads)
  BY <1>1, <1>2, <1>3, EnqueuingFinite, LimitsAssumption
<1> QED BY <1>1, <1>4 DEF OvershootInv, IdleOvershootBounded, Enqueuing

\* A thread that goes to enqueue has seen fewer idle chunks than the limit, and
\* no more threads than there are can be on that way.
LEMMA OvershootStep == IInv /\ OvershootInv /\ [Next]_vars => OvershootInv'
<1> SUFFICES ASSUME IInv, OvershootInv, [Next]_vars PROVE OvershootInv'
  OBVIOUS
<1>0. TypeOK /\ \A t \in Threads : pc[t] \in {"return", "enqueue"} => inHand[t] # {}
  BY DEF IInv, ThreadInv
<1> USE <1>0 DEF TypeOK, Go
<1>1. ASSUME NEW t \in Threads, Return(t) PROVE OvershootInv'
  <2>1. idle' = idle
    BY <1>1 DEF Return, poolVars
  <2>2. CASE \E c \in inHand[t] : Refuse(t, c)
    <3>1. pc' = [pc EXCEPT ![t] = "bump"] \/ pc' = [pc EXCEPT ![t] = "none"]
      BY <2>2 DEF Refuse, AfterReturn
    <3> QED BY <2>1, <3>1, NoMoreIdle
  <2>3. CASE \A c \in inHand[t] : Poolable(c) /\ ~PoolIsFull
    <3>0. ~PoolIsFull
      BY <1>1, <2>3 DEF Return
    <3>1. Cardinality(idle) \in Nat /\ Cardinality(idle) < idleLimit
      BY <3>0, FS_CardinalityType, LimitsAssumption DEF PoolIsFull, OvershootInv
    <3>2. Cardinality(idle') + Cardinality(Enqueuing') < idleLimit + Cardinality(Threads)
      BY <2>1, <3>1, EnqueuingFinite, LimitsAssumption
    <3> QED BY <2>1, <3>2 DEF OvershootInv, IdleOvershootBounded, Enqueuing
  <2> QED BY <1>1, <2>2, <2>3 DEF Return
<1>2. ASSUME NEW t \in Threads, Enqueue(t) PROVE OvershootInv'
  <2>1. PICK c \in inHand[t] :
          \/ /\ idle' = idle \cup {c}
             /\ Go(t, AfterReturn(t))
          \/ Refuse(t, c) /\ UNCHANGED idle
    BY <1>2 DEF Enqueue
  <2>2. /\ pc' = [pc EXCEPT ![t] = "bump"] \/ pc' = [pc EXCEPT ![t] = "none"]
    BY <2>1 DEF Refuse, AfterReturn
  <2>3. CASE UNCHANGED idle
    BY <2>2, <2>3, NoMoreIdle
  <2>4. CASE idle' = idle \cup {c}
    <3>1. /\ IsFiniteSet(idle') /\ Cardinality(idle') <= Cardinality(idle) + 1
          /\ Cardinality(idle') \in Nat /\ Cardinality(idle) \in Nat
      <4> DEFINE S == idle \cup {c}
      <4>1. IsFiniteSet(idle) /\ Cardinality(idle) \in Nat
        BY FS_CardinalityType DEF OvershootInv
      <4>2. /\ IsFiniteSet(S) /\ Cardinality(S) \in Nat
            /\ Cardinality(S) = IF c \in idle THEN Cardinality(idle) ELSE Cardinality(idle) + 1
        BY <4>1, FS_AddElement, FS_CardinalityType
      <4> HIDE DEF S
      <4>3. Cardinality(S) <= Cardinality(idle) + 1
        BY <4>1, <4>2
      <4> QED BY <2>4, <4>1, <4>2, <4>3 DEF S
    <3>2. t \in Enqueuing /\ Enqueuing' = Enqueuing \ {t}
      BY <1>2, <2>2 DEF Enqueue, Enqueuing
    <3>3. Cardinality(Enqueuing') = Cardinality(Enqueuing) - 1
      BY <3>2, EnqueuingFinite, FS_RemoveElement
    <3>4. PICK limit \in Limits :
            Cardinality(idle) + Cardinality(Enqueuing) < limit + Cardinality(Threads)
      BY DEF OvershootInv, IdleOvershootBounded, Enqueuing
    <3>5. Cardinality(idle') + Cardinality(Enqueuing') < limit + Cardinality(Threads)
      BY <3>1, <3>3, <3>4, EnqueuingFinite, LimitsAssumption
    <3> QED BY <3>1, <3>5 DEF OvershootInv, IdleOvershootBounded, Enqueuing
  <2> QED BY <2>1, <2>3, <2>4
<1>3. ASSUME NEW t \in Threads, NEW c, DropReference(t, c, "none")
      PROVE  \A u \in Threads : pc'[u] = "enqueue" => pc[u] = "enqueue"
  <2>1. pc' = [pc EXCEPT ![t] = "none"] \/ pc' = [pc EXCEPT ![t] = "return"]
    BY <1>3 DEF DropReference
  <2> QED BY <2>1
<1>4. ASSUME NEW t \in Threads,
             \/ Finish(t) \/ ReleaseCurrentChunk(t) \/ \E s \in Slots : DestroyView(t, s)
      PROVE  OvershootInv'
  <2>1. /\ idle' = idle
        /\ (\E c : DropReference(t, c, "none")) \/ pc' = [pc EXCEPT ![t] = "none"]
    BY <1>4 DEF Finish, ReleaseCurrentChunk, DestroyView, poolVars
  <2> QED BY <1>3, <2>1, NoMoreIdle
<1>5. ASSUME NEW t \in Threads,
             \/ \E c \in Chunks, s \in Slots, n \in 1 .. MaxSize : ReserveLarge(t, c, s, n)
             \/ \E n \in 1 .. MaxSize : Reserve(t, n)
             \/ \E c \in Chunks : Acquire(t, c)
             \/ Install(t)
             \/ \E s \in Slots : Bump(t, s)
             \/ Rewind(t)
             \/ \E s \in Slots, used \in 0 .. MaxSize, commit \in BOOLEAN :
                  CloseBuffer(t, s, used, commit)
      PROVE  OvershootInv'
  <2>1. /\ idle' \subseteq idle
        /\ \/ pc' = pc
           \/ \E p \in {"none", "acquire", "install", "bump", "rewind", "finish", "return"} :
                pc' = [pc EXCEPT ![t] = p]
    BY <1>5 DEF ReserveLarge, Reserve, Acquire, Install, Bump, Rewind, CloseBuffer, poolVars,
           threadVars
  <2> QED BY <2>1, NoMoreIdle
<1>6. CASE \/ \E s, copy \in Slots : CopyView(s, copy)
           \/ \E limit \in Limits : SetPoolIdleLimit(limit)
           \/ UNCHANGED vars
  <2>1. idle' = idle /\ pc' = pc
    BY <1>6 DEF CopyView, SetPoolIdleLimit, vars, poolVars, threadVars
  <2> QED BY <2>1, NoMoreIdle
<1> QED BY <1>1, <1>2, <1>4, <1>5, <1>6 DEF Next, ThreadStep

\* The chunks in the pool, with those that are about to enter it, exceed its
\* limit by less than the number of threads, however many return chunks at once.
THEOREM IdleOvershootBoundedHolds == Spec => []IdleOvershootBounded
<1>1. Init => OvershootInv
  <2> SUFFICES ASSUME Init PROVE OvershootInv
    OBVIOUS
  <2>1. IsFiniteSet(idle) /\ Cardinality(idle) = 0
    BY FS_EmptySet DEF Init
  <2>2. Cardinality(Enqueuing) = 0
    <3>1. Enqueuing = {}
      BY DEF Init, Enqueuing
    <3> QED BY <3>1, FS_EmptySet
  <2>3. PICK limit \in Limits : limit \in Nat
    BY LimitsAssumption
  <2>4. Cardinality(idle) + Cardinality(Enqueuing) < limit + Cardinality(Threads)
    BY <2>1, <2>2, <2>3, EnqueuingFinite
  <2> QED BY <2>1, <2>3, <2>4 DEF OvershootInv, IdleOvershootBounded, Enqueuing
<1>2. IInv /\ OvershootInv /\ [Next]_vars => OvershootInv'
  BY OvershootStep
<1>3. OvershootInv => IdleOvershootBounded
  BY DEF OvershootInv
<1> QED BY <1>1, <1>2, <1>3, Invariance, PTL DEF Spec
=============================================================================
