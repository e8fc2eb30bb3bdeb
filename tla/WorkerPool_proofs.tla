-------------------------- MODULE WorkerPool_proofs --------------------------
(***************************************************************************)
(* Proofs about the worker pool, for any number of workers, clients and     *)
(* tasks and any poll interval: the idle count is exact, no wakeup is lost, *)
(* every queued task beside a sleeping worker has somebody who is about to  *)
(* look or to notify, and the pool implements TaskPool.                     *)
(***************************************************************************)
EXTENDS WorkerPool, FiniteSetTheorems, SequenceTheorems, TLAPS

-----------------------------------------------------------------------------
(* Sequences and what they hold *)

Distinct(q) == \A i, j \in 1..Len(q) : q[i] = q[j] => i = j

\* A new task goes to the end of a queue.
LEMMA ItemsOfAppend ==
  ASSUME NEW S, NEW q \in Seq(S), NEW x \in S
  PROVE  /\ Append(q, x) \in Seq(S)
         /\ Append(q, x) # << >>
         /\ Items(Append(q, x)) = Items(q) \cup {x}
         /\ Distinct(q) /\ x \notin Items(q) => Distinct(Append(q, x))
<1>1. /\ Append(q, x) \in Seq(S)
      /\ Len(q) \in Nat /\ Len(Append(q, x)) = Len(q) + 1
      /\ \A i \in 1..Len(q) : Append(q, x)[i] = q[i]
      /\ Append(q, x)[Len(q) + 1] = x
  OBVIOUS
<1> DEFINE r == Append(q, x)
<1> HIDE DEF r
<1>2. Items(r) = Items(q) \cup {x}
  <2>1. ASSUME NEW y \in Items(r) PROVE y \in Items(q) \cup {x}
    <3>1. PICK i \in 1..Len(r) : y = r[i]
      BY <2>1 DEF Items
    <3> QED BY <1>1, <3>1 DEF Items, r
  <2>2. ASSUME NEW y \in Items(q) PROVE y \in Items(r)
    <3>1. PICK i \in 1..Len(q) : y = q[i]
      BY <2>2 DEF Items
    <3>2. i \in 1..Len(r) /\ r[i] = y
      BY <1>1, <3>1 DEF r
    <3> QED BY <3>2 DEF Items
  <2>3. x \in Items(r)
    <3>1. Len(q) + 1 \in 1..Len(r) /\ r[Len(q) + 1] = x
      BY <1>1 DEF r
    <3> QED BY <3>1 DEF Items
  <2> QED BY <2>1, <2>2, <2>3
<1>3. ASSUME Distinct(q), x \notin Items(q), NEW i \in 1..Len(r), NEW j \in 1..Len(r),
             r[i] = r[j]
      PROVE  i = j
  <2>1. \A k \in 1..Len(q) : q[k] # x
    BY <1>3 DEF Items
  <2> QED BY <1>1, <1>3, <2>1 DEF Distinct, r
<1>4. r # << >>
  BY <1>1 DEF r
<1> QED BY <1>1, <1>2, <1>3, <1>4 DEF Distinct, r

\* What the two ways to take an item have in common.
Without(q, r, x) ==
  /\ x \in Items(q)
  /\ Items(q) = Items(r) \cup {x}
  /\ Distinct(q) => Distinct(r) /\ x \notin Items(r)

\* The injection queue, and a thief, take the first task.
LEMMA ItemsOfTail ==
  ASSUME NEW S, NEW q \in Seq(S), q # << >>
  PROVE  /\ Tail(q) \in Seq(S)
         /\ Without(q, Tail(q), Head(q))
<1> DEFINE r == Tail(q)
<1>1. /\ r \in Seq(S) /\ Len(q) \in Nat \ {0} /\ Len(r) = Len(q) - 1
      /\ \A i \in 1..Len(r) : r[i] = q[i + 1]
      /\ Head(q) = q[1]
  BY HeadTailProperties
<1> HIDE DEF r
<1>2. Head(q) \in Items(q)
  BY <1>1 DEF Items
<1>3. Items(q) = Items(r) \cup {Head(q)}
  <2>1. ASSUME NEW y \in Items(q) PROVE y \in Items(r) \cup {Head(q)}
    <3>1. PICK i \in 1..Len(q) : y = q[i]
      BY <2>1 DEF Items
    <3>2. CASE i = 1
      BY <1>1, <3>1, <3>2
    <3>3. CASE i # 1
      <4>1. i - 1 \in 1..Len(r) /\ r[i - 1] = y
        BY <1>1, <3>1, <3>3
      <4> QED BY <4>1 DEF Items
    <3> QED BY <3>2, <3>3
  <2>2. ASSUME NEW y \in Items(r) PROVE y \in Items(q)
    <3>1. PICK i \in 1..Len(r) : y = r[i]
      BY <2>2 DEF Items
    <3>2. i + 1 \in 1..Len(q) /\ q[i + 1] = y
      BY <1>1, <3>1
    <3> QED BY <3>2 DEF Items
  <2> QED BY <1>2, <2>1, <2>2
<1>4. Distinct(q) => Distinct(r)
  BY <1>1 DEF Distinct
<1>5. ASSUME Distinct(q), Head(q) \in Items(r) PROVE FALSE
  <2>1. PICK i \in 1..Len(r) : Head(q) = r[i]
    BY <1>5 DEF Items
  <2>2. i + 1 \in 1..Len(q) /\ 1 \in 1..Len(q) /\ q[i + 1] = q[1]
    BY <1>1, <2>1
  <2> QED BY <1>5, <2>1, <2>2 DEF Distinct
<1> QED BY <1>1, <1>2, <1>3, <1>4, <1>5 DEF Without, r

\* The owner of a deque takes the last task.
LEMMA ItemsOfButlast ==
  ASSUME NEW S, NEW q \in Seq(S), q # << >>
  PROVE  /\ Butlast(q) \in Seq(S)
         /\ Without(q, Butlast(q), q[Len(q)])
<1> DEFINE r == Butlast(q)  n == Len(q)
<1>1. n \in Nat \ {0}
  OBVIOUS
<1>2. /\ r \in Seq(S) /\ Len(r) = n - 1
      /\ \A i \in 1..(n - 1) : r[i] = q[i]
  <2>1. \A i \in 1..(n - 1) : q[i] \in S
    BY <1>1
  <2>2. /\ SubSeq(q, 1, n - 1) \in Seq(S)
        /\ Len(SubSeq(q, 1, n - 1)) = IF 1 <= n - 1 THEN (n - 1) - 1 + 1 ELSE 0
        /\ \A i \in 1..((n - 1) - 1 + 1) : SubSeq(q, 1, n - 1)[i] = q[1 + i - 1]
    BY <1>1, <2>1, SubSeqProperties
  <2> HIDE DEF n
  <2>3. Len(SubSeq(q, 1, n - 1)) = n - 1
    BY <1>1, <2>2
  <2>4. \A i \in 1..(n - 1) : SubSeq(q, 1, n - 1)[i] = q[i]
    <3>1. (n - 1) - 1 + 1 = n - 1 /\ \A i \in 1..(n - 1) : 1 + i - 1 = i
      BY <1>1
    <3> QED BY <2>2, <3>1
  <2> QED BY <2>2, <2>3, <2>4 DEF Butlast, n
<1> HIDE DEF r
<1>3. q[n] \in Items(q)
  BY <1>1 DEF Items
<1> HIDE DEF n
<1>4. Items(q) = Items(r) \cup {q[n]}
  <2>1. ASSUME NEW y \in Items(q) PROVE y \in Items(r) \cup {q[n]}
    <3>1. PICK i \in 1..n : y = q[i]
      BY <2>1 DEF Items, n
    <3>2. CASE i = n
      BY <3>1, <3>2
    <3>3. CASE i # n
      <4>1. i \in 1..Len(r) /\ r[i] = y
        BY <1>1, <1>2, <3>1, <3>3
      <4> QED BY <4>1 DEF Items
    <3> QED BY <3>2, <3>3
  <2>2. ASSUME NEW y \in Items(r) PROVE y \in Items(q)
    <3>1. PICK i \in 1..Len(r) : y = r[i]
      BY <2>2 DEF Items
    <3>2. i \in 1..n /\ q[i] = y
      BY <1>1, <1>2, <3>1
    <3> QED BY <3>2 DEF Items, n
  <2> QED BY <1>3, <2>1, <2>2
<1>5. Distinct(q) => Distinct(r)
  BY <1>1, <1>2 DEF Distinct, n
<1>6. ASSUME Distinct(q), q[n] \in Items(r) PROVE FALSE
  <2>1. PICK i \in 1..Len(r) : q[n] = r[i]
    BY <1>6 DEF Items
  <2>2. i \in 1..n /\ n \in 1..n /\ i # n /\ q[i] = q[n]
    BY <1>1, <1>2, <2>1
  <2> QED BY <1>6, <2>2 DEF Distinct, n
<1> QED BY <1>2, <1>3, <1>4, <1>5, <1>6 DEF Without, r, n

-----------------------------------------------------------------------------
(* Where a worker looks *)

\* The places to look at are the deques and the injection queue, finitely many.
LEMMA Places ==
  /\ Sources = Workers \cup {InjectionQueue}
  /\ InjectionQueue \notin Workers
  /\ IsFiniteSet(Workers)
<1>1. IsFiniteSet(Workers)
  BY WorkerCountAssumption, FS_Interval DEF Workers
<1>2. Sources = Workers \cup {InjectionQueue}
  <2>1. \A n \in Nat : n \in Sources <=> n \in Workers \/ n = InjectionQueue
    BY WorkerCountAssumption DEF Sources, Workers, InjectionQueue
  <2> QED BY <2>1, WorkerCountAssumption DEF Sources, Workers, InjectionQueue
<1>3. InjectionQueue \notin Workers
  BY WorkerCountAssumption DEF Workers, InjectionQueue
<1> QED BY <1>1, <1>2, <1>3

\* The stealing order visits every other worker.
LEMMA VictimsAre ==
  ASSUME NEW w \in Workers
  PROVE  /\ Victims(w) \in Seq(Workers)
         /\ \A v \in Workers \ {w} : v \in Items(Victims(w))
<1>1. WorkerCount \in Nat \ {0} /\ w \in 0..(WorkerCount - 1)
  BY WorkerCountAssumption DEF Workers
<1>2. \A o \in 1..(WorkerCount - 1) : (w + o) % WorkerCount \in Workers
  BY <1>1 DEF Workers
<1>3. Victims(w) \in Seq(Workers)
  BY <1>1, <1>2 DEF Victims
<1>4. Len(Victims(w)) = WorkerCount - 1
  BY <1>1, <1>3 DEF Victims
<1>5. ASSUME NEW v \in Workers \ {w}
      PROVE  \E o \in 1..(WorkerCount - 1) : (w + o) % WorkerCount = v
  <2>1. v \in 0..(WorkerCount - 1) /\ v # w
    BY DEF Workers
  <2>2. CASE v > w
    <3>1. v - w \in 1..(WorkerCount - 1) /\ w + (v - w) = v
      BY <1>1, <2>1, <2>2
    <3>2. v % WorkerCount = v
      BY <1>1, <2>1
    <3> QED BY <3>1, <3>2
  <2>3. CASE v < w
    <3>1. /\ v - w + WorkerCount \in 1..(WorkerCount - 1)
          /\ w + (v - w + WorkerCount) = v + WorkerCount
      BY <1>1, <2>1, <2>3
    <3>2. (v + WorkerCount) % WorkerCount = v
      BY <1>1, <2>1
    <3> QED BY <3>1, <3>2
  <2> QED BY <1>1, <2>1, <2>2, <2>3
<1> QED BY <1>3, <1>4, <1>5 DEF Items, Victims

\* The last search before the wait visits every source.
LEMMA AcquireOrderIs ==
  ASSUME NEW w \in Workers
  PROVE  /\ AcquireOrder(w) \in Seq(Sources)
         /\ Items(AcquireOrder(w)) = Sources
<1> DEFINE front == <<w, InjectionQueue>>
           r == front \o Victims(w)
<1>1. front \in Seq(Sources) /\ Victims(w) \in Seq(Sources) /\ Len(front) = 2
      /\ front[1] = w /\ front[2] = InjectionQueue
  BY Places, VictimsAre
<1> HIDE DEF front
<1>2. /\ r \in Seq(Sources)
      /\ Len(r) = 2 + Len(Victims(w)) /\ Len(Victims(w)) \in Nat
      /\ \A i \in 1..(2 + Len(Victims(w))) :
           r[i] = IF i <= 2 THEN front[i] ELSE Victims(w)[i - 2]
  <2>1. /\ r \in Seq(Sources)
        /\ Len(r) = Len(front) + Len(Victims(w))
        /\ \A i \in 1..(Len(front) + Len(Victims(w))) :
             r[i] = IF i <= Len(front) THEN front[i] ELSE Victims(w)[i - Len(front)]
    BY <1>1, ConcatProperties
  <2>2. Len(Victims(w)) \in Nat
    BY <1>1
  <2> HIDE DEF r
  <2> QED BY <1>1, <2>1, <2>2
<1> HIDE DEF r
<1>3. ASSUME NEW v \in Sources PROVE v \in Items(r)
  <2>1. CASE v = w
    <3>1. 1 \in 1..Len(r) /\ r[1] = v
      BY <1>1, <1>2, <2>1
    <3> QED BY <3>1 DEF Items
  <2>2. CASE v = InjectionQueue
    <3>1. 2 \in 1..Len(r) /\ r[2] = v
      BY <1>1, <1>2, <2>2
    <3> QED BY <3>1 DEF Items
  <2>3. CASE v \in Workers \ {w}
    <3>1. PICK i \in 1..Len(Victims(w)) : Victims(w)[i] = v
      BY <2>3, VictimsAre DEF Items
    <3>2. i + 2 \in 1..Len(r) /\ r[i + 2] = v
      BY <1>2, <3>1
    <3> QED BY <3>2 DEF Items
  <2> QED BY <2>1, <2>2, <2>3, Places
<1>4. Items(r) \subseteq Sources
  BY <1>2 DEF Items
<1> QED BY <1>2, <1>3, <1>4 DEF r, front, AcquireOrder

\* The first search visits sources only.
LEMMA NextTaskOrderIs ==
  ASSUME NEW w \in Workers
  PROVE  NextTaskOrder(w) \in Seq(Sources)
<1>1. /\ <<w, InjectionQueue>> \in Seq(Sources) /\ <<InjectionQueue, w>> \in Seq(Sources)
      /\ Victims(w) \in Seq(Sources)
  BY Places, VictimsAre
<1>2. CASE tick[w] = 0
  BY <1>1, <1>2, ConcatProperties DEF NextTaskOrder
<1>3. CASE tick[w] # 0
  BY <1>1, <1>3, ConcatProperties DEF NextTaskOrder
<1> QED BY <1>2, <1>3

\* What is left of a list of sources when the first has been visited.
LEMMA ItemsOfRest ==
  ASSUME NEW S, NEW q \in Seq(S), q # << >>
  PROVE  /\ Tail(q) \in Seq(S)
         /\ Head(q) \in Items(q)
         /\ Items(q) = Items(Tail(q)) \cup {Head(q)}
BY ItemsOfTail DEF Without

-----------------------------------------------------------------------------
(* The queues *)

\* The queue that t fills, and where workers look for it.
Mine(t) == IF t \in Clients THEN injection[t] ELSE local[t]
SourceOf(t) == IF t \in Clients THEN InjectionQueue ELSE t

Adds(t, x) ==
  /\ Mine(t)' = Append(Mine(t), x)
  /\ \A u \in Threads \ {t} : Mine(u)' = Mine(u)

Removes(t, x) ==
  /\ Without(Mine(t), Mine(t)', x)
  /\ \A u \in Threads \ {t} : Mine(u)' = Mine(u)

QueuesTypeOK ==
  /\ injection \in [Clients -> Seq(Tasks)]
  /\ local \in [Workers -> Seq(Tasks)]

\* Whatever a thread fills is a queue of tasks.
LEMMA MineType == ASSUME QueuesTypeOK PROVE \A t \in Threads : Mine(t) \in Seq(Tasks)
BY ClientsAssumption DEF QueuesTypeOK, Mine, Threads

\* A task is queued when it is in the queue that some thread fills.
LEMMA QueuedAre ==
  /\ \A x : x \in Queued <=> \E t \in Threads : x \in Items(Mine(t))
  /\ \A x : x \in Queued' <=> \E t \in Threads : x \in Items(Mine(t)')
<1>1. ASSUME NEW x PROVE x \in Queued <=> \E t \in Threads : x \in Items(Mine(t))
  BY ClientsAssumption DEF Queued, Mine, Threads
<1>2. ASSUME NEW x PROVE x \in Queued' <=> \E t \in Threads : x \in Items(Mine(t)')
  BY ClientsAssumption DEF Queued, Mine, Threads, Items
<1> QED BY <1>1, <1>2

\* A source is empty when everything that is filled there is.
LEMMA EmptySources ==
  ASSUME QueuesTypeOK, NEW s \in Sources
  PROVE  EmptySource(s) <=> \A t \in Threads : SourceOf(t) = s => Mine(t) = << >>
BY Places, ClientsAssumption DEF EmptySource, SourceOf, Mine, Threads

\* A queue is empty when it holds no task.
LEMMA EmptyHoldsNothing ==
  ASSUME NEW S, NEW q \in Seq(S)
  PROVE  q = << >> <=> Items(q) = {}
<1>1. Len(q) \in Nat /\ (Len(q) = 0 <=> q = << >>)
  OBVIOUS
<1>2. ASSUME q # << >> PROVE q[1] \in Items(q)
  BY <1>1, <1>2 DEF Items
<1>3. ASSUME q = << >> PROVE Items(q) = {}
  BY <1>3 DEF Items
<1> QED BY <1>2, <1>3

\* A worker that finds a task takes it out of the source where it looks.
LEMMA TakeRemoves ==
  ASSUME QueuesTypeOK, NEW w \in Workers, NEW s \in Sources, NEW x \in Tasks,
         TakeFrom(w, s, x)
  PROVE  /\ QueuesTypeOK'
         /\ \E t \in Threads : Removes(t, x) /\ SourceOf(t) = s
<1>1. CASE /\ s = w
           /\ local[w] # << >> /\ x = local[w][Len(local[w])]
           /\ local' = [local EXCEPT ![w] = Butlast(@)]
           /\ UNCHANGED injection
  <2>1. local[w] \in Seq(Tasks)
    BY DEF QueuesTypeOK
  <2>2. Butlast(local[w]) \in Seq(Tasks) /\ Without(local[w], Butlast(local[w]), x)
    BY <1>1, <2>1, ItemsOfButlast
  <2>3. Removes(w, x) /\ SourceOf(w) = s
    BY <1>1, <2>2, ClientsAssumption DEF Removes, SourceOf, Mine, Threads, QueuesTypeOK
  <2>4. QueuesTypeOK'
    BY <1>1, <2>2 DEF QueuesTypeOK
  <2> QED BY <2>3, <2>4 DEF Threads
<1>2. CASE /\ s \in Workers \ {w}
           /\ local[s] # << >> /\ x = Head(local[s])
           /\ local' = [local EXCEPT ![s] = Tail(@)]
           /\ UNCHANGED injection
  <2>1. local[s] \in Seq(Tasks)
    BY <1>2 DEF QueuesTypeOK
  <2>2. Tail(local[s]) \in Seq(Tasks) /\ Without(local[s], Tail(local[s]), x)
    BY <1>2, <2>1, ItemsOfTail
  <2>3. Removes(s, x) /\ SourceOf(s) = s
    BY <1>2, <2>2, ClientsAssumption DEF Removes, SourceOf, Mine, Threads, QueuesTypeOK
  <2>4. QueuesTypeOK'
    BY <1>2, <2>2 DEF QueuesTypeOK
  <2> QED BY <1>2, <2>3, <2>4 DEF Threads
<1>3. ASSUME NEW c \in Clients, s = InjectionQueue,
             injection[c] # << >>, x = Head(injection[c]),
             injection' = [injection EXCEPT ![c] = Tail(@)], UNCHANGED local
      PROVE  /\ QueuesTypeOK'
             /\ \E t \in Threads : Removes(t, x) /\ SourceOf(t) = s
  <2>1. injection[c] \in Seq(Tasks)
    BY DEF QueuesTypeOK
  <2>2. Tail(injection[c]) \in Seq(Tasks) /\ Without(injection[c], Tail(injection[c]), x)
    BY <1>3, <2>1, ItemsOfTail
  <2>3. Removes(c, x) /\ SourceOf(c) = s
    BY <1>3, <2>2, ClientsAssumption DEF Removes, SourceOf, Mine, Threads, QueuesTypeOK
  <2>4. QueuesTypeOK'
    BY <1>3, <2>2 DEF QueuesTypeOK
  <2> QED BY <2>3, <2>4 DEF Threads
<1> QED BY <1>1, <1>2, <1>3 DEF TakeFrom

\* DiscardPending takes one task after the other out of the injection queue.
LEMMA DiscardRemoves ==
  ASSUME QueuesTypeOK, DiscardInjection
  PROVE  /\ QueuesTypeOK'
         /\ \E t \in Clients, x \in Tasks : Removes(t, x)
<1>1. PICK c \in Clients : /\ injection[c] # << >>
                           /\ injection' = [injection EXCEPT ![c] = Tail(@)]
                           /\ UNCHANGED local
  BY DEF DiscardInjection
<1>2. injection[c] \in Seq(Tasks)
  BY DEF QueuesTypeOK
<1>3. /\ Tail(injection[c]) \in Seq(Tasks) /\ Head(injection[c]) \in Tasks
      /\ Without(injection[c], Tail(injection[c]), Head(injection[c]))
  BY <1>1, <1>2, ItemsOfTail
<1>4. Removes(c, Head(injection[c]))
  BY <1>1, <1>3, ClientsAssumption DEF Removes, Mine, Threads, QueuesTypeOK
<1>5. QueuesTypeOK'
  BY <1>1, <1>3 DEF QueuesTypeOK
<1> QED BY <1>3, <1>4, <1>5

\* A push, or the failure to allocate.
LEMMA PushAdds ==
  ASSUME QueuesTypeOK, NEW t \in Threads, arg[t] \subseteq Tasks,
         PushLocal(t) \/ PushInjection(t)
  PROVE  /\ QueuesTypeOK'
         /\ \/ /\ \E x \in arg[t] : Adds(t, x)
               /\ submit' = [submit EXCEPT ![t] = IF t \in Workers THEN "count" ELSE "section"]
            \/ /\ UNCHANGED queueVars
               /\ submit' = [submit EXCEPT ![t] = "none"]
<1>1. CASE UNCHANGED queueVars /\ submit' = [submit EXCEPT ![t] = "none"]
  BY <1>1 DEF QueuesTypeOK, queueVars
<1>2. ASSUME NEW x \in arg[t], PushLocal(t), UNCHANGED injection,
             local' = [local EXCEPT ![t] = Append(@, x)],
             submit' = [submit EXCEPT ![t] = "count"]
      PROVE  /\ QueuesTypeOK'
             /\ Adds(t, x)
             /\ submit' = [submit EXCEPT ![t] = IF t \in Workers THEN "count" ELSE "section"]
  <2>1. t \in Workers /\ t \notin Clients
    BY <1>2, ClientsAssumption DEF PushLocal
  <2>2. local[t] \in Seq(Tasks) /\ Append(local[t], x) \in Seq(Tasks)
    BY <2>1, ItemsOfAppend DEF QueuesTypeOK
  <2>3. Adds(t, x)
    BY <1>2, <2>1 DEF Adds, Mine, QueuesTypeOK, Threads
  <2>4. QueuesTypeOK'
    BY <1>2, <2>2 DEF QueuesTypeOK
  <2> QED BY <1>2, <2>1, <2>3, <2>4
<1>3. ASSUME NEW x \in arg[t], PushInjection(t), UNCHANGED local,
             injection' = [injection EXCEPT ![t] = Append(@, x)],
             submit' = [submit EXCEPT ![t] = "section"]
      PROVE  /\ QueuesTypeOK'
             /\ Adds(t, x)
             /\ submit' = [submit EXCEPT ![t] = IF t \in Workers THEN "count" ELSE "section"]
  <2>1. t \in Clients /\ t \notin Workers
    BY <1>3, ClientsAssumption DEF PushInjection
  <2>2. injection[t] \in Seq(Tasks) /\ Append(injection[t], x) \in Seq(Tasks)
    BY <2>1, ItemsOfAppend DEF QueuesTypeOK
  <2>3. Adds(t, x)
    BY <1>3, <2>1 DEF Adds, Mine, QueuesTypeOK, Threads
  <2>4. QueuesTypeOK'
    BY <1>3, <2>2 DEF QueuesTypeOK
  <2> QED BY <1>3, <2>1, <2>3, <2>4
<1>4. CASE PushLocal(t)
  BY <1>1, <1>2, <1>4 DEF PushLocal, queueVars
<1>5. CASE PushInjection(t)
  BY <1>1, <1>3, <1>5 DEF PushInjection, queueVars
<1> QED BY <1>4, <1>5

-----------------------------------------------------------------------------
(* Types, the sleep region, Submit and the stop *)

\* The sleep region: a worker is inside from its declaration of idleness, and
\* holds _sleepLock until it waits.
Sleepers == {w \in Workers : pc[w] \in {"recheck", "leave", "waiting", "signalled"}}
HoldsLock(w) == pc[w] \in {"recheck", "leave"}

RegionInv ==
  /\ IdleCountExact
  /\ \A w \in Workers : HoldsLock(w) => sleepLock
  /\ \A v, w \in Workers : HoldsLock(v) /\ HoldsLock(w) => v = w

\* A worker submits only while it runs a task; only workers read the idle count;
\* a task is in hand until it is pushed.
SubmitInv ==
  /\ \A w \in Workers : submit[w] # "none" => pc[w] = "run"
  /\ \A c \in Clients : submit[c] # "count"
  /\ \A t \in Threads : submit[t] # "push" => arg[t] = {}
  /\ \A t \in Threads : \A x, y \in arg[t] : x = y

\* What the position of the stop and of a worker say about each other and about
\* the task it has.
PhaseInv ==
  /\ stopping <=> stopPhase # "running"
  /\ stopPhase \in {"discard", "done"} => \A w \in Workers : pc[w] = "out"
  /\ \A w \in Workers : task[w] # {} <=> pc[w] \in {"run", "leave"}

\* The idle count counts a finite set.
LEMMA SleepersFinite == IsFiniteSet(Sleepers) /\ IsFiniteSet(Sleepers')
<1>1. Sleepers \in SUBSET Workers /\ Sleepers' \in SUBSET Workers
  BY DEF Sleepers
<1> QED BY <1>1, Places, FS_Subset

\* Every step keeps the types; the idle count is not decremented at zero.
LEMMA TypeKept ==
  ASSUME TypeOK, RegionInv, [Next]_vars
  PROVE  TypeOK'
<1> USE DEF TypeOK, WorkerPc, SubmitPc, StopPhase
<1>0. QueuesTypeOK
  BY DEF QueuesTypeOK
<1>1. ASSUME NEW t \in Threads, NEW x \in Tasks, Submit(t, x) PROVE TypeOK'
  <2>1. /\ submitted' \in {submitted, submitted \cup {x}}
        /\ submit' \in {submit, [submit EXCEPT ![t] = "push"]}
        /\ arg' \in {arg, [arg EXCEPT ![t] = {x}]}
    BY <1>1 DEF Submit
  <2>2. submitted' \subseteq Tasks /\ submit' \in [Threads -> SubmitPc]
    BY <2>1
  <2>3. arg' \in [Threads -> SUBSET Tasks]
    BY <2>1
  <2> QED BY <1>1, <2>2, <2>3 DEF Submit, queueVars, sleepVars, stopVars, workerVars
<1>2. ASSUME NEW t \in Threads, PushLocal(t) PROVE TypeOK'
  <2>1. QueuesTypeOK'
    BY <1>0, <1>2, PushAdds
  <2> QED BY <1>2, <2>1 DEF PushLocal, QueuesTypeOK, sleepVars, stopVars, workerVars
<1>3. ASSUME NEW t \in Threads, PushInjection(t) PROVE TypeOK'
  <2>1. QueuesTypeOK'
    BY <1>0, <1>3, PushAdds
  <2> QED BY <1>3, <2>1 DEF PushInjection, QueuesTypeOK, sleepVars, stopVars, workerVars
<1>4. ASSUME NEW t \in Threads, ReadIdleCount(t) \/ EmptySection(t) PROVE TypeOK'
  BY <1>4 DEF ReadIdleCount, EmptySection, queueVars, sleepVars, stopVars, workerVars
<1>5. ASSUME NEW t \in Threads, NotifyOne(t) PROVE TypeOK'
  BY <1>5 DEF NotifyOne, queueVars, sleepVars, stopVars
<1>6. ASSUME NEW w \in Workers, LoopTop(w) PROVE TypeOK'
  BY <1>6, NextTaskOrderIs DEF LoopTop, queueVars, sleepVars, stopVars, submitVars
<1>7. ASSUME NEW w \in Workers, Find(w) PROVE TypeOK'
  <2>1. Head(todo[w]) \in Sources
    BY <1>7 DEF Find
  <2>2. PICK x \in Tasks : TakeFrom(w, Head(todo[w]), x) /\ task' = [task EXCEPT ![w] = {x}]
    BY <1>7 DEF Find
  <2>3. QueuesTypeOK'
    BY <1>0, <2>1, <2>2, TakeRemoves
  <2>4. task' \in [Workers -> SUBSET Tasks]
    BY <2>2
  <2>5. todo' \in [Workers -> Seq(Sources)] /\ pc' \in [Workers -> WorkerPc]
    BY <1>7 DEF Find
  <2> QED BY <1>7, <2>3, <2>4, <2>5 DEF Find, QueuesTypeOK, sleepVars, stopVars, submitVars
<1>8. ASSUME NEW w \in Workers, Miss(w) PROVE TypeOK'
  <2>1. Tail(todo[w]) \in Seq(Sources)
    BY <1>8 DEF Miss
  <2> QED BY <1>8, <2>1 DEF Miss, queueVars, sleepVars, stopVars, submitVars
<1>9. ASSUME NEW w \in Workers, NothingFound(w) \/ Wait(w) \/ SpuriousWakeup(w) PROVE TypeOK'
  BY <1>9 DEF NothingFound, Wait, SpuriousWakeup, queueVars, sleepVars, stopVars, submitVars
<1>10. ASSUME NEW w \in Workers, EnterSleepRegion(w) PROVE TypeOK'
  <2>1. todo' \in [Workers -> Seq(Sources)]
    BY <1>10, AcquireOrderIs DEF EnterSleepRegion
  <2>2. sleepLock' \in BOOLEAN /\ idleCount' \in Nat /\ pc' \in [Workers -> WorkerPc]
    <3>1. /\ pc' = [pc EXCEPT ![w] = "out"] \/ pc' = [pc EXCEPT ![w] = "recheck"]
          /\ sleepLock' = sleepLock \/ sleepLock' = TRUE
          /\ idleCount' = idleCount \/ idleCount' = idleCount + 1
      BY <1>10 DEF EnterSleepRegion, Declaration, sleepVars
    <3>2. pc' \in [Workers -> WorkerPc]
      BY <3>1
    <3>3. sleepLock' \in BOOLEAN
      BY <3>1
    <3>4. idleCount' \in Nat
      BY <3>1
    <3> QED BY <3>2, <3>3, <3>4
  <2> QED BY <1>10, <2>1, <2>2 DEF EnterSleepRegion, queueVars, stopVars, submitVars
<1>11. ASSUME NEW w \in Workers, w \in Sleepers PROVE idleCount - 1 \in Nat
  <2>1. Cardinality(Sleepers) # 0 /\ Cardinality(Sleepers) \in Nat
    BY <1>11, SleepersFinite, FS_EmptySet, FS_CardinalityType
  <2> QED BY <2>1 DEF RegionInv, IdleCountExact, Sleepers
<1>12. ASSUME NEW w \in Workers, LeaveSleepRegion(w) PROVE TypeOK'
  <2>1. idleCount - 1 \in Nat
    BY <1>11, <1>12 DEF LeaveSleepRegion, Sleepers
  <2> QED BY <1>12, <2>1 DEF LeaveSleepRegion, Withdrawal, queueVars, stopVars, submitVars
<1>13. \A n \in 0..(PollInterval - 1) : (n + 1) % PollInterval \in 0..(PollInterval - 1)
  BY PollAssumption
<1>14. ASSUME NEW w \in Workers, Wake(w) PROVE TypeOK'
  <2>1. idleCount - 1 \in Nat
    BY <1>11, <1>14 DEF Wake, Sleepers
  <2> QED BY <1>13, <1>14, <2>1 DEF Wake, NextTick, queueVars, stopVars, submitVars
<1>15. ASSUME NEW w \in Workers, FinishTask(w) PROVE TypeOK'
  BY <1>13, <1>15 DEF FinishTask, NextTick, queueVars, sleepVars, stopVars, submitVars
<1>16. CASE SetStopping \/ NotifyAll \/ Join
  BY <1>16 DEF SetStopping, NotifyAll, Join, queueVars, sleepVars, workerVars, submitVars
<1>17. CASE DiscardInjection
  <2>1. QueuesTypeOK'
    BY <1>0, <1>17, DiscardRemoves
  <2> QED BY <1>17, <2>1 DEF DiscardInjection, QueuesTypeOK, sleepVars, stopVars, workerVars,
           submitVars
<1>18. CASE DiscardLocal
  BY <1>18 DEF DiscardLocal, sleepVars, workerVars, submitVars
<1>19. CASE UNCHANGED vars
  BY <1>19 DEF vars, queueVars, sleepVars, stopVars, workerVars, submitVars
<1> QED BY <1>1, <1>2, <1>3, <1>4, <1>5, <1>6, <1>7, <1>8, <1>9, <1>10, <1>12, <1>14, <1>15,
         <1>16, <1>17, <1>18, <1>19 DEF Next, SubmitStep, WorkerStep, StopStep

\* Every step keeps what is said of submissions.
LEMMA SubmitKept ==
  ASSUME TypeOK, SubmitInv, [Next]_vars
  PROVE  SubmitInv'
<1> USE ClientsAssumption DEF TypeOK, SubmitInv, Threads
<1>1. ASSUME NEW t \in Threads, NEW x \in Tasks, Submit(t, x) PROVE SubmitInv'
  <2>1. submit[t] = "none" /\ (t \in Workers => pc[t] = "run") /\ pc' = pc
    BY <1>1 DEF Submit, workerVars
  <2>2. CASE UNCHANGED <<submit, arg>>
    BY <2>1, <2>2
  <2>3. CASE submit' = [submit EXCEPT ![t] = "push"] /\ arg' = [arg EXCEPT ![t] = {x}]
    BY <2>1, <2>3
  <2> QED BY <1>1, <2>2, <2>3 DEF Submit
<1>2. ASSUME NEW t \in Threads, PushLocal(t) PROVE SubmitInv'
  BY <1>2 DEF PushLocal, workerVars
<1>3. ASSUME NEW t \in Threads, PushInjection(t) PROVE SubmitInv'
  BY <1>3 DEF PushInjection, workerVars
<1>4. ASSUME NEW t \in Threads, ReadIdleCount(t) PROVE SubmitInv'
  BY <1>4 DEF ReadIdleCount, workerVars
<1>5. ASSUME NEW t \in Threads, EmptySection(t) PROVE SubmitInv'
  BY <1>5 DEF EmptySection, workerVars
<1>6. ASSUME NEW t \in Threads, NotifyOne(t) PROVE SubmitInv'
  BY <1>6 DEF NotifyOne, Waiting
<1>7. ASSUME NEW w \in Workers,
             WorkerStep(w) \/ SpuriousWakeup(w)
      PROVE  SubmitInv'
  <2>1. /\ UNCHANGED submitVars
        /\ submit[w] = "none" \/ pc'[w] = "run"
        /\ \A v \in Workers \ {w} : pc'[v] = pc[v]
    BY <1>7 DEF WorkerStep, LoopTop, Find, Miss, NothingFound, EnterSleepRegion,
           LeaveSleepRegion, Wait, Wake, FinishTask, SpuriousWakeup
  <2> QED BY <2>1 DEF submitVars
<1>8. CASE SetStopping \/ StopStep \/ UNCHANGED vars
  <2>1. UNCHANGED submitVars /\ \A w \in Workers : pc[w] = "run" => pc'[w] = "run"
    BY <1>8 DEF SetStopping, StopStep, NotifyAll, Join, DiscardInjection, DiscardLocal, vars,
           workerVars
  <2> QED BY <2>1 DEF submitVars
<1> HIDE DEF SubmitInv
<1> QED BY <1>1, <1>2, <1>3, <1>4, <1>5, <1>6, <1>7, <1>8 DEF Next, SubmitStep

\* Every step keeps what is said of positions and tasks.
LEMMA PhaseKept ==
  ASSUME TypeOK, PhaseInv, [Next]_vars
  PROVE  PhaseInv'
<1> USE DEF TypeOK, PhaseInv
<1>1. ASSUME NEW t \in Threads, NEW x \in Tasks, Submit(t, x) PROVE PhaseInv'
  BY <1>1 DEF Submit, stopVars, workerVars
<1>2. ASSUME NEW t \in Threads,
             PushLocal(t) \/ PushInjection(t) \/ ReadIdleCount(t) \/ EmptySection(t)
      PROVE  PhaseInv'
  BY <1>2 DEF PushLocal, PushInjection, ReadIdleCount, EmptySection, stopVars, workerVars
<1>3. ASSUME NEW t \in Threads, NotifyOne(t) PROVE PhaseInv'
  BY <1>3 DEF NotifyOne, Waiting, stopVars
<1>4. ASSUME NEW w \in Workers, WorkerStep(w) \/ SpuriousWakeup(w) PROVE PhaseInv'
  <2>1. CASE LoopTop(w)
    BY <2>1 DEF LoopTop, stopVars
  <2>2. CASE Find(w)
    BY <2>2 DEF Find, stopVars
  <2>3. CASE Miss(w)
    BY <2>3 DEF Miss, stopVars
  <2>4. CASE NothingFound(w)
    BY <2>4 DEF NothingFound, stopVars
  <2>5. CASE Wait(w)
    BY <2>5 DEF Wait, stopVars
  <2>6. CASE SpuriousWakeup(w)
    BY <2>6 DEF SpuriousWakeup, stopVars
  <2>7. CASE EnterSleepRegion(w)
    BY <2>7 DEF EnterSleepRegion, stopVars
  <2>8. CASE LeaveSleepRegion(w)
    BY <2>8 DEF LeaveSleepRegion, stopVars
  <2>9. CASE Wake(w)
    BY <2>9 DEF Wake, stopVars
  <2>10. CASE FinishTask(w)
    BY <2>10 DEF FinishTask, stopVars
  <2> QED BY <1>4, <2>1, <2>2, <2>3, <2>4, <2>5, <2>6, <2>7, <2>8, <2>9, <2>10 DEF WorkerStep
<1>5. CASE SetStopping
  BY <1>5 DEF SetStopping, workerVars
<1>6. CASE NotifyAll
  BY <1>6 DEF NotifyAll
<1>7. CASE Join
  BY <1>7 DEF Join, Joinable, workerVars
<1>8. CASE DiscardInjection \/ DiscardLocal \/ UNCHANGED vars
  BY <1>8 DEF DiscardInjection, DiscardLocal, vars, stopVars, workerVars
<1> HIDE DEF PhaseInv
<1> QED BY <1>1, <1>2, <1>3, <1>4, <1>5, <1>6, <1>7, <1>8 DEF Next, SubmitStep, StopStep

\* A step that moves nobody into or out of the region or of the lock.
LEMMA SameRegion ==
  ASSUME RegionInv, Sleepers' = Sleepers, UNCHANGED sleepVars,
         \A w \in Workers : HoldsLock(w)' => HoldsLock(w)
  PROVE  RegionInv'
BY DEF RegionInv, IdleCountExact, Sleepers, sleepVars

\* The sleep lock excludes, and the idle count changes with the sleepers.
LEMMA RegionKept ==
  ASSUME TypeOK, RegionInv, [Next]_vars
  PROVE  RegionInv'
<1> USE DEF TypeOK
<1>1. ASSUME NEW t \in Threads,
             \/ \E x \in Tasks : Submit(t, x)
             \/ PushLocal(t) \/ PushInjection(t) \/ ReadIdleCount(t) \/ EmptySection(t)
      PROVE  RegionInv'
  <2>1. UNCHANGED <<sleepVars, pc>>
    BY <1>1 DEF Submit, PushLocal, PushInjection, ReadIdleCount, EmptySection, workerVars
  <2> QED BY <2>1, SameRegion DEF Sleepers, HoldsLock
<1>2. ASSUME NEW t \in Threads, NotifyOne(t) PROVE RegionInv'
  <2>1. UNCHANGED sleepVars
    BY <1>2 DEF NotifyOne
  <2>2. CASE UNCHANGED pc
    BY <2>1, <2>2, SameRegion DEF Sleepers, HoldsLock
  <2>3. ASSUME NEW w \in Workers, pc[w] = "waiting", pc' = [pc EXCEPT ![w] = "signalled"]
        PROVE  RegionInv'
    <3>1. Sleepers' = Sleepers
      BY <2>3 DEF Sleepers
    <3> QED BY <2>1, <2>3, <3>1, SameRegion DEF HoldsLock
  <2> QED BY <1>2, <2>2, <2>3 DEF NotifyOne, Waiting
<1>3. ASSUME NEW w \in Workers, LoopTop(w) PROVE RegionInv'
  <2>1. Sleepers' = Sleepers /\ UNCHANGED sleepVars
    BY <1>3 DEF LoopTop, Sleepers
  <2>2. \A v \in Workers : HoldsLock(v)' => HoldsLock(v)
    BY <1>3 DEF LoopTop, HoldsLock
  <2> QED BY <2>1, <2>2, SameRegion
<1>4. ASSUME NEW w \in Workers, Find(w) PROVE RegionInv'
  <2>1. Sleepers' = Sleepers /\ UNCHANGED sleepVars
    BY <1>4 DEF Find, Sleepers
  <2>2. \A v \in Workers : HoldsLock(v)' => HoldsLock(v)
    BY <1>4 DEF Find, HoldsLock
  <2> QED BY <2>1, <2>2, SameRegion
<1>5. ASSUME NEW w \in Workers, Miss(w) PROVE RegionInv'
  BY <1>5, SameRegion DEF Miss, Sleepers, HoldsLock
<1>6. ASSUME NEW w \in Workers, NothingFound(w) PROVE RegionInv'
  <2>1. Sleepers' = Sleepers /\ UNCHANGED sleepVars
    BY <1>6 DEF NothingFound, Sleepers
  <2> QED BY <1>6, <2>1, SameRegion DEF NothingFound, HoldsLock
<1>7. ASSUME NEW w \in Workers, EnterSleepRegion(w) PROVE RegionInv'
  <2>1. CASE UNCHANGED sleepVars /\ pc' = [pc EXCEPT ![w] = "out"]
    <3>1. Sleepers' = Sleepers
      BY <1>7, <2>1 DEF EnterSleepRegion, Sleepers
    <3> QED BY <2>1, <3>1, SameRegion DEF HoldsLock
  <2>2. CASE /\ sleepLock' = TRUE /\ idleCount' = idleCount + 1
             /\ pc' = [pc EXCEPT ![w] = "recheck"]
    <3>1. Sleepers' = Sleepers \cup {w} /\ w \notin Sleepers
      BY <1>7, <2>2 DEF EnterSleepRegion, Sleepers
    <3>2. Cardinality(Sleepers') = Cardinality(Sleepers) + 1
      BY <3>1, SleepersFinite, FS_AddElement
    <3>3. IdleCountExact'
      BY <2>2, <3>2 DEF RegionInv, IdleCountExact, Sleepers
    <3>4. \A v \in Workers : HoldsLock(v)' => v = w
      BY <1>7, <2>2 DEF EnterSleepRegion, RegionInv, HoldsLock
    <3> QED BY <2>2, <3>3, <3>4 DEF RegionInv
  <2> QED BY <1>7, <2>1, <2>2 DEF EnterSleepRegion, Declaration
<1>8. ASSUME NEW w \in Workers, w \in Sleepers, Sleepers' = Sleepers \ {w},
             idleCount' = idleCount - 1
      PROVE  IdleCountExact'
  <2>1. Cardinality(Sleepers') = Cardinality(Sleepers) - 1
    BY <1>8, SleepersFinite, FS_RemoveElement
  <2> QED BY <1>8, <2>1 DEF RegionInv, IdleCountExact, Sleepers
<1>9. ASSUME NEW w \in Workers, LeaveSleepRegion(w) PROVE RegionInv'
  <2>1. w \in Sleepers /\ Sleepers' = Sleepers \ {w}
    BY <1>9 DEF LeaveSleepRegion, Sleepers
  <2>2. IdleCountExact'
    BY <1>8, <1>9, <2>1 DEF LeaveSleepRegion, Withdrawal
  <2>3. \A v \in Workers : ~HoldsLock(v)'
    BY <1>9 DEF LeaveSleepRegion, RegionInv, HoldsLock
  <2> QED BY <2>2, <2>3 DEF RegionInv
<1>10. ASSUME NEW w \in Workers, Wait(w) PROVE RegionInv'
  <2>1. Sleepers' = Sleepers /\ UNCHANGED idleCount
    BY <1>10 DEF Wait, Sleepers
  <2>2. \A v \in Workers : ~HoldsLock(v)'
    BY <1>10 DEF Wait, RegionInv, HoldsLock
  <2> QED BY <2>1, <2>2 DEF RegionInv, IdleCountExact, Sleepers
<1>11. ASSUME NEW w \in Workers, SpuriousWakeup(w) PROVE RegionInv'
  <2>1. Sleepers' = Sleepers /\ UNCHANGED sleepVars
    BY <1>11 DEF SpuriousWakeup, Sleepers
  <2> QED BY <1>11, <2>1, SameRegion DEF SpuriousWakeup, HoldsLock
<1>12. ASSUME NEW w \in Workers, Wake(w) PROVE RegionInv'
  <2>1. w \in Sleepers /\ Sleepers' = Sleepers \ {w}
    BY <1>12 DEF Wake, Sleepers
  <2>2. IdleCountExact'
    BY <1>8, <1>12, <2>1 DEF Wake
  <2>3. \A v \in Workers : HoldsLock(v)' => HoldsLock(v)
    BY <1>12 DEF Wake, HoldsLock
  <2> QED BY <1>12, <2>2, <2>3 DEF RegionInv, Wake
<1>13. ASSUME NEW w \in Workers, FinishTask(w) PROVE RegionInv'
  <2>1. Sleepers' = Sleepers /\ UNCHANGED sleepVars
    BY <1>13 DEF FinishTask, Sleepers
  <2> QED BY <1>13, <2>1, SameRegion DEF FinishTask, HoldsLock
<1>14. CASE NotifyAll
  <2>1. Sleepers' = Sleepers /\ UNCHANGED sleepVars
    BY <1>14 DEF NotifyAll, Sleepers
  <2> QED BY <1>14, <2>1, SameRegion DEF NotifyAll, HoldsLock
<1>15. CASE SetStopping \/ Join \/ DiscardInjection \/ DiscardLocal \/ UNCHANGED vars
  <2>1. UNCHANGED <<sleepVars, pc>>
    BY <1>15 DEF SetStopping, Join, DiscardInjection, DiscardLocal, vars, workerVars
  <2> QED BY <2>1, SameRegion DEF Sleepers, HoldsLock
<1> QED BY <1>1, <1>2, <1>3, <1>4, <1>5, <1>6, <1>7, <1>9, <1>10, <1>11, <1>12, <1>13, <1>14,
         <1>15 DEF Next, SubmitStep, WorkerStep, StopStep

-----------------------------------------------------------------------------
(* No lost wakeup *)

\* What a worker knows when it looks again under the lock: its own deque stays
\* empty once it has found it so, because only it fills it; and if the injection
\* queue has been filled since it has looked, the client that did so has still
\* to pass the empty critical section.
LookInv ==
  /\ NoLostWakeup
  /\ \A w \in Workers : pc[w] = "recheck" =>
       /\ w \notin Items(todo[w]) => local[w] = << >>
       /\ InjectionQueue \notin Items(todo[w]) /\ ~EmptySource(InjectionQueue) =>
            \E c \in Clients : submit[c] = "section"

\* The parts on which the rest stands.
BaseInv == TypeOK /\ RegionInv /\ SubmitInv /\ PhaseInv

\* The queues keep their types with everything else.
LEMMA BaseTypes == BaseInv => TypeOK /\ QueuesTypeOK
BY DEF BaseInv, TypeOK, QueuesTypeOK

\* Queues only get shorter, and nobody who is about to notify does so.
LEMMA LookKeptByTake ==
  ASSUME LookInv, QueuesTypeOK, QueuesTypeOK',
         \A t \in Threads : Items(Mine(t)') \subseteq Items(Mine(t)),
         \A c \in Clients : submit[c] = "section" => submit'[c] = "section",
         \A c \in Clients : Notifying(c) => Notifying(c)',
         \A w \in Workers : pc'[w] = "recheck" => pc[w] = "recheck" /\ todo'[w] = todo[w],
         \A w \in Workers : pc'[w] \in {"waiting", "signalled"} => pc[w] = "waiting" \/ pc'[w] = pc[w],
         \A w \in Workers : pc'[w] = "waiting" => pc[w] = "waiting"
  PROVE  LookInv'
<1>1. \A t \in Threads : Mine(t) = << >> => Mine(t)' = << >>
  <2>1. \A t \in Threads : Mine(t) \in Seq(Tasks)
    BY MineType
  <2>2. \A t \in Threads : Mine(t)' \in Seq(Tasks)
    BY ClientsAssumption DEF QueuesTypeOK, Mine, Threads
  <2> QED BY <2>1, <2>2, EmptyHoldsNothing
<1>2. \A w \in Workers : local[w] = << >> => local'[w] = << >>
  BY <1>1, ClientsAssumption DEF Mine, Threads
<1>3. EmptySource(InjectionQueue) => EmptySource(InjectionQueue)'
  BY <1>1 DEF Mine, Threads, EmptySource
<1> HIDE DEF EmptySource
<1>4. NoLostWakeup'
  BY <1>2, <1>3 DEF LookInv, NoLostWakeup
<1>5. ASSUME NEW w \in Workers, pc'[w] = "recheck"
      PROVE  /\ w \notin Items(todo'[w]) => local'[w] = << >>
             /\ InjectionQueue \notin Items(todo'[w]) /\ ~EmptySource(InjectionQueue)' =>
                  \E c \in Clients : submit'[c] = "section"
  BY <1>2, <1>3, <1>5 DEF LookInv
<1> QED BY <1>4, <1>5 DEF LookInv, Items

\* Every step keeps what workers have seen before they wait.
LEMMA LookKept ==
  ASSUME BaseInv, LookInv, [Next]_vars
  PROVE  LookInv'
<1>0. /\ TypeOK /\ QueuesTypeOK /\ QueuesTypeOK' /\ SubmitInv
      /\ RegionInv
  BY BaseTypes, TypeKept DEF BaseInv, TypeOK, QueuesTypeOK
<1> USE ClientsAssumption DEF TypeOK, Threads, Notifying
\* Steps that take or leave tasks.
<1>1. ASSUME UNCHANGED <<queueVars, workerVars>>,
             \A c \in Clients : submit[c] = "section" => submit'[c] = "section",
             \A c \in Clients : Notifying(c) => Notifying(c)'
      PROVE  LookInv'
  <2>1. \A t \in Threads : Items(Mine(t)') \subseteq Items(Mine(t))
    BY <1>1 DEF Mine, queueVars
  <2>2. pc' = pc /\ todo' = todo
    BY <1>1 DEF workerVars
  <2> QED BY <1>0, <1>1, <2>1, <2>2, LookKeptByTake
<1>2. ASSUME NEW t \in Threads, NEW x \in Tasks, Submit(t, x) PROVE LookInv'
  BY <1>0, <1>1, <1>2 DEF Submit
<1>3. ASSUME NEW t \in Threads, PushLocal(t) \/ PushInjection(t) PROVE LookInv'
  <2>1. submit[t] = "push" /\ UNCHANGED workerVars
    BY <1>3 DEF PushLocal, PushInjection
  <2>2. CASE UNCHANGED queueVars /\ submit' = [submit EXCEPT ![t] = "none"]
    BY <1>0, <1>1, <2>1, <2>2
  <2>3. ASSUME NEW x \in arg[t], Adds(t, x),
               submit' = [submit EXCEPT ![t] = IF t \in Workers THEN "count" ELSE "section"]
        PROVE  LookInv'
    <3>1. CASE t \in Workers
      <4>1. pc[t] = "run" /\ pc' = pc /\ todo' = todo
        BY <1>0, <2>1, <3>1 DEF SubmitInv, workerVars
      <4>2. \A w \in Workers \ {t} : local'[w] = local[w]
        BY <2>3 DEF Adds, Mine
      <4>3. \A c \in Clients : injection'[c] = injection[c] /\ submit'[c] = submit[c]
        BY <1>0, <2>3, <3>1 DEF Adds, Mine
      <4>4. EmptySource(InjectionQueue)' <=> EmptySource(InjectionQueue)
        BY <4>3 DEF EmptySource
      <4> QED BY <3>1, <4>1, <4>2, <4>3, <4>4 DEF LookInv, NoLostWakeup, Items
    <3>2. CASE t \in Clients
      <4>1. submit'[t] = "section"
        BY <1>0, <2>3, <3>2
      <4>2. \A w \in Workers : local'[w] = local[w]
        BY <2>3, <3>2 DEF Adds, Mine
      <4>3. pc' = pc /\ todo' = todo
        BY <2>1 DEF workerVars
      <4> QED BY <3>2, <4>1, <4>2, <4>3 DEF LookInv, NoLostWakeup, Items
    <3> QED BY <3>1, <3>2
  <2>4. arg[t] \subseteq Tasks
    BY <1>0
  <2> QED BY <1>0, <1>3, <2>2, <2>3, <2>4, PushAdds
<1>4. ASSUME NEW t \in Threads, ReadIdleCount(t) PROVE LookInv'
  BY <1>0, <1>1, <1>4 DEF ReadIdleCount
<1>5. ASSUME NEW t \in Threads, EmptySection(t) PROVE LookInv'
  <2>1. \A w \in Workers : pc[w] # "recheck"
    BY <1>0, <1>5 DEF EmptySection, SectionCanRun, RegionInv, HoldsLock
  <2>2. /\ UNCHANGED <<queueVars, workerVars>>
        /\ \A c \in Clients : Notifying(c) => Notifying(c)'
    BY <1>0, <1>5 DEF EmptySection
  <2> QED BY <2>1, <2>2 DEF LookInv, NoLostWakeup, EmptySource, queueVars, workerVars
<1>6. ASSUME NEW t \in Threads, NotifyOne(t) PROVE LookInv'
  <2>1. /\ UNCHANGED <<queueVars, todo>>
        /\ \A c \in Clients : submit[c] = "section" => submit'[c] = "section"
    BY <1>0, <1>6 DEF NotifyOne
  <2>2. 0 \in Workers
    BY WorkerCountAssumption DEF Workers
  <2>3. \/ \E w \in Workers : pc[w] = "waiting" /\ pc' = [pc EXCEPT ![w] = "signalled"]
        \/ (\A w \in Workers : pc[w] # "waiting") /\ pc' = pc
    BY <1>6 DEF NotifyOne, Waiting
  <2>4. /\ \E w \in Workers : pc'[w] # "waiting"
        /\ \A w \in Workers : pc'[w] \in {"waiting", "signalled"} =>
             pc[w] \in {"waiting", "signalled"}
        /\ \A w \in Workers : pc'[w] = "recheck" => pc[w] = "recheck"
    BY <1>0, <2>2, <2>3
  <2> QED BY <2>1, <2>4 DEF LookInv, NoLostWakeup, EmptySource, Items, queueVars
\* Steps of a worker that neither looks nor falls asleep.
<1>7. ASSUME NEW w \in Workers, UNCHANGED <<queueVars, submitVars>>,
             \A v \in Workers \ {w} : pc'[v] = pc[v] /\ todo'[v] = todo[v],
             pc'[w] \notin {"recheck", "waiting"},
             pc'[w] = "signalled" => pc[w] = "waiting"
      PROVE  LookInv'
  <2>1. \A t \in Threads : Items(Mine(t)') \subseteq Items(Mine(t))
    BY <1>7 DEF Mine, queueVars
  <2>2. submit' = submit
    BY <1>7 DEF submitVars
  <2> QED BY <1>0, <1>7, <2>1, <2>2, LookKeptByTake
<1>8. ASSUME NEW w \in Workers, LoopTop(w) \/ NothingFound(w) \/ LeaveSleepRegion(w)
             \/ Wake(w) \/ FinishTask(w) \/ SpuriousWakeup(w)
      PROVE  LookInv'
  <2>1. /\ UNCHANGED <<queueVars, submitVars>>
        /\ \A v \in Workers \ {w} : pc'[v] = pc[v] /\ todo'[v] = todo[v]
        /\ pc'[w] \notin {"recheck", "waiting"}
        /\ pc'[w] = "signalled" => pc[w] = "waiting"
    BY <1>0, <1>8 DEF LoopTop, NothingFound, LeaveSleepRegion, Wake, FinishTask,
           SpuriousWakeup
  <2> QED BY <1>7, <2>1
<1>9. ASSUME NEW w \in Workers, Find(w) PROVE LookInv'
  <2>1. Head(todo[w]) \in Sources
    BY <1>0, <1>9 DEF Find
  <2>2. PICK x \in Tasks : TakeFrom(w, Head(todo[w]), x)
    BY <1>9 DEF Find
  <2>3. \A t \in Threads : Items(Mine(t)') \subseteq Items(Mine(t))
    <3>1. PICK t \in Threads : Removes(t, x)
      BY <1>0, <2>1, <2>2, TakeRemoves
    <3> QED BY <3>1 DEF Removes, Without
  <2>4. /\ UNCHANGED submit
        /\ \A v \in Workers \ {w} : pc'[v] = pc[v] /\ todo'[v] = todo[v]
        /\ pc'[w] \in {"run", "leave"}
    BY <1>0, <1>9 DEF Find, submitVars
  <2> QED BY <1>0, <2>3, <2>4, LookKeptByTake
<1>10. ASSUME NEW w \in Workers, Miss(w) PROVE LookInv'
  <2>1. /\ UNCHANGED <<queueVars, pc, submit>>
        /\ todo' = [todo EXCEPT ![w] = Tail(@)]
        /\ EmptySource(Head(todo[w]))
        /\ todo[w] # << >> /\ todo[w] \in Seq(Sources)
    BY <1>0, <1>10 DEF Miss, submitVars
  <2>2. \A s : s \in Items(todo[w]) /\ s \notin Items(Tail(todo[w])) => s = Head(todo[w])
    BY <2>1, ItemsOfRest
  <2>3. w \in Items(todo[w]) /\ w \notin Items(Tail(todo[w])) => local[w] = << >>
    BY <2>1, <2>2, Places DEF EmptySource
  <2>4. InjectionQueue \in Items(todo[w]) /\ InjectionQueue \notin Items(Tail(todo[w])) =>
          EmptySource(InjectionQueue)
    BY <2>1, <2>2
  <2>5. EmptySource(InjectionQueue)' <=> EmptySource(InjectionQueue)
    BY <2>1 DEF EmptySource, queueVars
  <2>6. todo'[w] = Tail(todo[w]) /\ \A v \in Workers \ {w} : todo'[v] = todo[v]
    BY <1>0, <2>1
  <2> HIDE DEF EmptySource
  <2>7. NoLostWakeup'
    BY <2>1, <2>5 DEF LookInv, NoLostWakeup, queueVars
  <2>8. ASSUME NEW v \in Workers, pc'[v] = "recheck"
        PROVE  /\ v \notin Items(todo'[v]) => local'[v] = << >>
               /\ InjectionQueue \notin Items(todo'[v]) /\ ~EmptySource(InjectionQueue)' =>
                    \E c \in Clients : submit'[c] = "section"
    BY <2>1, <2>3, <2>4, <2>5, <2>6, <2>8 DEF LookInv, queueVars
  <2> QED BY <2>7, <2>8 DEF LookInv, Items
<1>11. ASSUME NEW w \in Workers, EnterSleepRegion(w) PROVE LookInv'
  <2>1. CASE UNCHANGED todo /\ pc' = [pc EXCEPT ![w] = "out"]
    BY <1>0, <1>7, <1>11, <2>1 DEF EnterSleepRegion
  <2>2. CASE pc' = [pc EXCEPT ![w] = "recheck"] /\ todo' = [todo EXCEPT ![w] = AcquireOrder(w)]
    <3>1. w \in Items(todo'[w]) /\ InjectionQueue \in Items(todo'[w])
      BY <1>0, <2>2, AcquireOrderIs, Places
    <3>2. /\ \A v \in Workers \ {w} : pc'[v] = pc[v] /\ todo'[v] = todo[v]
          /\ pc'[w] = "recheck"
      BY <1>0, <2>2
    <3>3. UNCHANGED <<queueVars, submit>>
      BY <1>11 DEF EnterSleepRegion, submitVars
    <3>4. NoLostWakeup'
      BY <3>2, <3>3 DEF LookInv, NoLostWakeup, EmptySource, queueVars
    <3>5. EmptySource(InjectionQueue)' <=> EmptySource(InjectionQueue)
      BY <3>3 DEF EmptySource, queueVars
    <3> HIDE DEF EmptySource
    <3>6. ASSUME NEW v \in Workers, pc'[v] = "recheck"
          PROVE  /\ v \notin Items(todo'[v]) => local'[v] = << >>
                 /\ InjectionQueue \notin Items(todo'[v]) /\ ~EmptySource(InjectionQueue)' =>
                      \E c \in Clients : submit'[c] = "section"
      <4>1. CASE v = w
        BY <3>1, <4>1
      <4>2. CASE v # w
        BY <3>2, <3>3, <3>5, <3>6, <4>2 DEF LookInv, queueVars
      <4> QED BY <4>1, <4>2
    <3> QED BY <3>4, <3>6 DEF LookInv, Items
  <2> QED BY <1>11, <2>1, <2>2 DEF EnterSleepRegion
<1>12. ASSUME NEW w \in Workers, Wait(w) PROVE LookInv'
  <2>1. /\ UNCHANGED <<queueVars, todo, submit>>
        /\ pc[w] = "recheck" /\ pc' = [pc EXCEPT ![w] = "waiting"]
        /\ todo[w] = << >>
    BY <1>12 DEF Wait, submitVars
  <2>2. Items(todo[w]) = {}
    BY <2>1 DEF Items
  <2>3. /\ local[w] = << >>
        /\ ~EmptySource(InjectionQueue) => \E c \in Clients : submit[c] = "section"
    BY <2>1, <2>2 DEF LookInv
  <2>4. pc'[w] = "waiting" /\ \A v \in Workers \ {w} : pc'[v] = pc[v]
    BY <1>0, <2>1
  <2>5. EmptySource(InjectionQueue)' <=> EmptySource(InjectionQueue)
    BY <2>1 DEF EmptySource, queueVars
  <2> HIDE DEF EmptySource
  <2>6. NoLostWakeup'
    BY <2>1, <2>3, <2>4, <2>5 DEF LookInv, NoLostWakeup, queueVars
  <2>7. ASSUME NEW v \in Workers, pc'[v] = "recheck"
        PROVE  /\ v \notin Items(todo'[v]) => local'[v] = << >>
               /\ InjectionQueue \notin Items(todo'[v]) /\ ~EmptySource(InjectionQueue)' =>
                    \E c \in Clients : submit'[c] = "section"
    BY <2>1, <2>4, <2>5, <2>7 DEF LookInv, queueVars
  <2> QED BY <2>6, <2>7 DEF LookInv, Items
<1>13. CASE SetStopping \/ Join \/ UNCHANGED vars
  <2>1. UNCHANGED <<queueVars, workerVars, submit>>
    BY <1>13 DEF SetStopping, Join, vars, submitVars
  <2> QED BY <1>1, <2>1
<1>14. CASE NotifyAll
  <2>1. \A t \in Threads : Items(Mine(t)') \subseteq Items(Mine(t))
    BY <1>14 DEF NotifyAll, Mine, queueVars
  <2>2. submit' = submit /\ todo' = todo
    BY <1>14 DEF NotifyAll, submitVars
  <2>3. \A w \in Workers : pc'[w] = IF pc[w] = "waiting" THEN "signalled" ELSE pc[w]
    BY <1>14 DEF NotifyAll
  <2> QED BY <1>0, <2>1, <2>2, <2>3, LookKeptByTake
<1>15. CASE DiscardInjection \/ DiscardLocal
  <2>1. \A t \in Threads : Items(Mine(t)') \subseteq Items(Mine(t))
    <3>1. CASE DiscardInjection
      BY <1>0, <3>1, DiscardRemoves DEF Removes, Without
    <3>2. CASE DiscardLocal
      BY <1>0, <3>2 DEF DiscardLocal, Mine, Items
    <3> QED BY <1>15, <3>1, <3>2
  <2>2. submit' = submit /\ todo' = todo /\ pc' = pc
    BY <1>15 DEF DiscardInjection, DiscardLocal, submitVars, workerVars
  <2> QED BY <1>0, <2>1, <2>2, LookKeptByTake
<1> QED BY <1>2, <1>3, <1>4, <1>5, <1>6, <1>8, <1>9, <1>10, <1>11, <1>12, <1>13, <1>14, <1>15
         DEF Next, SubmitStep, WorkerStep, StopStep

-----------------------------------------------------------------------------
(* Every task is in one place *)

\* No task is twice in the queues, twice on the way to them, or both.
QueueInv ==
  /\ \A t \in Threads : Distinct(Mine(t))
  /\ \A t, u \in Threads : t # u => Items(Mine(t)) \cap Items(Mine(u)) = {}
  /\ \A t \in Threads : arg[t] \cap Queued = {}
  /\ \A t, u \in Threads : t # u => arg[t] \cap arg[u] = {}
  /\ Queued \subseteq submitted /\ \A t \in Threads : arg[t] \subseteq submitted

\* What a worker runs has been submitted.
TakenInv == \A w \in Workers : task[w] \subseteq submitted

\* A push takes a task that is in no queue out of a hand into one queue.
LEMMA AddsOne ==
  ASSUME TypeOK, QueueInv, NEW t \in Threads, NEW x \in arg[t], Adds(t, x),
         arg' = [arg EXCEPT ![t] = {}], UNCHANGED submitted
  PROVE  /\ QueueInv'
         /\ Queued' = Queued \cup {x} /\ x \notin Queued
<1>1. x \notin Queued /\ x \in Tasks
  BY DEF QueueInv, TypeOK
<1>2. Mine(t) \in Seq(Tasks)
  BY MineType DEF TypeOK, QueuesTypeOK
<1>3. Items(Mine(t)') = Items(Mine(t)) \cup {x} /\ Distinct(Mine(t)')
  <2>1. x \notin Items(Mine(t)) /\ Distinct(Mine(t))
    BY <1>1, QueuedAre DEF QueueInv
  <2> QED BY <1>1, <1>2, <2>1, ItemsOfAppend DEF Adds
<1>4. \A u \in Threads \ {t} : Mine(u)' = Mine(u)
  BY DEF Adds
<1>5. Queued' = Queued \cup {x}
  BY <1>3, <1>4, QueuedAre
<1>6. \A u \in Threads : arg'[u] = IF u = t THEN {} ELSE arg[u]
  BY DEF TypeOK
<1>7. \A u \in Threads : Distinct(Mine(u)')
  BY <1>3, <1>4 DEF QueueInv
<1>8. ASSUME NEW u \in Threads, NEW v \in Threads, u # v
      PROVE  Items(Mine(u)') \cap Items(Mine(v)') = {}
  <2>1. x \notin Items(Mine(u)) /\ x \notin Items(Mine(v))
    BY <1>1, QueuedAre
  <2>2. Items(Mine(u)) \cap Items(Mine(v)) = {}
    BY <1>8 DEF QueueInv
  <2> QED BY <1>3, <1>4, <1>8, <2>1, <2>2
<1>9. ASSUME NEW u \in Threads PROVE arg'[u] \cap Queued' = {} /\ arg'[u] \subseteq submitted
  BY <1>5, <1>6 DEF QueueInv
<1>10. \A u, v \in Threads : u # v => arg'[u] \cap arg'[v] = {}
  BY <1>6 DEF QueueInv
<1>11. Queued' \subseteq submitted
  BY <1>5 DEF QueueInv
<1> QED BY <1>1, <1>5, <1>7, <1>8, <1>9, <1>10, <1>11 DEF QueueInv, Distinct, Items

\* A task that is taken was in one queue only, so it is in none any more.
LEMMA RemovesOne ==
  ASSUME QueueInv, NEW t \in Threads, NEW x, Removes(t, x),
         UNCHANGED <<arg, submitted>>
  PROVE  /\ QueueInv'
         /\ Queued' = Queued \ {x} /\ x \in Queued
<1>1. /\ x \in Items(Mine(t)) /\ x \notin Items(Mine(t)')
      /\ Items(Mine(t)) = Items(Mine(t)') \cup {x}
      /\ Distinct(Mine(t)')
  BY DEF Removes, Without, QueueInv
<1>2. \A u \in Threads \ {t} : Mine(u)' = Mine(u)
  BY DEF Removes
<1>3. \A u \in Threads \ {t} : x \notin Items(Mine(u))
  BY <1>1 DEF QueueInv
<1>4. Queued' = Queued \ {x} /\ x \in Queued
  BY <1>1, <1>2, <1>3, QueuedAre
<1>5. \A u \in Threads : Distinct(Mine(u)')
  BY <1>1, <1>2 DEF QueueInv
<1>6. ASSUME NEW u \in Threads, NEW v \in Threads, u # v
      PROVE  Items(Mine(u)') \cap Items(Mine(v)') = {}
  <2>1. Items(Mine(u)) \cap Items(Mine(v)) = {}
    BY <1>6 DEF QueueInv
  <2>2. Items(Mine(u)') \subseteq Items(Mine(u)) /\ Items(Mine(v)') \subseteq Items(Mine(v))
    BY <1>1, <1>2
  <2> QED BY <2>1, <2>2
<1> QED BY <1>4, <1>5, <1>6 DEF QueueInv, Distinct, Items

\* No queue changes.
LEMMA SameQueues ==
  ASSUME UNCHANGED queueVars
  PROVE  /\ Queued' = Queued
         /\ \A t \in Threads : Mine(t)' = Mine(t)
BY DEF queueVars, Queued, Mine, Items

\* Every step keeps it that what runs has been submitted.
LEMMA TakenKept ==
  ASSUME BaseInv, QueueInv, TakenInv, [Next]_vars
  PROVE  TakenInv'
<1>0. TypeOK /\ QueuesTypeOK
  BY BaseTypes
<1>1. ASSUME task' = task, submitted \subseteq submitted' PROVE TakenInv'
  BY <1>1 DEF TakenInv
<1>2. ASSUME NEW w \in Workers, Find(w) PROVE TakenInv'
  <2>1. Head(todo[w]) \in Sources
    BY <1>0, <1>2 DEF Find, TypeOK
  <2>2. PICK x \in Tasks : TakeFrom(w, Head(todo[w]), x) /\ task' = [task EXCEPT ![w] = {x}]
    BY <1>2 DEF Find
  <2>3. x \in Queued
    BY <1>0, <2>1, <2>2, TakeRemoves, QueuedAre DEF Removes, Without
  <2>4. UNCHANGED submitted /\ x \in submitted
    BY <1>2, <2>3 DEF Find, submitVars, QueueInv
  <2> QED BY <1>0, <2>2, <2>4 DEF TakenInv, TypeOK
<1>3. ASSUME NEW w \in Workers, FinishTask(w) PROVE TakenInv'
  BY <1>0, <1>3 DEF FinishTask, submitVars, TakenInv, TypeOK
<1>4. ASSUME NEW t \in Threads, SubmitStep(t) \/ \E x \in Tasks : Submit(t, x)
      PROVE  TakenInv'
  BY <1>1, <1>4 DEF SubmitStep, PushLocal, PushInjection, ReadIdleCount, EmptySection,
         NotifyOne, Submit, workerVars
<1>5. ASSUME NEW w \in Workers,
             LoopTop(w) \/ Miss(w) \/ NothingFound(w) \/ EnterSleepRegion(w)
               \/ LeaveSleepRegion(w) \/ Wait(w) \/ Wake(w) \/ SpuriousWakeup(w)
      PROVE  TakenInv'
  BY <1>1, <1>5 DEF LoopTop, Miss, NothingFound, EnterSleepRegion, LeaveSleepRegion, Wait,
         Wake, SpuriousWakeup, submitVars
<1>6. CASE SetStopping \/ StopStep \/ UNCHANGED vars
  BY <1>1, <1>6 DEF SetStopping, StopStep, NotifyAll, Join, DiscardInjection, DiscardLocal,
         vars, workerVars, submitVars
<1> QED BY <1>2, <1>3, <1>4, <1>5, <1>6 DEF Next, WorkerStep

\* Every step keeps a task in one queue at most, once.
LEMMA QueueKept ==
  ASSUME BaseInv, QueueInv, TakenInv, [Next]_vars
  PROVE  QueueInv'
<1>0. TypeOK /\ QueuesTypeOK /\ SubmitInv
  BY BaseTypes DEF BaseInv
<1>1. ASSUME UNCHANGED <<queueVars, arg, submitted>> PROVE QueueInv'
  <2>1. Queued' = Queued /\ \A u \in Threads : Mine(u)' = Mine(u)
    BY <1>1, SameQueues
  <2>2. /\ \A u \in Threads : Distinct(Mine(u)')
        /\ \A u, v \in Threads : u # v => Items(Mine(u)') \cap Items(Mine(v)') = {}
    BY <2>1 DEF QueueInv
  <2>3. /\ \A u \in Threads : arg'[u] \cap Queued' = {} /\ arg'[u] \subseteq submitted'
        /\ \A u, v \in Threads : u # v => arg'[u] \cap arg'[v] = {}
        /\ Queued' \subseteq submitted'
    BY <1>1, <2>1 DEF QueueInv
  <2> QED BY <2>2, <2>3 DEF QueueInv, Distinct, Items
<1>2. ASSUME NEW t \in Threads, NEW x \in Tasks, Submit(t, x) PROVE QueueInv'
  <2>1. /\ UNCHANGED queueVars /\ submit[t] = "none"
        /\ arg' = arg \/ arg' = [arg EXCEPT ![t] = {x}]
        /\ submitted \subseteq submitted'
    BY <1>2 DEF Submit
  <2>2. /\ x \in submitted'
        /\ x \notin Queued /\ \A u \in Threads : x \notin arg[u]
    <3>1. CASE x \notin submitted /\ submitted' = submitted \cup {x}
      BY <3>1 DEF QueueInv
    <3>2. CASE x \in submitted /\ x \notin Queued \cup InHand /\ UNCHANGED submitted
      BY <3>2 DEF InHand
    <3> QED BY <1>2, <3>1, <3>2 DEF Submit
  <2>3. arg[t] = {}
    BY <1>0, <2>1 DEF SubmitInv
  <2>4. \A u \in Threads : arg'[u] = arg[u] \/ (u = t /\ arg'[u] = {x})
    BY <1>0, <2>1 DEF TypeOK
  <2>5. Queued' = Queued /\ \A u \in Threads : Mine(u)' = Mine(u)
    BY <2>1, SameQueues
  <2>6. /\ \A u \in Threads : arg'[u] \cap Queued' = {} /\ arg'[u] \subseteq submitted'
        /\ \A u, v \in Threads : u # v => arg'[u] \cap arg'[v] = {}
    BY <2>1, <2>2, <2>4, <2>5 DEF QueueInv
  <2>7. Queued' \subseteq submitted'
    BY <2>1, <2>5 DEF QueueInv
  <2>8. /\ \A u \in Threads : Distinct(Mine(u)')
        /\ \A u, v \in Threads : u # v => Items(Mine(u)') \cap Items(Mine(v)') = {}
    BY <2>5 DEF QueueInv
  <2> QED BY <2>6, <2>7, <2>8 DEF QueueInv, Distinct, Items
<1>3. ASSUME NEW t \in Threads, PushLocal(t) \/ PushInjection(t) PROVE QueueInv'
  <2>1. arg' = [arg EXCEPT ![t] = {}] /\ UNCHANGED submitted
    BY <1>3 DEF PushLocal, PushInjection
  <2>2. arg[t] \subseteq Tasks
    BY <1>0 DEF TypeOK
  <2>3. ASSUME NEW x \in arg[t], Adds(t, x) PROVE QueueInv'
    BY <1>0, <2>1, <2>3, AddsOne
  <2>4. CASE UNCHANGED queueVars
    <3>1. \A u \in Threads : arg'[u] \subseteq arg[u]
      BY <1>0, <2>1 DEF TypeOK
    <3>2. Queued' = Queued /\ \A u \in Threads : Mine(u)' = Mine(u)
      BY <2>4, SameQueues
    <3>3. /\ \A u \in Threads : arg'[u] \cap Queued' = {} /\ arg'[u] \subseteq submitted
          /\ \A u, v \in Threads : u # v => arg'[u] \cap arg'[v] = {}
      BY <3>1, <3>2 DEF QueueInv
    <3>4. /\ \A u \in Threads : Distinct(Mine(u)')
          /\ \A u, v \in Threads : u # v => Items(Mine(u)') \cap Items(Mine(v)') = {}
      BY <3>2 DEF QueueInv
    <3> QED BY <2>1, <3>2, <3>3, <3>4 DEF QueueInv, Distinct, Items
  <2> QED BY <1>0, <1>3, <2>2, <2>3, <2>4, PushAdds
<1>4. ASSUME NEW w \in Workers, Find(w) PROVE QueueInv'
  <2>1. Head(todo[w]) \in Sources
    BY <1>0, <1>4 DEF Find, TypeOK
  <2>2. PICK x \in Tasks : TakeFrom(w, Head(todo[w]), x)
    BY <1>4 DEF Find
  <2>3. PICK t \in Threads : Removes(t, x)
    BY <1>0, <2>1, <2>2, TakeRemoves
  <2>4. UNCHANGED <<arg, submitted>>
    BY <1>4 DEF Find, submitVars
  <2> QED BY <2>3, <2>4, RemovesOne
<1>5. CASE DiscardInjection
  <2>1. PICK t \in Clients, x \in Tasks : Removes(t, x)
    BY <1>0, <1>5, DiscardRemoves
  <2> QED BY <1>5, <2>1, RemovesOne DEF DiscardInjection, submitVars, Threads
<1>6. CASE DiscardLocal
  <2>1. \A t \in Threads : Mine(t)' = Mine(t) \/ Mine(t)' = << >>
    BY <1>6 DEF DiscardLocal, Mine, Threads
  <2>2. Items(<< >>) = {} /\ Distinct(<< >>)
    BY DEF Items, Distinct
  <2>3. \A t \in Threads : Items(Mine(t)') \subseteq Items(Mine(t)) /\ Distinct(Mine(t)')
    BY <2>1, <2>2 DEF QueueInv
  <2>4. Queued' \subseteq Queued
    BY <2>3, QueuedAre
  <2>5. UNCHANGED <<arg, submitted>>
    BY <1>6 DEF DiscardLocal, submitVars
  <2>6. \A u, v \in Threads : u # v => Items(Mine(u)') \cap Items(Mine(v)') = {}
    <3>1. SUFFICES ASSUME NEW u \in Threads, NEW v \in Threads, u # v
                   PROVE  Items(Mine(u)') \cap Items(Mine(v)') = {}
      OBVIOUS
    <3>2. Items(Mine(u)) \cap Items(Mine(v)) = {}
      BY <3>1 DEF QueueInv
    <3> QED BY <2>3, <3>2
  <2>7. /\ \A u \in Threads : arg'[u] \cap Queued' = {} /\ arg'[u] \subseteq submitted
        /\ \A u, v \in Threads : u # v => arg'[u] \cap arg'[v] = {}
        /\ Queued' \subseteq submitted
    BY <2>4, <2>5 DEF QueueInv
  <2> QED BY <2>3, <2>5, <2>6, <2>7 DEF QueueInv, Distinct, Items
<1>7. ASSUME NEW t \in Threads, ReadIdleCount(t) \/ EmptySection(t) \/ NotifyOne(t)
      PROVE  QueueInv'
  BY <1>1, <1>7 DEF ReadIdleCount, EmptySection, NotifyOne
<1>8. ASSUME NEW w \in Workers,
             LoopTop(w) \/ Miss(w) \/ NothingFound(w) \/ EnterSleepRegion(w)
               \/ LeaveSleepRegion(w) \/ Wait(w) \/ Wake(w) \/ FinishTask(w)
               \/ SpuriousWakeup(w)
      PROVE  QueueInv'
  BY <1>1, <1>8 DEF LoopTop, Miss, NothingFound, EnterSleepRegion, LeaveSleepRegion, Wait,
         Wake, FinishTask, SpuriousWakeup, submitVars
<1>9. CASE SetStopping \/ NotifyAll \/ Join \/ UNCHANGED vars
  BY <1>1, <1>9 DEF SetStopping, NotifyAll, Join, vars, submitVars
<1> QED BY <1>2, <1>3, <1>4, <1>5, <1>6, <1>7, <1>8, <1>9
         DEF Next, SubmitStep, WorkerStep, StopStep

\* The parts on which the rest stands are preserved together.
LEMMA BaseKept ==
  ASSUME BaseInv, [Next]_vars
  PROVE  BaseInv'
BY TypeKept, RegionKept, SubmitKept, PhaseKept DEF BaseInv

-----------------------------------------------------------------------------
(* The refinement of TaskPool *)

Joined == stopPhase \in {"discard", "done"}

\* Every step of the pool is a step of TaskPool or a stutter.
LEMMA StepsKeepThePromise ==
  ASSUME BaseInv, QueueInv, [Next]_vars
  PROVE  [Promise!Next]_(Promise!vars)
<1>0. TypeOK /\ QueuesTypeOK /\ SubmitInv /\ PhaseInv
  BY BaseTypes DEF BaseInv
<1> USE DEF Promise!Next, Promise!vars, Joined
<1>1. ASSUME UNCHANGED <<queueVars, task, stopPhase>> PROVE UNCHANGED Promise!vars
  BY <1>1, SameQueues
<1>2. ASSUME NEW t \in Threads, PushLocal(t) \/ PushInjection(t)
      PROVE  [Promise!Next]_(Promise!vars)
  <2>1. /\ arg' = [arg EXCEPT ![t] = {}]
        /\ UNCHANGED <<submitted, task, stopPhase>>
    BY <1>2 DEF PushLocal, PushInjection, workerVars, stopVars
  <2>2. arg[t] \subseteq Tasks
    BY <1>0 DEF TypeOK
  <2>3. ASSUME NEW x \in arg[t], Adds(t, x) PROVE Promise!Next
    <3>1. Queued' = Queued \cup {x} /\ x \notin Queued
      BY <1>0, <2>1, <2>3, AddsOne
    <3> QED BY <2>1, <2>2, <3>1 DEF Promise!Take
  <2> QED BY <1>0, <1>1, <1>2, <2>1, <2>2, <2>3, PushAdds
<1>3. ASSUME NEW w \in Workers, Find(w) PROVE Promise!Next
  <2>1. Head(todo[w]) \in Sources
    BY <1>0, <1>3 DEF Find, TypeOK
  <2>2. PICK x \in Tasks : TakeFrom(w, Head(todo[w]), x) /\ task' = [task EXCEPT ![w] = {x}]
    BY <1>3 DEF Find
  <2>3. PICK t \in Threads : Removes(t, x)
    BY <1>0, <2>1, <2>2, TakeRemoves
  <2>4. UNCHANGED <<arg, submitted, stopPhase>>
    BY <1>3 DEF Find, submitVars, stopVars
  <2>5. Queued' = Queued \ {x} /\ x \in Queued
    BY <2>3, <2>4, RemovesOne
  <2>6. ~Joined /\ task[w] = {}
    BY <1>0, <1>3 DEF Find, PhaseInv
  <2> QED BY <2>2, <2>4, <2>5, <2>6 DEF Promise!Start
<1>4. ASSUME NEW w \in Workers, FinishTask(w) PROVE Promise!Next
  <2>1. task[w] # {}
    BY <1>0, <1>4 DEF FinishTask, PhaseInv
  <2>2. UNCHANGED <<Queued, stopPhase>>
    BY <1>4, SameQueues DEF FinishTask, stopVars
  <2> QED BY <1>4, <2>1, <2>2 DEF FinishTask, Promise!Finish
<1>5. CASE Join
  <2>1. \A w \in Workers : task[w] = {}
    BY <1>0, <1>5 DEF Join, Joinable, PhaseInv
  <2>2. Queued' = Queued /\ task' = task
    BY <1>5, SameQueues DEF Join, workerVars
  <2> QED BY <1>5, <2>1, <2>2 DEF Join, Promise!Join
<1>6. CASE DiscardInjection
  <2>1. PICK t \in Clients, x \in Tasks : Removes(t, x)
    BY <1>0, <1>6, DiscardRemoves
  <2>2. UNCHANGED <<arg, submitted, stopPhase, task>> /\ stopPhase = "discard"
    BY <1>6 DEF DiscardInjection, submitVars, stopVars, workerVars
  <2>3. Queued' = Queued \ {x}
    BY <2>1, <2>2, RemovesOne DEF Threads
  <2>4. \E some \in SUBSET Queued : Queued' = Queued \ some
    <3>1. Queued \cap {x} \in SUBSET Queued /\ Queued' = Queued \ (Queued \cap {x})
      BY <2>3
    <3> QED BY <3>1
  <2> QED BY <2>2, <2>4 DEF Promise!Drop
<1>7. CASE DiscardLocal
  <2>1. /\ UNCHANGED task /\ stopPhase = "discard" /\ stopPhase' = "done"
    BY <1>7 DEF DiscardLocal, workerVars
  <2>2. Queued' \subseteq Queued
    <3>1. \A t \in Threads : Mine(t)' = Mine(t) \/ Mine(t)' = << >>
      BY <1>7 DEF DiscardLocal, Mine, Threads
    <3>2. Items(<< >>) = {}
      BY DEF Items
    <3>3. \A t \in Threads : Items(Mine(t)') \subseteq Items(Mine(t))
      BY <3>1, <3>2
    <3> QED BY <3>3, QueuedAre
  <2>3. \E some \in SUBSET Queued : Queued' = Queued \ some
    <3>1. Queued \ Queued' \in SUBSET Queued /\ Queued' = Queued \ (Queued \ Queued')
      BY <2>2
    <3> QED BY <3>1
  <2> QED BY <2>1, <2>3 DEF Promise!Drop
<1>8. ASSUME NEW t \in Threads,
             (\E x \in Tasks : Submit(t, x)) \/ ReadIdleCount(t) \/ EmptySection(t) \/ NotifyOne(t)
      PROVE  UNCHANGED Promise!vars
  BY <1>1, <1>8 DEF Submit, ReadIdleCount, EmptySection, NotifyOne, stopVars, workerVars
<1>9. ASSUME NEW w \in Workers,
             LoopTop(w) \/ Miss(w) \/ NothingFound(w) \/ EnterSleepRegion(w)
               \/ LeaveSleepRegion(w) \/ Wait(w) \/ Wake(w) \/ SpuriousWakeup(w)
      PROVE  UNCHANGED Promise!vars
  BY <1>1, <1>9 DEF LoopTop, Miss, NothingFound, EnterSleepRegion, LeaveSleepRegion, Wait,
         Wake, SpuriousWakeup, stopVars
<1>10. CASE SetStopping \/ NotifyAll
  <2>1. /\ UNCHANGED <<queueVars, task>>
        /\ ~Joined /\ ~Joined'
    BY <1>10 DEF SetStopping, NotifyAll, workerVars
  <2> QED BY <2>1, SameQueues
<1>11. CASE UNCHANGED vars
  BY <1>1, <1>11 DEF vars, workerVars, stopVars
<1> HIDE DEF Promise!Next, Promise!vars
<1> QED BY <1>2, <1>3, <1>4, <1>5, <1>6, <1>7, <1>8, <1>9, <1>10, <1>11
         DEF Next, SubmitStep, WorkerStep, StopStep

-----------------------------------------------------------------------------
(* Who is called *)

Seekers == {w \in Workers : Seeking(w)}
Callers == {t \in Threads : Notifying(t) \/ submit[t] = "count"}
Entering == {t \in Threads : submit[t] \in {"count", "section"}}
Submitting == {t \in Threads : submit[t] # "none"}

Covered == Cardinality(Queued) <= Cardinality(Seekers) + Cardinality(Callers)

\* Tasks in sources that w, looking again under the lock, has already passed.
Passed(w) ==
  {x \in Queued : \E t \in Threads :
                    x \in Items(Mine(t)) /\ SourceOf(t) \notin Items(todo[w])}

FiniteInv == IsFiniteSet(Queued) /\ IsFiniteSet(Submitting)

\* Whoever has filled a source that w has passed cannot have gone through the
\* empty critical section, since w holds the lock, nor have read an idle count
\* of zero.
PassedInv ==
  \A w \in Workers : pc[w] = "recheck" => Cardinality(Passed(w)) <= Cardinality(Entering)

CallInv == FiniteInv /\ PassedInv /\ WaitersAreCalled

\* The sets that are counted are finite, so that their sizes compare.
CountsOK ==
  /\ \A w \in Workers : Cardinality(Passed(w)) \in Nat /\ IsFiniteSet(Passed(w))
  /\ Cardinality(Queued) \in Nat
  /\ IsFiniteSet(Callers) /\ Cardinality(Callers) \in Nat
  /\ IsFiniteSet(Entering) /\ Cardinality(Entering) \in Nat
  /\ IsFiniteSet(Seekers) /\ Cardinality(Seekers) \in Nat
  /\ Cardinality(Entering) <= Cardinality(Callers)

\* The sets that are counted are finite, before a step
LEMMA Counts == FiniteInv => CountsOK
<1> SUFFICES ASSUME FiniteInv PROVE CountsOK
  OBVIOUS
<1>1. \A w \in Workers : Passed(w) \in SUBSET Queued
  BY DEF Passed
<1>2. Callers \in SUBSET Submitting /\ Entering \in SUBSET Callers
  BY DEF Callers, Submitting, Entering, Notifying
<1>3. Seekers \in SUBSET Workers
  BY DEF Seekers
<1>4. IsFiniteSet(Callers) /\ IsFiniteSet(Seekers) /\ \A w \in Workers : IsFiniteSet(Passed(w))
  BY <1>1, <1>2, <1>3, Places, FS_Subset DEF FiniteInv
<1>5. IsFiniteSet(Entering) /\ Cardinality(Entering) <= Cardinality(Callers)
  BY <1>2, <1>4, FS_Subset
<1> QED BY <1>4, <1>5, FS_CardinalityType DEF FiniteInv, CountsOK

\* and after it.
LEMMA CountsAfter == FiniteInv' => CountsOK'
BY Counts, PTL

\* A worker that has the lock and will not find a task any more, although tasks
\* are queued: each of them has been submitted since it has looked.
PassedCovers ==
  QueuesTypeOK /\ FiniteInv /\ PassedInv =>
    \A w \in Workers : pc[w] = "recheck" /\ ~Seeking(w) => Covered

\* This is so before a step
LEMMA PassedCover == PassedCovers
<1> SUFFICES ASSUME QueuesTypeOK, FiniteInv, PassedInv,
                    NEW w \in Workers, pc[w] = "recheck", ~Seeking(w)
             PROVE  Covered
  BY DEF PassedCovers
<1>1. ASSUME NEW x \in Queued PROVE x \in Passed(w)
  <2>1. PICK t \in Threads : x \in Items(Mine(t))
    BY QueuedAre
  <2>2. ASSUME SourceOf(t) \in Items(todo[w]) PROVE FALSE
    <3>1. PICK i \in 1..Len(todo[w]) : todo[w][i] = SourceOf(t)
      BY <2>2 DEF Items
    <3>2. EmptySource(SourceOf(t)) /\ SourceOf(t) \in Sources
      BY <3>1, Places DEF Seeking, SourceOf, Threads
    <3>3. Mine(t) = << >>
      BY <3>2, EmptySources
    <3> QED BY <2>1, <3>3 DEF Items
  <2> QED BY <2>1, <2>2 DEF Passed
<1>2. Passed(w) = Queued
  BY <1>1 DEF Passed
<1> QED BY <1>2, Counts DEF PassedInv, Covered, CountsOK

\* and after it.
LEMMA PassedCoverAfter == PassedCovers'
BY PassedCover, PTL

Shrinks == \A t \in Threads : Items(Mine(t)') \subseteq Items(Mine(t))
Pushes(t, x) ==
  /\ x \in arg[t] /\ Adds(t, x)
  /\ submit[t] = "push"
  /\ submit' = [submit EXCEPT ![t] = IF t \in Workers THEN "count" ELSE "section"]
  /\ UNCHANGED <<sleepVars, stopVars, workerVars>>

\* A step adds one task to one queue, or none to any.
LEMMA QueueEffect ==
  ASSUME BaseInv, [Next]_vars
  PROVE  Shrinks \/ \E t \in Threads, x \in Tasks : Pushes(t, x)
<1>0. TypeOK /\ QueuesTypeOK
  BY BaseTypes
<1>1. ASSUME UNCHANGED queueVars PROVE Shrinks
  BY <1>1, SameQueues DEF Shrinks
<1>2. ASSUME NEW t \in Threads, PushLocal(t) \/ PushInjection(t)
      PROVE  Shrinks \/ \E x \in Tasks : Pushes(t, x)
  <2>1. submit[t] = "push" /\ UNCHANGED <<sleepVars, stopVars, workerVars>> /\ arg[t] \subseteq Tasks
    BY <1>0, <1>2 DEF PushLocal, PushInjection, TypeOK
  <2> QED BY <1>0, <1>1, <1>2, <2>1, PushAdds DEF Pushes
<1>3. ASSUME NEW w \in Workers, Find(w) PROVE Shrinks
  <2>1. Head(todo[w]) \in Sources
    BY <1>0, <1>3 DEF Find, TypeOK
  <2>2. PICK x \in Tasks : TakeFrom(w, Head(todo[w]), x)
    BY <1>3 DEF Find
  <2> QED BY <1>0, <2>1, <2>2, TakeRemoves DEF Removes, Without, Shrinks
<1>4. CASE DiscardInjection
  BY <1>0, <1>4, DiscardRemoves DEF Removes, Without, Shrinks
<1>5. CASE DiscardLocal
  <2>1. \A t \in Threads : Mine(t)' = Mine(t) \/ Mine(t)' = << >>
    BY <1>5 DEF DiscardLocal, Mine, Threads
  <2>2. Items(<< >>) = {}
    BY DEF Items
  <2> QED BY <2>1, <2>2 DEF Shrinks
<1>6. ASSUME NEW t \in Threads,
             ReadIdleCount(t) \/ EmptySection(t) \/ NotifyOne(t) \/ \E x \in Tasks : Submit(t, x)
      PROVE  Shrinks
  BY <1>1, <1>6 DEF ReadIdleCount, EmptySection, NotifyOne, Submit
<1>7. ASSUME NEW w \in Workers,
             LoopTop(w) \/ Miss(w) \/ NothingFound(w) \/ EnterSleepRegion(w)
               \/ LeaveSleepRegion(w) \/ Wait(w) \/ Wake(w) \/ FinishTask(w)
               \/ SpuriousWakeup(w)
      PROVE  Shrinks
  BY <1>1, <1>7 DEF LoopTop, Miss, NothingFound, EnterSleepRegion, LeaveSleepRegion, Wait,
         Wake, FinishTask, SpuriousWakeup
<1>8. CASE SetStopping \/ NotifyAll \/ Join \/ UNCHANGED vars
  BY <1>1, <1>8 DEF SetStopping, NotifyAll, Join, vars
<1> QED BY <1>2, <1>3, <1>4, <1>5, <1>6, <1>7, <1>8
         DEF Next, SubmitStep, WorkerStep, StopStep

\* Where queues get shorter, no task becomes queued.
LEMMA ShrinksQueued == ASSUME Shrinks PROVE Queued' \subseteq Queued
BY QueuedAre DEF Shrinks

\* A push adds its task to one queue and to what is queued.
LEMMA PushGrowsQueued ==
  ASSUME TypeOK, NEW t \in Threads, NEW x \in Tasks, Pushes(t, x)
  PROVE  /\ Queued' = Queued \cup {x}
         /\ Items(Mine(t)') = Items(Mine(t)) \cup {x}
         /\ \A u \in Threads \ {t} : Mine(u)' = Mine(u)
<1>1. Mine(t) \in Seq(Tasks)
  BY MineType DEF TypeOK, QueuesTypeOK
<1>2. /\ Items(Mine(t)') = Items(Mine(t)) \cup {x}
      /\ \A u \in Threads \ {t} : Mine(u)' = Mine(u)
  BY <1>1, ItemsOfAppend DEF Pushes, Adds
<1> QED BY <1>2, QueuedAre

\* Every step adds one task and one submission at most.
LEMMA FiniteKept ==
  ASSUME BaseInv, FiniteInv, [Next]_vars
  PROVE  FiniteInv'
<1>0. TypeOK
  BY BaseTypes
<1>1. IsFiniteSet(Queued')
  <2>1. CASE Shrinks
    BY <2>1, ShrinksQueued, FS_Subset DEF FiniteInv
  <2>2. ASSUME NEW t \in Threads, NEW x \in Tasks, Pushes(t, x) PROVE IsFiniteSet(Queued')
    BY <1>0, <2>2, PushGrowsQueued, FS_AddElement DEF FiniteInv
  <2> QED BY <2>1, <2>2, QueueEffect
<1>2. \E t : Submitting' \subseteq Submitting \cup {t}
  <2>1. ASSUME NEW t \in Threads, SubmitStep(t) \/ \E x \in Tasks : Submit(t, x)
        PROVE  Submitting' \subseteq Submitting \cup {t}
    <3>1. submit' = submit \/ \E s \in SubmitPc : submit' = [submit EXCEPT ![t] = s]
      BY <2>1 DEF SubmitStep, PushLocal, PushInjection, ReadIdleCount, EmptySection, NotifyOne,
             Submit, SubmitPc
    <3>2. \A u \in Threads \ {t} : submit'[u] = submit[u]
      BY <1>0, <3>1 DEF TypeOK
    <3> QED BY <3>2 DEF Submitting
  <2>2. ASSUME UNCHANGED submit PROVE Submitting' \subseteq Submitting
    BY <2>2 DEF Submitting
  <2>3. ASSUME NEW w \in Workers, WorkerStep(w) \/ SpuriousWakeup(w) PROVE UNCHANGED submit
    BY <2>3 DEF WorkerStep, LoopTop, Find, Miss, NothingFound, EnterSleepRegion,
           LeaveSleepRegion, Wait, Wake, FinishTask, SpuriousWakeup, submitVars
  <2>4. CASE SetStopping \/ StopStep \/ UNCHANGED vars
    BY <2>2, <2>4 DEF SetStopping, StopStep, NotifyAll, Join, DiscardInjection, DiscardLocal,
           vars, submitVars
  <2> QED BY <2>1, <2>2, <2>3, <2>4 DEF Next
<1>3. IsFiniteSet(Submitting')
  <2>1. PICK t : Submitting' \subseteq Submitting \cup {t}
    BY <1>2
  <2>2. IsFiniteSet(Submitting \cup {t})
    BY FS_AddElement DEF FiniteInv
  <2> QED BY <2>1, <2>2, FS_Subset
<1> QED BY <1>1, <1>3 DEF FiniteInv

\* While a worker holds the lock, a producer that has pushed does not get past
\* the empty critical section, and does not find that nobody is idle.
LEMMA ProducersStay ==
  ASSUME BaseInv, [Next]_vars, NEW w \in Workers, pc[w] = "recheck"
  PROVE  Entering \subseteq Entering'
<1>0. TypeOK /\ RegionInv
  BY BaseTypes DEF BaseInv
<1>1. sleepLock /\ idleCount # 0
  <2>1. w \in Sleepers
    BY DEF Sleepers
  <2>2. Cardinality(Sleepers) # 0
    BY <2>1, SleepersFinite, FS_EmptySet
  <2> QED BY <1>0, <2>2 DEF RegionInv, HoldsLock, IdleCountExact, Sleepers
<1>2. ASSUME UNCHANGED submit PROVE Entering \subseteq Entering'
  BY <1>2 DEF Entering
<1>3. ASSUME NEW t \in Threads, SubmitStep(t) \/ \E x \in Tasks : Submit(t, x)
      PROVE  Entering \subseteq Entering'
  <2>1. \/ submit' = submit
        \/ /\ \E s \in SubmitPc : submit' = [submit EXCEPT ![t] = s]
           /\ submit[t] \notin {"count", "section"} \/ submit'[t] = "section"
    <3>1. CASE \E x \in Tasks : Submit(t, x)
      BY <3>1 DEF Submit, SubmitPc
    <3>2. CASE PushLocal(t) \/ PushInjection(t) \/ NotifyOne(t)
      BY <3>2 DEF PushLocal, PushInjection, NotifyOne, SubmitPc
    <3>3. CASE ReadIdleCount(t)
      BY <1>0, <1>1, <3>3 DEF ReadIdleCount, NobodyIdle, SubmitPc, TypeOK
    <3>4. CASE EmptySection(t)
      BY <1>1, <3>4 DEF EmptySection, SectionCanRun
    <3> QED BY <1>3, <3>1, <3>2, <3>3, <3>4 DEF SubmitStep
  <2> QED BY <1>0, <2>1 DEF Entering, TypeOK
<1>4. ASSUME NEW v \in Workers, WorkerStep(v) \/ SpuriousWakeup(v) PROVE UNCHANGED submit
  BY <1>4 DEF WorkerStep, LoopTop, Find, Miss, NothingFound, EnterSleepRegion,
         LeaveSleepRegion, Wait, Wake, FinishTask, SpuriousWakeup, submitVars
<1>5. CASE SetStopping \/ StopStep \/ UNCHANGED vars
  BY <1>2, <1>5 DEF SetStopping, StopStep, NotifyAll, Join, DiscardInjection, DiscardLocal,
         vars, submitVars
<1> QED BY <1>2, <1>3, <1>4, <1>5 DEF Next

\* Every step keeps the bound on what is in the sources that a worker has passed.
LEMMA PassedKept ==
  ASSUME BaseInv, FiniteInv, PassedInv, [Next]_vars
  PROVE  PassedInv'
<1>0. TypeOK /\ FiniteInv' /\ CountsOK /\ CountsOK'
  BY BaseTypes, FiniteKept, Counts, CountsAfter
<1>1. ASSUME NEW t \in Threads, NEW x \in Tasks, Pushes(t, x),
             NEW w \in Workers, pc'[w] = "recheck"
      PROVE  Cardinality(Passed(w)') <= Cardinality(Entering')
  <2>1. pc[w] = "recheck" /\ todo' = todo
    BY <1>1 DEF Pushes, workerVars
  <2>2. Passed(w)' \subseteq Passed(w) \cup {x}
    <3>1. ASSUME NEW y \in Queued', NEW u \in Threads, y \in Items(Mine(u)'), y # x,
                 SourceOf(u) \notin Items(todo[w])
          PROVE  y \in Queued /\ y \in Items(Mine(u))
      BY <1>0, <1>1, <3>1, PushGrowsQueued
    <3>2. todo'[w] = todo[w]
      BY <2>1
    <3> QED BY <3>1, <3>2 DEF Passed, Items, SourceOf
  <2>3. Entering' = Entering \cup {t} /\ t \notin Entering
    BY <1>0, <1>1 DEF Pushes, Entering, TypeOK
  <2>4. Cardinality(Entering') = Cardinality(Entering) + 1
    BY <1>0, <2>3, FS_AddElement DEF CountsOK
  <2>5. /\ IsFiniteSet(Passed(w) \cup {x})
        /\ Cardinality(Passed(w) \cup {x}) <= Cardinality(Passed(w)) + 1
    <3> DEFINE P == Passed(w)
    <3>1. IsFiniteSet(P) /\ Cardinality(P) \in Nat
      BY <1>0 DEF CountsOK
    <3> HIDE DEF P
    <3>2. /\ IsFiniteSet(P \cup {x})
          /\ Cardinality(P \cup {x}) = IF x \in P THEN Cardinality(P) ELSE Cardinality(P) + 1
      BY <3>1, FS_AddElement
    <3>3. Cardinality(P \cup {x}) <= Cardinality(P) + 1
      BY <3>1, <3>2
    <3> QED BY <3>2, <3>3 DEF P
  <2>6. Cardinality(Passed(w)') <= Cardinality(Passed(w) \cup {x})
    BY <2>2, <2>5, FS_Subset
  <2>7. Cardinality(Passed(w) \cup {x}) \in Nat
    BY <2>5, FS_CardinalityType
  <2>8. Cardinality(Passed(w)) <= Cardinality(Entering)
    BY <2>1 DEF PassedInv
  <2> QED BY <1>0, <2>4, <2>5, <2>6, <2>7, <2>8 DEF CountsOK
\* The worker has passed no source that it had not passed before, or an empty one.
<1>2. ASSUME Shrinks, NEW w \in Workers, pc[w] = "recheck", pc'[w] = "recheck",
             \A t \in Threads : SourceOf(t) \in Items(todo[w]) =>
               SourceOf(t) \in Items(todo'[w]) \/ Mine(t) = << >>
      PROVE  Cardinality(Passed(w)') <= Cardinality(Entering')
  <2>1. Passed(w)' \subseteq Passed(w)
    <3>1. ASSUME NEW x \in Queued', NEW t \in Threads,
                 x \in Items(Mine(t)'), SourceOf(t) \notin Items(todo'[w])
          PROVE  x \in Queued /\ x \in Items(Mine(t)) /\ SourceOf(t) \notin Items(todo[w])
      <4>1. x \in Items(Mine(t)) /\ x \in Queued
        BY <1>2, <3>1, QueuedAre DEF Shrinks
      <4>2. Mine(t) # << >>
        BY <4>1 DEF Items
      <4> QED BY <1>2, <3>1, <4>1, <4>2
    <3> QED BY <3>1 DEF Passed, Items, SourceOf
  <2>2. Cardinality(Passed(w)') <= Cardinality(Passed(w))
    BY <1>0, <2>1, FS_Subset DEF CountsOK
  <2>3. Cardinality(Entering) <= Cardinality(Entering')
    BY <1>0, <1>2, ProducersStay, FS_Subset DEF CountsOK
  <2>4. Cardinality(Passed(w)) <= Cardinality(Entering)
    BY <1>2 DEF PassedInv
  <2> QED BY <1>0, <2>2, <2>3, <2>4 DEF CountsOK
<1>3. ASSUME Shrinks, NEW w \in Workers, pc'[w] = "recheck", pc[w] # "recheck"
      PROVE  Cardinality(Passed(w)') <= Cardinality(Entering')
  <2>1. EnterSleepRegion(w)
    <3>1. ASSUME NEW v \in Workers, WorkerStep(v) \/ SpuriousWakeup(v) PROVE EnterSleepRegion(w)
      <4>1. pc'[v] # "recheck" \/ pc[v] = "recheck" \/ EnterSleepRegion(v)
        BY <1>0, <3>1 DEF WorkerStep, LoopTop, Find, Miss, NothingFound,
               LeaveSleepRegion, Wait, Wake, FinishTask, SpuriousWakeup, TypeOK
      <4>2. \A u \in Workers \ {v} : pc'[u] = pc[u]
        BY <1>0, <3>1 DEF WorkerStep, LoopTop, Find, Miss, NothingFound, EnterSleepRegion,
               LeaveSleepRegion, Wait, Wake, FinishTask, SpuriousWakeup, TypeOK
      <4> QED BY <1>3, <4>1, <4>2
    <3>2. ASSUME NEW t \in Threads, SubmitStep(t) \/ \E x \in Tasks : Submit(t, x) PROVE FALSE
      <4>1. pc'[w] = pc[w] \/ pc'[w] = "signalled"
        BY <1>0, <3>2 DEF SubmitStep, Submit, PushLocal, PushInjection, ReadIdleCount, EmptySection,
               NotifyOne, workerVars, TypeOK
      <4> QED BY <1>3, <4>1
    <3>3. CASE SetStopping \/ StopStep \/ UNCHANGED vars
      <4>1. pc'[w] = pc[w] \/ pc'[w] = "signalled"
        BY <3>3 DEF SetStopping, StopStep, NotifyAll, Join, DiscardInjection, DiscardLocal,
               vars, workerVars
      <4> QED BY <1>3, <4>1
    <3> QED BY <3>1, <3>2, <3>3 DEF Next
  <2>2. todo'[w] = AcquireOrder(w)
    BY <1>0, <1>3, <2>1 DEF EnterSleepRegion, TypeOK
  <2>3. \A t \in Threads : SourceOf(t) \in Items(todo'[w])
    BY <2>2, AcquireOrderIs, Places DEF SourceOf, Threads
  <2>4. Passed(w)' = {}
    BY <2>3 DEF Passed, Items, SourceOf
  <2> QED BY <1>0, <2>4, FS_EmptySet DEF CountsOK
<1>4. ASSUME NEW w \in Workers, pc[w] = "recheck", pc'[w] = "recheck"
      PROVE  \A t \in Threads : SourceOf(t) \in Items(todo[w]) =>
               SourceOf(t) \in Items(todo'[w]) \/ Mine(t) = << >>
  <2>1. CASE Miss(w)
    <3>1. /\ todo'[w] = Tail(todo[w]) /\ todo[w] # << >> /\ todo[w] \in Seq(Sources)
          /\ EmptySource(Head(todo[w])) /\ Head(todo[w]) \in Sources
      BY <1>0, <2>1 DEF Miss, TypeOK
    <3>2. Items(todo[w]) = Items(Tail(todo[w])) \cup {Head(todo[w])}
      BY <3>1, ItemsOfRest
    <3>3. \A t \in Threads : SourceOf(t) = Head(todo[w]) => Mine(t) = << >>
      BY <1>0, <3>1, EmptySources, BaseTypes
    <3> QED BY <3>1, <3>2, <3>3
  <2>2. CASE ~Miss(w)
    <3>1. todo'[w] = todo[w]
      <4>1. ASSUME NEW v \in Workers, WorkerStep(v) \/ SpuriousWakeup(v) PROVE todo'[w] = todo[w]
        <5>1. CASE v = w
          BY <1>0, <1>4, <2>2, <4>1, <5>1 DEF WorkerStep, LoopTop, Find, NothingFound,
                 EnterSleepRegion, LeaveSleepRegion, Wait, Wake, FinishTask, SpuriousWakeup, TypeOK
        <5>2. CASE v # w
          BY <1>0, <4>1, <5>2 DEF WorkerStep, LoopTop, Find, Miss, NothingFound,
                 EnterSleepRegion, LeaveSleepRegion, Wait, Wake, FinishTask, SpuriousWakeup, TypeOK
        <5> QED BY <5>1, <5>2
      <4>2. ASSUME NEW t \in Threads, SubmitStep(t) \/ \E x \in Tasks : Submit(t, x)
            PROVE  todo' = todo
        BY <4>2 DEF SubmitStep, Submit, PushLocal, PushInjection, ReadIdleCount, EmptySection,
               NotifyOne, workerVars
      <4>3. CASE SetStopping \/ StopStep \/ UNCHANGED vars
        BY <4>3 DEF SetStopping, StopStep, NotifyAll, Join, DiscardInjection, DiscardLocal,
               vars, workerVars
      <4> QED BY <4>1, <4>2, <4>3 DEF Next
    <3> QED BY <3>1
  <2> QED BY <2>1, <2>2
<1>5. CASE Shrinks
  BY <1>2, <1>3, <1>4, <1>5 DEF PassedInv
<1>6. CASE \E t \in Threads, x \in Tasks : Pushes(t, x)
  BY <1>1, <1>6 DEF PassedInv
<1> QED BY <1>5, <1>6, QueueEffect

\* Workers that look, or hold the lock to look again.
Looking == {w \in Workers : pc[w] \in {"top", "scan", "lock", "signalled", "recheck"}}

\* Nothing more to do, and nobody lost who does it.
LEMMA StillCovered ==
  ASSUME CountsOK, CountsOK', IsFiniteSet(Queued), Covered,
         Queued' \subseteq Queued, Seekers \subseteq Seekers', Callers \subseteq Callers'
  PROVE  Covered'
<1>1. /\ Cardinality(Queued') <= Cardinality(Queued)
      /\ Cardinality(Seekers) <= Cardinality(Seekers')
      /\ Cardinality(Callers) <= Cardinality(Callers')
  BY FS_Subset DEF CountsOK
<1> QED BY <1>1 DEF CountsOK, Covered

\* Every step leaves enough workers about to look and threads about to notify.
LEMMA CalledKept ==
  ASSUME BaseInv, QueueInv, CallInv, [Next]_vars
  PROVE  WaitersAreCalled'
<1>0. /\ TypeOK /\ QueuesTypeOK /\ RegionInv /\ PhaseInv /\ SubmitInv
      /\ QueuesTypeOK' /\ PhaseInv'
      /\ FiniteInv /\ FiniteInv' /\ PassedInv /\ PassedInv'
      /\ CountsOK /\ CountsOK'
  BY BaseTypes, BaseKept, FiniteKept, PassedKept, Counts, CountsAfter
  DEF BaseInv, CallInv, TypeOK, QueuesTypeOK
\* A worker that looks again in vain has passed every queued task.
<1>1. ASSUME NEW w \in Workers, pc'[w] = "recheck", ~Seeking(w)' PROVE Covered'
  BY <1>0, <1>1, PassedCoverAfter DEF PassedCovers
<1>2. SUFFICES ASSUME Waiting' # {}, ~stopping',
                      \A w \in Workers : pc'[w] = "recheck" => Seeking(w)'
               PROVE  Covered'
  BY <1>1 DEF WaitersAreCalled, Covered, Seekers, Callers
<1>3. Seekers' = Looking' /\ Seekers \subseteq Looking
  BY <1>2 DEF Seekers, Looking, Seeking
<1>4. ASSUME Waiting # {}, ~stopping PROVE Covered
  BY <1>4 DEF CallInv, WaitersAreCalled, Covered, Seekers, Callers
<1>5. ASSUME Covered, Queued' \subseteq Queued, Looking \subseteq Looking',
             Callers \subseteq Callers'
      PROVE  Covered'
  BY <1>0, <1>3, <1>5, StillCovered DEF FiniteInv
<1>6. ASSUME UNCHANGED queueVars PROVE Queued' = Queued
  BY <1>6, SameQueues
\* Steps of a thread in Submit.
<1>7. ASSUME NEW t \in Threads, NEW x \in Tasks, Submit(t, x) PROVE Covered'
  <2>1. Queued' = Queued /\ Looking' = Looking /\ Waiting' = Waiting /\ stopping' = stopping
    BY <1>6, <1>7 DEF Submit, workerVars, stopVars, Looking, Waiting
  <2>2. submit[t] = "none" /\ \A u \in Threads \ {t} : submit'[u] = submit[u]
    BY <1>0, <1>7 DEF Submit, TypeOK
  <2>3. Callers \subseteq Callers'
    BY <2>2 DEF Callers, Notifying
  <2> QED BY <1>2, <1>4, <1>5, <2>1, <2>3
<1>8. ASSUME NEW t \in Threads, PushLocal(t) \/ PushInjection(t) PROVE Covered'
  <2>1. /\ submit[t] = "push" /\ Looking' = Looking /\ Waiting' = Waiting /\ stopping' = stopping
        /\ \A u \in Threads \ {t} : submit'[u] = submit[u]
    BY <1>0, <1>8 DEF PushLocal, PushInjection, workerVars, stopVars, Looking, Waiting, TypeOK
  <2>2. Covered
    BY <1>2, <1>4, <2>1
  <2>3. Callers \subseteq Callers' /\ t \notin Callers
    BY <2>1 DEF Callers, Notifying
  <2>4. CASE UNCHANGED queueVars
    BY <1>5, <1>6, <2>1, <2>2, <2>3, <2>4
  <2>5. ASSUME NEW x \in arg[t], Adds(t, x),
               submit' = [submit EXCEPT ![t] = IF t \in Workers THEN "count" ELSE "section"]
        PROVE  Covered'
    <3>1. Queued' = Queued \cup {x} /\ x \notin Queued
      <4>1. arg' = [arg EXCEPT ![t] = {}] /\ UNCHANGED submitted
        BY <1>8 DEF PushLocal, PushInjection
      <4> QED BY <1>0, <2>5, <4>1, AddsOne
    <3>2. Callers \cup {t} \subseteq Callers'
      BY <1>0, <2>3, <2>5 DEF Callers, Notifying, TypeOK
    <3>3. Cardinality(Queued') = Cardinality(Queued) + 1
      BY <1>0, <3>1, FS_AddElement DEF FiniteInv
    <3>4. Cardinality(Callers) + 1 <= Cardinality(Callers')
      <4>1. Cardinality(Callers \cup {t}) = Cardinality(Callers) + 1
        BY <1>0, <2>3, FS_AddElement DEF CountsOK
      <4>2. Cardinality(Callers \cup {t}) <= Cardinality(Callers')
        BY <1>0, <3>2, FS_Subset DEF CountsOK
      <4> QED BY <4>1, <4>2
    <3>5. Cardinality(Seekers) <= Cardinality(Seekers')
      BY <1>0, <1>3, <2>1, FS_Subset DEF CountsOK
    <3> QED BY <1>0, <2>2, <3>3, <3>4, <3>5 DEF Covered, CountsOK
  <2>6. arg[t] \subseteq Tasks
    BY <1>0 DEF TypeOK
  <2> QED BY <1>0, <1>8, <2>4, <2>5, <2>6, PushAdds
<1>9. ASSUME NEW t \in Threads, ReadIdleCount(t) PROVE Covered'
  <2>1. Queued' = Queued /\ Looking' = Looking /\ Waiting' = Waiting /\ stopping' = stopping
    BY <1>6, <1>9 DEF ReadIdleCount, workerVars, stopVars, Looking, Waiting
  <2>2. idleCount # 0
    <3>1. Sleepers # {}
      BY <1>2, <2>1 DEF Waiting, Sleepers
    <3>2. Cardinality(Sleepers) # 0
      BY <3>1, SleepersFinite, FS_EmptySet
    <3> QED BY <1>0, <3>2 DEF RegionInv, IdleCountExact, Sleepers
  <2>3. submit' = [submit EXCEPT ![t] = "section"]
    BY <1>9, <2>2 DEF ReadIdleCount, NobodyIdle
  <2>4. Callers \subseteq Callers'
    BY <1>0, <2>3 DEF Callers, Notifying, TypeOK
  <2> QED BY <1>2, <1>4, <1>5, <2>1, <2>4
<1>10. ASSUME NEW t \in Threads, EmptySection(t) PROVE Covered'
  <2>1. Queued' = Queued /\ Looking' = Looking /\ Waiting' = Waiting /\ stopping' = stopping
    BY <1>6, <1>10 DEF EmptySection, workerVars, stopVars, Looking, Waiting
  <2>2. Callers \subseteq Callers'
    BY <1>0, <1>10 DEF EmptySection, Callers, Notifying, TypeOK
  <2> QED BY <1>2, <1>4, <1>5, <2>1, <2>2
<1>11. ASSUME NEW t \in Threads, NotifyOne(t) PROVE Covered'
  <2>1. Queued' = Queued /\ stopping' = stopping
    BY <1>6, <1>11 DEF NotifyOne, stopVars
  <2>2. PICK w \in Waiting : pc' = [pc EXCEPT ![w] = "signalled"]
    <3>1. CASE Waiting = {} /\ UNCHANGED pc
      BY <1>2, <3>1 DEF Waiting
    <3> QED BY <1>11, <3>1 DEF NotifyOne
  <2>3. Covered
    BY <1>2, <1>4, <2>1, <2>2
  <2>4. Seekers \cup {w} \subseteq Seekers' /\ w \notin Seekers
    <3>1. w \in Workers /\ pc[w] = "waiting" /\ w \notin Looking
      BY <2>2 DEF Waiting, Looking
    <3>2. Looking \cup {w} \subseteq Looking'
      BY <1>0, <2>2, <3>1 DEF Looking, TypeOK
    <3> QED BY <1>3, <3>1, <3>2
  <2>5. Cardinality(Seekers) + 1 <= Cardinality(Seekers')
    <3>1. Cardinality(Seekers \cup {w}) = Cardinality(Seekers) + 1
      BY <1>0, <2>4, FS_AddElement DEF CountsOK
    <3>2. Cardinality(Seekers \cup {w}) <= Cardinality(Seekers')
      BY <1>0, <2>4, FS_Subset DEF CountsOK
    <3> QED BY <3>1, <3>2
  <2>6. t \in Callers /\ Callers' = Callers \ {t}
    BY <1>0, <1>11 DEF NotifyOne, Callers, Notifying, TypeOK
  <2>7. Cardinality(Callers') = Cardinality(Callers) - 1
    BY <1>0, <2>6, FS_RemoveElement DEF CountsOK
  <2> QED BY <1>0, <2>1, <2>3, <2>5, <2>7 DEF Covered, CountsOK
\* Steps of a worker.
<1>12. ASSUME NEW w \in Workers, Find(w) PROVE Covered'
  <2>1. Callers' = Callers /\ stopping' = stopping
    BY <1>12 DEF Find, submitVars, stopVars, Callers, Notifying
  <2>2. pc[w] \in {"scan", "recheck"} /\ \A v \in Workers \ {w} : pc'[v] = pc[v]
    BY <1>0, <1>12 DEF Find, TypeOK
  <2>3. Covered
    <3>1. pc'[w] # "waiting"
      BY <1>0, <1>12 DEF Find, TypeOK
    <3>2. Waiting' \subseteq Waiting
      BY <2>2, <3>1 DEF Waiting
    <3> QED BY <1>2, <1>4, <2>1, <3>2
  <2>4. Cardinality(Queued') = Cardinality(Queued) - 1
    <3>1. Head(todo[w]) \in Sources
      BY <1>0, <1>12 DEF Find, TypeOK
    <3>2. PICK x \in Tasks : TakeFrom(w, Head(todo[w]), x)
      BY <1>12 DEF Find
    <3>3. PICK t \in Threads : Removes(t, x)
      BY <1>0, <3>1, <3>2, TakeRemoves
    <3>4. UNCHANGED <<arg, submitted>>
      BY <1>12 DEF Find, submitVars
    <3>5. Queued' = Queued \ {x} /\ x \in Queued
      BY <3>3, <3>4, RemovesOne DEF CallInv
    <3> QED BY <1>0, <3>5, FS_RemoveElement DEF FiniteInv
  <2>5. Cardinality(Seekers) <= Cardinality(Seekers') + 1
    <3>1. Seekers \subseteq Seekers' \cup {w}
      BY <1>3, <2>2 DEF Looking
    <3> DEFINE S == Seekers'
    <3>2. IsFiniteSet(S) /\ Cardinality(S) \in Nat
      BY <1>0 DEF CountsOK
    <3> HIDE DEF S
    <3>3. /\ IsFiniteSet(S \cup {w})
          /\ Cardinality(S \cup {w}) = IF w \in S THEN Cardinality(S) ELSE Cardinality(S) + 1
      BY <3>2, FS_AddElement
    <3>4. Cardinality(S \cup {w}) <= Cardinality(S) + 1
      BY <3>2, <3>3
    <3>5. Cardinality(Seekers) <= Cardinality(S \cup {w})
      BY <3>1, <3>3, FS_Subset DEF S
    <3>6. Cardinality(S \cup {w}) \in Nat /\ Cardinality(Seekers) \in Nat
      BY <1>0, <3>3, FS_CardinalityType DEF CountsOK
    <3> QED BY <3>2, <3>4, <3>5, <3>6 DEF S
  <2> QED BY <1>0, <2>1, <2>3, <2>4, <2>5 DEF Covered, CountsOK
<1>13. ASSUME NEW w \in Workers, UNCHANGED <<queueVars, submit, stopping>>,
              Waiting' \subseteq Waiting, Looking \subseteq Looking'
       PROVE  Covered'
  <2>1. Callers' = Callers
    BY <1>13 DEF Callers, Notifying
  <2> QED BY <1>2, <1>4, <1>5, <1>6, <1>13, <2>1
<1>14. ASSUME NEW w \in Workers, LoopTop(w) PROVE Covered'
  <2>1. UNCHANGED <<queueVars, submit, stopping>> /\ ~stopping
    BY <1>2, <1>14 DEF LoopTop, submitVars, stopVars
  <2>2. pc[w] = "top" /\ pc' = [pc EXCEPT ![w] = "scan"]
    BY <1>14, <2>1 DEF LoopTop
  <2>3. Waiting' \subseteq Waiting /\ Looking \subseteq Looking'
    BY <1>0, <2>2 DEF Waiting, Looking, TypeOK
  <2> QED BY <1>13, <2>1, <2>3
<1>15. ASSUME NEW w \in Workers, Miss(w) PROVE Covered'
  BY <1>13, <1>15 DEF Miss, submitVars, stopVars, Waiting, Looking
<1>16. ASSUME NEW w \in Workers,
              NothingFound(w) \/ LeaveSleepRegion(w) \/ Wake(w) \/ FinishTask(w)
                \/ SpuriousWakeup(w)
       PROVE  Covered'
  <2>1. UNCHANGED <<queueVars, submit, stopping>>
    BY <1>16 DEF NothingFound, LeaveSleepRegion, Wake, FinishTask, SpuriousWakeup, submitVars,
           stopVars
  <2>2. \E p \in {"lock", "run", "top", "signalled"} :
          /\ pc' = [pc EXCEPT ![w] = p]
          /\ p = "run" => pc[w] = "leave"
    BY <1>16 DEF NothingFound, LeaveSleepRegion, Wake, FinishTask, SpuriousWakeup
  <2>3. Waiting' \subseteq Waiting /\ Looking \subseteq Looking'
    BY <1>0, <2>2 DEF Waiting, Looking, TypeOK
  <2> QED BY <1>13, <2>1, <2>3
<1>17. ASSUME NEW w \in Workers, EnterSleepRegion(w) PROVE Covered'
  <2>1. UNCHANGED <<queueVars, submit, stopping>> /\ ~stopping
    BY <1>2, <1>17 DEF EnterSleepRegion, submitVars, stopVars
  <2>2. pc[w] = "lock" /\ pc' = [pc EXCEPT ![w] = "recheck"]
    BY <1>17, <2>1 DEF EnterSleepRegion
  <2>3. Waiting' \subseteq Waiting /\ Looking \subseteq Looking'
    BY <1>0, <2>2 DEF Waiting, Looking, TypeOK
  <2> QED BY <1>13, <2>1, <2>3
<1>18. ASSUME NEW w \in Workers, Wait(w) PROVE Covered'
  <2>1. /\ UNCHANGED <<queueVars, submit>>
        /\ pc[w] = "recheck" /\ todo[w] = << >>
        /\ pc' = [pc EXCEPT ![w] = "waiting"]
    BY <1>18 DEF Wait, submitVars
  <2>2. ~Seeking(w)
    BY <2>1 DEF Seeking
  <2>3. Covered
    BY <1>0, <2>1, <2>2, PassedCover DEF PassedCovers
  <2>4. Seekers \subseteq Seekers'
    BY <1>0, <1>3, <2>1, <2>2 DEF Seekers, Looking, TypeOK
  <2>5. Callers' = Callers /\ Queued' = Queued
    BY <1>6, <2>1 DEF Callers, Notifying
  <2> QED BY <1>0, <2>3, <2>4, <2>5, StillCovered DEF FiniteInv
\* The stop calls everybody.
<1>19. CASE SetStopping \/ StopStep
  <2>1. stopping'
    BY <1>0, <1>19 DEF SetStopping, StopStep, NotifyAll, Join, DiscardInjection, DiscardLocal,
           PhaseInv, stopVars
  <2> QED BY <1>2, <2>1
<1>20. CASE UNCHANGED vars
  <2>1. UNCHANGED <<queueVars, submit, pc, stopping>>
    BY <1>20 DEF vars, workerVars, submitVars, stopVars
  <2>2. Callers' = Callers /\ Looking' = Looking /\ Waiting' = Waiting /\ Queued' = Queued
    BY <1>6, <2>1 DEF Callers, Notifying, Looking, Waiting
  <2> QED BY <1>2, <1>4, <1>5, <2>1, <2>2
<1> QED BY <1>7, <1>8, <1>9, <1>10, <1>11, <1>12, <1>14, <1>15, <1>16, <1>17, <1>18, <1>19, <1>20
         DEF Next, SubmitStep, WorkerStep

-----------------------------------------------------------------------------
(* The theorems *)

IInv == BaseInv /\ LookInv /\ QueueInv /\ TakenInv /\ CallInv

\* The inductive invariant holds initially.
LEMMA InitIInv ==
  ASSUME Init
  PROVE  IInv
<1>1. /\ \A c \in Clients : injection[c] = << >>
      /\ \A w \in Workers : local[w] = << >> /\ pc[w] = "top" /\ task[w] = {}
      /\ \A t \in Threads : submit[t] = "none" /\ arg[t] = {}
  BY DEF Init
<1>2. \A t \in Threads : Mine(t) = << >>
  BY <1>1 DEF Mine, Threads
<1>3. Items(<< >>) = {} /\ Distinct(<< >>)
  BY DEF Items, Distinct
<1>4. Queued = {}
  BY <1>2, <1>3, QueuedAre
<1>5. TypeOK
  <2>1. 0 \in 0..(PollInterval - 1)
    BY PollAssumption
  <2>2. /\ << >> \in Seq(Tasks) /\ << >> \in Seq(Sources)
        /\ {} \in SUBSET Tasks
    OBVIOUS
  <2> QED BY <2>1, <2>2 DEF Init, TypeOK, WorkerPc, SubmitPc, StopPhase
<1>6. RegionInv
  <2>1. Sleepers = {}
    BY <1>1 DEF Sleepers
  <2>2. IdleCountExact
    BY <2>1, FS_EmptySet DEF Init, IdleCountExact, Sleepers
  <2> QED BY <1>1, <2>2 DEF RegionInv, HoldsLock
<1>7. SubmitInv
  BY <1>1 DEF SubmitInv, Threads
<1>8. PhaseInv
  BY <1>1 DEF Init, PhaseInv
<1>9. LookInv
  <2>1. 0 \in Workers
    BY WorkerCountAssumption DEF Workers
  <2> QED BY <1>1, <2>1 DEF LookInv, NoLostWakeup
<1>10. QueueInv
  BY <1>1, <1>2, <1>3, <1>4 DEF QueueInv
<1>11. TakenInv
  BY <1>1 DEF TakenInv
<1>12. CallInv
  <2>1. Submitting = {} /\ Waiting = {}
    BY <1>1 DEF Submitting, Waiting
  <2> QED BY <1>1, <1>4, <2>1, FS_EmptySet DEF CallInv, FiniteInv, PassedInv, WaitersAreCalled
<1> QED BY <1>5, <1>6, <1>7, <1>8, <1>9, <1>10, <1>11, <1>12 DEF IInv, BaseInv

\* Every step preserves the inductive invariant.
LEMMA NextIInv ==
  ASSUME IInv, [Next]_vars
  PROVE  IInv'
<1>1. BaseInv /\ LookInv /\ QueueInv /\ TakenInv /\ CallInv
  BY DEF IInv
<1>2. CallInv'
  BY <1>1, FiniteKept, PassedKept, CalledKept DEF CallInv
<1> QED BY <1>1, <1>2, BaseKept, LookKept, QueueKept, TakenKept DEF IInv

\* The inductive invariant holds throughout.
THEOREM Invariance == Spec => []IInv
BY InitIInv, NextIInv, PTL DEF Spec

\* Every variable of the pool keeps its type; the idle count never goes below
\* zero, and a worker looks only where there is a queue.
THEOREM TypeCorrect == Spec => []TypeOK
<1>1. IInv => TypeOK
  BY DEF IInv, BaseInv
<1> QED BY <1>1, Invariance, PTL

\* _idleCount is the number of workers inside the sleep region.
THEOREM IdleCountExactHolds == Spec => []IdleCountExact
<1>1. IInv => IdleCountExact
  BY DEF IInv, BaseInv, RegionInv
<1> QED BY <1>1, Invariance, PTL

\* No worker waits beside a task in its own deque, and not all wait beside a
\* task in the injection queue unless a client is about to notify: the second
\* look under _sleepLock and the empty critical section of Submit suffice for
\* any number of workers.
THEOREM NoLostWakeupHolds == Spec => []NoLostWakeup
<1>1. IInv => NoLostWakeup
  BY DEF IInv, LookInv
<1> QED BY <1>1, Invariance, PTL

\* Beside a waiting worker there is for every queued task a worker about to look
\* or a thread about to notify, so that Submit may skip the notification when it
\* reads an idle count of zero.
THEOREM WaitersAreCalledHolds == Spec => []WaitersAreCalled
<1>1. IInv => WaitersAreCalled
  BY DEF IInv, CallInv
<1> QED BY <1>1, Invariance, PTL

\* The pool implements TaskPool: a task that was taken is started by one worker,
\* once, or dropped after all workers have left, and none is started then.
THEOREM Implementation == Spec => ImplementsTaskPool
<1>1. Init => Promise!Init
  <2> SUFFICES ASSUME Init PROVE Promise!Init
    OBVIOUS
  <2>1. \A t \in Threads : Mine(t) = << >>
    BY DEF Init, Mine, Threads
  <2>2. Items(<< >>) = {}
    BY DEF Items
  <2>3. Queued = {}
    BY <2>1, <2>2, QueuedAre
  <2> QED BY <2>3 DEF Init, Promise!Init
<1>2. IInv /\ [Next]_vars => [Promise!Next]_(Promise!vars)
  BY StepsKeepThePromise DEF IInv
<1> QED BY <1>1, <1>2, Invariance, PTL DEF Spec, ImplementsTaskPool, Promise!Spec
=============================================================================
