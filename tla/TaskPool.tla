------------------------------ MODULE TaskPool ------------------------------
(***************************************************************************)
(* What the worker pool promises to whoever submits a task to it: a task   *)
(* that has been taken is started by one worker, once, or dropped after    *)
(* every worker has left; nothing is started after that.  There are no     *)
(* queues, locks or sleeping workers here.                                 *)
(*                                                                         *)
(* WorkerPool implements this specification.                               *)
(***************************************************************************)
CONSTANTS Tasks, Workers

VARIABLES pending,    \* taken, and neither started nor dropped
          running,    \* the task each worker executes, as a set
          joined      \* every worker has left

vars == <<pending, running, joined>>

Init ==
  /\ pending = {}
  /\ running = [w \in Workers |-> {}]
  /\ joined = FALSE

\* A task may be taken again while an earlier run of it is still under way,
\* but not while it is already waiting.
Take(x) ==
  /\ x \notin pending
  /\ pending' = pending \cup {x}
  /\ UNCHANGED <<running, joined>>

Start(w, x) ==
  /\ ~joined
  /\ running[w] = {}
  /\ x \in pending
  /\ pending' = pending \ {x}
  /\ running' = [running EXCEPT ![w] = {x}]
  /\ UNCHANGED joined

Finish(w) ==
  /\ running[w] # {}
  /\ running' = [running EXCEPT ![w] = {}]
  /\ UNCHANGED <<pending, joined>>

Join ==
  /\ ~joined
  /\ \A w \in Workers : running[w] = {}
  /\ joined' = TRUE
  /\ UNCHANGED <<pending, running>>

Drop ==
  /\ joined
  /\ \E some \in SUBSET pending : pending' = pending \ some
  /\ UNCHANGED <<running, joined>>

Next ==
  \/ \E x \in Tasks : Take(x)
  \/ \E w \in Workers, x \in Tasks : Start(w, x)
  \/ \E w \in Workers : Finish(w)
  \/ Join
  \/ Drop

Spec == Init /\ [][Next]_vars
=============================================================================
