---------------------------- MODULE MCWorkerPool ----------------------------
(* Small instances of WorkerPool for TLC. *)
EXTENDS WorkerPool, TLC

\* Tasks and clients are interchangeable; workers are not (stealing goes in
\* index order).  Only for runs without liveness.
Symmetry == Permutations(Tasks) \cup Permutations(Clients)
=============================================================================
