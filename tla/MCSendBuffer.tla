---------------------------- MODULE MCSendBuffer ----------------------------
(* Small instances of SendBuffer for TLC. *)
EXTENDS SendBuffer, TLC

\* Threads, chunks and slots are interchangeable.
Symmetry == Permutations(Threads) \cup Permutations(Chunks) \cup Permutations(Slots)
=============================================================================
