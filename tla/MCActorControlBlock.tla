------------------------ MODULE MCActorControlBlock ------------------------
(* Small instances of ActorControlBlock for TLC. *)
EXTENDS ActorControlBlock
=============================================================================
