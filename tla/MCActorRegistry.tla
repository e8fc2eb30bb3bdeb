-------------------------- MODULE MCActorRegistry --------------------------
(* Small instances of ActorRegistry for TLC. *)
EXTENDS ActorRegistry
=============================================================================
