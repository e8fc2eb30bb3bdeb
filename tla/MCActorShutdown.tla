-------------------------- MODULE MCActorShutdown --------------------------
(* Small instances of ActorShutdown for TLC. *)
EXTENDS ActorShutdown
=============================================================================
