------------------------- MODULE MCRuntimeLifetime -------------------------
(* Small instances of RuntimeLifetime for TLC: workers are numbers, the     *)
(* threads of the user model values.                                        *)
EXTENDS RuntimeLifetime
=============================================================================
