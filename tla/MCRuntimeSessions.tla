------------------------- MODULE MCRuntimeSessions -------------------------
(* Small instances of RuntimeSessions for TLC. *)
EXTENDS RuntimeSessions
=============================================================================
