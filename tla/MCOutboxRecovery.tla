------------------------- MODULE MCOutboxRecovery -------------------------
(***************************************************************************)
(* OutboxRecovery for TLC.  Every run checks liveness, so the processes,   *)
(* though interchangeable, are not declared symmetric; CONSTANTS are all   *)
(* set in the configurations.                                              *)
(***************************************************************************)
EXTENDS OutboxRecovery
=============================================================================
