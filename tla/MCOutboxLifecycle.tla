------------------------ MODULE MCOutboxLifecycle ------------------------
(***************************************************************************)
(* OutboxLifecycle for TLC: every constant is set in the configuration.    *)
(***************************************************************************)
EXTENDS OutboxLifecycle
=============================================================================
