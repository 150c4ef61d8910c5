-------------------------- MODULE MCRestConsumer --------------------------
(***************************************************************************)
(* RestConsumer for TLC: every constant is set in the configuration.       *)
(***************************************************************************)
EXTENDS RestConsumer
=============================================================================
