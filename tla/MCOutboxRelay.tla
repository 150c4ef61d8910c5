-------------------------- MODULE MCOutboxRelay --------------------------
(***************************************************************************)
(* OutboxRelay for TLC.  The safety runs permute processes and rows: both  *)
(* are interchangeable when no row is poisoned.                            *)
(***************************************************************************)
EXTENDS OutboxRelay, TLC

Symmetry == Permutations(Instances) \union Permutations(Rows)
=============================================================================
