-------------------------- MODULE MCSinkConsumer --------------------------
(***************************************************************************)
(* SinkConsumer for TLC: two events, which producers may write repeatedly, *)
(* and a value that is no Event.                                           *)
(***************************************************************************)
EXTENDS SinkConsumer, TLC

CONSTANTS a, b, garbage

MCEventId == a :> "id1" @@ b :> "id2" @@ garbage :> "none"

Symmetry == Permutations(Consumers)
=============================================================================
