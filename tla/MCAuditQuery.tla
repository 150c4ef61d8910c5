--------------------------- MODULE MCAuditQuery ---------------------------
(***************************************************************************)
(* AuditQuery for TLC: four events, two of them of the same time; two of   *)
(* them fail one of two filters.                                           *)
(***************************************************************************)
EXTENDS AuditQuery, TLC

CONSTANTS e1, e2, e3, e4

MCTimestamp == e1 :> 1 @@ e2 :> 2 @@ e3 :> 2 @@ e4 :> 3

MCSatisfies ==
  [e \in Events |-> IF e = e2 THEN {"action"}
                    ELSE IF e = e4 THEN {"correlation_id"}
                    ELSE {"action", "correlation_id"}]

MCRequests == SUBSET {"action", "correlation_id"}

MCPageSizes == {-1, 0, 1, Omitted}
=============================================================================
