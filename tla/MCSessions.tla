------------------------------ MODULE MCSessions ------------------------------
(* Sessions with registrations that are accepted and registrations that fail  *)
(* at once or half way, and listings asked for with sizes out of range.       *)
EXTENDS Sessions

MCBodies == {<<TRUE>>, <<TRUE, FALSE>>}
MCOffsets == {-1, 1}
MCLimits == {0}
=============================================================================
