----------------------------- MODULE MCRegistry -----------------------------
(* Instances of Registry for TLC: vendors, and modules that refer to them.  *)
EXTENDS Registry

MCTargets == [k \in Kinds |-> IF k = "modules" THEN {"vendors"} ELSE {}]
MCSeeded == [k \in Kinds |-> IF k = "vendors" THEN 1 ELSE 0]
=============================================================================
