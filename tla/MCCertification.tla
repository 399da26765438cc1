--------------------------- MODULE MCCertification ---------------------------
(* Instances of Certification for TLC: an empty registry.     *)
EXTENDS Certification

MCTargets == [k \in Kinds |-> {}]
MCSeeded == [k \in Kinds |-> 0]
=============================================================================
