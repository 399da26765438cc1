------------------------------- MODULE MCAccess -------------------------------
(* Access for two certificates: of the DN of one nothing printable is left, so *)
(* it shares the default entry with whoever logs in without a certificate.     *)
EXTENDS Access, TLC

CONSTANTS d1, d2

MCDns == {d1, d2}
MCCleaned == [d \in MCDns |-> IF d = d2 THEN Default ELSE d]
Symmetry == Permutations(Requests)
=============================================================================
