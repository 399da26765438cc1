------------------------- MODULE RestartableLifecycle -------------------------
(***************************************************************************)
(* Lifecycle for a vector set that outlives the process serving it.  A     *)
(* restart takes the grading under way with it and nothing else: what was  *)
(* published stays, and no phase changes because of it.                    *)
(***************************************************************************)
EXTENDS Lifecycle

Lost == /\ grading' = {}
        /\ UNCHANGED <<phase, open, vectors>>

RestartableSpec == Init /\ [][Next \/ Lost]_lvars
=============================================================================
