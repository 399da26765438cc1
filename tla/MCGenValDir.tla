----------------------------- MODULE MCGenValDir -----------------------------
(* An instance of GenValDir for TLC.                                        *)
EXTENDS GenValDir, TLC

CONSTANTS g1, g2, v1, v2        \* calls
=============================================================================
