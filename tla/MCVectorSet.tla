----------------------------- MODULE MCVectorSet -----------------------------
(* Instances of VectorSet for TLC.                                          *)
EXTENDS VectorSetRequirements

CONSTANTS right, wrong, part, junk      \* payloads

\* The engine passes one payload, fails the others, and calls a partial one
\* something outside the protocol's vocabulary.
MCVerdict == [a \in Answers |-> IF a = right THEN "passed"
                                ELSE IF a = part THEN "incomplete tests"
                                ELSE "failed"]
=============================================================================
