---------------------------- MODULE MCDbVectorSet ----------------------------
(* An instance of DbVectorSet for TLC.                                      *)
EXTENDS DbVectorSet

CONSTANTS right, part, junk     \* payloads

\* The engine passes one payload and calls a partial one something outside the
\* protocol's vocabulary.
MCVerdict == [a \in Answers |-> IF a = right THEN "passed"
                                ELSE IF a = part THEN "incomplete tests"
                                ELSE "failed"]
=============================================================================
