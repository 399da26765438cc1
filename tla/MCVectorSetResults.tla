-------------------------- MODULE MCVectorSetResults --------------------------
(* VectorSetResults for TLC: interchangeable requests beside the reader.    *)
EXTENDS VectorSetResults, TLC

CONSTANTS right, part, junk     \* payloads

MCVerdict == [a \in Answers |-> IF a = right THEN "passed" ELSE "failed"]

RequestSymmetry == Permutations(Requests)
=============================================================================
