------------------------------ MODULE Lifecycle ------------------------------
(***************************************************************************)
(* What one vector set promises its client: the abstract specification     *)
(* behind the status comment of VectorSet, with the background work that   *)
(* submissions start.  A phase changes in one step here; VectorSet shows   *)
(* how request handlers and background threads get there field by field.   *)
(***************************************************************************)
CONSTANT Submissions        \* identities of accepted submissions

VARIABLES phase,            \* the published status
          open,             \* the submission deadline has not passed
          vectors,          \* generation has published a prompt
          grading           \* submissions accepted and not yet settled

lvars == <<phase, open, vectors, grading>>

Phases == {"generating", "ready", "prompt_retrieved", "response_submitted",
           "disposition", "error", "cancelled"}

\* Phases in which a submission is in place.
Answered == {"response_submitted", "disposition", "error"}

Init == /\ phase = "generating"
        /\ open = TRUE
        /\ vectors = FALSE
        /\ grading = {}

Generated == /\ phase = "generating"
             /\ phase' = "ready"
             /\ vectors' = TRUE
             /\ UNCHANGED <<open, grading>>

GenerationFailed == /\ phase = "generating"
                    /\ phase' = "error"
                    /\ UNCHANGED <<open, vectors, grading>>

Retrieved == /\ phase = "ready"
             /\ phase' = "prompt_retrieved"
             /\ UNCHANGED <<open, vectors, grading>>

\* Only the answers to vectors the client has seen are accepted, and a set may
\* be answered again whatever became of the previous answers.
Submitted(s) == /\ s \notin grading
                /\ vectors
                /\ phase \in Answered \union {"prompt_retrieved"}
                /\ phase' = "response_submitted"
                /\ grading' = grading \union {s}
                /\ UNCHANGED <<open, vectors>>

\* Grading a submission ends in a grade or in an error...
Graded(s) == /\ s \in grading
             /\ phase \in Answered
             /\ phase' \in {"disposition", "error"}
             /\ grading' = grading \ {s}
             /\ UNCHANGED <<open, vectors>>

\* ... and is thrown away only when the client withdrew the set or came too late.
Dropped(s) == /\ s \in grading
              /\ phase = "cancelled" \/ ~open
              /\ grading' = grading \ {s}
              /\ UNCHANGED <<phase, open, vectors>>

Cancelled == /\ phase' = "cancelled"
             /\ UNCHANGED <<open, vectors, grading>>

DeadlinePassed == /\ open
                  /\ open' = FALSE
                  /\ UNCHANGED <<phase, vectors, grading>>

Next == \/ Generated \/ GenerationFailed \/ Retrieved
        \/ Cancelled \/ DeadlinePassed
        \/ \E s \in Submissions : Submitted(s) \/ Graded(s) \/ Dropped(s)

Spec == Init /\ [][Next]_lvars

-----------------------------------------------------------------------------
\* Generation ends, unless the deadline comes first.
GenerationEnds == phase = "generating" ~> (phase # "generating" \/ ~open)

\* No accepted submission is forgotten: each is graded, fails or is dropped.
EverySubmissionSettles == \A s \in Submissions : s \in grading ~> s \notin grading
=============================================================================
