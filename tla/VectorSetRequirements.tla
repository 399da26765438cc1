------------------------ MODULE VectorSetRequirements ------------------------
(***************************************************************************)
(* What is required of a vector set, and how VectorSet implements          *)
(* Lifecycle.                                                              *)
(***************************************************************************)
EXTENDS VectorSet

RequestSteps == {"idle", "get", "mark", "cancel", "check", "show_expected",
                 "missing_tc_ids", "response", "validation", "status", "spawn"}
SettleFields == {"prompt", "internal_projection", "expected", "validation",
                 "status"}
ThreadSteps == {"off", "reserved", "run", "settle", "done"} \union SettleFields

\* The types of the vector set, its lock, the requests and the threads.
TypeOK == /\ vs \in Fields
          /\ past \in BOOLEAN
          /\ lock \in Threads \union {Free}
          /\ pc \in [Requests -> RequestSteps]
          /\ slot \in [Requests -> Threads]
          /\ at \in [Threads -> ThreadSteps]
          /\ answer \in [Threads -> Answers \union {NoAnswer}]
          /\ result \in [Threads -> {"generating", "ready", "disposition", "error"}]
          /\ emitted \in [internal_projection : BOOLEAN, expected : BOOLEAN]
          /\ retrieved \in BOOLEAN

-----------------------------------------------------------------------------
(* Whatever requests run at the same time.                                 *)

\* A thread that is grading, or about to settle what it computed.
Started(t) == at[t] \notin {"off", "reserved"}

\* What the engine emitted is in the set, and nothing else.
Delivered == /\ vs.internal_projection = emitted.internal_projection
             /\ vs.expected = emitted.expected

\* settle() publishes the status after everything that hangs on it, so nobody
\* who acts on the status is told None for a file that the engine emitted:
\* neither a grading thread (which with the NIST engine would fail with "requires
\* the internalProjection") nor a client that was served the prompt and asks for
\* the expected results (which would get the fixture's instead of the generated
\* ones, as it rightly does if the engine emitted none).
KeyBeforePrompt ==
    /\ retrieved => /\ vs.prompt /\ Delivered
                    /\ ExpectedResults = "generated" <=> emitted.expected
    /\ \A t \in Graders : Started(t) => Delivered /\ ~CannotRun(t)

\* From settle()'s check to its last write the set is not cancelled: a result
\* cannot land on top of a cancel that came first, and a cancel cannot fall
\* between two writes of a settle.
NoSettleOverCancel == \A t \in Threads : at[t] \in SettleFields => Listed

\* A settle lands whole or not at all: with nobody inside it, the set has either
\* the prompt and beside it just what the engine emitted, or nothing of a
\* generation, and a set still generating has nothing.
SettleIsAllOrNothing ==
    lock = Free =>
        IF vs.prompt THEN Delivered /\ vs.status # "generating"
                     ELSE ~vs.internal_projection /\ ~vs.expected

\* "expired" is reported only while nothing was ever accepted: the deadline
\* takes neither a grade nor a pending submission away from the client.
ExpiredMeansNothingAccepted ==
    Disposition = "expired" => \A t \in Graders : ~Started(t)

-----------------------------------------------------------------------------
(* For a client that sends one request at a time, against the generating   *)
(* and grading threads and the clock.                                      *)

\* A cancelled vector set stays cancelled (the docstring of cancel()).
CancelIsTerminal == [][vs.status = "cancelled" => vs'.status = "cancelled"]_vars

\* Responses are stored only for a prompt that was served (the comment on the
\* 409 check).
AnsweredOnlyAfterRetrieval == vs.response # NoAnswer => retrieved

\* No request and no thread is under way.
AtRest == /\ \A r \in Requests : pc[r] = "idle"
          /\ \A t \in Threads : at[t] \in {"off", "done"}

\* When everything has come to rest in time, the last submission is accounted
\* for: "missing" exactly if it lacked test cases, or else a grade, unless the
\* engine failed.  It is neither "incomplete" nor "unreceived" for good.
RestsGraded ==
    AtRest /\ ~past /\ Listed /\ vs.response # NoAnswer =>
        Disposition \in IF vs.response \in Partial
                          THEN {"missing", "error"}
                          ELSE {"passed", "failed", "error"}

\* Every request that got past its lookup is answered: no handler waits for
\* the lock forever.
RequestsFinish == \A r \in Requests : pc[r] # "idle" ~> pc[r] = "idle"

-----------------------------------------------------------------------------
(* VectorSet implements Lifecycle: the status is the phase, and a          *)
(* submission is being graded from the write that publishes it to the end  *)
(* of its thread.                                                          *)

Grading == {t \in Graders :
              \/ Started(t) /\ at[t] # "done"
              \/ \E r \in Requests : pc[r] = "spawn" /\ slot[r] = t}

L == INSTANCE Lifecycle WITH Submissions <- Graders,
                             phase <- vs.status,
                             open <- ~past,
                             vectors <- vs.status # "generating" /\ vs.prompt,
                             grading <- Grading

\* Statuses change only along the promised lifecycle, and each accepted
\* submission has exactly one outcome: a grade, an error, or being dropped
\* after a cancel or the deadline.
ImplementsLifecycle == L!Spec

\* Generation ends with vectors or an error, unless the deadline comes first.
GenerationEnds == L!GenerationEnds

\* No accepted submission is forgotten by its thread.
EverySubmissionSettles == L!EverySubmissionSettles

-----------------------------------------------------------------------------
(* Claims of the source that the code does not keep.                       *)

\* A grade belongs to the responses on record: resubmitting clears the prior
\* disposition while the new responses are validated (the comment in
\* _accept_results).
GradeIsForCurrentResponse ==
    AtRest /\ vs.validation # NoAnswer => vs.validation = vs.response
=============================================================================
