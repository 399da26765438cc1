------------------------------ MODULE VectorSet ------------------------------
(***************************************************************************)
(* One vector set of the in-memory store: the VectorSet dataclass, the     *)
(* request handlers of api/vector_sets.py that read and write it, and the  *)
(* background threads that generate its vectors and grade its responses.   *)
(*                                                                         *)
(* Handlers are plain functions, so the server runs each request on a      *)
(* worker thread of its own; generation and grading run on daemon threads  *)
(* (core/jobs.py).  They share the dataclass.  One step is one write of a  *)
(* field, or one read that a later step depends on.  Only settle() and     *)
(* cancel() take the vector set's lock; the handlers' own writes do not.   *)
(*                                                                         *)
(* Reads that one step takes together are those whose outcome is stable:   *)
(* the clock never goes back, a prompt never disappears, and a status      *)
(* never returns to "generating".                                          *)
(***************************************************************************)
EXTENDS Naturals

CONSTANTS
    Requests,           \* worker threads serving requests
    Answers,            \* payloads a client may submit
    Malformed,          \* payloads _validate_submission rejects
    Partial,            \* payloads lacking some of the prompt's test cases
    ShowExpected,       \* payloads carrying the showExpected flag
    Verdict,            \* the disposition the engine gives each payload
    UseNistGenval,      \* the NIST engine generates and grades, not the fixtures
    MaxSubmissions,     \* bound on the submissions that are accepted
    NoAnswer            \* None, for a field that holds a payload

Generator == 0
Graders == 1 .. MaxSubmissions
Threads == {Generator} \union Graders
Free == MaxSubmissions + 1      \* the lock when no thread holds it

DISPOSITIONS == {"passed", "failed", "incomplete", "unreceived", "missing",
                 "expired", "error"}

ASSUME ConstantsAssumption ==
    /\ MaxSubmissions \in Nat
    /\ NoAnswer \notin Answers
    /\ Malformed \subseteq Answers
    /\ Partial \subseteq Answers
    /\ ShowExpected \subseteq Answers
    /\ DOMAIN Verdict = Answers
    /\ UseNistGenval \in BOOLEAN

VARIABLES
    vs,         \* the dataclass
    past,       \* the clock has reached expires_at
    lock,       \* the thread inside settle(), or Free
    pc,         \* what each request does next
    slot,       \* the thread reserved for the submission a request carries
    at,         \* what each background thread does next
    answer,     \* the payload each grading thread closes over
    result,     \* the status a thread's settle() will write
    emitted,    \* which of its optional files the engine gave the generating thread
    retrieved   \* history: some client was served the prompt

requestVars == <<pc, slot>>
threadVars == <<at, answer, result, emitted>>
vars == <<vs, past, lock, pc, slot, at, answer, result, emitted, retrieved>>

\* "expired" is in the code's vocabulary, but nothing in the program writes it.
Statuses == {"generating", "ready", "prompt_retrieved", "response_submitted",
             "disposition", "error", "cancelled"}

\* GeneratedVectors beside the prompt: the answer key and the expected results
\* may be None.  The NIST engine's key is a required file; a fixture need have
\* neither.
Emissions == [internal_projection : IF UseNistGenval THEN {TRUE} ELSE BOOLEAN,
              expected : BOOLEAN]
NoEmission == [internal_projection |-> FALSE, expected |-> FALSE]

\* The fields of the dataclass that decide what any operation does.  A payload
\* stands for itself in "response" and for its grade in "validation"; the three
\* fields that generation fills say whether they are something else than None.
Fields == [status : Statuses,
           prompt : BOOLEAN,
           internal_projection : BOOLEAN,
           expected : BOOLEAN,
           show_expected : BOOLEAN,
           missing_tc_ids : BOOLEAN,
           response : Answers \union {NoAnswer},
           validation : Answers \union {NoAnswer}]

NewVectorSet == [status |-> "generating",
                 prompt |-> FALSE,
                 internal_projection |-> FALSE,
                 expected |-> FALSE,
                 show_expected |-> FALSE,
                 missing_tc_ids |-> FALSE,
                 response |-> NoAnswer,
                 validation |-> NoAnswer]

\* create_test_session adds the set, gives it a deadline and starts the
\* generating thread before any client knows the set's URL.
Init == /\ vs = NewVectorSet
        /\ past = FALSE
        /\ lock = Free
        /\ pc = [r \in Requests |-> "idle"]
        /\ slot = [r \in Requests |-> Generator]
        /\ at = [t \in Threads |-> IF t = Generator THEN "run" ELSE "off"]
        /\ answer = [t \in Threads |-> NoAnswer]
        /\ result = [t \in Threads |-> "generating"]
        /\ emitted = NoEmission
        /\ retrieved = FALSE

-----------------------------------------------------------------------------
(* Reads of the vector set.                                                *)

Expired == past

\* get_vector_set of the store: a cancelled set reads as absent.
Listed == vs.status # "cancelled"

\* A grade in terms of the protocol's vocabulary.
Grade(a) == IF Verdict[a] \in DISPOSITIONS THEN Verdict[a] ELSE "error"

\* The deadline voiding what was earned before it.
DispositionDeadlineFirst ==
    IF vs.status = "error" THEN "error"
    ELSE IF Expired THEN "expired"
    ELSE IF vs.missing_tc_ids THEN "missing"
    ELSE IF vs.validation # NoAnswer THEN Grade(vs.validation)
    ELSE IF vs.status = "response_submitted" THEN "incomplete"
    ELSE "unreceived"

Disposition ==
    IF vs.status = "error" THEN "error"
    ELSE IF vs.response = NoAnswer /\ Expired THEN "expired"
    ELSE IF vs.missing_tc_ids THEN "missing"
    ELSE IF vs.validation # NoAnswer THEN Grade(vs.validation)
    ELSE IF vs.status = "response_submitted" THEN "incomplete"
    ELSE "unreceived"

\* GET .../expected of a sample session: the fixture's, if there are none.
ExpectedResults == IF vs.expected THEN "generated" ELSE "fixture"

-----------------------------------------------------------------------------
(* Background threads.                                                     *)

\* The answer key is missing: the NIST engine cannot grade and raises.  The
\* fixtures' golden validation needs no key.
CannotRun(t) == t \in Graders /\ UseNistGenval /\ ~vs.internal_projection

\* The engine returns.
Returns(t) ==
    /\ ~CannotRun(t)
    /\ result' = [result EXCEPT ![t] = IF t = Generator THEN "ready"
                                                    ELSE "disposition"]
    /\ IF t = Generator THEN emitted' \in Emissions ELSE UNCHANGED emitted

\* A thread whose engine failure nobody catches: it dies without settling.
RunUncaught(t) ==
    /\ at[t] = "run"
    /\ \/ /\ Returns(t)
          /\ at' = [at EXCEPT ![t] = "settle"]
       \/ /\ at' = [at EXCEPT ![t] = "done"]
          /\ UNCHANGED <<result, emitted>>
    /\ UNCHANGED <<vs, past, lock, requestVars, answer, retrieved>>

\* client.generate or client.validate returns, or raises and is caught.  The
\* grading thread reads the answer key when it starts.
Run(t) ==
    /\ at[t] = "run"
    /\ \/ Returns(t)
       \/ result' = [result EXCEPT ![t] = "error"] /\ UNCHANGED emitted
    /\ at' = [at EXCEPT ![t] = "settle"]
    /\ UNCHANGED <<vs, past, lock, requestVars, answer, retrieved>>

\* The field a settle writes first, and the one after each field: the keyword
\* order of the settle() calls.  What is left out is the error text.
FirstField(t) == CASE result[t] = "ready" -> "prompt"
                   [] result[t] = "disposition" -> "validation"
                   [] OTHER -> "status"

\* The same with the status published right after the prompt.
NextFieldStatusEarly == [prompt |-> "status", status |-> "internal_projection",
                         internal_projection |-> "expected",
                         expected |-> "done", validation |-> "status"]

NextField == [prompt |-> "internal_projection",
              internal_projection |-> "expected",
              expected |-> "status",
              validation |-> "status",
              status |-> "done"]

\* A settle that records that grading ended instead of the grade.
FieldValueFlag(t) == CASE at[t] = "status" -> result[t]
                       [] at[t] \in DOMAIN emitted -> emitted[at[t]]
                       [] OTHER -> TRUE

FieldValue(t) == CASE at[t] = "status" -> result[t]
                   [] at[t] = "validation" -> answer[t]
                   [] at[t] = "prompt" -> TRUE
                   [] OTHER -> emitted[at[t]]

\* settle() without its check.
SettleBeginUnchecked(t) ==
    /\ at[t] = "settle"
    /\ lock = Free
    /\ at' = [at EXCEPT ![t] = FirstField(t)]
    /\ lock' = t
    /\ UNCHANGED <<vs, past, requestVars, answer, result, emitted, retrieved>>

\* settle() returning from inside a lock that is never released.
SettleBeginKeepsLock(t) ==
    /\ at[t] = "settle"
    /\ lock = Free
    /\ lock' = t
    /\ IF vs.status = "cancelled" \/ Expired
         THEN at' = [at EXCEPT ![t] = "done"]
         ELSE at' = [at EXCEPT ![t] = FirstField(t)]
    /\ UNCHANGED <<vs, past, requestVars, answer, result, emitted, retrieved>>

\* settle() takes the lock and refuses if the set is cancelled or expired.
SettleBegin(t) ==
    /\ at[t] = "settle"
    /\ lock = Free
    /\ IF vs.status = "cancelled" \/ Expired
         THEN /\ at' = [at EXCEPT ![t] = "done"]
              /\ UNCHANGED lock
         ELSE /\ at' = [at EXCEPT ![t] = FirstField(t)]
              /\ lock' = t
    /\ UNCHANGED <<vs, past, requestVars, answer, result, emitted, retrieved>>

\* A settle that looks at the clock again before each write.
SettleWriteRechecking(t) ==
    /\ lock = t
    /\ at[t] \in DOMAIN NextField
    /\ IF Expired
         THEN /\ at' = [at EXCEPT ![t] = "done"]
              /\ lock' = Free
              /\ UNCHANGED vs
         ELSE /\ vs' = [vs EXCEPT ![at[t]] = FieldValue(t)]
              /\ at' = [at EXCEPT ![t] = NextField[at[t]]]
              /\ lock' = IF NextField[at[t]] = "done" THEN Free ELSE t
    /\ UNCHANGED <<past, requestVars, answer, result, emitted, retrieved>>

\* One setattr of the loop; the lock is released after the last one.
SettleWrite(t) ==
    /\ lock = t
    /\ at[t] \in DOMAIN NextField
    /\ vs' = [vs EXCEPT ![at[t]] = FieldValue(t)]
    /\ at' = [at EXCEPT ![t] = NextField[at[t]]]
    /\ lock' = IF NextField[at[t]] = "done" THEN Free ELSE t
    /\ UNCHANGED <<past, requestVars, answer, result, emitted, retrieved>>

Thread(t) == Run(t) \/ SettleBegin(t) \/ SettleWrite(t)

-----------------------------------------------------------------------------
(* GET .../vectorSets/{id}: the prompt.                                    *)

GetLookup(r) ==
    /\ pc[r] = "idle"
    /\ Listed /\ ~Expired
    /\ pc' = [pc EXCEPT ![r] = "get"]
    /\ UNCHANGED <<vs, past, lock, slot, threadVars, retrieved>>

\* "retry" while there is no prompt; otherwise serve it, and remember to mark a
\* ready set as retrieved.
GetServe(r) ==
    /\ pc[r] = "get"
    /\ IF vs.status = "generating" \/ ~vs.prompt
         THEN /\ pc' = [pc EXCEPT ![r] = "idle"]
              /\ UNCHANGED retrieved
         ELSE IF vs.status = "ready"
         THEN /\ pc' = [pc EXCEPT ![r] = "mark"]
              /\ UNCHANGED retrieved
         ELSE /\ pc' = [pc EXCEPT ![r] = "idle"]
              /\ retrieved' = TRUE
    /\ UNCHANGED <<vs, past, lock, slot, threadVars>>

GetMark(r) ==
    /\ pc[r] = "mark"
    /\ vs' = [vs EXCEPT !.status = "prompt_retrieved"]
    /\ pc' = [pc EXCEPT ![r] = "idle"]
    /\ retrieved' = TRUE
    /\ UNCHANGED <<past, lock, slot, threadVars>>

-----------------------------------------------------------------------------
(* DELETE .../vectorSets/{id}: cancel() under the lock.                    *)

CancelLookup(r) ==
    /\ pc[r] = "idle"
    /\ Listed
    /\ pc' = [pc EXCEPT ![r] = "cancel"]
    /\ UNCHANGED <<vs, past, lock, slot, threadVars, retrieved>>

\* A cancel() that forgets the lock.
CancelUnlocked(r) ==
    /\ pc[r] = "cancel"
    /\ vs' = [vs EXCEPT !.status = "cancelled"]
    /\ pc' = [pc EXCEPT ![r] = "idle"]
    /\ UNCHANGED <<past, lock, slot, threadVars, retrieved>>

Cancel(r) ==
    /\ pc[r] = "cancel"
    /\ lock = Free
    /\ vs' = [vs EXCEPT !.status = "cancelled"]
    /\ pc' = [pc EXCEPT ![r] = "idle"]
    /\ UNCHANGED <<past, lock, slot, threadVars, retrieved>>

-----------------------------------------------------------------------------
(* POST and PUT .../vectorSets/{id}/results: _accept_results.  The two     *)
(* differ only in a resubmission counter that nothing reads.               *)

Payload(r) == answer[slot[r]]

SubmitLookup(r, a) ==
    /\ pc[r] = "idle"
    /\ Listed /\ ~Expired
    /\ \E t \in Graders :
          /\ at[t] = "off"
          /\ \A u \in Graders : at[u] = "off" => t <= u
          /\ slot' = [slot EXCEPT ![r] = t]
          /\ at' = [at EXCEPT ![t] = "reserved"]
          /\ answer' = [answer EXCEPT ![t] = a]
    /\ pc' = [pc EXCEPT ![r] = "check"]
    /\ UNCHANGED <<vs, past, lock, result, emitted, retrieved>>

\* A 4xx reply: the payload is dropped and no thread starts.
Reject(r) ==
    /\ pc' = [pc EXCEPT ![r] = "idle"]
    /\ slot' = [slot EXCEPT ![r] = Generator]
    /\ at' = [at EXCEPT ![slot[r]] = "off"]
    /\ answer' = [answer EXCEPT ![slot[r]] = NoAnswer]

\* The 409 check with the status left out of it.
SubmitCheckPromptOnly(r) ==
    /\ pc[r] = "check"
    /\ IF ~vs.prompt
         THEN Reject(r)
         ELSE /\ pc' = [pc EXCEPT ![r] = "show_expected"]
              /\ UNCHANGED <<slot, at, answer>>
    /\ UNCHANGED <<vs, past, lock, result, emitted, retrieved>>

\* 409 while the prompt has not been retrieved.
SubmitCheck(r) ==
    /\ pc[r] = "check"
    /\ IF vs.status \in {"generating", "ready"} \/ ~vs.prompt
         THEN Reject(r)
         ELSE /\ pc' = [pc EXCEPT ![r] = "show_expected"]
              /\ UNCHANGED <<slot, at, answer>>
    /\ UNCHANGED <<vs, past, lock, result, emitted, retrieved>>

\* The flag is stored before the payload is validated: a 400 keeps it.
SubmitShowExpected(r) ==
    /\ pc[r] = "show_expected"
    /\ vs' = [vs EXCEPT !.show_expected = Payload(r) \in ShowExpected]
    /\ IF Payload(r) \in Malformed
         THEN Reject(r)
         ELSE /\ pc' = [pc EXCEPT ![r] = "missing_tc_ids"]
              /\ UNCHANGED <<slot, at, answer>>
    /\ UNCHANGED <<past, lock, result, emitted, retrieved>>

\* The four unlocked assignments that install a submission, in program order.
Assign(r, field, value, next) ==
    /\ pc[r] = field
    /\ vs' = [vs EXCEPT ![field] = value]
    /\ pc' = [pc EXCEPT ![r] = next]
    /\ UNCHANGED <<past, lock, slot, threadVars, retrieved>>

SubmitMissing(r) ==
    Assign(r, "missing_tc_ids", Payload(r) \in Partial, "response")
SubmitResponse(r) == Assign(r, "response", Payload(r), "validation")
SubmitClear(r) == Assign(r, "validation", NoAnswer, "status")
SubmitStatus(r) == Assign(r, "status", "response_submitted", "spawn")

\* run_background starts the grading thread, and the client gets its 200.
SubmitSpawn(r) ==
    /\ pc[r] = "spawn"
    /\ at' = [at EXCEPT ![slot[r]] = "run"]
    /\ pc' = [pc EXCEPT ![r] = "idle"]
    /\ slot' = [slot EXCEPT ![r] = Generator]
    /\ UNCHANGED <<vs, past, lock, answer, result, emitted, retrieved>>

-----------------------------------------------------------------------------
\* The clock reaches expires_at.
DeadlinePasses ==
    /\ ~past
    /\ past' = TRUE
    /\ UNCHANGED <<vs, lock, requestVars, threadVars, retrieved>>

\* The steps of a request that is under way.
Proceed(r) == \/ GetServe(r) \/ GetMark(r) \/ Cancel(r)
              \/ SubmitCheck(r) \/ SubmitShowExpected(r) \/ SubmitMissing(r)
              \/ SubmitResponse(r) \/ SubmitClear(r) \/ SubmitStatus(r)
              \/ SubmitSpawn(r)

Arrive(r) == \/ GetLookup(r) \/ CancelLookup(r)
             \/ \E a \in Answers : SubmitLookup(r, a)

Next == \/ \E t \in Threads : Thread(t)
        \/ \E r \in Requests : Arrive(r) \/ Proceed(r)
        \/ DeadlinePasses

Spec == Init /\ [][Next]_vars

\* Threads that have started run on; no client has to send a request, and no
\* deadline has to come.
Fairness == /\ \A t \in Threads : WF_vars(Thread(t))
            /\ \A r \in Requests : WF_vars(Proceed(r))

FairSpec == Spec /\ Fairness
=============================================================================
