------------------------ MODULE VectorSetResultsProofs ------------------------
(***************************************************************************)
(* Proofs about VectorSetResults for any requests, payloads and number of  *)
(* submissions: what a request for results may say as long as one          *)
(* submission only has got past the checks, whatever else runs beside it.  *)
(***************************************************************************)
EXTENDS VectorSetResults, VectorSetProofs

\* The steps in which a request installs its submission, and the rest of them
\* after each assignment.
InstallSteps == {"missing_tc_ids", "response", "validation", "status", "spawn"}
AfterMissing == {"response", "validation", "status", "spawn"}
AfterResponse == {"validation", "status", "spawn"}
AfterStatus == {"spawn"}
Tails == {InstallSteps, AfterMissing, AfterResponse, AfterStatus}

\* The submission of the grader t has got into these steps or beyond them.
Beyond(t, steps) == \/ Started(t)
                    \/ \E r \in Requests : slot[r] = t /\ pc[r] \in steps

\* No two submissions have got past the checks.
Sole == \A t, u \in Graders :
    Beyond(t, InstallSteps) /\ Beyond(u, InstallSteps) => t = u

\* The grader t has stored its grade, or was not allowed to.
Graded(t) == at[t] \in {"status", "done"} /\ result[t] = "disposition"

\* What is on record was put there by somebody.
RecordInv ==
    /\ vs.validation # NoAnswer =>
          \E t \in Graders : Graded(t) /\ vs.validation = answer[t]
    /\ vs.status = "response_submitted" => \E t \in Graders : Beyond(t, AfterStatus)
    /\ vs.missing_tc_ids => \E t \in Graders : Beyond(t, AfterMissing)
    /\ vs.status = "error" => \E t \in Threads : at[t] = "done" /\ result[t] = "error"
    /\ \A t \in Graders : at[t] = "validation" => result[t] = "disposition"
    /\ vs.response # NoAnswer => \E t \in Graders : Beyond(t, AfterResponse)

\* The response on record is that of the only submission.
SoleInv == Sole => \A t \in Graders : Beyond(t, AfterResponse) => vs.response = answer[t]

\* The deadline came before any grade, or failed grading, could land.
TooLate == /\ past
           /\ vs.validation = NoAnswer
           /\ \A t \in Graders : at[t] \notin SettleFields
           /\ vs.status = "error" => vs.response = NoAnswer

\* The set was seen without a grade, in time or with responses.
Ungraded == "unreceived" \in seen \/ "incomplete" \in seen

\* What the reader has read is still so; the history is up to date.
ReaderInv ==
    /\ step # "idle" => Disposition \in seen /\ provided = NoAnswer
    /\ step = "disclose" => base # Empty
    /\ Sole => /\ step \in {"base_again", "verdict"} => vs.validation # NoAnswer
               /\ base # Empty => base # NoAnswer /\ base = vs.validation
               /\ said # ServerError
               /\ provided # NoAnswer => provided = base

\* What the reader has said was so or was overtaken, and so it will be with what
\* it is about to say.
JudgedInv ==
    Sole /\ ~vs.missing_tc_ids =>
        /\ \/ said \in seen \union {"nothing", ServerError}
           \/ EngineGrades => Overtaken
        /\ step \in {"response", "clock"} =>
              Ungraded \/ vs.validation # NoAnswer \/ TooLate
        /\ step \in {"missing", "validation"} =>
              \/ Ungraded
              \/ vs.validation # NoAnswer
              \/ TooLate /\ vs.response # NoAnswer
        /\ step = "submitted" => Ungraded
        /\ /\ step = "submitted"
           /\ vs.status = "response_submitted"
           /\ vs.validation # NoAnswer
           => "incomplete" \in seen

ResultsInv == IInv /\ RecordInv /\ SoleInv /\ ReaderInv /\ JudgedInv

-----------------------------------------------------------------------------
\* A step of a thread does not take back what the threads did.
LEMMA ThreadGoesOn ==
    ASSUME IInv, NEW t \in Threads, Thread(t)
    PROVE  /\ \A u \in Threads : at[u] = "done" => at'[u] = "done" /\ result'[u] = result[u]
           /\ \A u \in Graders : Started(u) <=> Started(u)'
           /\ \A u \in Graders : Graded(u) => Graded(u)'
           /\ answer' = answer /\ pc' = pc /\ slot' = slot
<1> USE DEF Started, Graded
<1>1. CASE Run(t)
  BY <1>1, ThreadFacts DEF Run, Returns, IInv, TypeOK, requestVars
<1>2. CASE SettleBegin(t)
  BY <1>2, ThreadFacts DEF SettleBegin, FirstField, IInv, TypeOK, requestVars
<1>3. CASE SettleWrite(t)
  BY <1>3, SettleWriteFields, ThreadFacts DEF SettleFields, IInv, TypeOK
<1>4. QED
  BY <1>1, <1>2, <1>3 DEF Thread

\* Neither does a step of a request, which goes on through its steps in order.
GoesOn(r) ==
    /\ result' = result
    /\ \A u \in Threads : IF at[u] \in {"off", "reserved"}
                              THEN at'[u] \in {"off", "reserved", "run"}
                              ELSE at'[u] = at[u]
    /\ \A u \in Graders : Started(u) => answer'[u] = answer[u]
    /\ \A q \in Requests \ {r} :
          /\ pc'[q] = pc[q] /\ slot'[q] = slot[q]
          /\ pc[q] \in SubmitSteps => answer'[slot[q]] = answer[slot[q]]
    /\ \A S \in Tails : pc[r] \in S =>
          /\ answer'[slot[r]] = answer[slot[r]]
          /\ (pc'[r] \in S /\ slot'[r] = slot[r]) \/ at'[slot[r]] = "run"

LEMMA RequestGoesOn ==
    ASSUME IInv, NEW r \in Requests, Arrive(r) \/ Proceed(r)
    PROVE  GoesOn(r)
<1> USE ThreadFacts DEF IInv, TypeOK, Started, requestVars, threadVars, GoesOn, Tails,
                        InstallSteps, AfterMissing, AfterResponse, AfterStatus
<1>1. CASE GetLookup(r) \/ CancelLookup(r) \/ GetServe(r) \/ GetMark(r) \/ Cancel(r)
  BY <1>1 DEF GetLookup, CancelLookup, GetServe, GetMark, Cancel
<1>2. ASSUME NEW a \in Answers, SubmitLookup(r, a) PROVE GoesOn(r)
  BY <1>2 DEF SubmitLookup, SlotInv, SubmitSteps
<1>3. CASE SubmitCheck(r) \/ SubmitShowExpected(r)
  BY <1>3 DEF SubmitCheck, SubmitShowExpected, Reject, SlotInv, SubmitSteps
<1>4. CASE SubmitMissing(r) \/ SubmitResponse(r) \/ SubmitClear(r) \/ SubmitStatus(r)
  BY <1>4 DEF SubmitMissing, SubmitResponse, SubmitClear, SubmitStatus, Assign
<1>5. CASE SubmitSpawn(r)
  BY <1>5 DEF SubmitSpawn, SlotInv, SubmitSteps
<1> HIDE DEF GoesOn
<1>6. QED
  BY <1>1, <1>2, <1>3, <1>4, <1>5 DEF Arrive, Proceed

\* The steps of the machine, as what they do to submissions.
LEMMA StepKinds ==
    ASSUME IInv, [Next]_vars
    PROVE  \/ \E t \in Threads : Thread(t)
           \/ \E r \in Requests : (Arrive(r) \/ Proceed(r)) /\ GoesOn(r)
           \/ DeadlinePasses \/ UNCHANGED vars
BY RequestGoesOn DEF Next

\* A submission that has got past the checks goes on.
LEMMA BeyondStays ==
    ASSUME IInv, [Next]_vars, NEW t \in Graders, NEW S \in Tails, Beyond(t, S)
    PROVE  Beyond(t, S)' /\ answer'[t] = answer[t]
<1>1. ASSUME NEW u \in Threads, Thread(u) PROVE Beyond(t, S)' /\ answer'[t] = answer[t]
  BY <1>1, ThreadGoesOn DEF Beyond
<1>2. ASSUME NEW r \in Requests, GoesOn(r) PROVE Beyond(t, S)' /\ answer'[t] = answer[t]
  <2>1. CASE Started(t)
    BY <1>2, <2>1, ThreadFacts DEF GoesOn, Started, Beyond
  <2>2. ASSUME NEW q \in Requests, slot[q] = t, pc[q] \in S
        PROVE  Beyond(t, S)' /\ answer'[t] = answer[t]
    <3>1. pc[q] \in SubmitSteps
      BY <2>2 DEF Tails, InstallSteps, AfterMissing, AfterResponse, AfterStatus, SubmitSteps
    <3>2. CASE q # r
      BY <1>2, <2>2, <3>1, <3>2 DEF GoesOn, Beyond
    <3>3. CASE q = r
      <4>1. /\ answer'[t] = answer[t]
            /\ (pc'[q] \in S /\ slot'[q] = t) \/ at'[t] = "run"
        BY <1>2, <2>2, <3>3 DEF GoesOn
      <4>2. QED
        BY <4>1 DEF Beyond, Started
    <3>4. QED
      BY <3>2, <3>3
  <2>3. QED
    BY <2>1, <2>2 DEF Beyond
<1>3. CASE DeadlinePasses \/ UNCHANGED vars
  BY <1>3 DEF DeadlinePasses, vars, requestVars, threadVars, Beyond, Started
<1>4. QED
  BY <1>1, <1>2, <1>3, StepKinds

\* Two that have got past the checks remain two.
LEMMA SoleBefore == ASSUME IInv, [Next]_vars, Sole' PROVE Sole
<1>1. InstallSteps \in Tails
  BY DEF Tails
<1>2. QED
  BY <1>1, BeyondStays DEF Sole

\* What was graded stays graded, and what has failed has failed.
LEMMA GradedStays ==
    ASSUME IInv, [Next]_vars
    PROVE  /\ \A t \in Graders : Graded(t) => Graded(t)' /\ answer'[t] = answer[t]
           /\ \A t \in Threads : at[t] = "done" => at'[t] = "done" /\ result'[t] = result[t]
<1>1. ASSUME NEW u \in Threads, Thread(u)
      PROVE  /\ \A t \in Graders : Graded(t) => Graded(t)' /\ answer'[t] = answer[t]
             /\ \A t \in Threads : at[t] = "done" => at'[t] = "done" /\ result'[t] = result[t]
  BY <1>1, ThreadGoesOn
<1>2. ASSUME NEW r \in Requests, GoesOn(r)
      PROVE  /\ \A t \in Graders : Graded(t) => Graded(t)' /\ answer'[t] = answer[t]
             /\ \A t \in Threads : at[t] = "done" => at'[t] = "done" /\ result'[t] = result[t]
  BY <1>2, ThreadFacts DEF GoesOn, Graded, Started
<1>3. CASE DeadlinePasses \/ UNCHANGED vars
  BY <1>3 DEF DeadlinePasses, vars, requestVars, threadVars, Graded
<1>4. QED
  BY <1>1, <1>2, <1>3, StepKinds

-----------------------------------------------------------------------------
\* Who writes which field.
Writers(status, missing, response, validation) ==
    /\ status \/ vs'.status = vs.status
    /\ missing \/ vs'.missing_tc_ids = vs.missing_tc_ids
    /\ response \/ vs'.response = vs.response
    /\ validation \/ vs'.validation = vs.validation

LEMMA RequestWrites ==
    ASSUME IInv, NEW r \in Requests, Arrive(r) \/ Proceed(r)
    PROVE  Writers(GetMark(r) \/ Cancel(r) \/ SubmitStatus(r), SubmitMissing(r),
                   SubmitResponse(r), SubmitClear(r))
<1> USE DEF IInv, TypeOK, Fields, Writers
<1>1. CASE GetLookup(r) \/ CancelLookup(r) \/ GetServe(r) \/ SubmitCheck(r) \/ SubmitSpawn(r)
  BY <1>1 DEF GetLookup, CancelLookup, GetServe, SubmitCheck, SubmitSpawn
<1>2. CASE \E a \in Answers : SubmitLookup(r, a)
  BY <1>2 DEF SubmitLookup
<1>3. CASE GetMark(r) \/ Cancel(r)
  BY <1>3 DEF GetMark, Cancel
<1>4. CASE SubmitShowExpected(r)
  BY <1>4 DEF SubmitShowExpected
<1>5. CASE SubmitMissing(r) \/ SubmitResponse(r)
  BY <1>5 DEF SubmitMissing, SubmitResponse, Assign
<1>6. CASE SubmitClear(r) \/ SubmitStatus(r)
  BY <1>6 DEF SubmitClear, SubmitStatus, Assign
<1>7. QED
  BY <1>1, <1>2, <1>3, <1>4, <1>5, <1>6 DEF Arrive, Proceed

LEMMA ThreadWrites ==
    ASSUME IInv, NEW t \in Threads, Thread(t)
    PROVE  Writers(SettleWrite(t) /\ at[t] = "status", FALSE, FALSE,
                   SettleWrite(t) /\ at[t] = "validation")
<1>1. CASE Run(t) \/ SettleBegin(t)
  BY <1>1, ThreadFrame DEF IInv, Writers
<1>2. CASE SettleWrite(t)
  BY <1>2, SettleWriteFields DEF Writers
<1>3. QED
  BY <1>1, <1>2 DEF Thread

\* The grade on record is somebody's.
LEMMA ValidationRecorded ==
    ASSUME IInv, RecordInv, [Next]_vars, vs'.validation # NoAnswer
    PROVE  \E t \in Graders : Graded(t)' /\ vs'.validation = answer'[t]
<1>1. CASE vs'.validation = vs.validation
  BY <1>1, GradedStays DEF RecordInv
<1>2. ASSUME NEW t \in Threads, SettleWrite(t), at[t] = "validation"
      PROVE  \E u \in Graders : Graded(u)' /\ vs'.validation = answer'[u]
  <2>1. t \in Graders /\ result[t] = "disposition"
    <3>1. t \in Graders
      BY <1>2 DEF IInv, RoleInv, Threads
    <3>2. result[t] = "disposition"
      BY <1>2, <3>1 DEF RecordInv
    <3>3. QED
      BY <3>1, <3>2
  <2>2. at'[t] = "status" /\ vs'.validation = answer'[t] /\ result'[t] = result[t]
    BY <1>2, SettleWriteFields DEF IInv, TypeOK
  <2>3. QED
    BY <2>1, <2>2 DEF Graded
<1>3. ASSUME NEW r \in Requests, SubmitClear(r) PROVE vs'.validation = NoAnswer
  BY <1>3 DEF SubmitClear, Assign, IInv, TypeOK, Fields
<1>4. CASE \E r \in Requests : Arrive(r) \/ Proceed(r)
  BY <1>1, <1>3, <1>4, RequestWrites DEF Writers
<1>5. CASE \E t \in Threads : Thread(t)
  BY <1>1, <1>2, <1>5, ThreadWrites DEF Writers
<1>6. CASE DeadlinePasses \/ UNCHANGED vars
  BY <1>1, <1>6 DEF DeadlinePasses, vars
<1>7. QED
  BY <1>4, <1>5, <1>6 DEF Next

\* "response_submitted" is somebody's submission being graded, and "error" is
\* somebody's failure.
LEMMA StatusRecorded ==
    ASSUME IInv, RecordInv, [Next]_vars
    PROVE  /\ vs'.status = "response_submitted" => \E t \in Graders : Beyond(t, AfterStatus)'
           /\ vs'.status = "error" => \E t \in Threads : at'[t] = "done" /\ result'[t] = "error"
<1> DEFINE Goal ==
      /\ vs'.status = "response_submitted" => \E t \in Graders : Beyond(t, AfterStatus)'
      /\ vs'.status = "error" => \E t \in Threads : at'[t] = "done" /\ result'[t] = "error"
<1>1. CASE vs'.status = vs.status
  <2>1. AfterStatus \in Tails
    BY DEF Tails
  <2>2. QED
    BY <1>1, <2>1, BeyondStays, GradedStays DEF RecordInv
<1>2. ASSUME NEW t \in Threads, SettleWrite(t), at[t] = "status" PROVE Goal
  <2>1. /\ vs'.status = result[t] /\ at'[t] = "done" /\ result'[t] = result[t]
        /\ result[t] \in {"generating", "ready", "disposition", "error"}
    BY <1>2, SettleWriteFields DEF IInv, TypeOK
  <2>2. QED
    BY <2>1
<1>3. ASSUME NEW r \in Requests, GetMark(r) \/ Cancel(r) PROVE Goal
  BY <1>3 DEF GetMark, Cancel, IInv, TypeOK, Fields
<1>4. ASSUME NEW r \in Requests, SubmitStatus(r) PROVE Goal
  <2>1. slot[r] \in Graders
    BY <1>4 DEF SubmitStatus, Assign, IInv, SlotInv, SubmitSteps
  <2>2. vs'.status = "response_submitted" /\ pc'[r] = "spawn" /\ slot'[r] = slot[r]
    BY <1>4 DEF SubmitStatus, Assign, IInv, TypeOK, Fields
  <2>3. QED
    BY <2>1, <2>2 DEF Beyond, AfterStatus
<1>5. CASE \E r \in Requests : Arrive(r) \/ Proceed(r)
  BY <1>1, <1>3, <1>4, <1>5, RequestWrites DEF Writers
<1>6. CASE \E t \in Threads : Thread(t)
  BY <1>1, <1>2, <1>6, ThreadWrites DEF Writers
<1>7. CASE DeadlinePasses \/ UNCHANGED vars
  BY <1>1, <1>7 DEF DeadlinePasses, vars
<1>8. QED
  BY <1>5, <1>6, <1>7 DEF Next

\* What is missing is missing from somebody's submission.
LEMMA MissingRecorded ==
    ASSUME IInv, RecordInv, [Next]_vars, vs'.missing_tc_ids
    PROVE  \E t \in Graders : Beyond(t, AfterMissing)'
<1>1. CASE vs'.missing_tc_ids = vs.missing_tc_ids
  <2>1. AfterMissing \in Tails
    BY DEF Tails
  <2>2. QED
    BY <1>1, <2>1, BeyondStays DEF RecordInv
<1>2. ASSUME NEW r \in Requests, SubmitMissing(r)
      PROVE  \E t \in Graders : Beyond(t, AfterMissing)'
  <2>1. slot[r] \in Graders
    BY <1>2 DEF SubmitMissing, Assign, IInv, SlotInv, SubmitSteps
  <2>2. pc'[r] = "response" /\ slot'[r] = slot[r]
    BY <1>2 DEF SubmitMissing, Assign, IInv, TypeOK
  <2>3. QED
    BY <2>1, <2>2 DEF Beyond, AfterMissing
<1>3. CASE \E r \in Requests : Arrive(r) \/ Proceed(r)
  BY <1>1, <1>2, <1>3, RequestWrites DEF Writers
<1>4. CASE \E t \in Threads : Thread(t)
  BY <1>1, <1>4, ThreadWrites DEF Writers
<1>5. CASE DeadlinePasses \/ UNCHANGED vars
  BY <1>1, <1>5 DEF DeadlinePasses, vars
<1>6. QED
  BY <1>3, <1>4, <1>5 DEF Next

\* The response on record is somebody's.
LEMMA ResponseRecorded ==
    ASSUME IInv, RecordInv, [Next]_vars, vs'.response # NoAnswer
    PROVE  \E t \in Graders : Beyond(t, AfterResponse)'
<1>1. CASE vs'.response = vs.response
  <2>1. AfterResponse \in Tails
    BY DEF Tails
  <2>2. QED
    BY <1>1, <2>1, BeyondStays DEF RecordInv
<1>2. ASSUME NEW r \in Requests, SubmitResponse(r)
      PROVE  \E t \in Graders : Beyond(t, AfterResponse)'
  <2>1. slot[r] \in Graders
    BY <1>2 DEF SubmitResponse, Assign, IInv, SlotInv, SubmitSteps
  <2>2. pc'[r] = "validation" /\ slot'[r] = slot[r]
    BY <1>2 DEF SubmitResponse, Assign, IInv, TypeOK
  <2>3. QED
    BY <2>1, <2>2 DEF Beyond, AfterResponse
<1>3. CASE \E r \in Requests : Arrive(r) \/ Proceed(r)
  BY <1>1, <1>2, <1>3, RequestWrites DEF Writers
<1>4. CASE \E t \in Threads : Thread(t)
  BY <1>1, <1>4, ThreadWrites DEF Writers
<1>5. CASE DeadlinePasses \/ UNCHANGED vars
  BY <1>1, <1>5 DEF DeadlinePasses, vars
<1>6. QED
  BY <1>3, <1>4, <1>5 DEF Next

\* A grader inside its settle writes a grade.
LEMMA GradesRecorded ==
    ASSUME IInv, RecordInv, [Next]_vars
    PROVE  \A t \in Graders : at'[t] = "validation" => result'[t] = "disposition"
<1> DEFINE GradesOnly == \A t \in Graders : at'[t] = "validation" => result'[t] = "disposition"
<1>1. ASSUME NEW t \in Threads, Thread(t) PROVE GradesOnly
  <2>1. CASE Run(t)
    BY <2>1, ThreadFacts DEF Run, Returns, IInv, TypeOK, RecordInv
  <2>2. CASE SettleBegin(t)
    BY <2>2, ThreadFacts DEF SettleBegin, FirstField, IInv, TypeOK, RecordInv
  <2>3. CASE SettleWrite(t)
    BY <2>3, ThreadFacts DEF SettleWrite, NextField, IInv, TypeOK, RecordInv
  <2>4. QED
    BY <1>1, <2>1, <2>2, <2>3 DEF Thread
<1>2. ASSUME NEW r \in Requests, Arrive(r) \/ Proceed(r) PROVE GradesOnly
  <2>1. GoesOn(r)
    BY <1>2, RequestGoesOn
  <2>2. QED
    BY <2>1, ThreadFacts DEF GoesOn, RecordInv
<1>3. CASE DeadlinePasses \/ UNCHANGED vars
  BY <1>3 DEF DeadlinePasses, vars, threadVars, RecordInv
<1>4. QED
  BY <1>1, <1>2, <1>3 DEF Next

LEMMA StepRecord == IInv /\ RecordInv /\ [Next]_vars => RecordInv'
<1> SUFFICES ASSUME IInv, RecordInv, [Next]_vars PROVE RecordInv'
  OBVIOUS
<1>1. vs'.validation # NoAnswer
         => \E t \in Graders : Graded(t)' /\ vs'.validation = answer'[t]
  BY ValidationRecorded
<1>2. vs'.missing_tc_ids => \E t \in Graders : Beyond(t, AfterMissing)'
  BY MissingRecorded
<1>3. vs'.response # NoAnswer => \E t \in Graders : Beyond(t, AfterResponse)'
  BY ResponseRecorded
<1>4. QED
  BY <1>1, <1>2, <1>3, StatusRecorded, GradesRecorded DEF RecordInv

-----------------------------------------------------------------------------
(* While one submission only has got past the checks.                      *)

\* A request that is installing a submission is installing that one.
LEMMA OnlyInstaller ==
    ASSUME IInv, Sole, NEW r \in Requests, pc[r] \in InstallSteps,
           NEW t \in Graders, NEW S \in Tails, Beyond(t, S)
    PROVE  slot[r] = t /\ pc[r] \in S
<1>1. S \subseteq InstallSteps
  BY DEF Tails, InstallSteps, AfterMissing, AfterResponse, AfterStatus
<1>2. Beyond(t, InstallSteps)
  BY <1>1 DEF Beyond
<1>3. slot[r] \in Graders /\ at[slot[r]] = "reserved"
  BY DEF IInv, SlotInv, InstallSteps, SubmitSteps
<1>4. Beyond(slot[r], InstallSteps)
  BY DEF Beyond
<1>5. slot[r] = t
  BY <1>2, <1>3, <1>4 DEF Sole
<1>6. PICK q \in Requests : slot[q] = t /\ pc[q] \in S
  BY <1>3, <1>5 DEF Beyond, Started
<1>7. q = r
  BY <1>1, <1>5, <1>6 DEF IInv, SlotInv, InstallSteps, SubmitSteps
<1>8. QED
  BY <1>5, <1>6, <1>7

\* Only by storing its response does a submission get beyond that.
LEMMA BeyondBefore ==
    ASSUME IInv, [Next]_vars, \A r \in Requests : ~SubmitResponse(r),
           NEW t \in Graders, Beyond(t, AfterResponse)'
    PROVE  Beyond(t, AfterResponse)
<1> USE DEF Beyond, AfterResponse
<1>1. ASSUME NEW u \in Threads, Thread(u) PROVE Beyond(t, AfterResponse)
  BY <1>1, ThreadGoesOn
<1>2. CASE DeadlinePasses \/ UNCHANGED vars
  BY <1>2 DEF DeadlinePasses, vars, requestVars, threadVars, Started
<1>3. ASSUME NEW r \in Requests, Arrive(r) \/ Proceed(r) PROVE Beyond(t, AfterResponse)
  <2> USE ThreadFacts DEF IInv, TypeOK, Started, requestVars, threadVars
  <2>1. CASE GetLookup(r) \/ CancelLookup(r) \/ GetServe(r) \/ GetMark(r) \/ Cancel(r)
    BY <2>1 DEF GetLookup, CancelLookup, GetServe, GetMark, Cancel
  <2>2. CASE \E a \in Answers : SubmitLookup(r, a)
    BY <2>2 DEF SubmitLookup
  <2>3. CASE SubmitCheck(r) \/ SubmitShowExpected(r)
    BY <2>3 DEF SubmitCheck, SubmitShowExpected, Reject
  <2>4. CASE SubmitMissing(r) \/ SubmitClear(r) \/ SubmitStatus(r)
    BY <2>4 DEF SubmitMissing, SubmitClear, SubmitStatus, Assign
  <2>5. CASE SubmitSpawn(r)
    BY <2>5 DEF SubmitSpawn
  <2>6. QED
    BY <1>3, <2>1, <2>2, <2>3, <2>4, <2>5 DEF Arrive, Proceed
<1>4. QED
  BY <1>1, <1>2, <1>3 DEF Next

LEMMA StepSole == IInv /\ SoleInv /\ [Next]_vars => SoleInv'
<1> SUFFICES ASSUME IInv, SoleInv, [Next]_vars, Sole',
                    NEW t \in Graders, Beyond(t, AfterResponse)'
             PROVE  vs'.response = answer'[t]
  BY DEF SoleInv
<1>1. AfterResponse \in Tails /\ InstallSteps \in Tails
  BY DEF Tails
<1>2. ASSUME NEW r \in Requests, SubmitResponse(r) PROVE vs'.response = answer'[t]
  <2>1. PICK u \in Graders : slot[r] = u /\ pc[r] \in InstallSteps
    BY <1>2 DEF SubmitResponse, Assign, IInv, SlotInv, InstallSteps, SubmitSteps
  <2>2. vs'.response = answer[u] /\ answer' = answer
    BY <1>2, <2>1 DEF SubmitResponse, Assign, Payload, threadVars, IInv, TypeOK, Fields
  <2>3. Beyond(u, InstallSteps)
    BY <2>1 DEF Beyond
  <2>4. Beyond(u, InstallSteps)'
    BY <1>1, <2>3, BeyondStays
  <2>5. Beyond(t, InstallSteps)'
    BY DEF Beyond, AfterResponse, InstallSteps
  <2>6. u = t
    BY <2>4, <2>5 DEF Sole
  <2>7. QED
    BY <2>2, <2>6
<1>3. CASE \A r \in Requests : ~SubmitResponse(r)
  <2>1. Sole /\ Beyond(t, AfterResponse)
    BY <1>3, SoleBefore, BeyondBefore
  <2>2. vs.response = answer[t] /\ answer'[t] = answer[t]
    BY <1>1, <2>1, BeyondStays DEF SoleInv
  <2>3. CASE \E r \in Requests : Arrive(r) \/ Proceed(r)
    BY <1>3, <2>2, <2>3, RequestWrites DEF Writers
  <2>4. CASE \E u \in Threads : Thread(u)
    BY <2>2, <2>4, ThreadWrites DEF Writers
  <2>5. CASE DeadlinePasses \/ UNCHANGED vars
    BY <2>2, <2>5 DEF DeadlinePasses, vars
  <2>6. QED
    BY <2>3, <2>4, <2>5 DEF Next
<1>4. QED
  BY <1>2, <1>3

\* Then a grade stays, and so does what is missing; and nobody goes back to
\* "response_submitted" from a grade.
LEMMA RecordStays ==
    ASSUME IInv, RecordInv, [Next]_vars, Sole
    PROVE  /\ vs.validation # NoAnswer => vs'.validation = vs.validation
           /\ vs.missing_tc_ids => vs'.missing_tc_ids
           /\ vs.validation # NoAnswer /\ vs'.status = "response_submitted"
                 => vs.status = "response_submitted"
<1> DEFINE Goal ==
      /\ vs.validation # NoAnswer => vs'.validation = vs.validation
      /\ vs.missing_tc_ids => vs'.missing_tc_ids
      /\ vs.validation # NoAnswer /\ vs'.status = "response_submitted"
            => vs.status = "response_submitted"
<1>1. InstallSteps \in Tails /\ AfterMissing \in Tails
  BY DEF Tails
<1>2. ASSUME NEW t \in Graders, Graded(t) PROVE Beyond(t, InstallSteps) /\ Started(t)
  BY <1>2 DEF Graded, Beyond, Started
<1>3. ASSUME vs.validation # NoAnswer, NEW r \in Requests
      PROVE  pc[r] \notin InstallSteps
  <2>1. PICK t \in Graders : Graded(t)
    BY <1>3 DEF RecordInv
  <2>2. SUFFICES ASSUME pc[r] \in InstallSteps PROVE FALSE
    OBVIOUS
  <2>3. slot[r] = t
    BY <1>1, <1>2, <2>1, <2>2, OnlyInstaller
  <2>4. at[t] = "reserved"
    BY <2>2, <2>3 DEF IInv, SlotInv, InstallSteps, SubmitSteps
  <2>5. QED
    BY <2>1, <2>4 DEF Graded
<1>4. ASSUME NEW r \in Requests, SubmitMissing(r) PROVE ~vs.missing_tc_ids
  <2>1. pc[r] = "missing_tc_ids"
    BY <1>4 DEF SubmitMissing, Assign
  <2>2. SUFFICES ASSUME NEW t \in Graders, Beyond(t, AfterMissing) PROVE FALSE
    BY DEF RecordInv
  <2>3. pc[r] \in AfterMissing
    BY <1>1, <2>1, <2>2, OnlyInstaller DEF InstallSteps
  <2>4. QED
    BY <2>1, <2>3 DEF AfterMissing
<1>5. ASSUME NEW r \in Requests, Arrive(r) \/ Proceed(r) PROVE Goal
  <2>1. /\ vs.validation # NoAnswer => ~SubmitClear(r) /\ ~SubmitStatus(r)
    BY <1>3 DEF SubmitClear, SubmitStatus, Assign, InstallSteps
  <2>2. ASSUME GetMark(r) \/ Cancel(r) PROVE vs'.status # "response_submitted"
    BY <2>2 DEF GetMark, Cancel, IInv, TypeOK, Fields
  <2>3. QED
    BY <1>4, <1>5, <2>1, <2>2, RequestWrites DEF Writers
<1>6. ASSUME NEW t \in Threads, Thread(t) PROVE Goal
  <2>1. ASSUME SettleWrite(t), at[t] = "status" PROVE vs'.status # "response_submitted"
    BY <2>1, SettleWriteFields DEF IInv, TypeOK
  <2>2. ASSUME vs.validation # NoAnswer PROVE at[t] # "validation"
    <3>1. PICK u \in Graders : Graded(u)
      BY <2>2 DEF RecordInv
    <3>2. SUFFICES ASSUME at[t] = "validation" PROVE FALSE
      OBVIOUS
    <3>3. t \in Graders /\ Beyond(t, InstallSteps)
      BY <3>2 DEF IInv, RoleInv, Threads, Beyond, Started
    <3>4. QED
      BY <1>2, <3>1, <3>2, <3>3 DEF Sole, Graded
  <2>3. QED
    BY <1>6, <2>1, <2>2, ThreadWrites DEF Writers
<1>7. CASE DeadlinePasses \/ UNCHANGED vars
  BY <1>7 DEF DeadlinePasses, vars
<1>8. QED
  BY <1>5, <1>6, <1>7 DEF Next

\* A step that brings a grade does not touch the status.
LEMMA GradeSettled ==
    ASSUME IInv, [Next]_vars, vs.validation = NoAnswer, vs'.validation # NoAnswer
    PROVE  vs'.status = vs.status
<1>1. ASSUME NEW t \in Threads, Thread(t) PROVE vs'.status = vs.status
  BY <1>1, ThreadWrites DEF Writers
<1>2. ASSUME NEW r \in Requests, Arrive(r) \/ Proceed(r) PROVE FALSE
  <2>1. SubmitClear(r)
    BY <1>2, RequestWrites DEF Writers
  <2>2. QED
    BY <2>1 DEF SubmitClear, Assign, IInv, TypeOK, Fields
<1>3. CASE DeadlinePasses \/ UNCHANGED vars
  BY <1>3 DEF DeadlinePasses, vars
<1>4. QED
  BY <1>1, <1>2, <1>3 DEF Next

\* A grade is that of the response on record, and nothing has failed.
LEMMA GradeOnRecord ==
    ASSUME IInv, RecordInv, SoleInv, Sole, vs.validation # NoAnswer
    PROVE  vs.status # "error" /\ vs.response = vs.validation
<1>1. PICK t \in Graders : Graded(t) /\ vs.validation = answer[t]
  BY DEF RecordInv
<1>2. Started(t) /\ Beyond(t, AfterResponse) /\ Beyond(t, InstallSteps)
  BY <1>1 DEF Graded, Started, Beyond
<1>3. vs.response = vs.validation
  BY <1>1, <1>2 DEF SoleInv
<1>4. SUFFICES ASSUME NEW u \in Threads, at[u] = "done", result[u] = "error"
               PROVE  FALSE
  BY <1>3 DEF RecordInv
<1>5. u # Generator
  BY <1>2, <1>4 DEF IInv, PublishedInv, Published, Whole, KeyIs, GenerationInv
<1>6. u \in Graders /\ Beyond(u, InstallSteps)
  BY <1>4, <1>5 DEF Threads, Beyond, Started
<1>7. u = t
  BY <1>2, <1>6 DEF Sole
<1>8. QED
  BY <1>1, <1>4, <1>7 DEF Graded

\* A submission being graded is on record.
LEMMA ResponseOnRecord ==
    ASSUME IInv, RecordInv, SoleInv, Sole, vs.status = "response_submitted"
    PROVE  vs.response # NoAnswer
<1>1. PICK t \in Graders : Beyond(t, AfterStatus)
  BY DEF RecordInv
<1>2. Beyond(t, AfterResponse)
  BY <1>1 DEF Beyond, AfterStatus, AfterResponse
<1>3. at[t] # "off"
  BY <1>1 DEF Beyond, Started, AfterStatus, IInv, SlotInv, SubmitSteps
<1>4. QED
  BY <1>2, <1>3, ConstantsAssumption DEF SoleInv, IInv, RoleInv

\* So the disposition is what the fields the reader reads last say.
LEMMA DispositionRead ==
    ASSUME IInv, RecordInv, SoleInv, Sole, ~vs.missing_tc_ids
    PROVE  /\ vs.validation # NoAnswer => Disposition = Grade(vs.validation)
           /\ vs.status = "response_submitted" /\ vs.validation = NoAnswer
                 => Disposition = "incomplete"
BY GradeOnRecord, ResponseOnRecord DEF Disposition

\* Without a grade or an error it says that there is none, unless it is too late.
LEMMA UngradedOrTooLate ==
    ASSUME IInv, ~vs.missing_tc_ids, vs.status # "error", vs.validation = NoAnswer
    PROVE  \/ Disposition \in {"unreceived", "incomplete"}
           \/ TooLate /\ vs.response = NoAnswer
<1>1. CASE vs.response = NoAnswer /\ past
  BY <1>1 DEF TooLate, IInv, AcceptedInv, Started, SettleFields
<1>2. CASE ~(vs.response = NoAnswer /\ past)
  BY <1>2 DEF Disposition, Expired
<1>3. QED
  BY <1>1, <1>2

\* Only for vectors that were published is there a response, and those did not
\* fail.
LEMMA ResponsePublished ==
    ASSUME IInv, RecordInv, vs.response # NoAnswer
    PROVE  Published
<1>1. PICK t \in Graders : Beyond(t, AfterResponse)
  BY DEF RecordInv
<1>2. QED
  BY <1>1 DEF Beyond, AfterResponse, IInv, PublishedInv, SubmitSteps

\* A response stays on record, though another may take its place.
LEMMA ResponseStays ==
    ASSUME IInv, [Next]_vars, vs.response # NoAnswer
    PROVE  vs'.response # NoAnswer
<1>1. ASSUME NEW r \in Requests, SubmitResponse(r) PROVE vs'.response # NoAnswer
  BY <1>1, ConstantsAssumption
     DEF SubmitResponse, Assign, Payload, IInv, SlotInv, SubmitSteps, RoleInv, TypeOK, Fields
<1>2. CASE \E r \in Requests : Arrive(r) \/ Proceed(r)
  BY <1>1, <1>2, RequestWrites DEF Writers
<1>3. CASE \E t \in Threads : Thread(t)
  BY <1>3, ThreadWrites DEF Writers
<1>4. CASE DeadlinePasses \/ UNCHANGED vars
  BY <1>4 DEF DeadlinePasses, vars
<1>5. QED
  BY <1>2, <1>3, <1>4 DEF Next

\* The clock never goes back.
LEMMA PastStays == ASSUME IInv, [Next]_vars, past PROVE past'
<1>1. ASSUME NEW t \in Threads, Thread(t) PROVE past'
  BY <1>1 DEF Thread, Run, SettleBegin, SettleWrite
<1>2. ASSUME NEW r \in Requests, Arrive(r) \/ Proceed(r) PROVE past'
  BY <1>2 DEF Arrive, Proceed, GetLookup, CancelLookup, SubmitLookup, GetServe, GetMark,
              Cancel, SubmitCheck, SubmitShowExpected, SubmitMissing, SubmitResponse,
              SubmitClear, SubmitStatus, SubmitSpawn, Assign
<1>3. CASE DeadlinePasses \/ UNCHANGED vars
  BY <1>3 DEF DeadlinePasses, vars
<1>4. QED
  BY <1>1, <1>2, <1>3 DEF Next

\* What is too late stays so: settle() refuses after the deadline.
LEMMA TooLateStays ==
    ASSUME IInv, RecordInv, [Next]_vars, TooLate
    PROVE  TooLate'
<1> USE DEF TooLate
<1>1. ASSUME NEW t \in Threads, Thread(t) PROVE TooLate'
  <2>1. CASE Run(t)
    BY <2>1, ThreadFrame, ThreadFacts DEF Run, IInv, TypeOK, SettleFields
  <2>2. CASE SettleBegin(t)
    <3>1. t \in Graders => at'[t] = "done"
      BY <2>2, ThreadFacts DEF SettleBegin, Expired, IInv, TypeOK
    <3>2. QED
      BY <2>2, <3>1, ThreadFrame, ThreadFacts DEF IInv, SettleFields
  <2>3. CASE SettleWrite(t)
    <3>1. t = Generator /\ at[t] # "validation" /\ at[t] # "done"
      BY <2>3, SettleWriteFields DEF Threads, IInv, RoleInv, SettleFields
    <3>2. vs.response = NoAnswer
      BY <3>1, ResponsePublished DEF Published
    <3>3. \A u \in Graders : at'[u] = at[u]
      BY <2>3, <3>1, SettleWriteFields, ThreadFacts DEF IInv, TypeOK
    <3>4. QED
      BY <2>3, <3>1, <3>2, <3>3, SettleWriteFields
  <2>4. QED
    BY <1>1, <2>1, <2>2, <2>3 DEF Thread
<1>2. ASSUME NEW r \in Requests, Arrive(r) \/ Proceed(r) PROVE TooLate'
  <2>1. past'
    BY <1>2, PastStays DEF Next
  <2>2. vs'.validation = NoAnswer
    <3>1. SubmitClear(r) => vs'.validation = NoAnswer
      BY DEF SubmitClear, Assign, IInv, TypeOK, Fields
    <3>2. QED
      BY <1>2, <3>1, RequestWrites DEF Writers
  <2>3. \A t \in Graders : at'[t] \notin SettleFields
    BY <1>2, RequestGoesOn, ThreadFacts DEF GoesOn, SettleFields
  <2>4. GetMark(r) \/ Cancel(r) \/ SubmitStatus(r) => vs'.status # "error"
    BY DEF GetMark, Cancel, SubmitStatus, Assign, IInv, TypeOK, Fields
  <2>5. SubmitResponse(r) => vs.status # "error"
    <3> SUFFICES ASSUME SubmitResponse(r), vs.status = "error" PROVE FALSE
      OBVIOUS
    <3>1. PICK t \in Threads : at[t] = "done" /\ result[t] = "error"
      BY DEF RecordInv
    <3>2. vs.prompt
      BY DEF SubmitResponse, Assign, IInv, PublishedInv, Published, Whole, KeyIs, SubmitSteps
    <3>3. t \in Graders /\ Started(t)
      BY <3>1, <3>2 DEF IInv, GenerationInv, Threads, Started
    <3>4. QED
      BY <3>3 DEF IInv, AcceptedInv
  <2>6. QED
    BY <1>2, <2>1, <2>2, <2>3, <2>4, <2>5, RequestWrites DEF Writers
<1>3. CASE DeadlinePasses \/ UNCHANGED vars
  BY <1>3 DEF DeadlinePasses, vars, threadVars
<1>4. QED
  BY <1>1, <1>2, <1>3 DEF Next

-----------------------------------------------------------------------------
(* The reader.                                                             *)

\* Whatever else happens, what it has read stays so.
LEMMA BesideStep == ResultsInv /\ Beside => ResultsInv'
<1> SUFFICES ASSUME ResultsInv, Beside PROVE ResultsInv'
  OBVIOUS
<1>1. IInv /\ RecordInv /\ SoleInv /\ [Next]_vars
  BY DEF ResultsInv, Beside
<1>2. IInv' /\ RecordInv' /\ SoleInv'
  BY <1>1, StepIInv, StepRecord, StepSole
<1>3. /\ step' = step /\ base' = base /\ said' = said /\ provided' = provided
      /\ seen' = IF step = "idle" THEN seen ELSE seen \union {Disposition'}
  BY DEF Beside
<1>4. Sole' => Sole
  BY <1>1, SoleBefore
<1>5. ReaderInv'
  BY <1>1, <1>3, <1>4, RecordStays DEF ResultsInv, ReaderInv
<1>6. JudgedInv'
  <2> SUFFICES ASSUME Sole', ~vs'.missing_tc_ids
               PROVE  /\ \/ said \in seen' \union {"nothing", ServerError}
                         \/ EngineGrades => Overtaken'
                      /\ step \in {"response", "clock"} =>
                            Ungraded' \/ vs'.validation # NoAnswer \/ TooLate'
                      /\ step \in {"missing", "validation"} =>
                            \/ Ungraded'
                            \/ vs'.validation # NoAnswer
                            \/ TooLate' /\ vs'.response # NoAnswer
                      /\ step = "submitted" => Ungraded'
                      /\ step = "submitted" /\ vs'.status = "response_submitted"
                         /\ vs'.validation # NoAnswer => "incomplete" \in seen'
    BY <1>3 DEF JudgedInv
  <2>1. Sole /\ ~vs.missing_tc_ids /\ seen \subseteq seen'
    BY <1>1, <1>3, <1>4, RecordStays
  <2>2. JudgedInv
    BY DEF ResultsInv
  <2>3. /\ Ungraded => Ungraded'
        /\ vs.validation # NoAnswer => vs'.validation # NoAnswer
        /\ vs.response # NoAnswer => vs'.response # NoAnswer
        /\ TooLate => TooLate'
    BY <1>1, <2>1, RecordStays, ResponseStays, TooLateStays DEF Ungraded
  <2>4. Overtaken => Overtaken'
    <3>1. past => past'
      BY <1>1, PastStays
    <3>2. QED
      BY <1>3, <2>1, <2>3, <3>1 DEF Overtaken
  <2>5. ASSUME step = "submitted", vs'.status = "response_submitted",
               vs'.validation # NoAnswer
        PROVE  "incomplete" \in seen'
    <3>1. CASE vs.validation # NoAnswer
      BY <1>1, <2>1, <2>5, <3>1, RecordStays DEF ResultsInv, JudgedInv
    <3>2. CASE vs.validation = NoAnswer
      <4>1. vs.status = "response_submitted"
        BY <1>1, <2>5, <3>2, GradeSettled
      <4>2. Disposition = "incomplete"
        BY <1>1, <2>1, <3>2, <4>1, DispositionRead
      <4>3. QED
        BY <2>1, <2>5, <4>2 DEF ResultsInv, ReaderInv
    <3>3. QED
      BY <3>1, <3>2
  <2>6. QED
    BY <2>1, <2>2, <2>3, <2>4, <2>5 DEF JudgedInv
<1>7. QED
  BY <1>2, <1>5, <1>6 DEF ResultsInv

\* A read finds what it relies on.
LEMMA ReadStep ==
    ASSUME ResultsInv, UNCHANGED vars,
           \/ ResultsLookup /\ seen' = {Disposition}
           \/ Read /\ UNCHANGED seen
    PROVE  ResultsInv'
<1> USE EmptyAssumption DEF ReaderInv, JudgedInv
<1>1. IInv' /\ RecordInv' /\ SoleInv'
  BY StutterIInv, StepRecord, StepSole DEF ResultsInv
<1>2. /\ vs' = vs /\ past' = past /\ Disposition' = Disposition /\ Sole' = Sole
      /\ TooLate' = TooLate
  BY DEF vars, TooLate, Disposition, Expired, Grade, Sole, Beyond, Started, requestVars, threadVars
<1>3. CASE ResultsLookup /\ seen' = {Disposition}
  BY <1>1, <1>2, <1>3 DEF ResultsLookup, ResultsInv, ServerError
<1>4. ASSUME seen' = seen, Read PROVE ReaderInv'
  <2> USE <1>2, <1>4 DEF ResultsInv
  <2>1. CASE ReadBase \/ ReadBaseAgain
    BY <2>1 DEF ReadBase, ReadBaseAgain, GoTo
  <2>2. CASE ReadError \/ ReadResponse \/ ReadClock
    BY <2>2 DEF ReadError, ReadResponse, ReadClock, GoTo, Say, ServerError
  <2>3. CASE ReadMissing \/ ReadValidation \/ ReadSubmitted
    BY <2>3 DEF ReadMissing, ReadValidation, ReadSubmitted, GoTo, Say, ServerError
  <2>4. CASE ReadVerdict
    <3>1. \A a : Grade(a) # ServerError
      BY DEF Grade, DISPOSITIONS, ServerError
    <3>2. QED
      BY <2>4, <3>1 DEF ReadVerdict, Say, Crash
  <2>5. CASE BuildBody
    BY <2>5 DEF BuildBody, GoTo, Crash
  <2>6. CASE Disclose
    BY <2>6, GradeOnRecord DEF Disclose
  <2>7. QED
    BY <2>1, <2>2, <2>3, <2>4, <2>5, <2>6 DEF Read
<1>5. ASSUME seen' = seen, Read, Sole, ~vs.missing_tc_ids
      PROVE  /\ \/ said' \in seen \union {"nothing", ServerError}
                \/ EngineGrades => Overtaken'
             /\ step' \in {"response", "clock"} =>
                   Ungraded \/ vs.validation # NoAnswer \/ TooLate
             /\ step' \in {"missing", "validation"} =>
                   \/ Ungraded
                   \/ vs.validation # NoAnswer
                   \/ TooLate /\ vs.response # NoAnswer
             /\ step' = "submitted" => Ungraded
             /\ step' = "submitted" /\ vs.status = "response_submitted"
                /\ vs.validation # NoAnswer => "incomplete" \in seen
  <2> USE <1>5 DEF ResultsInv
  <2>0. said' = said => (Overtaken => Overtaken')
    BY <1>2 DEF Overtaken, vars
  <2>1. CASE ReadBase \/ ReadBaseAgain \/ BuildBody \/ Disclose
    BY <2>0, <2>1 DEF ReadBase, ReadBaseAgain, BuildBody, Disclose, GoTo, Crash
  <2>2. CASE ReadError
    BY <2>0, <2>2, UngradedOrTooLate DEF ReadError, GoTo, Say, Disposition, Ungraded
  <2>3. CASE ReadResponse \/ ReadMissing
    BY <2>0, <2>3 DEF ReadResponse, ReadMissing, GoTo, Say
  <2>4. CASE ReadClock
    <3>1. CASE past
      <4>1. said' = "expired" /\ step' = "body"
        BY <2>4, <3>1 DEF ReadClock, Say, Expired
      <4>2. "expired" \in seen \/ vs.response # NoAnswer \/ "error" \in seen
        BY <2>4, <3>1 DEF ReadClock, Disposition, Expired
      <4>3. QED
        BY <1>2, <3>1, <4>1, <4>2 DEF Overtaken, vars
    <3>2. CASE ~past
      BY <2>0, <2>4, <3>2 DEF ReadClock, GoTo, Expired, TooLate
    <3>3. QED
      BY <3>1, <3>2
  <2>5. CASE ReadValidation
    <3>1. ASSUME TooLate, vs.response # NoAnswer PROVE Ungraded
      BY <2>5, <3>1, UngradedOrTooLate DEF TooLate, ReadValidation, Ungraded
    <3>2. QED
      BY <2>0, <2>5, <3>1 DEF ReadValidation, GoTo
  <2>6. CASE ReadVerdict
    BY <2>6, DispositionRead DEF ReadVerdict, Say, Crash
  <2>7. CASE ReadSubmitted
    <3>1. CASE vs.status = "response_submitted"
      BY <2>7, <3>1, DispositionRead DEF ReadSubmitted, Say
    <3>2. CASE vs.status # "response_submitted"
      <4>1. said' = "unreceived" /\ step' = "body" /\ Ungraded
        BY <2>7, <3>2 DEF ReadSubmitted, Say
      <4>2. EngineGrades => Disposition # "incomplete"
        <5>1. vs.validation # NoAnswer => vs.validation \in Answers
          BY DEF IInv, TypeOK, Fields
        <5>2. QED
          BY <3>2, <5>1 DEF Disposition, Grade, EngineGrades
      <4>3. Disposition \in seen
        BY <2>7 DEF ReadSubmitted
      <4>4. QED
        BY <4>1, <4>2, <4>3 DEF Overtaken, Ungraded
    <3>3. QED
      BY <3>1, <3>2
  <2>8. QED
    BY <2>1, <2>2, <2>3, <2>4, <2>5, <2>6, <2>7 DEF Read
<1>6. CASE Read /\ UNCHANGED seen
  <2>1. Ungraded' = Ungraded
    BY <1>6 DEF Ungraded
  <2>2. JudgedInv'
    BY <1>2, <1>5, <1>6, <2>1
  <2>3. QED
    BY <1>1, <1>4, <1>6, <2>2 DEF ResultsInv
<1>7. QED
  BY <1>3, <1>6

-----------------------------------------------------------------------------
LEMMA InitResultsInv == InitResults => ResultsInv
<1> SUFFICES ASSUME InitResults PROVE ResultsInv
  OBVIOUS
<1>1. IInv
  BY InitIInv DEF InitResults
<1>2. RecordInv
  BY ThreadFacts DEF InitResults, Init, NewVectorSet, RecordInv
<1>3. \A t \in Graders : ~Beyond(t, InstallSteps) /\ ~Beyond(t, AfterResponse)
  BY ThreadFacts DEF InitResults, Init, Beyond, Started, InstallSteps, AfterResponse
<1>4. SoleInv /\ ReaderInv /\ JudgedInv
  BY <1>3 DEF InitResults, SoleInv, ReaderInv, JudgedInv, ServerError
<1>5. QED
  BY <1>1, <1>2, <1>4 DEF ResultsInv

\* The invariant holds of every reachable state.
THEOREM ResultsInvariance == SpecResults => []ResultsInv
<1>1. ResultsInv /\ [NextResults]_allVars => ResultsInv'
  <2> SUFFICES ASSUME ResultsInv, [NextResults]_allVars PROVE ResultsInv'
    OBVIOUS
  <2>1. CASE NextResults
    <3>1. CASE Beside
      BY <3>1, BesideStep
    <3>2. CASE ResultsLookup /\ seen' = {Disposition} /\ UNCHANGED vars
      BY <3>2, ReadStep
    <3>3. CASE Read /\ UNCHANGED <<seen, vars>>
      <4>1. UNCHANGED seen /\ UNCHANGED vars
        BY <3>3
      <4>2. QED
        BY <3>3, <4>1, ReadStep
    <3>4. QED
      BY <2>1, <3>1, <3>2, <3>3 DEF NextResults
  <2>2. CASE UNCHANGED allVars
    <3>1. IInv' /\ RecordInv' /\ SoleInv'
      BY <2>2, StutterIInv, StepRecord, StepSole DEF ResultsInv, allVars
    <3>2. ReaderInv' /\ JudgedInv'
      BY <2>2 DEF allVars, readerVars, vars, requestVars, threadVars, ResultsInv,
                  ReaderInv, JudgedInv, TooLate, Ungraded, Overtaken, Disposition, Expired,
                  Grade, Sole, Beyond, Started
    <3>3. QED
      BY <3>1, <3>2 DEF ResultsInv
  <2>3. QED
    BY <2>1, <2>2
<1>2. QED
  BY <1>1, InitResultsInv, PTL DEF SpecResults

\* The reader changes nothing: beside it the vector set does what VectorSet
\* says, and all that is proved of VectorSet holds.
THEOREM ReaderOnlyReads == SpecResults => Spec
<1>1. InitResults => Init
  BY DEF InitResults
<1>2. [NextResults]_allVars => [Next]_vars
  BY DEF NextResults, Beside, allVars
<1>3. QED
  BY <1>1, <1>2, PTL DEF SpecResults, Spec

\* A second submission past the checks is a second submission.
LEMMA NotResubmitted == IInv /\ ~Resubmitted => Sole
<1> SUFFICES ASSUME IInv, NEW t \in Graders, Beyond(t, InstallSteps)
             PROVE  at[t] # "off"
  BY DEF Resubmitted, Sole
<1>1. QED
  BY DEF Beyond, Started, IInv, SlotInv, InstallSteps, SubmitSteps

\* Until a set is answered a second time, every request for results is served
\* and discloses the graded answers, whatever runs beside it.
THEOREM ServedUntilResubmittedHolds == SpecResults => []ServedUntilResubmitted
<1>1. ResultsInv => ServedUntilResubmitted
  BY NotResubmitted DEF ResultsInv, ReaderInv, ServedUntilResubmitted
<1>2. QED
  BY <1>1, ResultsInvariance, PTL

\* Until then, every judgement in a reply was the set's at some moment of the
\* request, or was overtaken as Overtaken says, for an engine whose grades are
\* verdicts.
THEOREM JudgementsAreRealHolds ==
    ASSUME EngineGrades
    PROVE  SpecResults => []JudgementsAreReal
<1>1. ResultsInv => JudgementsAreReal
  BY NotResubmitted DEF ResultsInv, JudgedInv, JudgementsAreReal
<1>2. QED
  BY <1>1, ResultsInvariance, PTL
=============================================================================
