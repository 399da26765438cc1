--------------------------- MODULE VectorSetProofs ---------------------------
(***************************************************************************)
(* Proofs about VectorSet for any requests, payloads and number of         *)
(* submissions.                                                            *)
(***************************************************************************)
EXTENDS VectorSetRequirements, TLAPS

\* Who is a thread.
LEMMA ThreadFacts ==
    /\ Generator \in Threads
    /\ Graders \subseteq Threads
    /\ Generator \notin Graders
    /\ Free \notin Threads
BY ConstantsAssumption DEF Generator, Graders, Threads, Free

\* What a settle writes, and after what.
LEMMA NextFieldFacts ==
    /\ DOMAIN NextField = SettleFields
    /\ \A f \in SettleFields : NextField[f] \in SettleFields \union {"done"}
BY DEF NextField, SettleFields

-----------------------------------------------------------------------------
\* The initial state is well typed.
LEMMA InitTypeOK == Init => TypeOK
<1> SUFFICES ASSUME Init PROVE TypeOK
  OBVIOUS
<1>1. vs \in Fields
  BY DEF Init, NewVectorSet, Fields, Statuses
<1>2. QED
  BY <1>1, ThreadFacts DEF Init, NoEmission, TypeOK, RequestSteps, ThreadSteps

\* Writing a field of a settle keeps every type.
LEMMA SettleWriteTypeOK ==
    ASSUME TypeOK, NEW t \in Threads, SettleWrite(t)
    PROVE  TypeOK'
<1>1. at[t] \in SettleFields
  BY NextFieldFacts DEF SettleWrite
<1>2. at' = [at EXCEPT ![t] = NextField[at[t]]] /\ NextField[at[t]] \in ThreadSteps
  BY <1>1, NextFieldFacts DEF SettleWrite, ThreadSteps
<1>3. lock' \in Threads \union {Free}
  BY DEF SettleWrite
<1>4. vs' \in Fields
  <2>1. CASE at[t] = "status"
    BY <2>1 DEF SettleWrite, FieldValue, TypeOK, Fields, Statuses
  <2>2. CASE at[t] = "validation"
    BY <2>2 DEF SettleWrite, FieldValue, TypeOK, Fields
  <2>3. CASE at[t] = "prompt"
    BY <2>3 DEF SettleWrite, FieldValue, TypeOK, Fields
  <2>4. CASE at[t] = "internal_projection"
    BY <2>4 DEF SettleWrite, FieldValue, TypeOK, Fields
  <2>5. CASE at[t] = "expected"
    BY <2>5 DEF SettleWrite, FieldValue, TypeOK, Fields
  <2>6. QED
    BY <1>1, <2>1, <2>2, <2>3, <2>4, <2>5 DEF SettleFields
<1>5. QED
  BY <1>2, <1>3, <1>4 DEF SettleWrite, TypeOK, requestVars

\* Storing a flag keeps the vector set well typed.
LEMMA FlagUpdate ==
    ASSUME NEW v \in Fields, NEW b \in BOOLEAN
    PROVE  /\ [v EXCEPT !.show_expected = b] \in Fields
           /\ [v EXCEPT !.missing_tc_ids = b] \in Fields
BY DEF Fields

\* Every step keeps every type.
LEMMA StepTypeOK == TypeOK /\ [Next]_vars => TypeOK'
<1> SUFFICES ASSUME TypeOK, [Next]_vars
             PROVE  TypeOK'
  OBVIOUS
<1> USE DEF TypeOK, requestVars, threadVars
<1>1. ASSUME NEW t \in Threads, Run(t)
      PROVE  TypeOK'
  BY <1>1 DEF Run, Returns, Emissions, ThreadSteps
<1>2. ASSUME NEW t \in Threads, SettleBegin(t)
      PROVE  TypeOK'
  BY <1>2 DEF SettleBegin, FirstField, ThreadSteps, SettleFields
<1>3. ASSUME NEW t \in Threads, SettleWrite(t)
      PROVE  TypeOK'
  BY <1>3, SettleWriteTypeOK
<1>4. ASSUME NEW r \in Requests, Arrive(r)
      PROVE  TypeOK'
  BY <1>4, ThreadFacts
     DEF Arrive, GetLookup, CancelLookup, SubmitLookup, RequestSteps, ThreadSteps
<1>5. ASSUME NEW r \in Requests, GetServe(r) \/ GetMark(r) \/ Cancel(r)
      PROVE  TypeOK'
  BY <1>5 DEF GetServe, GetMark, Cancel, RequestSteps, Fields, Statuses
<1>6. ASSUME NEW r \in Requests, SubmitCheck(r)
      PROVE  TypeOK'
  BY <1>6, ThreadFacts DEF SubmitCheck, Reject, RequestSteps, ThreadSteps
<1>7. ASSUME NEW r \in Requests, SubmitShowExpected(r)
      PROVE  TypeOK'
  <2> DEFINE flag == Payload(r) \in ShowExpected
  <2>a. flag \in BOOLEAN
    OBVIOUS
  <2>b. vs' = [vs EXCEPT !.show_expected = flag]
    BY <1>7 DEF SubmitShowExpected
  <2> HIDE DEF flag
  <2>1. vs' \in Fields
    BY <2>a, <2>b, FlagUpdate
  <2>2. QED
    BY <1>7, <2>1, ThreadFacts
       DEF SubmitShowExpected, Reject, RequestSteps, ThreadSteps
<1>8. ASSUME NEW r \in Requests, SubmitMissing(r) \/ SubmitResponse(r)
      PROVE  TypeOK'
  <2>1. CASE SubmitMissing(r)
    <3> DEFINE flag == Payload(r) \in Partial
    <3>a. flag \in BOOLEAN
      OBVIOUS
    <3>b. vs' = [vs EXCEPT !["missing_tc_ids"] = flag]
      BY <2>1 DEF SubmitMissing, Assign
    <3> HIDE DEF flag
    <3>1. vs' \in Fields
      BY <3>a, <3>b, FlagUpdate
    <3>2. QED
      BY <2>1, <3>1 DEF SubmitMissing, Assign, RequestSteps
  <2>2. CASE SubmitResponse(r)
    BY <2>2 DEF SubmitResponse, Assign, Payload, RequestSteps, Fields
  <2>3. QED
    BY <1>8, <2>1, <2>2
<1>9. ASSUME NEW r \in Requests, SubmitClear(r) \/ SubmitStatus(r)
      PROVE  TypeOK'
  BY <1>9 DEF SubmitClear, SubmitStatus, Assign, RequestSteps, Fields, Statuses
<1>10. ASSUME NEW r \in Requests, SubmitSpawn(r)
       PROVE  TypeOK'
  BY <1>10, ThreadFacts DEF SubmitSpawn, RequestSteps, ThreadSteps
<1>11. CASE DeadlinePasses
  BY <1>11 DEF DeadlinePasses
<1>12. CASE UNCHANGED vars
  BY <1>12 DEF vars
<1>13. QED
  BY <1>1, <1>2, <1>3, <1>4, <1>5, <1>6, <1>7, <1>8, <1>9, <1>10, <1>11, <1>12
     DEF Next, Thread, Proceed

\* Every reachable state is well typed.
THEOREM TypeCorrect == Spec => []TypeOK
BY InitTypeOK, StepTypeOK, PTL DEF Spec

-----------------------------------------------------------------------------
(* The inductive invariant behind the safety properties.                   *)

SubmitSteps == {"check", "show_expected", "missing_tc_ids", "response",
                "validation", "status", "spawn"}
KeyFields == {"prompt", "internal_projection", "expected"}

\* A request that carries a submission holds a thread no other request holds.
SlotInv ==
    /\ \A r \in Requests :
          pc[r] \in SubmitSteps => slot[r] \in Graders /\ at[slot[r]] = "reserved"
    /\ \A q, r \in Requests :
          pc[q] \in SubmitSteps /\ pc[r] \in SubmitSteps /\ q # r
             => slot[q] # slot[r]

\* The lock is held by exactly the thread that is writing a settle.
LockInv == \A t \in Threads : at[t] \in SettleFields <=> lock = t

\* Who computes what: graders write grades, the generator writes vectors.
RoleInv ==
    /\ at[Generator] \notin {"off", "reserved", "validation"}
    /\ at[Generator] \in KeyFields => result[Generator] = "ready"
    /\ result[Generator] # "disposition"
    /\ \A t \in Graders : at[t] \notin KeyFields /\ result[t] # "ready"
    /\ \A t \in Threads : at[t] \in {"settle"} \union SettleFields
                              => result[t] # "generating"
    /\ \A t \in Graders : at[t] # "off" => answer[t] \in Answers

KeyIs(prompt, projection, expected) ==
    /\ vs.prompt = prompt
    /\ vs.internal_projection = projection
    /\ vs.expected = expected

\* Nothing of a generation, and all that the engine emitted.
Nothing == KeyIs(FALSE, FALSE, FALSE)
Whole == KeyIs(TRUE, emitted.internal_projection, emitted.expected)

\* How far the generating thread has got shows in the fields, and until it is
\* done nothing but a cancel touches the status.  A prompt means that the engine
\* returned, and the NIST engine does not return without a key.
GenerationInv ==
    /\ at[Generator] \in {"run", "settle", "prompt"} => Nothing
    /\ at[Generator] = "internal_projection" => KeyIs(TRUE, FALSE, FALSE)
    /\ at[Generator] = "expected" => KeyIs(TRUE, emitted.internal_projection, FALSE)
    /\ at[Generator] = "status" /\ result[Generator] = "ready" => Whole
    /\ at[Generator] = "status" /\ result[Generator] # "ready" => Nothing
    /\ at[Generator] = "done" => Whole \/ Nothing
    /\ at[Generator] = "done" /\ vs.status = "generating" => Nothing
    /\ at[Generator] # "done" => vs.status \in {"generating", "cancelled"}
    /\ vs.prompt => result[Generator] = "ready"
    /\ UseNistGenval /\ result[Generator] = "ready" => emitted.internal_projection

Published == at[Generator] = "done" /\ Whole

\* Requests past their check of the prompt, and the threads they started, run
\* after generation was published.
PublishedInv ==
    /\ retrieved => Published
    /\ \A r \in Requests :
          pc[r] \in {"mark"} \union (SubmitSteps \ {"check"}) => Published
    /\ \A t \in Graders : Started(t) => Published

\* An accepted submission is on record before its thread starts.
AcceptedInv ==
    /\ \A r \in Requests : pc[r] \in {"validation", "status", "spawn"}
                               => vs.response # NoAnswer
    /\ \A t \in Graders : Started(t) => vs.response # NoAnswer

IInv == /\ TypeOK
        /\ SlotInv
        /\ LockInv
        /\ RoleInv
        /\ NoSettleOverCancel
        /\ GenerationInv
        /\ PublishedInv
        /\ AcceptedInv

-----------------------------------------------------------------------------
(* One lemma per action: the action keeps every part of the invariant.     *)

\* Once a prompt is there and the status says so, generation is over.
LEMMA PromptPublished ==
    ASSUME IInv, vs.prompt, vs.status # "generating"
    PROVE  Published
<1>1. CASE at[Generator] = "done"
  BY <1>1, ThreadFacts DEF IInv, TypeOK, Fields, GenerationInv, KeyIs, Nothing, Whole, Published
<1>2. CASE at[Generator] \in SettleFields
  BY <1>2, ThreadFacts DEF IInv, GenerationInv, NoSettleOverCancel, Listed, SettleFields
<1>3. CASE at[Generator] \in {"run", "settle"}
  BY <1>3, ThreadFacts DEF IInv, GenerationInv, KeyIs, Nothing, Whole
<1>4. QED
  BY <1>1, <1>2, <1>3, ThreadFacts DEF IInv, TypeOK, RoleInv, ThreadSteps

\* A settle writes one of its fields.
LEMMA SettleWriteEffect ==
    ASSUME IInv, NEW t \in Threads, SettleWrite(t)
    PROVE  /\ at[t] \in SettleFields
           /\ vs'.response = vs.response
           /\ at[t] # "status" => vs'.status = vs.status
<1>1. at[t] \in SettleFields
  BY NextFieldFacts DEF SettleWrite
<1>2. vs'.response = vs.response
  BY <1>1 DEF SettleWrite, SettleFields, IInv, TypeOK, Fields
<1>3. ASSUME at[t] # "status" PROVE vs'.status = vs.status
  BY <1>1, <1>3 DEF SettleWrite, SettleFields, IInv, TypeOK, Fields
<1>4. QED
  BY <1>1, <1>2, <1>3

\* The engine returning changes neither the set nor who holds what.
LEMMA RunIInv ==
    ASSUME IInv, TypeOK', NEW t \in Threads, Run(t)
    PROVE  IInv'
<1> USE ThreadFacts DEF IInv, TypeOK, Fields, requestVars, threadVars
<1>1. SlotInv'
  BY DEF Run, SlotInv
<1>2. LockInv'
  BY DEF Run, LockInv, SettleFields
<1>3. RoleInv'
  BY DEF Run, Returns, RoleInv, KeyFields
<1>4. NoSettleOverCancel'
  BY DEF Run, NoSettleOverCancel, SettleFields, Listed
<1>5. GenerationInv'
  BY DEF Run, Returns, Emissions, GenerationInv, KeyIs, Nothing, Whole
<1>6. PublishedInv'
  BY DEF Run, Returns, PublishedInv, KeyIs, Nothing, Whole, Published, Started
<1>7. AcceptedInv'
  BY DEF Run, AcceptedInv, Started
<1>8. QED
  BY <1>1, <1>2, <1>3, <1>4, <1>5, <1>6, <1>7

\* settle() taking the lock: its check makes NoSettleOverCancel true.
LEMMA SettleBeginIInv ==
    ASSUME IInv, TypeOK', NEW t \in Threads, SettleBegin(t)
    PROVE  IInv'
<1> USE ThreadFacts DEF IInv, TypeOK, Fields, requestVars, threadVars
<1>1. SlotInv'
  BY DEF SettleBegin, SlotInv
<1>2. LockInv'
  BY DEF SettleBegin, FirstField, LockInv, SettleFields
<1>3. RoleInv'
  BY DEF SettleBegin, FirstField, RoleInv, KeyFields
<1>4. NoSettleOverCancel'
  BY DEF SettleBegin, NoSettleOverCancel, SettleFields, Listed
<1>5. GenerationInv'
  BY DEF SettleBegin, FirstField, GenerationInv, KeyIs, Nothing, Whole
<1>6. PublishedInv'
  BY DEF SettleBegin, PublishedInv, KeyIs, Nothing, Whole, Published, Started
<1>7. AcceptedInv'
  BY DEF SettleBegin, AcceptedInv, Started
<1>8. QED
  BY <1>1, <1>2, <1>3, <1>4, <1>5, <1>6, <1>7

\* One write of a settle: generation advances a field, or a grade lands.
LEMMA SettleWriteIInv ==
    ASSUME IInv, TypeOK', NEW t \in Threads, SettleWrite(t)
    PROVE  IInv'
<1> USE ThreadFacts DEF IInv, TypeOK, Fields, requestVars, threadVars
<1>1. SlotInv'
  BY DEF SettleWrite, NextField, SlotInv
<1>2. LockInv'
  BY DEF SettleWrite, NextField, LockInv, SettleFields
<1>3. RoleInv'
  BY DEF SettleWrite, NextField, RoleInv, SettleFields, KeyFields
<1>4. NoSettleOverCancel'
  BY DEF SettleWrite, NextField, FieldValue, NoSettleOverCancel, SettleFields, Listed
<1>5. GenerationInv'
  <2>1. CASE t = Generator /\ at[t] = "prompt"
    BY <2>1 DEF SettleWrite, NextField, FieldValue, GenerationInv, KeyIs, Nothing, Whole,
                RoleInv, KeyFields
  <2>2. CASE t = Generator /\ at[t] = "internal_projection"
    BY <2>2 DEF SettleWrite, NextField, FieldValue, GenerationInv, KeyIs, Nothing, Whole
  <2>3. CASE t = Generator /\ at[t] = "expected"
    BY <2>3 DEF SettleWrite, NextField, FieldValue, GenerationInv, KeyIs, Nothing, Whole,
                KeyFields, RoleInv
  <2>4. CASE t = Generator /\ at[t] = "status"
    BY <2>4 DEF SettleWrite, NextField, FieldValue, GenerationInv, KeyIs, Nothing, Whole
  <2>5. CASE t # Generator /\ at[t] = "validation"
    BY <2>5 DEF SettleWrite, GenerationInv, KeyIs, Nothing, Whole
  <2>6. CASE t # Generator /\ at[t] = "status"
    <3>1. Published
      BY <2>6, ThreadFacts DEF PublishedInv, Started, Threads
    <3>2. result[t] # "generating"
      BY <2>6 DEF RoleInv, SettleFields
    <3>3. vs' = [vs EXCEPT !["status"] = result[t]] /\ at'[Generator] = "done"
      BY <2>6, <3>1 DEF SettleWrite, FieldValue, Published
    <3>4. QED
      BY <3>1, <3>2, <3>3
         DEF SettleWrite, GenerationInv, Published, KeyIs, Nothing, Whole
  <2>7. QED
    BY <2>1, <2>2, <2>3, <2>4, <2>5, <2>6, SettleWriteEffect
       DEF SettleFields, RoleInv, KeyFields, Threads
<1>6. PublishedInv'
  <2>1. Published => Published'
    <3> SUFFICES ASSUME Published PROVE Published'
      OBVIOUS
    <3>1. t # Generator /\ at[t] \in {"validation", "status"}
      BY SettleWriteEffect DEF Published, SettleFields, RoleInv, KeyFields, Threads
    <3>2. QED
      BY <3>1 DEF SettleWrite, Published, KeyIs, Nothing, Whole
  <2>2. /\ retrieved' = retrieved /\ pc' = pc
        /\ \A u \in Graders : Started(u)' => Started(u)
    BY SettleWriteEffect DEF SettleWrite, SettleFields, Started
  <2>3. QED
    BY <2>1, <2>2 DEF PublishedInv
<1>7. AcceptedInv'
  BY SettleWriteEffect DEF SettleWrite, AcceptedInv, SettleFields, Started
<1>8. QED
  BY <1>1, <1>2, <1>3, <1>4, <1>5, <1>6, <1>7

\* A GET arriving.
LEMMA GetLookupIInv ==
    ASSUME IInv, TypeOK', NEW r \in Requests, GetLookup(r)
    PROVE  IInv'
<1> USE ThreadFacts DEF IInv, TypeOK, Fields, requestVars, threadVars
<1>1. SlotInv'
  BY DEF GetLookup, SlotInv, SubmitSteps
<1>2. LockInv'
  BY DEF GetLookup, LockInv
<1>3. RoleInv'
  BY DEF GetLookup, RoleInv
<1>4. NoSettleOverCancel'
  BY DEF GetLookup, NoSettleOverCancel, Listed
<1>5. GenerationInv'
  BY DEF GetLookup, GenerationInv, KeyIs, Nothing, Whole
<1>6. PublishedInv'
  BY DEF GetLookup, PublishedInv, KeyIs, Nothing, Whole, Published, SubmitSteps, Started
<1>7. AcceptedInv'
  BY DEF GetLookup, AcceptedInv, Started
<1>8. QED
  BY <1>1, <1>2, <1>3, <1>4, <1>5, <1>6, <1>7

\* A DELETE arriving.
LEMMA CancelLookupIInv ==
    ASSUME IInv, TypeOK', NEW r \in Requests, CancelLookup(r)
    PROVE  IInv'
<1> USE ThreadFacts DEF IInv, TypeOK, Fields, requestVars, threadVars
<1>1. SlotInv'
  BY DEF CancelLookup, SlotInv, SubmitSteps
<1>2. LockInv'
  BY DEF CancelLookup, LockInv
<1>3. RoleInv'
  BY DEF CancelLookup, RoleInv
<1>4. NoSettleOverCancel'
  BY DEF CancelLookup, NoSettleOverCancel, Listed
<1>5. GenerationInv'
  BY DEF CancelLookup, GenerationInv, KeyIs, Nothing, Whole
<1>6. PublishedInv'
  BY DEF CancelLookup, PublishedInv, KeyIs, Nothing, Whole, Published, SubmitSteps, Started
<1>7. AcceptedInv'
  BY DEF CancelLookup, AcceptedInv, Started
<1>8. QED
  BY <1>1, <1>2, <1>3, <1>4, <1>5, <1>6, <1>7

\* A submission arriving: it reserves a thread nobody holds.
LEMMA SubmitLookupIInv ==
    ASSUME IInv, TypeOK', NEW r \in Requests, NEW a \in Answers, SubmitLookup(r, a)
    PROVE  IInv'
<1> USE ThreadFacts DEF IInv, TypeOK, Fields, requestVars, threadVars
<1>1. SlotInv'
  BY DEF SubmitLookup, SlotInv
<1>2. LockInv'
  BY DEF SubmitLookup, LockInv, SettleFields
<1>3. RoleInv'
  BY DEF SubmitLookup, RoleInv, SettleFields, KeyFields
<1>4. NoSettleOverCancel'
  BY DEF SubmitLookup, NoSettleOverCancel, Listed
<1>5. GenerationInv'
  BY DEF SubmitLookup, GenerationInv, KeyIs, Nothing, Whole
<1>6. PublishedInv'
  BY DEF SubmitLookup, PublishedInv, KeyIs, Nothing, Whole, Published, Started
<1>7. AcceptedInv'
  BY DEF SubmitLookup, AcceptedInv, Started
<1>8. QED
  BY <1>1, <1>2, <1>3, <1>4, <1>5, <1>6, <1>7

\* Serving the prompt: only a published one is served.
LEMMA GetServeIInv ==
    ASSUME IInv, TypeOK', NEW r \in Requests, GetServe(r)
    PROVE  IInv'
<1> USE ThreadFacts DEF IInv, TypeOK, Fields, requestVars, threadVars
<1>1. SlotInv'
  BY DEF GetServe, SlotInv, SubmitSteps
<1>2. LockInv'
  BY DEF GetServe, LockInv
<1>3. RoleInv'
  BY DEF GetServe, RoleInv
<1>4. NoSettleOverCancel'
  BY DEF GetServe, NoSettleOverCancel, Listed
<1>5. GenerationInv'
  BY DEF GetServe, GenerationInv, KeyIs, Nothing, Whole
<1>6. PublishedInv'
  <2>1. vs' = vs /\ at' = at /\ emitted' = emitted
    BY DEF GetServe
  <2>2. Published' <=> Published
    BY <2>1 DEF Published, KeyIs, Nothing, Whole
  <2>3. CASE Published
    BY <2>2, <2>3 DEF PublishedInv
  <2>4. CASE ~Published
    <3>1. vs.status = "generating" \/ ~vs.prompt
      BY <2>4, PromptPublished
    <3>2. retrieved' = retrieved /\ pc' = [pc EXCEPT ![r] = "idle"]
      BY <3>1 DEF GetServe
    <3>3. QED
      BY <2>1, <2>2, <3>2 DEF PublishedInv, Started, SubmitSteps
  <2>5. QED
    BY <2>3, <2>4
<1>7. AcceptedInv'
  BY DEF GetServe, AcceptedInv, Started
<1>8. QED
  BY <1>1, <1>2, <1>3, <1>4, <1>5, <1>6, <1>7

\* Marking the set as retrieved.
LEMMA GetMarkIInv ==
    ASSUME IInv, TypeOK', NEW r \in Requests, GetMark(r)
    PROVE  IInv'
<1> USE ThreadFacts DEF IInv, TypeOK, Fields, requestVars, threadVars
<1>1. SlotInv'
  BY DEF GetMark, SlotInv, SubmitSteps
<1>2. LockInv'
  BY DEF GetMark, LockInv
<1>3. RoleInv'
  BY DEF GetMark, RoleInv
<1>4. NoSettleOverCancel'
  BY DEF GetMark, NoSettleOverCancel, Listed
<1>5. GenerationInv'
  BY DEF GetMark, GenerationInv, KeyIs, Nothing, Whole, PublishedInv, Published
<1>6. PublishedInv'
  BY DEF GetMark, PublishedInv, KeyIs, Nothing, Whole, Published
<1>7. AcceptedInv'
  BY DEF GetMark, AcceptedInv, Started
<1>8. QED
  BY <1>1, <1>2, <1>3, <1>4, <1>5, <1>6, <1>7

\* Cancelling: the lock keeps it out of a settle.
LEMMA CancelIInv ==
    ASSUME IInv, TypeOK', NEW r \in Requests, Cancel(r)
    PROVE  IInv'
<1> USE ThreadFacts DEF IInv, TypeOK, Fields, requestVars, threadVars
<1>1. SlotInv'
  BY DEF Cancel, SlotInv, SubmitSteps
<1>2. LockInv'
  BY DEF Cancel, LockInv
<1>3. RoleInv'
  BY DEF Cancel, RoleInv
<1>4. NoSettleOverCancel'
  BY DEF Cancel, NoSettleOverCancel, LockInv
<1>5. GenerationInv'
  BY DEF Cancel, GenerationInv, KeyIs, Nothing, Whole
<1>6. PublishedInv'
  BY DEF Cancel, PublishedInv, KeyIs, Nothing, Whole, Published, SubmitSteps, Started
<1>7. AcceptedInv'
  BY DEF Cancel, AcceptedInv, Started
<1>8. QED
  BY <1>1, <1>2, <1>3, <1>4, <1>5, <1>6, <1>7

\* The 409 check: who passes it found a published prompt.
LEMMA SubmitCheckIInv ==
    ASSUME IInv, TypeOK', NEW r \in Requests, SubmitCheck(r)
    PROVE  IInv'
<1> USE ThreadFacts DEF IInv, TypeOK, Fields, requestVars, threadVars
<1>1. SlotInv'
  BY DEF SubmitCheck, Reject, SlotInv, SubmitSteps
<1>2. LockInv'
  BY DEF SubmitCheck, Reject, LockInv, SettleFields, SlotInv, SubmitSteps
<1>3. RoleInv'
  BY DEF SubmitCheck, Reject, RoleInv, SettleFields, KeyFields, SlotInv, SubmitSteps
<1>4. NoSettleOverCancel'
  BY DEF SubmitCheck, Reject, NoSettleOverCancel, SettleFields, Listed
<1>5. GenerationInv'
  BY DEF SubmitCheck, Reject, GenerationInv, KeyIs, Nothing, Whole, SlotInv, SubmitSteps
<1>6. PublishedInv'
  <2>1. vs' = vs /\ retrieved' = retrieved
    BY DEF SubmitCheck
  <2>2. at'[Generator] = at[Generator] /\ emitted' = emitted
    BY DEF SubmitCheck, Reject, SlotInv, SubmitSteps
  <2>3. Published' <=> Published
    BY <2>1, <2>2 DEF Published, KeyIs, Nothing, Whole
  <2>4. CASE Published
    BY <2>3, <2>4 DEF PublishedInv
  <2>5. CASE ~Published
    <3>1. vs.status = "generating" \/ ~vs.prompt
      BY <2>5, PromptPublished
    <3>2. /\ pc' = [pc EXCEPT ![r] = "idle"]
          /\ at' = [at EXCEPT ![slot[r]] = "off"]
      BY <3>1 DEF SubmitCheck, Reject
    <3>3. QED
      BY <2>1, <2>3, <3>2 DEF PublishedInv, Started, SubmitSteps
  <2>6. QED
    BY <2>4, <2>5
<1>7. AcceptedInv'
  BY DEF SubmitCheck, Reject, AcceptedInv, Started
<1>8. QED
  BY <1>1, <1>2, <1>3, <1>4, <1>5, <1>6, <1>7

\* Storing the flag, and rejecting a malformed payload.
LEMMA SubmitShowExpectedIInv ==
    ASSUME IInv, TypeOK', NEW r \in Requests, SubmitShowExpected(r)
    PROVE  IInv'
<1> USE ThreadFacts DEF IInv, TypeOK, Fields, requestVars, threadVars
<1>1. SlotInv'
  BY DEF SubmitShowExpected, Reject, SlotInv, SubmitSteps
<1>2. LockInv'
  BY DEF SubmitShowExpected, Reject, LockInv, SettleFields, SlotInv, SubmitSteps
<1>3. RoleInv'
  BY DEF SubmitShowExpected, Reject, RoleInv, SettleFields, KeyFields, SlotInv, SubmitSteps
<1>4. NoSettleOverCancel'
  BY DEF SubmitShowExpected, Reject, NoSettleOverCancel, SettleFields, Listed
<1>5. GenerationInv'
  BY DEF SubmitShowExpected, Reject, GenerationInv, KeyIs, Nothing, Whole, SlotInv, SubmitSteps
<1>6. PublishedInv'
  BY DEF SubmitShowExpected, Reject, PublishedInv, KeyIs, Nothing, Whole, Published,
         SubmitSteps, SlotInv
<1>7. AcceptedInv'
  BY DEF SubmitShowExpected, Reject, AcceptedInv, Started
<1>8. QED
  BY <1>1, <1>2, <1>3, <1>4, <1>5, <1>6, <1>7

\* Storing which test cases are missing.
LEMMA SubmitMissingIInv ==
    ASSUME IInv, TypeOK', NEW r \in Requests, SubmitMissing(r)
    PROVE  IInv'
<1> USE ThreadFacts DEF IInv, TypeOK, Fields, requestVars, threadVars
<1>1. SlotInv'
  BY DEF SubmitMissing, Assign, SlotInv, SubmitSteps
<1>2. LockInv'
  BY DEF SubmitMissing, Assign, LockInv
<1>3. RoleInv'
  BY DEF SubmitMissing, Assign, RoleInv
<1>4. NoSettleOverCancel'
  BY DEF SubmitMissing, Assign, NoSettleOverCancel, Listed
<1>5. GenerationInv'
  BY DEF SubmitMissing, Assign, GenerationInv, KeyIs, Nothing, Whole
<1>6. PublishedInv'
  BY DEF SubmitMissing, Assign, PublishedInv, KeyIs, Nothing, Whole, Published, SubmitSteps
<1>7. AcceptedInv'
  BY DEF SubmitMissing, Assign, AcceptedInv, Started
<1>8. QED
  BY <1>1, <1>2, <1>3, <1>4, <1>5, <1>6, <1>7

\* Storing the payload: from here on a response is on record.
LEMMA SubmitResponseIInv ==
    ASSUME IInv, TypeOK', NEW r \in Requests, SubmitResponse(r)
    PROVE  IInv'
<1> USE ThreadFacts DEF IInv, TypeOK, Fields, requestVars, threadVars
<1>1. SlotInv'
  BY DEF SubmitResponse, Assign, SlotInv, SubmitSteps
<1>2. LockInv'
  BY DEF SubmitResponse, Assign, LockInv
<1>3. RoleInv'
  BY DEF SubmitResponse, Assign, RoleInv
<1>4. NoSettleOverCancel'
  BY DEF SubmitResponse, Assign, NoSettleOverCancel, Listed
<1>5. GenerationInv'
  BY DEF SubmitResponse, Assign, GenerationInv, KeyIs, Nothing, Whole
<1>6. PublishedInv'
  BY DEF SubmitResponse, Assign, PublishedInv, KeyIs, Nothing, Whole, Published, SubmitSteps
<1>7. AcceptedInv'
  BY ConstantsAssumption
     DEF SubmitResponse, Assign, Payload, AcceptedInv, SlotInv, SubmitSteps, RoleInv
<1>8. QED
  BY <1>1, <1>2, <1>3, <1>4, <1>5, <1>6, <1>7

\* Clearing the grade.
LEMMA SubmitClearIInv ==
    ASSUME IInv, TypeOK', NEW r \in Requests, SubmitClear(r)
    PROVE  IInv'
<1> USE ThreadFacts DEF IInv, TypeOK, Fields, requestVars, threadVars
<1>1. SlotInv'
  BY DEF SubmitClear, Assign, SlotInv, SubmitSteps
<1>2. LockInv'
  BY DEF SubmitClear, Assign, LockInv
<1>3. RoleInv'
  BY DEF SubmitClear, Assign, RoleInv
<1>4. NoSettleOverCancel'
  BY DEF SubmitClear, Assign, NoSettleOverCancel, Listed
<1>5. GenerationInv'
  BY DEF SubmitClear, Assign, GenerationInv, KeyIs, Nothing, Whole
<1>6. PublishedInv'
  BY DEF SubmitClear, Assign, PublishedInv, KeyIs, Nothing, Whole, Published, SubmitSteps
<1>7. AcceptedInv'
  BY DEF SubmitClear, Assign, AcceptedInv
<1>8. QED
  BY <1>1, <1>2, <1>3, <1>4, <1>5, <1>6, <1>7

\* Publishing the submission: generation is over by then.
LEMMA SubmitStatusIInv ==
    ASSUME IInv, TypeOK', NEW r \in Requests, SubmitStatus(r)
    PROVE  IInv'
<1> USE ThreadFacts DEF IInv, TypeOK, Fields, requestVars, threadVars
<1>1. SlotInv'
  BY DEF SubmitStatus, Assign, SlotInv, SubmitSteps
<1>2. LockInv'
  BY DEF SubmitStatus, Assign, LockInv
<1>3. RoleInv'
  BY DEF SubmitStatus, Assign, RoleInv
<1>4. NoSettleOverCancel'
  BY DEF SubmitStatus, Assign, NoSettleOverCancel, Listed
<1>5. GenerationInv'
  BY DEF SubmitStatus, Assign, GenerationInv, KeyIs, Nothing, Whole, PublishedInv,
         SubmitSteps, Published
<1>6. PublishedInv'
  BY DEF SubmitStatus, Assign, PublishedInv, KeyIs, Nothing, Whole, Published, SubmitSteps
<1>7. AcceptedInv'
  BY DEF SubmitStatus, Assign, AcceptedInv
<1>8. QED
  BY <1>1, <1>2, <1>3, <1>4, <1>5, <1>6, <1>7

\* Starting the grading thread.
LEMMA SubmitSpawnIInv ==
    ASSUME IInv, TypeOK', NEW r \in Requests, SubmitSpawn(r)
    PROVE  IInv'
<1> USE ThreadFacts DEF IInv, TypeOK, Fields, requestVars, threadVars
<1>1. SlotInv'
  BY DEF SubmitSpawn, SlotInv, SubmitSteps
<1>2. LockInv'
  BY DEF SubmitSpawn, LockInv, SettleFields, SlotInv, SubmitSteps
<1>3. RoleInv'
  BY DEF SubmitSpawn, RoleInv, SettleFields, KeyFields, SlotInv, SubmitSteps
<1>4. NoSettleOverCancel'
  BY DEF SubmitSpawn, NoSettleOverCancel, SettleFields, Listed
<1>5. GenerationInv'
  BY DEF SubmitSpawn, GenerationInv, KeyIs, Nothing, Whole, SlotInv, SubmitSteps
<1>6. PublishedInv'
  BY DEF SubmitSpawn, PublishedInv, KeyIs, Nothing, Whole, Published, SubmitSteps, SlotInv
<1>7. AcceptedInv'
  BY DEF SubmitSpawn, AcceptedInv
<1>8. QED
  BY <1>1, <1>2, <1>3, <1>4, <1>5, <1>6, <1>7

\* The clock.
LEMMA DeadlinePassesIInv ==
    ASSUME IInv, TypeOK', DeadlinePasses
    PROVE  IInv'
<1> USE ThreadFacts DEF IInv, TypeOK, Fields, requestVars, threadVars
<1>1. SlotInv'
  BY DEF DeadlinePasses, SlotInv
<1>2. LockInv'
  BY DEF DeadlinePasses, LockInv
<1>3. RoleInv'
  BY DEF DeadlinePasses, RoleInv
<1>4. NoSettleOverCancel'
  BY DEF DeadlinePasses, NoSettleOverCancel, Listed
<1>5. GenerationInv'
  BY DEF DeadlinePasses, GenerationInv, KeyIs, Nothing, Whole
<1>6. PublishedInv'
  BY DEF DeadlinePasses, PublishedInv, KeyIs, Nothing, Whole, Published, Started
<1>7. AcceptedInv'
  BY DEF DeadlinePasses, AcceptedInv, Started
<1>8. QED
  BY <1>1, <1>2, <1>3, <1>4, <1>5, <1>6, <1>7

-----------------------------------------------------------------------------
\* The invariant holds initially,
LEMMA InitIInv == Init => IInv
<1> SUFFICES ASSUME Init PROVE IInv
  OBVIOUS
<1> USE ThreadFacts DEF Init, NewVectorSet
<1>1. TypeOK
  BY InitTypeOK
<1>2. SlotInv
  BY DEF SlotInv, SubmitSteps
<1>3. LockInv
  BY DEF LockInv, SettleFields
<1>4. RoleInv
  BY DEF RoleInv, SettleFields, KeyFields
<1>5. NoSettleOverCancel
  BY DEF NoSettleOverCancel, SettleFields
<1>6. GenerationInv
  BY DEF GenerationInv, KeyIs, Nothing, Whole
<1>7. PublishedInv
  BY DEF PublishedInv, SubmitSteps, Started
<1>8. AcceptedInv
  BY DEF AcceptedInv, Started
<1>9. QED
  BY <1>1, <1>2, <1>3, <1>4, <1>5, <1>6, <1>7, <1>8 DEF IInv

\* steps that change nothing keep it,
LEMMA StutterIInv == IInv /\ UNCHANGED vars => IInv'
<1> SUFFICES ASSUME IInv, UNCHANGED vars PROVE IInv'
  OBVIOUS
<1> USE DEF vars, requestVars, threadVars, IInv
<1>1. TypeOK' /\ SlotInv' /\ LockInv' /\ RoleInv'
  BY DEF TypeOK, SlotInv, LockInv, RoleInv
<1>2. NoSettleOverCancel' /\ GenerationInv'
  BY DEF NoSettleOverCancel, Listed, GenerationInv, KeyIs, Nothing, Whole
<1>3. PublishedInv' /\ AcceptedInv'
  BY DEF PublishedInv, Published, KeyIs, Nothing, Whole, Started, AcceptedInv
<1>4. QED
  BY <1>1, <1>2, <1>3

\* and so does every step.
LEMMA StepIInv == IInv /\ [Next]_vars => IInv'
<1> SUFFICES ASSUME IInv, [Next]_vars
             PROVE  IInv'
  OBVIOUS
<1> TypeOK'
  BY StepTypeOK DEF IInv
<1>1. CASE UNCHANGED vars
  BY <1>1, StutterIInv
<1>2. CASE DeadlinePasses
  BY <1>2, DeadlinePassesIInv
<1>3. ASSUME NEW t \in Threads, Thread(t)
      PROVE  IInv'
  BY <1>3, RunIInv, SettleBeginIInv, SettleWriteIInv DEF Thread
<1>4. ASSUME NEW r \in Requests, Arrive(r)
      PROVE  IInv'
  BY <1>4, GetLookupIInv, CancelLookupIInv, SubmitLookupIInv DEF Arrive
<1>5. ASSUME NEW r \in Requests, Proceed(r)
      PROVE  IInv'
  <2>1. CASE GetServe(r) \/ GetMark(r) \/ Cancel(r) \/ SubmitCheck(r)
    BY <2>1, GetServeIInv, GetMarkIInv, CancelIInv, SubmitCheckIInv
  <2>2. CASE SubmitShowExpected(r) \/ SubmitMissing(r) \/ SubmitResponse(r)
    BY <2>2, SubmitShowExpectedIInv, SubmitMissingIInv, SubmitResponseIInv
  <2>3. CASE SubmitClear(r) \/ SubmitStatus(r) \/ SubmitSpawn(r)
    BY <2>3, SubmitClearIInv, SubmitStatusIInv, SubmitSpawnIInv
  <2>4. QED
    BY <1>5, <2>1, <2>2, <2>3 DEF Proceed
<1>6. QED
  BY <1>1, <1>2, <1>3, <1>4, <1>5 DEF Next

-----------------------------------------------------------------------------
\* The inductive invariant holds in every reachable state.
THEOREM Invariance == Spec => []IInv
BY InitIInv, StepIInv, PTL DEF Spec

\* No result lands on a cancelled set, and no cancel falls inside a settle.
THEOREM NoSettleOverCancelHolds == Spec => []NoSettleOverCancel
<1>1. IInv => NoSettleOverCancel
  BY DEF IInv
<1>2. QED
  BY <1>1, Invariance, PTL

\* Nobody who acts on the published status misses a file that the engine
\* emitted, whatever requests run at the same time.
THEOREM KeyBeforePromptHolds == Spec => []KeyBeforePrompt
<1>1. IInv => KeyBeforePrompt
  BY DEF IInv, PublishedInv, Published, KeyIs, Whole, KeyBeforePrompt, Delivered,
         GenerationInv, CannotRun, ExpectedResults
<1>2. QED
  BY <1>1, Invariance, PTL

\* Outside a settle, either all that the engine emitted is there or nothing.
LEMMA AllOrNothing == IInv => SettleIsAllOrNothing
<1> SUFFICES ASSUME IInv, lock = Free
             PROVE  SettleIsAllOrNothing
  BY DEF SettleIsAllOrNothing
<1>1. at[Generator] \in {"run", "settle", "done"}
  BY ThreadFacts DEF IInv, TypeOK, ThreadSteps, RoleInv, LockInv
<1>2. QED
  BY <1>1, ThreadFacts DEF IInv, TypeOK, Fields, GenerationInv, KeyIs, Nothing, Whole,
                           Delivered, SettleIsAllOrNothing

\* So it is in every reachable state.
THEOREM SettleIsAllOrNothingHolds == Spec => []SettleIsAllOrNothing
BY AllOrNothing, Invariance, PTL

\* The deadline voids nothing that was accepted, for an engine that does not
\* itself report "expired".
THEOREM ExpiredMeansNothingAcceptedHolds ==
    ASSUME \A a \in Answers : Verdict[a] # "expired"
    PROVE  Spec => []ExpiredMeansNothingAccepted
<1>1. IInv => ExpiredMeansNothingAccepted
  <2> SUFFICES ASSUME IInv, Disposition = "expired"
               PROVE  \A t \in Graders : ~Started(t)
    BY DEF ExpiredMeansNothingAccepted
  <2>1. ASSUME vs.validation # NoAnswer PROVE Grade(vs.validation) # "expired"
    BY <2>1 DEF IInv, TypeOK, Fields, Grade
  <2>2. vs.response = NoAnswer
    BY <2>1 DEF Disposition
  <2>3. QED
    BY <2>2 DEF IInv, AcceptedInv
<1>2. QED
  BY <1>1, Invariance, PTL

-----------------------------------------------------------------------------
(* A client that sends one request at a time, against the generating and   *)
(* grading threads and the clock.                                          *)

OneClient == \A p, q \in Requests : p = q

LEMMA OnlyOne == ASSUME OneClient, NEW r \in Requests
                 PROVE  \A q \in Requests : q = r
BY Zenon DEF OneClient

\* Nobody cancels a set behind the back of a request under way.
LiveInv == \A r \in Requests : pc[r] # "idle" => Listed

Answered == {"response_submitted", "disposition", "error"}
PastCheck == SubmitSteps \ {"check"}

\* What the status is while somebody relies on having read it.
StatusInv ==
    /\ \A r \in Requests : pc[r] = "mark" => vs.status = "ready"
    /\ \A r \in Requests : pc[r] \in PastCheck =>
          vs.status \in Answered \union {"prompt_retrieved"}
    /\ \A r \in Requests : pc[r] = "spawn" => vs.status \in Answered
    /\ \A t \in Graders : Started(t) => vs.status \in Answered \union {"cancelled"}

\* Everything that comes after the retrieval says so.
RetrievedInv ==
    /\ vs.status \in {"prompt_retrieved", "response_submitted", "disposition"}
          => retrieved
    /\ vs.status = "error" /\ vs.prompt => retrieved
    /\ \A r \in Requests : pc[r] \in PastCheck => retrieved
    /\ \A t \in Graders : Started(t) => retrieved
    /\ AnsweredOnlyAfterRetrieval

\* A submission being installed says itself what it lacks.
InstallInv ==
    /\ \A r \in Requests : pc[r] = "response" =>
          vs.missing_tc_ids = (Payload(r) \in Partial)
    /\ \A r \in Requests : pc[r] \in {"validation", "status", "spawn"} =>
          vs.missing_tc_ids = (vs.response \in Partial)

\* What is missing is what the response on record lacks, but for the moment
\* between the two assignments.
MissingInv ==
    (\A r \in Requests : pc[r] # "response") /\ vs.response # NoAnswer =>
        vs.missing_tc_ids = (vs.response \in Partial)

Unfinished(t) == Started(t) /\ at[t] # "done"

\* A response on record is graded, or failed, or somebody is at it.
PendingInv ==
    vs.response # NoAnswer /\ Listed /\ ~past =>
       \/ vs.validation # NoAnswer
       \/ vs.status = "error"
       \/ \E t \in Graders : Unfinished(t)
       \/ \E r \in Requests : pc[r] \in {"validation", "status", "spawn"}

\* A thread about to publish its grade finds it there, unless a resubmission
\* cleared it: then that one's thread has not begun to settle.
GradedInv ==
    \A t \in Graders : at[t] = "status" /\ result[t] = "disposition" =>
       \/ vs.validation # NoAnswer
       \/ \E u \in Graders \ {t} : at[u] \in {"run", "settle"}
       \/ \E r \in Requests : pc[r] \in {"status", "spawn"}

CoreInv == /\ IInv
           /\ LiveInv
           /\ StatusInv
           /\ RetrievedInv
           /\ InstallInv

SerialInv == CoreInv /\ MissingInv /\ PendingInv /\ GradedInv

\* What one write of a settle does to the fields the invariant is about.
LEMMA SettleWriteFields ==
    ASSUME IInv, NEW t \in Threads, SettleWrite(t)
    PROVE  /\ at[t] \in SettleFields /\ lock = t /\ Listed
           /\ vs'.status = IF at[t] = "status" THEN result[t] ELSE vs.status
           /\ vs'.validation = IF at[t] = "validation" THEN answer[t]
                                                       ELSE vs.validation
           /\ at[t] # "prompt" => vs'.prompt = vs.prompt
           /\ vs'.response = vs.response /\ vs'.missing_tc_ids = vs.missing_tc_ids
           /\ at' = [at EXCEPT ![t] = NextField[at[t]]]
           /\ NextField[at[t]] \in SettleFields \union {"done"}
           /\ at[t] = "validation" => NextField[at[t]] = "status"
           /\ at[t] = "status" => NextField[at[t]] = "done"
           /\ pc' = pc /\ slot' = slot /\ answer' = answer /\ result' = result
           /\ past' = past /\ retrieved' = retrieved
<1>1. at[t] \in SettleFields
  BY NextFieldFacts DEF SettleWrite
<1>2. /\ vs'.status = IF at[t] = "status" THEN result[t] ELSE vs.status
      /\ vs'.validation = IF at[t] = "validation" THEN answer[t] ELSE vs.validation
      /\ at[t] # "prompt" => vs'.prompt = vs.prompt
      /\ vs'.response = vs.response /\ vs'.missing_tc_ids = vs.missing_tc_ids
  BY <1>1 DEF SettleWrite, FieldValue, SettleFields, IInv, TypeOK, Fields
<1>3. QED
  BY <1>1, <1>2, NextFieldFacts
     DEF SettleWrite, NextField, IInv, NoSettleOverCancel, requestVars

\* The other steps of a thread are its own affair, and do not start it.
LEMMA ThreadFrame ==
    ASSUME TypeOK, NEW t \in Threads, Run(t) \/ SettleBegin(t)
    PROVE  /\ vs' = vs /\ pc' = pc /\ slot' = slot /\ answer' = answer
           /\ past' = past /\ retrieved' = retrieved
           /\ Started(t) /\ Started(t)'
           /\ \A u \in Threads \ {t} : at'[u] = at[u] /\ result'[u] = result[u]
<1>1. FirstField(t) \in SettleFields
  BY DEF FirstField, SettleFields
<1>2. CASE Run(t)
  BY <1>2 DEF Run, Returns, TypeOK, Started, requestVars
<1>3. CASE SettleBegin(t)
  BY <1>1, <1>3 DEF SettleBegin, SettleFields, TypeOK, Started, requestVars
<1>4. QED
  BY <1>2, <1>3

\* The steps of threads keep the status what their readers take it for.
LEMMA ThreadStatus ==
    ASSUME CoreInv, IInv', NEW t \in Threads, Thread(t)
    PROVE  /\ LiveInv'
           /\ StatusInv'
<1> USE DEF CoreInv, LiveInv, StatusInv, Listed, Answered, PastCheck
<1>1. CASE Run(t) \/ SettleBegin(t)
  <2>1. \A u \in Graders : Started(u)' <=> Started(u)
    BY <1>1, ThreadFrame, ThreadFacts DEF Started, IInv
  <2>2. QED
    BY <1>1, <2>1, ThreadFrame DEF IInv
<1>2. CASE SettleWrite(t)
  <2> USE SettleWriteFields, <1>2
  <2>1. \A u \in Graders : Started(u)' <=> Started(u)
    BY ThreadFacts DEF Started, SettleFields, IInv, TypeOK
  <2>2. CASE at[t] # "status"
    BY <2>1, <2>2
  <2>3. CASE at[t] = "status" /\ t = Generator
    <3>1. ~ Published
      BY <2>3 DEF Published
    <3>2. \A r \in Requests : pc[r] \notin PastCheck \union {"mark", "spawn"}
      BY <3>1 DEF IInv, PublishedInv, SubmitSteps
    <3>3. \A u \in Graders : ~Started(u)
      BY <3>1 DEF IInv, PublishedInv
    <3>4. vs'.status # "cancelled"
      BY <2>3, ThreadFacts DEF IInv, TypeOK
    <3>5. QED
      BY <2>1, <3>2, <3>3, <3>4
  <2>4. CASE at[t] = "status" /\ t \in Graders
    <3>1. vs'.status \in {"disposition", "error"}
      BY <2>4, ThreadFacts DEF IInv, TypeOK, RoleInv
    <3>2. Started(t)
      BY <2>4 DEF Started
    <3>3. \A r \in Requests : pc[r] # "mark"
      BY <2>4, <3>2
    <3>4. QED
      BY <2>1, <3>1, <3>3
  <2>5. QED
    BY <2>2, <2>3, <2>4 DEF Threads
<1>3. QED
  BY <1>1, <1>2 DEF Thread

\* The clock and the steps of requests that write neither the status nor start
\* a thread.
QuietStep(r) == \/ GetLookup(r) \/ CancelLookup(r) \/ GetServe(r)
                \/ (\E a \in Answers : SubmitLookup(r, a))
                \/ SubmitCheck(r) \/ SubmitShowExpected(r) \/ SubmitMissing(r)
                \/ SubmitResponse(r) \/ SubmitClear(r)

\* Such a step changes no status, no prompt and no thread that was started.
LEMMA QuietFrame ==
    ASSUME IInv, NEW r \in Requests, QuietStep(r)
    PROVE  /\ vs'.status = vs.status /\ vs'.prompt = vs.prompt
           /\ past' = past /\ result' = result
           /\ \A t \in Graders : Started(t)' <=> Started(t)
           /\ \A t \in Graders : Started(t) => at'[t] = at[t]
           /\ \A q \in Requests \ {r} : pc'[q] = pc[q] /\ slot'[q] = slot[q]
<1> USE ThreadFacts DEF IInv, TypeOK, Fields, Started, threadVars
<1>1. CASE GetLookup(r) \/ CancelLookup(r) \/ GetServe(r)
  BY <1>1 DEF GetLookup, CancelLookup, GetServe
<1>2. ASSUME NEW a \in Answers, SubmitLookup(r, a)
      PROVE  /\ vs'.status = vs.status /\ vs'.prompt = vs.prompt
             /\ past' = past /\ result' = result
             /\ \A t \in Graders : Started(t)' <=> Started(t)
             /\ \A t \in Graders : Started(t) => at'[t] = at[t]
             /\ \A q \in Requests \ {r} : pc'[q] = pc[q] /\ slot'[q] = slot[q]
  BY <1>2 DEF SubmitLookup
<1>3. CASE SubmitCheck(r) \/ SubmitShowExpected(r)
  BY <1>3 DEF SubmitCheck, SubmitShowExpected, Reject, SlotInv, SubmitSteps
<1>4. CASE SubmitMissing(r) \/ SubmitResponse(r) \/ SubmitClear(r)
  BY <1>4 DEF SubmitMissing, SubmitResponse, SubmitClear, Assign
<1>5. QED
  BY <1>1, <1>2, <1>3, <1>4 DEF QuietStep

\* They keep the status what its readers take it for: whoever takes another step
\* has read it.
LEMMA QuietStatus ==
    ASSUME OneClient, CoreInv, IInv', NEW r \in Requests, QuietStep(r)
    PROVE  /\ LiveInv'
           /\ StatusInv'
<1> USE DEF CoreInv, LiveInv, StatusInv, Listed, Answered, PastCheck
<1>1. Listed
  BY DEF QuietStep, GetLookup, CancelLookup, SubmitLookup, GetServe, SubmitCheck,
         SubmitShowExpected, SubmitMissing, SubmitResponse, SubmitClear, Assign
<1>2. LiveInv'
  BY <1>1, QuietFrame
<1>3. pc'[r] = "mark" => vs.status = "ready"
  BY DEF QuietStep, GetLookup, CancelLookup, SubmitLookup, GetServe, SubmitCheck,
         SubmitShowExpected, SubmitMissing, SubmitResponse, SubmitClear, Assign,
         Reject, IInv, TypeOK
<1>4. pc'[r] \in PastCheck => vs.status \in Answered \union {"prompt_retrieved"}
  <2>1. CASE SubmitCheck(r)
    BY <1>1, <2>1 DEF SubmitCheck, Reject, SubmitSteps, IInv, TypeOK, Fields, Statuses
  <2>2. CASE pc[r] \in PastCheck
    BY <2>2
  <2>3. CASE pc'[r] \notin PastCheck
    BY <2>3
  <2>4. QED
    BY <2>1, <2>2, <2>3
       DEF QuietStep, GetLookup, CancelLookup, SubmitLookup, GetServe,
           SubmitShowExpected, SubmitMissing, SubmitResponse, SubmitClear, Assign,
           Reject, SubmitSteps, IInv, TypeOK
<1>5. /\ \A t \in Graders : Started(t)' => vs.status \in Answered \union {"cancelled"}
      /\ pc'[r] # "spawn"
  BY QuietFrame
     DEF QuietStep, GetLookup, CancelLookup, SubmitLookup, GetServe, SubmitCheck,
         SubmitShowExpected, SubmitMissing, SubmitResponse, SubmitClear, Assign,
         Reject, IInv, TypeOK
<1>6. \A q \in Requests : q = r
  BY OnlyOne
<1>7. QED
  BY <1>2, <1>3, <1>4, <1>5, <1>6, QuietFrame

\* The other steps keep it: a mark, a cancel, a submission's publication and its
\* thread's start.
LEMMA LoudStatus ==
    ASSUME OneClient, CoreInv, IInv', NEW r \in Requests,
           GetMark(r) \/ Cancel(r) \/ SubmitStatus(r) \/ SubmitSpawn(r)
    PROVE  /\ LiveInv'
           /\ StatusInv'
<1>0. \A q \in Requests : q = r
  BY OnlyOne
<1> USE ThreadFacts
    DEF CoreInv, LiveInv, StatusInv, Listed, Answered, PastCheck, IInv, TypeOK, Fields
<1>1. CASE GetMark(r)
  BY <1>0, <1>1 DEF GetMark, SubmitSteps, Started, threadVars
<1>2. CASE Cancel(r)
  BY <1>0, <1>2 DEF Cancel, SubmitSteps, Started, threadVars
<1>3. CASE SubmitStatus(r)
  BY <1>0, <1>3 DEF SubmitStatus, Assign, SubmitSteps, Started, threadVars
<1>4. CASE SubmitSpawn(r)
  BY <1>0, <1>4 DEF SubmitSpawn, SubmitSteps, Started, threadVars
<1>5. QED
  BY <1>1, <1>2, <1>3, <1>4

-----------------------------------------------------------------------------
\* What was retrieved stays retrieved.
LEMMA RetrievedStays == IInv /\ [Next]_vars /\ retrieved => retrieved'
<1> SUFFICES ASSUME IInv, [Next]_vars, retrieved PROVE retrieved'
  OBVIOUS
<1>1. ASSUME NEW t \in Threads, Thread(t) PROVE retrieved'
  BY <1>1 DEF Thread, Run, SettleBegin, SettleWrite
<1>2. ASSUME NEW r \in Requests, Arrive(r) PROVE retrieved'
  BY <1>2 DEF Arrive, GetLookup, CancelLookup, SubmitLookup
<1>3. ASSUME NEW r \in Requests, Proceed(r) PROVE retrieved'
  BY <1>3 DEF Proceed, GetServe, GetMark, Cancel, SubmitCheck, SubmitShowExpected,
              SubmitMissing, SubmitResponse, SubmitClear, SubmitStatus, SubmitSpawn, Assign
<1>4. CASE DeadlinePasses \/ UNCHANGED vars
  BY <1>4 DEF DeadlinePasses, vars, IInv, TypeOK
<1>5. QED
  BY <1>1, <1>2, <1>3, <1>4 DEF Next

\* A grading thread runs only after a retrieval, and generation fails only
\* without a prompt.
LEMMA ThreadRetrieved ==
    ASSUME CoreInv, NEW t \in Threads, Thread(t)
    PROVE  RetrievedInv'
<1> USE DEF CoreInv, RetrievedInv, AnsweredOnlyAfterRetrieval, PastCheck
<1>1. CASE Run(t) \/ SettleBegin(t)
  <2>1. \A u \in Graders : Started(u)' <=> Started(u)
    BY <1>1, ThreadFrame, ThreadFacts DEF Started, IInv
  <2>2. QED
    BY <1>1, <2>1, ThreadFrame DEF IInv
<1>2. CASE SettleWrite(t)
  <2> USE SettleWriteFields, <1>2
  <2>1. \A u \in Graders : Started(u)' <=> Started(u)
    BY ThreadFacts DEF Started, SettleFields, IInv, TypeOK
  <2>2. CASE t \in Graders
    <3>1. retrieved
      BY <2>2 DEF Started, SettleFields
    <3>2. QED
      BY <3>1
  <2>3. CASE t = Generator
    <3>1. vs.status = "generating"
      BY <2>3 DEF IInv, GenerationInv, SettleFields, Listed
    <3>2. CASE at[t] = "status" /\ result[t] # "ready"
      <4>1. ~vs.prompt /\ vs'.prompt = vs.prompt
        BY <2>3, <3>2 DEF IInv, GenerationInv, KeyIs, Nothing, Whole
      <4>2. vs'.status = "error"
        BY <2>3, <3>2, ThreadFacts DEF IInv, TypeOK, RoleInv
      <4>3. QED
        BY <2>1, <4>1, <4>2
    <3>3. CASE at[t] = "status" /\ result[t] = "ready"
      BY <2>1, <3>3
    <3>4. CASE at[t] # "status"
      BY <2>1, <3>1, <3>4
    <3>5. QED
      BY <3>2, <3>3, <3>4
  <2>4. QED
    BY <2>2, <2>3 DEF Threads
<1>3. QED
  BY <1>1, <1>2 DEF Thread

\* A submission passes its check only after a retrieval.
LEMMA QuietRetrieved ==
    ASSUME CoreInv, retrieved => retrieved', NEW r \in Requests, QuietStep(r)
    PROVE  RetrievedInv'
<1> USE DEF CoreInv, RetrievedInv, AnsweredOnlyAfterRetrieval, PastCheck
<1>1. pc'[r] \in PastCheck => retrieved
  <2>1. CASE SubmitCheck(r)
    BY <2>1 DEF SubmitCheck, Reject, SubmitSteps, LiveInv, Listed, IInv, TypeOK, Fields,
                Statuses
  <2>2. CASE pc[r] \in PastCheck
    BY <2>2
  <2>3. QED
    BY <2>1, <2>2
       DEF QuietStep, GetLookup, CancelLookup, SubmitLookup, GetServe,
           SubmitShowExpected, SubmitMissing, SubmitResponse, SubmitClear, Assign,
           Reject, SubmitSteps, IInv, TypeOK
<1>2. vs'.response # NoAnswer => retrieved
  BY DEF QuietStep, GetLookup, CancelLookup, SubmitLookup, GetServe, SubmitCheck,
         SubmitShowExpected, SubmitMissing, SubmitResponse, SubmitClear, Assign,
         SubmitSteps, IInv, TypeOK, Fields
<1>3. QED
  BY <1>1, <1>2, QuietFrame

\* A mark is a retrieval; the other steps come after one.
LEMMA LoudRetrieved ==
    ASSUME CoreInv, retrieved => retrieved', NEW r \in Requests,
           GetMark(r) \/ Cancel(r) \/ SubmitStatus(r) \/ SubmitSpawn(r)
    PROVE  RetrievedInv'
<1> USE ThreadFacts
    DEF CoreInv, RetrievedInv, AnsweredOnlyAfterRetrieval, PastCheck, IInv, TypeOK, Fields
<1>1. CASE GetMark(r)
  BY <1>1 DEF GetMark
<1>2. CASE Cancel(r)
  BY <1>2 DEF Cancel, SubmitSteps, Started, threadVars
<1>3. CASE SubmitStatus(r)
  BY <1>3 DEF SubmitStatus, Assign, SubmitSteps
<1>4. CASE SubmitSpawn(r)
  BY <1>4 DEF SubmitSpawn, SubmitSteps, Started
<1>5. QED
  BY <1>1, <1>2, <1>3, <1>4

-----------------------------------------------------------------------------
\* What is missing is said by the submission that is being installed, and by
\* nobody else.
LEMMA ThreadMissing ==
    ASSUME CoreInv, NEW t \in Threads, Thread(t)
    PROVE  InstallInv' /\ (MissingInv => MissingInv')
<1>1. CASE Run(t) \/ SettleBegin(t)
  BY <1>1, ThreadFrame DEF CoreInv, IInv, InstallInv, MissingInv, Payload
<1>2. CASE SettleWrite(t)
  BY <1>2, SettleWriteFields DEF CoreInv, InstallInv, MissingInv, Payload
<1>3. QED
  BY <1>1, <1>2 DEF Thread

LEMMA RequestMissing ==
    ASSUME OneClient, CoreInv, NEW r \in Requests, Arrive(r) \/ Proceed(r)
    PROVE  /\ InstallInv'
           /\ (pc[r] # "spawn" => MissingInv) => MissingInv'
<1>0. \A q \in Requests : q = r
  BY OnlyOne
<1> DEFINE installing == {"response", "validation", "status", "spawn"}
<1> USE DEF CoreInv, IInv, TypeOK, Fields, MissingInv, InstallInv
<1>1. CASE \/ GetLookup(r) \/ CancelLookup(r) \/ GetServe(r) \/ GetMark(r) \/ Cancel(r)
           \/ SubmitCheck(r) \/ SubmitShowExpected(r)
           \/ \E a \in Answers : SubmitLookup(r, a)
  <2>1. /\ vs'.response = vs.response /\ vs'.missing_tc_ids = vs.missing_tc_ids
        /\ pc[r] \notin installing /\ pc'[r] \notin installing \ {"response"}
        /\ pc'[r] # "response"
    BY <1>1 DEF GetLookup, CancelLookup, GetServe, GetMark, Cancel, SubmitCheck,
                SubmitShowExpected, SubmitLookup, Reject
  <2>2. QED
    BY <1>0, <2>1
<1>2. CASE SubmitMissing(r)
  <2> DEFINE flag == Payload(r) \in Partial
  <2>1. vs' = [vs EXCEPT !["missing_tc_ids"] = flag]
    BY <1>2 DEF SubmitMissing, Assign
  <2>2. slot' = slot /\ answer' = answer /\ pc'[r] = "response"
    BY <1>2 DEF SubmitMissing, Assign, threadVars
  <2>3. vs'.missing_tc_ids = flag
    BY <2>1
  <2>4. flag' = flag
    BY <2>2 DEF Payload
  <2> HIDE DEF flag
  <2>5. QED
    BY <1>0, <2>2, <2>3, <2>4 DEF flag
<1>3. CASE SubmitResponse(r)
  <2>1. /\ vs'.response = Payload(r) /\ vs'.missing_tc_ids = vs.missing_tc_ids
        /\ pc[r] = "response" /\ pc'[r] = "validation"
    BY <1>3 DEF SubmitResponse, Assign
  <2>2. QED
    BY <1>0, <2>1
<1>4. CASE SubmitClear(r) \/ SubmitStatus(r) \/ SubmitSpawn(r)
  <2>1. /\ vs'.response = vs.response /\ vs'.missing_tc_ids = vs.missing_tc_ids
        /\ pc[r] \in {"validation", "status", "spawn"} /\ pc'[r] # "response"
    BY <1>4 DEF SubmitClear, SubmitStatus, SubmitSpawn, Assign
  <2>2. QED
    BY <1>0, <2>1
<1>5. QED
  BY <1>1, <1>2, <1>3, <1>4 DEF Arrive, Proceed

-----------------------------------------------------------------------------
\* A thread whose engine returned is still at it.
LEMMA RunPending ==
    ASSUME IInv, PendingInv, NEW t \in Threads, Run(t)
    PROVE  PendingInv'
<1>1. \A u \in Graders : Unfinished(u) => Unfinished(u)'
  BY ThreadFacts DEF Run, Unfinished, Started, IInv, TypeOK
<1>2. QED
  BY <1>1, ThreadFrame DEF IInv, PendingInv, Listed

\* Threads finish what is pending: a settle that is refused comes after a cancel
\* or the deadline, and one that lands leaves a grade or an error.
LEMMA ThreadPending ==
    ASSUME SerialInv, IInv', NEW t \in Threads, Thread(t)
    PROVE  PendingInv'
<1> SUFFICES ASSUME (vs.response # NoAnswer /\ Listed /\ ~past)'
             PROVE  \/ vs'.validation # NoAnswer
                    \/ vs'.status = "error"
                    \/ \E u \in Graders : Unfinished(u)'
                    \/ \E r \in Requests : pc'[r] \in {"validation", "status", "spawn"}
  BY DEF PendingInv
<1>1. CASE Run(t)
  BY <1>1, RunPending DEF SerialInv, CoreInv, PendingInv
<1>2. CASE SettleBegin(t)
  <2>1. at'[t] = FirstField(t) /\ FirstField(t) \in SettleFields
    BY <1>2, ThreadFrame
       DEF SettleBegin, FirstField, SettleFields, SerialInv, CoreInv, IInv, TypeOK, Listed,
           Expired
  <2>2. \A u \in Graders : Unfinished(u) => Unfinished(u)'
    BY <1>2, <2>1, ThreadFrame, ThreadFacts
       DEF Unfinished, Started, SettleFields, SerialInv, CoreInv, IInv
  <2>3. QED
    BY <1>2, <2>2, ThreadFrame DEF SerialInv, CoreInv, IInv, PendingInv, Listed
<1>3. CASE SettleWrite(t)
  <2> USE SettleWriteFields, <1>3
  <2>1. vs.response # NoAnswer /\ Listed /\ ~past
    BY DEF SerialInv, CoreInv
  <2>2. t \in Graders
    BY <2>1 DEF SerialInv, CoreInv, RetrievedInv, AnsweredOnlyAfterRetrieval, IInv,
                PublishedInv, Published, Threads, SettleFields
  <2>3. \A u \in Graders \ {t} : Unfinished(u) => Unfinished(u)'
    BY ThreadFacts DEF Unfinished, Started, SerialInv, CoreInv, IInv, TypeOK
  <2>4. CASE at[t] = "validation"
    BY <2>2, <2>4, ThreadFacts
       DEF Unfinished, Started, SettleFields, SerialInv, CoreInv, IInv, TypeOK
  <2>5. CASE at[t] = "status"
    <3>1. result[t] \in {"disposition", "error"}
      BY <2>2, <2>5, ThreadFacts DEF SerialInv, CoreInv, IInv, TypeOK, RoleInv
    <3>2. CASE result[t] = "error"
      BY <2>5, <3>2 DEF SerialInv, CoreInv
    <3>3. CASE result[t] = "disposition"
      <4>1. \/ vs.validation # NoAnswer
            \/ \E u \in Graders \ {t} : at[u] \in {"run", "settle"}
            \/ \E r \in Requests : pc[r] \in {"status", "spawn"}
        BY <2>2, <2>5, <3>3 DEF SerialInv, CoreInv, GradedInv
      <4>2. \A u \in Graders \ {t} : at[u] \in {"run", "settle"} => Unfinished(u)'
        BY <2>3 DEF Unfinished, Started
      <4>3. QED
        BY <2>5, <4>1, <4>2 DEF SerialInv, CoreInv
    <3>4. QED
      BY <3>1, <3>2, <3>3
  <2>6. QED
    BY <2>2, <2>4, <2>5, ThreadFacts
       DEF SettleFields, SerialInv, CoreInv, IInv, RoleInv, KeyFields
<1>4. QED
  BY <1>1, <1>2, <1>3 DEF Thread

\* A submission that clears the grade is itself at it, up to its thread's start.
LEMMA RequestPending ==
    ASSUME OneClient, CoreInv, IInv', NEW r \in Requests, Arrive(r) \/ Proceed(r),
           pc[r] # "spawn" => PendingInv
    PROVE  PendingInv'
<1>0. \A q \in Requests : q = r
  BY OnlyOne
<1>1. CASE GetLookup(r) \/ CancelLookup(r) \/ GetServe(r)
  <2>1. /\ vs' = vs /\ past' = past /\ at' = at
        /\ pc[r] \notin {"validation", "status", "spawn"}
    BY <1>1 DEF GetLookup, CancelLookup, GetServe, threadVars
  <2>2. QED
    BY <1>0, <2>1 DEF CoreInv, PendingInv, Listed, Unfinished, Started
<1>2. CASE SubmitCheck(r) \/ SubmitShowExpected(r) \/ SubmitMissing(r)
           \/ \E a \in Answers : SubmitLookup(r, a)
  <2>1. /\ vs'.response = vs.response /\ vs'.validation = vs.validation
        /\ pc[r] \notin {"validation", "status", "spawn"}
    BY <1>2 DEF SubmitLookup, SubmitCheck, SubmitShowExpected, SubmitMissing, Assign,
                Reject, CoreInv, IInv, TypeOK, Fields
  <2>2. vs'.status = vs.status /\ past' = past
        /\ \A t \in Graders : Unfinished(t) => Unfinished(t)'
    BY <1>2, QuietFrame DEF QuietStep, CoreInv, Unfinished
  <2>3. QED
    BY <1>0, <2>1, <2>2 DEF CoreInv, PendingInv, Listed
<1>3. CASE SubmitResponse(r) \/ SubmitClear(r) \/ SubmitStatus(r)
  <2>1. pc'[r] \in {"validation", "status", "spawn"}
    BY <1>3 DEF SubmitResponse, SubmitClear, SubmitStatus, Assign, CoreInv, IInv, TypeOK
  <2>2. QED
    BY <2>1 DEF PendingInv
<1>4. CASE SubmitSpawn(r)
  <2>1. slot[r] \in Graders /\ at'[slot[r]] = "run"
    BY <1>4, ThreadFacts DEF SubmitSpawn, CoreInv, IInv, TypeOK, SlotInv, SubmitSteps
  <2>2. \E t \in Graders : Unfinished(t)'
    BY <2>1 DEF Unfinished, Started
  <2>3. QED
    BY <2>2 DEF PendingInv
<1>5. CASE GetMark(r) \/ Cancel(r)
  <2>1. CASE Cancel(r)
    BY <2>1 DEF Cancel, CoreInv, IInv, TypeOK, Fields, PendingInv, Listed
  <2>2. CASE GetMark(r)
    <3>1. /\ vs'.response = vs.response /\ vs'.validation = vs.validation
          /\ past' = past /\ at' = at /\ vs.status = "ready"
          /\ pc[r] \notin {"validation", "status", "spawn"}
      BY <2>2 DEF GetMark, CoreInv, StatusInv, IInv, TypeOK, Fields, threadVars
    <3>2. QED
      BY <1>0, <3>1 DEF CoreInv, PendingInv, Listed, Unfinished, Started
  <2>3. QED
    BY <1>5, <2>1, <2>2
<1>6. QED
  BY <1>1, <1>2, <1>3, <1>4, <1>5 DEF Arrive, Proceed

\* A grade about to be published is cleared only by a submission under way.
LEMMA ThreadGraded ==
    ASSUME SerialInv, IInv', NEW t \in Threads, Thread(t)
    PROVE  GradedInv'
<1> SUFFICES ASSUME NEW g \in Graders, at'[g] = "status", result'[g] = "disposition"
             PROVE  \/ vs'.validation # NoAnswer
                    \/ \E u \in Graders \ {g} : at'[u] \in {"run", "settle"}
                    \/ \E r \in Requests : pc'[r] \in {"status", "spawn"}
  BY DEF GradedInv
<1> USE ThreadFacts DEF SerialInv, CoreInv, IInv, TypeOK
<1>1. CASE Run(t)
  <2>1. g # t /\ at[g] = "status" /\ result[g] = "disposition"
    BY <1>1 DEF Run, Returns
  <2>2. \A u \in Graders : at[u] \in {"run", "settle"} => at'[u] \in {"run", "settle"}
    BY <1>1 DEF Run, Returns
  <2>3. QED
    BY <1>1, <2>1, <2>2, ThreadFrame DEF GradedInv
<1>2. CASE SettleBegin(t)
  <2>1. CASE g = t
    BY <1>2, <2>1 DEF SettleBegin, FirstField
  <2>2. CASE g # t
    <3>1. lock = g
      BY <1>2, <2>2, ThreadFrame DEF LockInv, SettleFields
    <3>2. QED
      BY <1>2, <3>1 DEF SettleBegin
  <2>3. QED
    BY <2>1, <2>2
<1>3. CASE SettleWrite(t)
  <2> USE SettleWriteFields, <1>3
  <2>1. CASE g = t
    <3>1. at[g] = "validation"
      BY <2>1 DEF SettleFields, RoleInv, KeyFields
    <3>2. vs'.validation \in Answers
      BY <2>1, <3>1 DEF RoleInv
    <3>3. QED
      BY <3>2, ConstantsAssumption
  <2>2. CASE g # t
    BY <2>2 DEF LockInv, SettleFields
  <2>3. QED
    BY <2>1, <2>2
<1>4. QED
  BY <1>1, <1>2, <1>3 DEF Thread

LEMMA RequestGraded ==
    ASSUME OneClient, SerialInv, IInv', NEW r \in Requests, Arrive(r) \/ Proceed(r)
    PROVE  GradedInv'
<1>0. \A q \in Requests : q = r
  BY OnlyOne
<1> SUFFICES ASSUME NEW g \in Graders, at'[g] = "status", result'[g] = "disposition"
             PROVE  \/ vs'.validation # NoAnswer
                    \/ \E u \in Graders \ {g} : at'[u] \in {"run", "settle"}
                    \/ \E q \in Requests : pc'[q] \in {"status", "spawn"}
  BY DEF GradedInv
<1>1. CASE GetLookup(r) \/ CancelLookup(r) \/ GetServe(r) \/ GetMark(r) \/ Cancel(r)
  <2>1. /\ vs'.validation = vs.validation /\ at' = at /\ result' = result
        /\ pc[r] \notin {"status", "spawn"}
    BY <1>1 DEF GetLookup, CancelLookup, GetServe, GetMark, Cancel, SerialInv, CoreInv, IInv,
                TypeOK, Fields, threadVars
  <2>2. QED
    BY <1>0, <2>1 DEF SerialInv, CoreInv, GradedInv
<1>2. CASE SubmitCheck(r) \/ SubmitShowExpected(r) \/ SubmitMissing(r)
           \/ SubmitResponse(r) \/ \E a \in Answers : SubmitLookup(r, a)
  <2>1. /\ vs'.validation = vs.validation
        /\ pc[r] \notin {"status", "spawn"}
    BY <1>2 DEF SubmitLookup, SubmitCheck, SubmitShowExpected, SubmitMissing,
                SubmitResponse, Assign, Reject, SerialInv, CoreInv, IInv, TypeOK, Fields
  <2>2. QuietStep(r)
    BY <1>2 DEF QuietStep
  <2>3. /\ result' = result
        /\ \A t \in Graders : Started(t)' <=> Started(t)
        /\ \A t \in Graders : Started(t) => at'[t] = at[t]
    BY <2>2, QuietFrame DEF SerialInv, CoreInv
  <2>4. \A t \in Graders : at[t] \in {"run", "settle"} => at'[t] = at[t]
    BY <2>3 DEF Started
  <2>5. at[g] = "status"
    BY <2>3 DEF Started
  <2>6. QED
    BY <1>0, <2>1, <2>3, <2>4, <2>5 DEF SerialInv, CoreInv, GradedInv
<1>3. CASE SubmitClear(r) \/ SubmitStatus(r)
  BY <1>3 DEF SubmitClear, SubmitStatus, Assign, SerialInv, CoreInv, IInv, TypeOK
<1>4. CASE SubmitSpawn(r)
  <2>1. slot[r] \in Graders /\ at'[slot[r]] = "run"
    BY <1>4, ThreadFacts DEF SubmitSpawn, SerialInv, CoreInv, IInv, TypeOK, SlotInv, SubmitSteps
  <2>2. QED
    BY <2>1
<1>5. QED
  BY <1>1, <1>2, <1>3, <1>4 DEF Arrive, Proceed

-----------------------------------------------------------------------------
\* The invariant of a serial client holds initially, and every step keeps it.
LEMMA InitSerial == Init => SerialInv
<1> SUFFICES ASSUME Init PROVE SerialInv
  OBVIOUS
<1>1. IInv
  BY InitIInv
<1>2. LiveInv /\ StatusInv
  BY ThreadFacts DEF Init, LiveInv, Listed, StatusInv, PastCheck, SubmitSteps, Started,
                     NewVectorSet
<1>3. RetrievedInv /\ InstallInv /\ MissingInv /\ PendingInv /\ GradedInv
  BY ThreadFacts DEF Init, RetrievedInv, AnsweredOnlyAfterRetrieval, InstallInv,
                     MissingInv, PendingInv, GradedInv, PastCheck, SubmitSteps, Started, NewVectorSet
<1>4. QED
  BY <1>1, <1>2, <1>3 DEF SerialInv, CoreInv

\* The parts that hold whatever was interrupted are kept by the requests,
LEMMA RequestCore ==
    ASSUME OneClient, CoreInv, NEW r \in Requests, Arrive(r) \/ Proceed(r)
    PROVE  CoreInv'
<1>1. IInv' /\ (retrieved => retrieved')
  BY StepIInv, RetrievedStays DEF CoreInv, Next
<1>2. LiveInv' /\ StatusInv' /\ RetrievedInv'
  <2>1. CASE QuietStep(r)
    BY <1>1, <2>1, QuietStatus, QuietRetrieved
  <2>2. CASE GetMark(r) \/ Cancel(r) \/ SubmitStatus(r) \/ SubmitSpawn(r)
    BY <1>1, <2>2, LoudStatus, LoudRetrieved
  <2>3. QED
    BY <2>1, <2>2 DEF Arrive, Proceed, QuietStep
<1>3. QED
  BY <1>1, <1>2, RequestMissing DEF CoreInv

\* and by the clock.
LEMMA ClockCore ==
    ASSUME CoreInv, IInv', DeadlinePasses \/ UNCHANGED vars
    PROVE  CoreInv' /\ (PendingInv => PendingInv') /\ (MissingInv => MissingInv')
<1>1. /\ vs' = vs /\ pc' = pc /\ slot' = slot /\ at' = at /\ answer' = answer
      /\ result' = result /\ retrieved' = retrieved /\ (past => past')
  BY DEF DeadlinePasses, vars, requestVars, threadVars, CoreInv, IInv, TypeOK
<1>2. LiveInv' /\ StatusInv' /\ RetrievedInv'
  BY <1>1 DEF CoreInv, LiveInv, Listed, StatusInv, RetrievedInv,
              AnsweredOnlyAfterRetrieval, Started
<1>3. InstallInv' /\ (MissingInv => MissingInv')
  BY <1>1 DEF CoreInv, InstallInv, MissingInv, Payload
<1>4. PendingInv => PendingInv'
  BY <1>1 DEF PendingInv, Listed, Unfinished, Started
<1>5. QED
  BY <1>2, <1>3, <1>4 DEF CoreInv

\* Every step keeps the whole of it.
LEMMA StepSerial ==
    ASSUME OneClient
    PROVE  SerialInv /\ [Next]_vars => SerialInv'
<1> SUFFICES ASSUME SerialInv, [Next]_vars PROVE SerialInv'
  OBVIOUS
<1>1. IInv' /\ CoreInv
  BY StepIInv DEF SerialInv, CoreInv
<1>2. ASSUME NEW t \in Threads, Thread(t) PROVE SerialInv'
  BY <1>1, <1>2, ThreadStatus, ThreadRetrieved, ThreadMissing, ThreadPending, ThreadGraded
     DEF SerialInv, CoreInv
<1>3. ASSUME NEW r \in Requests, Arrive(r) \/ Proceed(r) PROVE SerialInv'
  BY <1>1, <1>3, RequestCore, RequestMissing, RequestPending, RequestGraded DEF SerialInv
<1>4. CASE DeadlinePasses \/ UNCHANGED vars
  <2>1. GradedInv'
    BY <1>4 DEF DeadlinePasses, vars, requestVars, threadVars, SerialInv, GradedInv
  <2>2. QED
    BY <1>1, <1>4, <2>1, ClockCore DEF SerialInv
<1>5. QED
  BY <1>2, <1>3, <1>4 DEF Next

\* It holds in every reachable state.
THEOREM SerialInvariance ==
    ASSUME OneClient
    PROVE  Spec => []SerialInv
BY InitSerial, StepSerial, PTL DEF Spec

-----------------------------------------------------------------------------
\* With one request at a time nothing but a settle could write over a cancel.
LEMMA RequestsLeaveCancelled ==
    ASSUME CoreInv, vs.status = "cancelled", NEW r \in Requests, Arrive(r) \/ Proceed(r)
    PROVE  vs' = vs
<1>1. pc[r] = "idle"
  BY DEF CoreInv, LiveInv, Listed
<1>2. ~Proceed(r)
  BY <1>1 DEF Proceed, GetServe, GetMark, Cancel, SubmitCheck, SubmitShowExpected,
              SubmitMissing, SubmitResponse, SubmitClear, SubmitStatus, SubmitSpawn,
              Assign
<1>3. QED
  BY <1>2 DEF Arrive, GetLookup, CancelLookup, SubmitLookup

\* A cancelled vector set stays cancelled: settle() checks.
THEOREM CancelIsTerminalHolds ==
    ASSUME OneClient
    PROVE  Spec => CancelIsTerminal
<1>1. SerialInv /\ [Next]_vars => (vs.status = "cancelled" => vs'.status = "cancelled")
  <2> SUFFICES ASSUME SerialInv, [Next]_vars, vs.status = "cancelled"
               PROVE  vs'.status = "cancelled"
    OBVIOUS
  <2>1. ASSUME NEW t \in Threads, Thread(t) PROVE vs' = vs
    BY <2>1, SettleWriteFields DEF Thread, Run, SettleBegin, SerialInv, CoreInv, Listed
  <2>2. QED
    BY <2>1, RequestsLeaveCancelled DEF Next, DeadlinePasses, vars, SerialInv
<1>2. QED
  BY <1>1, SerialInvariance, PTL DEF Spec, CancelIsTerminal

\* Responses are stored only for a prompt that was served.
THEOREM AnsweredOnlyAfterRetrievalHolds ==
    ASSUME OneClient
    PROVE  Spec => []AnsweredOnlyAfterRetrieval
<1>1. SerialInv => AnsweredOnlyAfterRetrieval
  BY DEF SerialInv, CoreInv, RetrievedInv
<1>2. QED
  BY <1>1, SerialInvariance, PTL

\* What the engine says is a verdict, or nothing the protocol knows.
EngineGrades == \A a \in Answers : Verdict[a] \in DISPOSITIONS =>
                                       Verdict[a] \in {"passed", "failed", "error"}

\* What a set reports in time when nobody is at work on it.
LEMMA RestDisposition ==
    ASSUME EngineGrades, IInv, MissingInv, PendingInv,
           AtRest, ~past, Listed, vs.response # NoAnswer
    PROVE  Disposition \in IF vs.response \in Partial
                             THEN {"missing", "error"}
                             ELSE {"passed", "failed", "error"}
<1>1. vs.missing_tc_ids = (vs.response \in Partial)
  BY DEF AtRest, MissingInv
<1>2. vs.status = "error" \/ vs.validation # NoAnswer
  BY ThreadFacts DEF AtRest, PendingInv, Unfinished, Started
<1>3. vs.validation # NoAnswer => Grade(vs.validation) \in {"passed", "failed", "error"}
  BY DEF IInv, TypeOK, Fields, Grade, EngineGrades
<1>4. QED
  BY <1>1, <1>2, <1>3 DEF Disposition, Expired

\* When everything has come to rest in time, the last submission is accounted
\* for, whatever gradings of earlier submissions finished after it.
THEOREM RestsGradedHolds ==
    ASSUME OneClient, EngineGrades
    PROVE  Spec => []RestsGraded
<1>1. SerialInv => RestsGraded
  BY RestDisposition DEF RestsGraded, SerialInv, CoreInv
<1>2. QED
  BY <1>1, SerialInvariance, PTL

-----------------------------------------------------------------------------
(* VectorSet implements Lifecycle for such a client.                       *)

\* Every step maps to a step of the abstract specification or changes nothing
\* of what it speaks of; first the threads,
LEMMA ThreadImplements ==
    ASSUME CoreInv, NEW t \in Threads, Thread(t)
    PROVE  [L!Next]_L!lvars
<1> DEFINE ready == vs.status # "generating" /\ vs.prompt
<1>1. CASE Run(t)
  <2>1. Grading' = Grading
    BY <1>1, ThreadFacts DEF Run, Grading, Started, CoreInv, IInv, TypeOK, requestVars
  <2>2. QED
    BY <1>1, <2>1, ThreadFrame DEF L!lvars, CoreInv, IInv
<1>2. CASE SettleBegin(t)
  <2>0. FirstField(t) \in SettleFields
    BY DEF FirstField, SettleFields
  <2>1. CASE at'[t] # "done" \/ t \notin Graders
    <3>1. Grading' = Grading
      BY <1>2, <2>0, <2>1, ThreadFrame, ThreadFacts
         DEF SettleBegin, Grading, Started, SettleFields, CoreInv, IInv, TypeOK
    <3>2. QED
      BY <1>2, <3>1, ThreadFrame DEF L!lvars, CoreInv, IInv
  <2>2. CASE at'[t] = "done" /\ t \in Graders
    <3>1. vs.status = "cancelled" \/ past
      BY <1>2, <2>0, <2>2 DEF SettleBegin, SettleFields, CoreInv, IInv, TypeOK, Expired
    <3>2. t \in Grading
      BY <1>2, <2>2 DEF SettleBegin, Grading, Started
    <3>3. Grading' = Grading \ {t}
      <4>1. \A r \in Requests : pc[r] = "spawn" => slot[r] # t
        BY <1>2 DEF SettleBegin, CoreInv, IInv, SlotInv, SubmitSteps
      <4>2. QED
        BY <1>2, <2>2, <4>1, ThreadFrame, ThreadFacts
           DEF Grading, Started, CoreInv, IInv, TypeOK
    <3>4. L!Dropped(t)
      BY <1>2, <3>1, <3>2, <3>3, ThreadFrame DEF L!Dropped, CoreInv, IInv
    <3>5. QED
      BY <2>2, <3>4 DEF L!Next
  <2>3. QED
    BY <2>1, <2>2
<1>3. CASE SettleWrite(t)
  <2> USE SettleWriteFields, <1>3 DEF CoreInv
  <2>1. CASE at[t] # "status"
    <3>1. Grading' = Grading
      BY <2>1, ThreadFacts DEF NextField, Grading, Started, SettleFields, IInv, TypeOK
    <3>2. vs'.status = "generating" \/ vs'.prompt = vs.prompt
      BY <2>1, ThreadFacts
         DEF IInv, RoleInv, KeyFields, GenerationInv, SettleFields, Threads, Listed
    <3>3. QED
      BY <2>1, <3>1, <3>2 DEF L!lvars
  <2>2. CASE at[t] = "status" /\ t = Generator
    <3>1. Grading' = Grading
      BY <2>2, ThreadFacts DEF Grading, Started, IInv, TypeOK
    <3>2. vs.status = "generating" /\ vs'.prompt = vs.prompt
      BY <2>2 DEF IInv, GenerationInv, Listed
    <3>3. CASE result[t] = "ready"
      <4>1. vs.prompt
        BY <2>2, <3>3 DEF IInv, GenerationInv, KeyIs, Nothing, Whole
      <4>2. L!Generated
        BY <2>2, <3>1, <3>2, <3>3, <4>1 DEF L!Generated
      <4>3. QED
        BY <4>2 DEF L!Next
    <3>4. CASE result[t] # "ready"
      <4>1. ~vs.prompt /\ result[t] = "error"
        BY <2>2, <3>4, ThreadFacts DEF IInv, GenerationInv, KeyIs, Nothing, RoleInv, TypeOK
      <4>2. L!GenerationFailed
        BY <2>2, <3>1, <3>2, <4>1 DEF L!GenerationFailed
      <4>3. QED
        BY <4>2 DEF L!Next
    <3>5. QED
      BY <3>3, <3>4
  <2>3. CASE at[t] = "status" /\ t \in Graders
    <3>1. result[t] \in {"disposition", "error"}
      BY <2>3, ThreadFacts DEF IInv, TypeOK, RoleInv
    <3>2. vs.status \in Answered
      BY <2>3 DEF StatusInv, Started, Listed
    <3>3. t \in Grading
      BY <2>3 DEF Grading, Started
    <3>4. Grading' = Grading \ {t}
      <4>1. \A r \in Requests : pc[r] = "spawn" => slot[r] # t
        BY <2>3 DEF IInv, SlotInv, SubmitSteps
      <4>2. QED
        BY <2>3, <4>1, ThreadFacts DEF Grading, Started, IInv, TypeOK
    <3>5. L!Graded(t)
      BY <2>3, <3>1, <3>2, <3>3, <3>4 DEF L!Graded, Answered, L!Answered
    <3>6. QED
      BY <2>3, <3>5 DEF L!Next
  <2>4. QED
    BY <2>1, <2>2, <2>3 DEF Threads
<1>4. QED
  BY <1>1, <1>2, <1>3 DEF Thread

\* then the requests.
LEMMA RequestImplements ==
    ASSUME OneClient, CoreInv, NEW r \in Requests, Arrive(r) \/ Proceed(r)
    PROVE  [L!Next]_L!lvars
<1>0. \A q \in Requests : q = r
  BY OnlyOne
<1> USE DEF CoreInv
<1>1. CASE QuietStep(r)
  <2>1. pc[r] # "spawn" /\ pc'[r] # "spawn"
    BY <1>1 DEF QuietStep, GetLookup, CancelLookup, SubmitLookup, GetServe, SubmitCheck,
           SubmitShowExpected, SubmitMissing, SubmitResponse, SubmitClear, Assign,
           Reject, IInv, TypeOK
  <2>2. Grading' = Grading
    <3>1. \A t \in Graders : (Started(t) /\ at[t] # "done")'
                               <=> (Started(t) /\ at[t] # "done")
      BY <1>1, QuietFrame
    <3>2. QED
      BY <1>0, <2>1, <3>1 DEF Grading
  <2>3. QED
    BY <1>1, <2>2, QuietFrame DEF L!lvars
<1>2. CASE GetMark(r)
  <2>1. Grading' = Grading /\ past' = past /\ vs.status = "ready"
    BY <1>0, <1>2 DEF GetMark, Grading, Started, StatusInv, IInv, TypeOK, threadVars
  <2>2. vs'.status = "prompt_retrieved" /\ vs'.prompt = vs.prompt
    BY <1>2 DEF GetMark, IInv, TypeOK, Fields
  <2>3. L!Retrieved
    BY <2>1, <2>2 DEF L!Retrieved
  <2>4. QED
    BY <2>3 DEF L!Next
<1>3. CASE Cancel(r)
  <2>1. Grading' = Grading /\ past' = past /\ lock = Free
    BY <1>0, <1>3 DEF Cancel, Grading, Started, IInv, TypeOK, threadVars
  <2>2. vs'.status = "cancelled" /\ vs'.prompt = vs.prompt
    BY <1>3 DEF Cancel, IInv, TypeOK, Fields
  <2>3. vs.status = "generating" => ~vs.prompt
    BY <2>1, AllOrNothing DEF SettleIsAllOrNothing
  <2>4. L!Cancelled
    BY <2>1, <2>2, <2>3 DEF L!Cancelled
  <2>5. QED
    BY <2>4 DEF L!Next
<1>4. CASE SubmitStatus(r)
  <2>1. /\ slot[r] \in Graders /\ at[slot[r]] = "reserved"
        /\ pc[r] = "status" /\ pc'[r] = "spawn"
    BY <1>4 DEF SubmitStatus, Assign, IInv, TypeOK, SlotInv, SubmitSteps
  <2>2. slot[r] \notin Grading /\ Grading' = Grading \union {slot[r]}
    BY <1>0, <1>4, <2>1 DEF SubmitStatus, Assign, Grading, Started, threadVars
  <2>3. vs.prompt /\ vs.status \in Answered \union {"prompt_retrieved"}
    BY <2>1 DEF IInv, PublishedInv, Published, KeyIs, Whole, StatusInv, PastCheck,
                SubmitSteps
  <2>4. vs'.status = "response_submitted" /\ vs'.prompt = vs.prompt /\ past' = past
    BY <1>4 DEF SubmitStatus, Assign, IInv, TypeOK, Fields
  <2>5. L!Submitted(slot[r])
    BY <2>2, <2>3, <2>4 DEF L!Submitted, Answered, L!Answered
  <2>6. QED
    BY <2>1, <2>5 DEF L!Next
<1>5. CASE SubmitSpawn(r)
  <2>1. slot[r] \in Graders /\ at'[slot[r]] = "run" /\ pc[r] = "spawn" /\ pc'[r] = "idle"
    BY <1>5, ThreadFacts DEF SubmitSpawn, IInv, TypeOK, SlotInv, SubmitSteps
  <2>2. \A t \in Graders \ {slot[r]} : at'[t] = at[t]
    BY <1>5 DEF SubmitSpawn, IInv, TypeOK
  <2>3. Grading' = Grading
    BY <1>0, <2>1, <2>2 DEF Grading, Started
  <2>4. QED
    BY <1>5, <2>3 DEF SubmitSpawn, L!lvars
<1>6. QED
  BY <1>1, <1>2, <1>3, <1>4, <1>5 DEF Arrive, Proceed, QuietStep

\* It begins as the lifecycle does, and the clock is the lifecycle's deadline.
LEMMA InitImplements == Init => L!Init
BY ThreadFacts DEF Init, NewVectorSet, L!Init, Grading, Started

LEMMA ClockImplements == DeadlinePasses \/ UNCHANGED vars => [L!Next]_L!lvars
<1>1. ASSUME DeadlinePasses PROVE [L!Next]_L!lvars
  <2>1. Grading' = Grading
    BY <1>1 DEF DeadlinePasses, Grading, Started, requestVars, threadVars
  <2>2. L!DeadlinePassed
    BY <1>1, <2>1 DEF DeadlinePasses, L!DeadlinePassed
  <2>3. QED
    BY <2>2 DEF L!Next
<1>2. ASSUME UNCHANGED vars PROVE [L!Next]_L!lvars
  BY <1>2 DEF vars, requestVars, threadVars, L!lvars, Grading, Started
<1>3. QED
  BY <1>1, <1>2

\* Statuses change only along the promised lifecycle, and each accepted
\* submission has exactly one outcome.
THEOREM ImplementsLifecycleHolds ==
    ASSUME OneClient
    PROVE  Spec => ImplementsLifecycle
<1>1. SerialInv /\ [Next]_vars => [L!Next]_L!lvars
  BY ThreadImplements, RequestImplements, ClockImplements DEF Next, SerialInv
<1>2. QED
  BY <1>1, InitImplements, SerialInvariance, PTL DEF Spec, ImplementsLifecycle, L!Spec
=============================================================================
