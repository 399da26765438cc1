-------------------------- MODULE DbVectorSetProofs --------------------------
(***************************************************************************)
(* Proofs about DbVectorSet for any requests, payloads, submissions and    *)
(* restarts.  The steps the two stores share keep the invariants proved in *)
(* VectorSetProofs; what is left is settle() in one transaction, and the   *)
(* restart of the process.                                                 *)
(***************************************************************************)
EXTENDS DbVectorSet, VectorSetProofs

\* The lock of the in-memory store is never taken.
DbIInv == /\ IInv
          /\ lock = Free
          /\ interrupted \in BOOLEAN

FieldNames == {"status", "prompt", "internal_projection", "expected", "show_expected",
               "missing_tc_ids", "response", "validation"}

\* What a settle that is not refused writes.
LEMMA DbSettleFields ==
    ASSUME IInv, NEW t \in Threads, DbSettle(t), Listed, ~past
    PROVE  /\ vs' \in Fields
           /\ vs'.status = result[t] /\ result[t] \in {"ready", "disposition", "error"}
           /\ vs'.validation = IF result[t] = "disposition" THEN answer[t]
                                                            ELSE vs.validation
           /\ result[t] = "ready" => /\ vs'.prompt = TRUE
                                     /\ vs'.internal_projection
                                            = emitted.internal_projection
                                     /\ vs'.expected = emitted.expected
           /\ result[t] # "ready" => /\ vs'.prompt = vs.prompt
                                     /\ vs'.internal_projection = vs.internal_projection
                                     /\ vs'.expected = vs.expected
           /\ vs'.response = vs.response /\ vs'.missing_tc_ids = vs.missing_tc_ids
<1>1. vs' = Overlaid(vs, Updates(t)) /\ at[t] = "settle"
  BY DEF DbSettle, Listed, Expired
<1>2. result[t] \in {"ready", "disposition", "error"}
  BY <1>1 DEF IInv, TypeOK, RoleInv
<1>3. vs \in Fields /\ DOMAIN vs = FieldNames /\ answer[t] \in Answers \union {NoAnswer}
  BY DEF IInv, TypeOK, Fields, FieldNames
<1>4. CASE result[t] = "ready"
  <2> DEFINE u == [prompt |-> TRUE,
                   internal_projection |-> emitted.internal_projection,
                   expected |-> emitted.expected,
                   status |-> "ready"]
  <2>0. emitted.internal_projection \in BOOLEAN /\ emitted.expected \in BOOLEAN
    BY DEF IInv, TypeOK
  <2>1. Updates(t) = u /\ DOMAIN u = {"prompt", "internal_projection", "expected", "status"}
    BY <1>4 DEF Updates
  <2>2. vs' = [x \in FieldNames |-> IF x \in DOMAIN u THEN u[x] ELSE vs[x]]
    BY <1>1, <1>3, <2>1 DEF Overlaid
  <2>3. QED
    BY <1>3, <1>4, <2>0, <2>1, <2>2 DEF Fields, Statuses, FieldNames
<1>5. CASE result[t] = "disposition"
  <2> DEFINE u == [validation |-> answer[t], status |-> "disposition"]
  <2>1. Updates(t) = u /\ DOMAIN u = {"validation", "status"}
    BY <1>5 DEF Updates
  <2>2. vs' = [x \in FieldNames |-> IF x \in DOMAIN u THEN u[x] ELSE vs[x]]
    BY <1>1, <1>3, <2>1 DEF Overlaid
  <2>3. QED
    BY <1>3, <1>5, <2>1, <2>2 DEF Fields, Statuses, FieldNames
<1>6. CASE result[t] = "error"
  <2> DEFINE u == [status |-> "error"]
  <2>1. Updates(t) = u /\ DOMAIN u = {"status"}
    BY <1>6 DEF Updates
  <2>2. vs' = [x \in FieldNames |-> IF x \in DOMAIN u THEN u[x] ELSE vs[x]]
    BY <1>1, <1>3, <2>1 DEF Overlaid
  <2>3. QED
    BY <1>3, <1>6, <2>1, <2>2 DEF Fields, Statuses, FieldNames
<1>7. QED
  BY <1>2, <1>4, <1>5, <1>6

\* What a settle does apart from that.
LEMMA DbSettleFrame ==
    ASSUME IInv, NEW t \in Threads, DbSettle(t)
    PROVE  /\ at[t] = "settle" /\ at' = [at EXCEPT ![t] = "done"]
           /\ past' = past /\ lock' = lock /\ pc' = pc /\ slot' = slot
           /\ answer' = answer /\ result' = result /\ emitted' = emitted
           /\ retrieved' = retrieved
           /\ \A u \in Graders : Started(u)' <=> Started(u)
           /\ ~(Listed /\ ~past) => vs' = vs
BY ThreadFacts DEF DbSettle, Listed, Expired, requestVars, Started, IInv, TypeOK

\* Nobody is between the writes of a settle.
LEMMA NobodyInside ==
    ASSUME IInv, lock = Free, NEW t \in Threads
    PROVE  at[t] \notin SettleFields
BY ThreadFacts DEF IInv, LockInv

-----------------------------------------------------------------------------
(* The invariant behind the in-memory store's properties is one of this    *)
(* store as well.                                                          *)

\* settle() in one transaction keeps it,
LEMMA DbSettleIInv ==
    ASSUME DbIInv, NEW t \in Threads, DbSettle(t)
    PROVE  IInv'
<1> USE ThreadFacts, DbSettleFrame DEF DbIInv
<1>a. \A u \in Threads : at'[u] \notin SettleFields
  BY NobodyInside DEF IInv, TypeOK, SettleFields
<1>1. TypeOK'
  <2>1. vs' \in Fields
    BY DbSettleFields DEF IInv, TypeOK
  <2>2. at' \in [Threads -> ThreadSteps]
    BY DEF IInv, TypeOK, ThreadSteps
  <2>3. QED
    BY <2>1, <2>2 DEF IInv, TypeOK
<1>2. SlotInv'
  BY DEF IInv, TypeOK, SlotInv
<1>3. LockInv'
  BY <1>a DEF IInv, LockInv
<1>4. RoleInv'
  BY <1>a DEF IInv, TypeOK, RoleInv, SettleFields, KeyFields
<1>5. NoSettleOverCancel'
  BY <1>a DEF NoSettleOverCancel
<1>6. GenerationInv' /\ PublishedInv' /\ AcceptedInv'
  <2>1. CASE ~(Listed /\ ~past)
    <3>1. vs' = vs
      BY <2>1
    <3>2. at'[Generator] # "done" => at'[Generator] = at[Generator]
      BY DEF IInv, TypeOK
    <3>3. GenerationInv'
      BY <3>1, <3>2 DEF IInv, TypeOK, GenerationInv, KeyIs, Nothing, Whole
    <3>4. PublishedInv' /\ AcceptedInv'
      BY <3>1 DEF IInv, TypeOK, PublishedInv, Published, KeyIs, Whole, AcceptedInv
    <3>5. QED
      BY <3>3, <3>4
  <2>2. CASE Listed /\ ~past /\ t = Generator
    <3>1. Nothing /\ at'[t] = "done" /\ at[t] # "done"
      BY <2>2 DEF IInv, TypeOK, GenerationInv
    <3>2. vs'.status # "generating"
      BY <2>2, DbSettleFields
    <3>3. IF result[t] = "ready" THEN Whole' ELSE Nothing'
      BY <2>2, <3>1, DbSettleFields DEF KeyIs, Nothing, Whole
    <3>4. ~Published
      BY <2>2, <3>1 DEF Published
    <3>5. GenerationInv'
      BY <2>2, <3>1, <3>2, <3>3 DEF IInv, GenerationInv, KeyIs, Nothing
    <3>6. PublishedInv' /\ AcceptedInv'
      BY <2>2, <3>4, DbSettleFields DEF IInv, PublishedInv, AcceptedInv
    <3>7. QED
      BY <3>5, <3>6
  <2>3. CASE Listed /\ ~past /\ t \in Graders
    <3>1. Published /\ at'[Generator] = "done"
      BY <2>3 DEF IInv, TypeOK, PublishedInv, Started, Published
    <3>2. Published'
      BY <2>3, <3>1, DbSettleFields DEF IInv, RoleInv, Published, KeyIs, Whole
    <3>3. vs'.status # "generating"
      BY <2>3, DbSettleFields
    <3>4. GenerationInv'
      BY <2>3, <3>1, <3>2, <3>3, DbSettleFields
         DEF IInv, GenerationInv, Published, KeyIs, Whole
    <3>5. PublishedInv' /\ AcceptedInv'
      BY <2>3, <3>2, DbSettleFields DEF IInv, PublishedInv, AcceptedInv
    <3>6. QED
      BY <3>4, <3>5
  <2>4. QED
    BY <2>1, <2>2, <2>3 DEF Threads
<1>7. QED
  BY <1>1, <1>2, <1>3, <1>4, <1>5, <1>6 DEF IInv

\* What is left after a restart.
LEMMA RestartFrame ==
    ASSUME TypeOK, Restart
    PROVE  /\ vs' = vs /\ past' = past /\ retrieved' = retrieved /\ result' = result
           /\ emitted' = emitted /\ lock' = Free
           /\ \A r \in Requests : pc'[r] = "idle" /\ slot'[r] = Generator
           /\ \A t \in Threads : at'[t] \in {"off", "done"}
           /\ \A t \in Threads : at'[t] = "done" <=> Started(t)
           /\ \A t \in Threads : at'[t] # "off" => answer'[t] = answer[t]
           /\ \A t \in Graders : Started(t)' <=> Started(t)
           /\ TypeOK'
BY ThreadFacts DEF Restart, TypeOK, RequestSteps, ThreadSteps, Started

\* and so does a restart: an open settle is rolled back.
LEMMA RestartIInv ==
    ASSUME DbIInv, Restart
    PROVE  IInv'
<1> USE ThreadFacts DEF DbIInv
<1>1. TypeOK' /\ SlotInv'
  BY RestartFrame DEF IInv, SlotInv, SubmitSteps
<1>2. LockInv' /\ NoSettleOverCancel'
  BY RestartFrame DEF IInv, LockInv, NoSettleOverCancel, SettleFields
<1>3. RoleInv'
  BY RestartFrame DEF IInv, RoleInv, Started, SettleFields, KeyFields
<1>4. GenerationInv'
  <2>1. at[Generator] \in {"run", "settle", "done"}
    BY NobodyInside DEF IInv, TypeOK, ThreadSteps, RoleInv
  <2>2. at'[Generator] = "done"
    BY <2>1, RestartFrame DEF IInv, Started
  <2>3. QED
    BY <2>1, <2>2, RestartFrame DEF IInv, GenerationInv, KeyIs, Nothing, Whole
<1>5. PublishedInv' /\ AcceptedInv'
  <2>1. Published => Published'
    BY RestartFrame DEF IInv, Published, KeyIs, Whole, Started
  <2>2. QED
    BY <2>1, RestartFrame DEF IInv, PublishedInv, AcceptedInv, SubmitSteps
<1>6. QED
  BY <1>1, <1>2, <1>3, <1>4, <1>5 DEF IInv

\* The lock stays free.
LEMMA StepLockFree ==
    ASSUME DbIInv, [DbNext]_dbVars
    PROVE  lock' = Free /\ interrupted' \in BOOLEAN
<1> USE DEF DbIInv
<1>1. ASSUME NEW t \in Threads, DbThread(t) PROVE lock' = Free /\ interrupted' \in BOOLEAN
  BY <1>1 DEF DbThread, Run, DbSettle
<1>2. ASSUME NEW r \in Requests, DbArrive(r) PROVE lock' = Free /\ interrupted' \in BOOLEAN
  BY <1>2 DEF DbArrive, Arrive, GetLookup, CancelLookup, SubmitLookup
<1>3. ASSUME NEW r \in Requests, DbProceed(r) PROVE lock' = Free /\ interrupted' \in BOOLEAN
  BY <1>3 DEF DbProceed, Proceed, GetServe, GetMark, Cancel, SubmitCheck,
              SubmitShowExpected, SubmitMissing, SubmitResponse, SubmitClear,
              SubmitStatus, SubmitSpawn, Assign
<1>4. CASE DbDeadline \/ Restart \/ UNCHANGED dbVars
  BY <1>4 DEF DbDeadline, DeadlinePasses, Restart, dbVars, vars
<1>5. QED
  BY <1>1, <1>2, <1>3, <1>4 DEF DbNext

\* Every step keeps the invariant.
LEMMA DbStepIInv == DbIInv /\ [DbNext]_dbVars => DbIInv'
<1> SUFFICES ASSUME DbIInv, [DbNext]_dbVars PROVE DbIInv'
  OBVIOUS
<1>1. ASSUME Next \/ UNCHANGED vars PROVE IInv'
  BY <1>1, StepIInv DEF DbIInv
<1>2. ASSUME NEW t \in Threads, DbThread(t) PROVE IInv'
  BY <1>1, <1>2, DbSettleIInv DEF DbThread, Next, Thread
<1>3. ASSUME NEW r \in Requests, DbArrive(r) \/ DbProceed(r) PROVE IInv'
  BY <1>1, <1>3 DEF DbArrive, DbProceed, Next
<1>4. ASSUME DbDeadline \/ UNCHANGED dbVars PROVE IInv'
  BY <1>1, <1>4 DEF DbDeadline, Next, dbVars
<1>5. ASSUME Restart PROVE IInv'
  BY <1>5, RestartIInv
<1>6. IInv'
  BY <1>2, <1>3, <1>4, <1>5 DEF DbNext
<1>7. QED
  BY <1>6, StepLockFree DEF DbIInv

\* It holds in every reachable state, whatever requests run at the same time and
\* whenever the process is restarted.
THEOREM DbInvariance == DbSpec => []DbIInv
<1>1. DbInit => DbIInv
  BY InitIInv DEF DbInit, Init, DbIInv
<1>2. QED
  BY <1>1, DbStepIInv, PTL DEF DbSpec

\* A row has the vectors and beside them all that the engine emitted, or nothing.
THEOREM DbSettleIsAllOrNothing == DbSpec => []SettleIsAllOrNothing
<1>1. DbIInv => SettleIsAllOrNothing
  BY AllOrNothing DEF DbIInv
<1>2. QED
  BY <1>1, DbInvariance, PTL

-----------------------------------------------------------------------------
(* A client that sends one request at a time.                              *)

\* A restart may drop a submission half installed or its grading; until the next
\* submission gets its 200, nothing is promised of the grade.
DbSerialInv == /\ DbIInv
               /\ CoreInv
               /\ ~interrupted => MissingInv /\ PendingInv

\* settle() in one transaction keeps what holds whatever was interrupted,
LEMMA DbSettleCore ==
    ASSUME DbIInv, CoreInv, IInv', NEW t \in Threads, DbSettle(t)
    PROVE  CoreInv'
<1>0. /\ at[t] = "settle"
      /\ past' = past /\ pc' = pc /\ slot' = slot /\ answer' = answer
      /\ retrieved' = retrieved
      /\ \A u \in Graders : Started(u)' <=> Started(u)
      /\ ~(Listed /\ ~past) => vs' = vs
  BY DbSettleFrame DEF CoreInv
<1> USE <1>0 DEF CoreInv
<1>1. CASE ~(Listed /\ ~past)
  <2>1. vs' = vs
    BY <1>1
  <2>2. LiveInv' /\ StatusInv' /\ RetrievedInv' /\ InstallInv'
    BY <2>1 DEF LiveInv, Listed, StatusInv, RetrievedInv, AnsweredOnlyAfterRetrieval,
                InstallInv, Payload
  <2>3. QED
    BY <2>2
<1>2. CASE Listed /\ ~past
  <2>0. /\ vs'.status = result[t] /\ result[t] \in {"ready", "disposition", "error"}
        /\ vs'.validation = IF result[t] = "disposition" THEN answer[t]
                                                         ELSE vs.validation
        /\ result[t] # "ready" => vs'.prompt = vs.prompt
        /\ vs'.response = vs.response /\ vs'.missing_tc_ids = vs.missing_tc_ids
    BY <1>2, DbSettleFields
  <2> USE <1>2, <2>0
  <2>1. LiveInv' /\ InstallInv'
    <3>1. LiveInv'
      BY DEF LiveInv, Listed
    <3>2. InstallInv'
      BY DEF InstallInv, Payload
    <3>3. QED
      BY <3>1, <3>2
  <2>2. StatusInv'
    <3>1. CASE t = Generator
      <4>1. ~Published
        BY <3>1 DEF Published
      <4>2. /\ \A r \in Requests : pc[r] \notin PastCheck \union {"mark", "spawn"}
            /\ \A u \in Graders : ~Started(u)
        BY <4>1 DEF IInv, PublishedInv, PastCheck, SubmitSteps
      <4>3. QED
        BY <4>2 DEF StatusInv
    <3>2. CASE t \in Graders
      <4>1. vs'.status \in {"disposition", "error"}
        BY <3>2 DEF IInv, RoleInv
      <4>2. Started(t)
        BY DEF Started
      <4>3. \A r \in Requests : pc[r] # "mark"
        BY <3>2, <4>2 DEF StatusInv, Answered
      <4>4. QED
        BY <4>1, <4>3 DEF StatusInv, Answered
    <3>3. QED
      BY <3>1, <3>2 DEF Threads
  <2>3. RetrievedInv'
    <3>1. CASE t = Generator
      <4>1. ~vs.prompt /\ result[t] # "disposition"
        BY <3>1 DEF IInv, GenerationInv, KeyIs, Nothing, RoleInv
      <4>2. QED
        BY <4>1 DEF RetrievedInv, AnsweredOnlyAfterRetrieval
    <3>2. CASE t \in Graders
      <4>1. retrieved
        BY <3>2 DEF RetrievedInv, Started
      <4>2. QED
        BY <4>1 DEF RetrievedInv, AnsweredOnlyAfterRetrieval
    <3>3. QED
      BY <3>1, <3>2 DEF Threads
  <2>4. QED
    BY <2>1, <2>2, <2>3
<1>3. QED
  BY <1>1, <1>2

\* and what is pending it finishes.
LEMMA DbSettlePending ==
    ASSUME DbIInv, CoreInv, MissingInv, PendingInv, NEW t \in Threads, DbSettle(t)
    PROVE  MissingInv' /\ PendingInv'
<1>0. /\ at[t] = "settle" /\ past' = past /\ pc' = pc
      /\ \A u \in Graders \ {t} : Unfinished(u)' <=> Unfinished(u)
      /\ ~(Listed /\ ~past) => vs' = vs
  BY DbSettleFrame, ThreadFacts DEF CoreInv, IInv, TypeOK, Unfinished
<1> USE <1>0 DEF CoreInv
<1>1. CASE ~(Listed /\ ~past)
  BY <1>1 DEF MissingInv, PendingInv, Listed
<1>2. CASE Listed /\ ~past
  <2>0. /\ vs'.status = result[t] /\ result[t] \in {"ready", "disposition", "error"}
        /\ vs'.validation = IF result[t] = "disposition" THEN answer[t]
                                                         ELSE vs.validation
        /\ result[t] # "ready" => vs'.prompt = vs.prompt
        /\ vs'.response = vs.response /\ vs'.missing_tc_ids = vs.missing_tc_ids
    BY <1>2, DbSettleFields
  <2> USE <1>2, <2>0
  <2>1. MissingInv'
    BY DEF MissingInv
  <2>2. CASE t = Generator
    <3>1. vs.response = NoAnswer
      BY <2>2 DEF RetrievedInv, AnsweredOnlyAfterRetrieval, IInv, PublishedInv, Published
    <3>2. QED
      BY <2>1, <3>1 DEF PendingInv
  <2>3. CASE t \in Graders
    <3>1. vs'.status = "error" \/ vs'.validation \in Answers
      BY <2>3 DEF IInv, RoleInv
    <3>2. QED
      BY <2>1, <3>1, ConstantsAssumption DEF PendingInv
  <2>4. QED
    BY <2>2, <2>3 DEF Threads
<1>3. QED
  BY <1>1, <1>2

\* A restart loses no more than it says.
LEMMA RestartSerial ==
    ASSUME DbSerialInv, IInv', Restart
    PROVE  CoreInv' /\ (~interrupted' => MissingInv' /\ PendingInv')
<1> USE RestartFrame DEF DbSerialInv, DbIInv, IInv
<1>1. LiveInv' /\ StatusInv' /\ RetrievedInv' /\ InstallInv'
  BY DEF CoreInv, LiveInv, Listed, StatusInv, RetrievedInv, AnsweredOnlyAfterRetrieval,
         InstallInv, PastCheck, SubmitSteps
<1>2. ASSUME ~interrupted' PROVE MissingInv' /\ PendingInv'
  <2>1. /\ ~interrupted
        /\ \A t \in Graders : ~Unfinished(t)
        /\ \A r \in Requests : pc[r] \notin Installing
    BY <1>2 DEF Restart, Unfinished
  <2>2. MissingInv'
    BY <2>1 DEF MissingInv, Installing
  <2>3. PendingInv'
    BY <2>1 DEF PendingInv, Listed, Installing
  <2>4. QED
    BY <2>2, <2>3
<1>3. QED
  BY <1>1, <1>2 DEF CoreInv

\* Every step keeps the invariant.
LEMMA DbStepSerial ==
    ASSUME OneClient
    PROVE  DbSerialInv /\ [DbNext]_dbVars => DbSerialInv'
<1> SUFFICES ASSUME DbSerialInv, [DbNext]_dbVars PROVE DbSerialInv'
  OBVIOUS
<1> USE DEF DbSerialInv
<1>1. DbIInv'
  BY DbStepIInv
<1>2. IInv' /\ IInv
  BY <1>1 DEF DbIInv
<1>3. ASSUME NEW t \in Threads, DbThread(t)
      PROVE  CoreInv' /\ (~interrupted' => MissingInv' /\ PendingInv')
  <2>1. interrupted' = interrupted
    BY <1>3 DEF DbThread
  <2>2. CASE DbSettle(t)
    BY <1>2, <2>1, <2>2, DbSettleCore, DbSettlePending
  <2>3. CASE Run(t)
    <3>1. Thread(t)
      BY <2>3 DEF Thread
    <3>2. CoreInv' /\ (MissingInv => MissingInv')
      BY <1>2, <3>1, ThreadMissing, ThreadStatus, ThreadRetrieved DEF CoreInv
    <3>3. PendingInv => PendingInv'
      BY <1>2, <2>3, RunPending DEF CoreInv
    <3>4. QED
      BY <2>1, <3>2, <3>3
  <2>4. QED
    BY <1>3, <2>2, <2>3 DEF DbThread
<1>4. ASSUME NEW r \in Requests, DbArrive(r) \/ DbProceed(r)
      PROVE  CoreInv' /\ (~interrupted' => MissingInv' /\ PendingInv')
  <2>1. Arrive(r) \/ Proceed(r)
    BY <1>4 DEF DbArrive, DbProceed
  <2>2. CASE ~interrupted
    BY <1>2, <2>1, <2>2, RequestCore, RequestMissing, RequestPending
  <2>3. CASE interrupted
    <3>1. ~interrupted' => pc[r] = "spawn"
      BY <1>4, <2>3 DEF DbArrive, DbProceed
    <3>2. QED
      BY <1>2, <2>1, <3>1, RequestCore, RequestMissing, RequestPending
  <2>4. QED
    BY <2>2, <2>3
<1>5. ASSUME DbDeadline \/ UNCHANGED dbVars
      PROVE  CoreInv' /\ (~interrupted' => MissingInv' /\ PendingInv')
  BY <1>2, <1>5, ClockCore DEF DbDeadline, dbVars
<1>6. ASSUME Restart
      PROVE  CoreInv' /\ (~interrupted' => MissingInv' /\ PendingInv')
  BY <1>2, <1>6, RestartSerial
<1>7. CoreInv' /\ (~interrupted' => MissingInv' /\ PendingInv')
  BY <1>3, <1>4, <1>5, <1>6 DEF DbNext
<1>8. QED
  BY <1>1, <1>7

\* It holds in every reachable state.
THEOREM DbSerialInvariance ==
    ASSUME OneClient
    PROVE  DbSpec => []DbSerialInv
<1>1. DbInit => DbSerialInv
  BY InitSerial DEF DbInit, Init, DbSerialInv, DbIInv, SerialInv, CoreInv
<1>2. QED
  BY <1>1, DbStepSerial, PTL DEF DbSpec

\* A cancelled set stays cancelled, whatever was under way and whenever the
\* process was restarted.
THEOREM CancelOutlivesRestartsHolds ==
    ASSUME OneClient
    PROVE  DbSpec => CancelOutlivesRestarts
<1>1. DbSerialInv /\ [DbNext]_dbVars
         => (vs.status = "cancelled" => vs'.status = "cancelled")
  <2> SUFFICES ASSUME DbSerialInv, [DbNext]_dbVars, vs.status = "cancelled"
               PROVE  vs'.status = "cancelled"
    OBVIOUS
  <2>1. ASSUME NEW t \in Threads, DbThread(t) PROVE vs' = vs
    BY <2>1 DEF DbThread, Run, DbSettle
  <2>2. ASSUME NEW r \in Requests, DbArrive(r) \/ DbProceed(r) PROVE vs' = vs
    BY <2>2, RequestsLeaveCancelled DEF DbArrive, DbProceed, DbSerialInv
  <2>3. QED
    BY <2>1, <2>2 DEF DbNext, DbDeadline, DeadlinePasses, Restart, dbVars, vars
<1>2. QED
  BY <1>1, DbSerialInvariance, PTL DEF DbSpec, CancelOutlivesRestarts

\* Responses are stored only for a prompt that was served, by this process or an
\* earlier one.
THEOREM DbAnsweredOnlyAfterRetrieval ==
    ASSUME OneClient
    PROVE  DbSpec => []AnsweredOnlyAfterRetrieval
<1>1. DbSerialInv => AnsweredOnlyAfterRetrieval
  BY DEF DbSerialInv, CoreInv, RetrievedInv
<1>2. QED
  BY <1>1, DbSerialInvariance, PTL

\* Submitting again repairs what a restart did to an earlier submission.
THEOREM ResubmissionRepairsHolds ==
    ASSUME OneClient, EngineGrades
    PROVE  DbSpec => []ResubmissionRepairs
<1>1. DbSerialInv => ResubmissionRepairs
  <2> SUFFICES ASSUME DbSerialInv, AtRest, ~past, Listed, vs.response # NoAnswer,
                      ~interrupted
               PROVE  Disposition \in IF vs.response \in Partial
                                        THEN {"missing", "error"}
                                        ELSE {"passed", "failed", "error"}
    BY DEF ResubmissionRepairs
  <2>1. IInv /\ MissingInv /\ PendingInv
    BY DEF DbSerialInv, DbIInv
  <2>2. QED
    BY <2>1, RestDisposition
<1>2. QED
  BY <1>1, DbSerialInvariance, PTL

-----------------------------------------------------------------------------
(* DbVectorSet implements RestartableLifecycle for such a client.          *)

\* A step of the lifecycle is one of the lifecycle that outlives restarts.
LEMMA LifecycleIsRestartable ==
    /\ L!Init => R!Init
    /\ [L!Next]_L!lvars => [R!Next]_R!lvars
<1>1. L!Init => R!Init
  BY DEF L!Init, R!Init
<1>2. L!lvars = R!lvars /\ (L!Next <=> R!Next)
  BY DEF L!lvars, R!lvars, L!Next, R!Next, L!Generated, R!Generated,
         L!GenerationFailed, R!GenerationFailed, L!Retrieved, R!Retrieved,
         L!Cancelled, R!Cancelled, L!DeadlinePassed, R!DeadlinePassed,
         L!Submitted, R!Submitted, L!Graded, R!Graded, L!Dropped, R!Dropped,
         L!Answered, R!Answered
<1>3. (UNCHANGED L!lvars) => (UNCHANGED R!lvars)
  BY DEF L!lvars, R!lvars
<1>4. QED
  BY <1>1, <1>2, <1>3

\* settle() in one transaction publishes one outcome, or drops it.
LEMMA DbSettleImplements ==
    ASSUME DbIInv, CoreInv, NEW t \in Threads, DbSettle(t)
    PROVE  [L!Next]_L!lvars
<1>0. /\ at[t] = "settle" /\ at' = [at EXCEPT ![t] = "done"]
      /\ past' = past /\ pc' = pc /\ slot' = slot
      /\ ~(Listed /\ ~past) => vs' = vs
  BY DbSettleFrame DEF CoreInv
<1>1. \A r \in Requests : pc[r] = "spawn" => slot[r] # t
  BY <1>0 DEF CoreInv, IInv, SlotInv, SubmitSteps
<1>2. Grading' = Grading \ {t}
  BY <1>0, <1>1, ThreadFacts DEF Grading, Started, CoreInv, IInv, TypeOK
<1>3. t \in Graders => t \in Grading
  BY <1>0 DEF Grading, Started
<1>4. t = Generator => Grading' = Grading
  BY <1>2, ThreadFacts DEF Grading
<1>5. CASE ~(Listed /\ ~past)
  <2>1. CASE t = Generator
    BY <1>0, <1>4, <1>5, <2>1 DEF L!lvars
  <2>2. CASE t \in Graders
    <3>1. L!Dropped(t)
      BY <1>0, <1>2, <1>3, <1>5, <2>2 DEF L!Dropped, Listed
    <3>2. QED
      BY <2>2, <3>1 DEF L!Next
  <2>3. QED
    BY <2>1, <2>2 DEF Threads
<1>6. CASE Listed /\ ~past
  <2>0. /\ vs'.status = result[t] /\ result[t] \in {"ready", "disposition", "error"}
        /\ result[t] = "ready" => vs'.prompt = TRUE
        /\ result[t] # "ready" => vs'.prompt = vs.prompt
    BY <1>6, DbSettleFields DEF CoreInv
  <2>1. CASE t = Generator
    <3>1. vs.status = "generating" /\ ~vs.prompt /\ result[t] # "disposition"
      BY <1>0, <1>6, <2>1 DEF CoreInv, IInv, GenerationInv, KeyIs, Nothing, RoleInv, Listed
    <3>2. CASE result[t] = "ready"
      <4>1. L!Generated
        BY <1>0, <1>4, <2>0, <2>1, <3>1, <3>2 DEF L!Generated
      <4>2. QED
        BY <4>1 DEF L!Next
    <3>3. CASE result[t] = "error"
      <4>1. L!GenerationFailed
        BY <1>0, <1>4, <2>0, <2>1, <3>1, <3>3 DEF L!GenerationFailed
      <4>2. QED
        BY <4>1 DEF L!Next
    <3>4. QED
      BY <2>0, <3>1, <3>2, <3>3
  <2>2. CASE t \in Graders
    <3>1. result[t] # "ready"
      BY <2>2 DEF CoreInv, IInv, RoleInv
    <3>2. vs.status \in Answered
      BY <1>0, <1>6, <2>2 DEF CoreInv, StatusInv, Started, Listed
    <3>3. L!Graded(t)
      BY <1>0, <1>2, <1>3, <2>0, <2>2, <3>1, <3>2 DEF L!Graded, Answered, L!Answered
    <3>4. QED
      BY <2>2, <3>3 DEF L!Next
  <2>3. QED
    BY <2>1, <2>2 DEF Threads
<1>7. QED
  BY <1>5, <1>6

\* A restart takes the gradings under way with it and moves nothing else.
LEMMA RestartImplements ==
    ASSUME DbIInv, Restart
    PROVE  R!Lost
<1> USE RestartFrame DEF DbIInv, IInv
<1>1. Grading' = {}
  BY ThreadFacts DEF Grading, Started
<1>2. QED
  BY <1>1 DEF R!Lost

\* The row's status moves only along the promised lifecycle, and a restart loses
\* gradings without moving it.
THEOREM ImplementsRestartableHolds ==
    ASSUME OneClient
    PROVE  DbSpec => ImplementsRestartable
<1>1. DbInit => R!Init
  BY InitImplements, LifecycleIsRestartable DEF DbInit
<1>2. DbSerialInv /\ [DbNext]_dbVars => [R!Next \/ R!Lost]_R!lvars
  <2> SUFFICES ASSUME DbSerialInv, [DbNext]_dbVars
               PROVE  [R!Next \/ R!Lost]_R!lvars
    OBVIOUS
  <2> USE DEF DbSerialInv
  <2>1. ASSUME NEW t \in Threads, DbThread(t) PROVE [L!Next]_L!lvars
    BY <2>1, DbSettleImplements, ThreadImplements DEF DbThread, Thread
  <2>2. ASSUME NEW r \in Requests, DbArrive(r) \/ DbProceed(r) PROVE [L!Next]_L!lvars
    BY <2>2, RequestImplements DEF DbArrive, DbProceed
  <2>3. ASSUME DbDeadline \/ UNCHANGED dbVars PROVE [L!Next]_L!lvars
    BY <2>3, ClockImplements DEF DbDeadline, dbVars
  <2>4. CASE Restart
    BY <2>4, RestartImplements
  <2>5. QED
    BY <2>1, <2>2, <2>3, <2>4, LifecycleIsRestartable DEF DbNext
<1>3. QED
  BY <1>1, <1>2, DbSerialInvariance, PTL
     DEF DbSpec, ImplementsRestartable, R!RestartableSpec
=============================================================================
