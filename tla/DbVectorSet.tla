----------------------------- MODULE DbVectorSet -----------------------------
(***************************************************************************)
(* A vector set kept in PostgreSQL (db/db_store.py), where it outlives the *)
(* process.  The handlers and the threads are those of VectorSet: they     *)
(* reach the row through a proxy, which makes every field they read a      *)
(* query and every field they assign a transaction of its own.  settle()   *)
(* and cancel() lock the row, so that a settle is one transaction.         *)
(*                                                                         *)
(* A restart of the process drops the requests and the daemon threads      *)
(* between any two of their transactions; nothing starts them again.       *)
(***************************************************************************)
EXTENDS VectorSetRequirements

CONSTANT MaxRestarts        \* bound on the restarts of the process

ASSUME RestartsAssumption == MaxRestarts \in Nat

VARIABLES
    restarts,       \* how often the process was restarted
    interrupted     \* history: a restart dropped the latest submission

dbVars == <<vars, restarts, interrupted>>

DbInit == Init /\ restarts = 0 /\ interrupted = FALSE

\* The keyword arguments of the settle() a thread ends with.
Updates(t) ==
    CASE result[t] = "ready" ->
             [prompt |-> TRUE,
              internal_projection |-> emitted.internal_projection,
              expected |-> emitted.expected,
              status |-> "ready"]
      [] result[t] = "disposition" ->
             [validation |-> answer[t], status |-> "disposition"]
      [] OTHER -> [status |-> "error"]

\* The row with some of its fields set.
Overlaid(row, updates) ==
    [f \in DOMAIN row |-> IF f \in DOMAIN updates THEN updates[f] ELSE row[f]]

\* A settle() through the proxy's own assignments, each a transaction.
DbSettleByField(t) == SettleBegin(t) \/ SettleWrite(t)

\* A settle() that trusts the row it was started for.
DbSettleUnchecked(t) ==
    /\ at[t] = "settle"
    /\ at' = [at EXCEPT ![t] = "done"]
    /\ vs' = Overlaid(vs, Updates(t))
    /\ UNCHANGED <<past, lock, requestVars, answer, result, emitted, retrieved>>

\* SELECT ... FOR UPDATE, the check and all the updates, in one transaction.
DbSettle(t) ==
    /\ at[t] = "settle"
    /\ at' = [at EXCEPT ![t] = "done"]
    /\ vs' = IF vs.status = "cancelled" \/ Expired THEN vs ELSE Overlaid(vs, Updates(t))
    /\ UNCHANGED <<past, lock, requestVars, answer, result, emitted, retrieved>>

DbThread(t) == /\ Run(t) \/ DbSettle(t)
               /\ UNCHANGED <<restarts, interrupted>>

\* The handlers as they are: each of their steps is one query or one
\* transaction on the row.  A submission that gets its 200 makes good for what
\* a restart did to an earlier one.
DbProceed(r) == /\ Proceed(r)
                /\ interrupted' = (interrupted /\ pc[r] # "spawn")
                /\ UNCHANGED restarts

DbArrive(r) == Arrive(r) /\ UNCHANGED <<restarts, interrupted>>

\* The steps at which a submission has written some of the fields its grade
\* depends on, or all of them with no thread started yet.
Installing == {"response", "validation", "status", "spawn"}

\* A server that on its way up gives the row back to the client to answer.
RestartReopens ==
    /\ restarts < MaxRestarts
    /\ restarts' = restarts + 1
    /\ interrupted' = interrupted
    /\ vs' = [vs EXCEPT !.status = IF @ = "cancelled" THEN @
                                   ELSE "prompt_retrieved"]
    /\ lock' = Free
    /\ pc' = [r \in Requests |-> "idle"]
    /\ slot' = [r \in Requests |-> Generator]
    /\ at' = [t \in Threads |-> IF at[t] \in {"off", "reserved"} THEN "off"
                                                                 ELSE "done"]
    /\ UNCHANGED <<past, answer, result, emitted, retrieved>>

\* The process ends and another one starts: rows stay, an open transaction is
\* rolled back, handlers and daemon threads are gone.
Restart ==
    /\ restarts < MaxRestarts
    /\ restarts' = restarts + 1
    /\ interrupted' = \/ interrupted
                      \/ \E t \in Graders : Started(t) /\ at[t] # "done"
                      \/ \E r \in Requests : pc[r] \in Installing
    /\ lock' = Free
    /\ pc' = [r \in Requests |-> "idle"]
    /\ slot' = [r \in Requests |-> Generator]
    /\ at' = [t \in Threads |-> IF at[t] \in {"off", "reserved"} THEN "off"
                                                                 ELSE "done"]
    /\ answer' = [t \in Threads |-> IF at[t] = "reserved" THEN NoAnswer
                                                          ELSE answer[t]]
    /\ UNCHANGED <<vs, past, result, emitted, retrieved>>

DbDeadline == DeadlinePasses /\ UNCHANGED <<restarts, interrupted>>

DbNext == \/ \E t \in Threads : DbThread(t)
          \/ \E r \in Requests : DbArrive(r) \/ DbProceed(r)
          \/ DbDeadline
          \/ Restart

\* Threads run on while the process lives; a restart never has to come.
DbSpec == /\ DbInit /\ [][DbNext]_dbVars
          /\ \A t \in Threads : WF_dbVars(DbThread(t))
          /\ \A r \in Requests : WF_dbVars(DbProceed(r))

-----------------------------------------------------------------------------
(* For a client that sends one request at a time.                          *)

\* A cancelled set stays cancelled, whatever was under way and whenever the
\* process was restarted.
CancelOutlivesRestarts ==
    [][vs.status = "cancelled" => vs'.status = "cancelled"]_dbVars

\* A restart can leave a set with new responses and an old grade, or answered
\* with nobody grading it.  Submitting again repairs it: when everything has
\* come to rest in time, a submission that no restart dropped is accounted for.
ResubmissionRepairs ==
    AtRest /\ ~past /\ Listed /\ vs.response # NoAnswer /\ ~interrupted =>
        Disposition \in IF vs.response \in Partial
                          THEN {"missing", "error"}
                          ELSE {"passed", "failed", "error"}

\* Only a restart, by dropping the generating thread, can leave a set
\* "generating" until its deadline.
GenerationEndsUnlessRestarted ==
    <>(vs.status # "generating" \/ past \/ restarts > 0)

R == INSTANCE RestartableLifecycle
        WITH Submissions <- Graders,
             phase <- vs.status,
             open <- ~past,
             vectors <- vs.status # "generating" /\ vs.prompt,
             grading <- Grading

\* The row's status moves only along the promised lifecycle, and a restart
\* loses gradings without moving it.
ImplementsRestartable == R!RestartableSpec
=============================================================================
