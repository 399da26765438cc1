------------------------------ MODULE GenValDir ------------------------------
(***************************************************************************)
(* The work directory of one vector set, through which the crypto boundary *)
(* (crypto_boundary/client.py, genval/nist_cli_provider.py) and the NIST   *)
(* engine exchange files.  Every generation and every validation of the    *)
(* set runs in it, on a thread of its own, with an engine process of its   *)
(* own.  The engine is external: it reads its input files once, writes any *)
(* of its output files in any order, and exits with any code, or hangs.    *)
(*                                                                         *)
(* A file stands for what it was computed from: the call whose             *)
(* registration or response it holds, and for a validation also the        *)
(* generation whose answer key it was graded against.                      *)
(***************************************************************************)
EXTENDS Naturals

CONSTANTS
    Generations,    \* calls of _nist_generate
    Validations,    \* calls of _nist_validate, each with a response of its own
    MaxRestarts,    \* bound on the restarts of the server process
    NoFile          \* a file that is not there

Calls == Generations \union Validations

ASSUME CallsAssumption == /\ Generations \intersect Validations = {}
                          /\ NoFile \notin Calls
                          /\ MaxRestarts \in Nat

VARIABLES
    dir,        \* the files of the directory
    created,    \* the store holds the vector set
    key,        \* the generation whose answer key the store holds, or NoFile
    pc,         \* what each call does next
    sent,       \* the answer key each validation was called with
    engine,     \* the engine process of each call
    input,      \* what that process has read
    out,        \* what each call returned
    restarts,   \* how often the server process was restarted
    disturbed   \* history: calls that did not have the directory to themselves

vars == <<dir, created, key, pc, sent, engine, input, out, restarts, disturbed>>

Files == {"registration", "prompt", "internalProjection", "expectedResults",
          "response", "validation"}

\* The files the engine of a call may write, and those its caller insists on.
Outputs(c) == IF c \in Generations
                THEN {"prompt", "internalProjection", "expectedResults"}
                ELSE {"validation"}
Required(c) == Outputs(c) \ {"expectedResults"}

Init == /\ dir = [f \in Files |-> NoFile]
        /\ created = FALSE
        /\ key = NoFile
        /\ pc = [c \in Calls |-> "idle"]
        /\ sent = [c \in Calls |-> NoFile]
        /\ engine = [c \in Calls |-> "off"]
        /\ input = [c \in Calls |-> NoFile]
        /\ out = [c \in Calls |-> [f \in Outputs(c) |-> NoFile]]
        /\ restarts = 0
        /\ disturbed = {}

Running(c) == engine[c] \in {"reading", "writing"}
UnderWay(c) == pc[c] \notin {"idle", "returned", "raised", "lost"} \/ Running(c)

\* The exception that ends in the disposition "error".
Raise(c) == pc' = [pc EXCEPT ![c] = "raised"]

-----------------------------------------------------------------------------
(* The calls.                                                              *)

\* History: c shares the directory with whoever is still at work in it, and a
\* generation also with whoever left files it may mistake for its own.
Share(c) == LET others == {d \in Calls \ {c} : UnderWay(d)}
            IN  disturbed' = disturbed \union others \union
                    IF \/ others # {}
                       \/ c \in Generations /\ \E f \in Outputs(c) : dir[f] # NoFile
                      THEN {c} ELSE {}

\* A vector set is generated once, when its session is created.
BeginGenerate(c) ==
    /\ c \in Generations /\ pc[c] = "idle"
    /\ ~created
    /\ created' = TRUE
    /\ dir' = [dir EXCEPT !["registration"] = c]
    /\ pc' = [pc EXCEPT ![c] = "start"]
    /\ Share(c)
    /\ UNCHANGED <<key, sent, engine, input, out, restarts>>

\* Nobody submits before the answer key is stored (KeyBeforePrompt).
BeginValidate(c) ==
    /\ c \in Validations /\ pc[c] = "idle"
    /\ key # NoFile
    /\ dir' = [dir EXCEPT !["internalProjection"] = key, !["response"] = c]
    /\ sent' = [sent EXCEPT ![c] = key]
    /\ pc' = [pc EXCEPT ![c] = "sweep"]
    /\ Share(c)
    /\ UNCHANGED <<created, key, engine, input, out, restarts>>

\* Validation without the removal of an earlier validation.json.
SweepNothing(c) ==
    /\ pc[c] = "sweep"
    /\ pc' = [pc EXCEPT ![c] = "start"]
    /\ UNCHANGED <<dir, created, key, sent, engine, input, out, restarts, disturbed>>

\* validation_path.exists() ...
Sweep(c) ==
    /\ pc[c] = "sweep"
    /\ pc' = [pc EXCEPT ![c] = IF dir["validation"] = NoFile THEN "start"
                                                             ELSE "unlink"]
    /\ UNCHANGED <<dir, created, key, sent, engine, input, out, restarts, disturbed>>

\* ... and unlink(), which raises if someone else was faster.
Unlink(c) ==
    /\ pc[c] = "unlink"
    /\ IF dir["validation"] = NoFile
         THEN Raise(c) /\ UNCHANGED dir
         ELSE /\ dir' = [dir EXCEPT !["validation"] = NoFile]
              /\ pc' = [pc EXCEPT ![c] = "start"]
    /\ UNCHANGED <<created, key, sent, engine, input, out, restarts, disturbed>>

\* _run: no runtime or no runner is a configuration error.
Start(c) ==
    /\ pc[c] = "start"
    /\ \/ Raise(c) /\ UNCHANGED engine
       \/ /\ pc' = [pc EXCEPT ![c] = "wait"]
          /\ engine' = [engine EXCEPT ![c] = "reading"]
    /\ UNCHANGED <<dir, created, key, sent, input, out, restarts, disturbed>>

\* subprocess.run without its timeout.
TimeoutNever(c) == FALSE /\ UNCHANGED vars

\* A timeout that gives up on the process without killing it.
TimeoutLeavesRunning(c) ==
    /\ pc[c] = "wait" /\ Running(c)
    /\ Raise(c)
    /\ UNCHANGED <<dir, created, key, sent, engine, input, out, restarts, disturbed>>

\* subprocess.run kills the process and waits for it before it raises.
Timeout(c) ==
    /\ pc[c] = "wait" /\ Running(c)
    /\ engine' = [engine EXCEPT ![c] = "off"]
    /\ input' = [input EXCEPT ![c] = NoFile]
    /\ Raise(c)
    /\ UNCHANGED <<dir, created, key, sent, out, restarts, disturbed>>

\* A failing exit code is overlooked if there is a validation.json all the same.
Exited(c) ==
    /\ pc[c] = "wait" /\ engine[c] \in {"zero", "nonzero"}
    /\ IF \/ engine[c] = "zero"
          \/ c \in Validations /\ dir["validation"] # NoFile
         THEN pc' = [pc EXCEPT ![c] = "collect"]
         ELSE Raise(c)
    /\ engine' = [engine EXCEPT ![c] = "off"]
    /\ UNCHANGED <<dir, created, key, sent, input, out, restarts, disturbed>>

\* A generation that returns whatever is in the directory.
CollectAnything(c) ==
    /\ pc[c] = "collect"
    /\ out' = [out EXCEPT ![c] = [f \in Outputs(c) |-> dir[f]]]
    /\ pc' = [pc EXCEPT ![c] = "returned"]
    /\ key' = IF c \in Generations THEN c ELSE key
    /\ UNCHANGED <<dir, created, sent, engine, input, restarts, disturbed>>

\* _require_file and the reads.  Taken together: only a call that shares the
\* directory can have a file change between them.  A file that is no JSON raises:
\* this engine's, or the half that an engine still at work or killed has written.
\* A generation's result goes to the store.
Collect(c) ==
    /\ pc[c] = "collect"
    /\ \/ Raise(c) /\ UNCHANGED <<out, key>>
       \/ /\ \A f \in Required(c) : dir[f] # NoFile
          /\ out' = [out EXCEPT ![c] = [f \in Outputs(c) |-> dir[f]]]
          /\ pc' = [pc EXCEPT ![c] = "returned"]
          /\ key' = IF c \in Generations THEN c ELSE key
    /\ UNCHANGED <<dir, created, sent, engine, input, restarts, disturbed>>

-----------------------------------------------------------------------------
(* The engine processes.                                                   *)

EngineReads(c) ==
    /\ engine[c] = "reading"
    /\ engine' = [engine EXCEPT ![c] = "writing"]
    /\ input' = [input EXCEPT ![c] =
                    IF c \in Generations THEN dir["registration"]
                    ELSE <<dir["internalProjection"], dir["response"]>>]
    /\ UNCHANGED <<dir, created, key, pc, sent, out, restarts, disturbed>>

EngineWrites(c) ==
    /\ engine[c] = "writing"
    /\ \E f \in Outputs(c) : dir' = [dir EXCEPT ![f] = input[c]]
    /\ UNCHANGED <<created, key, pc, sent, engine, input, out, restarts, disturbed>>

\* The exit code of an engine whose caller is gone goes nowhere.
EngineExits(c) ==
    /\ Running(c)
    /\ \E code \in IF pc[c] = "wait" THEN {"zero", "nonzero"} ELSE {"off"} :
          engine' = [engine EXCEPT ![c] = code]
    /\ input' = [input EXCEPT ![c] = NoFile]
    /\ UNCHANGED <<dir, created, key, pc, sent, out, restarts, disturbed>>

\* The server process ends: its calls are gone, and any of their engines may
\* live on.  With a database the set and its answer key survive.  Without one
\* the ids start again, and the next set with this id gets this directory.
Restart ==
    /\ restarts < MaxRestarts
    /\ restarts' = restarts + 1
    /\ pc' = [c \in Calls |-> IF pc[c] \in {"idle", "returned", "raised"}
                                THEN pc[c] ELSE "lost"]
    /\ \E live \in SUBSET {c \in Calls : Running(c)} :
          /\ engine' = [c \in Calls |-> IF c \in live THEN engine[c] ELSE "off"]
          /\ input' = [c \in Calls |-> IF c \in live THEN input[c] ELSE NoFile]
    /\ \/ UNCHANGED <<created, key>>
       \/ created' = FALSE /\ key' = NoFile
    /\ UNCHANGED <<dir, sent, out, disturbed>>

Call(c) == \/ Sweep(c) \/ Unlink(c) \/ Start(c) \/ Timeout(c) \/ Exited(c)
           \/ Collect(c)

Next == \/ \E c \in Calls : \/ BeginGenerate(c) \/ BeginValidate(c) \/ Call(c)
                            \/ EngineReads(c) \/ EngineWrites(c) \/ EngineExits(c)
        \/ Restart

\* The boundary's threads run on; an engine owes nobody an answer.
Spec == Init /\ [][Next]_vars /\ \A c \in Calls : WF_vars(Call(c))

-----------------------------------------------------------------------------
\* A validation that had the directory to itself returns the grade of its own
\* response against the key it was given (the docstring of validate()), even
\* if the engine failed, or an earlier one had left its validation.json.
GradeIsOwn ==
    \A c \in Validations : pc[c] = "returned" /\ c \notin disturbed =>
        out[c]["validation"] = <<sent[c], c>>

\* A generation that found an empty directory returns one run's vectors: a
\* prompt and an answer key that belong together, and expected results that
\* belong to them or are absent.
VectorsAreOneRun ==
    \A c \in Generations : pc[c] = "returned" /\ c \notin disturbed =>
        /\ out[c]["prompt"] = c
        /\ out[c]["internalProjection"] = c
        /\ out[c]["expectedResults"] \in {c, NoFile}

\* Only a restart leaves an engine at work after the call that started it:
\* what answers after its timeout cannot write into a later call's files.
NoEngineOutlivesItsCall ==
    \A c \in Calls : Running(c) => pc[c] \in {"wait", "lost"}

\* Every call ends, however long its engine hangs.
EveryCallEnds ==
    \A c \in Calls : UnderWay(c) ~> pc[c] \in {"returned", "raised", "lost"}
=============================================================================
