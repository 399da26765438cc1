-------------------------- MODULE VectorSetResults --------------------------
(***************************************************************************)
(* GET .../vectorSets/{id}/results beside everything VectorSet does.  The  *)
(* handler reads the dataclass without its lock: the grade twice for the   *)
(* body, then field by field inside disposition(), then once more to       *)
(* disclose expected and provided answers.                                 *)
(***************************************************************************)
EXTENDS VectorSetRequirements

VARIABLES
    step,       \* what the reading request does next
    base,       \* the grade its body is built from, or Empty, or NoAnswer
    said,       \* the disposition it computed
    provided,   \* the responses it discloses, if any
    seen        \* history: every disposition the set had since it arrived

readerVars == <<step, base, said, provided, seen>>
allVars == <<vars, readerVars>>

Empty == "{}"           \* the body when there is no grade
ASSUME EmptyAssumption == NoAnswer # Empty      \* which is not None

ServerError == "500"    \* an attribute read on None

InitResults == /\ Init
               /\ step = "idle"
               /\ base = Empty
               /\ said = "nothing"
               /\ provided = NoAnswer
               /\ seen = {}

-----------------------------------------------------------------------------
\* The reader goes on to the next read.
GoTo(s) == step' = s /\ UNCHANGED <<base, said, provided>>

\* disposition() has its value.
Say(d) == said' = d /\ step' = "body" /\ UNCHANGED <<base, provided>>

\* An unhandled AttributeError: the request ends in a 500.
Crash == said' = ServerError /\ step' = "idle" /\ UNCHANGED <<base, provided>>

ResultsLookup == /\ step = "idle"
                 /\ Listed
                 /\ step' = "base"
                 /\ base' = Empty
                 /\ said' = "nothing"
                 /\ provided' = NoAnswer

ReadBase == /\ step = "base"
            /\ GoTo(IF vs.validation # NoAnswer THEN "base_again" ELSE "error")

\* The second read of the field in one expression.
ReadBaseAgain == /\ step = "base_again"
                 /\ step' = "error"
                 /\ base' = vs.validation
                 /\ UNCHANGED <<said, provided>>

ReadError == /\ step = "error"
             /\ IF vs.status = "error" THEN Say("error") ELSE GoTo("response")

ReadResponse == /\ step = "response"
                /\ GoTo(IF vs.response = NoAnswer THEN "clock" ELSE "missing")

ReadClock == /\ step = "clock"
             /\ IF Expired THEN Say("expired") ELSE GoTo("missing")

ReadMissing == /\ step = "missing"
               /\ IF vs.missing_tc_ids THEN Say("missing") ELSE GoTo("validation")

ReadValidation ==
    /\ step = "validation"
    /\ GoTo(IF vs.validation # NoAnswer THEN "verdict" ELSE "submitted")

ReadVerdict ==
    /\ step = "verdict"
    /\ IF vs.validation = NoAnswer THEN Crash ELSE Say(Grade(vs.validation))

\* disposition() calling everything that is not graded "incomplete".
ReadSubmittedAlways == step = "submitted" /\ Say("incomplete")

ReadSubmitted ==
    /\ step = "submitted"
    /\ Say(IF vs.status = "response_submitted" THEN "incomplete" ELSE "unreceived")

\* Building the body before anything is graded, without the default {}.
BuildBodyNoDefault ==
    /\ step = "body"
    /\ IF base \in {NoAnswer, Empty} THEN Crash
       ELSE GoTo(IF vs.show_expected THEN "disclose" ELSE "idle")

\* base.get("tests"): fails on None.
BuildBody ==
    /\ step = "body"
    /\ IF base = NoAnswer THEN Crash
       ELSE GoTo(IF vs.show_expected /\ base # Empty THEN "disclose" ELSE "idle")

\* _disclose pairs the graded test cases with the responses now on record.
Disclose == /\ step = "disclose"
            /\ provided' = vs.response
            /\ step' = "idle"
            /\ UNCHANGED <<base, said>>

Read == \/ ReadBase \/ ReadBaseAgain \/ ReadError \/ ReadResponse \/ ReadClock
        \/ ReadMissing \/ ReadValidation \/ ReadVerdict \/ ReadSubmitted
        \/ BuildBody \/ Disclose

\* While a request is under way, the history takes in every new disposition.
Beside == /\ Next
          /\ seen' = IF step = "idle" THEN seen ELSE seen \union {Disposition'}
          /\ UNCHANGED <<step, base, said, provided>>

NextResults == \/ Beside
               \/ ResultsLookup /\ seen' = {Disposition} /\ UNCHANGED vars
               \/ Read /\ UNCHANGED <<seen, vars>>

SpecResults == InitResults /\ [][NextResults]_allVars

-----------------------------------------------------------------------------
\* Two requests have carried a submission so far.
Resubmitted == \E t, u \in Graders : t # u /\ at[t] # "off" /\ at[u] # "off"

\* Until a set is answered a second time, results are served whenever they are
\* requested, and the answers disclosed beside a grade are the graded ones.
ServedUntilResubmitted ==
    ~Resubmitted => /\ said # ServerError
                    /\ provided # NoAnswer => provided = base

\* What a reply may say though it never held: that nothing was received of a
\* submission that was settled between the last two reads of its request, and
\* that the deadline passed on a set that was answered, or failed, after the first
\* of them.
Overtaken ==
    \/ said = "unreceived" /\ "incomplete" \in seen /\ seen # {"incomplete"}
    \/ said = "expired" /\ past /\ (vs.response # NoAnswer \/ "error" \in seen)

\* Until then, a judgement in a reply was the set's disposition at some moment
\* of the request, though it was put together from reads at different moments
\* with other threads writing in between, or else it was overtaken: a grade, an
\* error and "incomplete" are never made up.  (Of a submission that lacks test
\* cases the reader may still see the grade without seeing "missing".)
JudgementsAreReal ==
    ~Resubmitted /\ ~vs.missing_tc_ids =>
        said \in seen \union {"nothing", ServerError} \/ Overtaken
=============================================================================
