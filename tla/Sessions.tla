------------------------------- MODULE Sessions -------------------------------
(***************************************************************************)
(* Creating, cancelling and listing test sessions (api/test_sessions.py)   *)
(* in either store.  A creation writes its session bit by bit into the     *)
(* store, where listings of other requests find it; whoever walks through  *)
(* the pages of a listing sends a request per page, and the sessions       *)
(* change between the pages.                                               *)
(*                                                                         *)
(* A registration is TRUE if parse_registration accepts it.  A restart is  *)
(* modelled with the database only: without it, nothing is left.           *)
(***************************************************************************)
EXTENDS Paging, FiniteSets, SequencesExt

CONSTANTS
    Owners,         \* subjects of login tokens
    Creators,       \* worker threads serving POST /testSessions
    Bodies,         \* the registrations a creation may be sent
    Offsets, Limits,    \* what a listing may be asked for
    MaxSessions,    \* bound on the sessions created
    MaxRestarts,    \* bound on the restarts of the process
    Nobody

ASSUME SessionsAssumption ==
    /\ Nobody \notin Owners
    /\ \A b \in Bodies : b \in Seq(BOOLEAN)
    /\ Offsets \subseteq Int /\ Limits \subseteq Int
    /\ MaxSessions \in Nat /\ MaxRestarts \in Nat

VARIABLES
    database,       \* DATABASE_URL is set: the store is a DbStore
    sessions,       \* the sessions in the store, by session_id
    creator,        \* what each creation is about to do
    disclosed,      \* sessions whose accessToken was sent to their client
    walk,           \* a client's walk along the "next" links of its listing
    restarts        \* how often the process was restarted

vars == <<database, sessions, creator, disclosed, walk, restarts>>

NewSession == [owner |-> Nobody, stamped |-> FALSE, cancelled |-> FALSE,
               vector_sets |-> <<>>]
NewSet == [registered |-> FALSE, generating |-> FALSE]

Idle == [pc |-> "idle", id |-> 0, owner |-> Nobody, asked |-> 0, todo |-> <<>>]

\* pc: "ask" for the page at offset, "scan" in list_sessions, "done" after the
\* last page.  History - standing: the sessions listed when it began, and after
\* it those of them it missed; gone: the owner's sessions cancelled meanwhile.
NoWalk == [pc |-> "idle", owner |-> Nobody, offset |-> 0, limit |-> 1, at |-> 0,
           size |-> 0, found |-> <<>>, seen |-> {}, standing |-> {}, gone |-> {}]

Init == /\ database \in BOOLEAN
        /\ sessions = <<>>
        /\ creator = [c \in Creators |-> Idle]
        /\ disclosed = {}
        /\ walk = NoWalk
        /\ restarts = 0

-----------------------------------------------------------------------------
(* create_test_session.                                                    *)

Begin(c) ==
    /\ creator[c].pc = "idle"
    /\ Len(sessions) < MaxSessions
    /\ sessions' = Append(sessions, NewSession)
    /\ \E o \in Owners, b \in Bodies :
          creator' = [creator EXCEPT ![c] =
              [pc |-> "own", id |-> Len(sessions) + 1, owner |-> o,
               asked |-> Len(b), todo |-> b]]
    /\ UNCHANGED disclosed

\* The owner, which puts the session into a listing ...
OwnSession(c) ==
    /\ creator[c].pc = "own"
    /\ creator' = [creator EXCEPT ![c].pc = "stamp"]
    /\ sessions' = [sessions EXCEPT ![creator[c].id].owner = creator[c].owner]
    /\ UNCHANGED disclosed

\* ... and then the flags, the dates and the hash of the token, one by one: the
\* session is stamped with the last of them.
StampSession(c) ==
    /\ creator[c].pc = "stamp"
    /\ creator' = [creator EXCEPT ![c].pc = "algorithms"]
    /\ sessions' = [sessions EXCEPT ![creator[c].id].stamped = TRUE]
    /\ UNCHANGED disclosed

\* The next registration of the body.
Parse(c, valid) == /\ creator[c].pc = "algorithms"
                   /\ creator[c].todo # <<>>
                   /\ Head(creator[c].todo) = valid

AddVectorSet(c) ==
    /\ Parse(c, TRUE)
    /\ creator' = [creator EXCEPT ![c].pc = "registered", ![c].todo = Tail(@)]
    /\ sessions' = [sessions EXCEPT ![creator[c].id].vector_sets = Append(@, NewSet)]
    /\ UNCHANGED disclosed

\* The deadline, the capabilities and the registration of the newest vector set;
\* then the start of its generation, which is handed the registration.
StampSet(c, here, there) ==
    LET s == creator[c].id IN
    /\ creator[c].pc = here
    /\ creator' = [creator EXCEPT ![c].pc = there]
    /\ sessions' = [sessions EXCEPT
           ![s].vector_sets[Len(sessions[s].vector_sets)][here] = TRUE]
    /\ UNCHANGED disclosed

StampVectorSet(c) == \/ StampSet(c, "registered", "generating")
                     \/ StampSet(c, "generating", "algorithms")

\* An invalid algorithm that is passed over.
SkipInvalid(c) ==
    /\ Parse(c, FALSE)
    /\ creator' = [creator EXCEPT ![c].todo = Tail(@)]
    /\ UNCHANGED <<sessions, disclosed>>

\* 400 for the first invalid algorithm; what was created so far stays.
Refuse(c) ==
    /\ Parse(c, FALSE)
    /\ creator' = [creator EXCEPT ![c] = Idle]
    /\ UNCHANGED <<sessions, disclosed>>

\* The reply, with the session's accessToken.
Disclose(c) ==
    /\ creator[c].pc = "algorithms" /\ creator[c].todo = <<>>
    /\ disclosed' = disclosed \union {[id |-> creator[c].id, owner |-> creator[c].owner,
                                       asked |-> creator[c].asked]}
    /\ creator' = [creator EXCEPT ![c] = Idle]
    /\ UNCHANGED sessions

Creation(c) == \/ Begin(c) \/ OwnSession(c) \/ StampSession(c) \/ AddVectorSet(c)
               \/ StampVectorSet(c) \/ Refuse(c) \/ Disclose(c)

\* require_session_access: the accessToken of a session opens that session only.
Authorized(token, s) == token.id = s

\* get_session: a cancelled session reads as absent.
Found(s) == s \in 1 .. Len(sessions) /\ ~sessions[s].cancelled

\* DELETE of the session s with the token d.
Cancel(d, s) ==
    /\ Authorized(d, s) /\ Found(s)
    /\ sessions' = [sessions EXCEPT ![s].cancelled = TRUE]
    /\ walk' = [walk EXCEPT !.gone =
           IF walk.pc \in {"ask", "scan"} /\ walk.owner = sessions[s].owner
             THEN @ \union {s} ELSE @]
    /\ UNCHANGED <<creator, disclosed>>

-----------------------------------------------------------------------------
(* GET /testSessions, one page per request.                                *)

\* The filter of list_sessions.
Listed(s, o) == ~sessions[s].cancelled /\ sessions[s].owner = o

Listing(o) == {s \in 1 .. Len(sessions) : Listed(s, o)}

NewestFirst(o) == CHOOSE q \in [1 .. Cardinality(Listing(o)) -> Listing(o)] :
                     \A i, j \in DOMAIN q : i < j => q[i] > q[j]

StartWalk ==
    /\ walk.pc = "idle"
    /\ \E o \in Owners, offset \in Offsets, limit \in Limits :
          walk' = [NoWalk EXCEPT !.pc = "ask", !.owner = o, !.offset = Offset(offset),
                                 !.limit = Limit(limit),
                                 !.standing = {NewestFirst(o)[i] : i \in
                                     Offset(offset) + 1 .. Len(NewestFirst(o))}]

\* The page of these items, and where the client goes from there; at the end of
\* the walk only what it missed is kept.
Reply(items) ==
    LET seen == walk.seen \union ToSet(Page(items, walk.offset, walk.limit))
    IN  walk' = IF HasNext(Len(items), walk.offset, walk.limit)
                  THEN [walk EXCEPT !.pc = "ask", !.at = 0, !.size = 0, !.found = <<>>,
                                    !.offset = NextOffset(@, walk.limit), !.seen = seen]
                  ELSE [NoWalk EXCEPT !.pc = "done", !.gone = walk.gone,
                                      !.standing = walk.standing \ seen]

\* DbStore: one query.
Query == /\ walk.pc = "ask" /\ database
         /\ Reply(NewestFirst(walk.owner))

\* Store: an iteration over the dictionary of sessions.
StartScan == /\ walk.pc = "ask" /\ ~database
             /\ walk' = [walk EXCEPT !.pc = "scan", !.at = Len(sessions),
                                     !.size = Len(sessions)]

\* A dictionary that grew raises, the listing answers 500 and is asked for again.
\* Nothing is raised after the last element.
ScanRaises == /\ walk.pc = "scan" /\ Len(sessions) # walk.size
              /\ walk' = [walk EXCEPT !.pc = "ask", !.at = 0, !.size = 0, !.found = <<>>]

Scan == /\ walk.pc = "scan" /\ walk.at > 0 /\ Len(sessions) = walk.size
        /\ walk' = [walk EXCEPT !.at = @ - 1,
               !.found = IF Listed(walk.at, walk.owner) THEN Append(@, walk.at) ELSE @]

ScanEnds == /\ walk.pc = "scan" /\ walk.at = 0 /\ Len(sessions) = walk.size
            /\ Reply(walk.found)

Walking == StartWalk \/ Query \/ StartScan \/ ScanRaises \/ Scan \/ ScanEnds

-----------------------------------------------------------------------------
\* The process is restarted; the rows stay, and so does the client's place.
Restart ==
    /\ database /\ restarts < MaxRestarts
    /\ restarts' = restarts + 1
    /\ creator' = [c \in Creators |-> Idle]
    /\ UNCHANGED <<database, sessions, disclosed, walk>>

Next ==
    \/ \E c \in Creators : Creation(c) /\ UNCHANGED <<database, walk, restarts>>
    \/ \E d \in disclosed, s \in 1 .. Len(sessions) :
          Cancel(d, s) /\ UNCHANGED <<database, restarts>>
    \/ Walking /\ UNCHANGED <<database, sessions, creator, disclosed, restarts>>
    \/ Restart

\* Whoever has begun a walk goes on with it, and threads run.
Spec == /\ Init /\ [][Next]_vars
        /\ \A c \in Creators : WF_vars(c \in Creators /\ creator[c].pc # "idle"
                                       /\ Creation(c) /\ UNCHANGED <<database, walk, restarts>>)
        /\ WF_vars(walk.pc # "idle" /\ Walking
                   /\ UNCHANGED <<database, sessions, creator, disclosed, restarts>>)

-----------------------------------------------------------------------------
\* A client that holds a session's token finds the session as it asked for it:
\* owned, dated, its token's hash on record, and a vector set for every algorithm,
\* with a deadline, a registration and its generation under way - however its
\* creation interleaved with others, with restarts and with invalid algorithms.
DisclosedIsComplete ==
    \A d \in disclosed :
       LET s == sessions[d.id] IN
       /\ s.owner = d.owner /\ s.stamped
       /\ Len(s.vector_sets) = d.asked
       /\ \A v \in ToSet(s.vector_sets) : v.registered /\ v.generating

\* list_sessions is "newest first", so sessions created during a walk along the
\* "next" links show again what was seen but hide nothing.  Only a cancelled
\* session can: of those listed from the start, a walk that came to its end
\* missed no more than were cancelled meanwhile.
WalkMissesAtMostTheCancelled ==
    walk.pc = "done" =>
        Cardinality(walk.standing) <= Cardinality(walk.gone)

\* A walk along the "next" links ends, whatever offset and limit it began with,
\* although the listing grows meanwhile and a request for a page may fail.
WalksEnd == walk.pc = "ask" ~> walk.pc = "done"
=============================================================================
