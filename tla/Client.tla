-------------------------------- MODULE Client --------------------------------
(***************************************************************************)
(* The web client's shell (frontend/src/App.tsx): who is signed in, which  *)
(* test session is open and which step is shown, while replies arrive and  *)
(* timers fire.  A render and the effects it causes are one step with the  *)
(* event that sets the state.  The server is external: it answers every    *)
(* request, in any order, with success or not.                             *)
(*                                                                         *)
(* The steps are 0 Authenticate, 1 Create, 2 Vectors, 3 Submit, 4 Results, *)
(* 5 Certify.  Login tokens differ from one another; two suffice.          *)
(***************************************************************************)
EXTENDS Naturals

CONSTANTS
    Slots,          \* bound on the requests under way
    MaxSessions     \* bound on the sessions created

ASSUME ClientAssumption == MaxSessions \in Nat

Null == 0
LoginTokens == {1, 2}
Sessions == 1 .. MaxSessions

VARIABLES
    loginToken,     \* the state of the component
    session,
    step,
    sessionHistory,
    timer,          \* "armed" for the renewal of the login token, or "off"
    request,        \* the requests under way
    created,        \* how many sessions the server has created
    dead,           \* sessions whose access token has expired
    late            \* history: a reply to a request from before the user
                    \* was signed out has been acted on
vars == <<loginToken, session, step, sessionHistory, timer, request, created, dead, late>>

None == [what |-> "none", stale |-> FALSE]

Init == /\ loginToken = Null
        /\ session = Null
        /\ step = 0
        /\ sessionHistory = {}
        /\ timer = "off"
        /\ request = [r \in Slots |-> None]
        /\ created = 0
        /\ dead = {}
        /\ late = FALSE

-----------------------------------------------------------------------------
(* The setters, with the effects that follow the render.                   *)

\* A new login token arms the renewal; no login token shows step 0, but only if
\* there was one before.
SetLoginToken(t) == /\ loginToken' = t
                    /\ timer' = IF t = Null THEN "off" ELSE "armed"

ResetStep == step' = IF loginToken = Null THEN step ELSE 0

\* A session is opened at step 2, unless its token has expired.
OpenSession(s) == IF s \in dead
                    THEN session' = Null /\ step' = 1
                    ELSE session' = s /\ step' = 2

Send(what) == \E r \in Slots :
                 /\ request[r].what = "none"
                 /\ request' = [request EXCEPT ![r] = [what |-> what, stale |-> FALSE]]

\* The reply to a request; what it sets, it sets also after a sign-out.
Answers(r, what) == /\ request[r].what = what
                    /\ late' = (late \/ request[r].stale)

Receive(r, what) == /\ Answers(r, what)
                    /\ request' = [request EXCEPT ![r] = None]

\* The requests still under way when the user is signed out are not told.
Outdated(q) == [q EXCEPT !.stale = @ \/ q.what # "none"]

Unlocked(i) == CASE i = 0 -> TRUE
                 [] i = 1 -> loginToken # Null
                 [] OTHER -> session # Null

-----------------------------------------------------------------------------
(* Signing in, and staying signed in.                                      *)

SignIn == /\ step = 0
          /\ Send("login")
          /\ UNCHANGED <<loginToken, session, step, sessionHistory, timer, created, dead, late>>

SignInReply(r) ==
    /\ Receive(r, "login")
    /\ \/ /\ \E t \in LoginTokens \ {loginToken} : SetLoginToken(t)
          /\ step' = 1
       \/ UNCHANGED <<loginToken, timer, step>>
    /\ UNCHANGED <<session, sessionHistory, created, dead>>

\* Five minutes before the login token expires.
Renew == /\ timer = "armed"
         /\ timer' = "off"
         /\ Send("renewal")
         /\ UNCHANGED <<loginToken, session, step, sessionHistory, created, dead, late>>

Renewed == /\ \E t \in LoginTokens \ {loginToken} : SetLoginToken(t)
           /\ UNCHANGED <<session, step>>

\* A renewal that fails without a word.
RenewalReplyQuiet(r) ==
    /\ Receive(r, "renewal")
    /\ Renewed \/ UNCHANGED <<loginToken, timer, session, step>>
    /\ UNCHANGED <<sessionHistory, created, dead>>

RenewalReply(r) ==
    /\ \/ Receive(r, "renewal") /\ Renewed
       \/ /\ Answers(r, "renewal")
          /\ request' = [q \in Slots |-> IF q = r THEN None ELSE Outdated(request[q])]
          /\ SetLoginToken(Null) /\ session' = Null /\ ResetStep
    /\ UNCHANGED <<sessionHistory, created, dead>>

\* A sign-out that leaves the test session open.
SignOutKeepsSession ==
    /\ loginToken # Null
    /\ SetLoginToken(Null) /\ ResetStep
    /\ sessionHistory' = {}
    /\ request' = [r \in Slots |-> Outdated(request[r])]
    /\ late' = FALSE
    /\ UNCHANGED <<session, created, dead>>

SignOut ==
    /\ loginToken # Null
    /\ SetLoginToken(Null) /\ ResetStep
    /\ session' = Null
    /\ sessionHistory' = {}
    /\ request' = [r \in Slots |-> Outdated(request[r])]
    /\ late' = FALSE
    /\ UNCHANGED <<created, dead>>

-----------------------------------------------------------------------------
(* Test sessions.                                                          *)

Create == /\ step = 1 /\ loginToken # Null
          /\ Send("create")
          /\ UNCHANGED <<loginToken, session, step, sessionHistory, timer, created, dead, late>>

CreateReply(r) ==
    /\ Receive(r, "create")
    /\ \/ /\ created < MaxSessions
          /\ created' = created + 1
          /\ OpenSession(created + 1)
          /\ sessionHistory' = sessionHistory \union {created + 1}
       \/ UNCHANGED <<created, session, step, sessionHistory>>
    /\ UNCHANGED <<loginToken, timer, dead>>

Load == /\ step = 1 /\ loginToken # Null
        /\ \E s \in sessionHistory : OpenSession(s)
        /\ UNCHANGED <<loginToken, sessionHistory, timer, request, created, dead, late>>

\* A step is clicked, or the page leads on to it.
Show(i) == /\ Unlocked(i)
           /\ step' = i
           /\ UNCHANGED <<loginToken, session, sessionHistory, timer, request, created, dead, late>>

TokenExpires(s) ==
    /\ s <= created
    /\ dead' = dead \union {s}
    /\ UNCHANGED <<loginToken, session, step, sessionHistory, timer, request, created, late>>

\* An expiry that stays on the page it finds.
ExpireSessionInPlace ==
    /\ session \in dead
    /\ session' = Null
    /\ UNCHANGED <<loginToken, step, sessionHistory, timer, request, created, dead, late>>

\* The timer of the open session.
ExpireSession ==
    /\ session \in dead
    /\ session' = Null
    /\ step' = 1
    /\ UNCHANGED <<loginToken, sessionHistory, timer, request, created, dead, late>>

-----------------------------------------------------------------------------
Reply == \E r \in Slots : SignInReply(r) \/ RenewalReply(r) \/ CreateReply(r)

Next == \/ SignIn \/ Renew \/ SignOut \/ Create \/ Load \/ Reply
        \/ \E i \in 0 .. 5 : Show(i)
        \/ \E s \in Sessions : TokenExpires(s)
        \/ ExpireSession

\* A request is answered or fails, and the browser's timers fire.
Spec == /\ Init /\ [][Next]_vars
        /\ \A r \in Slots : WF_vars(SignInReply(r) \/ RenewalReply(r) \/ CreateReply(r))
        /\ WF_vars(Renew) /\ WF_vars(ExpireSession)

-----------------------------------------------------------------------------
\* "Reset session / Sign out" ends everything the user had open, and so does a
\* renewal that fails: who is signed out has no session open and is asked to sign
\* in, unless a reply that was still under way has been acted on since.
SignedOutIsClean ==
    loginToken = Null /\ ~late => session = Null /\ step = 0

\* What the page can show depends on the step, the login and the session, which
\* change at different moments.  There is always something to show, with the
\* same exception.
Shown == \/ step = 0
         \/ step = 1 /\ loginToken # Null
         \/ step \in 2 .. 4 /\ session # Null
         \/ step = 5 /\ session # Null /\ loginToken # Null

NoBlankPage == ~late => Shown

\* Nobody stays signed in with a login token that nothing will renew: once the
\* renewal is due, a new token arms the next one or the user is signed out.
RenewalSettles == (loginToken # Null /\ timer = "off")
                      ~> (loginToken = Null \/ timer = "armed")
=============================================================================
