----------------------------- MODULE ClientProofs -----------------------------
(***************************************************************************)
(* Proofs about Client for any number of requests under way and of         *)
(* sessions.                                                               *)
(***************************************************************************)
EXTENDS Client, TLAPS

RequestValues == [what : {"none", "login", "renewal", "create"}, stale : BOOLEAN]

\* The types that the proofs need.
TypeInv ==
    /\ loginToken \in {Null} \union LoginTokens
    /\ session \in Nat
    /\ step \in 0 .. 5
    /\ sessionHistory \subseteq Nat \ {Null}
    /\ timer \in {"armed", "off"}
    /\ request \in [Slots -> RequestValues]
    /\ created \in Nat
    /\ dead \subseteq Nat \ {Null}
    /\ late \in BOOLEAN

\* Only who is signed in has something to renew.
TimerInv == timer = "armed" => loginToken # Null

\* What only a signed-in user sends is outdated once the user is not.
StaleInv == \A r \in Slots :
    loginToken = Null /\ ~late /\ request[r].what \in {"renewal", "create"} => request[r].stale

\* The steps about a session are shown with one open.
SessionInv == ~late /\ step \in 2 .. 5 => session # Null

IInv == TypeInv /\ TimerInv /\ StaleInv /\ SessionInv /\ SignedOutIsClean

-----------------------------------------------------------------------------
\* The page as it is first shown.
LEMMA InitIInv == Init => IInv
<1> SUFFICES ASSUME Init PROVE IInv
  OBVIOUS
<1>1. None \in RequestValues /\ None.what = "none"
  BY DEF None, RequestValues
<1>2. request \in [Slots -> RequestValues] /\ \A r \in Slots : request[r].what = "none"
  BY <1>1 DEF Init
<1>3. Null \in Nat /\ 0 \in 0 .. 5 /\ {} \subseteq Nat \ {Null}
  BY DEF Null
<1>4. TypeInv
  BY <1>2, <1>3 DEF Init, TypeInv
<1>5. QED
  BY <1>2, <1>4 DEF Init, IInv, TimerInv, StaleInv, SessionInv, SignedOutIsClean

\* Being outdated is all that happens to a request that is outdated.
LEMMA OutdatedRequest ==
    ASSUME NEW q \in RequestValues
    PROVE  /\ Outdated(q) \in RequestValues
           /\ Outdated(q).what = q.what
           /\ q.what # "none" => Outdated(q).stale
BY DEF Outdated, RequestValues

\* What is sent is a request of its own, and nothing else changes.
LEMMA SendIInv ==
    ASSUME IInv, NEW what \in {"login", "renewal", "create"}, Send(what),
           what # "login" => loginToken # Null,
           timer' \in {timer, "off"},
           UNCHANGED <<loginToken, session, step, sessionHistory, created, dead, late>>
    PROVE  IInv'
<1>1. PICK r \in Slots : request' = [request EXCEPT ![r] = [what |-> what, stale |-> FALSE]]
  BY DEF Send
<1>2. TypeInv'
  <2>1. [what |-> what, stale |-> FALSE] \in RequestValues
    BY DEF RequestValues
  <2>2. request' \in [Slots -> RequestValues]
    BY <1>1, <2>1 DEF IInv, TypeInv
  <2>3. QED
    BY <2>2 DEF IInv, TypeInv
<1>3. TimerInv'
  BY DEF IInv, TimerInv
<1>4. StaleInv'
  BY <1>1 DEF IInv, TypeInv, StaleInv
<1>5. SessionInv' /\ SignedOutIsClean'
  BY DEF IInv, SessionInv, SignedOutIsClean
<1>6. QED
  BY <1>2, <1>3, <1>4, <1>5 DEF IInv

\* A reply ends its request.
LEMMA Received ==
    ASSUME IInv, NEW r \in Slots, NEW what, Receive(r, what)
    PROVE  /\ request[r].what = what
           /\ late' = (late \/ request[r].stale) /\ late' \in BOOLEAN
           /\ request' \in [Slots -> RequestValues]
           /\ \A q \in Slots : q # r => request'[q] = request[q]
           /\ request'[r].what = "none"
BY DEF Receive, Answers, IInv, TypeInv, RequestValues, None

\* A reply to a sign-in, which may set a login token.
LEMMA SignInReplyIInv ==
    ASSUME IInv, NEW r \in Slots, SignInReply(r)
    PROVE  IInv'
<1> USE DEF IInv
<1>1. /\ Receive(r, "login")
      /\ UNCHANGED <<session, sessionHistory, created, dead>>
  BY DEF SignInReply
<1>2. CASE /\ \E t \in LoginTokens \ {loginToken} : SetLoginToken(t)
           /\ step' = 1
  <2>1. loginToken' \in LoginTokens /\ timer' \in {"armed", "off"} /\ step' = 1
    BY <1>2 DEF SetLoginToken
  <2>2. loginToken' # Null
    BY <2>1 DEF LoginTokens, Null
  <2>3. TypeInv'
    BY <1>1, <2>1, Received DEF TypeInv
  <2>4. QED
    BY <2>1, <2>2, <2>3 DEF TimerInv, StaleInv, SessionInv, SignedOutIsClean
<1>3. CASE UNCHANGED <<loginToken, timer, step>>
  <2>1. TypeInv'
    BY <1>1, <1>3, Received DEF TypeInv
  <2>2. ~late' => ~late
    BY <1>1, Received DEF TypeInv
  <2>3. StaleInv'
    BY <1>1, <1>3, <2>2, Received DEF StaleInv
  <2>4. QED
    BY <1>1, <1>3, <2>1, <2>2, <2>3 DEF TimerInv, SessionInv, SignedOutIsClean
<1>4. QED
  BY <1>2, <1>3 DEF SignInReply

\* A renewal that succeeds, and one that signs the user out.
LEMMA RenewalReplyIInv ==
    ASSUME IInv, NEW r \in Slots, RenewalReply(r)
    PROVE  IInv'
<1> USE DEF IInv
<1>1. CASE Receive(r, "renewal") /\ Renewed
  <2>1. /\ loginToken' \in LoginTokens /\ timer' \in {"armed", "off"}
        /\ UNCHANGED <<session, step, sessionHistory, created, dead>>
    BY <1>1 DEF Renewed, SetLoginToken, RenewalReply
  <2>2. loginToken' # Null
    BY <2>1 DEF LoginTokens, Null
  <2>3. TypeInv'
    BY <1>1, <2>1, Received DEF TypeInv
  <2>4. ~late' => ~late
    BY <1>1, Received DEF TypeInv
  <2>5. QED
    BY <2>1, <2>2, <2>3, <2>4 DEF TimerInv, StaleInv, SessionInv, SignedOutIsClean
<1>2. CASE /\ Answers(r, "renewal")
           /\ request' = [q \in Slots |-> IF q = r THEN None ELSE Outdated(request[q])]
           /\ SetLoginToken(Null) /\ session' = Null /\ ResetStep
  <2>1. /\ request[r].what = "renewal" /\ late' = (late \/ request[r].stale)
        /\ loginToken' = Null /\ session' = Null /\ timer' = "off"
        /\ step' = IF loginToken = Null THEN step ELSE 0
        /\ UNCHANGED <<sessionHistory, created, dead>>
    BY <1>2 DEF Answers, SetLoginToken, ResetStep, RenewalReply
  <2>2. \A q \in Slots : /\ Outdated(request[q]) \in RequestValues
                         /\ Outdated(request[q]).what = request[q].what
                         /\ request[q].what # "none" => Outdated(request[q]).stale
    BY OutdatedRequest DEF TypeInv
  <2>3. TypeInv'
    <3>1. None \in RequestValues
      BY DEF None, RequestValues
    <3>2. request' \in [Slots -> RequestValues]
      BY <1>2, <2>2, <3>1
    <3>3. late' \in BOOLEAN
      BY <2>1, <1>2 DEF TypeInv, RequestValues
    <3>4. QED
      BY <2>1, <3>2, <3>3 DEF TypeInv, Null
  <2>4. StaleInv'
    BY <1>2, <2>2 DEF StaleInv, None
  <2>5. ~late' => step' = 0
    BY <2>1 DEF TypeInv, StaleInv, SignedOutIsClean
  <2>6. QED
    BY <2>1, <2>3, <2>4, <2>5 DEF TimerInv, SessionInv, SignedOutIsClean
<1>3. QED
  BY <1>1, <1>2 DEF RenewalReply

\* Signing out.
LEMMA SignOutIInv == ASSUME IInv, SignOut PROVE IInv'
<1> USE DEF IInv
<1>1. /\ loginToken' = Null /\ session' = Null /\ timer' = "off" /\ step' = 0
      /\ sessionHistory' = {} /\ late' = FALSE /\ UNCHANGED <<created, dead>>
      /\ request' = [r \in Slots |-> Outdated(request[r])]
  BY DEF SignOut, SetLoginToken, ResetStep
<1>2. \A q \in Slots : /\ Outdated(request[q]) \in RequestValues
                       /\ Outdated(request[q]).what = request[q].what
                       /\ request[q].what # "none" => Outdated(request[q]).stale
  BY OutdatedRequest DEF TypeInv
<1>3. TypeInv'
  <2>1. request' \in [Slots -> RequestValues]
    BY <1>1, <1>2
  <2>2. Null \in Nat /\ 0 \in 0 .. 5 /\ {} \subseteq Nat \ {Null}
    BY DEF Null
  <2>3. QED
    BY <1>1, <2>1, <2>2 DEF TypeInv
<1>4. StaleInv'
  BY <1>1, <1>2 DEF StaleInv
<1>5. QED
  BY <1>1, <1>3, <1>4 DEF TimerInv, SessionInv, SignedOutIsClean

\* Opening a session leaves the page with something to show.
LEMMA OpenIInv ==
    ASSUME IInv, NEW s \in Nat \ {Null}, OpenSession(s), loginToken # Null \/ late',
           late' \in BOOLEAN, ~late' => ~late,
           sessionHistory' \subseteq Nat \ {Null}, created' \in Nat,
           request' \in [Slots -> RequestValues],
           UNCHANGED <<loginToken, timer, dead>>
    PROVE  IInv'
<1> USE DEF IInv
<1>1. (session' = Null /\ step' = 1) \/ (session' = s /\ step' = 2)
  BY DEF OpenSession
<1>2. TypeInv'
  BY <1>1 DEF TypeInv, Null
<1>3. QED
  BY <1>1, <1>2 DEF TimerInv, StaleInv, SessionInv, SignedOutIsClean

\* The reply to a creation, late or not.
LEMMA CreateReplyIInv ==
    ASSUME IInv, NEW r \in Slots, CreateReply(r)
    PROVE  IInv'
<1> USE DEF IInv
<1>1. Receive(r, "create") /\ UNCHANGED <<loginToken, timer, dead>>
  BY DEF CreateReply
<1>2. ~late' => ~late
  BY <1>1, Received DEF TypeInv
<1>3. CASE /\ created' = created + 1
           /\ OpenSession(created + 1)
           /\ sessionHistory' = sessionHistory \union {created + 1}
  <2>1. created + 1 \in Nat \ {Null}
    BY DEF TypeInv, Null
  <2>2. loginToken # Null \/ late'
    BY <1>1, Received DEF StaleInv
  <2>3. sessionHistory' \subseteq Nat \ {Null} /\ created' \in Nat
    BY <1>3, <2>1 DEF TypeInv
  <2>4. QED
    BY <1>1, <1>2, <1>3, <2>1, <2>2, <2>3, Received, OpenIInv
<1>4. CASE UNCHANGED <<created, session, step, sessionHistory>>
  <2>1. TypeInv'
    BY <1>1, <1>4, Received DEF TypeInv
  <2>2. StaleInv'
    BY <1>1, <1>2, <1>4, Received DEF StaleInv
  <2>3. QED
    BY <1>1, <1>2, <1>4, <2>1, <2>2 DEF TimerInv, SessionInv, SignedOutIsClean
<1>5. QED
  BY <1>3, <1>4 DEF CreateReply

\* Moving among the steps, and what the clock does to the open session.
LEMMA ShowIInv == ASSUME IInv, NEW i \in 0 .. 5, Show(i) PROVE IInv'
BY DEF IInv, Show, Unlocked, TypeInv, TimerInv, StaleInv, SessionInv, SignedOutIsClean, Null

LEMMA ExpireSessionIInv == ASSUME IInv, ExpireSession PROVE IInv'
<1> USE DEF IInv
<1>1. /\ session # Null /\ session' = Null /\ step' = 1
      /\ UNCHANGED <<loginToken, sessionHistory, timer, request, created, dead, late>>
  BY DEF ExpireSession, TypeInv
<1>2. loginToken # Null \/ late
  BY <1>1 DEF SignedOutIsClean
<1>3. QED
  BY <1>1, <1>2 DEF TypeInv, TimerInv, StaleInv, SessionInv, SignedOutIsClean, Null

LEMMA TokenExpiresIInv == ASSUME IInv, NEW s \in Sessions, TokenExpires(s) PROVE IInv'
<1> USE DEF IInv
<1>1. s \in Nat \ {Null}
  BY ClientAssumption DEF Sessions, Null
<1>2. QED
  BY <1>1 DEF TokenExpires, TypeInv, TimerInv, StaleInv, SessionInv, SignedOutIsClean

\* Every step keeps the invariant.
LEMMA StepIInv == IInv /\ [Next]_vars => IInv'
<1> SUFFICES ASSUME IInv, [Next]_vars PROVE IInv'
  OBVIOUS
<1>1. CASE SignIn
  BY <1>1, SendIInv DEF SignIn
<1>2. CASE Renew
  BY <1>2, SendIInv DEF Renew, IInv, TimerInv
<1>3. CASE SignOut
  BY <1>3, SignOutIInv
<1>4. CASE Create
  BY <1>4, SendIInv DEF Create
<1>5. CASE Load
  <2>1. PICK s \in sessionHistory : OpenSession(s)
    BY <1>5 DEF Load
  <2>2. s \in Nat \ {Null}
    BY DEF IInv, TypeInv
  <2>3. QED
    BY <1>5, <2>1, <2>2, OpenIInv DEF Load, IInv, TypeInv
<1>6. CASE Reply
  BY <1>6, SignInReplyIInv, RenewalReplyIInv, CreateReplyIInv DEF Reply
<1>7. CASE \E i \in 0 .. 5 : Show(i)
  BY <1>7, ShowIInv
<1>8. CASE \E s \in Sessions : TokenExpires(s)
  BY <1>8, TokenExpiresIInv
<1>9. CASE ExpireSession
  BY <1>9, ExpireSessionIInv
<1>10. CASE UNCHANGED vars
  BY <1>10 DEF vars, IInv, TypeInv, TimerInv, StaleInv, SessionInv, SignedOutIsClean
<1>11. QED
  BY <1>1, <1>2, <1>3, <1>4, <1>5, <1>6, <1>7, <1>8, <1>9, <1>10 DEF Next

-----------------------------------------------------------------------------
\* Every reachable state satisfies the inductive invariant.
THEOREM Invariance == Spec => []IInv
BY InitIInv, StepIInv, PTL DEF Spec

\* Signing out, and a renewal that fails, end everything the user had open.
THEOREM SignedOutIsCleanHolds == Spec => []SignedOutIsClean
<1>1. IInv => SignedOutIsClean
  BY DEF IInv
<1>2. QED
  BY <1>1, Invariance, PTL

\* Whatever is signed in, open or expired, the page has something to show.
THEOREM NoBlankPageHolds == Spec => []NoBlankPage
<1>1. IInv => NoBlankPage
  BY DEF IInv, TypeInv, SessionInv, SignedOutIsClean, NoBlankPage, Shown
<1>2. QED
  BY <1>1, Invariance, PTL
=============================================================================
