----------------------------- MODULE AccessProofs -----------------------------
(***************************************************************************)
(* Proofs about Access for any clients, any number of concurrent logins    *)
(* and refreshes, and any run of the clock.                                *)
(***************************************************************************)
EXTENDS Access, TLAPS

HeaderValues == [proxy_secret : {"none", "unusable", "real"},
                 verified : BOOLEAN, dn : Dns \union {NoDn}]
Steps == {"idle", "check", "record", "issue"}

IsRequest(q) == /\ q = [pc |-> q.pc, headers |-> q.headers, matched |-> q.matched]
                /\ q.pc \in Steps
                /\ q.headers \in HeaderValues
                /\ q.matched \in Int

\* The types that the proofs need: a request keeps its headers and its step
\* beside what the invariants do not look into.
TypeInv ==
    /\ settings \in Settings /\ StartsUp(settings)
    /\ now \in Int
    /\ last \in [Keys -> Int]
    /\ DOMAIN request = Requests
    /\ \A r \in Requests : IsRequest(request[r])
    /\ accepted \in SUBSET (Keys \X Int)
    /\ twice \in SUBSET (Keys \X Int)

\* Two verifications of one key that are both past the look at its last step
\* have raced.
RaceInv == \A q, r \in Requests :
    q # r /\ request[q].pc = "record" /\ request[r].pc = "record" /\ KeyOf(q) = KeyOf(r)
       => KeyOf(r) \in raced

\* Whoever is about to record a step of an unraced key records a newer one.
NewerInv == \A r \in Requests :
    request[r].pc = "record" /\ KeyOf(r) \notin raced
       => last[KeyOf(r)] < request[r].matched

IInv == TypeInv /\ RaceInv /\ NewerInv
          /\ AcceptedOnceUnlessRaced /\ CallersAreVerified

-----------------------------------------------------------------------------
\* A request keeps its client key while its headers stay.
LEMMA KeyIsKey == ASSUME TypeInv, NEW r \in Requests PROVE KeyOf(r) \in Keys
BY DEF TypeInv, IsRequest, KeyOf, ClientKey, Enforced, HeaderValues, Keys

\* A thread without a request is of the types that a request has.
LEMMA IdleTyped == IsRequest(Idle)
<1>1. NoHeaders \in HeaderValues
  BY DEF NoHeaders, HeaderValues
<1>2. QED
  BY <1>1 DEF IsRequest, Idle, Steps, NoStep

\* A fresh server satisfies the invariant.
LEMMA InitIInv == Init => IInv
<1> SUFFICES ASSUME Init PROVE IInv
  OBVIOUS
<1>1. TypeInv
  <2>1. settings \in Settings /\ StartsUp(settings) /\ now \in Int
    BY DEF Init, DriftWindow
  <2>2. last \in [Keys -> Int] /\ accepted = {} /\ twice = {}
    BY DEF Init, NoStep
  <2>3. DOMAIN request = Requests /\ \A r \in Requests : request[r] = Idle
    BY DEF Init
  <2>4. QED
    BY <2>1, <2>2, <2>3, IdleTyped DEF TypeInv
<1>2. \A r \in Requests : request[r].pc = "idle"
  BY DEF Init, Idle
<1>3. AcceptedOnceUnlessRaced
  BY DEF Init, AcceptedOnceUnlessRaced
<1>4. QED
  BY <1>1, <1>2, <1>3 DEF IInv, RaceInv, NewerInv, CallersAreVerified

-----------------------------------------------------------------------------
\* The headers of a request are values of the types they have.
LEMMA HeadersTyped == ASSUME TypeInv PROVE Headers \subseteq HeaderValues
<1>1. NoHeaders \in HeaderValues
  BY DEF NoHeaders, HeaderValues
<1>2. settings.proxy_secret \in {"none", "unusable", "real"}
  BY DEF TypeInv, Settings
<1>3. [NoHeaders EXCEPT !.proxy_secret = settings.proxy_secret] \in HeaderValues
  BY <1>2 DEF NoHeaders, HeaderValues
<1>4. Proxied \subseteq HeaderValues
  BY <1>2, <1>3 DEF Proxied, HeaderValues
<1>5. Direct \subseteq HeaderValues
  BY DEF Direct, HeaderValues
<1>6. QED
  BY <1>1, <1>4, <1>5 DEF Headers

\* With mTLS on, the middleware lets through what the proxy vouches for only.
LEMMA AdmittedIsVerified ==
    ASSUME TypeInv, Enforced, NEW h \in Headers, Admit(h)
    PROVE  h.proxy_secret = "real" /\ h.verified /\ h.dn \in Dns
<1>1. settings.proxy_secret = "real"
  BY DEF TypeInv, StartsUp, Enforced
<1>2. h.proxy_secret = "real" /\ h.verified
  BY <1>1 DEF Admit
<1>3. h \in Proxied \union Direct
  BY DEF Headers
<1>4. h \notin Direct
  BY <1>2 DEF Direct
<1>5. h # [NoHeaders EXCEPT !.proxy_secret = settings.proxy_secret]
  BY <1>2 DEF NoHeaders
<1>6. QED
  BY <1>2, <1>3, <1>4, <1>5 DEF Proxied

-----------------------------------------------------------------------------
\* A request arrives at its check, or at the tokens if there are no codes.
LEMMA ArriveIInv ==
    ASSUME IInv, NEW r \in Requests, Arrive(r), UNCHANGED <<settings, now>>
    PROVE  IInv'
<1> USE DEF IInv
<1>0. PICK h \in Headers :
         /\ Admit(h)
         /\ \E step \in Matches(ClientKey(h)) :
               request' = [request EXCEPT ![r] =
                 [Idle EXCEPT !.pc = IF settings.totp THEN "check" ELSE "issue",
                              !.headers = h, !.matched = step]]
  BY DEF Arrive
<1>1. PICK step \in Matches(ClientKey(h)) :
         request' = [request EXCEPT ![r] =
           [Idle EXCEPT !.pc = IF settings.totp THEN "check" ELSE "issue",
                        !.headers = h, !.matched = step]]
  BY <1>0
<1>2. h \in HeaderValues
  BY HeadersTyped
<1>3. step \in Int
  BY DEF TypeInv, Matches, NoStep, DriftWindow
<1>4. /\ request'[r].pc \in {"check", "issue"}
      /\ request'[r].headers = h
      /\ \A q \in Requests : q # r => request'[q] = request[q]
  BY <1>1 DEF TypeInv, Idle
<1>5. UNCHANGED <<settings, now, last, accepted, twice, raced>>
  BY DEF Arrive
<1>6. TypeInv'
  <2>1. IsRequest(request'[r])
    BY <1>1, <1>2, <1>3 DEF TypeInv, IsRequest, Idle, Steps
  <2>2. QED
    BY <1>1, <1>4, <1>5, <2>1 DEF TypeInv
<1>7. RaceInv' /\ NewerInv'
  BY <1>4, <1>5 DEF RaceInv, NewerInv, KeyOf, ClientKey, Enforced
<1>8. AcceptedOnceUnlessRaced'
  BY <1>5 DEF AcceptedOnceUnlessRaced
<1>9. CallersAreVerified'
  BY <1>0, <1>4, <1>5, AdmittedIsVerified DEF CallersAreVerified, KeyOf, ClientKey, Enforced
<1>10. QED
  BY <1>6, <1>7, <1>8, <1>9

\* The look at the last accepted step refuses, or lets the request go on to record
\* its own and notes whom it races.
LEMMA CheckReplayIInv ==
    ASSUME IInv, NEW r \in Requests, CheckReplay(r), UNCHANGED <<settings, now>>
    PROVE  IInv'
<1> USE DEF IInv
<1>1. /\ request[r].pc = "check"
      /\ UNCHANGED <<last, accepted, twice>>
      /\ raced' = raced \union {k \in {KeyOf(r)} :
            /\ last[k] < request[r].matched
            /\ \E q \in Requests \ {r} : request[q].pc = "record" /\ KeyOf(q) = k}
  BY DEF CheckReplay
<1>2. AcceptedOnceUnlessRaced'
  BY <1>1 DEF AcceptedOnceUnlessRaced
<1>3. CASE last[KeyOf(r)] >= request[r].matched
  <2>1. request' = [request EXCEPT ![r] = Idle]
    BY <1>3 DEF CheckReplay, Unauthorized
  <2>2. Idle.pc = "idle"
    BY DEF Idle
  <2>3. request'[r] = Idle /\ \A q \in Requests : q # r => request'[q] = request[q]
    BY <2>1 DEF TypeInv
  <2>4. TypeInv'
    BY <1>1, <2>1, <2>3, IdleTyped DEF TypeInv
  <2>5. \A q \in Requests : q # r => KeyOf(q)' = KeyOf(q)
    BY <2>3 DEF KeyOf, ClientKey, Enforced
  <2>6. request'[r].pc # "record"
    BY <2>2, <2>3
  <2>7. RaceInv' /\ NewerInv'
    BY <1>1, <2>3, <2>5, <2>6 DEF RaceInv, NewerInv
  <2>8. CallersAreVerified'
    BY <2>2, <2>3 DEF CallersAreVerified, Enforced
  <2>9. QED
    BY <1>2, <2>4, <2>7, <2>8
<1>4. CASE ~(last[KeyOf(r)] >= request[r].matched)
  <2>1. request' = [request EXCEPT ![r].pc = "record"]
    BY <1>4 DEF CheckReplay, Goto
  <2>2. /\ request'[r].pc = "record"
        /\ request'[r].headers = request[r].headers
        /\ request'[r].matched = request[r].matched
        /\ \A q \in Requests : q # r => request'[q] = request[q]
    BY <2>1 DEF TypeInv
  <2>3. \A q \in Requests : KeyOf(q)' = KeyOf(q)
    BY <2>2 DEF KeyOf, ClientKey, Enforced
  <2>4. last[KeyOf(r)] < request[r].matched
    BY <1>4, KeyIsKey DEF TypeInv, IsRequest
  <2>5. TypeInv'
    <3>1. IsRequest(request'[r])
      BY <2>1 DEF TypeInv, IsRequest, Steps
    <3>2. QED
      BY <1>1, <2>1, <2>2, <3>1 DEF TypeInv
  <2>6. RaceInv'
    BY <1>1, <2>2, <2>3, <2>4 DEF RaceInv
  <2>7. NewerInv'
    BY <1>1, <2>2, <2>3, <2>4 DEF NewerInv
  <2>8. CallersAreVerified'
    BY <1>1, <2>2 DEF CallersAreVerified, Enforced
  <2>9. QED
    BY <1>2, <2>5, <2>6, <2>7, <2>8
<1>5. QED
  BY <1>3, <1>4

\* Recording a step.
LEMMA RecordIInv ==
    ASSUME IInv, NEW r \in Requests, Record(r), UNCHANGED <<settings, now>>
    PROVE  IInv'
<1> DEFINE k == KeyOf(r)
           s == request[r].matched
<1> USE DEF IInv
<1>1. /\ request[r].pc = "record"
      /\ request' = [request EXCEPT ![r].pc = "issue", ![r].matched = NoStep]
      /\ last' = [last EXCEPT ![k] = s]
      /\ accepted' = accepted \union {<<k, s>>}
      /\ twice' = IF <<k, s>> \in accepted THEN twice \union {<<k, s>>} ELSE twice
      /\ raced' = raced
  BY DEF Record
<1>2. k \in Keys /\ s \in Int
  BY KeyIsKey DEF TypeInv, IsRequest
<1>3. /\ request'[r].pc = "issue"
      /\ request'[r].headers = request[r].headers
      /\ \A q \in Requests : q # r => request'[q] = request[q]
  BY <1>1 DEF TypeInv
<1>4. \A q \in Requests : KeyOf(q)' = KeyOf(q)
  BY <1>3 DEF KeyOf, ClientKey, Enforced
<1>5. k \notin raced => last[k] < s
  BY <1>1 DEF NewerInv
<1> HIDE DEF k, s
<1>6. last' \in [Keys -> Int] /\ last'[k] = s
      /\ \A j \in Keys : j # k => last'[j] = last[j]
  BY <1>1, <1>2 DEF TypeInv
<1>7. TypeInv'
  <2>1. accepted' \in SUBSET (Keys \X Int) /\ twice' \in SUBSET (Keys \X Int)
    BY <1>1, <1>2 DEF TypeInv
  <2>2. IsRequest(request'[r])
    <3>1. IsRequest(request[r]) /\ DOMAIN request = Requests
      BY DEF TypeInv
    <3>2. request'[r] = [request[r] EXCEPT !.pc = "issue", !.matched = NoStep]
      BY <1>1, <3>1
    <3>3. request'[r] = [pc |-> "issue", headers |-> request[r].headers,
                         matched |-> NoStep]
      BY <3>1, <3>2 DEF IsRequest
    <3>4. NoStep \in Int
      BY DEF NoStep
    <3>5. QED
      BY <3>1, <3>3, <3>4 DEF IsRequest, Steps
  <2>3. DOMAIN request' = Requests
    BY <1>1 DEF TypeInv
  <2>4. QED
    BY <1>1, <1>3, <1>6, <2>1, <2>2, <2>3 DEF TypeInv
<1>8. RaceInv'
  BY <1>1, <1>3, <1>4 DEF RaceInv
<1>9. NewerInv'
  <2> SUFFICES ASSUME NEW q \in Requests, request'[q].pc = "record", KeyOf(q) \notin raced
               PROVE  last'[KeyOf(q)] < request'[q].matched
    BY <1>1, <1>4 DEF NewerInv
  <2>1. q # r
    BY <1>3
  <2>2. KeyOf(q) # k
    BY <1>1, <1>3, <2>1 DEF RaceInv, k
  <2>3. QED
    BY <1>3, <1>6, <2>1, <2>2, KeyIsKey DEF NewerInv
<1>10. AcceptedOnceUnlessRaced'
  <2>1. ASSUME NEW use \in twice' PROVE use[1] \in raced
    <3>1. CASE use \in twice
      BY <3>1 DEF AcceptedOnceUnlessRaced
    <3>2. CASE use = <<k, s>> /\ <<k, s>> \in accepted
      <4>1. k \in raced \/ last[k] >= s
        BY <3>2 DEF AcceptedOnceUnlessRaced
      <4>2. QED
        BY <1>2, <1>5, <3>2, <4>1 DEF TypeInv
    <3>3. QED
      BY <1>1, <2>1, <3>1, <3>2
  <2>2. ASSUME NEW use \in accepted' PROVE use[1] \in raced \/ last'[use[1]] >= use[2]
    <3>1. CASE use \in accepted
      <4>1. use[1] \in Keys /\ use[2] \in Int
        BY <3>1 DEF TypeInv
      <4>2. use[1] \in raced \/ last[use[1]] >= use[2]
        BY <3>1 DEF AcceptedOnceUnlessRaced
      <4>3. QED
        BY <1>2, <1>5, <1>6, <4>1, <4>2 DEF TypeInv
    <3>2. CASE use = <<k, s>>
      BY <1>2, <1>6, <3>2
    <3>3. QED
      BY <1>1, <2>2, <3>1, <3>2
  <2>3. QED
    BY <1>1, <2>1, <2>2 DEF AcceptedOnceUnlessRaced
<1>11. CallersAreVerified'
  BY <1>1, <1>3 DEF CallersAreVerified, Enforced
<1>12. QED
  BY <1>7, <1>8, <1>9, <1>10, <1>11

\* The reply to a request, or its 401.
LEMMA IssueIInv ==
    ASSUME IInv, NEW r \in Requests, Issue(r), UNCHANGED <<settings, now>>
    PROVE  IInv'
<1> USE DEF IInv
<1>1. UNCHANGED <<last, accepted, twice, raced>> /\ request' = [request EXCEPT ![r] = Idle]
  BY DEF Issue
<1>2. Idle.pc = "idle"
  BY DEF Idle
<1>3. request'[r] = Idle /\ \A q \in Requests : q # r => request'[q] = request[q]
  BY <1>1 DEF TypeInv
<1>4. TypeInv'
  BY <1>1, <1>3, IdleTyped DEF TypeInv
<1>5. \A q \in Requests : q # r => KeyOf(q)' = KeyOf(q)
  BY <1>3 DEF KeyOf, ClientKey, Enforced
<1>6. request'[r].pc # "record"
  BY <1>2, <1>3
<1>7. RaceInv' /\ NewerInv'
  BY <1>1, <1>3, <1>5, <1>6 DEF RaceInv, NewerInv
<1>8. AcceptedOnceUnlessRaced'
  BY <1>1 DEF AcceptedOnceUnlessRaced
<1>9. CallersAreVerified'
  BY <1>2, <1>3 DEF CallersAreVerified, Enforced
<1>10. QED
  BY <1>4, <1>7, <1>8, <1>9

\* Every step keeps the invariant.
LEMMA StepIInv == IInv /\ [Next]_vars => IInv'
<1> SUFFICES ASSUME IInv, [Next]_vars PROVE IInv'
  OBVIOUS
<1>1. CASE Tick
  BY <1>1 DEF Tick, IInv, TypeInv, RaceInv, NewerInv, AcceptedOnceUnlessRaced,
              CallersAreVerified, KeyOf, ClientKey, Enforced
<1>2. CASE \E r \in Requests : Handle(r) /\ UNCHANGED <<settings, now>>
  BY <1>2, ArriveIInv, CheckReplayIInv, RecordIInv, IssueIInv DEF Handle
<1>3. CASE UNCHANGED vars
  BY <1>3 DEF vars, IInv, TypeInv, RaceInv, NewerInv, AcceptedOnceUnlessRaced,
              CallersAreVerified, KeyOf, ClientKey, Enforced
<1>4. QED
  BY <1>1, <1>2, <1>3 DEF Next

-----------------------------------------------------------------------------
\* Every reachable state satisfies the inductive invariant.
THEOREM Invariance == Spec => []IInv
BY InitIInv, StepIInv, PTL DEF Spec

\* A code is accepted once per client key unless two verifications of the key
\* met between totp.verify's check and its update.
THEOREM AcceptedOnceUnlessRacedHolds == Spec => []AcceptedOnceUnlessRaced
<1>1. IInv => AcceptedOnceUnlessRaced
  BY DEF IInv
<1>2. QED
  BY <1>1, Invariance, PTL

\* With mTLS on, nobody reaches the credentials but through the proxy and with a
\* certificate it verified, under every setting the server starts with.
THEOREM CallersAreVerifiedHolds == Spec => []CallersAreVerified
<1>1. IInv => CallersAreVerified
  BY DEF IInv
<1>2. QED
  BY <1>1, Invariance, PTL
=============================================================================
