-------------------------------- MODULE Access --------------------------------
(***************************************************************************)
(* From the proxy to a token: the settings the server agrees to start with *)
(* (core/config.py), the mTLS middleware (core/tls.py), the credentials of *)
(* POST /login and /login/refresh (api/login.py), and the one-time codes   *)
(* (core/totp.py).  Requests are served by worker threads, which share the *)
(* last accepted time steps and nothing else: the tokens that a request    *)
(* presents and gets are left out.                                         *)
(*                                                                         *)
(* A code is the seed and the time step it was made from: codes of         *)
(* different steps are taken to differ.  Nginx is external: it vouches for *)
(* certificates.                                                           *)
(***************************************************************************)
EXTENDS Integers

CONSTANTS
    Requests,       \* worker threads serving logins and refreshes
    Dns,            \* the DNs of client certificates
    NoDn,           \* an X-Client-DN that is empty or absent
    Cleaned,        \* what is left of each DN without its non-printable
                    \* characters and cut after 256: Default if that is nothing
    Default,        \* the seed registry's entry for everybody else
    MaxStep         \* bound on the clock, in time steps of 30 seconds

\* Client keys: DNs that are cleaned to the same text share one.
Keys == {Cleaned[d] : d \in Dns} \union {Default}
DriftWindow == 1

ASSUME AccessAssumption == /\ MaxStep \in Nat
                           /\ NoDn \notin Dns
                           /\ DOMAIN Cleaned = Dns

VARIABLES
    settings,       \* the server's settings
    now,            \* the clock, in time steps
    last,           \* _last_accepted_step, -1 for none
    request,        \* the request that each thread serves, and its local state
    accepted,       \* history: client key and step of the accepted codes
    twice,          \* history: those accepted more than once
    raced           \* history: client keys two of whose verifications were both
                    \* between the look at the last step and its update
vars == <<settings, now, last, request, accepted, twice, raced>>

-----------------------------------------------------------------------------
(* _fail_closed_secrets.                                                   *)

\* "exempt" says that mtls_exempt_paths lists the paths of this module, which its
\* default does not.  A PROXY_SECRET that is a placeholder or short is "unusable"; a seed that is
\* not 16 bytes of Base64 keeps the server from starting, and is left out.
Settings == [mtls : BOOLEAN, proxy_secret : {"none", "unusable", "real"},
             exempt : BOOLEAN, totp : BOOLEAN, seeds : SUBSET Keys]

\* The settings under which the middleware looks at a request.
Enforced == settings.mtls /\ ~settings.exempt

\* A check of the secret that an absent one gets past.
StartsUpUnlessUnusable(s) == /\ s.mtls => s.proxy_secret # "unusable"
                             /\ s.totp => s.seeds # {}

StartsUp(s) == /\ s.mtls => s.proxy_secret = "real"
               /\ s.totp => s.seeds # {}

-----------------------------------------------------------------------------
(* MTLSMiddleware.dispatch.                                                *)

\* What a request brings: the secret it carries, whether X-Client-Verify says
\* SUCCESS, and the DN it names.  Nginx sets all three; a request that does not
\* come through it has no secret.  If nothing is enforced nothing looks at them.
NoHeaders == [proxy_secret |-> "none", verified |-> FALSE, dn |-> NoDn]
Proxied == [proxy_secret : {settings.proxy_secret}, verified : {TRUE}, dn : Dns]
             \union {[NoHeaders EXCEPT !.proxy_secret = settings.proxy_secret]}
Direct == [proxy_secret : {"none"}, verified : BOOLEAN, dn : Dns \union {NoDn}]
Headers == IF Enforced THEN Proxied \union Direct ELSE {NoHeaders}

\* A middleware that takes the proxy's word for what the proxy has not verified.
AdmitUnverified(h) == Enforced => h.proxy_secret = settings.proxy_secret

Admit(h) == Enforced => h.proxy_secret = settings.proxy_secret /\ h.verified

\* request.state.client_dn is set behind both checks only, and an empty one means
\* the default entry.
ClientKey(h) == IF Enforced /\ h.dn # NoDn THEN Cleaned[h.dn] ELSE Default

-----------------------------------------------------------------------------
(* _check_credentials and totp.verify.                                     *)

\* A client has a seed of its own or the default one, or there is none for it.
HasSeed(k) == k \in settings.seeds \/ Default \in settings.seeds

\* The steps whose code for a client key passes the window; without TOTP, a
\* stand-in for the demo password.
NoStep == -1
Matches(k) == IF ~settings.totp THEN {NoStep}
              ELSE IF HasSeed(k) THEN now - DriftWindow .. now + DriftWindow ELSE {}

Idle == [pc |-> "idle", headers |-> NoHeaders, matched |-> NoStep]

Goto(r, there) == request' = [request EXCEPT ![r].pc = there]

Unauthorized(r) == request' = [request EXCEPT ![r] = Idle]

\* A request the middleware lets through, with a password that is right or a code
\* in the window of the clock it read; the others get their 403 or 401.
Arrive(r) ==
    /\ request[r].pc = "idle"
    /\ \E h \in Headers :
          /\ Admit(h)
          /\ \E step \in Matches(ClientKey(h)) :
                request' = [request EXCEPT ![r] =
                  [Idle EXCEPT !.pc = IF settings.totp THEN "check" ELSE "issue",
                               !.headers = h, !.matched = step]]
    /\ UNCHANGED <<last, accepted, twice, raced>>

KeyOf(r) == ClientKey(request[r].headers)

\* A comparison that lets the code accepted last through again.
CheckReplayOlder(r) ==
    /\ request[r].pc = "check"
    /\ IF last[KeyOf(r)] > request[r].matched THEN Unauthorized(r)
                                              ELSE Goto(r, "record")
    /\ UNCHANGED <<last, accepted, twice, raced>>

CheckReplay(r) ==
    /\ request[r].pc = "check"
    /\ IF last[KeyOf(r)] >= request[r].matched THEN Unauthorized(r)
                                               ELSE Goto(r, "record")
    /\ raced' = raced \union {k \in {KeyOf(r)} :
                  /\ last[k] < request[r].matched
                  /\ \E q \in Requests \ {r} : request[q].pc = "record" /\ KeyOf(q) = k}
    /\ UNCHANGED <<last, accepted, twice>>

\* verify returns, and its local matched_step is gone.
Record(r) ==
    LET use == <<KeyOf(r), request[r].matched>> IN
    /\ request[r].pc = "record"
    /\ request' = [request EXCEPT ![r].pc = "issue", ![r].matched = NoStep]
    /\ last' = [last EXCEPT ![KeyOf(r)] = request[r].matched]
    /\ accepted' = accepted \union {use}
    /\ twice' = IF use \in accepted THEN twice \union {use} ELSE twice
    /\ UNCHANGED raced

\* login and refresh behind their credentials: the tokens of the body are decoded
\* and signed one by one, or one of them cannot be decoded and the reply is a 401.
\* Either way the code has been used.
Issue(r) ==
    /\ request[r].pc = "issue"
    /\ request' = [request EXCEPT ![r] = Idle]
    /\ UNCHANGED <<last, accepted, twice, raced>>

-----------------------------------------------------------------------------
Init == /\ settings \in {s \in Settings : StartsUp(s)}
        /\ now = DriftWindow
        /\ last = [k \in Keys |-> NoStep]
        /\ request = [r \in Requests |-> Idle]
        /\ accepted = {} /\ twice = {} /\ raced = {}

Tick == /\ now < MaxStep
        /\ now' = now + 1
        /\ UNCHANGED <<settings, last, request, accepted, twice, raced>>

Handle(r) == Arrive(r) \/ CheckReplay(r) \/ Record(r) \/ Issue(r)

Next == Tick \/ \E r \in Requests : Handle(r) /\ UNCHANGED <<settings, now>>

Spec == Init /\ [][Next]_vars

-----------------------------------------------------------------------------
\* "An accepted code cannot be accepted again": for each client key, as far as
\* the code keeps the promise.  A key whose verifications never met between the
\* look at the last accepted step and its update has no code accepted twice,
\* whatever the clocks drift and whatever other keys do with the same seed, and
\* the newest code it used is the one on record.
AcceptedOnceUnlessRaced ==
    /\ \A use \in twice : use[1] \in raced
    /\ \A use \in accepted : use[1] \in raced \/ last[use[1]] >= use[2]

\* "Settings validation guarantees proxy_secret is set whenever mTLS is on, so
\* this layer can never be skipped": with mTLS on, whoever gets as far as the
\* credentials of a path that is not exempt came through the proxy, with a
\* certificate it verified.
CallersAreVerified ==
    Enforced => \A r \in Requests : request[r].pc # "idle" =>
        LET h == request[r].headers IN
        h.proxy_secret = "real" /\ h.verified /\ h.dn \in Dns
=============================================================================
