---------------------------- MODULE Certification ----------------------------
(***************************************************************************)
(* Certifying a test session (PUT .../testSessions/{id}): the verdict is   *)
(* computed set by set, twice, from vector sets that their own requests    *)
(* and threads go on changing; then the references are looked up; then a   *)
(* request is registered whose thread records the certificate.             *)
(*                                                                         *)
(* Of a vector set only two facts matter here: whether its status reads    *)
(* "cancelled" and whether its disposition() reads "passed".  VectorSet    *)
(* shows how they change; here each may change at any moment.              *)
(***************************************************************************)
EXTENDS Registry

CONSTANTS
    NumSets,        \* the vector sets of the session, in list order
    Handlers,       \* worker threads serving certify requests
    NoUrl           \* an object sent in the place of a URL

ASSUME CertificationAssumption == NumSets \in Nat /\ NoUrl \notin Urls

Sets == 1 .. NumSets

VARIABLES
    isSample,       \* the session was created for sample vectors
    withdrawn,      \* vector sets whose status is "cancelled"
    passing,        \* vector sets whose disposition is "passed"
    cancelled,      \* the session was cancelled
    pc,             \* what each certify request does next
    at,             \* the vector set it reads next
    body,           \* the module and the operating environment it names
    checked,        \* the resources it found there
    witness,        \* history: what held since it arrived
    grounds         \* history: the witness of each accepted certify request

sessionVars == <<isSample, withdrawn, passing, cancelled>>
handlerVars == <<pc, at, body, checked>>
historyVars == <<witness, grounds>>
certVars == <<regVars, sessionVars, handlerVars, historyVars>>

\* What a history records: the sets seen passing, the sets seen not withdrawn.
Unseen == [earned |-> {}, kept |-> {}]

NoBody == [moduleUrl |-> NoUrl, oeUrl |-> NoUrl]

InitCertification ==
    /\ Init
    /\ isSample \in BOOLEAN
    /\ withdrawn = {}
    /\ passing = {}
    /\ cancelled = FALSE
    /\ pc = [h \in Handlers |-> "idle"]
    /\ at = [h \in Handlers |-> 1]
    /\ body = [h \in Handlers |-> NoBody]
    /\ checked = [h \in Handlers |-> {}]
    /\ witness = [h \in Handlers |-> Unseen]
    /\ grounds = [r \in Rids |-> Unseen]

-----------------------------------------------------------------------------
(* The session and its vector sets.                                        *)

\* A grade settles, or a submission replaces or clears what the grade is of.
SetTurns(v) ==
    /\ passing' \in {passing \union {v}, passing \ {v}}
    /\ UNCHANGED <<isSample, withdrawn, cancelled>>

\* DELETE of a vector set; its grade stays on record.
SetWithdrawn(v) ==
    /\ withdrawn' = withdrawn \union {v}
    /\ UNCHANGED <<isSample, passing, cancelled>>

\* A handler's own status write over a cancel.
SetRevived(v) ==
    /\ withdrawn' = withdrawn \ {v}
    /\ UNCHANGED <<isSample, passing, cancelled>>

\* DELETE of the session.
CancelSession ==
    /\ ~cancelled
    /\ cancelled' = TRUE
    /\ UNCHANGED <<isSample, withdrawn, passing>>

SessionStep == \/ \E v \in Sets : SetTurns(v) \/ SetWithdrawn(v) \/ SetRevived(v)
               \/ CancelSession

-----------------------------------------------------------------------------
(* The certify handler.                                                    *)

Goto(h, here, there) == pc[h] = here /\ pc' = [pc EXCEPT ![h] = there]

\* What pydantic lets through: for the module and for the environment, either a
\* URL, which need not exist, or an object in its place.
Named(k) == {NoUrl} \union {u \in Urls : u[1] = k}

CertifyLookup(h) ==
    /\ ~cancelled
    /\ Goto(h, "idle", "cancelled")
    /\ UNCHANGED <<at, checked>>
    /\ \E m \in Named("modules"), o \in Named("oes") :
          body' = [body EXCEPT ![h] = [moduleUrl |-> m, oeUrl |-> o]]

\* A reply; the handler's variables end with it.
Reply(h, here) ==
    /\ Goto(h, here, "idle")
    /\ at' = [at EXCEPT ![h] = 1]
    /\ body' = [body EXCEPT ![h] = NoBody]
    /\ checked' = [checked EXCEPT ![h] = {}]

\* A scan that looks past the last set.
ScanOnPast(h, here, after) ==
    /\ IF at[h] <= NumSets
         THEN Goto(h, here, here) /\ at' = [at EXCEPT ![h] = @ + 1]
         ELSE Goto(h, here, after) /\ at' = [at EXCEPT ![h] = 1]
    /\ UNCHANGED <<body, checked>>

\* The next set of a scan, or what follows the scan.
ScanOn(h, here, after) ==
    /\ IF at[h] < NumSets
         THEN Goto(h, here, here) /\ at' = [at EXCEPT ![h] = @ + 1]
         ELSE Goto(h, here, after) /\ at' = [at EXCEPT ![h] = 1]
    /\ UNCHANGED <<body, checked>>

\* has_cancelled_vector_sets of the sets that are still listed: none of those.
ScanCancelledActive(h, here, after) == ScanOn(h, here, after)

\* has_cancelled_vector_sets stops at the first cancelled set.
ScanCancelled(h, here, after) ==
    IF at[h] \in withdrawn THEN Reply(h, here) ELSE ScanOn(h, here, after)

\* There are sets, and each reads "passed" when its turn comes.
ScanPassed(h, here, after) ==
    IF NumSets = 0 \/ at[h] \notin passing THEN Reply(h, here)
                                          ELSE ScanOn(h, here, after)

\* _session_passed, and again within _session_publishable.
ReadVerdict(h) == \/ ScanCancelled(h, "cancelled", "passed")
                  \/ ScanPassed(h, "passed", "cancelled again")
                  \/ ScanCancelled(h, "cancelled again", "passed again")
                  \/ ScanPassed(h, "passed again", "is_sample")

CheckSample(h) ==
    IF isSample THEN Reply(h, "is_sample")
    ELSE Goto(h, "is_sample", "moduleUrl") /\ UNCHANGED <<at, body, checked>>

\* A reference taken for granted.
CheckUrlTrusting(h, here, after) ==
    /\ Goto(h, here, after)
    /\ checked' = IF body[h][here] = NoUrl THEN checked
                  ELSE [checked EXCEPT ![h] = @ \union {Thing(body[h][here])}]
    /\ UNCHANGED <<at, body>>

\* refs.exists for one of the two references, if it was given.
CheckUrl(h, here, after) ==
    LET url == body[h][here] IN
    \/ /\ url = NoUrl
       /\ Goto(h, here, after)
       /\ UNCHANGED <<at, body, checked>>
    \/ /\ url # NoUrl /\ Exists(url)
       /\ Goto(h, here, after)
       /\ checked' = [checked EXCEPT ![h] = @ \union {Thing(url)}]
       /\ UNCHANGED <<at, body>>
    \/ /\ url # NoUrl /\ ~Exists(url)
       /\ Reply(h, here)

CheckUrls(h) == CheckUrl(h, "moduleUrl", "oeUrl") \/ CheckUrl(h, "oeUrl", "submit")

\* The body as it is recorded, and the request whose thread will record it.
Certify(h) ==
    /\ Reply(h, "submit")
    /\ Submit([op |-> "certify", kind |-> "validations", id |-> 0,
               maker |-> Nobody, refs |-> checked[h], step |-> "allocate"])
    /\ UNCHANGED <<stored, maker, written, issued, raced>>

Gate(h) == CertifyLookup(h) \/ ReadVerdict(h) \/ CheckSample(h) \/ CheckUrls(h)

-----------------------------------------------------------------------------
(* What held at some moment between the arrival and the acceptance of a    *)
(* certify request.                                                        *)

See(w) == [earned |-> w.earned \union passing',
           kept |-> w.kept \union (Sets \ withdrawn')]

Accepts(h, r) == pc[h] = "submit" /\ pc'[h] = "idle" /\ requests[r] # requests'[r]

Observe ==
    /\ witness' = [h \in Handlers |->
                     IF pc'[h] = "idle" THEN Unseen
                     ELSE See(IF pc[h] = "idle" THEN Unseen ELSE witness[h])]
    /\ grounds' = [r \in Rids |->
                     IF \E h \in Handlers : Accepts(h, r)
                       THEN witness[CHOOSE h \in Handlers : Accepts(h, r)]
                       ELSE grounds[r]]

NextCertification ==
    /\ \/ Next /\ UNCHANGED <<sessionVars, handlerVars>>
       \/ SessionStep /\ UNCHANGED <<regVars, handlerVars>>
       \/ \E h \in Handlers : Gate(h) /\ UNCHANGED <<regVars, sessionVars>>
       \/ \E h \in Handlers : Certify(h) /\ UNCHANGED sessionVars
    /\ Observe

SpecCertification == InitCertification /\ [][NextCertification]_certVars

-----------------------------------------------------------------------------
Bodies == [moduleUrl : Urls \union {NoUrl}, oeUrl : Urls \union {NoUrl}]
Witnesses == [earned : SUBSET Sets, kept : SUBSET Sets]
Steps == {"idle", "cancelled", "passed", "cancelled again", "passed again",
          "is_sample", "moduleUrl", "oeUrl", "submit"}

\* The types of the session, the certify handlers and the histories.
CertificationTypeOK ==
    /\ RegistryTypeOK
    /\ isSample \in BOOLEAN
    /\ withdrawn \in SUBSET Sets
    /\ passing \in SUBSET Sets
    /\ cancelled \in BOOLEAN
    /\ pc \in [Handlers -> Steps]
    /\ at \in [Handlers -> Sets \union {1}]
    /\ body \in [Handlers -> Bodies]
    /\ checked \in [Handlers -> SUBSET Things]
    /\ witness \in [Handlers -> Witnesses]
    /\ grounds \in [Rids -> Witnesses]

Certifying(r) == job[r].op = "certify"

\* A certificate is bought neither by withdrawing a vector set nor by leaving one
\* ungraded nor with a sample session: whatever changes meanwhile, the gate saw
\* every set passing and saw every set not withdrawn.
CertificateIsEarned ==
    \A r \in Rids : Certifying(r) =>
       /\ ~isSample
       /\ NumSets > 0
       /\ grounds[r].earned = Sets
       /\ grounds[r].kept = Sets
=============================================================================
