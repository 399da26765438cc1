# A verification development for the ACVP platform

The platform is a server for the Automated Cryptographic Validation Protocol: a
vendor opens a test session, registers algorithms, fetches a *vector set* for
each, submits responses, has them graded by an engine (NIST GenVal or a
fixture), and finally turns a passed session into a certificate that names a
module and an operating environment. This directory models the server in TLA+,
checks the models with TLC, and proves theorems about them with TLAPS.

Paths below are relative to the repository's root; `app/` is `backend/app/`.

## The system

FastAPI runs every handler on a worker thread of its own (`def`, not
`async def`), generation and grading run on daemon threads (`app/core/jobs.py`),
and all of them share one store: dataclasses in memory (`app/store.py`) or rows
in PostgreSQL (`app/db/db_store.py`). Everything difficult comes from that
sharing; each request by itself is a short sequential program.

| Component | State | Operations | Talks to | What makes it correct |
|---|---|---|---|---|
| Vector set lifecycle (`store.VectorSet`, `api/vector_sets.py`, `_start_generation`) | status, prompt, answer key, expected results, response, grade, flags, deadline, lock | generate, GET, DELETE, POST/PUT results, settle | jobs, crypto boundary | a cancel is final; status follows the lifecycle; nothing is published before what it depends on; every submission has one outcome |
| Results (`get_results`, `disposition`) | none (reads) | GET results | vector set | a reply can be given, and what it says is true or, in the two cases that findings name, was overtaken |
| Test sessions and certification (`api/test_sessions.py`) | session, its vector sets, owner, cancelled | create, list, GET, certify, cancel, results | vector sets, metadata, requests | a certificate only for a session that passed; its references resolve; one answer per accepted request |
| Metadata registry and requests (`api/metadata.py`, `core/refs.py`, `api/requests.py`) | five collections of resources, requests | create, update, delete, reference checks | jobs | references resolve, ids name one thing, an approved request tells the truth |
| Background jobs (`core/jobs.py`) | daemon threads | submit, run_background | store | work accepted is work done; restart |
| PostgreSQL store (`db/`) | rows | the store's interface, one transaction per attribute, restarts | - | a settle is one transaction; a restart takes back nothing that was published |
| Crypto boundary (`crypto_boundary/`) | a directory per vector set, a subprocess | generate, validate | file system | a submission gets its own grade; no artifact of another run is read |
| Login and tokens (`api/login.py`, `core/auth.py`) | none (signed tokens) | login, refresh, session access | TOTP, config | a token opens only its session, until it expires |
| TOTP (`core/totp.py`) | last accepted step per client | verify | - | a code is accepted once |
| mTLS and configuration (`core/tls.py`, `core/config.py`) | settings | per-request gate, start-up check | - | fails closed |
| Paging (`models/paging.py`) | none | paged | listings | pages partition the list, links lead to pages |
| Frontend (`frontend/src`) | the step the user is at | login ... certify, polling | all endpoints | signing out is clean, there is always something to show, logins are renewed or ended |

What is hard: handlers and threads interleave on fields that only `settle()` and
`cancel()` lock; results arrive after the client moved on; the deadline can
fall between any two steps; gates are checked before the thread that acts on
them runs; ids are reused in one backend and not in the other; threads die with
the process while rows survive. `PROJECT.json` lists each of these hazards at
its line, with the properties that cover it.

## Modules

| Module | What it is |
|---|---|
| `Lifecycle` | abstract specification: what one vector set promises its client |
| `RestartableLifecycle` | the same for a set that outlives its process: a restart loses gradings and nothing else |
| `VectorSet` | the detailed model of a vector set: handlers, threads, lock, clock |
| `VectorSetRequirements` | its invariants, action and liveness properties, and the refinement mapping to `Lifecycle` |
| `VectorSetResults` | adds a results request, read by read |
| `DbVectorSet` | the same handlers and threads on a row of PostgreSQL, with restarts; implements `RestartableLifecycle` |
| `GenValDir` | the crypto boundary: the work directory of a vector set, its calls and the engine processes |
| `Paging` | paged responses, as operators |
| `Sessions` | creating, cancelling and listing test sessions; uses `Paging` |
| `Access` | from the proxy to a token: settings, mTLS middleware, one-time codes |
| `Registry` | the metadata collections, requests and their threads, over either store |
| `Certification` | extends `Registry`: a session's vector sets, the certify gate, the certificate |
| `Client` | the shell of the web client |
| `MC...` | instances for TLC: payload kinds, client certificates, seeds |
| `VectorSetProofs`, `VectorSetResultsProofs`, `DbVectorSetProofs`, `GenValDirProofs`, `AccessProofs`, `ClientProofs` | theorems and proofs about the module they are named for |
| `SessionsProofs` | the same about `Paging` and `Sessions` |
| `CertificationProofs` | the same about `Registry` and `Certification` |

Every mutated form of a definition stands in front of the definition, with a
comment that says which mistake it is; `PROJECT.json` names the run and the
property that notices it.

### How VectorSet corresponds to the code

`vs` is the dataclass, one record field per attribute that decides anything.
`past` says that the clock reached `expires_at`; `lock` is `VectorSet._lock`.
`pc[r]` is where request `r`'s handler is: it is named after the field that the
handler assigns next, so the order of the four assignments in `_accept_results`
can be read off the actions. `slot[r]` is the grading thread that request will
start. `at[t]` is where thread `t` is; thread 0 runs `_gen` of
`_start_generation`, the others `_run` of `_accept_results`. While a thread is
inside `settle()`, `at[t]` names the field it writes next. `answer[t]` is the
response a grading thread closed over, `result[t]` the status its `settle()`
call will write. `retrieved` is history: a client was sent the prompt.

A step is one write of a field, or one read on whose outcome a later step
depends. Reads are merged with each other only where their outcome is stable:
the deadline does not un-pass, a prompt is never removed, a status never
returns to "generating". The 404 and 403 replies at a handler's lookup change
nothing and are no step.

Data is abstracted to what decisions see. A payload is a model value: whether it
is malformed, partial, carries `showExpected`, and how the engine grades it are
given by the constants `Malformed`, `Partial`, `ShowExpected` and `Verdict`.
`vs.validation` holds the payload that was graded, so the model can tell whose
grade is on record. The prompt, the answer key and the expected results are
booleans: something else than None or not. A generation must have a prompt; whether
it has the other two is the engine's affair and a choice of `Returns` (`emitted`),
but for the NIST engine's answer key, which is a required file (`Emissions`). The
fixtures' grading needs no key; the NIST engine's raises without one (`CannotRun`,
`UseNistGenval`). `error` (a text) and `resubmit_count` are written and
read by nothing that decides; they are left out, and with them the only
difference between POST and PUT. `status == "expired"` and `"certified"` are
named in the code but written nowhere; they are not in `Statuses`.

Each grading thread is given the grade of its own payload. That is an
assumption about the crypto boundary, and `GenValDir` says when it is right: for
a validation that has the work directory to itself (`GradeIsOwn`).

### Lifecycle and the refinement

`Lifecycle` has the status as its phase and one action for each thing that can
happen to it: generation succeeding or failing, retrieval, submission, grading,
a submission being dropped, cancelling, the deadline. A grade may only move
between the answered phases, a cancelled phase is never left, a submission is
dropped only by a cancel or the deadline. `VectorSet` implements it when a client
sends one request at a time (`ImplementsLifecycle`, run `vs_serial`); the mapping
takes a submission to be in `grading` from the write that publishes it to the
end of its thread. With two requests at a time it does not: see the findings.

### How Registry corresponds to the code

`stored[u]` is what the store has at URL `u`, reduced to the references it holds;
`issued` are the `itertools.count`s; `requests` is `_requests`, with its status
and location; `job[r]` is the closure `_run` of request `r`, what it captured and
what it calls next. `Create`, `Update` and `Delete` are the handlers, up to the
moment the request is registered: what they read before may have changed by the
time the thread writes, and that is where the interleavings are. `Allocate`,
`Insert`, `ReplaceCheck` and `ReplaceStore` (the two halves of `replace_metadata`)
and `Complete` are the calls of the thread, and `RequestObject`
is what a client that polls is told. `raced` is history: threads whose resource was
deleted between the two halves. The in-memory
`add_metadata` is two steps (the counter, the dictionary), the database's two
statements likewise; there an insertion under a taken key raises and the thread
dies, leaving its request "processing".

The code knows a resource by its URL. To say that a URL goes on meaning the same
resource, the model records beside every URL in use who made the resource behind
it (`Things`, `maker`, `written`): history that no guard looks at. A handler's
reference check and its request are one step here; `Certification` splits them.

Left out: the fields of a resource that are no references; a vendor's addresses,
which live and die with the vendor; a person's and a module's second reference
field, which are checked the same way.

### How Certification corresponds to the code

It extends `Registry`: certificates are the collection "validations", recorded by
the thread of a certify request through `Allocate`, `Insert` (of its own form,
`InsertValidation`) and `Complete`, and
their references are references like the others. `pc[h]`, `at[h]`, `body[h]` and
`checked[h]` are the local state of a certify handler: `_session_passed` runs
twice (once more inside `_session_publishable`), each time one pass for
`has_cancelled_vector_sets` and one for the dispositions, one set per step; then
`isSample`; then one reference after the other; then `submit`.

What a vector set does meanwhile is reduced to the two facts the gate reads. They
change freely (`SetTurns`, `SetWithdrawn`, `SetRevived`), more freely than
`VectorSet` lets them, so what holds here holds of the code. `isSample` is chosen
once. The session's own cancellation stops new requests and no running one.
`CertificateIsEarned` is what the gate guarantees with all this going on: of every
set it saw a passing moment and a moment at which it was not withdrawn, if not
the same moment for all of them.

### How DbVectorSet corresponds to the code

`VectorSetProxy` of `app/db/db_store.py` makes each read of a field a query and
each assignment a transaction, so the steps of `VectorSet`'s handlers are also the
steps here and are reused as they are (`Proceed`, `Run`). Only `settle()` differs:
`DbSettle` is the row-locked transaction with its check and all its updates, in
place of `SettleBegin` and `SettleWrite`. `Restart` takes away what lives in the
process (handlers, threads, the lock) and leaves the row. `interrupted` is
history: a restart fell into the latest submission, between its first assignment
and the end of its grading; a later submission that gets its 200 ends that.

### How GenValDir corresponds to the code

`dir[f]` says what a file was computed from: a registration or a response is the
call that wrote it, a grade is a pair of answer key and response. `pc[c]` is where
a call of `_nist_generate` or `_nist_validate` is: `Sweep` and `Unlink` are the two
halves of removing an earlier `validation.json`, `Start`, `Timeout` and `Exited` the
outcomes of `subprocess.run`, `Collect` the reads of the artifacts. The engine is
external and may do anything an engine that reads its inputs before it writes may
do: write any of its outputs any number of times, in any order, or none; exit with
any code; hang. A restart abandons the calls, may leave their engines running, and
without a database forgets the set, whose directory the next one with its id
then gets. `disturbed` is history: calls that shared the directory. What they
return is not claimed to be anything; `GradeIsOwn` and `VectorsAreOneRun` are about
the others. Writing an input file and the reads of `Collect` are one step each:
another call that could see the difference makes this one disturbed. Any artifact may
fail to decode, half-written by an engine that is at work or was killed: `Collect`
may raise whatever the directory holds.

### How Paging and Sessions correspond to the code

`Paging` transcribes `paged()`; a link is its offset. `Sessions` has a session as the
fields that a listing or its client can tell apart, and a creation as a worker thread
that adds the session, gives it its owner, stamps it (the step of the last of the
assignments of flags, dates and token that no listing goes by, and that none of the
properties tells apart), and for each registration adds a vector set, stamps it and
starts its generation; an invalid registration is a 400 that leaves everything before
it in the store. `disclosed` are the sessions whose token was sent; a request with
such a token names a session of its own choice, and `Authorized` is the comparison of
the two. `walk` is a client that follows the "next" links: one request per page, each
answered by a query (`database`) or by an iteration over a dictionary that raises if
it grew meanwhile (`StartScan`, `Scan`, `ScanRaises`), in which case the client asks
for the page again. Its history: `standing`, the sessions from its offset on when it
began; `seen`; `gone`, those cancelled while it walked.

### How Access corresponds to the code

`settings` are those the start-up check lets through, fixed for a run. A request
brings headers that Nginx may have set (`Proxied`) or that its sender made up
without knowing the secret (`Direct`). `verify()` is two steps, `CheckReplay` and
`Record`: the look at `_last_accepted_step` and its update. A code is the time step
it was computed for. `accepted`, `twice` and `raced` are history; `raced` are the
client keys two of whose verifications were between look and update at once.
`Cleaned` is what the middleware makes of a DN (printable characters, 256 of them at
most), and the entry `Default` where nothing is left: several DNs may share a client
key. `exempt` lets the paths of the module be among `mtls_exempt_paths`, where the
middleware looks at nothing (`Enforced`). The tokens of a login, a renewal or a
multi-refresh are computed from the request alone, one after the other; no other
request can see or change anything of that, so `Issue` is the reply or the 401 and
the tokens are not modelled.

### How Client corresponds to the code

The variables are the state hooks of `App.tsx` by name, `timer` is the renewal's
`setTimeout`, and a request under way is what its reply handler will do. An effect
that runs because of a `setState` is part of the step that sets it. `late` is
history: a reply to a request from before the sign-out has been acted on, which
is the exception that `SignedOutIsClean` and `NoBlankPage` have to make.

## Runs

| Run | Instance | Shows |
|---|---|---|
| `vs_serial` | one request at a time, at most 3 accepted submissions, 3 payloads | refinement of `Lifecycle`; cancel is final; responses only after retrieval; at rest the last submission is accounted for; generation, submissions and requests end |
| `vs_concurrent` | two requests at a time beside one for the results, 2 submissions, a well-formed and a malformed payload, an engine that may or may not emit expected results | what holds under any interleaving: what the engine emitted is there before the prompt is served, no settle over a cancel, settles are all-or-nothing, the deadline voids nothing accepted; until the set is answered a second time results are served, with the graded answers, and a judgement is one that held during the request, unless a settle or the deadline overtook it |
| `database` | one request at a time, 3 submissions, up to two restarts | refinement of `RestartableLifecycle`; a cancel outlives restarts; submitting again repairs what a restart left; only a restart leaves a set generating |
| `genval` | two generations, two validations, one restart | own grades, vectors of one run, no engine outlives its call but through a restart, every call ends |
| `sessions` | two creations at a time, three sessions, one of the bodies refused half way, one walk from offset -1 or 1 with limit 0, one restart; both stores | a disclosed session is complete; a walk ends and misses no more than was cancelled |
| `access` | two threads, a certificate of its own key and one that shares the default key, clock readings 1 and 2 (codes of the steps 0 to 3), all settings | one-time codes, verified callers |
| `client` | three requests under way, two sessions | sign-out is clean, never a blank page, a login token is always about to be renewed |
| `registry` | vendors and modules, one vendor at the start, three requests in flight, in memory | a URL names one resource for ever, whatever the order of threads; a delete is undone only by an update caught between its check and its store; every accepted request is decided |
| `certification` | a certify request at a time over two vector sets; two requests, which create modules or certify | the gate: no certificate without every set seen passing and every set seen not withdrawn, none for a sample session; its references mean what they meant when they were checked |
| `cancel_revived`, `stale_grade`, `registry_db` | as small as the behaviour allows | findings 1, 2 and 7 |

### Fairness

Liveness is checked under weak fairness of threads that have started (the
operating system runs them; an engine call returns or raises, because it has a
timeout) and of requests past their lookup. Nothing makes a client send a
request, the deadline come, or the process restart: `Arrive`, `DeadlinePasses`
and every `Restart` are without fairness. `RequestsFinish` therefore also says
that no handler waits for the lock for ever.

- `FairSpec` (`VectorSet`), `DbSpec`: each thread, each request.
- `GenValDir`: each call. Its steps include the timeout, so `EveryCallEnds` needs
  nothing of the engine.
- `Sessions`: each creation, and a walk that has begun: the client that follows
  the links goes on doing so. `WalksEnd` needs that sessions are not created for
  ever; the bound on sessions stands for it, and without a database each creation
  may cost the walk one more request.
- `Client`: each request under way gets a reply or fails, and the browser's timers
  fire.
- `Registry`: each thread.
- `Access` and `Certification` are checked for safety only.

### Bounds

Every bound is a constant. `MaxSubmissions` bounds how often a payload reaches a
thread; three submissions give every order in which an older and a newer grader can
finish around a resubmission, and the payloads contain one of each kind that the code
distinguishes (good, partial, malformed; a grade in and a grade out of the protocol's
vocabulary). Two requests are what it takes for the handlers' races. With the results
reader beside them, two submissions suffice, since its properties end with the second,
and a partial payload is left to `vs_serial`: `JudgementsAreReal` says nothing of a
set that lacks test cases. `UseNistGenval` is TRUE where a grading that lacks its key
matters and FALSE in `database`, where the answer key may be missing as well; the
theorems hold of either. Two restarts let one fall into the repair of another. Two
validations are what it takes to disturb each other, a second generation to find the
leftovers of a first, one restart to leave an engine running. Three sessions of two
creators give a walk of three pages with creations on both sides of it and an offset
past the end of a shorter listing. Two threads and two readings of the clock, with
windows that overlap, let codes of every step of a window be used by requests that
race, and by requests that do not. `MaxRequests` bounds the accepted requests and with
them the threads: three let an update or a delete fall between the two writes of a
creation, and a third resource be created meanwhile; `MaxId` is large enough for every
id that so many requests can allocate (`RegistryAssumption`). Two vector sets are what
it takes for a verdict that never held at one moment. The theorems below remove the
bounds of the properties they state.

`CHECK_DEADLOCK FALSE` where the system may stop: after a cancel every request is
refused, calls and sessions are used up, supplies of requests run out.

## Findings

Three have a run that shows them. The others were met while modelling, and the
exception, the limit or the step they forced on the model is named; for 4, 5, 6 and
8 TLC finds the behaviour as soon as that exception is taken out of its property.

1. *A cancel can be undone* (run `cancel_revived`). `settle()` and `cancel()` take
   the lock, the handlers' `vs.status = ...` do not
   (`app/api/vector_sets.py:66`, `:199`).
2. *A stale grade stays* (run `stale_grade`). Resubmitting while a grader runs: the
   older grader's result lands last (`app/api/vector_sets.py:211`).
3. *"incomplete" for ever.* A result that is late by the clock is refused and the
   set keeps saying that validation is in progress (`app/store.py:60`, `:105`).
   `RestsGraded` therefore stops at the deadline.
4. *A results request can fail.* The grade is tested and read again
   (`app/api/vector_sets.py:252`, `app/store.py:101`). It is the step `Crash`,
   which `ServedUntilResubmitted` excludes up to the second submission only.
5. *"unreceived" of a graded set.* `disposition()` reads the
   grade before the status, a grader writes them in that order: whoever reads one
   before and the other after the settle says that nothing was received
   (`app/store.py:101`, `:104`).
6. *"expired" of an answered set.* The responses are read
   before the clock, and arrive in between (`app/store.py:95`). These two are the
   exception `Overtaken` of `JudgementsAreReal`.
7. *Ids come back* (run `registry_db`). The database store's ids are not the
   sequence they are said to be: a deleted vendor's URL is given to a new one
   (`app/db/db_store.py:307`).
8. *A delete can be undone.* In memory the thread of an update
   looks for the resource and stores it in two steps: a DELETE in between is undone
   (`app/store.py:216`, `:218`). `RevivedOnlyInARace` says that nothing else does.
9. *A verdict that never held.* The sets are read one after the other
   (`app/api/test_sessions.py:78`); `CertificateIsEarned` is what remains.
10. *A certificate for a module that is gone.* References are checked when they are
    sent and by nothing that deletes (`app/api/metadata.py:137`).
11. *A code can be used twice.* Replay protection is a look and an update
    (`app/core/totp.py:56`); `raced` is the exception of `AcceptedOnceUnlessRaced`.
12. *A reply outlives the sign-out* (`frontend/src/App.tsx:209`); `late` is the
    exception of `SignedOutIsClean` and `NoBlankPage`.
13. *The results page stops polling too soon* (`frontend/src/steps/Results.tsx:17`):
    finding 2 seen from the browser.

Without a claim in the repository to hold them against: a submission under way when
the set is cancelled passes the 409 check, since "cancelled" is not among the statuses
it excludes; a malformed payload's `showExpected` flag is kept after the 400; after a
failed generation GET asks the client to retry for ever, and the web client's page
does so; a results reply for a partial submission may show the engine's grade instead
of "missing"; an update of a resource deleted meanwhile is approved without effect; a
listing beside a creation may show a session without its dates or its vector sets; a
sample session whose engine emitted no expected results is served the fixture's for a
prompt that the engine generated (`app/api/vector_sets.py:105`); a session may be
certified any number of times; two concurrent creations in the database can draw the
same id, and the request of the one that loses stays "processing"; a creation refused
with 400 leaves a session nobody has a token for, listed and generating; with one-time
codes for passwords the web client's renewal, which sends the password of the login
again (`frontend/src/App.tsx:75`), always fails and signs the user out.

## Proofs

Eight modules, checked by TLAPS with its SMT, Zenon and temporal backends. They hold
for every value of the constants that satisfies the assumptions of the module they
are about; further hypotheses are named. Each safety theorem follows from an
inductive invariant that TLC has also been run on, with one lemma per action, or per
action and part of the invariant.

### Any clients: VectorSetProofs, first half

From `ConstantsAssumption`: `TypeCorrect`, `Invariance`, `NoSettleOverCancelHolds`,
`KeyBeforePromptHolds`, `SettleIsAllOrNothingHolds`, and
`ExpiredMeansNothingAcceptedHolds`, with the hypothesis that the engine itself never
reports "expired" (its verdict is passed through if it is in the protocol's
vocabulary). None of these is inductive by itself; `IInv` is. `NoSettleOverCancel`
needs that the lock is held by exactly the thread whose `at` is a field (`LockInv`),
which needs that a request only ever moves the thread it reserved (`SlotInv`).
`KeyBeforePrompt` follows what the engine emitted, be it None or not, from the settle
that writes it to everyone who may rely on it: `GenerationInv` ties the generating
thread's position to the fields it has written and to `emitted`, and says that until
it is done the status is "generating" or "cancelled"; `NoSettleOverCancel` then
excludes "cancelled" between two of its writes. So whoever finds a prompt and a status
other than "generating" finds generation over (`PromptPublished`), and `PublishedInv`
carries that from the check of a handler to its later steps and to the threads it
starts. `RoleInv` keeps graders away from the generated fields, and `AcceptedInv`
keeps a response on record for every started grader.

### A serial client: VectorSetProofs, second half

With the hypothesis `OneClient`, which is what the findings leave: `Requests` has no
two elements, so that a request meets only the threads and the clock.
`SerialInvariance`, `CancelIsTerminalHolds`, `AnsweredOnlyAfterRetrievalHolds`,
`RestsGradedHolds`, `ImplementsLifecycleHolds`. `SerialInv` adds to `IInv` what a
handler may rely on from one step to the next: nobody cancels the set of a request
under way (`LiveInv`), the status a GET read is still "ready" when it writes, and a
submission past its check is past retrieval (`StatusInv`, `RetrievedInv`).
`PendingInv` says that a response on record has a grade, or a failure, or somebody at
work on it, and `GradedInv` that a thread about to publish its status finds its grade
still there unless a resubmission took it; `RestsGraded` is what they say when nobody
is at work. It needs `EngineGrades`: a verdict that is in the protocol's vocabulary
is passed, failed or error.

`ImplementsLifecycleHolds` maps every step of `VectorSet` to a step of `Lifecycle` or a
stutter, under `SerialInv`: one lemma for threads, one for requests, one for the clock.

### The results reader: VectorSetResultsProofs

For any number of requests at a time, from `ConstantsAssumption` and
`EmptyAssumption`: `ResultsInvariance`, `ReaderOnlyReads`,
`ServedUntilResubmittedHolds`, `JudgementsAreRealHolds`. The properties speak of a
set that was not submitted to twice; the invariant speaks of `Sole`, that no two
submissions have got past the checks, because that is what the steps preserve
(`SoleBefore`: two remain two). `RecordInv` says whose every field on record is: the
grade is that of a grader which is about to publish it or has, a status
"response_submitted" or a missing test case that of a submission at that step or
beyond it. So under `Sole` no request can be about to take back a grade
(`OnlyInstaller`, `RecordStays`), the grade is that of the response on record and
nothing has failed (`GradeOnRecord`). `ReaderInv` is then inductive: what the reader
has read is still so, and the set's disposition is in the history. The last read,
"submitted, not graded", is the one that can be out of date: either "incomplete" is
then in the history, because the grade arrived while the reader was there, or the
status was published with it and the reader says "unreceived" (`TooLate`); and a set
that was found unanswered may have been answered when the clock is read. `JudgedInv`
says that these are all, and `JudgementsAreRealHolds` needs `EngineGrades`, without
which an engine's own "unreceived" or "expired" could not be told from the server's.

### The database: DbVectorSetProofs

`DbVectorSet` takes its handlers from `VectorSet`, so the lemmas about them are
reused; new are the settle in one transaction and the restart. `DbInvariance`,
`DbSettleIsAllOrNothing` for any clients; with `OneClient` also `DbSerialInvariance`,
`CancelOutlivesRestartsHolds`, `DbAnsweredOnlyAfterRetrieval`,
`ResubmissionRepairsHolds` (with `EngineGrades`) and `ImplementsRestartableHolds`. A
restart keeps `CoreInv`, since what was relied on was relied on by what it dropped, and
breaks `MissingInv` and `PendingInv`: `DbSerialInv` has these two only until
`interrupted`, and the submission that ends it establishes them again.

### The work directory: GenValDirProofs

`Invariance`, `NoEngineOutlivesItsCallHolds`, `GradeIsOwnHolds`, `VectorsAreOneRunHolds`,
for any number of generations, validations and restarts. A call that was alone so far
still is (`AloneInv`), which with `NoEngineOutlivesItsCall` leaves only its own engine
writing; `FilesInv` then follows each file from the call that put its input there to
the call that reads its output: `ValidationFiles(c)` says for every step of a
validation what `response.json` and `validation.json` are, above all that there is no
old grade when its engine starts.

### Paging and sessions: SessionsProofs

Paging, for every list, offset and limit: `PageItems` counts what is on a page;
`IncompleteMeansNext`: "incomplete", which the code computes from the items, and
the next link, which it computes from the offsets, agree; `NextLeadsOn`: the next
page is further on and not empty, and its prev link leads back; `PagesAddUp`: the
items before a page and the page are the items before the next page, so that nothing
falls between pages and nothing is on two; `LastIsLast`: the last link leads to the
page with the last item, at a multiple of the limit. These are about one list that
stands still; `WalkInvariance` is about a listing that changes between the pages.

`SessionsInvariance` and `DisclosedIsCompleteHolds`, for any number of creations,
restarts and walks: every creation is at work on a session that no other creation and
no client has (`DistinctInv`), and how much of it is there follows from its step
(`CreationInv`), so that what is disclosed is complete and stays so.

`WalkInvariance` and `WalkMissesAtMostTheCancelledHolds`, for any number of sessions
and creations, every offset and limit, and both stores. Where a session stands in a
listing is the number of listed sessions newer than it (`Rank`, a cardinality, so
that nothing is said by induction over a list), and a page is a section of the ranks
(`PageOfRanks`). Of the sessions the walk began with, those it has not seen and no
page from its offset on can show are `Lost`: they are cancelled, or have moved up past
the offset. Three facts about finite sets carry the proof: a listing that grows
loses nothing, wherever the new session comes in (`LostShrinks`); taking sessions
from a listing loses no more than are taken (`LostGrows`, which counts those that
move up); turning a page loses nothing, and after the last one what is unseen was
lost before (`PageTurned`). `WalkInv` says that the lost are no more than the
cancelled. While a scan is under way it speaks of what the scan would show (`Shown`),
and counts what the scan has in hand and is cancelled since: a scan that raises, or
whose page leads on, exchanges that list for the listing as it is by then, and loses
at most these.

### From the proxy to a token: AccessProofs

From `AccessAssumption`: `Invariance`, `AcceptedOnceUnlessRacedHolds`,
`CallersAreVerifiedHolds`, for any clients, any way of cleaning their names, and any number of
concurrent requests. The invariant says that two verifications of one key that are
both past the look have raced (`RaceInv`), and that whoever is about to record a step
of an unraced key records a newer one (`NewerInv`): together with the fact that the
newest accepted step is on record, a step recorded for an unraced key has not been
recorded before.

### The web client: ClientProofs

`Invariance`, `SignedOutIsCleanHolds`, `NoBlankPageHolds`, for any number of requests
under way. What only a signed-in user sends is marked stale by the time nobody is
signed in (`StaleInv`), so that its reply cannot be acted on without `late`; a renewal
is due only while somebody is signed in (`TimerInv`).

### The registry and certification: CertificationProofs

From `RegistryAssumption` and `SeedAssumption`, with the hypothesis `~Database` (with
the database `UrlsNameOneThing` is false: finding 7): `Invariance`,
`RegistryTypeCorrect`, `UrlsNameOneThingHolds`, `RevivedOnlyInARaceHolds`. The argument
counts: an id counter is the number of resources seeded plus the number of threads
that have allocated (`CountInv`), which also bounds it by `MaxId`; ids above it belong
to nobody (`StoreInv`); a thread about to insert holds an id that is nobody's and no
other thread's (`JobInv`, `DistinctInv`). So an insertion never changes the maker of a
URL that has one, and a reference that led to its resource goes on doing so
(`FaithfulStays`).

Under the same hypothesis `CertificationInvariance`, `CertificationTypeCorrect`,
`CertificateIsEarnedHolds`, `CertificatesNameOneThing`, for any number of vector sets
and of certify requests at a time. `GateInv` says for each step of a handler which
sets it has seen passing and not withdrawn; `CheckedInv` that what it looked up is
still behind the URL it found it at, or is gone.

### Only model-checked

Every safety invariant and every action property of the passing runs is a theorem, and
so are both refinements. Liveness (`GenerationEnds`, `EverySubmissionSettles`,
`RequestsFinish`, `GenerationEndsUnlessRestarted`, `EveryCallEnds`, `WalksEnd`,
`RenewalSettles`, `RequestsEnd`) stays with TLC, as does all that is said of an
instance with more than one client where a serial one is assumed: there the properties
are false, and the violation runs show it.

## Not modelled

- The step pages of the web client: forms, and the polling of the vectors, results
  and certify pages, which the requests of `VectorSet` and `Registry` stand for.
- Tokens, their lifetimes and signatures: functions of one request, without state. So a restart
  without a database, after which old tokens meet new sessions of the same numbers, is
  a hazard without a property.
- Schema validation (`models/registration.py` and the pydantic models) and
  `to_nist_registration`: stateless, covered by unit tests. `Sessions` takes a
  registration to be accepted or not.
- The clauses of the start-up check about TLS files and the JWT secret, CORS, the
  application's wiring; the fixture provider; `check_registration` and
  `workers/tasks.py`, which nothing calls.
- Of the database: connections, failures of a transaction, schema creation.
- A vendor's addresses and contacts, and the fields of a resource that are no
  references.
- Cryptographic primitives, build and deployment files.

## Plan

What is left to prove: that what a serial client may rely on (`StatusInv`,
`InstallInv`) holds of more, of any clients, as long as no two of their requests that
write are under way at once.
