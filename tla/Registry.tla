------------------------------ MODULE Registry ------------------------------
(***************************************************************************)
(* The metadata collections (vendors, modules, ...), the requests that     *)
(* report what became of creates and updates, and the background thread    *)
(* behind each request.  A handler checks its references and registers a   *)
(* request in one step: between that and the thread's writes everything    *)
(* else may happen, so nothing is lost by not splitting the handler.       *)
(*                                                                         *)
(* Database chooses the store: DbStore takes a metadata id to be one more  *)
(* than the largest stored and inserts it in a later statement; the        *)
(* in-memory Store counts, per collection.                                 *)
(***************************************************************************)
EXTENDS Naturals

CONSTANTS
    Kinds,          \* the metadata collections
    Targets,        \* Targets[k]: the collections that resources of k refer to
    Required,       \* collections whose resources must refer to something
    Seeded,         \* Seeded[k]: how many resources the seed puts there
    Database,       \* DATABASE_URL is set
    MaxRequests,    \* bound on the requests that are accepted
    MaxId,          \* bound on ids
    Absent          \* no resource

Rids == 1 .. MaxRequests
Ids == 1 .. MaxId
Collections == Kinds \union {"validations"}
Urls == Collections \X Ids

\* Who made a resource: a request, the seed of a fresh server, or nobody yet.
Seed == 0
Nobody == MaxRequests + 1
Makers == {Seed, Nobody} \union Rids

ASSUME RegistryAssumption ==
    /\ MaxRequests \in Nat
    /\ MaxId \in Nat /\ MaxRequests <= MaxId
    /\ "validations" \notin Kinds
    /\ Targets \in [Kinds -> SUBSET Kinds]
    /\ Required \subseteq Kinds
    /\ Seeded \in [Kinds -> Nat]
    /\ \A k \in Kinds : Seeded[k] + MaxRequests <= MaxId
    /\ Database \in BOOLEAN

\* The seed has a vendor for the modules that it seeds.
ASSUME SeedAssumption ==
    \A k \in Kinds : Seeded[k] > 0 /\ "vendors" \in Targets[k]
                       => "vendors" \in Kinds /\ Seeded["vendors"] > 0

\* The code knows a resource by its URL only.  What is behind the URL when it is
\* used is recorded beside it, as the request that made the resource.
Things == [url : Urls, maker : Makers]

VARIABLES
    stored,         \* what is at each URL: the things it refers to, or Absent
    maker,          \* history: who made the resource at each URL, last
    written,        \* history: whose resource the last write there was for
    issued,         \* the counter of each collection
    requests,       \* what GET /requests/{id} says
    job,            \* what the thread of each request does next, and with what
    raced           \* history: threads whose resource went between check and store

regVars == <<stored, maker, written, issued, requests, job, raced>>

Exists(u) == stored[u] # Absent

Nowhere == <<"nowhere", 0>>
NoRequest == [status |-> "none", location |-> Nowhere]
NoJob == [op |-> "none", kind |-> "none", id |-> 0, maker |-> Nobody,
          refs |-> {}, step |-> "none"]

\* seed_demo_metadata: modules of the first vendor, and the rest by themselves.
SeedRefs(k) == {[url |-> <<t, 1>>, maker |-> Seed] : t \in Targets[k] \intersect {"vendors"}}

IsSeed(u) == u[1] \in Kinds /\ u[2] <= Seeded[u[1]]

Init ==
    /\ stored = [u \in Urls |-> IF IsSeed(u) THEN SeedRefs(u[1]) ELSE Absent]
    /\ maker = [u \in Urls |-> IF IsSeed(u) THEN Seed ELSE Nobody]
    /\ written = maker
    /\ issued = [k \in Collections |-> IF k \in Kinds THEN Seeded[k] ELSE 0]
    /\ requests = [r \in Rids |-> NoRequest]
    /\ job = [r \in Rids |-> NoJob]
    /\ raced = {}

-----------------------------------------------------------------------------
(* Handlers.                                                               *)

Thing(u) == [url |-> u, maker |-> maker[u]]

\* The references a client may send and have accepted: each must exist.
Resolvable(k) == {Thing(u) : u \in {w \in Urls : w[1] \in Targets[k] /\ Exists(w)}}

\* submit(): the next request id, "processing", and a thread to work on it.
Submit(work) ==
    \E r \in Rids :
       /\ requests[r].status = "none"
       /\ \A q \in Rids : requests[q].status = "none" => r <= q
       /\ requests' = [requests EXCEPT ![r].status = "processing"]
       /\ job' = [job EXCEPT ![r] = work]

Create(k) ==
    /\ \E refs \in SUBSET Resolvable(k) :
          /\ k \in Required => refs # {}
          /\ Submit([op |-> "create", kind |-> k, id |-> 0, maker |-> Nobody,
                     refs |-> refs, step |-> "allocate"])
    /\ UNCHANGED <<stored, maker, written, issued, raced>>

Update(u) ==
    /\ Exists(u)
    /\ \E refs \in SUBSET Resolvable(u[1]) :
          /\ u[1] \in Required => refs # {}
          /\ Submit([op |-> "update", kind |-> u[1], id |-> u[2],
                     maker |-> maker[u], refs |-> refs, step |-> "replace"])
    /\ UNCHANGED <<stored, maker, written, issued, raced>>

\* Where a thread works.
UrlOf(r) == <<job[r].kind, job[r].id>>

Delete(u) ==
    /\ Exists(u)
    /\ stored' = [stored EXCEPT ![u] = Absent]
    /\ raced' = raced \union {r \in Rids : job[r].step = "write" /\ UrlOf(r) = u}
    /\ UNCHANGED <<maker, written, issued, requests, job>>

-----------------------------------------------------------------------------
(* Threads.                                                                *)

GoesTo(r, s) == job' = [job EXCEPT ![r].step = s]

\* One more than the largest id there is.
AfterLargest(k) ==
    CHOOSE i \in Ids : /\ \A j \in Ids : Exists(<<k, j>>) => j < i
                       /\ i = 1 \/ Exists(<<k, i - 1>>)

\* DbStore's metadata ids are not a sequence; its validations' are.
Counted(k) == ~Database \/ k = "validations"

\* Ids taken from what is stored in either store, and ids that start after the
\* seeded resources although the counter has counted those.
NewIdLargest(k) == AfterLargest(k)
NewIdAfterSeed(k) == Seeded[k] + issued[k] + 1

NewId(k) == IF Counted(k) THEN issued[k] + 1 ELSE AfterLargest(k)

Allocate(r) ==
    /\ job[r].step = "allocate"
    /\ job' = [job EXCEPT ![r].id = NewId(job[r].kind), ![r].maker = r,
                         ![r].step = "insert"]
    /\ issued' = [issued EXCEPT ![job[r].kind] = @ + 1]
    /\ UNCHANGED <<stored, maker, written, requests>>

Recorded(r) ==
    /\ stored' = [stored EXCEPT ![UrlOf(r)] = job[r].refs]
    /\ maker' = [maker EXCEPT ![UrlOf(r)] = r]
    /\ written' = [written EXCEPT ![UrlOf(r)] = r]

\* add_metadata, once it has an id.  In the database the primary key may be
\* taken: the thread dies of it.
InsertMetadata(r) ==
    IF Exists(UrlOf(r)) /\ ~Counted(job[r].kind)
      THEN GoesTo(r, "dead") /\ UNCHANGED <<stored, maker, written>>
      ELSE GoesTo(r, "replace") /\ Recorded(r)

\* add_validation: a certificate is recorded as it is.
InsertValidation(r) == GoesTo(r, "complete") /\ Recorded(r)

Insert(r) ==
    /\ job[r].step = "insert"
    /\ IF job[r].kind = "validations" THEN InsertValidation(r) ELSE InsertMetadata(r)
    /\ UNCHANGED <<issued, requests>>

\* replace_metadata without its check.
ReplaceCheckNot(r) ==
    /\ job[r].step = "replace"
    /\ GoesTo(r, "write")
    /\ UNCHANGED <<stored, maker, written, issued, requests>>

\* A thread that gives up when replace_metadata returns False.
ReplaceCheckOrDie(r) ==
    /\ job[r].step = "replace"
    /\ GoesTo(r, IF Exists(UrlOf(r)) THEN "write" ELSE "dead")
    /\ UNCHANGED <<stored, maker, written, issued, requests>>

\* replace_metadata looks for the resource, with no lock.  If it is gone nothing
\* is stored, and the thread goes on all the same.
ReplaceCheck(r) ==
    /\ job[r].step = "replace"
    /\ GoesTo(r, IF Exists(UrlOf(r)) THEN "write" ELSE "complete")
    /\ UNCHANGED <<stored, maker, written, issued, requests>>

\* It stores the object.  The dictionary takes it even if the resource has gone
\* meanwhile; the database has no row to update then, of which the thread dies
\* unless the object is the one that it read.
ReplaceStore(r) ==
    /\ job[r].step = "write"
    /\ IF Exists(UrlOf(r)) \/ ~Database
         THEN /\ stored' = [stored EXCEPT ![UrlOf(r)] = job[r].refs]
              /\ written' = [written EXCEPT ![UrlOf(r)] = job[r].maker]
              /\ GoesTo(r, "complete")
         ELSE /\ \E s \in {"complete", "dead"} : GoesTo(r, s)
              /\ UNCHANGED <<stored, written>>
    /\ UNCHANGED <<maker, issued, requests>>

Complete(r) ==
    /\ job[r].step = "complete"
    /\ requests' = [requests EXCEPT ![r] = [status |-> "approved", location |-> UrlOf(r)]]
    /\ GoesTo(r, "done")
    /\ UNCHANGED <<stored, maker, written, issued>>

Work(r) == /\ \/ Allocate(r) \/ Insert(r) \/ ReplaceCheck(r) \/ ReplaceStore(r)
              \/ Complete(r)
           /\ raced' = raced \ {r}

\* What GET /requests/{r} says of the request.
RequestObject(r) ==
    IF requests[r].location = Nowhere
      THEN [status |-> requests[r].status]
      ELSE [status |-> requests[r].status, approvedUrl |-> requests[r].location]

Next == \/ \E k \in Kinds : Create(k)
        \/ \E u \in Urls : u[1] \in Kinds /\ (Update(u) \/ Delete(u))
        \/ \E r \in Rids : Work(r)

Spec == Init /\ [][Next]_regVars
FairSpec == Spec /\ \A r \in Rids : WF_regVars(Work(r))

-----------------------------------------------------------------------------
Jobs == [op : {"none", "create", "update", "certify"},
         kind : Collections \union {"none"},
         id : Ids \union {0},
         maker : Makers,
         refs : SUBSET Things,
         step : {"none", "allocate", "insert", "replace", "write", "complete",
                 "done", "dead"}]

\* The types of the collections, the requests and the threads.
RegistryTypeOK ==
    /\ stored \in [Urls -> {Absent} \union SUBSET Things]
    /\ maker \in [Urls -> Makers]
    /\ written \in [Urls -> Makers]
    /\ issued \in [Collections -> Nat]
    /\ requests \in [Rids -> [status : {"none", "processing", "approved"},
                              location : Urls \union {Nowhere}]]
    /\ job \in [Rids -> Jobs]
    /\ raced \subseteq Rids

\* Whoever holds a URL means the resource that is there: a reference that
\* resolves leads to the resource that was referred to, a thread's write goes
\* to the resource its request was about, and the URL of an approved creation
\* is the resource it created.
UrlsNameOneThing ==
    /\ \A u \in Urls : Exists(u) =>
          /\ written[u] = maker[u]
          /\ \A ref \in stored[u] : maker[ref.url] = ref.maker
    /\ \A r \in Rids :
          requests[r].status = "approved" /\ job[r].op # "update"
             => maker[requests[r].location] = r

\* A deletion is undone by nothing but the store of an update that had found the
\* resource before it went: neither by an id given out again nor by an update
\* whose thread comes to look later.
RevivedOnlyInARace ==
    [][\A u \in Urls : maker[u] # Nobody /\ ~Exists(u) /\ Exists(u)' =>
          \E r \in raced : UrlOf(r) = u]_regVars

\* A client that polls an accepted request sees it decided and is told the URL.
RequestsEnd == \A r \in Rids : RequestObject(r).status = "processing"
                                  ~> "approvedUrl" \in DOMAIN RequestObject(r)
=============================================================================
