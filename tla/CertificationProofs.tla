-------------------------- MODULE CertificationProofs --------------------------
(***************************************************************************)
(* Proofs about Registry and Certification with the in-memory store, for   *)
(* any collections, vector sets, requests to the registry and certify      *)
(* requests at a time.  First the registry by itself: what certification   *)
(* reuses of it, with handlers of its own on the same registry, is stated  *)
(* for handlers in general.                                                *)
(***************************************************************************)
EXTENDS Certification, FiniteSetTheorems, TLAPS

\* References that lead to what they were meant to.
Faithful(refs) == \A ref \in refs : ref.maker # Nobody /\ maker[ref.url] = ref.maker

\* Threads that have been given a new id.
Allocated(k) == {r \in Rids : /\ job[r].kind = k
                              /\ job[r].op # "update"
                              /\ job[r].step \notin {"none", "allocate"}}

SeededOf(k) == IF k \in Kinds THEN Seeded[k] ELSE 0

\* A counter counts the seeded resources and the ids given out.
CountInv == \A k \in Collections : issued[k] = SeededOf(k) + Cardinality(Allocated(k))

\* Ids beyond the counter are unused; what is stored was put there for the
\* resource it belongs to.
StoreInv == \A u \in Urls :
    /\ maker[u] # Nobody => u[2] <= issued[u[1]]
    /\ Exists(u) => maker[u] # Nobody /\ written[u] = maker[u] /\ Faithful(stored[u])

\* A thread holds an id that nobody has used, or that of a resource that was there
\* and which nobody can take over.
JobOK(r) ==
    /\ job[r].step # "none" => job[r].op # "none" /\ job[r].kind \in Collections
    /\ Faithful(job[r].refs)
    /\ job[r].step = "allocate" => job[r].op # "update"
    /\ job[r].step = "insert" =>
          /\ UrlOf(r) \in Urls /\ maker[UrlOf(r)] = Nobody
          /\ job[r].id <= issued[job[r].kind] /\ job[r].maker = r
    /\ job[r].step \in {"replace", "write", "complete", "done"} =>
          /\ UrlOf(r) \in Urls
          /\ job[r].maker # Nobody /\ maker[UrlOf(r)] = job[r].maker
          /\ job[r].op # "update" => job[r].maker = r

JobInv == \A r \in Rids : JobOK(r)

\* No two threads are about to insert at one URL.
DistinctInv == \A q, r \in Rids :
    q # r /\ job[q].step = "insert" /\ job[r].step = "insert" => UrlOf(q) # UrlOf(r)

\* A request is approved by its thread, and has none before it is accepted.
RequestInv == \A r \in Rids :
    /\ requests[r].status = "none" => job[r].step = "none"
    /\ requests[r].status = "approved" =>
          job[r].step = "done" /\ requests[r].location = UrlOf(r)

IInv == /\ RegistryTypeOK
        /\ CountInv /\ StoreInv /\ JobInv /\ DistinctInv /\ RequestInv

-----------------------------------------------------------------------------
LEMMA Things1 == ASSUME NEW t \in Things PROVE t.url \in Urls /\ t.maker \in Makers
BY DEF Things

LEMMA Urls1 ==
    ASSUME NEW u \in Urls
    PROVE  u[1] \in Collections /\ u[2] \in Ids /\ u[2] \in Nat /\ u = <<u[1], u[2]>>
BY RegistryAssumption DEF Urls, Ids

LEMMA RidsAreNatural == ASSUME NEW r \in Rids PROVE r \in Nat /\ r # Nobody /\ r \in Makers
BY RegistryAssumption DEF Rids, Nobody, Makers

\* References go on leading where they led as long as no URL changes its maker.
LEMMA FaithfulStays ==
    ASSUME NEW refs \in SUBSET Things, Faithful(refs),
           \A u \in Urls : maker[u] # Nobody => maker'[u] = maker[u]
    PROVE  Faithful(refs)'
<1>1. \A ref \in refs : ref.url \in Urls
  BY Things1
<1>2. QED
  BY <1>1 DEF Faithful

\* The threads that hold ids are finitely many.
LEMMA AllocatedFinite ==
    ASSUME NEW k
    PROVE  /\ IsFiniteSet(Allocated(k)) /\ Cardinality(Allocated(k)) \in Nat
           /\ Cardinality(Allocated(k)) <= MaxRequests
<1>1. IsFiniteSet(Rids) /\ Cardinality(Rids) = MaxRequests
  <2>1. IsFiniteSet(1 .. MaxRequests) /\ Cardinality(1 .. MaxRequests)
           = IF 1 > MaxRequests THEN 0 ELSE MaxRequests - 1 + 1
    BY RegistryAssumption, FS_Interval
  <2>2. QED
    BY <2>1, RegistryAssumption DEF Rids
<1>2. Allocated(k) \subseteq Rids
  BY DEF Allocated
<1>3. QED
  BY <1>1, <1>2, FS_Subset, FS_CardinalityType

-----------------------------------------------------------------------------
\* The seeded registry.
LEMMA InitIInv == Init => IInv
<1> SUFFICES ASSUME Init PROVE IInv
  OBVIOUS
<1>1. \A u \in Urls : maker[u] = IF IsSeed(u) THEN Seed ELSE Nobody
  BY DEF Init
<1>2. Seed # Nobody /\ Seed \in Makers /\ Nobody \in Makers
  BY RegistryAssumption DEF Seed, Nobody, Makers
<1>3. ASSUME NEW k \in Kinds, Seeded[k] > 0
      PROVE  SeedRefs(k) \in SUBSET Things /\ Faithful(SeedRefs(k))
  <2> SUFFICES ASSUME NEW ref \in SeedRefs(k)
               PROVE  ref \in Things /\ ref.maker # Nobody /\ maker[ref.url] = ref.maker
    BY DEF Faithful
  <2>1. PICK t \in Targets[k] \intersect {"vendors"} : ref = [url |-> <<t, 1>>, maker |-> Seed]
    BY DEF SeedRefs
  <2>2. t = "vendors" /\ t \in Kinds /\ Seeded[t] \in Nat /\ Seeded[t] > 0 /\ MaxId >= Seeded[t]
    BY <1>3, <2>1, SeedAssumption, RegistryAssumption
  <2>3. <<t, 1>> \in Urls /\ IsSeed(<<t, 1>>)
    BY <2>2, RegistryAssumption DEF Urls, Collections, Ids, IsSeed
  <2>4. QED
    BY <1>1, <1>2, <2>1, <2>3 DEF Things
<1>4. ASSUME NEW u \in Urls, IsSeed(u)
      PROVE  stored[u] \in SUBSET Things /\ Faithful(stored[u])
  <2>1. u[1] \in Kinds /\ Seeded[u[1]] > 0
    BY <1>4, Urls1, RegistryAssumption DEF IsSeed, Ids
  <2>2. stored[u] = SeedRefs(u[1])
    BY <1>4 DEF Init
  <2>3. QED
    BY <1>3, <2>1, <2>2
<1>5. RegistryTypeOK
  <2>1. stored \in [Urls -> {Absent} \union SUBSET Things]
    <3>1. ASSUME NEW u \in Urls PROVE stored[u] \in {Absent} \union SUBSET Things
      <4>1. CASE IsSeed(u)
        BY <1>4, <4>1
      <4>2. CASE ~IsSeed(u)
        BY <4>2 DEF Init
      <4>3. QED
        BY <4>1, <4>2
    <3>2. stored = [u \in Urls |-> stored[u]]
      BY DEF Init
    <3>3. QED
      BY <3>1, <3>2
  <2>2. maker \in [Urls -> Makers] /\ written \in [Urls -> Makers]
    BY <1>2 DEF Init
  <2>3. issued \in [Collections -> Nat]
    BY RegistryAssumption DEF Init, Collections
  <2>4. NoRequest \in [status : {"none", "processing", "approved"},
                      location : Urls \union {Nowhere}]
    BY DEF NoRequest
  <2>5. NoJob \in Jobs
    BY <1>2 DEF NoJob, Jobs
  <2>6. QED
    BY <2>1, <2>2, <2>3, <2>4, <2>5 DEF Init, RegistryTypeOK
<1>6. \A r \in Rids : /\ job[r].step = "none" /\ job[r].refs = {}
                      /\ requests[r].status = "none"
  BY DEF Init, NoJob, NoRequest
<1>7. CountInv
  <2>1. \A k \in Collections : Allocated(k) = {}
    BY <1>6 DEF Allocated
  <2>2. \A k \in Collections : issued[k] = SeededOf(k) /\ SeededOf(k) \in Nat
    BY RegistryAssumption DEF Init, SeededOf
  <2>3. QED
    BY <2>1, <2>2, FS_EmptySet DEF CountInv
<1>8. StoreInv
  <2> SUFFICES ASSUME NEW u \in Urls
               PROVE  /\ maker[u] # Nobody => u[2] <= issued[u[1]]
                      /\ Exists(u) => /\ maker[u] # Nobody /\ written[u] = maker[u]
                                      /\ Faithful(stored[u])
    BY DEF StoreInv
  <2>1. CASE IsSeed(u)
    <3>1. u[2] <= issued[u[1]]
      BY <2>1, Urls1 DEF Init, IsSeed
    <3>2. QED
      BY <1>1, <1>2, <1>4, <2>1, <3>1 DEF Init
  <2>2. CASE ~IsSeed(u)
    BY <1>1, <2>2 DEF Init, Exists
  <2>3. QED
    BY <2>1, <2>2
<1>9. JobInv
  BY <1>6 DEF JobInv, JobOK, Faithful
<1>10. DistinctInv /\ RequestInv
  BY <1>6 DEF DistinctInv, RequestInv
<1>11. QED
  BY <1>5, <1>7, <1>8, <1>9, <1>10 DEF IInv

-----------------------------------------------------------------------------
\* What a handler may ask for: references that were looked up, and an existing
\* resource to update.
Proper(work) ==
    /\ work \in Jobs /\ work.op # "none" /\ work.kind \in Collections
    /\ Faithful(work.refs)
    /\ \/ work.step = "allocate" /\ work.op # "update"
       \/ /\ work.step = "replace" /\ work.op = "update"
          /\ <<work.kind, work.id>> \in Urls
          /\ work.maker # Nobody /\ maker[<<work.kind, work.id>>] = work.maker

\* A request is accepted.
LEMMA SubmitIInv ==
    ASSUME IInv, NEW work, Proper(work), Submit(work),
           UNCHANGED <<stored, maker, written, issued, raced>>
    PROVE  IInv'
<1> USE DEF IInv
<1>1. PICK r \in Rids : /\ requests[r].status = "none"
                        /\ requests' = [requests EXCEPT ![r].status = "processing"]
                        /\ job' = [job EXCEPT ![r] = work]
  BY DEF Submit
<1>2. /\ job'[r] = work
      /\ \A q \in Rids : q # r => job'[q] = job[q]
      /\ requests'[r].status = "processing"
      /\ \A q \in Rids : q # r => requests'[q] = requests[q]
  BY <1>1 DEF RegistryTypeOK
<1>3. job[r].step = "none"
  BY <1>1 DEF RequestInv
<1>4. RegistryTypeOK'
  <2>1. job' \in [Rids -> Jobs]
    BY <1>1 DEF RegistryTypeOK, Proper
  <2>2. [requests[r] EXCEPT !.status = "processing"]
           \in [status : {"none", "processing", "approved"}, location : Urls \union {Nowhere}]
    BY DEF RegistryTypeOK
  <2>3. requests' \in [Rids -> [status : {"none", "processing", "approved"},
                               location : Urls \union {Nowhere}]]
    BY <1>1, <2>2 DEF RegistryTypeOK
  <2>4. QED
    BY <2>1, <2>3 DEF RegistryTypeOK
<1>5. CountInv'
  <2>1. \A k : Allocated(k)' = Allocated(k)
    BY <1>2, <1>3 DEF Allocated, Proper
  <2>2. QED
    BY <2>1 DEF CountInv
<1>6. StoreInv'
  BY DEF StoreInv, Faithful, Exists
<1>7. JobInv'
  <2>1. \A q \in Rids : q # r => UrlOf(q)' = UrlOf(q)
    BY <1>2 DEF UrlOf
  <2>2. UrlOf(r)' = <<work.kind, work.id>>
    BY <1>2 DEF UrlOf
  <2>3. \A refs : Faithful(refs)' <=> Faithful(refs)
    BY DEF Faithful
  <2>4. QED
    BY <1>2, <2>1, <2>2, <2>3 DEF JobInv, JobOK, Proper
<1>8. DistinctInv'
  BY <1>2 DEF DistinctInv, UrlOf, Proper
<1>9. RequestInv'
  BY <1>2 DEF RequestInv, UrlOf
<1>10. QED
  BY <1>4, <1>5, <1>6, <1>7, <1>8, <1>9

\* What is looked up is proper to ask for.
LEMMA Looked ==
    ASSUME IInv, NEW u \in Urls, Exists(u)
    PROVE  Thing(u) \in Things /\ Thing(u).maker # Nobody /\ maker[u] = Thing(u).maker
BY DEF IInv, RegistryTypeOK, StoreInv, Thing, Things

LEMMA ResolvableFaithful ==
    ASSUME IInv, NEW k, NEW refs \in SUBSET Resolvable(k)
    PROVE  refs \in SUBSET Things /\ Faithful(refs)
<1>1. ASSUME NEW ref \in refs
      PROVE  ref \in Things /\ ref.maker # Nobody /\ maker[ref.url] = ref.maker
  <2>1. PICK u \in Urls : Exists(u) /\ ref = Thing(u)
    BY DEF Resolvable
  <2>2. QED
    BY <2>1, Looked DEF Thing
<1>2. QED
  BY <1>1 DEF Faithful

LEMMA CreateIInv == ASSUME IInv, NEW k \in Kinds, Create(k) PROVE IInv'
<1>1. PICK refs \in SUBSET Resolvable(k) :
         Submit([op |-> "create", kind |-> k, id |-> 0, maker |-> Nobody,
                 refs |-> refs, step |-> "allocate"])
  BY DEF Create
<1> DEFINE work == [op |-> "create", kind |-> k, id |-> 0, maker |-> Nobody,
                    refs |-> refs, step |-> "allocate"]
<1>2. refs \in SUBSET Things /\ Faithful(refs)
  BY ResolvableFaithful
<1>3. Proper(work)
  BY <1>2 DEF Proper, Jobs, Collections, Makers
<1>4. QED
  BY <1>1, <1>3, SubmitIInv DEF Create

LEMMA UpdateIInv == ASSUME IInv, NEW u \in Urls, Update(u) PROVE IInv'
<1>1. PICK refs \in SUBSET Resolvable(u[1]) :
         Submit([op |-> "update", kind |-> u[1], id |-> u[2], maker |-> maker[u],
                 refs |-> refs, step |-> "replace"])
  BY DEF Update
<1> DEFINE work == [op |-> "update", kind |-> u[1], id |-> u[2], maker |-> maker[u],
                    refs |-> refs, step |-> "replace"]
<1>2. refs \in SUBSET Things /\ Faithful(refs)
  BY ResolvableFaithful
<1>3. maker[u] \in Makers /\ maker[u] # Nobody
  BY DEF Update, IInv, RegistryTypeOK, StoreInv
<1>4. Proper(work)
  BY <1>2, <1>3, Urls1 DEF Proper, Jobs
<1>5. QED
  BY <1>1, <1>4, SubmitIInv DEF Update

LEMMA DeleteIInv == ASSUME IInv, NEW u \in Urls, Delete(u) PROVE IInv'
<1> USE DEF IInv
<1>1. /\ stored' = [stored EXCEPT ![u] = Absent]
      /\ raced' \subseteq Rids
      /\ UNCHANGED <<maker, written, issued, requests, job>>
  BY DEF Delete, RegistryTypeOK
<1>2. RegistryTypeOK'
  <2>1. stored' \in [Urls -> {Absent} \union SUBSET Things]
    BY <1>1 DEF RegistryTypeOK
  <2>2. QED
    BY <1>1, <2>1 DEF RegistryTypeOK
<1>3. CountInv' /\ DistinctInv' /\ RequestInv'
  BY <1>1 DEF CountInv, Allocated, DistinctInv, RequestInv, UrlOf
<1>4. StoreInv'
  <2>1. \A w \in Urls : Exists(w)' => Exists(w) /\ stored'[w] = stored[w]
    BY <1>1 DEF Exists, RegistryTypeOK
  <2>2. QED
    BY <1>1, <2>1 DEF StoreInv, Faithful
<1>5. JobInv'
  BY <1>1 DEF JobInv, JobOK, Faithful, UrlOf
<1>6. QED
  BY <1>2, <1>3, <1>4, <1>5

-----------------------------------------------------------------------------
(* Threads, with the in-memory store.                                      *)

\* A thread that only goes on.
Moves(r, here, there) ==
    /\ job[r].step \in here
    /\ job' = [job EXCEPT ![r].step = there]

LEMMA Moved ==
    ASSUME IInv, NEW r \in Rids, NEW here, NEW there, Moves(r, here, there),
           there \in {"none", "allocate", "insert", "replace", "write", "complete",
                      "done", "dead"}
    PROVE  /\ job' \in [Rids -> Jobs]
           /\ job'[r] = [job[r] EXCEPT !.step = there]
           /\ job'[r].step = there /\ job'[r].op = job[r].op /\ job'[r].refs = job[r].refs
           /\ job'[r].maker = job[r].maker /\ job'[r].id = job[r].id
           /\ job'[r].kind = job[r].kind
           /\ \A q \in Rids : q # r => job'[q] = job[q]
           /\ \A q \in Rids : UrlOf(q)' = UrlOf(q)
<1>1. job[r] \in Jobs /\ job'[r] = [job[r] EXCEPT !.step = there]
      /\ \A q \in Rids : q # r => job'[q] = job[q]
  BY DEF Moves, IInv, RegistryTypeOK
<1>2. job'[r] \in Jobs
      /\ job'[r].step = there /\ job'[r].op = job[r].op /\ job'[r].refs = job[r].refs
      /\ job'[r].maker = job[r].maker /\ job'[r].id = job[r].id
      /\ job'[r].kind = job[r].kind
  BY <1>1 DEF Jobs
<1>3. job' \in [Rids -> Jobs]
  BY <1>1, <1>2 DEF Moves, IInv, RegistryTypeOK
<1>4. \A q \in Rids : UrlOf(q)' = UrlOf(q)
  BY <1>1, <1>2 DEF UrlOf
<1>5. QED
  BY <1>1, <1>2, <1>3, <1>4

\* Once a thread has its id, the threads that have one stay the same.
LEMMA CountStays ==
    ASSUME IInv, NEW r \in Rids, NEW here, NEW there, Moves(r, here, there),
           here \subseteq {"insert", "replace", "write", "complete"},
           there \in {"replace", "write", "complete", "done", "dead"}, issued' = issued
    PROVE  CountInv'
<1>1. \A k : Allocated(k)' = Allocated(k)
  BY Moved DEF Allocated, Moves
<1>2. QED
  BY <1>1 DEF CountInv, IInv

LEMMA AllocateIInv ==
    ASSUME IInv, ~Database, NEW r \in Rids, Allocate(r), raced' = raced \ {r}
    PROVE  IInv'
<1> USE DEF IInv
<1>0. PICK k, id : k = job[r].kind /\ id = issued[k] + 1
  OBVIOUS
<1>1. /\ job[r].step = "allocate"
      /\ job' = [job EXCEPT ![r].id = id, ![r].maker = r, ![r].step = "insert"]
      /\ issued' = [issued EXCEPT ![k] = @ + 1]
      /\ UNCHANGED <<stored, maker, written, requests>>
  BY <1>0 DEF Allocate, NewId, Counted
<1>2. k \in Collections /\ job[r].op # "update" /\ job[r] \in Jobs /\ issued[k] \in Nat
  BY <1>0, <1>1 DEF JobInv, JobOK, RegistryTypeOK
<1>3. /\ job'[r] = [job[r] EXCEPT !.id = id, !.maker = r, !.step = "insert"]
      /\ \A q \in Rids : q # r => job'[q] = job[q]
  BY <1>1 DEF RegistryTypeOK
<1>4. /\ job'[r].step = "insert" /\ job'[r].op = job[r].op /\ job'[r].refs = job[r].refs
      /\ job'[r].maker = r /\ job'[r].id = id /\ job'[r].kind = k
  BY <1>0, <1>2, <1>3 DEF Jobs
<1>5. /\ issued'[k] = id /\ issued' \in [Collections -> Nat]
      /\ \A c \in Collections : c # k => issued'[c] = issued[c]
  BY <1>0, <1>1, <1>2 DEF RegistryTypeOK
<1>6. CountInv' /\ id \in Ids
  <2>1. Allocated(k)' = Allocated(k) \union {r} /\ r \notin Allocated(k)
    BY <1>0, <1>1, <1>2, <1>3, <1>4 DEF Allocated
  <2>2. \A c : c # k => Allocated(c)' = Allocated(c)
    BY <1>0, <1>1, <1>3, <1>4 DEF Allocated
  <2>3. /\ Cardinality(Allocated(k)') = Cardinality(Allocated(k)) + 1
        /\ Cardinality(Allocated(k)) \in Nat
    BY <2>1, AllocatedFinite, FS_AddElement
  <2>4. issued[k] = SeededOf(k) + Cardinality(Allocated(k))
    BY <1>2 DEF CountInv
  <2>5. SeededOf(k) \in Nat /\ SeededOf(k) + MaxRequests <= MaxId
    BY RegistryAssumption DEF SeededOf
  <2>6. id = SeededOf(k) + Cardinality(Allocated(k)')
    BY <1>0, <2>3, <2>4, <2>5
  <2>7. Cardinality(Allocated(k)') <= MaxRequests
    <3>1. IsFiniteSet(Rids) /\ Cardinality(Rids) = MaxRequests
      <4>1. IsFiniteSet(1 .. MaxRequests) /\ Cardinality(1 .. MaxRequests)
               = IF 1 > MaxRequests THEN 0 ELSE MaxRequests - 1 + 1
        BY RegistryAssumption, FS_Interval
      <4>2. QED
        BY <4>1, RegistryAssumption DEF Rids
    <3>2. Allocated(k)' \subseteq Rids
      BY DEF Allocated
    <3>3. QED
      BY <3>1, <3>2, FS_Subset
  <2>8. id \in Ids
    BY <1>2, <2>3, <2>5, <2>6, <2>7, RegistryAssumption, <1>0 DEF Ids
  <2>9. CountInv'
    <3> SUFFICES ASSUME NEW c \in Collections
                 PROVE  issued'[c] = SeededOf(c) + Cardinality(Allocated(c)')
      BY DEF CountInv, SeededOf
    <3>1. CASE c = k
      BY <1>5, <2>6, <3>1
    <3>2. CASE c # k
      BY <1>5, <2>2, <3>2 DEF CountInv
    <3>3. QED
      BY <3>1, <3>2
  <2>10. QED
    BY <2>8, <2>9
<1>7. RegistryTypeOK'
  <2>1. job'[r] \in Jobs
    BY <1>2, <1>3, <1>6, RidsAreNatural DEF Jobs
  <2>2. job' \in [Rids -> Jobs]
    BY <1>1, <1>3, <2>1 DEF RegistryTypeOK
  <2>3. QED
    BY <1>1, <1>5, <2>2 DEF RegistryTypeOK
<1>8. <<k, id>> \in Urls /\ UrlOf(r)' = <<k, id>>
      /\ \A q \in Rids : q # r => UrlOf(q)' = UrlOf(q)
  BY <1>2, <1>3, <1>4, <1>6 DEF Urls, UrlOf
<1>9. maker[<<k, id>>] = Nobody
  <2>1. ~(id <= issued[k])
    BY <1>0, <1>2
  <2>2. QED
    BY <1>8, <2>1 DEF StoreInv
<1>10. \A c \in Collections : \A n \in Nat : n <= issued[c] => n <= issued'[c]
  BY <1>0, <1>2, <1>5 DEF RegistryTypeOK
<1>11. StoreInv'
  BY <1>1, <1>10, Urls1 DEF StoreInv, Exists, Faithful
<1>12. JobInv'
  <2>1. \A refs : Faithful(refs)' <=> Faithful(refs)
    BY <1>1 DEF Faithful
  <2>2. JobOK(r)'
    <3>1. Faithful(job[r].refs)'
      BY <1>4, <2>1 DEF JobInv, JobOK
    <3>2. maker'[UrlOf(r)'] = Nobody /\ UrlOf(r)' \in Urls
      BY <1>1, <1>8, <1>9
    <3>3. job'[r].id <= issued'[job'[r].kind]
      BY <1>0, <1>2, <1>4, <1>5
    <3>4. job'[r].op # "none"
      BY <1>1, <1>4 DEF JobInv, JobOK
    <3>5. QED
      BY <1>2, <1>4, <3>1, <3>2, <3>3, <3>4 DEF JobOK
  <2>3. ASSUME NEW q \in Rids, q # r PROVE JobOK(q)'
    <3>1. job'[q] = job[q] /\ UrlOf(q)' = UrlOf(q) /\ maker' = maker
      BY <1>1, <1>3, <1>8, <2>3
    <3>2. job[q].step = "insert" => job[q].id <= issued'[job[q].kind]
      <4> SUFFICES ASSUME job[q].step = "insert" PROVE job[q].id <= issued'[job[q].kind]
        OBVIOUS
      <4>1. <<job[q].kind, job[q].id>> \in Urls /\ job[q].id <= issued[job[q].kind]
        BY DEF JobInv, JobOK, UrlOf
      <4>2. QED
        BY <1>10, <4>1, RegistryAssumption DEF Urls, Ids
    <3>3. QED
      BY <2>1, <3>1, <3>2 DEF JobInv, JobOK
  <2>4. QED
    BY <2>2, <2>3 DEF JobInv
<1>13. DistinctInv'
  <2>1. ASSUME NEW q \in Rids, q # r, job[q].step = "insert" PROVE UrlOf(q) # <<k, id>>
    <3>1. job[q].id <= issued[job[q].kind]
      BY <2>1 DEF JobInv, JobOK
    <3>2. QED
      BY <1>0, <1>2, <3>1 DEF UrlOf
  <2>2. QED
    BY <1>3, <1>8, <2>1 DEF DistinctInv
<1>14. RequestInv'
  BY <1>1, <1>3, <1>8 DEF RequestInv
<1>15. QED
  BY <1>6, <1>7, <1>11, <1>12, <1>13, <1>14

LEMMA InsertIInv ==
    ASSUME IInv, ~Database, NEW r \in Rids, Insert(r), raced' = raced \ {r}
    PROVE  IInv'
<1> USE DEF IInv
<1>0. PICK u, there : /\ u = UrlOf(r)
                      /\ there = IF job[r].kind = "validations" THEN "complete"
                                                                ELSE "replace"
  OBVIOUS
<1>1. /\ job[r].step = "insert"
      /\ stored' = [stored EXCEPT ![u] = job[r].refs]
      /\ maker' = [maker EXCEPT ![u] = r]
      /\ written' = [written EXCEPT ![u] = r]
      /\ job' = [job EXCEPT ![r].step = there]
      /\ UNCHANGED <<issued, requests>>
  BY <1>0 DEF Insert, InsertMetadata, InsertValidation, Recorded, Counted, GoesTo
<1>2. there \in {"complete", "replace"}
  BY <1>0
<1>3. /\ u \in Urls /\ maker[u] = Nobody /\ job[r].maker = r
      /\ u[2] <= issued[u[1]]
      /\ Faithful(job[r].refs) /\ job[r].refs \in SUBSET Things
      /\ job[r].op # "none" /\ job[r].kind \in Collections
  BY <1>0, <1>1 DEF JobInv, JobOK, RegistryTypeOK, Jobs, UrlOf
<1>4. /\ maker' \in [Urls -> Makers] /\ maker'[u] = r /\ r # Nobody
      /\ \A w \in Urls : w # u => maker'[w] = maker[w]
      /\ written' \in [Urls -> Makers] /\ written'[u] = r
      /\ \A w \in Urls : w # u => written'[w] = written[w]
      /\ stored'[u] = job[r].refs
      /\ \A w \in Urls : w # u => stored'[w] = stored[w]
  BY <1>1, <1>3, RidsAreNatural DEF RegistryTypeOK
<1>5. \A w \in Urls : maker[w] # Nobody => maker'[w] = maker[w]
  BY <1>3, <1>4
<1>6. Moves(r, {"insert"}, there)
  BY <1>1 DEF Moves
<1>7. /\ job' \in [Rids -> Jobs]
      /\ job'[r].step = there /\ job'[r].op = job[r].op /\ job'[r].refs = job[r].refs
      /\ job'[r].maker = r /\ job'[r].kind = job[r].kind
      /\ \A q \in Rids : q # r => job'[q] = job[q]
      /\ \A q \in Rids : UrlOf(q)' = UrlOf(q)
  <2>1. /\ job' \in [Rids -> Jobs]
        /\ job'[r] = [job[r] EXCEPT !.step = there]
        /\ job'[r].step = there /\ job'[r].op = job[r].op /\ job'[r].refs = job[r].refs
        /\ job'[r].maker = job[r].maker /\ job'[r].id = job[r].id
        /\ job'[r].kind = job[r].kind
        /\ \A q \in Rids : q # r => job'[q] = job[q]
        /\ \A q \in Rids : UrlOf(q)' = UrlOf(q)
    BY <1>2, <1>6, Moved
  <2>2. QED
    BY <1>3, <2>1
<1>8. RegistryTypeOK'
  <2>1. stored' \in [Urls -> {Absent} \union SUBSET Things]
    BY <1>1, <1>3 DEF RegistryTypeOK
  <2>2. QED
    BY <1>1, <1>4, <1>7, <2>1 DEF RegistryTypeOK
<1>9. CountInv'
  BY <1>1, <1>2, <1>6, CountStays
<1>10. StoreInv'
  <2> SUFFICES ASSUME NEW w \in Urls
               PROVE  /\ maker'[w] # Nobody => w[2] <= issued'[w[1]]
                      /\ Exists(w)' => /\ maker'[w] # Nobody /\ written'[w] = maker'[w]
                                       /\ Faithful(stored[w])'
    BY DEF StoreInv
  <2>1. CASE w = u
    <3>1. Faithful(job[r].refs)'
      <4>1. PICK refs \in SUBSET Things : refs = job[r].refs
        BY <1>3
      <4>2. Faithful(refs)'
        BY <1>3, <1>5, <4>1, FaithfulStays
      <4>3. QED
        BY <1>7, <4>1, <4>2
    <3>2. \A ref \in stored'[w] : ref.maker # Nobody /\ maker'[ref.url] = ref.maker
      BY <1>4, <1>7, <2>1, <3>1 DEF Faithful
    <3>3. QED
      BY <1>1, <1>3, <1>4, <2>1, <3>2 DEF Faithful
  <2>2. CASE w # u
    <3>1. stored'[w] = stored[w] /\ maker'[w] = maker[w] /\ written'[w] = written[w]
      BY <1>4, <2>2
    <3>2. CASE Exists(w)
      <4>1. PICK refs \in SUBSET Things : refs = stored[w]
        BY <3>2 DEF RegistryTypeOK, Exists
      <4>2. Faithful(refs)'
        BY <1>5, <3>2, <4>1, FaithfulStays DEF StoreInv
      <4>3. QED
        BY <1>1, <3>1, <3>2, <4>1, <4>2 DEF StoreInv, Faithful
    <3>3. CASE ~Exists(w)
      BY <1>1, <3>1, <3>3 DEF StoreInv, Exists
    <3>4. QED
      BY <3>2, <3>3
  <2>3. QED
    BY <2>1, <2>2
<1>11. JobInv'
  <2>1. ASSUME NEW q \in Rids PROVE Faithful(job[q].refs)'
    <3>1. job'[q].refs = job[q].refs
      BY <1>7
    <3>2. PICK refs \in SUBSET Things : refs = job[q].refs
      BY DEF RegistryTypeOK, Jobs
    <3>3. Faithful(refs)'
      BY <1>5, <3>2, FaithfulStays DEF JobInv, JobOK
    <3>4. QED
      BY <3>1, <3>2, <3>3 DEF Faithful
  <2>2. JobOK(r)'
    <3>1. UrlOf(r)' = u
      BY <1>0, <1>7
    <3>2. QED
      BY <1>2, <1>3, <1>4, <1>7, <2>1, <3>1 DEF JobOK
  <2>3. ASSUME NEW q \in Rids, q # r PROVE JobOK(q)'
    <3>1. JobOK(q) /\ job'[q] = job[q] /\ UrlOf(q)' = UrlOf(q) /\ issued' = issued
      BY <1>1, <1>7, <2>3 DEF JobInv
    <3>2. job[q].step = "insert" => maker'[UrlOf(q)] = Nobody
      BY <1>0, <1>1, <1>3, <1>4, <2>3, <3>1 DEF JobOK, DistinctInv
    <3>3. job[q].step \in {"replace", "write", "complete", "done"} => maker'[UrlOf(q)] = job[q].maker
      BY <1>5, <3>1 DEF JobOK
    <3>4. QED
      BY <2>1, <3>1, <3>2, <3>3 DEF JobOK
  <2>4. QED
    BY <2>2, <2>3 DEF JobInv
<1>12. DistinctInv'
  BY <1>2, <1>7 DEF DistinctInv
<1>13. RequestInv'
  BY <1>1, <1>7 DEF RequestInv
<1>14. QED
  BY <1>8, <1>9, <1>10, <1>11, <1>12, <1>13

\* A thread that found a resource, and stores there what it was given or nothing.
LEMMA ReplaceIInv ==
    ASSUME IInv, NEW r \in Rids, NEW here, NEW there, Moves(r, {here}, there),
           here \in {"replace", "write"}, there \in {"write", "complete"},
           \/ /\ stored' = [stored EXCEPT ![UrlOf(r)] = job[r].refs]
              /\ written' = [written EXCEPT ![UrlOf(r)] = job[r].maker]
           \/ UNCHANGED <<stored, written>>,
           UNCHANGED <<maker, issued, requests>>, raced' = raced \ {r}
    PROVE  IInv'
<1> USE DEF IInv
<1>0. PICK u : u = UrlOf(r)
  OBVIOUS
<1>1. /\ job[r].step \in {"replace", "write"}
      /\ job' = [job EXCEPT ![r].step = there]
      /\ UNCHANGED <<maker, issued, requests>>
  BY DEF Moves
<1>2. /\ u \in Urls /\ job[r].maker # Nobody /\ maker[u] = job[r].maker
      /\ Faithful(job[r].refs) /\ job[r].refs \in SUBSET Things
      /\ job[r].op # "none" /\ job[r].kind \in Collections
  BY <1>0, <1>1 DEF JobInv, JobOK, RegistryTypeOK, Jobs
<1>4. /\ job' \in [Rids -> Jobs]
      /\ job'[r].step = there /\ job'[r].op = job[r].op /\ job'[r].refs = job[r].refs
      /\ job'[r].maker = job[r].maker /\ job'[r].kind = job[r].kind
      /\ \A q \in Rids : q # r => job'[q] = job[q]
      /\ \A q \in Rids : UrlOf(q)' = UrlOf(q)
  <2>1. /\ job' \in [Rids -> Jobs]
        /\ job'[r] = [job[r] EXCEPT !.step = there]
        /\ job'[r].step = there /\ job'[r].op = job[r].op /\ job'[r].refs = job[r].refs
        /\ job'[r].maker = job[r].maker /\ job'[r].id = job[r].id
        /\ job'[r].kind = job[r].kind
        /\ \A q \in Rids : q # r => job'[q] = job[q]
        /\ \A q \in Rids : UrlOf(q)' = UrlOf(q)
    BY Moved
  <2>2. QED
    BY <2>1
<1>5. \/ /\ stored' = [stored EXCEPT ![u] = job[r].refs]
         /\ written' = [written EXCEPT ![u] = job[r].maker]
      \/ UNCHANGED <<stored, written>>
  BY <1>0
<1>6. /\ \A w \in Urls : \/ stored'[w] = stored[w] /\ written'[w] = written[w]
                        \/ /\ stored'[w] = job[r].refs
                           /\ maker[w] # Nobody /\ written'[w] = maker[w]
      /\ stored' \in [Urls -> {Absent} \union SUBSET Things]
      /\ written' \in [Urls -> Makers]
  <2>1. CASE UNCHANGED <<stored, written>>
    BY <2>1 DEF RegistryTypeOK
  <2>2. CASE /\ stored' = [stored EXCEPT ![u] = job[r].refs]
             /\ written' = [written EXCEPT ![u] = job[r].maker]
    <3>1. job[r].maker \in Makers
      BY DEF RegistryTypeOK, Jobs
    <3>2. QED
      BY <1>2, <2>2, <3>1 DEF RegistryTypeOK
  <2>3. QED
    BY <1>5, <2>1, <2>2
<1>7. RegistryTypeOK'
  BY <1>1, <1>4, <1>6 DEF RegistryTypeOK
<1>8. CountInv'
  BY <1>1, CountStays
<1>9. \A refs : Faithful(refs)' <=> Faithful(refs)
  BY <1>1 DEF Faithful
<1>10. StoreInv'
  <2> SUFFICES ASSUME NEW w \in Urls
               PROVE  /\ maker'[w] # Nobody => w[2] <= issued'[w[1]]
                      /\ Exists(w)' => /\ maker'[w] # Nobody /\ written'[w] = maker'[w]
                                       /\ Faithful(stored[w])'
    BY DEF StoreInv
  <2>1. maker'[w] # Nobody => w[2] <= issued'[w[1]]
    BY <1>1 DEF StoreInv
  <2>2. CASE stored'[w] = stored[w] /\ written'[w] = written[w]
    BY <1>1, <2>1, <2>2 DEF StoreInv, Faithful, Exists
  <2>3. CASE stored'[w] = job[r].refs /\ maker[w] # Nobody /\ written'[w] = maker[w]
    BY <1>1, <1>2, <2>1, <2>3 DEF Faithful
  <2>4. QED
    BY <1>6, <2>2, <2>3
<1>11. JobInv'
  <2>1. ASSUME NEW q \in Rids PROVE JobOK(q)'
    <3>1. JobOK(q) /\ UrlOf(q)' = UrlOf(q)
      BY <1>4 DEF JobInv
    <3>2. CASE q = r
      BY <1>0, <1>1, <1>2, <1>4, <3>1, <3>2 DEF JobOK, Faithful
    <3>3. CASE q # r
      <4>1. job'[q] = job[q]
        BY <1>4, <3>3
      <4>2. QED
        BY <1>1, <3>1, <4>1 DEF JobOK, Faithful
    <3>4. QED
      BY <3>2, <3>3
  <2>2. QED
    BY <2>1 DEF JobInv
<1>12. DistinctInv' /\ RequestInv'
  BY <1>1, <1>4 DEF DistinctInv, RequestInv
<1>13. QED
  BY <1>7, <1>8, <1>10, <1>11, <1>12

LEMMA ReplaceCheckIInv ==
    ASSUME IInv, NEW r \in Rids, ReplaceCheck(r), raced' = raced \ {r}
    PROVE  IInv'
<1>1. PICK there \in {"write", "complete"} : job' = [job EXCEPT ![r].step = there]
  BY DEF ReplaceCheck, GoesTo
<1>2. Moves(r, {"replace"}, there) /\ UNCHANGED <<stored, maker, written, issued, requests>>
  BY <1>1 DEF ReplaceCheck, Moves
<1>3. QED
  BY <1>2, ReplaceIInv

LEMMA ReplaceStoreIInv ==
    ASSUME IInv, ~Database, NEW r \in Rids, ReplaceStore(r), raced' = raced \ {r}
    PROVE  IInv'
<1>1. Moves(r, {"write"}, "complete")
  BY DEF ReplaceStore, GoesTo, Moves
<1>2. /\ stored' = [stored EXCEPT ![UrlOf(r)] = job[r].refs]
      /\ written' = [written EXCEPT ![UrlOf(r)] = job[r].maker]
      /\ UNCHANGED <<maker, issued, requests>>
  BY DEF ReplaceStore
<1>3. QED
  BY <1>1, <1>2, ReplaceIInv

LEMMA CompleteIInv ==
    ASSUME IInv, NEW r \in Rids, Complete(r), raced' = raced \ {r}
    PROVE  IInv'
<1> USE DEF IInv
<1>1. /\ job[r].step = "complete"
      /\ requests' = [requests EXCEPT ![r] = [status |-> "approved", location |-> UrlOf(r)]]
      /\ job' = [job EXCEPT ![r].step = "done"]
      /\ UNCHANGED <<stored, maker, written, issued>>
  BY DEF Complete, GoesTo
<1>2. JobOK(r) /\ UrlOf(r) \in Urls
  BY <1>1 DEF JobInv, JobOK
<1>3. Moves(r, {"complete"}, "done")
  BY <1>1 DEF Moves
<1>4. /\ job' \in [Rids -> Jobs]
      /\ job'[r].step = "done" /\ job'[r].op = job[r].op /\ job'[r].refs = job[r].refs
      /\ job'[r].maker = job[r].maker /\ job'[r].kind = job[r].kind
      /\ \A q \in Rids : q # r => job'[q] = job[q]
      /\ \A q \in Rids : UrlOf(q)' = UrlOf(q)
  <2>1. /\ job' \in [Rids -> Jobs]
        /\ job'[r] = [job[r] EXCEPT !.step = "done"]
        /\ job'[r].step = "done" /\ job'[r].op = job[r].op /\ job'[r].refs = job[r].refs
        /\ job'[r].maker = job[r].maker /\ job'[r].id = job[r].id
        /\ job'[r].kind = job[r].kind
        /\ \A q \in Rids : q # r => job'[q] = job[q]
        /\ \A q \in Rids : UrlOf(q)' = UrlOf(q)
    BY <1>3, Moved
  <2>2. QED
    BY <2>1
<1>5. RegistryTypeOK'
  <2>1. requests' \in [Rids -> [status : {"none", "processing", "approved"},
                               location : Urls \union {Nowhere}]]
    BY <1>1, <1>2 DEF RegistryTypeOK
  <2>2. QED
    BY <1>1, <1>4, <2>1 DEF RegistryTypeOK
<1>6. CountInv'
  BY <1>1, <1>3, CountStays
<1>7. StoreInv'
  BY <1>1 DEF StoreInv, Exists, Faithful
<1>8. JobInv'
  <2>1. ASSUME NEW q \in Rids PROVE JobOK(q)'
    <3>1. JobOK(q) /\ UrlOf(q)' = UrlOf(q)
      BY <1>4 DEF JobInv
    <3>2. CASE q = r
      BY <1>1, <1>4, <3>1, <3>2 DEF JobOK, Faithful
    <3>3. CASE q # r
      <4>1. job'[q] = job[q]
        BY <1>4, <3>3
      <4>2. QED
        BY <1>1, <3>1, <4>1 DEF JobOK, Faithful
    <3>4. QED
      BY <3>2, <3>3
  <2>2. QED
    BY <2>1 DEF JobInv
<1>9. DistinctInv'
  BY <1>1, <1>4 DEF DistinctInv
<1>10. RequestInv'
  <2>1. \A q \in Rids : q # r => requests'[q] = requests[q]
    BY <1>1 DEF RegistryTypeOK
  <2>2. requests'[r] = [status |-> "approved", location |-> UrlOf(r)]
    BY <1>1 DEF RegistryTypeOK
  <2>3. QED
    BY <1>4, <2>1, <2>2 DEF RequestInv
<1>11. QED
  BY <1>5, <1>6, <1>7, <1>8, <1>9, <1>10

\* A thread keeps the invariant, whoever started it.
LEMMA WorkIInv == ASSUME IInv, ~Database, NEW r \in Rids, Work(r) PROVE IInv'
BY AllocateIInv, InsertIInv, ReplaceCheckIInv, ReplaceStoreIInv, CompleteIInv DEF Work

LEMMA StutterIInv == ASSUME IInv, UNCHANGED regVars PROVE IInv'
BY DEF regVars, IInv, RegistryTypeOK, CountInv, Allocated, StoreInv, Exists, Faithful,
       JobInv, JobOK, UrlOf, DistinctInv, RequestInv

\* Every step keeps the invariant.
LEMMA StepIInv == IInv /\ ~Database /\ [Next]_regVars => IInv'
<1> SUFFICES ASSUME IInv, ~Database, [Next]_regVars PROVE IInv'
  OBVIOUS
<1>1. CASE \E k \in Kinds : Create(k)
  BY <1>1, CreateIInv
<1>2. CASE \E u \in Urls : u[1] \in Kinds /\ (Update(u) \/ Delete(u))
  BY <1>2, UpdateIInv, DeleteIInv
<1>3. CASE \E r \in Rids : Work(r)
  BY <1>3, WorkIInv
<1>4. CASE UNCHANGED regVars
  BY <1>4, StutterIInv
<1>5. QED
  BY <1>1, <1>2, <1>3, <1>4 DEF Next

\* The invariant says that URLs name one thing.
LEMMA IInvNames == IInv => UrlsNameOneThing
<1> SUFFICES ASSUME IInv PROVE UrlsNameOneThing
  OBVIOUS
<1>1. ASSUME NEW u \in Urls, Exists(u)
      PROVE  written[u] = maker[u] /\ \A ref \in stored[u] : maker[ref.url] = ref.maker
  BY <1>1 DEF IInv, StoreInv, Faithful
<1>2. ASSUME NEW r \in Rids, requests[r].status = "approved", job[r].op # "update"
      PROVE  maker[requests[r].location] = r
  BY <1>2 DEF IInv, RequestInv, JobInv, JobOK
<1>3. QED
  BY <1>1, <1>2 DEF UrlsNameOneThing

-----------------------------------------------------------------------------
\* Every reachable state of the in-memory registry satisfies the inductive
\* invariant.
THEOREM Invariance == ASSUME ~Database PROVE Spec => []IInv
<1>1. IInv /\ [Next]_regVars => IInv'
  BY StepIInv
<1>2. QED
  BY <1>1, InitIInv, PTL DEF Spec

\* The collections, the requests and the threads keep their types: ids stay
\* within their bound, so that every URL is one of Urls.
THEOREM RegistryTypeCorrect == ASSUME ~Database PROVE Spec => []RegistryTypeOK
<1>1. IInv => RegistryTypeOK
  BY DEF IInv
<1>2. QED
  BY <1>1, Invariance, PTL

\* In memory a URL names one resource for ever: what refers to it, writes to it
\* or was told of it means the resource that is there.
THEOREM UrlsNameOneThingHolds == ASSUME ~Database PROVE Spec => []UrlsNameOneThing
<1>1. QED
  BY IInvNames, Invariance, PTL

\* No list of references reads as the absence of a resource.
AbsentIsNothing == Absent \notin SUBSET Things

\* A thread that is about to store where nothing is found it there before.
RacedInv == \A r \in Rids :
    job[r].step = "write" /\ ~Exists(UrlOf(r)) => r \in raced

\* A thread's step removes nothing, and it gets to its store only by finding the
\* resource.
LEMMA WorkRaced ==
    ASSUME AbsentIsNothing, IInv, ~Database, RacedInv, NEW r \in Rids, Work(r)
    PROVE  RacedInv'
<1> USE DEF IInv, RegistryTypeOK
<1>1. PICK here, there : Moves(r, {here}, there) \/ Allocate(r)
  BY DEF Work, Insert, InsertMetadata, InsertValidation, ReplaceCheck, ReplaceStore,
         Complete, GoesTo, Moves
<1>2. \A q \in Rids : q # r => job'[q] = job[q] /\ UrlOf(q)' = UrlOf(q)
  BY <1>1 DEF Moves, Allocate, UrlOf
<1>3. ASSUME NEW q \in Rids, Exists(UrlOf(q)), UrlOf(q) \in Urls
      PROVE  (stored[UrlOf(q)])' # Absent \/ q = r
  <2>1. job[r].refs # Absent
    BY DEF AbsentIsNothing, Jobs
  <2>2. QED
    BY <1>2, <1>3, <2>1
       DEF Work, Allocate, Insert, InsertMetadata, InsertValidation, Recorded,
           ReplaceCheck, ReplaceStore, Complete, Exists
<1>4. ASSUME job'[r].step = "write" PROVE Exists(UrlOf(r))'
  <2>1. ReplaceCheck(r) /\ Exists(UrlOf(r)) /\ job' = [job EXCEPT ![r].step = "write"]
    <3>1. ~Allocate(r) /\ ~Insert(r) /\ ~ReplaceStore(r) /\ ~Complete(r)
      BY <1>4 DEF Allocate, Insert, InsertMetadata, InsertValidation, ReplaceStore,
                  Complete, GoesTo, Jobs
    <3>2. QED
      BY <1>4, <3>1 DEF Work, ReplaceCheck, GoesTo, Jobs
  <2>2. stored' = stored /\ UrlOf(r)' = UrlOf(r)
    BY <2>1 DEF ReplaceCheck, UrlOf, Jobs
  <2>3. QED
    BY <2>1, <2>2 DEF Exists
<1>5. raced' = raced \ {r}
  BY DEF Work
<1>6. ASSUME NEW q \in Rids, job'[q].step = "write", ~Exists(UrlOf(q))' PROVE q \in raced'
  <2>1. q # r
    BY <1>4, <1>6
  <2>2. job[q].step = "write" /\ UrlOf(q) \in Urls
    BY <1>2, <1>6, <2>1 DEF JobInv, JobOK
  <2>3. ~Exists(UrlOf(q))
    BY <1>2, <1>3, <1>6, <2>1, <2>2 DEF Exists
  <2>4. QED
    BY <1>5, <2>1, <2>2, <2>3 DEF RacedInv
<1>7. QED
  BY <1>6 DEF RacedInv

\* So does every step: a deletion takes note of the threads it races with.
LEMMA StepRaced ==
    ASSUME AbsentIsNothing, ~Database
    PROVE  IInv /\ RacedInv /\ [Next]_regVars => RacedInv'
<1> SUFFICES ASSUME IInv, RacedInv, [Next]_regVars PROVE RacedInv'
  OBVIOUS
<1>1. ASSUME NEW work, work.step # "write", Submit(work), UNCHANGED <<stored, raced>>
      PROVE  RacedInv'
  BY <1>1 DEF Submit, RacedInv, UrlOf, Exists, IInv, RegistryTypeOK
<1>2. CASE \E k \in Kinds : Create(k)
  BY <1>1, <1>2 DEF Create
<1>3. CASE \E u \in Urls : Update(u)
  BY <1>1, <1>3 DEF Update
<1>4. CASE \E u \in Urls : Delete(u)
  <2>1. PICK u \in Urls : Delete(u)
    BY <1>4
  <2>2. QED
    BY <2>1 DEF Delete, RacedInv, UrlOf, Exists, IInv, RegistryTypeOK
<1>5. CASE \E r \in Rids : Work(r)
  BY <1>5, WorkRaced
<1>6. CASE UNCHANGED regVars
  BY <1>6 DEF regVars, RacedInv, UrlOf, Exists
<1>7. QED
  BY <1>2, <1>3, <1>4, <1>5, <1>6 DEF Next

\* In memory only an update that had found the resource before it was deleted
\* brings it back: no id is given out twice, and a thread that comes later finds
\* nothing.
THEOREM RevivedOnlyInARaceHolds ==
    ASSUME ~Database, AbsentIsNothing
    PROVE  Spec => RevivedOnlyInARace
<1>1. ASSUME IInv, RacedInv, [Next]_regVars, NEW u \in Urls,
             maker[u] # Nobody, ~Exists(u), Exists(u)'
      PROVE  \E r \in raced : UrlOf(r) = u
  <2>1. ~UNCHANGED stored
    BY <1>1 DEF Exists
  <2>2. ASSUME NEW w \in Urls PROVE ~Delete(w)
    BY <1>1 DEF Delete, Exists, IInv, RegistryTypeOK
  <2>3. PICK r \in Rids : Work(r)
    BY <1>1, <2>1, <2>2 DEF Next, Create, Update, regVars
  <2>4. ~Insert(r)
    <3> SUFFICES ASSUME Insert(r) PROVE FALSE
      OBVIOUS
    <3>1. maker[UrlOf(r)] = Nobody
      BY <1>1 DEF Insert, IInv, JobInv, JobOK
    <3>2. QED
      BY <1>1, <3>1 DEF Insert, InsertMetadata, InsertValidation, Recorded, Exists,
                        IInv, RegistryTypeOK
  <2>5. ReplaceStore(r)
    BY <2>1, <2>3, <2>4 DEF Work, Allocate, ReplaceCheck, Complete
  <2>6. UrlOf(r) = u
    BY <1>1, <2>5 DEF ReplaceStore, Exists, IInv, RegistryTypeOK
  <2>7. QED
    BY <1>1, <2>5, <2>6 DEF ReplaceStore, RacedInv
<1>2. IInv /\ RacedInv /\ [Next]_regVars
         => [\A u \in Urls : maker[u] # Nobody /\ ~Exists(u) /\ Exists(u)' =>
                \E r \in raced : UrlOf(r) = u]_regVars
  BY <1>1
<1>3. Init => RacedInv
  BY DEF Init, RacedInv, NoJob
<1>4. Spec => []RacedInv
  BY <1>3, StepRaced, Invariance, PTL DEF Spec
<1>5. QED
  BY <1>2, <1>4, Invariance, PTL DEF Spec, RevivedOnlyInARace

-----------------------------------------------------------------------------
(* Certification.                                                          *)

\* Every set from the first to the one before v.
Before(v) == 1 .. v - 1

Decided == {"cancelled again", "passed again", "is_sample", "moduleUrl", "oeUrl", "submit"}

\* How far a certify request has come says what it has seen.
GateOK(h) ==
    /\ pc[h] = "idle" => at[h] = 1
    /\ pc[h] = "cancelled" => Before(at[h]) \subseteq witness[h].kept
    /\ pc[h] = "passed" => /\ Sets \subseteq witness[h].kept
                           /\ Before(at[h]) \subseteq witness[h].earned
    /\ pc[h] \in Decided => /\ NumSets > 0
                            /\ Sets \subseteq witness[h].kept
                            /\ Sets \subseteq witness[h].earned
    /\ pc[h] \in {"moduleUrl", "oeUrl", "submit"} => ~isSample

GateInv == \A h \in Handlers : GateOK(h)

\* The resources that a request found are those that are there.
CheckedInv == \A h \in Handlers : Faithful(checked[h])

CertInv == /\ IInv /\ CertificationTypeOK /\ GateInv /\ CheckedInv
           /\ CertificateIsEarned

-----------------------------------------------------------------------------
\* No step of the registry gives a URL another maker.
LEMMA MakersStay ==
    ASSUME IInv, ~Database, [Next]_regVars, NEW u \in Urls, maker[u] # Nobody
    PROVE  maker'[u] = maker[u]
<1>1. CASE UNCHANGED maker
  BY <1>1
<1>2. ASSUME NEW r \in Rids, Insert(r) PROVE maker'[u] = maker[u]
  <2>1. /\ job[r].step = "insert" /\ maker' = [maker EXCEPT ![UrlOf(r)] = r]
    BY <1>2 DEF Insert, InsertMetadata, InsertValidation, Recorded, Counted
  <2>2. maker[UrlOf(r)] = Nobody
    BY <2>1 DEF IInv, JobInv, JobOK
  <2>3. QED
    BY <2>1, <2>2 DEF IInv, RegistryTypeOK
<1>3. CASE \E r \in Rids : Work(r)
  BY <1>1, <1>2, <1>3 DEF Work, Allocate, ReplaceCheck, ReplaceStore, Complete
<1>4. QED
  BY <1>1, <1>3 DEF Next, Create, Update, Delete, regVars

\* What a request was accepted for is not changed by the steps of the registry,
\* and it accepts no certify request.
LEMMA CertifyingStays ==
    ASSUME IInv, [Next]_regVars, NEW r \in Rids, (job[r].op = "certify")'
    PROVE  job[r].op = "certify"
<1>1. CASE UNCHANGED job
  BY <1>1
<1>2. ASSUME NEW q \in Rids, Work(q) PROVE job'[r].op = job[r].op
  <2>1. job[q] \in Jobs /\ job[r] \in Jobs /\ job \in [Rids -> Jobs]
    BY DEF IInv, RegistryTypeOK
  <2>2. CASE Allocate(q)
    <3>1. job' = [job EXCEPT ![q].id = NewId(job[q].kind), ![q].maker = q, ![q].step = "insert"]
      BY <2>2 DEF Allocate
    <3>2. QED
      BY <2>1, <3>1 DEF Jobs
  <2>3. CASE \E s : job' = [job EXCEPT ![q].step = s]
    BY <2>1, <2>3 DEF Jobs
  <2>4. QED
    BY <1>2, <2>2, <2>3 DEF Work, Insert, InsertMetadata, InsertValidation, ReplaceCheck,
              ReplaceStore, Complete, GoesTo
<1>3. ASSUME NEW work, Submit(work), work.op # "certify" PROVE job[r].op = "certify"
  BY <1>3 DEF Submit, IInv, RegistryTypeOK
<1>4. CASE \E k \in Kinds : Create(k)
  BY <1>3, <1>4 DEF Create
<1>5. CASE \E u \in Urls : Update(u)
  BY <1>3, <1>5 DEF Update
<1>6. CASE \E u \in Urls : Delete(u)
  BY <1>1, <1>6 DEF Delete
<1>7. QED
  BY <1>1, <1>2, <1>4, <1>5, <1>6 DEF Next, regVars

-----------------------------------------------------------------------------
\* A session that nobody has asked to certify.
LEMMA InitCertInv == InitCertification => CertInv
<1> SUFFICES ASSUME InitCertification PROVE CertInv
  OBVIOUS
<1>1. IInv
  BY InitIInv DEF InitCertification
<1>2. Unseen \in Witnesses /\ NoBody \in Bodies /\ "idle" \in Steps
  BY DEF Unseen, Witnesses, NoBody, Bodies, Steps
<1>3. CertificationTypeOK
  BY <1>1, <1>2 DEF InitCertification, CertificationTypeOK, IInv
<1>4. GateInv
  BY DEF InitCertification, GateInv, GateOK, Decided
<1>5. CheckedInv
  BY DEF InitCertification, CheckedInv, Faithful
<1>6. CertificateIsEarned
  BY DEF InitCertification, Init, CertificateIsEarned, Certifying, NoJob
<1>7. QED
  BY <1>1, <1>3, <1>4, <1>5, <1>6 DEF CertInv

-----------------------------------------------------------------------------
(* The histories.                                                          *)

LEMMA SeeTyped ==
    ASSUME CertInv, NEW w \in Witnesses, passing' \in SUBSET Sets
    PROVE  /\ See(w) \in Witnesses
           /\ w.earned \subseteq See(w).earned /\ w.kept \subseteq See(w).kept
           /\ passing' \subseteq See(w).earned /\ Sets \ withdrawn' \subseteq See(w).kept
BY DEF See, Witnesses

\* A request remembers what it saw, and sees what holds after the step.
LEMMA Witnessed ==
    ASSUME CertInv, Observe, passing' \in SUBSET Sets
    PROVE  /\ witness' \in [Handlers -> Witnesses]
           /\ \A h \in Handlers : pc'[h] # "idle" =>
                 /\ passing' \subseteq witness'[h].earned
                 /\ Sets \ withdrawn' \subseteq witness'[h].kept
                 /\ pc[h] # "idle" => /\ witness[h].earned \subseteq witness'[h].earned
                                      /\ witness[h].kept \subseteq witness'[h].kept
<1>1. Unseen \in Witnesses /\ \A h \in Handlers : witness[h] \in Witnesses
  BY DEF Unseen, Witnesses, CertInv, CertificationTypeOK
<1>2. witness' = [h \in Handlers |->
                    IF pc'[h] = "idle" THEN Unseen
                    ELSE See(IF pc[h] = "idle" THEN Unseen ELSE witness[h])]
  BY DEF Observe
<1>3. \A h \in Handlers : witness'[h] \in Witnesses
  BY <1>1, <1>2, SeeTyped
<1>4. witness' \in [Handlers -> Witnesses]
  BY <1>2, <1>3
<1>5. ASSUME NEW h \in Handlers, pc'[h] # "idle"
      PROVE  /\ passing' \subseteq witness'[h].earned
             /\ Sets \ withdrawn' \subseteq witness'[h].kept
             /\ pc[h] # "idle" => /\ witness[h].earned \subseteq witness'[h].earned
                                  /\ witness[h].kept \subseteq witness'[h].kept
  <2>1. CASE pc[h] = "idle"
    BY <1>1, <1>2, <1>5, <2>1, SeeTyped
  <2>2. CASE pc[h] # "idle"
    BY <1>1, <1>2, <1>5, <2>2, SeeTyped
  <2>3. QED
    BY <2>1, <2>2
<1>6. QED
  BY <1>4, <1>5

\* The grounds of a request are what the request accepted with it had seen.
LEMMA Grounded ==
    ASSUME CertInv, Observe
    PROVE  /\ grounds' \in [Rids -> Witnesses]
           /\ \A r \in Rids : \/ ~(\E h \in Handlers : Accepts(h, r)) /\ grounds'[r] = grounds[r]
                              \/ \E h \in Handlers : pc[h] = "submit" /\ grounds'[r] = witness[h]
<1>1. grounds' = [r \in Rids |-> IF \E h \in Handlers : Accepts(h, r)
                                   THEN witness[CHOOSE h \in Handlers : Accepts(h, r)]
                                   ELSE grounds[r]]
  BY DEF Observe
<1>2. ASSUME NEW r \in Rids
      PROVE  /\ grounds'[r] \in Witnesses
             /\ \/ ~(\E h \in Handlers : Accepts(h, r)) /\ grounds'[r] = grounds[r]
                \/ \E h \in Handlers : pc[h] = "submit" /\ grounds'[r] = witness[h]
  <2>1. CASE \E h \in Handlers : Accepts(h, r)
    <3>1. PICK g \in Handlers : g = CHOOSE h \in Handlers : Accepts(h, r)
      BY <2>1
    <3>2. Accepts(g, r)
      BY <2>1, <3>1
    <3>3. grounds'[r] = witness[g]
      BY <1>1, <2>1, <3>1
    <3>4. QED
      BY <3>2, <3>3 DEF Accepts, CertInv, CertificationTypeOK
  <2>2. CASE ~(\E h \in Handlers : Accepts(h, r))
    BY <1>1, <2>2 DEF CertInv, CertificationTypeOK
  <2>3. QED
    BY <2>1, <2>2
<1>3. QED
  BY <1>1, <1>2

-----------------------------------------------------------------------------
(* The certify handler.                                                    *)

\* The other requests stay where they are.
OthersStay(h) == \A g \in Handlers \ {h} :
    pc'[g] = pc[g] /\ at'[g] = at[g] /\ body'[g] = body[g] /\ checked'[g] = checked[g]

HandlersTyped == /\ pc \in [Handlers -> Steps] /\ at \in [Handlers -> Sets \union {1}]
                 /\ body \in [Handlers -> Bodies]
                 /\ checked \in [Handlers -> SUBSET Things]

LEMMA GotoTyped ==
    ASSUME CertInv, NEW h \in Handlers, NEW here, NEW there \in Steps, Goto(h, here, there)
    PROVE  /\ pc[h] = here /\ pc' \in [Handlers -> Steps] /\ pc'[h] = there
           /\ \A g \in Handlers \ {h} : pc'[g] = pc[g]
BY DEF Goto, CertInv, CertificationTypeOK

LEMMA Replied ==
    ASSUME CertInv, NEW h \in Handlers, NEW here, Reply(h, here)
    PROVE  /\ pc[h] = here /\ pc'[h] = "idle" /\ at'[h] = 1 /\ checked'[h] = {}
           /\ HandlersTyped' /\ OthersStay(h)
<1>1. NoBody \in Bodies /\ "idle" \in Steps
  BY DEF NoBody, Bodies, Steps
<1>2. at' = [at EXCEPT ![h] = 1] /\ body' = [body EXCEPT ![h] = NoBody]
      /\ checked' = [checked EXCEPT ![h] = {}] /\ Goto(h, here, "idle")
  BY DEF Reply
<1>3. /\ pc[h] = here /\ pc' \in [Handlers -> Steps] /\ pc'[h] = "idle"
      /\ \A g \in Handlers \ {h} : pc'[g] = pc[g]
  BY <1>1, <1>2, GotoTyped
<1>4. at' \in [Handlers -> Sets \union {1}] /\ body' \in [Handlers -> Bodies]
      /\ checked' \in [Handlers -> SUBSET Things]
  BY <1>1, <1>2 DEF CertInv, CertificationTypeOK
<1>5. OthersStay(h) /\ at'[h] = 1 /\ checked'[h] = {}
  BY <1>2, <1>3 DEF OthersStay, CertInv, CertificationTypeOK
<1>6. QED
  BY <1>3, <1>4, <1>5 DEF HandlersTyped

LEMMA ScannedOn ==
    ASSUME CertInv, NEW h \in Handlers, NEW here \in Steps, NEW after \in Steps,
           ScanOn(h, here, after)
    PROVE  /\ pc[h] = here /\ checked' = checked
           /\ \/ at[h] < NumSets /\ pc'[h] = here /\ at'[h] = at[h] + 1
              \/ ~(at[h] < NumSets) /\ pc'[h] = after /\ at'[h] = 1
           /\ HandlersTyped' /\ OthersStay(h)
<1>1. body' = body /\ checked' = checked
  BY DEF ScanOn
<1>2. CASE at[h] < NumSets
  <2>1. Goto(h, here, here) /\ at' = [at EXCEPT ![h] = @ + 1]
    BY <1>2 DEF ScanOn
  <2>2. at[h] + 1 \in Sets
    BY <1>2, CertificationAssumption DEF Sets, CertInv, CertificationTypeOK
  <2>3. at' \in [Handlers -> Sets \union {1}] /\ at'[h] = at[h] + 1
        /\ \A g \in Handlers \ {h} : at'[g] = at[g]
    BY <2>1, <2>2 DEF CertInv, CertificationTypeOK
  <2>4. QED
    BY <1>1, <1>2, <2>1, <2>3, GotoTyped
       DEF HandlersTyped, OthersStay, CertInv, CertificationTypeOK
<1>3. CASE ~(at[h] < NumSets)
  <2>1. Goto(h, here, after) /\ at' = [at EXCEPT ![h] = 1]
    BY <1>3 DEF ScanOn
  <2>2. at' \in [Handlers -> Sets \union {1}] /\ at'[h] = 1
        /\ \A g \in Handlers \ {h} : at'[g] = at[g]
    BY <2>1 DEF CertInv, CertificationTypeOK
  <2>3. QED
    BY <1>1, <1>3, <2>1, <2>2, GotoTyped
       DEF HandlersTyped, OthersStay, CertInv, CertificationTypeOK
<1>4. QED
  BY <1>2, <1>3

\* One more set has been looked at, or all of them.
LEMMA OneMore ==
    ASSUME NEW v \in Sets \union {1}, NEW seen, Before(v) \subseteq seen,
           v \in Sets => v \in seen
    PROVE  /\ v < NumSets => Before(v + 1) \subseteq seen
           /\ ~(v < NumSets) => Sets \subseteq seen
BY CertificationAssumption DEF Sets, Before

\* Where a request stays, what it has seen goes on being seen.
LEMMA GateStays ==
    ASSUME CertInv, Observe, passing' \in SUBSET Sets, NEW h \in Handlers,
           pc'[h] = pc[h], at'[h] = at[h], isSample' = isSample
    PROVE  GateOK(h)'
<1>1. GateOK(h)
  BY DEF CertInv, GateInv
<1>2. pc[h] # "idle" => /\ witness[h].earned \subseteq witness'[h].earned
                        /\ witness[h].kept \subseteq witness'[h].kept
  BY Witnessed
<1>3. QED
  BY <1>1, <1>2 DEF GateOK, Before, Decided

\* The gate, step by step.
LEMMA GateStep ==
    ASSUME CertInv, Observe, NEW h \in Handlers, Gate(h), UNCHANGED <<regVars, sessionVars>>
    PROVE  /\ HandlersTyped' /\ OthersStay(h)
           /\ GateOK(h)' /\ Faithful(checked[h])'
<1>1. /\ isSample' = isSample /\ withdrawn' = withdrawn /\ passing' = passing
      /\ maker' = maker /\ passing \in SUBSET Sets
  BY DEF regVars, sessionVars, CertInv, CertificationTypeOK
<1>2. GateOK(h) /\ Faithful(checked[h]) /\ checked[h] \in SUBSET Things
      /\ at[h] \in Sets \union {1} /\ pc[h] \in Steps /\ body[h] \in Bodies
  BY DEF CertInv, GateInv, CheckedInv, CertificationTypeOK
<1>3. pc'[h] # "idle" => /\ passing \subseteq witness'[h].earned
                         /\ Sets \ withdrawn \subseteq witness'[h].kept
                         /\ pc[h] # "idle" => /\ witness[h].earned \subseteq witness'[h].earned
                                              /\ witness[h].kept \subseteq witness'[h].kept
  BY <1>1, Witnessed
<1>4. ASSUME NEW here, Reply(h, here)
      PROVE  /\ HandlersTyped' /\ OthersStay(h)
             /\ GateOK(h)' /\ Faithful(checked[h])'
  <2>1. pc'[h] = "idle" /\ at'[h] = 1 /\ checked'[h] = {} /\ HandlersTyped' /\ OthersStay(h)
    BY <1>4, Replied
  <2>2. QED
    BY <2>1 DEF GateOK, Decided, Faithful
<1>5. \A refs : Faithful(refs) => Faithful(refs)'
  BY <1>1 DEF Faithful
<1>6. ASSUME NEW here \in Steps, NEW after \in Steps, ScanOn(h, here, after)
      PROVE  /\ pc[h] = here
             /\ \/ at[h] < NumSets /\ pc'[h] = here /\ at'[h] = at[h] + 1
                \/ ~(at[h] < NumSets) /\ pc'[h] = after /\ at'[h] = 1
             /\ HandlersTyped' /\ OthersStay(h) /\ Faithful(checked[h])'
  <2>1. checked' = checked
    BY <1>6, ScannedOn
  <2>2. Faithful(checked[h])'
    BY <1>1, <1>2, <2>1 DEF Faithful
  <2>3. QED
    BY <1>6, <2>2, ScannedOn
<1>0. Before(1) = {} /\ (NumSets # 0 => NumSets > 0)
  BY CertificationAssumption DEF Before
<1>7. CASE CertifyLookup(h)
  <2>1. Goto(h, "idle", "cancelled") /\ at' = at /\ checked' = checked
    BY <1>7 DEF CertifyLookup
  <2>2. /\ pc' \in [Handlers -> Steps] /\ pc'[h] = "cancelled"
        /\ \A g \in Handlers \ {h} : pc'[g] = pc[g]
    BY <2>1, GotoTyped DEF Steps
  <2>3. PICK b \in Bodies : body' = [body EXCEPT ![h] = b]
    BY <1>7 DEF CertifyLookup, Named, Bodies
  <2>4. HandlersTyped' /\ OthersStay(h)
    BY <2>1, <2>2, <2>3 DEF HandlersTyped, OthersStay, CertInv, CertificationTypeOK
  <2>5. pc[h] = "idle" /\ at'[h] = 1 /\ checked'[h] = checked[h]
    BY <1>2, <2>1 DEF GateOK, Goto
  <2>6. GateOK(h)'
    BY <2>2, <2>5, <1>0 DEF GateOK, Before, Decided
  <2>7. QED
    BY <1>1, <1>2, <2>4, <2>5, <2>6 DEF Faithful
<1>8. ASSUME NEW here \in {"cancelled", "cancelled again"},
             NEW after \in {"passed", "passed again"},
             here = "cancelled" <=> after = "passed", ScanCancelled(h, here, after)
      PROVE  /\ HandlersTyped' /\ OthersStay(h)
             /\ GateOK(h)' /\ Faithful(checked[h])'
  <2>1. CASE at[h] \in withdrawn
    BY <1>4, <1>8, <2>1 DEF ScanCancelled
  <2>2. CASE at[h] \notin withdrawn
    <3>1. ScanOn(h, here, after) /\ here \in Steps /\ after \in Steps
      BY <1>8, <2>2 DEF ScanCancelled, Steps
    <3>2. /\ pc[h] = here /\ here # "idle" /\ pc'[h] # "idle"
          /\ \/ at[h] < NumSets /\ pc'[h] = here /\ at'[h] = at[h] + 1
             \/ ~(at[h] < NumSets) /\ pc'[h] = after /\ at'[h] = 1
          /\ HandlersTyped' /\ OthersStay(h) /\ Faithful(checked[h])'
      BY <1>6, <3>1
    <3>3. /\ witness[h].earned \subseteq witness'[h].earned
          /\ witness[h].kept \subseteq witness'[h].kept
          /\ at[h] \in Sets => at[h] \in witness'[h].kept
      BY <1>3, <2>2, <3>2
    <3>4. CASE here = "cancelled"
      <4>1. Before(at[h]) \subseteq witness'[h].kept
        BY <1>2, <3>2, <3>3, <3>4 DEF GateOK
      <4>2. /\ at[h] < NumSets => Before(at[h] + 1) \subseteq witness'[h].kept
            /\ ~(at[h] < NumSets) => Sets \subseteq witness'[h].kept
        BY <1>2, <3>3, <4>1, OneMore
      <4>3. GateOK(h)'
        <5>1. after = "passed"
          BY <1>8, <3>4
        <5>2. CASE at[h] < NumSets
          BY <3>2, <3>4, <4>2, <5>2 DEF GateOK, Decided, Before
        <5>3. CASE ~(at[h] < NumSets)
          <6>1. pc'[h] = "passed" /\ at'[h] = 1 /\ Sets \subseteq witness'[h].kept
            BY <3>2, <4>2, <5>1, <5>3
          <6>2. Before(at[h])' = {}
            BY <1>0, <6>1 DEF Before
          <6>3. QED
            BY <6>1, <6>2 DEF GateOK, Decided
        <5>4. QED
          BY <5>2, <5>3
      <4>4. QED
        BY <3>2, <4>3
    <3>5. CASE here = "cancelled again"
      <4>1. /\ NumSets > 0 /\ Sets \subseteq witness'[h].kept
            /\ Sets \subseteq witness'[h].earned
        BY <1>2, <3>2, <3>3, <3>5 DEF GateOK, Decided
      <4>2. pc'[h] \in {"cancelled again", "passed again"}
        BY <1>8, <3>2, <3>5
      <4>3. GateOK(h)'
        BY <4>1, <4>2 DEF GateOK, Decided
      <4>4. QED
        BY <3>2, <4>3
    <3>6. QED
      BY <1>8, <3>4, <3>5
  <2>3. QED
    BY <2>1, <2>2
<1>9. ASSUME NEW here \in {"passed", "passed again"},
             NEW after \in {"cancelled again", "is_sample"},
             here = "passed" <=> after = "cancelled again", ScanPassed(h, here, after)
      PROVE  /\ HandlersTyped' /\ OthersStay(h)
             /\ GateOK(h)' /\ Faithful(checked[h])'
  <2>1. CASE NumSets = 0 \/ at[h] \notin passing
    BY <1>4, <1>9, <2>1 DEF ScanPassed
  <2>2. CASE NumSets # 0 /\ at[h] \in passing
    <3>1. ScanOn(h, here, after) /\ here \in Steps /\ after \in Steps
      BY <1>9, <2>2 DEF ScanPassed, Steps
    <3>2. /\ pc[h] = here /\ here # "idle" /\ pc'[h] # "idle"
          /\ \/ at[h] < NumSets /\ pc'[h] = here /\ at'[h] = at[h] + 1
             \/ ~(at[h] < NumSets) /\ pc'[h] = after /\ at'[h] = 1
          /\ HandlersTyped' /\ OthersStay(h) /\ Faithful(checked[h])'
      BY <1>6, <3>1
    <3>3. /\ witness[h].earned \subseteq witness'[h].earned
          /\ witness[h].kept \subseteq witness'[h].kept
          /\ at[h] \in witness'[h].earned
      BY <1>3, <2>2, <3>2
    <3>4. NumSets > 0
      BY <2>2, <1>0
    <3>5. CASE here = "passed"
      <4>1. Before(at[h]) \subseteq witness'[h].earned /\ Sets \subseteq witness'[h].kept
        BY <1>2, <3>2, <3>3, <3>5 DEF GateOK
      <4>2. /\ at[h] < NumSets => Before(at[h] + 1) \subseteq witness'[h].earned
            /\ ~(at[h] < NumSets) => Sets \subseteq witness'[h].earned
        BY <1>2, <3>3, <4>1, OneMore
      <4>3. GateOK(h)'
        BY <1>9, <3>2, <3>4, <3>5, <4>1, <4>2 DEF GateOK, Decided, Before
      <4>4. QED
        BY <3>2, <4>3
    <3>6. CASE here = "passed again"
      <4>1. /\ Sets \subseteq witness'[h].kept /\ Sets \subseteq witness'[h].earned
        BY <1>2, <3>2, <3>3, <3>6 DEF GateOK, Decided
      <4>2. pc'[h] \in {"passed again", "is_sample"}
        BY <1>9, <3>2, <3>6
      <4>3. GateOK(h)'
        BY <3>4, <4>1, <4>2 DEF GateOK, Decided
      <4>4. QED
        BY <3>2, <4>3
    <3>7. QED
      BY <1>9, <3>5, <3>6
  <2>3. QED
    BY <2>1, <2>2
<1>10. ASSUME NEW here \in {"is_sample", "moduleUrl", "oeUrl"},
              NEW after \in {"moduleUrl", "oeUrl", "submit"},
              Goto(h, here, after), here = "is_sample" => ~isSample
       PROVE  /\ pc' \in [Handlers -> Steps] /\ \A g \in Handlers \ {h} : pc'[g] = pc[g]
              /\ GateOK(h)'
  <2>1. /\ pc[h] = here /\ pc' \in [Handlers -> Steps] /\ pc'[h] = after
        /\ \A g \in Handlers \ {h} : pc'[g] = pc[g]
    BY <1>10, GotoTyped DEF Steps
  <2>2. /\ NumSets > 0 /\ ~isSample
        /\ Sets \subseteq witness'[h].kept /\ Sets \subseteq witness'[h].earned
    BY <1>2, <1>3, <1>10, <2>1 DEF GateOK, Decided
  <2>3. QED
    BY <1>1, <2>1, <2>2 DEF GateOK, Decided
<1>11. CASE CheckSample(h)
  <2>1. CASE isSample
    BY <1>4, <1>11, <2>1 DEF CheckSample
  <2>2. CASE ~isSample
    <3>1. Goto(h, "is_sample", "moduleUrl") /\ UNCHANGED <<at, body, checked>>
      BY <1>11, <2>2 DEF CheckSample
    <3>2. QED
      BY <1>2, <1>5, <1>10, <2>2, <3>1
         DEF HandlersTyped, OthersStay, CertInv, CertificationTypeOK, Faithful
  <2>3. QED
    BY <2>1, <2>2
<1>12. ASSUME NEW here \in {"moduleUrl", "oeUrl"}, NEW after \in {"oeUrl", "submit"},
              CheckUrl(h, here, after), body[h][here] \in Urls \union {NoUrl}
       PROVE  /\ HandlersTyped' /\ OthersStay(h)
              /\ GateOK(h)' /\ Faithful(checked[h])'
  <2>0. PICK url \in Urls \union {NoUrl} : url = body[h][here]
    BY <1>12
  <2>1. CASE Goto(h, here, after) /\ UNCHANGED <<at, body, checked>>
    BY <1>2, <1>5, <1>10, <2>1
       DEF HandlersTyped, OthersStay, CertInv, CertificationTypeOK, Faithful
  <2>2. CASE /\ url # NoUrl /\ Exists(url)
             /\ Goto(h, here, after)
             /\ checked' = [checked EXCEPT ![h] = @ \union {Thing(url)}]
             /\ UNCHANGED <<at, body>>
    <3>1. Thing(url) \in Things /\ Thing(url).maker # Nobody
          /\ maker[Thing(url).url] = Thing(url).maker
      BY <2>2, Looked DEF Thing, CertInv
    <3>2. /\ checked' \in [Handlers -> SUBSET Things]
          /\ checked'[h] = checked[h] \union {Thing(url)}
          /\ \A g \in Handlers \ {h} : checked'[g] = checked[g]
      BY <1>2, <2>2, <3>1 DEF CertInv, CertificationTypeOK
    <3>3. Faithful(checked[h])'
      BY <1>1, <1>2, <3>1, <3>2 DEF Faithful
    <3>4. pc' \in [Handlers -> Steps] /\ (\A g \in Handlers \ {h} : pc'[g] = pc[g])
          /\ GateOK(h)'
      BY <1>10, <2>2
    <3>5. QED
      BY <2>2, <3>2, <3>3, <3>4 DEF HandlersTyped, OthersStay, CertInv, CertificationTypeOK
  <2>3. CASE Reply(h, here)
    BY <1>4, <2>3
  <2>4. QED
    BY <1>12, <2>0, <2>1, <2>2, <2>3 DEF CheckUrl
<1>13. CASE ReadVerdict(h)
  BY <1>8, <1>9, <1>13 DEF ReadVerdict
<1>14. CASE CheckUrls(h)
  <2>1. body[h]["moduleUrl"] \in Urls \union {NoUrl} /\ body[h]["oeUrl"] \in Urls \union {NoUrl}
    BY <1>2 DEF Bodies
  <2>2. QED
    BY <1>12, <1>14, <2>1 DEF CheckUrls
<1>15. QED
  BY <1>7, <1>11, <1>13, <1>14 DEF Gate

-----------------------------------------------------------------------------
\* A step that accepts no certify request leaves the earned certificates earned.
LEMMA EarnedStays ==
    ASSUME CertInv, Observe, isSample' = isSample,
           \A r \in Rids : Certifying(r)' => Certifying(r)
    PROVE  CertificateIsEarned'
<1> SUFFICES ASSUME NEW r \in Rids, Certifying(r)'
             PROVE  /\ ~isSample' /\ NumSets > 0
                    /\ grounds'[r].earned = Sets /\ grounds'[r].kept = Sets
  BY DEF CertificateIsEarned, Sets
<1>1. /\ ~isSample /\ NumSets > 0 /\ grounds[r].earned = Sets /\ grounds[r].kept = Sets
  BY DEF CertInv, CertificateIsEarned
<1>2. ASSUME NEW h \in Handlers, pc[h] = "submit", grounds'[r] = witness[h]
      PROVE  grounds'[r].earned = Sets /\ grounds'[r].kept = Sets
  <2>1. Sets \subseteq witness[h].earned /\ Sets \subseteq witness[h].kept
    BY <1>2 DEF CertInv, GateInv, GateOK, Decided
  <2>2. witness[h].earned \subseteq Sets /\ witness[h].kept \subseteq Sets
    BY DEF CertInv, CertificationTypeOK, Witnesses
  <2>3. QED
    BY <1>2, <2>1, <2>2
<1>3. QED
  BY <1>1, <1>2, Grounded

\* A step of the registry, by itself or with a certify request that is accepted,
\* or of the session.
LEMMA OutsideCertInv ==
    ASSUME CertInv, ~Database, Observe,
           \/ [Next]_regVars /\ UNCHANGED <<sessionVars, handlerVars>>
           \/ SessionStep /\ UNCHANGED <<regVars, handlerVars>>
    PROVE  CertInv'
<1>1. UNCHANGED handlerVars /\ isSample' = isSample /\ [Next]_regVars
      /\ withdrawn' \in SUBSET Sets /\ passing' \in SUBSET Sets /\ cancelled' \in BOOLEAN
  BY DEF sessionVars, SessionStep, SetTurns, SetWithdrawn, SetRevived, CancelSession,
         CertInv, CertificationTypeOK
<1>2. IInv'
  BY <1>1, StepIInv DEF CertInv
<1>3. CertificationTypeOK'
  <2>1. RegistryTypeOK'
    BY <1>2 DEF IInv
  <2>2. witness' \in [Handlers -> Witnesses] /\ grounds' \in [Rids -> Witnesses]
    BY <1>1, Witnessed, Grounded
  <2>3. QED
    BY <1>1, <2>1, <2>2 DEF handlerVars, CertInv, CertificationTypeOK
<1>4. GateInv'
  BY <1>1, GateStays DEF GateInv, handlerVars
<1>5. CheckedInv'
  <2> SUFFICES ASSUME NEW h \in Handlers PROVE Faithful(checked[h])'
    BY DEF CheckedInv
  <2>1. PICK refs \in SUBSET Things : refs = checked[h]
    BY DEF CertInv, CertificationTypeOK
  <2>2. Faithful(refs)
    BY <2>1 DEF CertInv, CheckedInv
  <2>3. \A u \in Urls : maker[u] # Nobody => maker'[u] = maker[u]
    BY <1>1, MakersStay DEF CertInv
  <2>4. Faithful(refs)'
    BY <2>2, <2>3, FaithfulStays
  <2>5. QED
    BY <1>1, <2>1, <2>4 DEF handlerVars, Faithful
<1>6. CertificateIsEarned'
  BY <1>1, CertifyingStays, EarnedStays DEF Certifying, CertInv
<1>7. QED
  BY <1>2, <1>3, <1>4, <1>5, <1>6 DEF CertInv

\* A step of the gate.
LEMMA GateCertInv ==
    ASSUME CertInv, Observe, NEW h \in Handlers, Gate(h),
           UNCHANGED <<regVars, sessionVars>>
    PROVE  CertInv'
<1>1. HandlersTyped' /\ OthersStay(h) /\ GateOK(h)' /\ Faithful(checked[h])'
  BY GateStep
<1>2. IInv'
  BY StutterIInv DEF CertInv
<1>3. /\ isSample' = isSample /\ withdrawn' = withdrawn /\ passing' = passing
      /\ cancelled' = cancelled /\ maker' = maker /\ job' = job
      /\ passing' \in SUBSET Sets
  BY DEF regVars, sessionVars, CertInv, CertificationTypeOK
<1>4. CertificationTypeOK'
  <2>1. witness' \in [Handlers -> Witnesses] /\ grounds' \in [Rids -> Witnesses]
    BY <1>3, Witnessed, Grounded
  <2>2. QED
    BY <1>1, <1>2, <1>3, <2>1 DEF HandlersTyped, IInv, CertInv, CertificationTypeOK
<1>5. GateInv'
  <2>1. ASSUME NEW g \in Handlers, g # h PROVE GateOK(g)'
    BY <1>1, <1>3, <2>1, GateStays DEF OthersStay
  <2>2. QED
    BY <1>1, <2>1 DEF GateInv
<1>6. CheckedInv'
  <2>1. ASSUME NEW g \in Handlers, g # h PROVE Faithful(checked[g])'
    BY <1>1, <1>3, <2>1 DEF OthersStay, CertInv, CheckedInv, Faithful
  <2>2. QED
    BY <1>1, <2>1 DEF CheckedInv
<1>7. CertificateIsEarned'
  BY <1>3, EarnedStays DEF Certifying
<1>8. QED
  BY <1>2, <1>4, <1>5, <1>6, <1>7 DEF CertInv

\* The acceptance of a certify request.
LEMMA CertifyCertInv ==
    ASSUME CertInv, Observe, NEW h \in Handlers, Certify(h), UNCHANGED sessionVars
    PROVE  CertInv'
<1>1. PICK work : work = [op |-> "certify", kind |-> "validations", id |-> 0,
                          maker |-> Nobody, refs |-> checked[h], step |-> "allocate"]
  OBVIOUS
<1>2. Reply(h, "submit") /\ Submit(work)
      /\ UNCHANGED <<stored, maker, written, issued, raced>>
  BY <1>1 DEF Certify
<1>3. /\ pc[h] = "submit" /\ pc'[h] = "idle" /\ at'[h] = 1 /\ checked'[h] = {}
      /\ HandlersTyped' /\ OthersStay(h)
  BY <1>2, Replied
<1>4. Proper(work)
  <2>1. checked[h] \in SUBSET Things /\ Faithful(checked[h])
    BY DEF CertInv, CertificationTypeOK, CheckedInv
  <2>2. work \in Jobs
    BY <1>1, <2>1 DEF Jobs, Collections, Makers
  <2>3. QED
    BY <1>1, <2>1, <2>2 DEF Proper, Collections
<1>5. IInv'
  BY <1>2, <1>4, SubmitIInv DEF CertInv
<1>6. /\ isSample' = isSample /\ withdrawn' = withdrawn /\ passing' = passing
      /\ cancelled' = cancelled /\ passing' \in SUBSET Sets
  BY DEF sessionVars, CertInv, CertificationTypeOK
<1>7. CertificationTypeOK'
  <2>1. witness' \in [Handlers -> Witnesses] /\ grounds' \in [Rids -> Witnesses]
    BY <1>6, Witnessed, Grounded
  <2>2. QED
    BY <1>3, <1>5, <1>6, <2>1 DEF HandlersTyped, IInv, CertInv, CertificationTypeOK
<1>8. GateInv'
  <2>1. ASSUME NEW g \in Handlers, g # h PROVE GateOK(g)'
    BY <1>3, <1>6, <2>1, GateStays DEF OthersStay
  <2>2. GateOK(h)'
    BY <1>3 DEF GateOK, Decided
  <2>3. QED
    BY <2>1, <2>2 DEF GateInv
<1>9. CheckedInv'
  <2>1. ASSUME NEW g \in Handlers, g # h PROVE Faithful(checked[g])'
    BY <1>2, <1>3, <2>1 DEF OthersStay, CertInv, CheckedInv, Faithful
  <2>2. Faithful(checked[h])'
    BY <1>3 DEF Faithful
  <2>3. QED
    BY <2>1, <2>2 DEF CheckedInv
<1>10. CertificateIsEarned'
  <2>1. PICK r \in Rids : /\ requests[r].status = "none"
                          /\ requests' = [requests EXCEPT ![r].status = "processing"]
                          /\ job' = [job EXCEPT ![r] = work]
    BY <1>2 DEF Submit
  <2>2. requests'[r] # requests[r]
    <3>1. requests'[r].status = "processing"
      BY <2>1 DEF CertInv, CertificationTypeOK, RegistryTypeOK
    <3>2. QED
      BY <2>1, <3>1
  <2>3. Accepts(h, r)
    BY <1>3, <2>2 DEF Accepts
  <2>4. PICK g \in Handlers : pc[g] = "submit" /\ grounds'[r] = witness[g]
    BY <2>3, Grounded
  <2>5. /\ ~isSample /\ NumSets > 0
        /\ Sets \subseteq witness[g].earned /\ Sets \subseteq witness[g].kept
    BY <2>4 DEF CertInv, GateInv, GateOK, Decided
  <2>6. witness[g].earned \subseteq Sets /\ witness[g].kept \subseteq Sets
    BY DEF CertInv, CertificationTypeOK, Witnesses
  <2>7. ASSUME NEW q \in Rids, q # r, Certifying(q)'
        PROVE  grounds'[q].earned = Sets /\ grounds'[q].kept = Sets
    <3>1. Certifying(q)
      BY <2>1, <2>7 DEF Certifying, CertInv, CertificationTypeOK, RegistryTypeOK
    <3>2. grounds[q].earned = Sets /\ grounds[q].kept = Sets
      BY <3>1 DEF CertInv, CertificateIsEarned
    <3>3. CASE grounds'[q] = grounds[q]
      BY <3>2, <3>3
    <3>4. CASE \E f \in Handlers : pc[f] = "submit" /\ grounds'[q] = witness[f]
      <4>1. PICK f \in Handlers : pc[f] = "submit" /\ grounds'[q] = witness[f]
        BY <3>4
      <4>2. /\ Sets \subseteq witness[f].earned /\ Sets \subseteq witness[f].kept
            /\ witness[f].earned \subseteq Sets /\ witness[f].kept \subseteq Sets
        BY <4>1 DEF CertInv, GateInv, GateOK, Decided, CertificationTypeOK, Witnesses
      <4>3. QED
        BY <4>1, <4>2
    <3>5. QED
      BY <3>3, <3>4, Grounded
  <2>8. grounds'[r].earned = Sets /\ grounds'[r].kept = Sets
    BY <2>4, <2>5, <2>6
  <2>9. QED
    BY <1>6, <2>5, <2>7, <2>8 DEF CertificateIsEarned, Sets
<1>11. QED
  BY <1>5, <1>7, <1>8, <1>9, <1>10 DEF CertInv

\* Nothing happens.
LEMMA StutterCertInv == ASSUME CertInv, UNCHANGED certVars PROVE CertInv'
<1>1. IInv'
  BY StutterIInv DEF CertInv, certVars
<1>2. CertificationTypeOK'
  BY <1>1 DEF certVars, sessionVars, handlerVars, historyVars, IInv, CertInv,
              CertificationTypeOK
<1>3. GateInv' /\ CheckedInv' /\ CertificateIsEarned'
  BY DEF certVars, regVars, sessionVars, handlerVars, historyVars, CertInv, GateInv, GateOK,
         Before, CheckedInv, Faithful, CertificateIsEarned, Certifying
<1>4. QED
  BY <1>1, <1>2, <1>3 DEF CertInv

\* Every step keeps the invariant.
LEMMA StepCertInv == CertInv /\ ~Database /\ [NextCertification]_certVars => CertInv'
<1> SUFFICES ASSUME CertInv, ~Database, [NextCertification]_certVars PROVE CertInv'
  OBVIOUS
<1>1. CASE Observe /\ Next /\ UNCHANGED <<sessionVars, handlerVars>>
  BY <1>1, OutsideCertInv
<1>2. CASE Observe /\ SessionStep /\ UNCHANGED <<regVars, handlerVars>>
  BY <1>2, OutsideCertInv
<1>3. CASE Observe /\ \E h \in Handlers : Gate(h) /\ UNCHANGED <<regVars, sessionVars>>
  BY <1>3, GateCertInv
<1>4. CASE Observe /\ \E h \in Handlers : Certify(h) /\ UNCHANGED sessionVars
  BY <1>4, CertifyCertInv
<1>5. CASE UNCHANGED certVars
  BY <1>5, StutterCertInv
<1>6. QED
  BY <1>1, <1>2, <1>3, <1>4, <1>5 DEF NextCertification

-----------------------------------------------------------------------------
\* Every reachable state satisfies the inductive invariant.
THEOREM CertificationInvariance == ASSUME ~Database PROVE SpecCertification => []CertInv
<1>1. CertInv /\ [NextCertification]_certVars => CertInv'
  BY StepCertInv
<1>2. QED
  BY <1>1, InitCertInv, PTL DEF SpecCertification

\* The session, the certify requests and the histories keep their types.
THEOREM CertificationTypeCorrect ==
    ASSUME ~Database PROVE SpecCertification => []CertificationTypeOK
<1>1. CertInv => CertificationTypeOK
  BY DEF CertInv
<1>2. QED
  BY <1>1, CertificationInvariance, PTL

\* However many sets a session has, and whatever happens to them between two reads
\* of the gate, a certificate has been earned by each of them.
THEOREM CertificateIsEarnedHolds ==
    ASSUME ~Database PROVE SpecCertification => []CertificateIsEarned
<1>1. CertInv => CertificateIsEarned
  BY DEF CertInv
<1>2. QED
  BY <1>1, CertificationInvariance, PTL

\* What a certificate names, and what its requester was told, is the resource that
\* the certify request found.
THEOREM CertificatesNameOneThing ==
    ASSUME ~Database PROVE SpecCertification => []UrlsNameOneThing
<1>1. CertInv => UrlsNameOneThing
  BY IInvNames DEF CertInv
<1>2. QED
  BY <1>1, CertificationInvariance, PTL
=============================================================================
