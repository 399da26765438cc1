---------------------------- MODULE SessionsProofs ----------------------------
(***************************************************************************)
(* Proofs about Paging, for every list and every offset and limit, and     *)
(* about Sessions.  The invariants are SessionsInv, that every creation is *)
(* at work on a session that no other creation and no client knows, and    *)
(* every set but the one it is at work on is whole; and WalkInv, that what *)
(* a walk can no longer be shown is never more than was cancelled.         *)
(***************************************************************************)
EXTENDS Sessions, SequenceTheorems, FiniteSetTheorems,
        FunctionTheorems, TLAPS

\* What a request asks for is a position and a page of at least one item, whatever
\* it says.
LEMMA Clamped == ASSUME NEW o \in Int, NEW l \in Int
                 PROVE  Offset(o) \in Nat /\ Limit(l) \in Nat \ {0}
BY DEF Offset, Limit, Larger

\* What a page holds.
LEMMA PageItems ==
    ASSUME NEW S, NEW items \in Seq(S), NEW o \in Nat, NEW l \in Nat \ {0}
    PROVE  /\ Page(items, o, l) \in Seq(S)
           /\ Len(Page(items, o, l)) =
                IF o + l <= Len(items) THEN l
                ELSE IF o <= Len(items) THEN Len(items) - o ELSE 0
           /\ \A i \in 1 .. Len(Page(items, o, l)) : Page(items, o, l)[i] = items[o + i]
<1> DEFINE end == IF o + l <= Len(items) THEN o + l ELSE Len(items)
<1>1. Len(items) \in Nat /\ end \in Nat /\ end <= Len(items)
  OBVIOUS
<1>2. Page(items, o, l) = SubSeq(items, o + 1, end)
  BY DEF Page
<1> HIDE DEF end
<1>3. CASE o < end
  <2>1. o + 1 \in 1 .. Len(items) + 1 /\ end \in o .. Len(items)
    BY <1>1, <1>3
  <2>2. /\ SubSeq(items, o + 1, end) \in Seq(S)
        /\ Len(SubSeq(items, o + 1, end)) = end - o
        /\ \A i \in 1 .. end - o : SubSeq(items, o + 1, end)[i] = items[o + i]
    <3>1. \A i \in 1 .. end - o : o + 1 + i - 1 = o + i
      BY <1>1
    <3>2. end - (o + 1) + 1 = end - o /\ o + 1 <= end
      BY <1>1, <1>3
    <3>3. QED
      BY <1>1, <2>1, <3>1, <3>2, SubSeqProperties
  <2>3. end - o = IF o + l <= Len(items) THEN l
                  ELSE IF o <= Len(items) THEN Len(items) - o ELSE 0
    BY <1>1, <1>3 DEF end
  <2>4. QED
    BY <1>2, <2>2, <2>3
<1>4. CASE ~(o < end)
  <2>1. SubSeq(items, o + 1, end) = <<>>
    BY <1>1, <1>4, SubSeqEmpty
  <2>2. (IF o + l <= Len(items) THEN l
         ELSE IF o <= Len(items) THEN Len(items) - o ELSE 0) = 0
    BY <1>1, <1>4 DEF end
  <2>3. <<>> \in Seq(S) /\ Len(<<>>) = 0 /\ 1 .. 0 = {}
    OBVIOUS
  <2>4. QED
    BY <1>2, <2>1, <2>2, <2>3
<1>5. QED
  BY <1>3, <1>4

-----------------------------------------------------------------------------
\* The "incomplete" of a page says that there is a next page, although the one is
\* computed from the items and the other from the offsets.
THEOREM IncompleteMeansNext ==
    ASSUME NEW S, NEW items \in Seq(S), NEW o \in Nat, NEW l \in Nat \ {0}
    PROVE  Incomplete(items, o, l) <=> HasNext(Len(items), o, l)
<1>1. Len(Page(items, o, l)) = IF o + l <= Len(items) THEN l
                               ELSE IF o <= Len(items) THEN Len(items) - o ELSE 0
  BY PageItems
<1>2. Len(items) \in Nat
  OBVIOUS
<1>3. QED
  BY <1>1, <1>2 DEF Incomplete, HasNext

\* A next link leads on, to a page that is not empty, and the prev link of that page
\* leads back.
THEOREM NextLeadsOn ==
    ASSUME NEW S, NEW items \in Seq(S), NEW o \in Nat, NEW l \in Nat \ {0},
           HasNext(Len(items), o, l)
    PROVE  LET n == NextOffset(o, l) IN
           /\ n \in Nat /\ o < n /\ n < Len(items)
           /\ Len(Page(items, n, l)) > 0
           /\ HasPrev(n) /\ PrevOffset(n, l) = o
<1>1. NextOffset(o, l) \in Nat /\ o < NextOffset(o, l) /\ NextOffset(o, l) < Len(items)
  BY DEF NextOffset, HasNext
<1>2. Len(Page(items, NextOffset(o, l), l)) > 0
  <2> DEFINE n == NextOffset(o, l)
  <2>1. Len(items) \in Nat /\ n \in Nat /\ n < Len(items)
    BY <1>1
  <2> HIDE DEF n
  <2>2. Len(Page(items, n, l)) = IF n + l <= Len(items) THEN l
                                 ELSE IF n <= Len(items) THEN Len(items) - n ELSE 0
    BY <2>1, PageItems
  <2>3. QED
    BY <2>1, <2>2 DEF n
<1>3. HasPrev(NextOffset(o, l)) /\ PrevOffset(NextOffset(o, l), l) = o
  BY DEF NextOffset, HasPrev, PrevOffset, Larger
<1>4. QED
  BY <1>1, <1>2, <1>3

\* Whoever has the items before a page and adds the page to them has the items
\* before the next page, or all of them: nothing falls between two pages and
\* nothing is on both.
THEOREM PagesAddUp ==
    ASSUME NEW S, NEW items \in Seq(S), NEW o \in 0 .. Len(items), NEW l \in Nat \ {0}
    PROVE  SubSeq(items, 1, o) \o Page(items, o, l) =
             IF HasNext(Len(items), o, l) THEN SubSeq(items, 1, NextOffset(o, l))
                                          ELSE items
<1> DEFINE end == IF o + l <= Len(items) THEN o + l ELSE Len(items)
<1>1. Len(items) \in Nat /\ o \in Nat /\ end \in o .. Len(items)
  OBVIOUS
<1>2. Page(items, o, l) = SubSeq(items, o + 1, end)
  BY DEF Page
<1>3. end = IF HasNext(Len(items), o, l) THEN NextOffset(o, l) ELSE Len(items)
  BY DEF HasNext, NextOffset
<1> HIDE DEF end
<1>4. SubSeq(items, 1, o) \o SubSeq(items, o + 1, end) = SubSeq(items, 1, end)
  BY <1>1, ConcatAdjacentSubSeq
<1>5. SubSeq(items, 1, Len(items)) = items
  BY SubSeqFull
<1>6. QED
  BY <1>2, <1>3, <1>4, <1>5

\* The last link leads to a page of the list, the one with its last item, and to
\* one that following the next links leads to.
THEOREM LastIsLast ==
    ASSUME NEW S, NEW items \in Seq(S), NEW l \in Nat \ {0}
    PROVE  LET last == LastOffset(Len(items), l) IN
           /\ last \in Nat /\ \E n \in Nat : last = n * l
           /\ items # <<>> => last < Len(items)
           /\ ~HasNext(Len(items), last, l)
<1>1. CASE Len(items) = 0
  <2>1. LastOffset(Len(items), l) = 0 /\ 0 = 0 * l
    BY <1>1 DEF LastOffset
  <2>2. items = <<>>
    BY <1>1
  <2>3. QED
    BY <1>1, <2>1, <2>2 DEF HasNext
<1>2. CASE Len(items) # 0
  <2> DEFINE q == (Len(items) - 1) \div l
             r == (Len(items) - 1) % l
  <2>1. /\ q \in Nat /\ r \in 0 .. l - 1
        /\ Len(items) - 1 = l * q + r
    BY <1>2
  <2>2. LastOffset(Len(items), l) = q * l
    BY <1>2 DEF LastOffset
  <2> HIDE DEF q, r
  <2>3. q * l = l * q /\ q * l \in Nat
    BY <2>1
  <2>4. q * l < Len(items) /\ ~(q * l + l < Len(items))
    BY <2>1, <2>3
  <2>5. QED
    BY <2>1, <2>2, <2>3, <2>4 DEF HasNext
<1>3. QED
  BY <1>1, <1>2

-----------------------------------------------------------------------------
(* Sets of sessions counted from the newest, for every finite set of       *)
(* integers: what a listing is, however its elements come to be ordered.   *)

\* How many of S are newer than s; the k newest; and those of U that none of the
\* pages from offset k of a listing of V shows.
Rank(S, s) == Cardinality({t \in S : t > s})
Top(S, k) == {s \in S : Rank(S, s) < k}
Lost(U, V, k) == U \ (V \ Top(V, k))

LEMMA RankRange ==
    ASSUME NEW S \in SUBSET Int, IsFiniteSet(S), NEW s \in S
    PROVE  Rank(S, s) \in 0 .. Cardinality(S) - 1
<1> DEFINE T == {t \in S : t > s}
<1>1. /\ IsFiniteSet(S \ {s}) /\ Cardinality(S \ {s}) = Cardinality(S) - 1
      /\ Cardinality(S) \in Nat
  BY FS_RemoveElement, FS_CardinalityType
<1>2. T \in SUBSET (S \ {s})
  OBVIOUS
<1>3. IsFiniteSet(T) /\ Cardinality(T) <= Cardinality(S \ {s})
  BY <1>1, <1>2, FS_Subset
<1>4. Cardinality(T) \in Nat
  BY <1>3, FS_CardinalityType
<1>5. QED
  BY <1>1, <1>3, <1>4 DEF Rank

\* A newer element has fewer before it.
LEMMA RankOrder ==
    ASSUME NEW S \in SUBSET Int, IsFiniteSet(S), NEW s \in S, NEW t \in S, s > t
    PROVE  Rank(S, s) < Rank(S, t)
<1> DEFINE A == {u \in S : u > s}
           B == {u \in S : u > t}
<1>1. IsFiniteSet(A) /\ IsFiniteSet(B)
  BY FS_Subset
<1>2. s \notin A /\ A \union {s} \in SUBSET B
  <2>1. s \in Int /\ t \in Int /\ \A u \in S : u \in Int
    OBVIOUS
  <2>2. s \notin A /\ \A u \in A : u \in B
    BY <2>1
  <2>3. s \in B
    BY <2>1
  <2>4. QED
    BY <2>2, <2>3
<1>3. Cardinality(A \union {s}) = Cardinality(A) + 1
  BY <1>1, <1>2, FS_AddElement
<1>4. Cardinality(A \union {s}) <= Cardinality(B)
  BY <1>1, <1>2, FS_Subset
<1>5. Cardinality(A) \in Nat /\ Cardinality(B) \in Nat
  BY <1>1, FS_CardinalityType
<1>6. QED
  BY <1>3, <1>4, <1>5 DEF Rank

\* No two elements have the same rank, and there is one of every rank.
LEMMA RankBijection ==
    ASSUME NEW S \in SUBSET Int, IsFiniteSet(S)
    PROVE  [s \in S |-> Rank(S, s)] \in Bijection(S, 0 .. Cardinality(S) - 1)
<1> DEFINE r == [s \in S |-> Rank(S, s)]
           N == 0 .. Cardinality(S) - 1
<1>1. r \in [S -> N]
  BY RankRange
<1>2. ASSUME NEW s \in S, NEW t \in S, r[s] = r[t] PROVE s = t
  <2>1. Rank(S, s) = Rank(S, t) /\ Rank(S, s) \in Int
    BY <1>2, RankRange
  <2>2. ~(s > t) /\ ~(t > s)
    BY <2>1, RankOrder
  <2>3. QED
    BY <2>2
<1>3. r \in Injection(S, N)
  BY <1>1, <1>2, Fun_IsInj
<1>4. Cardinality(S) \in Nat
  BY FS_CardinalityType
<1>5. IsFiniteSet(N) /\ Cardinality(N) = Cardinality(S)
  <2>1. /\ IsFiniteSet(N)
        /\ Cardinality(N) = IF 0 > Cardinality(S) - 1 THEN 0
                            ELSE Cardinality(S) - 1 - 0 + 1
    BY <1>4, FS_Interval
  <2>2. QED
    BY <1>4, <2>1
<1>6. r \in Surjection(S, N)
  BY <1>3, <1>5, FS_Injection
<1>7. QED
  BY <1>3, <1>6 DEF Bijection

LEMMA TopSize ==
    ASSUME NEW S \in SUBSET Int, IsFiniteSet(S), NEW k \in Nat
    PROVE  /\ IsFiniteSet(Top(S, k))
           /\ Cardinality(Top(S, k)) = IF k <= Cardinality(S) THEN k
                                       ELSE Cardinality(S)
<1> DEFINE r == [s \in S |-> Rank(S, s)]
           n == Cardinality(S)
           m == IF k <= n THEN k ELSE n
           T == Top(S, k)
           q == [s \in T |-> Rank(S, s)]
<1>1. n \in Nat /\ m \in Nat /\ m <= n /\ m <= k
  BY FS_CardinalityType
<1>2. T \in SUBSET S /\ IsFiniteSet(T)
  BY FS_Subset DEF Top
<1>3. r \in Bijection(S, 0 .. n - 1)
  BY RankBijection
<1>4. q \in Bijection(T, 0 .. m - 1)
  <2>1. q \in [T -> 0 .. m - 1]
    <3>1. ASSUME NEW s \in T PROVE Rank(S, s) \in 0 .. m - 1
      <4>1. Rank(S, s) \in 0 .. n - 1 /\ Rank(S, s) < k
        BY <1>2, RankRange DEF Top
      <4>2. QED
        BY <1>1, <4>1
    <3>2. QED
      BY <3>1
  <2>2. \A s, t \in T : q[s] = q[t] => s = t
    BY <1>2, <1>3, Fun_BijectionProperties DEF Bijection, Injection, IsInjective
  <2>3. ASSUME NEW j \in 0 .. m - 1 PROVE \E s \in T : q[s] = j
    <3>1. PICK s \in S : r[s] = j
      BY <1>1, <1>3 DEF Bijection, Surjection
    <3>2. s \in T
      BY <1>1, <3>1 DEF Top
    <3>3. QED
      BY <3>1, <3>2
  <2>4. QED
    BY <2>1, <2>2, <2>3, Fun_IsBij
<1>5. Cardinality(0 .. m - 1) = Cardinality(T)
  BY <1>2, <1>4, FS_Bijection DEF ExistsBijection
<1> HIDE DEF m
<1>6. Cardinality(0 .. m - 1) = m
  <2>1. Cardinality(0 .. m - 1) = IF 0 > m - 1 THEN 0 ELSE m - 1 - 0 + 1
    BY <1>1, FS_Interval
  <2>2. QED
    BY <1>1, <2>1
<1>7. QED
  BY <1>2, <1>5, <1>6 DEF m

\* What is taken from a set moves the rest towards its top.
LEMMA RankShrinks ==
    ASSUME NEW S \in SUBSET Int, IsFiniteSet(S), NEW T \in SUBSET S, NEW s \in Int
    PROVE  /\ Rank(T, s) \in Nat /\ Rank(S, s) \in Nat
           /\ Rank(T, s) <= Rank(S, s)
<1> DEFINE A == {t \in T : t > s}
           B == {t \in S : t > s}
<1>1. IsFiniteSet(B) /\ A \in SUBSET B
  BY FS_Subset
<1>2. IsFiniteSet(A) /\ Cardinality(A) <= Cardinality(B)
  BY <1>1, FS_Subset
<1>3. QED
  BY <1>1, <1>2, FS_CardinalityType DEF Rank

\* Whatever is added to a listing, nothing more is lost.
LEMMA LostShrinks ==
    ASSUME NEW W \in SUBSET Int, IsFiniteSet(W), NEW V \in SUBSET W,
           NEW k \in Nat, NEW U
    PROVE  Lost(U, W, k) \subseteq Lost(U, V, k)
<1> SUFFICES ASSUME NEW s \in V, s \notin Top(V, k) PROVE s \notin Top(W, k)
  BY DEF Lost
<1>1. Rank(V, s) <= Rank(W, s) /\ Rank(V, s) \in Nat /\ Rank(W, s) \in Nat
  BY RankShrinks
<1>2. ~(Rank(V, s) < k)
  BY DEF Top
<1>3. QED
  BY <1>1, <1>2 DEF Top

\* A union is no larger than its parts together.
LEMMA CardinalityUnion ==
    ASSUME NEW A, IsFiniteSet(A), NEW B, IsFiniteSet(B)
    PROVE  /\ IsFiniteSet(A \union B)
           /\ Cardinality(A \union B) <= Cardinality(A) + Cardinality(B)
<1>1. /\ IsFiniteSet(A \union B)
      /\ Cardinality(A \union B) = Cardinality(A) + Cardinality(B)
                                     - Cardinality(A \intersect B)
  BY FS_Union
<1>2. IsFiniteSet(A \intersect B)
  BY FS_Intersection
<1>3. /\ Cardinality(A) \in Nat /\ Cardinality(B) \in Nat
      /\ Cardinality(A \intersect B) \in Nat
  BY <1>2, FS_CardinalityType
<1>4. QED
  BY <1>1, <1>3

\* Whatever is taken from a listing, no more is lost than was taken.
LEMMA LostGrows ==
    ASSUME NEW V \in SUBSET Int, IsFiniteSet(V), NEW W \in SUBSET Int, IsFiniteSet(W),
           NEW U, IsFiniteSet(U), NEW k \in Nat
    PROVE  Cardinality(Lost(U, W, k)) <= Cardinality(Lost(U, V, k)) + Cardinality(V \ W)
<1> DEFINE C == V \intersect W
           D == V \ W
           TV == Top(V, k)
           TC == Top(C, k)
<1>1. /\ IsFiniteSet(C) /\ IsFiniteSet(D) /\ C \in SUBSET Int /\ C \in SUBSET V
      /\ C \in SUBSET W
  BY FS_Intersection, FS_Difference
<1>2. /\ IsFiniteSet(TV) /\ IsFiniteSet(TC) /\ TV \in SUBSET V /\ TC \in SUBSET C
      /\ Cardinality(TV) \in Nat /\ Cardinality(TC) \in Nat
  BY <1>1, TopSize, FS_CardinalityType DEF Top
<1>3. Cardinality(TC) <= Cardinality(TV)
  <2>1. Cardinality(TV) = IF k <= Cardinality(V) THEN k ELSE Cardinality(V)
    BY TopSize
  <2>2. Cardinality(TC) = IF k <= Cardinality(C) THEN k ELSE Cardinality(C)
    BY <1>1, TopSize
  <2>3. Cardinality(C) <= Cardinality(V) /\ Cardinality(C) \in Nat /\ Cardinality(V) \in Nat
    BY <1>1, FS_Subset, FS_CardinalityType
  <2>4. QED
    BY <2>1, <2>2, <2>3
<1>4. TC \intersect TV = TV \ D
  <2>1. ASSUME NEW s \in TV, s \notin D PROVE s \in TC
    <3>1. s \in C /\ s \in Int /\ Rank(V, s) < k
      BY <1>2, <2>1 DEF Top
    <3>2. Rank(C, s) <= Rank(V, s) /\ Rank(C, s) \in Nat /\ Rank(V, s) \in Nat
      BY <1>1, <3>1, RankShrinks
    <3>3. QED
      BY <3>1, <3>2 DEF Top
  <2>2. QED
    BY <1>2, <2>1
<1> DEFINE moved == TC \ TV
           taken == TV \intersect D
<1>5. Cardinality(moved) <= Cardinality(taken)
  <2>1. Cardinality(TC \ TV) = Cardinality(TC) - Cardinality(TC \intersect TV)
    BY <1>2, FS_Difference
  <2>2. Cardinality(TV \ D) = Cardinality(TV) - Cardinality(TV \intersect D)
    BY <1>2, FS_Difference
  <2>3. Cardinality(taken) \in Nat
    BY <1>2, FS_Intersection, FS_CardinalityType
  <2>4. Cardinality(TV \ D) \in Nat
    BY <1>2, FS_Difference, FS_CardinalityType
  <2>5. /\ Cardinality(moved) = Cardinality(TC) - Cardinality(TV \ D)
        /\ Cardinality(TV \ D) = Cardinality(TV) - Cardinality(taken)
    BY <1>4, <2>1, <2>2
  <2> HIDE DEF moved, taken, TC, TV, D
  <2>6. QED
    BY <1>2, <1>3, <2>3, <2>4, <2>5
<1> DEFINE lost == Lost(U, V, k)
           rest == D \ TV
           more == moved \union rest
<1>6. Lost(U, W, k) \subseteq lost \union more
  <2>1. Lost(U, W, k) \subseteq Lost(U, C, k)
    BY <1>1, LostShrinks
  <2>2. Lost(U, C, k) \subseteq lost \union more
    BY DEF Lost
  <2>3. QED
    BY <2>1, <2>2
<1>7. /\ IsFiniteSet(lost) /\ IsFiniteSet(moved) /\ IsFiniteSet(rest)
      /\ IsFiniteSet(taken) /\ IsFiniteSet(Lost(U, W, k))
  BY <1>1, <1>2, FS_Difference, FS_Intersection DEF Lost
<1>8. /\ Cardinality(lost) \in Nat /\ Cardinality(moved) \in Nat
      /\ Cardinality(rest) \in Nat /\ Cardinality(taken) \in Nat
      /\ Cardinality(D) \in Nat
  BY <1>1, <1>7, FS_CardinalityType
<1>9. Cardinality(D) = Cardinality(taken) + Cardinality(rest)
  <2>1. Cardinality(D \ TV) = Cardinality(D) - Cardinality(D \intersect TV)
    BY <1>1, FS_Difference
  <2>2. D \intersect TV = taken
    OBVIOUS
  <2>3. QED
    BY <1>8, <2>1, <2>2
<1> HIDE DEF lost, moved, rest, taken, C, D, TV, TC
<1>10. IsFiniteSet(more) /\ Cardinality(more) <= Cardinality(moved) + Cardinality(rest)
  BY <1>7, <1>8, CardinalityUnion
<1> HIDE DEF more
<1>11. IsFiniteSet(lost \union more)
       /\ Cardinality(lost \union more) <= Cardinality(lost) + Cardinality(more)
  BY <1>7, <1>10, CardinalityUnion
<1>12. Cardinality(Lost(U, W, k)) <= Cardinality(lost \union more)
  BY <1>6, <1>11, FS_Subset
<1>13. /\ Cardinality(more) \in Nat /\ Cardinality(lost \union more) \in Nat
       /\ Cardinality(Lost(U, W, k)) \in Nat
  BY <1>7, <1>10, <1>11, FS_CardinalityType
<1>14. Cardinality(Lost(U, W, k)) <= Cardinality(lost) + Cardinality(D)
  BY <1>5, <1>8, <1>9, <1>10, <1>11, <1>12, <1>13
<1>15. QED
  BY <1>14 DEF lost, D

\* Turning a page loses nothing, and what is unseen after the last page was lost
\* before it.
LEMMA PageTurned ==
    ASSUME NEW V \in SUBSET Int, IsFiniteSet(V), NEW U, NEW o \in Nat, NEW l \in Nat
    PROVE  LET page == Top(V, o + l) \ Top(V, o) IN
           /\ Lost(U \ page, V, o + l) \subseteq Lost(U, V, o)
           /\ Cardinality(V) <= o + l => U \ page \subseteq Lost(U, V, o)
<1> DEFINE page == Top(V, o + l) \ Top(V, o)
<1>1. Lost(U \ page, V, o + l) \subseteq Lost(U, V, o)
  BY DEF Lost
<1>2. ASSUME Cardinality(V) <= o + l PROVE U \ page \subseteq Lost(U, V, o)
  <2>1. \A s \in V : Rank(V, s) \in 0 .. Cardinality(V) - 1
    BY RankRange
  <2>2. Cardinality(V) \in Nat
    BY FS_CardinalityType
  <2>3. V \subseteq Top(V, o + l)
    BY <1>2, <2>1, <2>2 DEF Top
  <2>4. QED
    BY <2>3 DEF Lost
<1>3. QED
  BY <1>1, <1>2

Descending(q) == \A i, j \in DOMAIN q : i < j => q[i] > q[j]

\* In a descending list every item is where its rank says.
LEMMA DescendingRanks ==
    ASSUME NEW q \in Seq(Int), Descending(q)
    PROVE  /\ ToSet(q) \in SUBSET Int /\ IsFiniteSet(ToSet(q))
           /\ Cardinality(ToSet(q)) = Len(q)
           /\ \A i \in 1 .. Len(q) : Rank(ToSet(q), q[i]) = i - 1
<1> DEFINE V == ToSet(q)
<1>1. /\ Len(q) \in Nat /\ DOMAIN q = 1 .. Len(q)
      /\ \A i \in 1 .. Len(q) : q[i] \in Int
  OBVIOUS
<1>2. V = {q[i] : i \in 1 .. Len(q)} /\ V \in SUBSET Int
  BY <1>1 DEF ToSet
<1>3. \A i, j \in 1 .. Len(q) : /\ i < j <=> q[i] > q[j]
                                /\ q[i] = q[j] => i = j
  <2> SUFFICES ASSUME NEW i \in 1 .. Len(q), NEW j \in 1 .. Len(q)
               PROVE  (i < j <=> q[i] > q[j]) /\ (q[i] = q[j] => i = j)
    OBVIOUS
  <2>1. q[i] \in Int /\ q[j] \in Int /\ i \in Int /\ j \in Int
    BY <1>1
  <2>2. (i < j => q[i] > q[j]) /\ (j < i => q[j] > q[i])
    BY <1>1 DEF Descending
  <2>3. QED
    BY <2>1, <2>2
<1>4. ASSUME NEW m \in 0 .. Len(q)
      PROVE  LET W == {q[i] : i \in 1 .. m} IN IsFiniteSet(W) /\ Cardinality(W) = m
  <2> DEFINE W == {q[i] : i \in 1 .. m}
             f == [i \in 1 .. m |-> q[i]]
  <2>1. 1 .. m \in SUBSET (1 .. Len(q))
    BY <1>1
  <2>2. f \in Bijection(1 .. m, W)
    <3>1. f \in [1 .. m -> W]
      OBVIOUS
    <3>2. \A i, j \in 1 .. m : f[i] = f[j] => i = j
      BY <1>3, <2>1
    <3>3. \A w \in W : \E i \in 1 .. m : f[i] = w
      OBVIOUS
    <3>4. QED
      BY <3>1, <3>2, <3>3, Fun_IsBij
  <2>3. IsFiniteSet(1 .. m) /\ Cardinality(1 .. m) = m
    <3>1. /\ IsFiniteSet(1 .. m)
          /\ Cardinality(1 .. m) = IF 1 > m THEN 0 ELSE m - 1 + 1
      BY FS_Interval
    <3>2. QED
      BY <1>1, <3>1
  <2>4. QED
    BY <2>2, <2>3, FS_Bijection DEF ExistsBijection
<1>5. IsFiniteSet(V) /\ Cardinality(V) = Len(q)
  <2>1. Len(q) \in 0 .. Len(q)
    BY <1>1
  <2>2. /\ IsFiniteSet({q[i] : i \in 1 .. Len(q)})
        /\ Cardinality({q[i] : i \in 1 .. Len(q)}) = Len(q)
    BY <1>4, <2>1
  <2>3. QED
    BY <1>2, <2>2
<1>6. ASSUME NEW i \in 1 .. Len(q) PROVE Rank(V, q[i]) = i - 1
  <2>1. i - 1 \in 0 .. Len(q) /\ \A j \in 1 .. Len(q) : j < i <=> j \in 1 .. i - 1
    BY <1>1
  <2>2. {s \in V : s > q[i]} = {q[j] : j \in 1 .. i - 1}
    <3>1. \A s \in V : s > q[i] => \E j \in 1 .. i - 1 : s = q[j]
      BY <1>2, <1>3, <2>1
    <3>2. \A j \in 1 .. i - 1 : q[j] \in V /\ q[j] > q[i]
      <4>1. \A j \in 1 .. i - 1 : j \in 1 .. Len(q) /\ j < i
        BY <1>1
      <4>2. QED
        BY <1>2, <1>3, <4>1
    <3>3. QED
      BY <3>1, <3>2
  <2>3. QED
    BY <1>4, <2>1, <2>2 DEF Rank
<1>7. QED
  BY <1>2, <1>5, <1>6

\* A page of a descending list is a section of the ranks.
LEMMA PageOfRanks ==
    ASSUME NEW q \in Seq(Int), Descending(q), NEW o \in Nat, NEW l \in Nat \ {0}
    PROVE  ToSet(Page(q, o, l)) = Top(ToSet(q), o + l) \ Top(ToSet(q), o)
<1> DEFINE p == Page(q, o, l)
           V == ToSet(q)
<1>1. /\ p \in Seq(Int)
      /\ Len(p) = IF o + l <= Len(q) THEN l
                  ELSE IF o <= Len(q) THEN Len(q) - o ELSE 0
      /\ \A j \in 1 .. Len(p) : p[j] = q[o + j]
  BY PageItems
<1>2. Len(q) \in Nat /\ V = {q[i] : i \in 1 .. Len(q)}
  BY DEF ToSet
<1>3. \A i \in 1 .. Len(q) : q[i] \in V /\ Rank(V, q[i]) = i - 1
  BY <1>2, DescendingRanks
<1> HIDE DEF p, V
<1>4. ToSet(p) = {p[j] : j \in 1 .. Len(p)}
  BY <1>1 DEF ToSet
<1>5. ASSUME NEW j \in 1 .. Len(p) PROVE p[j] \in Top(V, o + l) \ Top(V, o)
  <2>1. o + j \in 1 .. Len(q) /\ j \in 1 .. l
    BY <1>1, <1>2
  <2>2. p[j] \in V /\ Rank(V, p[j]) = o + j - 1
    <3>1. q[o + j] \in V /\ Rank(V, q[o + j]) = o + j - 1
      BY <1>3, <2>1
    <3>2. p[j] = q[o + j]
      BY <1>1
    <3>3. QED
      BY <3>1, <3>2
  <2>3. o + j - 1 < o + l /\ ~(o + j - 1 < o)
    BY <2>1
  <2>4. QED
    BY <2>2, <2>3 DEF Top
<1>6. ASSUME NEW s \in Top(V, o + l) \ Top(V, o) PROVE s \in ToSet(p)
  <2>1. PICK i \in 1 .. Len(q) : s = q[i]
    BY <1>2 DEF Top
  <2>2. Rank(V, s) = i - 1 /\ i - 1 < o + l /\ ~(i - 1 < o)
    BY <1>3, <2>1 DEF Top
  <2>3. i - o \in 1 .. Len(p) /\ o + (i - o) = i
    BY <1>1, <1>2, <2>2
  <2>4. p[i - o] = s
    BY <1>1, <2>1, <2>3
  <2>5. QED
    BY <1>4, <2>3, <2>4
<1>7. QED
  BY <1>4, <1>5, <1>6 DEF p, V

\* What is listed newest first is listed, each once.
LEMMA NewestFirstLists ==
    ASSUME NEW o, Len(sessions) \in Nat
    PROVE  /\ Listing(o) \in SUBSET Int /\ IsFiniteSet(Listing(o))
           /\ NewestFirst(o) \in Seq(Int)
           /\ Descending(NewestFirst(o))
           /\ ToSet(NewestFirst(o)) = Listing(o)
<1> DEFINE S == Listing(o)
           n == Cardinality(S)
           Sorted(q) == \A i, j \in DOMAIN q : i < j => q[i] > q[j]
<1>1. S \in SUBSET (1 .. Len(sessions))
  BY DEF Listing
<1>2. S \in SUBSET Int /\ IsFiniteSet(S) /\ n \in Nat
  <2>1. IsFiniteSet(1 .. Len(sessions)) /\ (1 .. Len(sessions)) \in SUBSET Int
    BY FS_Interval
  <2> HIDE DEF S
  <2>2. S \in SUBSET Int /\ IsFiniteSet(S)
    BY <1>1, <2>1, FS_Subset
  <2>3. QED
    BY <2>2, FS_CardinalityType
<1> HIDE DEF S
<1>3. \E q \in [1 .. n -> S] : Sorted(q)
  <2> DEFINE r == [s \in S |-> Rank(S, s)]
             q == [i \in 1 .. n |-> CHOOSE s \in S : Rank(S, s) = i - 1]
  <2>1. r \in Bijection(S, 0 .. n - 1)
    BY <1>2, RankBijection
  <2>2. ASSUME NEW i \in 1 .. n PROVE \E s \in S : Rank(S, s) = i - 1
    <3>1. i - 1 \in 0 .. n - 1
      BY <1>2
    <3>2. \A j \in 0 .. n - 1 : \E s \in S : r[s] = j
      BY <2>1 DEF Bijection, Surjection
    <3>3. QED
      BY <3>1, <3>2
  <2>3. \A i \in 1 .. n : q[i] \in S /\ Rank(S, q[i]) = i - 1
    BY <2>2
  <2> HIDE DEF q, n
  <2>4. ASSUME NEW i \in 1 .. n, NEW j \in 1 .. n, i < j PROVE q[i] > q[j]
    <3>1. /\ q[i] \in S /\ q[j] \in S /\ q[i] \in Int /\ q[j] \in Int
          /\ Rank(S, q[i]) = i - 1 /\ Rank(S, q[j]) = j - 1
      BY <1>2, <2>3
    <3>2. q[i] # q[j] /\ ~(q[j] > q[i])
      <4>1. ~(Rank(S, q[j]) < Rank(S, q[i])) /\ Rank(S, q[i]) # Rank(S, q[j])
        BY <2>4, <3>1
      <4>2. QED
        BY <1>2, <3>1, <4>1, RankOrder
    <3>3. QED
      BY <3>1, <3>2
  <2>5. q \in [1 .. n -> S] /\ DOMAIN q = 1 .. n
    BY <2>3 DEF q
  <2>6. QED
    BY <2>4, <2>5
<1> DEFINE p == NewestFirst(o)
<1>4. p \in [1 .. n -> S] /\ Sorted(p)
  BY <1>3 DEF NewestFirst, S
<1> HIDE DEF p, n
<1>5. p \in Seq(Int) /\ DOMAIN p = 1 .. n /\ Descending(p)
  <2>1. p \in [1 .. n -> Int] /\ DOMAIN p = 1 .. n
    BY <1>2, <1>4
  <2>2. p \in Seq(Int)
    BY <1>2, <2>1, SeqDef
  <2>3. QED
    BY <1>4, <2>1, <2>2 DEF Descending
<1>6. p \in Injection(1 .. n, S)
  <2>1. ASSUME NEW i \in 1 .. n, NEW j \in 1 .. n, p[i] = p[j] PROVE i = j
    <3>1. p[i] \in Int /\ i \in Int /\ j \in Int
      <4>1. p[i] \in S
        BY <1>4
      <4>2. \A s \in S : s \in Int
        BY <1>2
      <4>3. QED
        BY <4>1, <4>2
    <3>2. ~(i < j) /\ ~(j < i)
      BY <1>5, <2>1, <3>1 DEF Descending
    <3>3. QED
      BY <3>1, <3>2
  <2>2. QED
    BY <1>4, <2>1, Fun_IsInj
<1>7. p \in Surjection(1 .. n, S)
  <2>1. Cardinality(1 .. n) = IF 1 > n THEN 0 ELSE n - 1 + 1
    BY <1>2, FS_Interval
  <2>2. Cardinality(1 .. n) = n
    BY <1>2, <2>1
  <2>3. Cardinality(1 .. n) = Cardinality(S)
    BY <2>2 DEF n
  <2>4. QED
    BY <1>2, <1>6, <2>3, FS_Injection
<1>8. ToSet(p) = S
  <2>1. \A i \in 1 .. n : p[i] \in S
    BY <1>4
  <2>2. \A s \in S : \E i \in 1 .. n : p[i] = s
    BY <1>7 DEF Surjection
  <2>3. QED
    BY <1>5, <2>1, <2>2 DEF ToSet
<1>9. QED
  BY <1>2, <1>5, <1>8 DEF p, S

-----------------------------------------------------------------------------
(* The sessions of the store, of the creations and of the clients.         *)

VectorSetType == [registered : BOOLEAN, generating : BOOLEAN]
SessionType == [owner : Owners \union {Nobody}, stamped : BOOLEAN,
                cancelled : BOOLEAN, vector_sets : Seq(VectorSetType)]
CreationType == [pc : {"idle", "own", "stamp", "algorithms", "registered", "generating"},
                 id : Nat, owner : Owners \union {Nobody}, asked : Nat,
                 todo : Seq(BOOLEAN)]

TypeOK == /\ sessions \in Seq(SessionType)
          /\ creator \in [Creators -> CreationType]
          /\ disclosed \subseteq [id : Nat, owner : Owners \union {Nobody}, asked : Nat]

Whole(v) == v.registered /\ v.generating

\* How far the creation k has come with its session s: every vector set is whole,
\* except for the one it is at work on.
UnderWay(k, s) ==
    /\ k.pc = "own" => s.owner = Nobody
    /\ k.pc # "own" => s.owner = k.owner
    /\ k.pc \in {"own", "stamp"} => s.vector_sets = <<>>
    /\ k.pc \notin {"own", "stamp"} => s.stamped
    /\ Len(s.vector_sets) + Len(k.todo) = k.asked
    /\ k.pc \in {"registered", "generating"} => s.vector_sets # <<>>
    /\ \A i \in 1 .. Len(s.vector_sets) :
          \/ Whole(s.vector_sets[i])
          \/ i = Len(s.vector_sets) /\ k.pc = "registered"
          \/ i = Len(s.vector_sets) /\ k.pc = "generating" /\ s.vector_sets[i].registered

Complete(d, s) ==
    /\ s.owner = d.owner /\ s.stamped
    /\ Len(s.vector_sets) = d.asked
    /\ \A i \in 1 .. Len(s.vector_sets) : Whole(s.vector_sets[i])

\* Every creation at work has a session that no other creation and no client has.
CreationInv == \A c \in Creators : creator[c].pc # "idle" =>
    /\ creator[c].id \in 1 .. Len(sessions)
    /\ UnderWay(creator[c], sessions[creator[c].id])
DistinctInv == \A c \in Creators : creator[c].pc # "idle" =>
    /\ \A d \in Creators \ {c} : creator[d].pc # "idle" => creator[d].id # creator[c].id
    /\ \A d \in disclosed : d.id # creator[c].id
DisclosedInv == \A d \in disclosed :
    d.id \in 1 .. Len(sessions) /\ Complete(d, sessions[d.id])

SessionsInv == TypeOK /\ CreationInv /\ DistinctInv /\ DisclosedInv

LEMMA StartsWell == Init => SessionsInv
<1> SUFFICES ASSUME Init PROVE SessionsInv
  OBVIOUS
<1>1. <<>> \in Seq(SessionType) /\ <<>> \in Seq(BOOLEAN)
  OBVIOUS
<1>2. Idle \in CreationType /\ Idle.pc = "idle"
  BY <1>1 DEF Idle, CreationType
<1>3. QED
  BY <1>1, <1>2 DEF Init, SessionsInv, TypeOK, CreationInv, DistinctInv, DisclosedInv

\* Writing one session leaves the others.
LEMMA OneWritten ==
    ASSUME NEW S, NEW seq \in Seq(S), NEW i \in 1 .. Len(seq), NEW e \in S
    PROVE  LET new == [seq EXCEPT ![i] = e] IN
           /\ new \in Seq(S) /\ Len(new) = Len(seq) /\ new[i] = e
           /\ \A j \in 1 .. Len(seq) : j # i => new[j] = seq[j]
BY ExceptSeq

\* A creation that goes on with its session, or leaves it.
LEMMA CreationGoesOn ==
    ASSUME SessionsInv, NEW c \in Creators, creator[c].pc # "idle",
           NEW k \in CreationType, NEW s \in SessionType,
           creator' = [creator EXCEPT ![c] = k],
           sessions' = [sessions EXCEPT ![creator[c].id] = s],
           k.pc # "idle" => k.id = creator[c].id /\ UnderWay(k, s),
           disclosed' = disclosed
    PROVE  SessionsInv'
<1> DEFINE i == creator[c].id
<1>1. /\ i \in 1 .. Len(sessions) /\ sessions \in Seq(SessionType)
      /\ creator \in [Creators -> CreationType]
  BY DEF SessionsInv, TypeOK, CreationInv
<1>2. /\ sessions' \in Seq(SessionType) /\ Len(sessions') = Len(sessions)
      /\ sessions'[i] = s
      /\ \A j \in 1 .. Len(sessions) : j # i => sessions'[j] = sessions[j]
  BY <1>1, OneWritten
<1>3. creator'[c] = k /\ \A d \in Creators \ {c} : creator'[d] = creator[d]
  BY <1>1
<1>4. TypeOK'
  BY <1>1, <1>2 DEF SessionsInv, TypeOK
<1>5. CreationInv'
  <2> SUFFICES ASSUME NEW d \in Creators, creator'[d].pc # "idle"
               PROVE  /\ creator'[d].id \in 1 .. Len(sessions')
                      /\ UnderWay(creator'[d], sessions'[creator'[d].id])
    BY DEF CreationInv
  <2>1. CASE d = c
    BY <1>1, <1>2, <1>3, <2>1
  <2>2. CASE d # c
    <3>1. /\ creator'[d] = creator[d] /\ creator[d].id # i
          /\ creator[d].id \in 1 .. Len(sessions)
          /\ UnderWay(creator[d], sessions[creator[d].id])
      BY <1>3, <2>2 DEF SessionsInv, CreationInv, DistinctInv
    <3>2. QED
      BY <1>2, <3>1
  <2>3. QED
    BY <2>1, <2>2
<1>6. DistinctInv'
  BY <1>3 DEF SessionsInv, DistinctInv
<1>7. DisclosedInv'
  <2> SUFFICES ASSUME NEW d \in disclosed
               PROVE  d.id \in 1 .. Len(sessions') /\ Complete(d, sessions'[d.id])
    BY DEF DisclosedInv
  <2>1. /\ d.id # i /\ d.id \in 1 .. Len(sessions) /\ Complete(d, sessions[d.id])
    BY DEF SessionsInv, DisclosedInv, DistinctInv
  <2>2. QED
    BY <1>2, <2>1
<1>8. QED
  BY <1>4, <1>5, <1>6, <1>7 DEF SessionsInv

\* A creation that leaves its session as it is.
LEMMA CreationOnlyGoesOn ==
    ASSUME SessionsInv, NEW c \in Creators, creator[c].pc # "idle",
           NEW k \in CreationType,
           creator' = [creator EXCEPT ![c] = k], sessions' = sessions,
           k.pc # "idle" => /\ k.id = creator[c].id
                            /\ UnderWay(k, sessions[creator[c].id]),
           disclosed' = disclosed
    PROVE  SessionsInv'
<1>1. creator[c].id \in 1 .. Len(sessions) /\ sessions \in Seq(SessionType)
  BY DEF SessionsInv, TypeOK, CreationInv
<1>2. sessions[creator[c].id] \in SessionType
  BY <1>1
<1>3. sessions' = [sessions EXCEPT ![creator[c].id] = sessions[creator[c].id]]
  BY <1>1
<1> DEFINE s == sessions[creator[c].id]
<1> HIDE DEF s
<1>4. s \in SessionType /\ sessions' = [sessions EXCEPT ![creator[c].id] = s]
      /\ (k.pc # "idle" => k.id = creator[c].id /\ UnderWay(k, s))
  BY <1>2, <1>3 DEF s
<1>5. QED
  BY <1>4, CreationGoesOn

\* What the invariant says of a creation at work.
LEMMA AtWork ==
    ASSUME SessionsInv, NEW c \in Creators, creator[c].pc # "idle"
    PROVE  /\ creator[c] \in CreationType
           /\ creator[c].id \in 1 .. Len(sessions)
           /\ sessions[creator[c].id] \in SessionType
           /\ UnderWay(creator[c], sessions[creator[c].id])
<1>1. creator[c].id \in 1 .. Len(sessions) /\ sessions \in Seq(SessionType)
  BY DEF SessionsInv, TypeOK, CreationInv
<1>2. sessions[creator[c].id] \in SessionType
  BY <1>1
<1>3. QED
  BY <1>1, <1>2 DEF SessionsInv, TypeOK, CreationInv

LEMMA BeginKeeps ==
    ASSUME SessionsInv, NEW c \in Creators, Begin(c) PROVE SessionsInv'
<1>1. PICK o \in Owners, b \in Bodies : creator' = [creator EXCEPT ![c] =
        [pc |-> "own", id |-> Len(sessions) + 1, owner |-> o,
         asked |-> Len(b), todo |-> b]]
  BY DEF Begin
<1> DEFINE k == [pc |-> "own", id |-> Len(sessions) + 1, owner |-> o,
                 asked |-> Len(b), todo |-> b]
<1>2. /\ sessions \in Seq(SessionType) /\ Len(sessions) \in Nat
      /\ creator \in [Creators -> CreationType]
  BY DEF SessionsInv, TypeOK
<1>3. b \in Seq(BOOLEAN)
  BY SessionsAssumption
<1>4. NewSession \in SessionType /\ k \in CreationType
  <2>1. <<>> \in Seq(VectorSetType)
    OBVIOUS
  <2>2. Len(b) \in Nat
    BY <1>3
  <2>3. NewSession \in SessionType
    BY <2>1 DEF NewSession, SessionType
  <2>4. k \in CreationType
    BY <1>2, <1>3, <2>2 DEF CreationType
  <2>5. QED
    BY <2>3, <2>4
<1>5. UnderWay(k, NewSession)
  BY <1>3 DEF UnderWay, NewSession
<1>6. k.pc # "idle" /\ k.id = Len(sessions) + 1
  OBVIOUS
<1>7. creator' = [creator EXCEPT ![c] = k]
  BY <1>1
<1> HIDE DEF k
<1>8. /\ sessions' \in Seq(SessionType) /\ Len(sessions') = Len(sessions) + 1
      /\ sessions'[Len(sessions) + 1] = NewSession
      /\ \A j \in 1 .. Len(sessions) : sessions'[j] = sessions[j]
  BY <1>2, <1>4, AppendProperties DEF Begin
<1>9. creator'[c] = k /\ \A d \in Creators \ {c} : creator'[d] = creator[d]
  BY <1>2, <1>7
<1>10. TypeOK'
  BY <1>2, <1>4, <1>7, <1>8 DEF SessionsInv, TypeOK, Begin
<1>11. CreationInv'
  <2> SUFFICES ASSUME NEW d \in Creators, creator'[d].pc # "idle"
               PROVE  /\ creator'[d].id \in 1 .. Len(sessions')
                      /\ UnderWay(creator'[d], sessions'[creator'[d].id])
    BY DEF CreationInv
  <2>1. CASE d = c
    <3>1. creator'[d] = k /\ k.id \in 1 .. Len(sessions')
      BY <1>2, <1>6, <1>8, <1>9, <2>1
    <3>2. sessions'[k.id] = NewSession
      BY <1>6, <1>8
    <3>3. QED
      BY <1>5, <3>1, <3>2
  <2>2. CASE d # c
    <3>1. /\ creator'[d] = creator[d] /\ creator[d].id \in 1 .. Len(sessions)
          /\ UnderWay(creator[d], sessions[creator[d].id])
      BY <1>9, <2>2 DEF SessionsInv, CreationInv
    <3>2. QED
      BY <1>2, <1>8, <3>1
  <2>3. QED
    BY <2>1, <2>2
<1>12. DistinctInv'
  <2>1. disclosed' = disclosed
    BY DEF Begin
  <2>2. \A d \in disclosed : d.id # Len(sessions) + 1
    BY <1>2 DEF SessionsInv, DisclosedInv
  <2>3. \A d \in Creators : creator[d].pc # "idle" => creator[d].id # Len(sessions) + 1
    BY <1>2 DEF SessionsInv, CreationInv
  <2>4. QED
    BY <1>6, <1>9, <2>1, <2>2, <2>3 DEF SessionsInv, DistinctInv
<1>13. DisclosedInv'
  <2> SUFFICES ASSUME NEW d \in disclosed
               PROVE  d.id \in 1 .. Len(sessions') /\ Complete(d, sessions'[d.id])
    BY DEF DisclosedInv, Begin
  <2>1. d.id \in 1 .. Len(sessions) /\ Complete(d, sessions[d.id])
    BY DEF SessionsInv, DisclosedInv
  <2>2. QED
    BY <1>2, <1>8, <2>1
<1>14. QED
  BY <1>10, <1>11, <1>12, <1>13 DEF SessionsInv

LEMMA OwnSessionKeeps ==
    ASSUME SessionsInv, NEW c \in Creators, OwnSession(c) PROVE SessionsInv'
<1> DEFINE i == creator[c].id
           k == [creator[c] EXCEPT !.pc = "stamp"]
           s == [sessions[i] EXCEPT !.owner = creator[c].owner]
<1>1. /\ creator[c] \in CreationType /\ sessions[i] \in SessionType
      /\ UnderWay(creator[c], sessions[i]) /\ creator[c].pc = "own"
  BY AtWork DEF OwnSession
<1>2. k \in CreationType /\ s \in SessionType
  BY <1>1 DEF CreationType, SessionType
<1>3. k.id = i /\ UnderWay(k, s)
  BY <1>1 DEF UnderWay, CreationType, SessionType
<1>4. /\ creator' = [creator EXCEPT ![c] = k]
      /\ sessions' = [sessions EXCEPT ![i] = s]
      /\ disclosed' = disclosed
  BY DEF OwnSession
<1> HIDE DEF k, s
<1>5. QED
  BY <1>1, <1>2, <1>3, <1>4, CreationGoesOn

LEMMA StampSessionKeeps ==
    ASSUME SessionsInv, NEW c \in Creators, StampSession(c) PROVE SessionsInv'
<1> DEFINE i == creator[c].id
           k == [creator[c] EXCEPT !.pc = "algorithms"]
           s == [sessions[i] EXCEPT !.stamped = TRUE]
<1>1. /\ creator[c] \in CreationType /\ sessions[i] \in SessionType
      /\ UnderWay(creator[c], sessions[i]) /\ creator[c].pc = "stamp"
  BY AtWork DEF StampSession
<1>2. k \in CreationType /\ s \in SessionType
  BY <1>1 DEF CreationType, SessionType
<1>3. k.id = i /\ UnderWay(k, s)
  BY <1>1 DEF UnderWay, CreationType, SessionType
<1>4. /\ creator' = [creator EXCEPT ![c] = k]
      /\ sessions' = [sessions EXCEPT ![i] = s]
      /\ disclosed' = disclosed
  BY DEF StampSession
<1> HIDE DEF k, s
<1>5. QED
  BY <1>1, <1>2, <1>3, <1>4, CreationGoesOn

LEMMA AddVectorSetKeeps ==
    ASSUME SessionsInv, NEW c \in Creators, AddVectorSet(c) PROVE SessionsInv'
<1> DEFINE i == creator[c].id
           t == creator[c].todo
           sets == sessions[i].vector_sets
           k == [creator[c] EXCEPT !.pc = "registered", !.todo = Tail(t)]
           s == [sessions[i] EXCEPT !.vector_sets = Append(sets, NewSet)]
<1>1. /\ creator[c] \in CreationType /\ sessions[i] \in SessionType
      /\ UnderWay(creator[c], sessions[i])
      /\ creator[c].pc = "algorithms" /\ t # <<>>
  BY AtWork DEF AddVectorSet, Parse
<1>2. t \in Seq(BOOLEAN) /\ Tail(t) \in Seq(BOOLEAN) /\ Len(Tail(t)) = Len(t) - 1
  <2>1. t \in Seq(BOOLEAN)
    BY <1>1 DEF CreationType
  <2>2. QED
    BY <1>1, <2>1, HeadTailProperties
<1>3. NewSet \in VectorSetType /\ sets \in Seq(VectorSetType)
  BY <1>1 DEF NewSet, VectorSetType, SessionType
<1>4. /\ Append(sets, NewSet) \in Seq(VectorSetType)
      /\ Append(sets, NewSet) # <<>>
      /\ Len(Append(sets, NewSet)) = Len(sets) + 1
      /\ \A j \in 1 .. Len(sets) : Append(sets, NewSet)[j] = sets[j]
  BY <1>3, AppendProperties
<1>5. k \in CreationType /\ s \in SessionType
  BY <1>1, <1>2, <1>4 DEF CreationType, SessionType
<1>6. /\ k.id = i /\ k.pc = "registered" /\ k.todo = Tail(t)
      /\ k.asked = creator[c].asked /\ k.owner = creator[c].owner
      /\ s.owner = sessions[i].owner /\ s.stamped = sessions[i].stamped
      /\ s.vector_sets = Append(sets, NewSet)
  BY <1>1 DEF CreationType, SessionType
<1>7. /\ creator' = [creator EXCEPT ![c] = k]
      /\ sessions' = [sessions EXCEPT ![i] = s]
      /\ disclosed' = disclosed
  BY DEF AddVectorSet
<1> HIDE DEF k, s
<1>8. \A j \in 1 .. Len(sets) : Whole(sets[j])
  BY <1>1 DEF UnderWay
<1>9. \A j \in 1 .. Len(sets) + 1 : j \in 1 .. Len(sets) \/ j = Len(sets) + 1
  BY <1>3
<1>10. /\ Len(sets) \in Nat /\ Len(t) \in Nat
      /\ Len(sets) + Len(t) = k.asked
      /\ sessions[i].owner = k.owner /\ sessions[i].stamped
  <2>1. Len(sets) \in Nat /\ Len(t) \in Nat
    BY <1>2, <1>3
  <2>2. Len(sets) + Len(t) = creator[c].asked
    BY <1>1 DEF UnderWay
  <2>3. sessions[i].owner = creator[c].owner /\ sessions[i].stamped
    BY <1>1 DEF UnderWay
  <2>4. QED
    BY <1>6, <2>1, <2>2, <2>3
<1>11. UnderWay(k, s)
  <2>1. Len(s.vector_sets) + Len(k.todo) = k.asked
    <3>1. Len(s.vector_sets) = Len(sets) + 1 /\ Len(k.todo) = Len(t) - 1
      BY <1>2, <1>4, <1>6
    <3>2. Len(sets) \in Nat /\ Len(t) \in Nat /\ Len(sets) + Len(t) = k.asked
      BY <1>10
    <3> HIDE DEF sets, t
    <3>3. QED
      BY <3>1, <3>2
  <2>2. \A j \in 1 .. Len(s.vector_sets) :
           Whole(s.vector_sets[j]) \/ j = Len(s.vector_sets)
    BY <1>4, <1>6, <1>8, <1>9
  <2>3. QED
    BY <1>4, <1>6, <1>10, <2>1, <2>2 DEF UnderWay
<1>12. QED
  BY <1>1, <1>5, <1>6, <1>7, <1>11, CreationGoesOn

\* One of the two stamps, which are the two fields of a vector set.
LEMMA StampSetKeeps ==
    ASSUME SessionsInv, NEW c \in Creators, NEW here, NEW there,
           \/ here = "registered" /\ there = "generating"
           \/ here = "generating" /\ there = "algorithms",
           StampSet(c, here, there)
    PROVE  SessionsInv'
<1> DEFINE i == creator[c].id
           sets == sessions[i].vector_sets
           n == Len(sets)
           v == [sets[n] EXCEPT ![here] = TRUE]
           k == [creator[c] EXCEPT !.pc = there]
           s == [sessions[i] EXCEPT !.vector_sets = [sets EXCEPT ![n] = v]]
<1>1. /\ creator[c] \in CreationType /\ sessions[i] \in SessionType
      /\ UnderWay(creator[c], sessions[i])
      /\ creator[c].pc = here
  BY AtWork DEF StampSet
<1>2. sets \in Seq(VectorSetType) /\ sets # <<>> /\ n \in 1 .. Len(sets)
  <2>1. sets \in Seq(VectorSetType) /\ sets # <<>>
    BY <1>1 DEF SessionType, UnderWay
  <2>2. QED
    BY <2>1
<1>3. sets[n] \in VectorSetType
  BY <1>2
<1>4. v \in VectorSetType
  BY <1>3 DEF VectorSetType
<1>5. IF here = "registered" THEN v.registered ELSE Whole(v)
  <2>1. CASE here = "registered"
    BY <1>3, <2>1 DEF VectorSetType
  <2>2. CASE here = "generating"
    <3>1. v.generating
      BY <1>3, <2>2 DEF VectorSetType
    <3>2. Whole(sets[n]) \/ sets[n].registered
      BY <1>1, <1>2, <2>2 DEF UnderWay
    <3>3. v.registered
      BY <1>3, <2>2, <3>2 DEF VectorSetType, Whole
    <3>4. QED
      BY <2>2, <3>1, <3>3 DEF Whole
  <2>3. QED
    BY <2>1, <2>2
<1> HIDE DEF v
<1>6. /\ [sets EXCEPT ![n] = v] \in Seq(VectorSetType)
      /\ Len([sets EXCEPT ![n] = v]) = n
      /\ [sets EXCEPT ![n] = v][n] = v
      /\ \A j \in 1 .. n : j # n => [sets EXCEPT ![n] = v][j] = sets[j]
  BY <1>2, <1>4, OneWritten
<1>7. k \in CreationType /\ s \in SessionType
  BY <1>1, <1>6 DEF CreationType, SessionType
<1>8. /\ k.id = i /\ k.pc = there /\ k.todo = creator[c].todo
      /\ k.asked = creator[c].asked /\ k.owner = creator[c].owner
      /\ s.owner = sessions[i].owner /\ s.stamped = sessions[i].stamped
      /\ s.vector_sets = [sets EXCEPT ![n] = v]
  BY <1>1 DEF CreationType, SessionType
<1>9. /\ creator' = [creator EXCEPT ![c] = k]
      /\ sessions' = [sessions EXCEPT ![i] = s]
      /\ disclosed' = disclosed
  BY DEF StampSet, v
<1> HIDE DEF k, s
<1>10. UnderWay(k, s)
  <2>1. \A j \in 1 .. n : j # n => Whole(s.vector_sets[j])
    BY <1>1, <1>6, <1>8 DEF UnderWay
  <2>2. s.vector_sets[n] = v
    BY <1>6, <1>8
  <2>3. Len(s.vector_sets) = n /\ s.vector_sets # <<>>
    BY <1>2, <1>6, <1>8
  <2>4. n + Len(k.todo) = k.asked /\ s.owner = k.owner /\ s.stamped
    BY <1>1, <1>8 DEF UnderWay
  <2>5. \A j \in 1 .. n : \/ Whole(s.vector_sets[j])
                          \/ j = n /\ k.pc = "generating" /\ s.vector_sets[j].registered
    BY <1>5, <1>8, <2>1, <2>2
  <2>6. k.pc \notin {"own", "stamp"}
    BY <1>8
  <2>7. QED
    BY <2>3, <2>4, <2>5, <2>6 DEF UnderWay
<1>11. QED
  BY <1>1, <1>7, <1>8, <1>9, <1>10, CreationGoesOn

LEMMA RefuseKeeps ==
    ASSUME SessionsInv, NEW c \in Creators, Refuse(c) PROVE SessionsInv'
<1>1. Idle \in CreationType /\ Idle.pc = "idle"
  <2>1. <<>> \in Seq(BOOLEAN)
    OBVIOUS
  <2>2. QED
    BY <2>1 DEF Idle, CreationType
<1>2. /\ creator' = [creator EXCEPT ![c] = Idle]
      /\ sessions' = sessions /\ disclosed' = disclosed
      /\ creator[c].pc # "idle"
  BY DEF Refuse, Parse
<1>3. QED
  BY <1>1, <1>2, CreationOnlyGoesOn

\* What is disclosed is complete, and its creation lets go of it.
LEMMA DiscloseKeeps ==
    ASSUME SessionsInv, NEW c \in Creators, Disclose(c) PROVE SessionsInv'
<1> DEFINE k == creator[c]
           d == [id |-> k.id, owner |-> k.owner, asked |-> k.asked]
<1>1. /\ creator[c] \in CreationType /\ k.id \in 1 .. Len(sessions)
      /\ sessions[k.id] \in SessionType
      /\ UnderWay(k, sessions[k.id]) /\ k.pc = "algorithms" /\ k.todo = <<>>
  BY AtWork DEF Disclose
<1>2. Complete(d, sessions[k.id])
  <2>1. Len(sessions[k.id].vector_sets) = k.asked
    BY <1>1 DEF UnderWay, SessionType
  <2>2. QED
    BY <1>1, <2>1 DEF UnderWay, Complete
<1>3. /\ creator \in [Creators -> CreationType]
      /\ creator' = [creator EXCEPT ![c] = Idle]
      /\ sessions' = sessions /\ disclosed' = disclosed \union {d}
  BY DEF SessionsInv, TypeOK, Disclose
<1>4. Idle \in CreationType /\ Idle.pc = "idle"
  <2>1. <<>> \in Seq(BOOLEAN)
    OBVIOUS
  <2>2. QED
    BY <2>1 DEF Idle, CreationType
<1>5. creator'[c].pc = "idle" /\ \A b \in Creators \ {c} : creator'[b] = creator[b]
  BY <1>3, <1>4
<1>6. d \in [id : Nat, owner : Owners \union {Nobody}, asked : Nat] /\ d.id = k.id
  BY <1>1 DEF CreationType
<1> HIDE DEF d
<1>7. TypeOK'
  BY <1>3, <1>4, <1>6 DEF SessionsInv, TypeOK
<1>8. CreationInv'
  BY <1>3, <1>5 DEF SessionsInv, CreationInv
<1>9. DistinctInv'
  BY <1>1, <1>3, <1>5, <1>6 DEF SessionsInv, DistinctInv
<1>10. DisclosedInv'
  BY <1>1, <1>2, <1>3, <1>6 DEF SessionsInv, DisclosedInv
<1>11. QED
  BY <1>7, <1>8, <1>9, <1>10 DEF SessionsInv

\* A cancellation takes nothing from a session but its place in the listings.
LEMMA CancelKeeps ==
    ASSUME SessionsInv, NEW d, NEW i, Cancel(d, i) PROVE SessionsInv'
<1> DEFINE s == [sessions[i] EXCEPT !.cancelled = TRUE]
<1>1. i \in 1 .. Len(sessions) /\ sessions \in Seq(SessionType)
  BY DEF SessionsInv, TypeOK, Cancel, Found
<1>2. sessions[i] \in SessionType
  BY <1>1
<1>3. /\ s \in SessionType /\ s.owner = sessions[i].owner
      /\ s.stamped = sessions[i].stamped
      /\ s.vector_sets = sessions[i].vector_sets
  BY <1>2 DEF SessionType
<1>4. /\ sessions' = [sessions EXCEPT ![i] = s]
      /\ creator' = creator /\ disclosed' = disclosed
  BY DEF Cancel
<1> HIDE DEF s
<1>5. /\ sessions' \in Seq(SessionType) /\ Len(sessions') = Len(sessions)
      /\ sessions'[i] = s
      /\ \A j \in 1 .. Len(sessions) : j # i => sessions'[j] = sessions[j]
  BY <1>1, <1>3, <1>4, OneWritten
<1>6. \A j \in 1 .. Len(sessions) :
         /\ sessions'[j].owner = sessions[j].owner
         /\ sessions'[j].stamped = sessions[j].stamped
         /\ sessions'[j].vector_sets = sessions[j].vector_sets
  BY <1>3, <1>5
<1>7. TypeOK' /\ DistinctInv'
  BY <1>4, <1>5 DEF SessionsInv, TypeOK, DistinctInv
<1>8. CreationInv'
  <2> SUFFICES ASSUME NEW c \in Creators, creator[c].pc # "idle"
               PROVE  /\ creator[c].id \in 1 .. Len(sessions')
                      /\ UnderWay(creator[c], sessions'[creator[c].id])
    BY <1>4 DEF CreationInv
  <2>1. /\ creator[c].id \in 1 .. Len(sessions)
        /\ UnderWay(creator[c], sessions[creator[c].id])
    BY AtWork
  <2>2. UnderWay(creator[c], sessions'[creator[c].id])
    BY <1>6, <2>1 DEF UnderWay
  <2>3. QED
    BY <1>5, <2>1, <2>2
<1>9. DisclosedInv'
  BY <1>4, <1>5, <1>6 DEF SessionsInv, DisclosedInv, Complete
<1>10. QED
  BY <1>7, <1>8, <1>9 DEF SessionsInv

LEMMA SessionsStep == SessionsInv /\ [Next]_vars => SessionsInv'
<1> SUFFICES ASSUME SessionsInv, [Next]_vars PROVE SessionsInv'
  OBVIOUS
<1>1. ASSUME NEW c \in Creators, Creation(c) PROVE SessionsInv'
  <2>1. CASE Begin(c)
    BY <2>1, BeginKeeps
  <2>2. CASE OwnSession(c) \/ StampSession(c)
    BY <2>2, OwnSessionKeeps, StampSessionKeeps
  <2>3. CASE AddVectorSet(c)
    BY <2>3, AddVectorSetKeeps
  <2>4. CASE StampVectorSet(c)
    BY <2>4, StampSetKeeps DEF StampVectorSet
  <2>5. CASE Refuse(c)
    BY <2>5, RefuseKeeps
  <2>6. CASE Disclose(c)
    BY <2>6, DiscloseKeeps
  <2>7. QED
    BY <1>1, <2>1, <2>2, <2>3, <2>4, <2>5, <2>6 DEF Creation
<1>2. ASSUME NEW d, NEW i, Cancel(d, i) PROVE SessionsInv'
  BY <1>2, CancelKeeps
<1>3. ASSUME UNCHANGED <<sessions, creator, disclosed>> PROVE SessionsInv'
  BY <1>3 DEF SessionsInv, TypeOK, CreationInv, DistinctInv, DisclosedInv
<1>4. CASE Restart
  <2>1. Idle \in CreationType /\ Idle.pc = "idle"
    <3>1. <<>> \in Seq(BOOLEAN)
      OBVIOUS
    <3>2. QED
      BY <3>1 DEF Idle, CreationType
  <2>2. QED
    BY <1>4, <2>1 DEF Restart, SessionsInv, TypeOK, CreationInv, DistinctInv,
                      DisclosedInv
<1>5. QED
  BY <1>1, <1>2, <1>3, <1>4 DEF Next, vars

\* Every creation is at work on a session of its own, and has brought it as far as
\* its own place in create_test_session says.
THEOREM SessionsInvariance == Spec => []SessionsInv
BY StartsWell, SessionsStep, PTL DEF Spec

\* DisclosedIsComplete of Sessions.tla, for every number of creations, sessions and
\* algorithms: a client that holds a session's token finds the session as it asked
\* for it.
THEOREM DisclosedIsCompleteHolds == Spec => []DisclosedIsComplete
<1>1. SessionsInv => DisclosedIsComplete
  <2> SUFFICES ASSUME SessionsInv, NEW d \in disclosed
               PROVE  /\ sessions[d.id].owner = d.owner /\ sessions[d.id].stamped
                      /\ Len(sessions[d.id].vector_sets) = d.asked
                      /\ \A v \in ToSet(sessions[d.id].vector_sets) :
                            v.registered /\ v.generating
    BY DEF DisclosedIsComplete
  <2>1. d.id \in 1 .. Len(sessions) /\ Complete(d, sessions[d.id])
        /\ sessions \in Seq(SessionType)
    BY DEF SessionsInv, DisclosedInv, TypeOK
  <2>2. sessions[d.id].vector_sets \in Seq(VectorSetType)
    <3>1. sessions[d.id] \in SessionType
      BY <2>1
    <3>2. QED
      BY <3>1 DEF SessionType
  <2>3. QED
    BY <2>1, <2>2 DEF Complete, Whole, ToSet
<1>2. QED
  BY <1>1, SessionsInvariance, PTL

-----------------------------------------------------------------------------
(* The walk.  What is unseen of the sessions it began with is in a listing *)
(* that a later page shows a section of, except for those that are lost:   *)
(* these, and what a scan has found and is cancelled since, are never more *)
(* than the cancelled.                                                     *)

WalkType == [pc : {"idle", "ask", "scan", "done"}, owner : Owners \union {Nobody},
             offset : Nat, limit : Nat \ {0}, at : Nat, size : Nat, found : Seq(Int),
             seen : SUBSET Int, standing : SUBSET Int, gone : SUBSET Int]

\* What the request under way makes pages of if the listing L stays as it is: a scan
\* has some of it in hand.
Shown(w, L) == IF w.pc = "scan" THEN ToSet(w.found) \union {s \in L : s <= w.at} ELSE L

ScanOK(w) == /\ w.pc = "ask" => w.found = <<>>
             /\ w.pc = "scan" => /\ Descending(w.found) /\ w.at <= w.size
                                 /\ \A s \in ToSet(w.found) : s > w.at

LossOK(w, L) == Cardinality(Lost(w.standing \ w.seen, Shown(w, L), w.offset))
                  + Cardinality(Shown(w, L) \ L) <= Cardinality(w.gone)

WalkOK(w) ==
    /\ w \in WalkType /\ IsFiniteSet(w.standing) /\ IsFiniteSet(w.gone)
    /\ \A s \in w.gone : s \in 1 .. Len(sessions) /\ sessions[s].cancelled
    /\ ScanOK(w)
    /\ w.pc \in {"ask", "scan"} => w.owner \in Owners /\ LossOK(w, Listing(w.owner))
    /\ w.pc = "done" => Cardinality(w.standing) <= Cardinality(w.gone)

WalkInv == WalkOK(walk)

LEMMA NoWalkTyped == NoWalk \in WalkType
<1>1. <<>> \in Seq(Int)
  OBVIOUS
<1>2. QED
  BY <1>1 DEF NoWalk, WalkType

LEMMA WalkStartsWell == Init => WalkInv
<1> SUFFICES ASSUME Init PROVE WalkInv
  OBVIOUS
<1>1. walk = NoWalk /\ NoWalk \in WalkType
  BY NoWalkTyped DEF Init
<1>2. /\ NoWalk.pc = "idle" /\ IsFiniteSet(NoWalk.standing)
      /\ IsFiniteSet(NoWalk.gone) /\ NoWalk.gone = {}
  BY FS_EmptySet DEF NoWalk
<1>3. QED
  BY <1>1, <1>2 DEF WalkInv, WalkOK, ScanOK

\* While the sessions stay as they are, it is enough to look at the walk.
LEMMA WalkMoves ==
    ASSUME sessions' = sessions, NEW w, WalkOK(w), walk' = w
    PROVE  WalkInv'
BY DEF WalkInv, WalkOK, ScanOK, LossOK, Shown, Listing, Listed

LEMMA ListingFinite ==
    ASSUME Len(sessions) \in Nat, NEW o
    PROVE  Listing(o) \in SUBSET Int /\ IsFiniteSet(Listing(o))
BY NewestFirstLists

LEMMA ShownFinite ==
    ASSUME NEW w \in WalkType, ScanOK(w), NEW L \in SUBSET Int, IsFiniteSet(L)
    PROVE  Shown(w, L) \in SUBSET Int /\ IsFiniteSet(Shown(w, L))
<1> DEFINE A == {s \in L : s <= w.at}
<1>1. CASE w.pc = "scan"
  <2>1. w.found \in Seq(Int) /\ Descending(w.found)
    BY <1>1 DEF WalkType, ScanOK
  <2>2. ToSet(w.found) \in SUBSET Int /\ IsFiniteSet(ToSet(w.found))
    BY <2>1, DescendingRanks
  <2>3. A \in SUBSET L /\ IsFiniteSet(A)
    BY FS_Subset
  <2>4. Shown(w, L) = ToSet(w.found) \union A
    BY <1>1 DEF Shown
  <2>5. IsFiniteSet(ToSet(w.found) \union A)
    BY <2>2, <2>3, FS_Union
  <2>6. QED
    BY <2>2, <2>3, <2>4, <2>5
<1>2. CASE w.pc # "scan"
  BY <1>2 DEF Shown
<1>3. QED
  BY <1>1, <1>2

\* The same loss, or less of it: fewer are lost from what is shown, and no more of
\* what is shown is gone.
LEMMA LossShrinks ==
    ASSUME NEW A, IsFiniteSet(A), NEW B \in SUBSET A,
           NEW C, IsFiniteSet(C), NEW D \in SUBSET C
    PROVE  /\ Cardinality(B) \in Nat /\ Cardinality(D) \in Nat
           /\ Cardinality(A) \in Nat /\ Cardinality(C) \in Nat
           /\ Cardinality(B) + Cardinality(D) <= Cardinality(A) + Cardinality(C)
<1>1. /\ IsFiniteSet(B) /\ Cardinality(B) <= Cardinality(A)
      /\ IsFiniteSet(D) /\ Cardinality(D) <= Cardinality(C)
  BY FS_Subset
<1>2. /\ Cardinality(A) \in Nat /\ Cardinality(B) \in Nat
      /\ Cardinality(C) \in Nat /\ Cardinality(D) \in Nat
  BY <1>1, FS_CardinalityType
<1>3. QED
  BY <1>1, <1>2

\* What a creation does to the sessions that the others are: it gives its own
\* session an owner, and that is all that a listing sees of it.
LEMMA CreationLists ==
    ASSUME SessionsInv, NEW c \in Creators, Creation(c)
    PROVE  /\ Len(sessions) \in Nat /\ Len(sessions') \in Nat
           /\ \A s \in 1 .. Len(sessions) :
                 /\ s \in 1 .. Len(sessions')
                 /\ sessions'[s].cancelled = sessions[s].cancelled
                 /\ sessions[s].owner \in Owners =>
                      sessions'[s].owner = sessions[s].owner
<1> DEFINE i == creator[c].id
           Kept == /\ Len(sessions) \in Nat /\ Len(sessions') \in Nat
                   /\ \A s \in 1 .. Len(sessions) :
                         /\ s \in 1 .. Len(sessions')
                         /\ sessions'[s].cancelled = sessions[s].cancelled
                         /\ sessions[s].owner \in Owners =>
                              sessions'[s].owner = sessions[s].owner
<1>1. sessions \in Seq(SessionType) /\ Len(sessions) \in Nat
  BY DEF SessionsInv, TypeOK
<1>2. CASE Begin(c)
  <2>1. sessions' = Append(sessions, NewSession)
    BY <1>2 DEF Begin
  <2>2. /\ Len(sessions') = Len(sessions) + 1
        /\ \A s \in 1 .. Len(sessions) : sessions'[s] = sessions[s]
    BY <1>1, <2>1
  <2>3. QED
    BY <1>1, <2>2
<1>3. ASSUME creator[c].pc # "idle", NEW e \in SessionType,
             sessions' = [sessions EXCEPT ![i] = e],
             e.cancelled = sessions[i].cancelled,
             sessions[i].owner \in Owners => e.owner = sessions[i].owner
      PROVE  Kept
  <2>1. i \in 1 .. Len(sessions)
    BY <1>3, AtWork
  <2>2. /\ Len(sessions') = Len(sessions) /\ sessions'[i] = e
        /\ \A s \in 1 .. Len(sessions) : s # i => sessions'[s] = sessions[s]
    BY <1>1, <1>3, <2>1, OneWritten
  <2>3. QED
    BY <1>1, <1>3, <2>2
<1>4. CASE OwnSession(c)
  <2> DEFINE e == [sessions[i] EXCEPT !.owner = creator[c].owner]
  <2>1. /\ creator[c] \in CreationType /\ sessions[i] \in SessionType
        /\ UnderWay(creator[c], sessions[i]) /\ creator[c].pc = "own"
    BY <1>4, AtWork DEF OwnSession
  <2>2. e \in SessionType /\ e.cancelled = sessions[i].cancelled
    BY <2>1 DEF CreationType, SessionType
  <2>3. sessions[i].owner \notin Owners
    BY <2>1, SessionsAssumption DEF UnderWay
  <2>4. sessions' = [sessions EXCEPT ![i] = e]
    BY <1>4 DEF OwnSession
  <2> HIDE DEF e
  <2>5. QED
    BY <1>3, <2>1, <2>2, <2>3, <2>4
<1>5. CASE StampSession(c)
  <2> DEFINE e == [sessions[i] EXCEPT !.stamped = TRUE]
  <2>1. sessions[i] \in SessionType /\ creator[c].pc # "idle"
    BY <1>5, AtWork DEF StampSession
  <2>2. /\ e \in SessionType /\ e.cancelled = sessions[i].cancelled
        /\ e.owner = sessions[i].owner
    BY <2>1 DEF SessionType
  <2>3. sessions' = [sessions EXCEPT ![i] = e]
    BY <1>5 DEF StampSession
  <2> HIDE DEF e
  <2>4. QED
    BY <1>3, <2>1, <2>2, <2>3
<1>6. ASSUME creator[c].pc # "idle", NEW v \in Seq(VectorSetType),
             sessions' = [sessions EXCEPT ![i] = [@ EXCEPT !.vector_sets = v]]
      PROVE  Kept
  <2> DEFINE e == [sessions[i] EXCEPT !.vector_sets = v]
  <2>1. sessions[i] \in SessionType
    BY <1>6, AtWork
  <2>2. /\ e \in SessionType /\ e.cancelled = sessions[i].cancelled
        /\ e.owner = sessions[i].owner
    BY <2>1 DEF SessionType
  <2>3. sessions' = [sessions EXCEPT ![i] = e]
    BY <1>6
  <2> HIDE DEF e
  <2>4. QED
    BY <1>3, <1>6, <2>2, <2>3
<1>7. CASE AddVectorSet(c)
  <2> DEFINE sets == sessions[i].vector_sets
  <2>1. creator[c].pc # "idle" /\ sessions[i] \in SessionType
    BY <1>7, AtWork DEF AddVectorSet, Parse
  <2>2. sets \in Seq(VectorSetType) /\ NewSet \in VectorSetType
    BY <2>1 DEF SessionType, NewSet, VectorSetType
  <2>3. Append(sets, NewSet) \in Seq(VectorSetType)
    BY <2>2
  <2>4. sessions' = [sessions EXCEPT ![i] = [@ EXCEPT !.vector_sets = Append(sets, NewSet)]]
    BY <1>7 DEF AddVectorSet
  <2>5. QED
    BY <1>6, <2>1, <2>3, <2>4
<1>8. ASSUME NEW here, NEW there, StampSet(c, here, there),
             \/ here = "registered" /\ there = "generating"
             \/ here = "generating" /\ there = "algorithms"
      PROVE  Kept
  <2> DEFINE sets == sessions[i].vector_sets
             n == Len(sets)
             v == [sets EXCEPT ![n] = [sets[n] EXCEPT ![here] = TRUE]]
  <2>1. /\ creator[c].pc # "idle" /\ sessions[i] \in SessionType
        /\ UnderWay(creator[c], sessions[i]) /\ creator[c].pc = here
    BY <1>8, AtWork DEF StampSet
  <2>2. sets \in Seq(VectorSetType) /\ sets # <<>> /\ n \in 1 .. Len(sets)
    <3>1. sets \in Seq(VectorSetType) /\ sets # <<>>
      BY <1>8, <2>1 DEF SessionType, UnderWay
    <3>2. QED
      BY <3>1
  <2>3. [sets[n] EXCEPT ![here] = TRUE] \in VectorSetType
    <3>1. sets[n] \in VectorSetType
      BY <2>2
    <3>2. QED
      BY <3>1 DEF VectorSetType
  <2>4. v \in Seq(VectorSetType)
    BY <2>2, <2>3, OneWritten
  <2>5. sessions' = [sessions EXCEPT ![i] = [@ EXCEPT !.vector_sets = v]]
    BY <1>8 DEF StampSet
  <2> HIDE DEF v
  <2>6. QED
    BY <1>6, <2>1, <2>4, <2>5
<1>9. CASE Refuse(c) \/ Disclose(c)
  BY <1>1, <1>9 DEF Refuse, Disclose
<1>10. QED
  BY <1>2, <1>4, <1>5, <1>7, <1>8, <1>9 DEF Creation, StampVectorSet

\* A listing that grows shows no less, and no more of what is gone.
LEMMA ShownGrows ==
    ASSUME NEW w, NEW L, NEW M, L \subseteq M
    PROVE  /\ Shown(w, L) \subseteq Shown(w, M)
           /\ Shown(w, M) \ M \subseteq Shown(w, L) \ L
BY DEF Shown

LEMMA LossSettles ==
    ASSUME NEW w \in WalkType, ScanOK(w), IsFiniteSet(w.standing), IsFiniteSet(w.gone),
           NEW M \in SUBSET Int, IsFiniteSet(M), NEW L \in SUBSET M, LossOK(w, L)
    PROVE  LossOK(w, M)
<1> DEFINE U == w.standing \ w.seen
           V == Shown(w, L)
           W == Shown(w, M)
<1>1. L \in SUBSET Int /\ IsFiniteSet(L) /\ IsFiniteSet(U)
  BY FS_Subset, FS_Difference
<1>2. /\ V \in SUBSET Int /\ IsFiniteSet(V) /\ W \in SUBSET Int /\ IsFiniteSet(W)
  BY <1>1, ShownFinite
<1>3. V \in SUBSET W /\ W \ M \subseteq V \ L
  BY ShownGrows
<1>4. w.offset \in Nat
  BY DEF WalkType
<1> HIDE DEF U, V, W
<1>5. Lost(U, W, w.offset) \subseteq Lost(U, V, w.offset)
  BY <1>2, <1>3, <1>4, LostShrinks
<1>6. IsFiniteSet(Lost(U, V, w.offset)) /\ IsFiniteSet(V \ L)
  BY <1>1, <1>2, FS_Difference DEF Lost
<1>7. Cardinality(w.gone) \in Nat
  BY FS_CardinalityType
<1>8. Cardinality(Lost(U, V, w.offset)) + Cardinality(V \ L) <= Cardinality(w.gone)
  BY DEF LossOK, U, V
<1>9. Cardinality(Lost(U, W, w.offset)) + Cardinality(W \ M) <= Cardinality(w.gone)
  BY <1>3, <1>5, <1>6, <1>7, <1>8, LossShrinks
<1>10. QED
  BY <1>9 DEF LossOK, U, W

\* A creation adds to what the walk is shown, if anything.
LEMMA CreationKeepsWalk ==
    ASSUME SessionsInv, WalkInv, NEW c \in Creators, Creation(c), walk' = walk
    PROVE  WalkInv'
<1> DEFINE L == Listing(walk.owner)
           M == Listing(walk.owner)'
<1>1. /\ Len(sessions) \in Nat /\ Len(sessions') \in Nat
      /\ \A s \in 1 .. Len(sessions) :
            /\ s \in 1 .. Len(sessions')
            /\ sessions'[s].cancelled = sessions[s].cancelled
            /\ sessions[s].owner \in Owners => sessions'[s].owner = sessions[s].owner
  BY CreationLists
<1>2. /\ walk \in WalkType /\ ScanOK(walk)
      /\ IsFiniteSet(walk.standing) /\ IsFiniteSet(walk.gone)
  BY DEF WalkInv, WalkOK
<1>3. \A s \in walk.gone : s \in 1 .. Len(sessions') /\ sessions'[s].cancelled
  BY <1>1 DEF WalkInv, WalkOK
<1>4. ASSUME walk.pc \in {"ask", "scan"}
      PROVE  walk.owner \in Owners /\ LossOK(walk, M)
  <2>1. walk.owner \in Owners /\ LossOK(walk, L)
    BY <1>4 DEF WalkInv, WalkOK
  <2>2. L \subseteq M
    BY <1>1, <2>1 DEF Listing, Listed
  <2>3. M \in SUBSET Int /\ IsFiniteSet(M)
    <3>1. M \in SUBSET (1 .. Len(sessions')) /\ IsFiniteSet(1 .. Len(sessions'))
      BY <1>1, FS_Interval DEF Listing
    <3>2. (1 .. Len(sessions')) \subseteq Int
      BY <1>1
    <3> HIDE DEF M
    <3>3. QED
      BY <3>1, <3>2, FS_Subset
  <2> HIDE DEF L, M
  <2>4. QED
    BY <1>2, <2>1, <2>2, <2>3, LossSettles
<1>5. walk.pc = "done" => Cardinality(walk.standing) <= Cardinality(walk.gone)
  BY DEF WalkInv, WalkOK
<1>6. WalkOK(walk)'
  BY <1>2, <1>3, <1>4, <1>5 DEF WalkOK, ScanOK, LossOK, Shown
<1>7. QED
  BY <1>6 DEF WalkInv

\* A session that is cancelled may be lost, or be in the hand of a scan that it is
\* gone from: it cannot be both.
LEMMA CancelKeepsWalk ==
    ASSUME SessionsInv, WalkInv, NEW d, NEW i, Cancel(d, i) PROVE WalkInv'
<1> DEFINE o == walk.owner
           L == Listing(o)
           M == Listing(o)'
           g == IF walk.pc \in {"ask", "scan"} /\ o = sessions[i].owner
                  THEN walk.gone \union {i} ELSE walk.gone
           w == [walk EXCEPT !.gone = g]
<1>1. /\ i \in 1 .. Len(sessions) /\ ~sessions[i].cancelled
      /\ sessions \in Seq(SessionType) /\ Len(sessions) \in Nat
      /\ i \in Int
  BY DEF SessionsInv, TypeOK, Cancel, Found
<1>2. /\ Len(sessions') = Len(sessions) /\ sessions'[i].cancelled
      /\ \A s \in 1 .. Len(sessions) :
            /\ sessions'[s].owner = sessions[s].owner
            /\ s # i => sessions'[s].cancelled = sessions[s].cancelled
  <2> DEFINE e == [sessions[i] EXCEPT !.cancelled = TRUE]
  <2>1. sessions[i] \in SessionType
    BY <1>1
  <2>2. e \in SessionType /\ e.cancelled /\ e.owner = sessions[i].owner
    BY <2>1 DEF SessionType
  <2>3. sessions' = [sessions EXCEPT ![i] = e]
    BY DEF Cancel
  <2> HIDE DEF e
  <2>4. /\ Len(sessions') = Len(sessions) /\ sessions'[i] = e
        /\ \A s \in 1 .. Len(sessions) : s # i => sessions'[s] = sessions[s]
    BY <1>1, <2>2, <2>3, OneWritten
  <2>5. QED
    BY <2>2, <2>4
<1>4. L \in SUBSET Int /\ IsFiniteSet(L)
  BY <1>1, ListingFinite
<1>5. /\ walk \in WalkType /\ ScanOK(walk)
      /\ IsFiniteSet(walk.standing) /\ IsFiniteSet(walk.gone)
      /\ \A s \in walk.gone : s \in 1 .. Len(sessions) /\ sessions[s].cancelled
  BY DEF WalkInv, WalkOK
<1>6. walk' = w
  BY DEF Cancel
<1>3. M = L \ {i}
  <2>1. walk'.owner = o
    BY <1>5 DEF WalkType, Cancel
  <2>2. L \subseteq 1 .. Len(sessions) /\ M \subseteq 1 .. Len(sessions)
    BY <1>2 DEF Listing
  <2>3. ASSUME NEW s \in 1 .. Len(sessions) PROVE s \in M <=> s \in L /\ s # i
    BY <1>2, <2>1, <2>3 DEF Listing, Listed
  <2>4. QED
    BY <2>2, <2>3
<1>7. i \in L <=> o = sessions[i].owner
  BY <1>1 DEF Listing, Listed
<1>8. /\ g \in SUBSET Int /\ IsFiniteSet(g) /\ walk.gone \subseteq g
      /\ \A s \in g : s \in 1 .. Len(sessions') /\ sessions'[s].cancelled
  <2>1. walk.gone \in SUBSET Int
    BY <1>5 DEF WalkType
  <2>2. IsFiniteSet(walk.gone \union {i})
    BY <1>5, FS_AddElement
  <2>3. QED
    BY <1>1, <1>2, <1>5, <2>1, <2>2
<1> HIDE DEF L, M, g
<1>9. /\ w \in WalkType /\ ScanOK(w) /\ w.pc = walk.pc /\ w.owner = o
      /\ w.standing = walk.standing /\ w.seen = walk.seen
      /\ w.offset = walk.offset /\ w.gone = g
      /\ \A K : Shown(w, K) = Shown(walk, K)
  BY <1>5, <1>8 DEF WalkType, ScanOK, Shown
<1>10. ASSUME walk.pc \in {"ask", "scan"}
       PROVE  o \in Owners /\ LossOK(w, M)
  <2>1. o \in Owners /\ LossOK(walk, L)
    BY <1>10 DEF WalkInv, WalkOK, L
  <2>2. CASE i \notin L
    <3>1. M = L /\ g = walk.gone
      BY <1>3, <1>7, <2>2 DEF g
    <3>2. QED
      BY <1>9, <2>1, <3>1 DEF LossOK
  <2>3. CASE i \in L
    <3> DEFINE k == walk.offset
               U == walk.standing \ walk.seen
               V == Shown(walk, L)
               W == Shown(walk, M)
    <3>1. Cardinality(g) = Cardinality(walk.gone) + 1
      <4>1. g = walk.gone \union {i}
        BY <1>7, <1>10, <2>3 DEF g
      <4>2. i \notin walk.gone
        BY <1>1, <1>5
      <4>3. QED
        BY <1>5, <4>1, <4>2, FS_AddElement
    <3>2. /\ V \in SUBSET Int /\ IsFiniteSet(V) /\ k \in Nat /\ IsFiniteSet(U)
          /\ Cardinality(walk.gone) \in Nat
      BY <1>4, <1>5, ShownFinite, FS_Difference, FS_CardinalityType DEF WalkType
    <3>3. /\ (W = V \/ (W = V \ {i} /\ i \in V))
          /\ IsFiniteSet(V \ L) /\ IsFiniteSet(V \ M)
      <4>1. W = V \/ (W = V \ {i} /\ i \in V)
        <5>1. CASE walk.pc = "scan"
          <6>1. /\ V = ToSet(walk.found) \union {s \in L : s <= walk.at}
                /\ W = ToSet(walk.found) \union {s \in M : s <= walk.at}
                /\ \A s \in ToSet(walk.found) : s > walk.at
                /\ walk.at \in Int
            BY <1>5, <5>1 DEF Shown, ScanOK, WalkType
          <6>2. CASE i <= walk.at
            <7>1. i \notin ToSet(walk.found)
              BY <1>1, <6>1, <6>2
            <7>2. QED
              BY <1>3, <2>3, <6>1, <6>2, <7>1
          <6>3. CASE ~(i <= walk.at)
            <7>1. {s \in M : s <= walk.at} = {s \in L : s <= walk.at}
              BY <1>3, <6>3
            <7>2. QED
              BY <6>1, <7>1
          <6>4. QED
            BY <6>2, <6>3
        <5>2. CASE walk.pc = "ask"
          <6>1. V = L /\ W = M
            BY <5>2 DEF Shown
          <6>2. QED
            BY <1>3, <2>3, <6>1
        <5>3. QED
          BY <1>10, <5>1, <5>2
      <4>2. QED
        BY <3>2, <4>1, FS_Difference
    <3> HIDE DEF U, V, W, k
    <3>4. Cardinality(Lost(U, V, k)) + Cardinality(V \ L) <= Cardinality(walk.gone)
      BY <2>1 DEF LossOK, U, V, k
    <3>5. IsFiniteSet(Lost(U, V, k)) /\ IsFiniteSet(Lost(U, W, k))
      BY <3>2, FS_Difference DEF Lost
    <3>6. /\ Cardinality(Lost(U, V, k)) \in Nat /\ Cardinality(V \ L) \in Nat
          /\ Cardinality(Lost(U, W, k)) \in Nat
      BY <3>3, <3>5, FS_CardinalityType
    <3>7. Cardinality(Lost(U, W, k)) + Cardinality(W \ M) <= Cardinality(g)
      <4>1. CASE W = V
        <5>1. W \ M \subseteq (V \ L) \union {i}
          BY <1>3, <4>1
        <5>2. /\ IsFiniteSet((V \ L) \union {i})
              /\ Cardinality((V \ L) \union {i}) <= Cardinality(V \ L) + 1
          <6> DEFINE rest == V \ L
          <6>1. /\ IsFiniteSet(rest \union {i})
                /\ Cardinality(rest \union {i}) = IF i \in rest THEN Cardinality(rest)
                                                  ELSE Cardinality(rest) + 1
            BY <3>3, FS_AddElement
          <6>2. Cardinality(rest) \in Nat
            BY <3>6
          <6> HIDE DEF rest
          <6>3. QED
            BY <6>1, <6>2 DEF rest
        <5>3. Cardinality(W \ M) <= Cardinality((V \ L) \union {i})
          BY <5>1, <5>2, FS_Subset
        <5>4. Cardinality(W \ M) \in Nat /\ Cardinality((V \ L) \union {i}) \in Nat
          BY <3>3, <4>1, <5>2, FS_CardinalityType
        <5>5. QED
          BY <3>1, <3>2, <3>4, <3>6, <4>1, <5>2, <5>3, <5>4
      <4>2. CASE W = V \ {i} /\ i \in V
        <5>1. W \ M = V \ L
          BY <1>3, <2>3, <4>2
        <5>2. Cardinality(Lost(U, W, k)) <= Cardinality(Lost(U, V, k))
                                              + Cardinality(V \ W)
          <6>1. W \in SUBSET Int /\ IsFiniteSet(W)
            BY <3>2, <4>2, FS_Difference
          <6>2. QED
            BY <3>2, <6>1, LostGrows
        <5>3. V \ W = {i}
          BY <4>2
        <5>4. Cardinality(V \ W) = 1
          BY <5>3, FS_Singleton
        <5>5. QED
          BY <3>1, <3>2, <3>4, <3>6, <5>1, <5>2, <5>4
      <4>3. QED
        BY <3>3, <4>1, <4>2
    <3>8. QED
      BY <1>9, <2>1, <3>7 DEF LossOK, U, W, k
  <2>4. QED
    BY <2>2, <2>3
<1>11. w.pc = "done" => Cardinality(w.standing) <= Cardinality(w.gone)
  <2>1. g = walk.gone \/ walk.pc # "done"
    BY DEF g
  <2>2. QED
    BY <1>9, <2>1 DEF WalkInv, WalkOK
<1> HIDE DEF w
<1>12. WalkOK(walk)'
  <2>1. /\ walk' \in WalkType /\ IsFiniteSet(walk'.standing) /\ IsFiniteSet(walk'.gone)
        /\ \A s \in walk'.gone : s \in 1 .. Len(sessions') /\ sessions'[s].cancelled
        /\ ScanOK(walk')
        /\ walk'.pc = "done" => Cardinality(walk'.standing) <= Cardinality(walk'.gone)
    BY <1>5, <1>6, <1>8, <1>9, <1>11
  <2>2. walk'.pc \in {"ask", "scan"} => walk'.owner \in Owners /\ LossOK(walk', M)
    BY <1>6, <1>9, <1>10
  <2>3. QED
    BY <2>1, <2>2 DEF WalkOK, ScanOK, LossOK, Shown, M
<1>13. QED
  BY <1>12 DEF WalkInv

\* Nothing is lost, or in a scan's hand, when the walk begins.
LEMMA StartWalkKeeps ==
    ASSUME SessionsInv, WalkInv, StartWalk, sessions' = sessions PROVE WalkInv'
<1>1. PICK o \in Owners, offset \in Offsets, limit \in Limits :
        walk' = [NoWalk EXCEPT !.pc = "ask", !.owner = o, !.offset = Offset(offset),
                               !.limit = Limit(limit),
                               !.standing = {NewestFirst(o)[i] : i \in
                                   Offset(offset) + 1 .. Len(NewestFirst(o))}]
  BY DEF StartWalk
<1> DEFINE k == Offset(offset)
           q == NewestFirst(o)
           L == Listing(o)
           A == {q[i] : i \in k + 1 .. Len(q)}
           w == [NoWalk EXCEPT !.pc = "ask", !.owner = o, !.offset = k,
                               !.limit = Limit(limit), !.standing = A]
<1>2. k \in Nat /\ Limit(limit) \in Nat \ {0}
  BY Clamped, SessionsAssumption
<1>3. /\ L \in SUBSET Int /\ IsFiniteSet(L) /\ q \in Seq(Int)
      /\ Descending(q) /\ ToSet(q) = L /\ Len(q) \in Nat
  <2>1. Len(sessions) \in Nat
    BY DEF SessionsInv, TypeOK
  <2>2. QED
    BY <2>1, NewestFirstLists
<1> HIDE DEF k, q, L
<1>4. \A i \in 1 .. Len(q) : q[i] \in L /\ Rank(L, q[i]) = i - 1
  <2>1. \A i \in 1 .. Len(q) : q[i] \in L
    BY <1>3 DEF ToSet
  <2>2. \A i \in 1 .. Len(q) : Rank(ToSet(q), q[i]) = i - 1
    BY <1>3, DescendingRanks
  <2>3. QED
    BY <1>3, <2>1, <2>2
<1>5. \A i \in k + 1 .. Len(q) : i \in 1 .. Len(q) /\ ~(i - 1 < k)
  BY <1>2, <1>3
<1>6. A \in SUBSET L /\ A \in SUBSET Int /\ IsFiniteSet(A)
  <2>1. A \in SUBSET L
    BY <1>4, <1>5
  <2> HIDE DEF A
  <2>2. QED
    BY <1>3, <2>1, FS_Subset
<1>7. Lost(A, L, k) = {}
  <2>1. \A i \in k + 1 .. Len(q) : q[i] \in L /\ q[i] \notin Top(L, k)
    BY <1>4, <1>5 DEF Top
  <2>2. QED
    BY <2>1 DEF Lost
<1> HIDE DEF A
<1>8. /\ w \in WalkType /\ w.standing = A /\ w.gone = {} /\ w.seen = {}
      /\ w.pc = "ask" /\ w.owner = o /\ w.offset = k /\ w.found = <<>>
  <2>1. <<>> \in Seq(Int)
    OBVIOUS
  <2>2. QED
    BY <1>2, <1>6, <2>1 DEF NoWalk, WalkType
<1>9. walk' = w
  BY <1>1 DEF k, q, A
<1> HIDE DEF w
<1>10. LossOK(w, L)
  <2>1. w.standing \ w.seen = A /\ Shown(w, L) = L
    BY <1>8 DEF Shown
  <2>2. Lost(w.standing \ w.seen, Shown(w, L), w.offset) = {}
    BY <1>7, <1>8, <2>1
  <2>3. Shown(w, L) \ L = {}
    BY <2>1
  <2>4. Cardinality({}) = 0 /\ Cardinality(w.gone) = 0
    BY <1>8, FS_EmptySet
  <2>5. QED
    BY <2>2, <2>3, <2>4 DEF LossOK
<1>11. WalkOK(w)
  BY <1>6, <1>8, <1>10, FS_EmptySet DEF WalkOK, ScanOK, L
<1>12. QED
  BY <1>9, <1>11, WalkMoves

\* What a request of the walk has in hand.
LEMMA UnderWalk ==
    ASSUME SessionsInv, WalkInv, walk.pc \in {"ask", "scan"}
    PROVE  LET L == Listing(walk.owner)
               V == Shown(walk, L) IN
           /\ walk \in WalkType /\ walk.owner \in Owners /\ ScanOK(walk)
           /\ IsFiniteSet(walk.standing) /\ IsFiniteSet(walk.gone)
           /\ \A s \in walk.gone : s \in 1 .. Len(sessions) /\ sessions[s].cancelled
           /\ L \in SUBSET Int /\ IsFiniteSet(L) /\ L \subseteq 1 .. Len(sessions)
           /\ V \in SUBSET Int /\ IsFiniteSet(V)
           /\ LossOK(walk, L)
<1>1. /\ walk \in WalkType /\ walk.owner \in Owners /\ ScanOK(walk)
      /\ IsFiniteSet(walk.standing) /\ IsFiniteSet(walk.gone)
      /\ \A s \in walk.gone : s \in 1 .. Len(sessions) /\ sessions[s].cancelled
      /\ LossOK(walk, Listing(walk.owner))
  BY DEF WalkInv, WalkOK
<1>2. Listing(walk.owner) \in SUBSET Int /\ IsFiniteSet(Listing(walk.owner))
  <2>1. Len(sessions) \in Nat
    BY DEF SessionsInv, TypeOK
  <2>2. QED
    BY <2>1, ListingFinite
<1>3. Listing(walk.owner) \subseteq 1 .. Len(sessions)
  BY DEF Listing
<1>4. QED
  BY <1>1, <1>2, <1>3, ShownFinite

\* A request that starts over, with the listing as it is by now, loses no more than
\* what it had in hand and is cancelled.
LEMMA StartsOver ==
    ASSUME NEW w \in WalkType, ScanOK(w), IsFiniteSet(w.standing), IsFiniteSet(w.gone),
           NEW L \in SUBSET Int, IsFiniteSet(L),
           NEW V \in SUBSET Int, IsFiniteSet(V), NEW U, IsFiniteSet(U), NEW k \in Nat,
           Cardinality(Lost(U, V, k)) + Cardinality(V \ L) <= Cardinality(w.gone)
    PROVE  Cardinality(Lost(U, L, k)) + Cardinality(L \ L) <= Cardinality(w.gone)
<1>1. Cardinality(Lost(U, L, k)) <= Cardinality(Lost(U, V, k)) + Cardinality(V \ L)
  BY LostGrows
<1>2. IsFiniteSet(Lost(U, L, k)) /\ IsFiniteSet(Lost(U, V, k)) /\ IsFiniteSet(V \ L)
  BY FS_Difference DEF Lost
<1>3. /\ Cardinality(Lost(U, L, k)) \in Nat /\ Cardinality(Lost(U, V, k)) \in Nat
      /\ Cardinality(V \ L) \in Nat /\ Cardinality(w.gone) \in Nat
  BY <1>2, FS_CardinalityType
<1>4. L \ L = {} /\ Cardinality({}) = 0
  BY FS_EmptySet
<1>5. Cardinality(L \ L) = 0
  BY <1>4
<1>6. QED
  BY <1>1, <1>3, <1>5

\* Asking for the next page of what was in hand loses nothing; and what is still
\* unseen after the last page was lost.
LEMMA ReplyKeeps ==
    ASSUME SessionsInv, WalkInv, walk.pc \in {"ask", "scan"}, sessions' = sessions,
           NEW q \in Seq(Int), Descending(q),
           ToSet(q) = Shown(walk, Listing(walk.owner)), Reply(q)
    PROVE  WalkInv'
<1> DEFINE L == Listing(walk.owner)
           V == Shown(walk, L)
           k == walk.offset
           l == walk.limit
           U == walk.standing \ walk.seen
           page == ToSet(Page(q, k, l))
           seen == walk.seen \union page
<1>1. /\ walk \in WalkType /\ walk.owner \in Owners /\ ScanOK(walk)
      /\ IsFiniteSet(walk.standing) /\ IsFiniteSet(walk.gone)
      /\ \A s \in walk.gone : s \in 1 .. Len(sessions) /\ sessions[s].cancelled
      /\ L \in SUBSET Int /\ IsFiniteSet(L)
      /\ V \in SUBSET Int /\ IsFiniteSet(V)
      /\ LossOK(walk, L)
  BY UnderWalk
<1>2. k \in Nat /\ l \in Nat \ {0} /\ k + l \in Nat /\ walk.seen \in SUBSET Int
  BY <1>1 DEF WalkType
<1>3. page = Top(V, k + l) \ Top(V, k)
  BY <1>2, PageOfRanks
<1>4. Cardinality(V) = Len(q) /\ Len(q) \in Nat
  BY DescendingRanks
<1>5. page \in SUBSET Int /\ IsFiniteSet(U)
  BY <1>1, <1>3, FS_Difference DEF Top
<1>6. Cardinality(Lost(U, V, k)) + Cardinality(V \ L) <= Cardinality(walk.gone)
  BY <1>1 DEF LossOK
<1>7. walk.standing \ seen = U \ page
  OBVIOUS
<1> HIDE DEF L, V, k, l, U, page
<1>8. /\ Lost(U \ page, V, k + l) \subseteq Lost(U, V, k)
      /\ Len(q) <= k + l => U \ page \subseteq Lost(U, V, k)
  <2> DEFINE P == Top(V, k + l) \ Top(V, k)
  <2>1. /\ Lost(U \ P, V, k + l) \subseteq Lost(U, V, k)
        /\ Cardinality(V) <= k + l => U \ P \subseteq Lost(U, V, k)
    BY <1>1, <1>2, PageTurned
  <2> HIDE DEF P
  <2>2. P = page
    BY <1>3 DEF P
  <2>3. QED
    BY <1>4, <2>1, <2>2
<1>9. IsFiniteSet(Lost(U, V, k)) /\ IsFiniteSet(V \ L) /\ IsFiniteSet(U \ page)
  BY <1>1, <1>5, FS_Difference DEF Lost
<1>10. Cardinality(walk.gone) \in Nat
  BY <1>1, FS_CardinalityType
<1>11. seen \in SUBSET Int
  BY <1>2, <1>5
<1> HIDE DEF seen
<1>12. <<>> \in Seq(Int)
  OBVIOUS
<1>13. CASE HasNext(Len(q), k, l)
  <2> DEFINE w == [walk EXCEPT !.pc = "ask", !.at = 0, !.size = 0, !.found = <<>>,
                               !.offset = k + l, !.seen = seen]
  <2>1. walk' = w
    BY <1>13 DEF Reply, NextOffset, k, l, seen, page
  <2>2. /\ w \in WalkType /\ w.pc = "ask" /\ w.found = <<>> /\ w.owner = walk.owner
        /\ w.standing = walk.standing /\ w.gone = walk.gone
        /\ w.offset = k + l /\ w.seen = seen
    BY <1>1, <1>2, <1>11, <1>12 DEF WalkType
  <2> HIDE DEF w
  <2>3. Cardinality(Lost(U \ page, V, k + l)) + Cardinality(V \ L)
          <= Cardinality(walk.gone)
    <3> DEFINE A == Lost(U, V, k)
               B == Lost(U \ page, V, k + l)
               C == V \ L
    <3>1. B \in SUBSET A /\ C \in SUBSET C /\ IsFiniteSet(A) /\ IsFiniteSet(C)
      BY <1>8, <1>9
    <3>2. Cardinality(A) + Cardinality(C) <= Cardinality(walk.gone)
      BY <1>6
    <3> HIDE DEF A, B, C
    <3>3. /\ Cardinality(A) \in Nat /\ Cardinality(B) \in Nat /\ Cardinality(C) \in Nat
          /\ Cardinality(B) + Cardinality(C) <= Cardinality(A) + Cardinality(C)
      BY <3>1, LossShrinks
    <3>4. Cardinality(B) + Cardinality(C) <= Cardinality(walk.gone)
      BY <1>10, <3>2, <3>3
    <3>5. QED
      BY <3>4 DEF B, C
  <2>4. Cardinality(Lost(U \ page, L, k + l)) + Cardinality(L \ L)
          <= Cardinality(walk.gone)
    BY <1>1, <1>2, <1>9, <2>3, StartsOver
  <2>5. LossOK(w, L)
    BY <1>7, <2>2, <2>4 DEF LossOK, Shown
  <2>6. WalkOK(w)
    BY <1>1, <2>2, <2>5 DEF WalkOK, ScanOK, L
  <2>7. QED
    BY <2>1, <2>6, WalkMoves
<1>14. CASE ~HasNext(Len(q), k, l)
  <2> DEFINE w == [NoWalk EXCEPT !.pc = "done", !.gone = walk.gone,
                                 !.standing = walk.standing \ seen]
  <2>1. walk' = w
    BY <1>14 DEF Reply, k, l, seen, page
  <2>2. walk.gone \in SUBSET Int /\ walk.standing \ seen \in SUBSET Int
    BY <1>1 DEF WalkType
  <2>3. /\ w \in WalkType /\ w.pc = "done"
        /\ w.standing = U \ page /\ w.gone = walk.gone
    <3>1. w \in WalkType
      <4> DEFINE rest == walk.standing \ seen
      <4>1. rest \in SUBSET Int /\ walk.gone \in SUBSET Int
        BY <2>2
      <4> HIDE DEF rest
      <4>2. [NoWalk EXCEPT !.pc = "done", !.gone = walk.gone, !.standing = rest]
              \in WalkType
        BY <4>1, NoWalkTyped DEF WalkType
      <4>3. QED
        BY <4>2 DEF rest
    <3>2. /\ w.pc = "done" /\ w.gone = walk.gone
          /\ w.standing = walk.standing \ seen
      BY DEF NoWalk
    <3>3. QED
      BY <1>7, <3>1, <3>2
  <2> HIDE DEF w
  <2>4. U \ page \subseteq Lost(U, V, k)
    BY <1>2, <1>4, <1>8, <1>14 DEF HasNext
  <2>5. Cardinality(U \ page) <= Cardinality(walk.gone)
    <3>1. Cardinality(U \ page) <= Cardinality(Lost(U, V, k))
      BY <1>9, <2>4, FS_Subset
    <3>2. /\ Cardinality(U \ page) \in Nat /\ Cardinality(Lost(U, V, k)) \in Nat
          /\ Cardinality(V \ L) \in Nat
      BY <1>9, FS_CardinalityType
    <3>3. QED
      BY <1>6, <1>10, <3>1, <3>2
  <2>6. WalkOK(w)
    BY <1>1, <1>9, <2>3, <2>5 DEF WalkOK, ScanOK
  <2>7. QED
    BY <2>1, <2>6, WalkMoves
<1>15. QED
  BY <1>13, <1>14

\* A query has the listing in hand.
LEMMA QueryKeeps ==
    ASSUME SessionsInv, WalkInv, Query, sessions' = sessions PROVE WalkInv'
<1> DEFINE q == NewestFirst(walk.owner)
<1>1. walk.pc = "ask" /\ Reply(q)
  BY DEF Query
<1>2. q \in Seq(Int) /\ Descending(q) /\ ToSet(q) = Listing(walk.owner)
  <2>1. Len(sessions) \in Nat
    BY DEF SessionsInv, TypeOK
  <2>2. QED
    BY <2>1, NewestFirstLists
<1>3. Shown(walk, Listing(walk.owner)) = Listing(walk.owner)
  BY <1>1 DEF Shown
<1> HIDE DEF q
<1>4. QED
  BY <1>1, <1>2, <1>3, ReplyKeeps

LEMMA StartScanKeeps ==
    ASSUME SessionsInv, WalkInv, StartScan, sessions' = sessions PROVE WalkInv'
<1> DEFINE w == [walk EXCEPT !.pc = "scan", !.at = Len(sessions), !.size = Len(sessions)]
           L == Listing(walk.owner)
<1>1. walk.pc = "ask" /\ walk' = w
  BY DEF StartScan
<1>2. /\ walk \in WalkType /\ walk.owner \in Owners /\ ScanOK(walk)
      /\ IsFiniteSet(walk.standing) /\ IsFiniteSet(walk.gone)
      /\ \A s \in walk.gone : s \in 1 .. Len(sessions) /\ sessions[s].cancelled
      /\ L \subseteq 1 .. Len(sessions)
      /\ LossOK(walk, L)
  BY <1>1, UnderWalk
<1>3. Len(sessions) \in Nat /\ walk.found = <<>>
  BY <1>1, <1>2 DEF SessionsInv, TypeOK, ScanOK
<1>4. /\ w \in WalkType /\ w.pc = "scan" /\ w.at = Len(sessions)
      /\ w.size = Len(sessions) /\ w.found = <<>> /\ w.owner = walk.owner
      /\ w.standing = walk.standing /\ w.gone = walk.gone
      /\ w.seen = walk.seen /\ w.offset = walk.offset
  BY <1>2, <1>3 DEF WalkType
<1> HIDE DEF w, L
<1>5. ToSet(<<>>) = {} /\ Descending(<<>>)
  BY DEF ToSet, Descending
<1>6. ScanOK(w)
  BY <1>3, <1>4, <1>5 DEF ScanOK
<1>7. Shown(w, L) = L /\ Shown(walk, L) = L
  <2>1. {s \in L : s <= Len(sessions)} = L
    <3>1. \A s \in L : s <= Len(sessions)
      BY <1>2, <1>3
    <3>2. QED
      BY <3>1
  <2>2. QED
    BY <1>1, <1>4, <1>5, <2>1 DEF Shown
<1>8. LossOK(w, L)
  BY <1>2, <1>4, <1>7 DEF LossOK
<1>9. WalkOK(w)
  BY <1>2, <1>4, <1>6, <1>8 DEF WalkOK, L
<1>10. QED
  BY <1>1, <1>9, WalkMoves

\* A scan that raises lets go of what it had in hand, and of what that hid.
LEMMA ScanRaisesKeeps ==
    ASSUME SessionsInv, WalkInv, ScanRaises, sessions' = sessions PROVE WalkInv'
<1> DEFINE w == [walk EXCEPT !.pc = "ask", !.at = 0, !.size = 0, !.found = <<>>]
           L == Listing(walk.owner)
           V == Shown(walk, L)
           U == walk.standing \ walk.seen
<1>1. walk.pc = "scan" /\ walk' = w
  BY DEF ScanRaises
<1>2. /\ walk \in WalkType /\ walk.owner \in Owners /\ ScanOK(walk)
      /\ IsFiniteSet(walk.standing) /\ IsFiniteSet(walk.gone)
      /\ \A s \in walk.gone : s \in 1 .. Len(sessions) /\ sessions[s].cancelled
      /\ L \in SUBSET Int /\ IsFiniteSet(L)
      /\ V \in SUBSET Int /\ IsFiniteSet(V)
      /\ LossOK(walk, L)
  BY <1>1, UnderWalk
<1>3. <<>> \in Seq(Int) /\ walk.offset \in Nat /\ IsFiniteSet(U)
  <2>1. <<>> \in Seq(Int) /\ walk.offset \in Nat
    BY <1>2 DEF WalkType
  <2>2. IsFiniteSet(U)
    BY <1>2, FS_Difference
  <2>3. QED
    BY <2>1, <2>2
<1>4. /\ w \in WalkType /\ w.pc = "ask" /\ w.found = <<>> /\ w.owner = walk.owner
      /\ w.standing = walk.standing /\ w.gone = walk.gone
      /\ w.seen = walk.seen /\ w.offset = walk.offset
  BY <1>2, <1>3 DEF WalkType
<1>5. Cardinality(Lost(U, V, walk.offset)) + Cardinality(V \ L) <= Cardinality(walk.gone)
  BY <1>2 DEF LossOK
<1> HIDE DEF w, L, V, U
<1>6. Cardinality(Lost(U, L, walk.offset)) + Cardinality(L \ L) <= Cardinality(walk.gone)
  BY <1>2, <1>3, <1>5, StartsOver
<1>7. LossOK(w, L)
  BY <1>4, <1>6 DEF LossOK, Shown, U
<1>8. WalkOK(w)
  BY <1>2, <1>4, <1>7 DEF WalkOK, ScanOK, L
<1>9. QED
  BY <1>1, <1>8, WalkMoves

\* A scan that goes on takes in hand what it would have shown.
LEMMA ScanKeeps ==
    ASSUME SessionsInv, WalkInv, Scan, sessions' = sessions PROVE WalkInv'
<1> DEFINE L == Listing(walk.owner)
           a == walk.at
           f == IF Listed(a, walk.owner) THEN Append(walk.found, a) ELSE walk.found
           w == [walk EXCEPT !.at = a - 1, !.found = f]
<1>1. walk.pc = "scan" /\ a > 0 /\ Len(sessions) = walk.size /\ walk' = w
  BY DEF Scan
<1>2. /\ walk \in WalkType /\ walk.owner \in Owners /\ ScanOK(walk)
      /\ IsFiniteSet(walk.standing) /\ IsFiniteSet(walk.gone)
      /\ \A s \in walk.gone : s \in 1 .. Len(sessions) /\ sessions[s].cancelled
      /\ L \in SUBSET Int /\ LossOK(walk, L)
  BY <1>1, UnderWalk
<1>3. /\ a \in Nat \ {0} /\ a \in 1 .. Len(sessions) /\ walk.found \in Seq(Int)
      /\ Descending(walk.found) /\ \A s \in ToSet(walk.found) : s > a
      /\ a <= walk.size
  BY <1>1, <1>2 DEF WalkType, ScanOK
<1>4. Listed(a, walk.owner) <=> a \in L
  BY <1>3 DEF Listing
<1>5. /\ f \in Seq(Int) /\ Descending(f)
      /\ ToSet(f) = IF a \in L THEN ToSet(walk.found) \union {a} ELSE ToSet(walk.found)
  <2>1. CASE a \in L
    <3> DEFINE g == Append(walk.found, a)
               n == Len(walk.found)
    <3>1. f = g
      BY <1>4, <2>1
    <3>2. /\ g \in Seq(Int) /\ Len(g) = n + 1 /\ n \in Nat /\ g[n + 1] = a
          /\ \A j \in 1 .. n : g[j] = walk.found[j]
      BY <1>3, AppendProperties
    <3>3. DOMAIN g = 1 .. n + 1 /\ DOMAIN walk.found = 1 .. n
      BY <1>3, <3>2
    <3> HIDE DEF g, n
    <3>4. ToSet(g) = ToSet(walk.found) \union {a}
      <4>1. \A j \in 1 .. n + 1 : j \in 1 .. n \/ j = n + 1
        BY <3>2
      <4>2. 1 .. n \subseteq 1 .. n + 1 /\ n + 1 \in 1 .. n + 1
        BY <3>2
      <4>3. QED
        BY <3>2, <3>3, <4>1, <4>2 DEF ToSet
    <3>5. Descending(g)
      <4> SUFFICES ASSUME NEW i \in 1 .. n + 1, NEW j \in 1 .. n + 1, i < j
                   PROVE  g[i] > g[j]
        BY <3>3 DEF Descending
      <4>1. i \in 1 .. n
        BY <3>2
      <4>2. CASE j = n + 1
        <5>1. walk.found[i] > a
          BY <1>3, <3>3, <4>1 DEF ToSet
        <5>2. QED
          BY <3>2, <4>1, <4>2, <5>1
      <4>3. CASE j # n + 1
        <5>1. j \in 1 .. n
          BY <3>2, <4>3
        <5>2. QED
          BY <1>3, <3>2, <3>3, <4>1, <5>1 DEF Descending
      <4>4. QED
        BY <4>2, <4>3
    <3>6. QED
      BY <2>1, <3>1, <3>2, <3>4, <3>5
  <2>2. CASE a \notin L
    BY <1>3, <1>4, <2>2
  <2>3. QED
    BY <2>1, <2>2
<1> HIDE DEF f, a, L
<1>6. /\ w \in WalkType /\ w.pc = "scan" /\ w.at = a - 1 /\ w.size = walk.size
      /\ w.found = f /\ w.owner = walk.owner
      /\ w.standing = walk.standing /\ w.gone = walk.gone
      /\ w.seen = walk.seen /\ w.offset = walk.offset
  <2>1. a - 1 \in Nat
    BY <1>3
  <2> DEFINE b == a - 1
  <2> HIDE DEF b
  <2>2. /\ [walk EXCEPT !.at = b, !.found = f] \in WalkType
        /\ [walk EXCEPT !.at = b, !.found = f].at = b
        /\ [walk EXCEPT !.at = b, !.found = f].found = f
    BY <1>2, <1>5, <2>1 DEF WalkType, b
  <2>3. QED
    BY <1>1, <2>2 DEF b
<1> HIDE DEF w
<1>7. ScanOK(w)
  <2>1. a - 1 <= walk.size /\ \A s \in ToSet(f) : s > a - 1
    <3>1. walk.size \in Nat /\ \A s \in ToSet(walk.found) : s \in Int
      BY <1>2, <1>3 DEF WalkType, ToSet
    <3>2. QED
      BY <1>3, <1>5, <3>1
  <2>2. QED
    BY <1>5, <1>6, <2>1 DEF ScanOK
<1>8. Shown(w, L) = Shown(walk, L)
  <2>1. /\ Shown(walk, L) = ToSet(walk.found) \union {s \in L : s <= a}
        /\ Shown(w, L) = ToSet(f) \union {s \in L : s <= a - 1}
    BY <1>1, <1>6 DEF Shown, a
  <2>2. \A s \in L : s <= a <=> s <= a - 1 \/ s = a
    BY <1>2, <1>3
  <2>3. QED
    BY <1>5, <2>1, <2>2
<1>9. LossOK(w, L)
  BY <1>2, <1>6, <1>8 DEF LossOK
<1>10. WalkOK(w)
  BY <1>2, <1>6, <1>7, <1>9 DEF WalkOK, L
<1>11. QED
  BY <1>1, <1>10, WalkMoves

\* A scan at its end has in hand all that it shows.
LEMMA ScanEndsKeeps ==
    ASSUME SessionsInv, WalkInv, ScanEnds, sessions' = sessions PROVE WalkInv'
<1> DEFINE L == Listing(walk.owner)
<1>1. walk.pc = "scan" /\ walk.at = 0 /\ Reply(walk.found)
  BY DEF ScanEnds
<1>2. /\ walk \in WalkType /\ ScanOK(walk)
      /\ L \in SUBSET Int /\ L \subseteq 1 .. Len(sessions)
  BY <1>1, UnderWalk
<1>3. walk.found \in Seq(Int) /\ Descending(walk.found)
  BY <1>1, <1>2 DEF WalkType, ScanOK
<1>4. ToSet(walk.found) = Shown(walk, L)
  <2>1. \A s \in L : ~(s <= 0)
    <3>1. Len(sessions) \in Nat
      BY DEF SessionsInv, TypeOK
    <3>2. QED
      BY <1>2, <3>1
  <2>2. QED
    BY <1>1, <2>1 DEF Shown
<1>5. QED
  BY <1>1, <1>3, <1>4, ReplyKeeps

LEMMA WalkStep == SessionsInv /\ WalkInv /\ [Next]_vars => WalkInv'
<1> SUFFICES ASSUME SessionsInv, WalkInv, [Next]_vars PROVE WalkInv'
  OBVIOUS
<1>1. ASSUME NEW c \in Creators, Creation(c), walk' = walk PROVE WalkInv'
  BY <1>1, CreationKeepsWalk
<1>2. ASSUME NEW d, NEW i, Cancel(d, i) PROVE WalkInv'
  BY <1>2, CancelKeepsWalk
<1>3. ASSUME Walking, sessions' = sessions PROVE WalkInv'
  BY <1>3, StartWalkKeeps, QueryKeeps, StartScanKeeps, ScanRaisesKeeps, ScanKeeps,
     ScanEndsKeeps DEF Walking
<1>4. ASSUME UNCHANGED <<sessions, walk>> PROVE WalkInv'
  BY <1>4, WalkMoves DEF WalkInv
<1>5. QED
  BY <1>1, <1>2, <1>3, <1>4 DEF Next, Restart, vars

\* Whatever a walk has not seen yet, it will, except for what is lost, which is
\* never more than was cancelled since the walk began.
THEOREM WalkInvariance == Spec => []WalkInv
BY WalkStartsWell, WalkStep, SessionsInvariance, PTL DEF Spec

\* WalkMissesAtMostTheCancelled of Sessions.tla, for every number of sessions and
\* creations, every offset and limit, and both stores: of the sessions listed from
\* the start, a walk along the "next" links that came to its end missed no more than
\* were cancelled meanwhile.
THEOREM WalkMissesAtMostTheCancelledHolds == Spec => []WalkMissesAtMostTheCancelled
<1>1. WalkInv => WalkMissesAtMostTheCancelled
  BY DEF WalkInv, WalkOK, WalkMissesAtMostTheCancelled
<1>2. QED
  BY <1>1, WalkInvariance, PTL
=============================================================================
