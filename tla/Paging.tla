-------------------------------- MODULE Paging --------------------------------
(***************************************************************************)
(* The paged responses that every listing shares (models/paging.py).       *)
(* A link to a page is its offset; the limit goes with it unchanged.       *)
(***************************************************************************)
EXTENDS Integers, Sequences

Larger(a, b) == IF a >= b THEN a ELSE b

\* What a request's offset and limit are taken to be; and a limit taken as it
\* comes.
Offset(o) == Larger(0, o)
LimitAsIs(l) == l
Limit(l) == Larger(1, l)

\* items[offset : offset + limit]; a slice past the end is empty.
Page(items, offset, limit) == SubSeq(items, offset + 1,
    IF offset + limit <= Len(items) THEN offset + limit ELSE Len(items))

\* A comparison that is off by one.
HasNextBut1(total, offset, limit) == offset + limit < total - 1
HasNext(total, offset, limit) == offset + limit < total
NextOffset(offset, limit) == offset + limit

HasPrev(offset) == offset > 0
PrevOffset(offset, limit) == Larger(0, offset - limit)

LastOffset(total, limit) == IF total = 0 THEN 0 ELSE ((total - 1) \div limit) * limit

Incomplete(items, offset, limit) ==
    offset + Len(Page(items, offset, limit)) < Len(items)
=============================================================================
