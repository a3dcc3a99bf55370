------------------------------ MODULE OrderBook ------------------------------
(***************************************************************************)
(* The sorted slices of internal/orderbook: an OrderBook keeps each side as*)
(* a slice whose first element is the next order to trade.                 *)
(***************************************************************************)
EXTENDS Integers, Sequences

\* The comparisons of sortBids and sortAsks. time.Now() is read under the book's
\* lock and never runs backwards in a process, so a timestamp is an arrival number;
\* when the clock gives two orders the same one, the stable sort keeps the
\* order of arrival, as distinct numbers do.
BidFirst(a, b) == IF a.price # b.price THEN a.price > b.price ELSE a.ts < b.ts
\* Mutant: the latest of the asks at one price comes first.
AskLatestFirst(a, b) == IF a.price # b.price THEN a.price < b.price ELSE a.ts > b.ts

AskFirst(a, b) == IF a.price # b.price THEN a.price < b.price ELSE a.ts < b.ts

Precedes(side, a, b) == IF side = "BID" THEN BidFirst(a, b) ELSE AskFirst(a, b)

\* The slice s is in the order its readers and Match rely on.
Sorted(side, s) ==
  \A i, j \in 1..Len(s) : i < j => Precedes(side, s[i], s[j])

\* s is a slice of orders of side, in order, of a book whose last timestamp is now.
IsSide(side, s, now) ==
  /\ Sorted(side, s)
  /\ \A i \in 1..Len(s) : s[i].side = side /\ s[i].ts <= now

\* s with o at place i, the orders from i on moved back by one.
InsertAt(s, i, o) ==
  [j \in 1..(Len(s) + 1) |-> IF j < i THEN s[j] ELSE IF j = i THEN o ELSE s[j - 1]]

\* Mutant: the append is not followed by a sort.
PlacesLast(side, s, o) == {Len(s) + 1}

\* Where an append followed by a stable sort leaves o in the sorted slice s: before
\* every order it precedes, behind every other.
Places(side, s, o) ==
  {i \in 1..(Len(s) + 1) :
     \A j \in 1..Len(s) : (i <= j) <=> Precedes(side, o, s[j])}

\* Mutant: a filled order stays in the slice with nothing left.
TakeFromHeadKept(s, q) == [s EXCEPT ![1].qty = @ - q]

\* Mutant: a partially filled order is removed.
TakeFromHeadWhole(s, q) == Tail(s)

\* s once its first order has traded q: reduced, or sliced off with nothing left.
TakeFromHead(s, q) ==
  IF s[1].qty - q <= 0 THEN Tail(s) ELSE [s EXCEPT ![1].qty = @ - q]

\* Mutant: equal prices do not cross.
CrossesStrictly(b, a) ==
  /\ b # <<>> /\ a # <<>>
  /\ b[1].price > a[1].price

\* The bid at the head of one slice meets the ask at the head of the other.
Crosses(b, a) ==
  /\ b # <<>> /\ a # <<>>
  /\ b[1].price >= a[1].price

\* min of orderbook.go.
Lesser(m, n) == IF m < n THEN m ELSE n
=============================================================================
