------------------------- MODULE MarketServerProofs -------------------------
(***************************************************************************)
(* The safety of the market-district service for any number of handlers,   *)
(* resources, traders, prices and quantities: what insertion and filling   *)
(* do to a sorted side, the types, the order of the books, that no cross is*)
(* stranded, that no trade is reported twice, that no quantity is lost or  *)
(* minted, and that the whole implements the price-time exchange.          *)
(***************************************************************************)
EXTENDS MarketServer, SumTheorems, SequenceTheorems
-----------------------------------------------------------------------------
(***************************************************************************)
(* The sorted slices, whatever the orders are, as long as prices and       *)
(* timestamps are integers.                                                *)
(***************************************************************************)

\* InsertAt makes a sequence: s with o at place i, the tail moved back.
LEMMA InsertAtProperties ==
  ASSUME NEW S, NEW s \in Seq(S), NEW o \in S, NEW i \in 1..(Len(s) + 1)
  PROVE  /\ InsertAt(s, i, o) \in Seq(S)
         /\ Len(InsertAt(s, i, o)) = Len(s) + 1
         /\ \A j \in 1..(Len(s) + 1) :
              InsertAt(s, i, o)[j] = IF j < i THEN s[j] ELSE IF j = i THEN o ELSE s[j - 1]
  <1> DEFINE n == Len(s) + 1
             e(j) == IF j < i THEN s[j] ELSE IF j = i THEN o ELSE s[j - 1]
  <1>1. n \in Nat /\ InsertAt(s, i, o) = [j \in 1..n |-> e(j)]
    BY LenProperties DEF InsertAt
  <1>2. ASSUME NEW j \in 1..n PROVE e(j) \in S
    <2>1. CASE j < i
      <3>1. j \in 1..Len(s) BY <2>1, LenProperties
      <3> QED BY <2>1, <3>1, ElementOfSeq
    <2>2. CASE j = i BY <2>2
    <2>3. CASE j > i
      <3>1. j - 1 \in 1..Len(s) BY <2>3, LenProperties
      <3> QED BY <2>3, <3>1, ElementOfSeq
    <2> QED BY <2>1, <2>2, <2>3
  <1> HIDE DEF e
  <1>3. [j \in 1..n |-> e(j)] \in Seq(S)
    BY <1>1, <1>2, IsASeq
  <1>4. Len([j \in 1..n |-> e(j)]) = n
    BY <1>1, <1>3, LenProperties
  <1> QED BY <1>1, <1>3, <1>4 DEF e

\* A sorted side is sorted after a later order is inserted at the place the stable sort
\* gives it.
LEMMA InsertKeepsSorted ==
  ASSUME NEW S, \A x \in S : x.price \in Int /\ x.ts \in Int,
         NEW s \in Seq(S), NEW o \in S, NEW side \in {"BID", "ASK"},
         Sorted(side, s),
         \A j \in 1..Len(s) : s[j].ts < o.ts,
         NEW i \in Places(side, s, o)
  PROVE  Sorted(side, InsertAt(s, i, o))
  <1>1. i \in 1..(Len(s) + 1) /\ \A j \in 1..Len(s) : i <= j <=> Precedes(side, o, s[j])
    BY DEF Places
  <1>2. Len(s) \in Nat /\ \A j \in 1..Len(s) : s[j] \in S
    BY LenProperties, ElementOfSeq
  <1>3. ASSUME NEW j \in 1..Len(s), j < i PROVE Precedes(side, s[j], o)
    <2>1. ~Precedes(side, o, s[j])
      BY <1>1, <1>2, <1>3
    <2> QED BY <2>1, <1>2 DEF Precedes, BidFirst, AskFirst
  <1> DEFINE t == InsertAt(s, i, o)
  <1>4. Len(t) = Len(s) + 1 /\ \A j \in 1..(Len(s) + 1) :
              t[j] = IF j < i THEN s[j] ELSE IF j = i THEN o ELSE s[j - 1]
    BY <1>1, InsertAtProperties
  <1> HIDE DEF t
  <1>5. SUFFICES ASSUME NEW a \in 1..Len(t), NEW b \in 1..Len(t), a < b
                 PROVE  Precedes(side, t[a], t[b])
    BY DEF Sorted, t
  <1>6. \A j, k \in 1..Len(s) : j < k => Precedes(side, s[j], s[k])
    BY DEF Sorted
  <1>7. CASE b < i
    <2>1. a \in 1..Len(s) /\ b \in 1..Len(s) /\ t[a] = s[a] /\ t[b] = s[b]
      BY <1>1, <1>2, <1>4, <1>5, <1>7
    <2> QED BY <2>1, <1>5, <1>6
  <1>8. CASE b = i
    <2>1. a \in 1..Len(s) /\ a < i /\ t[a] = s[a] /\ t[b] = o
      BY <1>1, <1>2, <1>4, <1>5, <1>8
    <2> QED BY <2>1, <1>3
  <1>9. CASE a = i
    <2>1. b - 1 \in 1..Len(s) /\ i <= b - 1 /\ t[a] = o /\ t[b] = s[b - 1]
      BY <1>1, <1>2, <1>4, <1>5, <1>9
    <2> QED BY <2>1, <1>1
  <1>10. CASE a < i /\ b > i
    <2>1. a \in 1..Len(s) /\ b - 1 \in 1..Len(s) /\ a < b - 1
          /\ t[a] = s[a] /\ t[b] = s[b - 1]
      BY <1>1, <1>2, <1>4, <1>5, <1>10
    <2> QED BY <2>1, <1>6
  <1>11. CASE a > i
    <2>1. a - 1 \in 1..Len(s) /\ b - 1 \in 1..Len(s) /\ a - 1 < b - 1
          /\ t[a] = s[a - 1] /\ t[b] = s[b - 1]
      BY <1>1, <1>2, <1>4, <1>5, <1>11
    <2> QED BY <2>1, <1>6
  <1> QED BY <1>1, <1>4, <1>5, <1>7, <1>8, <1>9, <1>10, <1>11, <1>2

\* Inserting an order adds it to the orders of the side and nothing else.
LEMMA InsertAtRange ==
  ASSUME NEW S, NEW s \in Seq(S), NEW o \in S, NEW i \in 1..(Len(s) + 1)
  PROVE  Range(InsertAt(s, i, o)) = Range(s) \union {o}
  <1> DEFINE t == InsertAt(s, i, o)
  <1>1. /\ Len(s) \in Nat /\ Range(s) = {s[j] : j \in 1..Len(s)}
        /\ Len(t) = Len(s) + 1 /\ Range(t) = {t[j] : j \in 1..Len(t)}
        /\ \A j \in 1..(Len(s) + 1) :
              t[j] = IF j < i THEN s[j] ELSE IF j = i THEN o ELSE s[j - 1]
    BY SMTT(30), InsertAtProperties, LenProperties, RangeEquality
  <1> HIDE DEF t
  <1>2. ASSUME NEW j \in 1..Len(t) PROVE t[j] \in Range(s) \union {o}
    <2>1. \/ t[j] = s[j] /\ j \in 1..Len(s)
          \/ t[j] = o
          \/ t[j] = s[j - 1] /\ j - 1 \in 1..Len(s)
      BY <1>1
    <2> QED BY <2>1, <1>1
  <1>3. ASSUME NEW j \in 1..Len(s) PROVE s[j] \in Range(t)
    <2>1. \/ t[j] = s[j] /\ j \in 1..Len(t)
          \/ t[j + 1] = s[j] /\ j + 1 \in 1..Len(t)
      BY <1>1
    <2> QED BY <2>1, <1>1
  <1>4. o = t[i] /\ i \in 1..Len(t)
    BY <1>1
  <1> QED BY <1>1, <1>2, <1>3, <1>4 DEF t

\* S is a set of orders: integer prices and timestamps, something left to trade, and with
\* less of it still an order at the same price and of the same time.
OrderSet(S) ==
  \A x \in S :
    /\ x.price \in Int /\ x.ts \in Int /\ x.qty \in Nat \ {0}
    /\ \A k \in Nat \ {0} :
         LET y == [x EXCEPT !.qty = k]
         IN  y \in S /\ y.price = x.price /\ y.ts = x.ts /\ y.side = x.side

\* What is left of a partially filled order is an order of the same rank.
LEMMA RestOfOrder ==
  ASSUME NEW S, OrderSet(S), NEW x \in S, NEW q \in Nat \ {0}, ~(x.qty <= q)
  PROVE  LET y == [x EXCEPT !.qty = @ - q]
         IN  y \in S /\ y.price = x.price /\ y.ts = x.ts /\ y.side = x.side
  <1>1. x.qty \in Nat \ {0} BY DEF OrderSet
  <1>2. x.qty - q \in Nat \ {0} BY <1>1
  <1>3. PICK k \in Nat \ {0} : k = x.qty - q BY <1>2
  <1>4. LET y == [x EXCEPT !.qty = k] IN y \in S /\ y.price = x.price /\ y.ts = x.ts /\ y.side = x.side
    BY DEF OrderSet
  <1> QED BY <1>3, <1>4

\* Filling q of the head of a side leaves the rest of it alone: either the head is gone,
\* or it is the same order with q less.
LEMMA TakeFromHeadProperties ==
  ASSUME NEW S, OrderSet(S), NEW s \in Seq(S), s # <<>>,
         NEW q \in Nat \ {0}, q <= s[1].qty
  PROVE  LET t == TakeFromHead(s, q)
         IN  /\ t \in Seq(S)
             /\ s[1].qty <= q =>
                  /\ Len(t) = Len(s) - 1
                  /\ \A j \in 1..Len(t) : t[j] = s[j + 1]
             /\ ~(s[1].qty <= q) =>
                  /\ Len(t) = Len(s)
                  /\ t[1] = [s[1] EXCEPT !.qty = @ - q]
                  /\ \A j \in 2..Len(s) : t[j] = s[j]
  <1> DEFINE t == TakeFromHead(s, q)
  <1>1. s \in Seq(S) /\ Len(s) \in Nat \ {0} /\ 1 \in 1..Len(s) /\ s[1] \in S
    BY EmptySeq, LenProperties, ElementOfSeq
  <1>2. s[1].qty \in Nat \ {0}
    BY <1>1 DEF OrderSet
  <1>3. CASE s[1].qty <= q
    <2>1. t = Tail(s) BY <1>2, <1>3 DEF TakeFromHead
    <2> QED BY <1>1, <1>3, <2>1, HeadTailProperties
  <1>4. CASE ~(s[1].qty <= q)
    <2> DEFINE o == [s[1] EXCEPT !.qty = @ - q]
    <2>1. o \in S
      BY <1>1, <1>4, RestOfOrder
    <2>2. s[1].qty - q > 0
      BY <1>2, <1>4
    <2>3. t = [s EXCEPT ![1] = o]
      BY <2>2, <1>1, <1>2, LenProperties DEF TakeFromHead
    <2> HIDE DEF t, o
    <2>4. t \in Seq(S) /\ Len(t) = Len(s) /\ \A j \in 1..Len(s) : t[j] = IF j = 1 THEN o ELSE s[j]
      BY <1>1, <2>1, <2>3, ExceptSeq
    <2>5. t[1] = o /\ \A j \in 2..Len(s) : t[j] = s[j]
      BY <1>1, <2>4
    <2> QED BY <1>4, <2>4, <2>5 DEF t, o
  <1> QED BY <1>3, <1>4

\* A sorted side is sorted after a fill of its head.
LEMMA TakeFromHeadKeepsSorted ==
  ASSUME NEW S, OrderSet(S), NEW s \in Seq(S), s # <<>>,
         NEW q \in Nat \ {0}, q <= s[1].qty,
         NEW side, Sorted(side, s)
  PROVE  Sorted(side, TakeFromHead(s, q))
  <1> DEFINE t == TakeFromHead(s, q)
  <1>1. s \in Seq(S) /\ Len(s) \in Nat \ {0} /\ \A j \in 1..Len(s) : s[j] \in S
    BY EmptySeq, LenProperties, ElementOfSeq
  <1>2. \A j, k \in 1..Len(s) : j < k => Precedes(side, s[j], s[k])
    BY DEF Sorted
  <1>3. SUFFICES ASSUME NEW a \in 1..Len(t), NEW b \in 1..Len(t), a < b
                 PROVE  Precedes(side, t[a], t[b])
    BY DEF Sorted
  <1>4. /\ s[1].qty <= q =>
             Len(t) = Len(s) - 1 /\ \A j \in 1..Len(t) : t[j] = s[j + 1]
        /\ ~(s[1].qty <= q) =>
             /\ Len(t) = Len(s)
             /\ t[1] = [s[1] EXCEPT !.qty = @ - q]
             /\ \A j \in 2..Len(s) : t[j] = s[j]
    BY SMTT(30), TakeFromHeadProperties
  <1> HIDE DEF t
  <1>5. CASE s[1].qty <= q
    <2>1. /\ a + 1 \in 1..Len(s) /\ b + 1 \in 1..Len(s) /\ a + 1 < b + 1
          /\ t[a] = s[a + 1] /\ t[b] = s[b + 1]
      BY SMTT(30), <1>1, <1>3, <1>4, <1>5
    <2> QED BY <2>1, <1>2
  <1>6. CASE ~(s[1].qty <= q) /\ a = 1
    <2>1. b \in 1..Len(s) /\ t[b] = s[b] /\ Precedes(side, s[1], s[b])
      BY <1>1, <1>2, <1>3, <1>4, <1>6
    <2>2. t[1].price = s[1].price /\ t[1].ts = s[1].ts
      <3>1. 1 \in 1..Len(s) /\ s[1] \in S BY <1>1
      <3> DEFINE y == [s[1] EXCEPT !.qty = @ - q]
      <3>2. y.price = s[1].price /\ y.ts = s[1].ts
        BY <3>1, <1>6, RestOfOrder
      <3>3. t[1] = y BY <1>4, <1>6
      <3> HIDE DEF y
      <3> QED BY <3>2, <3>3
    <2> QED BY <2>1, <2>2, <1>6 DEF Precedes, BidFirst, AskFirst
  <1>7. CASE ~(s[1].qty <= q) /\ a # 1
    <2>1. a \in 1..Len(s) /\ b \in 1..Len(s) /\ t[a] = s[a] /\ t[b] = s[b]
      BY <1>1, <1>3, <1>4, <1>7
    <2> QED BY <2>1, <1>2, <1>3
  <1> QED BY <1>5, <1>6, <1>7

\* In terms of the orders of a sorted side, a fill takes the head out and puts back what is
\* left of it, if anything.
LEMMA TakeFromHeadRange ==
  ASSUME NEW S, OrderSet(S), NEW s \in Seq(S), s # <<>>,
         NEW q \in Nat \ {0}, q <= s[1].qty,
         NEW side, Sorted(side, s)
  PROVE  Range(TakeFromHead(s, q)) =
           (Range(s) \ {s[1]}) \union
           (IF s[1].qty <= q THEN {} ELSE {[s[1] EXCEPT !.qty = @ - q]})
  <1> DEFINE t == TakeFromHead(s, q)
  <1>1. /\ Len(s) \in Nat \ {0} /\ \A j \in 1..Len(s) : s[j] \in S
        /\ Range(s) = {s[j] : j \in 1..Len(s)}
    BY EmptySeq, LenProperties, ElementOfSeq, RangeEquality
  <1>2. ASSUME NEW j \in 2..Len(s) PROVE s[j] # s[1]
    <2>1. Precedes(side, s[1], s[j]) BY <1>1 DEF Sorted
    <2>2. s[1].price \in Int /\ s[1].ts \in Int BY <1>1 DEF OrderSet
    <2> QED BY <2>1, <2>2 DEF Precedes, BidFirst, AskFirst
  <1>3. /\ t \in Seq(S)
        /\ s[1].qty <= q =>
             Len(t) = Len(s) - 1 /\ \A j \in 1..Len(t) : t[j] = s[j + 1]
        /\ ~(s[1].qty <= q) =>
             /\ Len(t) = Len(s)
             /\ t[1] = [s[1] EXCEPT !.qty = @ - q]
             /\ \A j \in 2..Len(s) : t[j] = s[j]
    BY TakeFromHeadProperties
  <1>4. Range(t) = {t[j] : j \in 1..Len(t)}
    BY <1>3, RangeEquality
  <1>5. Range(s) \ {s[1]} = {s[j] : j \in 2..Len(s)}
    BY <1>1, <1>2
  <1> HIDE DEF t
  <1>6. CASE s[1].qty <= q
    <2>1. \A j \in 2..Len(s) : j - 1 \in 1..Len(t) /\ t[j - 1] = s[j]
      BY <1>1, <1>3, <1>6
    <2>2. \A j \in 1..Len(t) : j + 1 \in 2..Len(s) /\ t[j] = s[j + 1]
      BY <1>1, <1>3, <1>6
    <2>3. Range(t) = {s[j] : j \in 2..Len(s)}
      <3> DEFINE R == {s[j] : j \in 2..Len(s)}
      <3>1. Range(t) \subseteq R BY <1>4, <2>2
      <3>2. R \subseteq Range(t) BY <1>4, <2>1
      <3> QED BY <3>1, <3>2
    <2> QED BY <1>5, <1>6, <2>3 DEF t
  <1>7. CASE ~(s[1].qty <= q)
    <2>1. 1..Len(t) = {1} \union 2..Len(s)
      BY <1>1, <1>3, <1>7
    <2>2. Range(t) = {s[j] : j \in 2..Len(s)} \union {t[1]}
      BY <1>3, <1>4, <1>7, <2>1
    <2> QED BY <1>3, <1>5, <1>7, <2>2 DEF t
  <1> QED BY <1>6, <1>7

\* An order of a new timestamp joins a side at the place of the stable sort.
LEMMA InsertKeepsSide ==
  ASSUME NEW S, OrderSet(S), NEW s \in Seq(S), NEW o \in S,
         NEW side \in {"BID", "ASK"}, o.side = side,
         NEW now \in Int, o.ts = now + 1, IsSide(side, s, now),
         NEW i \in Places(side, s, o)
  PROVE  IsSide(side, InsertAt(s, i, o), now + 1)
  <1> DEFINE t == InsertAt(s, i, o)
  <1>1. /\ Len(s) \in Nat /\ \A j \in 1..Len(s) : s[j] \in S /\ s[j].ts \in Int
        /\ i \in 1..(Len(s) + 1)
    BY LenProperties, ElementOfSeq DEF OrderSet, Places
  <1>2. \A j \in 1..Len(s) : s[j].side = side /\ s[j].ts <= now
    BY DEF IsSide
  <1>3. \A j \in 1..Len(s) : s[j].ts < o.ts
    BY <1>1, <1>2
  <1>4. Sorted(side, t)
    BY <1>3, InsertKeepsSorted DEF IsSide, OrderSet
  <1>5. /\ Len(t) = Len(s) + 1
        /\ \A j \in 1..(Len(s) + 1) :
             t[j] = IF j < i THEN s[j] ELSE IF j = i THEN o ELSE s[j - 1]
    BY <1>1, InsertAtProperties
  <1> HIDE DEF t
  <1>6. ASSUME NEW j \in 1..Len(t) PROVE t[j].side = side /\ t[j].ts <= now + 1
    <2>1. CASE t[j] = o
      BY <2>1
    <2>2. CASE j < i
      <3>1. j \in 1..Len(s) /\ t[j] = s[j] BY <1>1, <1>5, <2>2
      <3> QED BY <3>1, <1>1, <1>2
    <2>3. CASE j > i
      <3>1. j - 1 \in 1..Len(s) /\ t[j] = s[j - 1] BY <1>1, <1>5, <2>3
      <3> QED BY <3>1, <1>1, <1>2
    <2> QED BY <1>1, <1>5, <2>1, <2>2, <2>3
  <1> QED BY <1>4, <1>6 DEF IsSide, t

\* A side is a side after a fill of its head.
LEMMA FillKeepsSide ==
  ASSUME NEW S, OrderSet(S), NEW s \in Seq(S), s # <<>>,
         NEW q \in Nat \ {0}, q <= s[1].qty,
         NEW side, NEW now, IsSide(side, s, now)
  PROVE  IsSide(side, TakeFromHead(s, q), now)
  <1> DEFINE t == TakeFromHead(s, q)
             y == [s[1] EXCEPT !.qty = @ - q]
  <1>1. Len(s) \in Nat \ {0} /\ 1 \in 1..Len(s) /\ s[1] \in S
    BY EmptySeq, ElementOfSeq
  <1>2. Sorted(side, t)
    BY TakeFromHeadKeepsSorted DEF IsSide
  <1>3. /\ s[1].qty <= q =>
             Len(t) = Len(s) - 1 /\ \A j \in 1..Len(t) : t[j] = s[j + 1]
        /\ ~(s[1].qty <= q) =>
             Len(t) = Len(s) /\ t[1] = y /\ \A j \in 2..Len(s) : t[j] = s[j]
    BY TakeFromHeadProperties
  <1>4. ~(s[1].qty <= q) => y.side = s[1].side /\ y.ts = s[1].ts
    BY <1>1, RestOfOrder
  <1> HIDE DEF t, y
  <1>5. ASSUME NEW j \in 1..Len(t) PROVE t[j].side = side /\ t[j].ts <= now
    <2>1. \A k \in 1..Len(s) : s[k].side = side /\ s[k].ts <= now
      BY DEF IsSide
    <2>2. CASE s[1].qty <= q
      <3>1. j + 1 \in 1..Len(s) /\ t[j] = s[j + 1] BY <1>1, <1>3, <2>2
      <3> QED BY <2>1, <3>1
    <2>3. CASE ~(s[1].qty <= q) /\ j = 1
      BY <1>1, <1>3, <1>4, <2>1, <2>3
    <2>4. CASE ~(s[1].qty <= q) /\ j # 1
      <3>1. j \in 1..Len(s) /\ t[j] = s[j] BY <1>1, <1>3, <2>4
      <3> QED BY <2>1, <3>1
    <2> QED BY <2>2, <2>3, <2>4
  <1> QED BY <1>2, <1>5 DEF IsSide, t
-----------------------------------------------------------------------------
(***************************************************************************)
(* Types, sorted books, stranded crosses, reports.                         *)
(***************************************************************************)

\* The handlers that have a number for their order but have not inserted it yet.
Arriving(r) == {h \in Handlers : pc[h] = "place" /\ order[h].resource = r}

\* A book has given at most one timestamp to each numbered order; this bounds the
\* clock, of which TypeOK is to say that it never passes MaxOrders.
ClockBounded == \A r \in Resources : clock[r] + Cardinality(Arriving(r)) <= orderSeq

\* A handler that serves somebody has a request.
RequestInHand == \A h \in Handlers : pc[h] # "idle" => order[h] \in Requests

\* A handler that emits has trades, and has not emitted the last message yet.
MoreToEmit ==
  \A h \in Handlers :
    /\ pc[h] = "emit" => emitted[h] < 2 * Len(fills[h])
    /\ pc[h] # "emit" => emitted[h] = 0
    /\ pc[h] = "record" => fills[h] # <<>>

\* The inductive strengthening of TypeOK.
TypeInv == TypeOK /\ RequestInHand /\ MoreToEmit /\ ClockBounded

LEMMA OrdersOrderSet == OrderSet(Orders)
  BY MarketAssumption DEF Orders, OrderSet

LEMMA TypeInit == Init => TypeInv
  <1> SUFFICES ASSUME Init PROVE TypeInv
    OBVIOUS
  <1> USE DEF Init
  <1>1. TypeOK
    BY MarketAssumption, EmptySeq DEF TypeOK, Stages
  <1>2. RequestInHand /\ MoreToEmit
    BY DEF RequestInHand, MoreToEmit
  <1>3. ClockBounded
    <2> SUFFICES ASSUME NEW r \in Resources PROVE clock[r] + Cardinality(Arriving(r)) <= orderSeq
      BY DEF ClockBounded
    <2>1. Arriving(r) = {} BY DEF Arriving
    <2> QED BY <2>1, FS_EmptySet
  <1> QED BY <1>1, <1>2, <1>3 DEF TypeInv

\* A request is taken in: one number more, and one handler more about to insert.
LEMMA TypeReceive ==
  ASSUME TypeInv, NEW h \in Handlers, NEW req \in Requests, Receive(h, req)
  PROVE  TypeInv'
  <1> USE DEF TypeInv
  <1>1. TypeOK'
    BY MarketAssumption DEF TypeOK, Receive, bookVars, Stages
  <1>2. RequestInHand' /\ MoreToEmit'
    BY DEF TypeOK, RequestInHand, MoreToEmit, Receive, bookVars
  <1>3. ASSUME NEW r \in Resources
        PROVE  (clock[r] + Cardinality(Arriving(r)) <= orderSeq)'
    <2>1. Arriving(r) \subseteq Handlers /\ IsFiniteSet(Arriving(r))
      BY MarketAssumption, FS_Subset DEF Arriving
    <2>2. Cardinality(Arriving(r)) \in Nat
      BY <2>1, FS_CardinalityType
    <2>3. Arriving(r)' \in {Arriving(r), Arriving(r) \union {h}}
      BY DEF Arriving, Receive, TypeOK
    <2>4. Cardinality(Arriving(r)') <= Cardinality(Arriving(r)) + 1
      BY <2>1, <2>2, <2>3, FS_AddElement
    <2>5. Cardinality(Arriving(r)') \in Nat
      BY <2>1, <2>3, FS_AddElement, FS_CardinalityType
    <2>6. clock[r] + Cardinality(Arriving(r)) <= orderSeq /\ clock' = clock
          /\ orderSeq' = orderSeq + 1 /\ clock[r] \in Nat /\ orderSeq \in Nat
      BY DEF ClockBounded, Receive, bookVars, TypeOK
    <2> QED BY <2>2, <2>4, <2>5, <2>6
  <1> QED BY <1>1, <1>2, <1>3 DEF ClockBounded

\* The set of arriving handlers is finite, so that it can be counted.
LEMMA ArrivingFinite ==
  ASSUME NEW r
  PROVE  IsFiniteSet(Arriving(r)) /\ Cardinality(Arriving(r)) \in Nat
  <1>1. Arriving(r) \subseteq Handlers BY DEF Arriving
  <1> QED BY <1>1, MarketAssumption, FS_Subset, FS_CardinalityType

\* The order that handler h inserts, as its book stamps it.
Stamped(h) ==
  [id |-> order[h].id, npc |-> order[h].npc, side |-> order[h].side,
   price |-> order[h].price, qty |-> order[h].qty, ts |-> clock[order[h].resource] + 1]

\* What an insertion is: a well-formed order goes to its place on its side of its book.
LEMMA PlaceInBookStep ==
  ASSUME TypeInv, NEW h \in Handlers, PlaceInBook(h)
  PROVE  LET r == order[h].resource
             o == Stamped(h)
         IN  /\ r \in Resources /\ o \in Orders /\ pc[h] = "place"
             /\ o.side \in {"BID", "ASK"} /\ o.ts = clock[r] + 1 /\ clock[r] \in Nat
             /\ \/ /\ o.side = "BID" /\ asks' = asks
                   /\ \E i \in Places("BID", bids[r], o) :
                        bids' = [bids EXCEPT ![r] = InsertAt(@, i, o)]
                \/ /\ o.side = "ASK" /\ bids' = bids
                   /\ \E i \in Places("ASK", asks[r], o) :
                        asks' = [asks EXCEPT ![r] = InsertAt(@, i, o)]
             /\ clock' = [clock EXCEPT ![r] = @ + 1]
             /\ pc' = [pc EXCEPT ![h] = "match"]
             /\ UNCHANGED <<lock, tape, serverVars, topic, order, fills, emitted, restarts>>
  <1> DEFINE r == order[h].resource
             o == Stamped(h)
  <1> USE DEF TypeInv
  <1>1. order[h] \in Requests /\ pc[h] = "place"
    BY DEF PlaceInBook, RequestInHand
  <1>2. r \in Resources BY <1>1 DEF Requests
  <1>3. clock[r] + 1 \in 1..MaxOrders /\ clock[r] \in Nat
    <2>1. h \in Arriving(r) BY <1>1 DEF Arriving
    <2>2. Cardinality(Arriving(r)) # 0
      BY <2>1, ArrivingFinite, FS_EmptySet
    <2>3. clock[r] + Cardinality(Arriving(r)) <= orderSeq
      BY <1>2 DEF ClockBounded
    <2>4. Cardinality(Arriving(r)) \in Nat BY ArrivingFinite
    <2>5. clock[r] \in Nat /\ orderSeq \in Nat /\ orderSeq <= MaxOrders /\ MaxOrders \in Nat
      BY <1>2, MarketAssumption DEF TypeOK
    <2> HIDE DEF r
    <2> QED BY <2>2, <2>3, <2>4, <2>5
  <1>4. o \in Orders
    <2>1. o = [id |-> order[h].id, npc |-> order[h].npc, side |-> order[h].side,
               price |-> order[h].price, qty |-> order[h].qty, ts |-> clock[r] + 1]
      BY DEF Stamped
    <2> HIDE DEF r, o
    <2> QED BY <1>1, <1>3, <2>1, MarketAssumption DEF Orders, Requests
  <1>5. o.side \in {"BID", "ASK"} /\ o.ts = clock[r] + 1
    BY <1>1 DEF Stamped, Requests, Sides
  <1> QED BY <1>1, <1>2, <1>3, <1>4, <1>5 DEF PlaceInBook, Stamped

\* An order is inserted: its book's clock moves and one handler less is about to insert.
LEMMA TypePlaceInBook ==
  ASSUME TypeInv, NEW h \in Handlers, PlaceInBook(h)
  PROVE  TypeInv'
  <1> DEFINE r == order[h].resource
             o == Stamped(h)
  <1> USE DEF TypeInv
  <1>1. pc[h] = "place" /\ r \in Resources /\ o \in Orders
    BY PlaceInBookStep
  <1>5. bids' \in [Resources -> Seq(Orders)] /\ asks' \in [Resources -> Seq(Orders)]
    <2> HIDE DEF o
    <2>1. \A s \in Seq(Orders) : \A i \in 1..(Len(s) + 1) : InsertAt(s, i, o) \in Seq(Orders)
      BY <1>1, InsertAtProperties
    <2>2. CASE o.side = "BID" /\ asks' = asks
               /\ \E i \in Places("BID", bids[r], o) : bids' = [bids EXCEPT ![r] = InsertAt(@, i, o)]
      <3>1. PICK i \in 1..(Len(bids[r]) + 1) : bids' = [bids EXCEPT ![r] = InsertAt(@, i, o)]
        BY <2>2 DEF Places
      <3>2. InsertAt(bids[r], i, o) \in Seq(Orders)
        BY <1>1, <2>1 DEF TypeOK
      <3> QED BY <2>2, <3>1, <3>2 DEF TypeOK
    <2>3. CASE o.side = "ASK" /\ bids' = bids
               /\ \E i \in Places("ASK", asks[r], o) : asks' = [asks EXCEPT ![r] = InsertAt(@, i, o)]
      <3>1. PICK i \in 1..(Len(asks[r]) + 1) : asks' = [asks EXCEPT ![r] = InsertAt(@, i, o)]
        BY <2>3 DEF Places
      <3>2. InsertAt(asks[r], i, o) \in Seq(Orders)
        BY <1>1, <2>1 DEF TypeOK
      <3> QED BY <2>3, <3>1, <3>2 DEF TypeOK
    <2> QED BY <2>2, <2>3, PlaceInBookStep DEF o
  <1>6. clock' = [clock EXCEPT ![r] = @ + 1] /\ pc' = [pc EXCEPT ![h] = "match"]
        /\ UNCHANGED <<lock, tape, serverVars, topic, order, fills, emitted, restarts>>
    BY PlaceInBookStep
  <1>7. clock' \in [Resources -> 0..MaxOrders]
    <2>1. clock[r] + 1 \in 0..MaxOrders
      BY PlaceInBookStep DEF Orders
    <2> HIDE DEF r
    <2> QED BY <1>1, <1>6, <2>1 DEF TypeOK
  <1>8. TypeOK'
    <2> HIDE DEF r
    <2> QED BY <1>5, <1>6, <1>7 DEF TypeOK, serverVars, Stages
  <1>9. RequestInHand' /\ MoreToEmit'
    BY <1>1, <1>6 DEF RequestInHand, MoreToEmit, TypeOK
  <1>10. ASSUME NEW x \in Resources
         PROVE  (clock[x] + Cardinality(Arriving(x)) <= orderSeq)'
    <2>1. clock[x] + Cardinality(Arriving(x)) <= orderSeq /\ orderSeq' = orderSeq
          /\ clock[x] \in Nat /\ orderSeq \in Nat
      BY <1>6 DEF ClockBounded, serverVars, TypeOK
    <2>2. CASE x = r
      <3>1. Arriving(x)' = Arriving(x) \ {h} /\ h \in Arriving(x)
        BY <1>1, <1>6, <2>2 DEF Arriving, TypeOK
      <3>2. Cardinality(Arriving(x)') = Cardinality(Arriving(x)) - 1
        BY <3>1, ArrivingFinite, FS_RemoveElement
      <3>3. clock'[x] = clock[x] + 1
        BY <1>6, <2>2 DEF TypeOK
      <3> QED BY <2>1, <3>2, <3>3, ArrivingFinite
    <2>3. CASE x # r
      <3>1. Arriving(x)' = Arriving(x)
        BY <1>1, <1>6, <2>3 DEF Arriving, TypeOK
      <3>2. clock'[x] = clock[x]
        BY <1>6, <2>3 DEF TypeOK
      <3> QED BY <2>1, <3>1, <3>2
    <2> QED BY <2>2, <2>3
  <1> QED BY <1>8, <1>9, <1>10 DEF ClockBounded

\* The bound on a book's clock survives any step that takes no request, inserts no order
\* and leaves the arriving handlers as they are.
LEMMA ClockUnchanged ==
  ASSUME ClockBounded, UNCHANGED <<clock, orderSeq>>,
         \A r \in Resources : Arriving(r)' = Arriving(r)
  PROVE  ClockBounded'
  BY DEF ClockBounded

LEMMA TypeBeginMatch ==
  ASSUME TypeInv, NEW h \in Handlers, BeginMatch(h)
  PROVE  TypeInv'
  <1> USE DEF TypeInv
  <1>1. order[h].resource \in Resources
    BY DEF RequestInHand, BeginMatch, Requests
  <1>2. TypeOK'
    BY <1>1 DEF TypeOK, BeginMatch, serverVars, Stages
  <1>3. RequestInHand' /\ MoreToEmit'
    BY DEF RequestInHand, MoreToEmit, BeginMatch, TypeOK
  <1>4. \A r \in Resources : Arriving(r)' = Arriving(r)
    BY DEF Arriving, BeginMatch, TypeOK
  <1> QED BY <1>2, <1>3, <1>4, ClockUnchanged DEF BeginMatch, serverVars

\* When the heads of a book cross, NextTrade is a trade of no more than either has.
LEMMA NextTradeType ==
  ASSUME TypeOK, NEW r \in Resources, Crosses(bids[r], asks[r])
  PROVE  /\ NextTrade(r) \in Trades
         /\ bids[r] \in Seq(Orders) /\ bids[r] # <<>> /\ bids[r][1] \in Orders
         /\ asks[r] \in Seq(Orders) /\ asks[r] # <<>> /\ asks[r][1] \in Orders
         /\ NextTrade(r).qty \in Nat \ {0}
         /\ NextTrade(r).qty <= bids[r][1].qty
         /\ NextTrade(r).qty <= asks[r][1].qty
         /\ NextTrade(r).id = Len(tape[r]) + 1 /\ NextTrade(r).resource = r
  <1>1. /\ bids[r] \in Seq(Orders) /\ bids[r] # <<>>
        /\ asks[r] \in Seq(Orders) /\ asks[r] # <<>>
        /\ Len(tape[r]) \in Nat
    BY LenProperties DEF TypeOK, Crosses
  <1>2. bids[r][1] \in Orders /\ asks[r][1] \in Orders
    BY <1>1, EmptySeq, ElementOfSeq
  <1>3. /\ Lesser(bids[r][1].qty, asks[r][1].qty) \in Nat \ {0}
        /\ Lesser(bids[r][1].qty, asks[r][1].qty) <= bids[r][1].qty
        /\ Lesser(bids[r][1].qty, asks[r][1].qty) <= asks[r][1].qty
    BY <1>2 DEF Lesser, Orders
  <1>4. NextTrade(r) \in Trades
    <2> DEFINE b == bids[r][1]
               a == asks[r][1]
               q == Lesser(b.qty, a.qty)
               n == Len(tape[r]) + 1
    <2>1. NextTrade(r) = [id |-> n, buyOrder |-> b.id, sellOrder |-> a.id, buyer |-> b.npc,
                          seller |-> a.npc, resource |-> r, price |-> a.price, qty |-> q]
      BY DEF NextTrade
    <2>2. b \in Orders /\ a \in Orders /\ q \in Nat \ {0} /\ n \in Nat \ {0}
      BY <1>1, <1>2, <1>3
    <2> HIDE DEF a, b, q, n
    <2> QED BY <2>1, <2>2 DEF Trades, Orders
  <1> QED BY <1>1, <1>2, <1>3, <1>4 DEF NextTrade

LEMMA TypeFill ==
  ASSUME TypeInv, NEW h \in Handlers, Fill(h)
  PROVE  TypeInv'
  <1> DEFINE r == order[h].resource
             t == NextTrade(r)
  <1> USE DEF TypeInv
  <1>1. /\ pc[h] = "matching" /\ r \in Resources
        /\ Crosses(bids[r], asks[r])
        /\ bids' = [bids EXCEPT ![r] = TakeFromHead(@, t.qty)]
        /\ asks' = [asks EXCEPT ![r] = TakeFromHead(@, t.qty)]
        /\ tape' = [tape EXCEPT ![r] = Append(@, t)]
        /\ fills' = [fills EXCEPT ![h] = Append(@, t)]
        /\ UNCHANGED <<lock, clock, serverVars, topic, pc, order, emitted, restarts>>
    BY DEF RequestInHand, Fill, Requests
  <1> HIDE DEF r, t
  <1>2. t \in Trades
        /\ TakeFromHead(bids[r], t.qty) \in Seq(Orders)
        /\ TakeFromHead(asks[r], t.qty) \in Seq(Orders)
    BY <1>1, NextTradeType, OrdersOrderSet, TakeFromHeadProperties DEF t
  <1>3. Append(tape[r], t) \in Seq(Trades) /\ Append(fills[h], t) \in Seq(Trades)
    BY <1>1, <1>2, AppendProperties DEF TypeOK
  <1>4. TypeOK'
    BY <1>1, <1>2, <1>3 DEF TypeOK, serverVars
  <1>5. RequestInHand' /\ MoreToEmit'
    BY <1>1 DEF RequestInHand, MoreToEmit, TypeOK
  <1>6. \A x \in Resources : Arriving(x)' = Arriving(x)
    BY <1>1 DEF Arriving
  <1> QED BY <1>1, <1>4, <1>5, <1>6, ClockUnchanged DEF serverVars

LEMMA TypeEndMatch ==
  ASSUME TypeInv, NEW h \in Handlers, EndMatch(h)
  PROVE  TypeInv'
  <1> USE DEF TypeInv
  <1>1. order[h].resource \in Resources /\ pc[h] = "matching"
    BY DEF RequestInHand, EndMatch, Requests
  <1>2. TypeOK'
    BY <1>1 DEF TypeOK, EndMatch, serverVars, Stages
  <1>3. RequestInHand' /\ MoreToEmit'
    BY <1>1 DEF RequestInHand, MoreToEmit, EndMatch, TypeOK
  <1>4. \A r \in Resources : Arriving(r)' = Arriving(r)
    BY <1>1 DEF Arriving, EndMatch, TypeOK
  <1> QED BY <1>2, <1>3, <1>4, ClockUnchanged DEF EndMatch, serverVars

\* Trimming a sequence of trades gives a sequence of its trades.
LEMMA NewestProperties ==
  ASSUME NEW S, NEW s \in Seq(S)
  PROVE  /\ Newest(s) \in Seq(S) /\ Len(Newest(s)) <= MaxRecent
         /\ \E d \in Nat : /\ Len(Newest(s)) + d = Len(s)
                           /\ \A i \in 1..Len(Newest(s)) : Newest(s)[i] = s[i + d]
  <1>1. Len(s) \in Nat /\ MaxRecent \in Nat \ {0} /\ \A i \in 1..Len(s) : s[i] \in S
    BY LenProperties, ElementOfSeq, MarketAssumption
  <1>2. CASE Len(s) > MaxRecent
    <2> DEFINE m == Len(s) - MaxRecent + 1
               n == Len(s)
    <2>1. m \in Int /\ n \in Int /\ m <= n /\ n - m + 1 = MaxRecent
          /\ \A i \in m..n : s[i] \in S
      BY <1>1, <1>2
    <2>2. Newest(s) = SubSeq(s, m, n)
      BY <1>2 DEF Newest
    <2> HIDE DEF m, n
    <2>3. /\ SubSeq(s, m, n) \in Seq(S) /\ Len(SubSeq(s, m, n)) = MaxRecent
          /\ \A i \in 1..MaxRecent : SubSeq(s, m, n)[i] = s[m + i - 1]
      BY <2>1, SubSeqProperties
    <2>4. Len(s) - MaxRecent \in Nat /\ \A i \in 1..MaxRecent : m + i - 1 = i + (Len(s) - MaxRecent)
      BY <1>1, <1>2 DEF m
    <2>5. \A i \in 1..MaxRecent : Newest(s)[i] = s[i + (Len(s) - MaxRecent)]
      BY <2>2, <2>3, <2>4
    <2>6. Newest(s) \in Seq(S) /\ Len(Newest(s)) = MaxRecent
      BY <2>2, <2>3
    <2> HIDE DEF m, n
    <2>7. MaxRecent + (Len(s) - MaxRecent) = Len(s)
      BY <1>1
    <2>8. \E d \in Nat : /\ Len(Newest(s)) + d = Len(s)
                         /\ \A i \in 1..Len(Newest(s)) : Newest(s)[i] = s[i + d]
      <3>1. Len(s) - MaxRecent \in Nat BY <2>4
      <3> WITNESS Len(s) - MaxRecent \in Nat
      <3> QED BY <2>5, <2>6, <2>7
    <2> QED BY <1>1, <2>6, <2>8
  <1>3. CASE ~(Len(s) > MaxRecent)
    BY <1>1, <1>3 DEF Newest
  <1> QED BY <1>2, <1>3

LEMMA TypeRecord ==
  ASSUME TypeInv, NEW h \in Handlers, Record(h)
  PROVE  TypeInv'
  <1> USE DEF TypeInv
  <1>1. Newest(recent \o fills[h]) \in Seq(Trades)
    BY ConcatProperties, NewestProperties DEF TypeOK
  <1>2. TypeOK'
    BY <1>1 DEF TypeOK, Record, bookVars, Stages
  <1>3. Len(fills[h]) \in Nat \ {0}
    BY EmptySeq DEF TypeOK, MoreToEmit, Record
  <1>4. RequestInHand' /\ MoreToEmit'
    BY <1>3 DEF RequestInHand, MoreToEmit, Record, TypeOK
  <1>5. \A r \in Resources : Arriving(r)' = Arriving(r)
    BY DEF Arriving, Record, TypeOK
  <1> QED BY <1>2, <1>4, <1>5, ClockUnchanged DEF Record, bookVars

\* What a trade is worth is an integer.
LEMMA NotionalType ==
  ASSUME NEW t \in Trades
  PROVE  t.price \in Int /\ t.qty \in Int /\ t.price * t.qty \in Int
  <1>1. t.price \in Prices /\ t.qty \in Nat \ {0} BY DEF Trades
  <1>2. t.price \in Int /\ t.qty \in Int
    <2>1. Prices \subseteq Int BY MarketAssumption
    <2>2. \A n \in Nat \ {0} : n \in Int OBVIOUS
    <2> QED BY <1>1, <2>1, <2>2, Zenon
  <1>3. \A x, y \in Int : x * y \in Int OBVIOUS
  <1> QED BY <1>2, <1>3

\* The k-th of the messages that trades make is a message.
LEMMA SettlementType ==
  ASSUME NEW ts \in Seq(Trades), NEW k \in 1..(2 * Len(ts))
  PROVE  Settlement(ts, k) \in Messages
  <1> DEFINE n == (k + 1) \div 2
             t == ts[n]
  <1>1. n \in 1..Len(ts)
    BY LenProperties
  <1> HIDE DEF n
  <1>2. t \in Trades
    BY <1>1, ElementOfSeq
  <1>3. t.price \in Int /\ t.qty \in Int /\ t.price * t.qty \in Int
    BY <1>2, NotionalType
  <1> HIDE DEF t
  <1>4. Settlement(ts, k) =
          [npc |-> IF k % 2 = 1 THEN t.buyer ELSE t.seller,
           delta |-> IF k % 2 = 1 THEN -(t.price * t.qty) ELSE t.price * t.qty,
           resource |-> t.resource, trade |-> t.id]
    BY DEF Settlement, t, n
  <1> QED BY <1>2, <1>3, <1>4 DEF Messages, Trades

LEMMA TypeEmit ==
  ASSUME TypeInv, NEW h \in Handlers, Emit(h)
  PROVE  TypeInv'
  <1> DEFINE k == emitted[h] + 1
             last == k = 2 * Len(fills[h])
  <1> USE DEF TypeInv
  <1>1. /\ pc[h] = "emit" /\ fills[h] \in Seq(Trades) /\ Len(fills[h]) \in Nat
        /\ emitted[h] \in Nat /\ k \in 1..(2 * Len(fills[h]))
    BY LenProperties DEF Emit, TypeOK, MoreToEmit
  <1>2. Settlement(fills[h], k) \in Messages
    BY <1>1, SettlementType
  <1>3. topic' \in Seq(Messages)
    <2>1. topic \in Seq(Messages) /\ Append(topic, Settlement(fills[h], k)) \in Seq(Messages)
      BY <1>2, AppendProperties DEF TypeOK
    <2>2. topic' = Append(topic, Settlement(fills[h], k)) \/ topic' = topic
      BY DEF Emit
    <2> QED BY <2>1, <2>2
  <1>4. /\ emitted' = [emitted EXCEPT ![h] = IF last THEN 0 ELSE k]
        /\ pc' = (IF last THEN [pc EXCEPT ![h] = "idle"] ELSE pc)
        /\ order' = (IF last THEN [order EXCEPT ![h] = NoRequest] ELSE order)
        /\ fills' = (IF last THEN [fills EXCEPT ![h] = <<>>] ELSE fills)
        /\ UNCHANGED <<bookVars, serverVars, restarts>>
    BY DEF Emit, TwoPerTrade
  <1>5. TypeOK'
    BY <1>1, <1>3, <1>4, EmptySeq DEF TypeOK, bookVars, serverVars, Stages
  <1>6. RequestInHand' /\ MoreToEmit'
    <2>1. k \in Nat /\ (~last => k < 2 * Len(fills[h]))
      BY <1>1
    <2> HIDE DEF k
    <2>2. CASE last
      BY <1>1, <1>4, <2>1, <2>2 DEF RequestInHand, MoreToEmit, TypeOK
    <2>3. CASE ~last
      BY <1>1, <1>4, <2>1, <2>3 DEF RequestInHand, MoreToEmit, TypeOK
    <2> QED BY <2>2, <2>3
  <1>7. \A r \in Resources : Arriving(r)' = Arriving(r)
    BY <1>1, <1>4 DEF Arriving, TypeOK
  <1> QED BY <1>4, <1>5, <1>6, <1>7, ClockUnchanged DEF bookVars, serverVars

LEMMA TypeRestart ==
  ASSUME TypeInv, Restart
  PROVE  TypeInv'
  <1> USE DEF TypeInv, Restart
  <1>1. TypeOK'
    BY MarketAssumption, EmptySeq DEF TypeOK, Stages
  <1>2. RequestInHand' /\ MoreToEmit'
    BY DEF RequestInHand, MoreToEmit
  <1>3. ASSUME NEW r \in Resources
        PROVE  (clock[r] + Cardinality(Arriving(r)) <= orderSeq)'
    <2>1. Arriving(r)' = {} BY DEF Arriving
    <2> QED BY <2>1, FS_EmptySet
  <1> QED BY <1>1, <1>2, <1>3 DEF ClockBounded

LEMMA TypeNext == TypeInv /\ [Next]_vars => TypeInv'
  <1> SUFFICES ASSUME TypeInv, [Next]_vars PROVE TypeInv'
    OBVIOUS
  <1>1. CASE Restart BY <1>1, TypeRestart
  <1>2. ASSUME NEW h \in Handlers, Step(h) PROVE TypeInv'
    BY <1>2, TypeReceive, TypePlaceInBook, TypeBeginMatch, TypeFill, TypeEndMatch,
       TypeRecord, TypeEmit DEF Step
  <1>3. CASE UNCHANGED vars
    <2>1. TypeOK' /\ RequestInHand' /\ MoreToEmit'
      BY <1>3 DEF TypeInv, vars, bookVars, serverVars, handlerVars, TypeOK, RequestInHand,
                  MoreToEmit
    <2>2. \A r \in Resources : Arriving(r)' = Arriving(r)
      BY <1>3 DEF Arriving, vars, handlerVars
    <2> QED BY <1>3, <2>1, <2>2, ClockUnchanged DEF TypeInv, vars, bookVars, serverVars
  <1> QED BY <1>1, <1>2, <1>3 DEF Next

\* Every variable always holds a value of its type; in particular no book gives more
\* timestamps than the server gave numbers, a handler that emits always has a message
\* left, and every settlement is a well-formed message.
THEOREM TypeCorrect == Spec => []TypeOK
  <1>1. Spec => []TypeInv
    BY TypeInit, TypeNext, PTL DEF Spec
  <1>2. TypeInv => TypeOK
    BY DEF TypeInv
  <1> QED BY <1>1, <1>2, PTL
-----------------------------------------------------------------------------
\* Only PlaceInBook, Fill and Restart touch a book.
LEMMA BooksAlone ==
  ASSUME NEW h \in Handlers, Step(h), ~PlaceInBook(h), ~Fill(h)
  PROVE  UNCHANGED <<bids, asks, clock, tape>>
  BY DEF Step, Receive, BeginMatch, EndMatch, Record, Emit, bookVars

\* A fill takes the same quantity from the heads of two sorted sides.
LEMMA FillStep ==
  ASSUME TypeInv, NEW h \in Handlers, Fill(h)
  PROVE  LET r == order[h].resource
             t == NextTrade(r)
         IN  /\ pc[h] = "matching" /\ r \in Resources /\ t \in Trades
             /\ Crosses(bids[r], asks[r])
             /\ bids[r] \in Seq(Orders) /\ bids[r] # <<>>
             /\ asks[r] \in Seq(Orders) /\ asks[r] # <<>>
             /\ t.qty \in Nat \ {0} /\ t.qty <= bids[r][1].qty /\ t.qty <= asks[r][1].qty
             /\ bids' = [bids EXCEPT ![r] = TakeFromHead(@, t.qty)]
             /\ asks' = [asks EXCEPT ![r] = TakeFromHead(@, t.qty)]
             /\ tape' = [tape EXCEPT ![r] = Append(@, t)]
             /\ fills' = [fills EXCEPT ![h] = Append(@, t)]
             /\ UNCHANGED <<lock, clock, serverVars, topic, pc, order, emitted, restarts>>
  <1>1. order[h].resource \in Resources /\ Crosses(bids[order[h].resource], asks[order[h].resource])
    BY DEF TypeInv, RequestInHand, Fill, Requests
  <1> QED BY <1>1, NextTradeType DEF TypeInv, Fill

LEMMA BooksSortedNext ==
  ASSUME TypeInv, BooksSorted, [Next]_vars
  PROVE  BooksSorted'
  <1> SUFFICES ASSUME NEW x \in Resources
               PROVE  (IsSide("BID", bids[x], clock[x]) /\ IsSide("ASK", asks[x], clock[x]))'
    BY DEF BooksSorted
  <1>1. IsSide("BID", bids[x], clock[x]) /\ IsSide("ASK", asks[x], clock[x])
    BY DEF BooksSorted
  <1>2. /\ bids \in [Resources -> Seq(Orders)] /\ asks \in [Resources -> Seq(Orders)]
        /\ clock \in [Resources -> 0..MaxOrders]
        /\ clock[x] \in Int /\ bids[x] \in Seq(Orders) /\ asks[x] \in Seq(Orders)
    BY DEF TypeInv, TypeOK
  <1>3. ASSUME NEW h \in Handlers, PlaceInBook(h)
        PROVE  (IsSide("BID", bids[x], clock[x]) /\ IsSide("ASK", asks[x], clock[x]))'
    <2> DEFINE r == order[h].resource
               o == Stamped(h)
    <2>1. /\ r \in Resources /\ o \in Orders
          /\ o.side \in {"BID", "ASK"} /\ o.ts = clock[r] + 1 /\ clock[r] \in Nat
          /\ \/ /\ o.side = "BID" /\ asks' = asks
                /\ \E i \in Places("BID", bids[r], o) :
                     bids' = [bids EXCEPT ![r] = InsertAt(@, i, o)]
             \/ /\ o.side = "ASK" /\ bids' = bids
                /\ \E i \in Places("ASK", asks[r], o) :
                     asks' = [asks EXCEPT ![r] = InsertAt(@, i, o)]
          /\ clock' = [clock EXCEPT ![r] = @ + 1]
      BY <1>3, PlaceInBookStep
    <2> HIDE DEF r, o
    <2>2. CASE x # r
      <3>1. bids'[x] = bids[x] /\ asks'[x] = asks[x] /\ clock'[x] = clock[x]
        BY <1>2, <2>1, <2>2
      <3> QED BY <1>1, <3>1
    <2>3. CASE x = r /\ o.side = "BID"
      <3>1. PICK i \in Places("BID", bids[x], o) : bids'[x] = InsertAt(bids[x], i, o)
        BY <1>2, <2>1, <2>3
      <3>2. IsSide("BID", InsertAt(bids[x], i, o), clock[x] + 1)
        BY <1>1, <1>2, <2>1, <2>3, InsertKeepsSide, OrdersOrderSet
      <3>3. asks'[x] = asks[x] /\ clock'[x] = clock[x] + 1
        BY <1>2, <2>1, <2>3
      <3>4. IsSide("ASK", asks[x], clock[x] + 1)
        BY <1>1, <1>2, OrdersOrderSet, LenProperties, ElementOfSeq DEF IsSide, OrderSet
      <3> QED BY <3>1, <3>2, <3>3, <3>4
    <2>4. CASE x = r /\ o.side = "ASK"
      <3>1. PICK i \in Places("ASK", asks[x], o) : asks'[x] = InsertAt(asks[x], i, o)
        BY <1>2, <2>1, <2>4
      <3>2. IsSide("ASK", InsertAt(asks[x], i, o), clock[x] + 1)
        BY <1>1, <1>2, <2>1, <2>4, InsertKeepsSide, OrdersOrderSet
      <3>3. bids'[x] = bids[x] /\ clock'[x] = clock[x] + 1
        BY <1>2, <2>1, <2>4
      <3>4. IsSide("BID", bids[x], clock[x] + 1)
        BY <1>1, <1>2, OrdersOrderSet, LenProperties, ElementOfSeq DEF IsSide, OrderSet
      <3> QED BY <3>1, <3>2, <3>3, <3>4
    <2> QED BY <2>1, <2>2, <2>3, <2>4
  <1>4. ASSUME NEW h \in Handlers, Fill(h)
        PROVE  (IsSide("BID", bids[x], clock[x]) /\ IsSide("ASK", asks[x], clock[x]))'
    <2> DEFINE r == order[h].resource
               q == NextTrade(r).qty
    <2>1. /\ r \in Resources /\ q \in Nat \ {0}
          /\ bids[r] # <<>> /\ asks[r] # <<>> /\ q <= bids[r][1].qty /\ q <= asks[r][1].qty
          /\ bids' = [bids EXCEPT ![r] = TakeFromHead(@, q)]
          /\ asks' = [asks EXCEPT ![r] = TakeFromHead(@, q)]
          /\ clock' = clock
      BY <1>4, FillStep
    <2> HIDE DEF r, q
    <2>2. CASE x # r
      BY <1>1, <1>2, <2>1, <2>2
    <2>3. CASE x = r
      <3>1. bids'[x] = TakeFromHead(bids[x], q) /\ asks'[x] = TakeFromHead(asks[x], q)
        BY <1>2, <2>1, <2>3
      <3>2. IsSide("BID", TakeFromHead(bids[x], q), clock[x])
        BY <1>1, <1>2, <2>1, <2>3, FillKeepsSide, OrdersOrderSet
      <3>3. IsSide("ASK", TakeFromHead(asks[x], q), clock[x])
        BY <1>1, <1>2, <2>1, <2>3, FillKeepsSide, OrdersOrderSet
      <3> QED BY <2>1, <3>1, <3>2, <3>3
    <2> QED BY <2>2, <2>3
  <1>5. CASE Restart
    BY <1>5 DEF Restart, IsSide, Sorted
  <1>6. ASSUME NEW h \in Handlers, Step(h), ~PlaceInBook(h), ~Fill(h)
        PROVE  (IsSide("BID", bids[x], clock[x]) /\ IsSide("ASK", asks[x], clock[x]))'
    BY <1>1, <1>6, BooksAlone
  <1>7. CASE UNCHANGED vars
    BY <1>1, <1>7 DEF vars, bookVars
  <1> QED BY <1>3, <1>4, <1>5, <1>6, <1>7 DEF Next

\* Whatever the handlers do, both sides of every book are always in price-time order.
THEOREM BooksAlwaysSorted == Spec => []BooksSorted
  <1>1. Init => BooksSorted
    BY DEF Init, BooksSorted, IsSide, Sorted
  <1>2. TypeInv /\ BooksSorted /\ [Next]_vars => TypeInv' /\ BooksSorted'
    BY TypeNext, BooksSortedNext
  <1> QED BY <1>1, <1>2, TypeInit, PTL DEF Spec
-----------------------------------------------------------------------------
\* In two sorted sides, if any bid meets any ask then the heads meet.
LEMMA CrossAtHeads ==
  ASSUME NEW S, OrderSet(S), NEW s \in Seq(S), NEW u \in Seq(S),
         Sorted("BID", s), Sorted("ASK", u),
         NEW b \in Range(s), NEW a \in Range(u), b.price >= a.price
  PROVE  Crosses(s, u)
  <1>1. PICK i \in 1..Len(s) : b = s[i] BY RangeEquality
  <1>2. PICK j \in 1..Len(u) : a = u[j] BY RangeEquality
  <1>3. s # <<>> /\ u # <<>> /\ 1 \in 1..Len(s) /\ 1 \in 1..Len(u)
    BY <1>1, <1>2, EmptySeq, LenProperties
  <1>4. s[1].price >= b.price
    <2>1. i = 1 \/ Precedes("BID", s[1], s[i])
      BY <1>1, <1>3, LenProperties DEF Sorted
    <2>2. s[1].price \in Int /\ s[i].price \in Int
      BY <1>1, <1>3, ElementOfSeq DEF OrderSet
    <2> QED BY <1>1, <2>1, <2>2 DEF Precedes, BidFirst
  <1>5. a.price >= u[1].price
    <2>1. j = 1 \/ Precedes("ASK", u[1], u[j])
      BY <1>2, <1>3, LenProperties DEF Sorted
    <2>2. u[1].price \in Int /\ u[j].price \in Int
      BY <1>2, <1>3, ElementOfSeq DEF OrderSet
    <2> QED BY <1>2, <2>1, <2>2 DEF Precedes, AskFirst
  <1>6. s[1].price \in Int /\ u[1].price \in Int /\ a.price \in Int /\ b.price \in Int
    BY <1>1, <1>2, <1>3, ElementOfSeq DEF OrderSet
  <1> QED BY <1>3, <1>4, <1>5, <1>6 DEF Crosses

\* Some bid of book r meets some ask.
Meets(r) == \E b \in Range(bids[r]), a \in Range(asks[r]) : b.price >= a.price

\* Some handler of book r has its Match ahead of it.
MatchAhead(r) == \E h \in Handlers : Serves(h, r) /\ pc[h] \in {"match", "matching"}

LEMMA NoStrandedCrossNext ==
  ASSUME TypeInv, BooksSorted, NoStrandedCross, [Next]_vars
  PROVE  NoStrandedCross'
  <1> SUFFICES ASSUME NEW x \in Resources, Meets(x)'
               PROVE  MatchAhead(x)'
    BY DEF NoStrandedCross, Meets, MatchAhead
  <1>1. Meets(x) => MatchAhead(x)
    BY DEF NoStrandedCross, Meets, MatchAhead
  <1>2. pc \in [Handlers -> Stages] /\ DOMAIN order = Handlers
        /\ DOMAIN bids = Resources /\ DOMAIN asks = Resources
    BY DEF TypeInv, TypeOK
  <1>3. ASSUME UNCHANGED <<bids, asks>> PROVE MatchAhead(x)
    BY <1>1, <1>3 DEF Meets
  <1>4. ASSUME NEW h \in Handlers, PlaceInBook(h) PROVE MatchAhead(x)'
    <2>1. /\ pc[h] = "place" /\ pc' = [pc EXCEPT ![h] = "match"] /\ order' = order
          /\ bids' = bids \/ \E e : bids' = [bids EXCEPT ![order[h].resource] = e]
          /\ asks' = asks \/ \E e : asks' = [asks EXCEPT ![order[h].resource] = e]
      BY <1>4, PlaceInBookStep
    <2>2. CASE order[h].resource = x
      BY <1>2, <2>1, <2>2 DEF MatchAhead, Serves
    <2>3. CASE order[h].resource # x
      <3>1. bids'[x] = bids[x] /\ asks'[x] = asks[x]
        BY <1>2, <2>1, <2>3
      <3>2. MatchAhead(x)
        BY <1>1, <3>1 DEF Meets
      <3> QED BY <1>2, <2>1, <3>2 DEF MatchAhead, Serves
    <2> QED BY <2>2, <2>3
  <1>5. ASSUME NEW h \in Handlers, Fill(h) PROVE MatchAhead(x)'
    <2>1. /\ pc[h] = "matching" /\ pc' = pc /\ order' = order
          /\ \E e : bids' = [bids EXCEPT ![order[h].resource] = e]
          /\ \E e : asks' = [asks EXCEPT ![order[h].resource] = e]
      BY <1>5, FillStep
    <2>2. CASE order[h].resource = x
      BY <1>2, <2>1, <2>2 DEF MatchAhead, Serves
    <2>3. CASE order[h].resource # x
      <3>1. bids'[x] = bids[x] /\ asks'[x] = asks[x]
        BY <1>2, <2>1, <2>3
      <3>2. MatchAhead(x)
        BY <1>1, <3>1 DEF Meets
      <3> QED BY <2>1, <3>2 DEF MatchAhead, Serves
    <2> QED BY <2>2, <2>3
  <1>6. ASSUME NEW h \in Handlers, EndMatch(h) PROVE MatchAhead(x)'
    <2>1. MatchAhead(x) /\ Meets(x)
      BY <1>3, <1>6 DEF EndMatch, Meets
    <2>2. order[h].resource # x
      <3>1. bids[x] \in Seq(Orders) /\ asks[x] \in Seq(Orders)
            /\ Sorted("BID", bids[x]) /\ Sorted("ASK", asks[x])
        BY DEF TypeInv, TypeOK, BooksSorted, IsSide
      <3>2. Crosses(bids[x], asks[x])
        BY <2>1, <3>1, CrossAtHeads, OrdersOrderSet DEF Meets
      <3> QED BY <1>6, <3>2 DEF EndMatch
    <2>3. PICK g \in Handlers : Serves(g, x) /\ pc[g] \in {"match", "matching"}
      BY <2>1 DEF MatchAhead
    <2>4. g # h BY <2>2, <2>3 DEF Serves
    <2>5. pc'[g] = pc[g] /\ order'[g] = order[g]
      BY <1>2, <1>6, <2>4 DEF EndMatch
    <2> QED BY <2>3, <2>5 DEF MatchAhead, Serves
  <1>7. ASSUME NEW h \in Handlers, NEW req \in Requests, Receive(h, req) PROVE MatchAhead(x)'
    BY <1>2, <1>3, <1>7 DEF Receive, bookVars, MatchAhead, Serves
  <1>8. ASSUME NEW h \in Handlers, BeginMatch(h) PROVE MatchAhead(x)'
    BY <1>2, <1>3, <1>8 DEF BeginMatch, MatchAhead, Serves
  <1>9. ASSUME NEW h \in Handlers, Record(h) PROVE MatchAhead(x)'
    BY <1>2, <1>3, <1>9 DEF Record, bookVars, MatchAhead, Serves
  <1>10. ASSUME NEW h \in Handlers, Emit(h) PROVE MatchAhead(x)'
    <2>1. MatchAhead(x) BY <1>3, <1>10 DEF Emit, bookVars
    <2>2. PICK g \in Handlers : Serves(g, x) /\ pc[g] \in {"match", "matching"}
      BY <2>1 DEF MatchAhead
    <2>3. g # h BY <1>10, <2>2 DEF Emit
    <2>4. pc'[g] = pc[g] /\ order'[g] = order[g]
      BY <1>2, <1>10, <2>3 DEF Emit
    <2> QED BY <2>2, <2>4 DEF MatchAhead, Serves
  <1>11. ASSUME Restart PROVE MatchAhead(x)'
    BY <1>11 DEF Restart, Meets, Range
  <1>12. ASSUME UNCHANGED vars PROVE MatchAhead(x)'
    BY <1>3, <1>12 DEF vars, bookVars, handlerVars, MatchAhead, Serves
  <1> QED BY <1>4, <1>5, <1>6, <1>7, <1>8, <1>9, <1>10, <1>11, <1>12 DEF Next, Step

\* Although an order is inserted in one critical section and matched in another, a bid and
\* an ask that meet always have a handler whose Match is still ahead.
THEOREM NoCrossIsStranded == Spec => []NoStrandedCross
  <1>1. Init => BooksSorted /\ NoStrandedCross
    BY DEF Init, BooksSorted, IsSide, Sorted, NoStrandedCross, Range
  <1>2. TypeInv /\ BooksSorted /\ NoStrandedCross /\ [Next]_vars =>
          TypeInv' /\ BooksSorted' /\ NoStrandedCross'
    BY TypeNext, BooksSortedNext, NoStrandedCrossNext
  <1> QED BY <1>1, <1>2, TypeInit, PTL DEF Spec
-----------------------------------------------------------------------------
\* The trades of ts have numbers that their books have given.
Numbered(ts) == \A t \in Range(ts) : t.resource \in Resources /\ t.id \in 1..Len(tape[t.resource])

\* The strengthening of ReportedOnce: a trade a book makes now has a number that no trade in
\* a handler's hands or in the ring has, because those have been given already; and a
\* handler starts to match with no trade.
ReportInv ==
  /\ ReportedOnce
  /\ Numbered(recent)
  /\ \A h \in Handlers :
       /\ Numbered(fills[h]) /\ IsInjective(fills[h])
       /\ pc[h] \in {"idle", "place", "match"} => fills[h] = <<>>

\* A new element keeps a sequence free of repetitions.
LEMMA AppendNew ==
  ASSUME NEW S, NEW s \in Seq(S), NEW e \in S, e \notin Range(s)
  PROVE  /\ Range(Append(s, e)) = Range(s) \union {e}
         /\ IsInjective(s) => IsInjective(Append(s, e))
  <1>1. /\ Len(s) \in Nat /\ DOMAIN s = 1..Len(s) /\ DOMAIN Append(s, e) = 1..(Len(s) + 1)
        /\ \A i \in 1..Len(s) : Append(s, e)[i] = s[i]
        /\ Append(s, e)[Len(s) + 1] = e
    BY AppendProperties, LenProperties
  <1>2. \A i \in 1..(Len(s) + 1) : i \in 1..Len(s) \/ i = Len(s) + 1
    BY <1>1
  <1>3. Range(Append(s, e)) = Range(s) \union {e}
    <2>1. Range(Append(s, e)) \subseteq Range(s) \union {e}
      BY <1>1, <1>2 DEF Range
    <2>2. Range(s) \subseteq Range(Append(s, e))
      <3>1. \A i \in 1..Len(s) : i \in 1..(Len(s) + 1) BY <1>1
      <3> QED BY <3>1, <1>1 DEF Range
    <2>3. e \in Range(Append(s, e))
      <3>1. Len(s) + 1 \in 1..(Len(s) + 1) BY <1>1
      <3> QED BY <3>1, <1>1 DEF Range
    <2> QED BY <2>1, <2>2, <2>3
  <1>4. ASSUME IsInjective(s), NEW i \in 1..(Len(s) + 1), NEW j \in 1..(Len(s) + 1),
               Append(s, e)[i] = Append(s, e)[j]
        PROVE  i = j
    <2>1. \A k \in 1..Len(s) : s[k] # e BY <1>1 DEF Range
    <2> QED BY <1>1, <1>2, <1>4, <2>1 DEF IsInjective
  <1> QED BY <1>1, <1>3, <1>4 DEF IsInjective

\* Joining two sequences with nothing in common, and trimming the result.
LEMMA JoinTrim ==
  ASSUME NEW S, NEW s \in Seq(S), NEW u \in Seq(S), IsInjective(s), IsInjective(u),
         Range(s) \intersect Range(u) = {}
  PROVE  /\ IsInjective(Newest(s \o u))
         /\ Range(Newest(s \o u)) \subseteq Range(s) \union Range(u)
         /\ Len(Newest(s \o u)) <= MaxRecent
  <1> DEFINE w == s \o u
             v == Newest(w)
  <1>1. /\ w \in Seq(S) /\ Len(s) \in Nat /\ Len(u) \in Nat /\ Len(w) = Len(s) + Len(u)
        /\ DOMAIN s = 1..Len(s) /\ DOMAIN u = 1..Len(u)
        /\ \A i \in 1..(Len(s) + Len(u)) : w[i] = IF i <= Len(s) THEN s[i] ELSE u[i - Len(s)]
    BY ConcatProperties, LenProperties
  <1> HIDE DEF w
  <1>2. PICK d \in Nat : /\ v \in Seq(S) /\ Len(v) + d = Len(w) /\ Len(v) <= MaxRecent
                         /\ \A i \in 1..Len(v) : v[i] = w[i + d]
    BY <1>1, NewestProperties
  <1>3. Len(v) \in Nat /\ DOMAIN v = 1..Len(v)
    BY <1>2, LenProperties
  <1> HIDE DEF v
  <1>4. \A i \in 1..Len(w) : \/ i \in 1..Len(s) /\ w[i] = s[i] /\ s[i] \in Range(s)
                             \/ /\ i \notin 1..Len(s) /\ i - Len(s) \in 1..Len(u)
                                /\ w[i] = u[i - Len(s)] /\ u[i - Len(s)] \in Range(u)
    <2> SUFFICES ASSUME NEW i \in 1..Len(w)
                 PROVE  \/ i \in 1..Len(s) /\ w[i] = s[i] /\ s[i] \in Range(s)
                        \/ /\ i \notin 1..Len(s) /\ i - Len(s) \in 1..Len(u)
                           /\ w[i] = u[i - Len(s)] /\ u[i - Len(s)] \in Range(u)
      OBVIOUS
    <2>1. CASE i <= Len(s)
      <3>1. i \in 1..Len(s) /\ w[i] = s[i] BY <1>1, <2>1
      <3> QED BY <3>1, <1>1 DEF Range
    <2>2. CASE ~(i <= Len(s))
      <3>1. i \notin 1..Len(s) /\ i - Len(s) \in 1..Len(u) /\ w[i] = u[i - Len(s)]
        BY <1>1, <2>2
      <3> QED BY <3>1, <1>1 DEF Range
    <2> QED BY <2>1, <2>2
  <1>5. ASSUME NEW i \in 1..Len(w), NEW j \in 1..Len(w), w[i] = w[j]
        PROVE  i = j
    <2>1. CASE i \in 1..Len(s) /\ j \in 1..Len(s)
      BY <1>1, <1>4, <1>5, <2>1 DEF IsInjective
    <2>2. CASE i \notin 1..Len(s) /\ j \notin 1..Len(s)
      <3>1. i - Len(s) = j - Len(s)
        BY <1>1, <1>4, <1>5, <2>2 DEF IsInjective
      <3> QED BY <1>1, <3>1
    <2> QED BY <1>4, <1>5, <2>1, <2>2
  <1>6. \A i \in 1..Len(v) : i + d \in 1..Len(w)
    BY <1>1, <1>2, <1>3
  <1>7. IsInjective(v)
    <2> SUFFICES ASSUME NEW i \in 1..Len(v), NEW j \in 1..Len(v), v[i] = v[j]
                 PROVE  i = j
      BY <1>3 DEF IsInjective
    <2>1. i + d = j + d
      BY <1>2, <1>5, <1>6
    <2> QED BY <1>3, <2>1
  <1>8. Range(v) \subseteq Range(s) \union Range(u)
    BY <1>2, <1>3, <1>4, <1>6 DEF Range
  <1> QED BY <1>2, <1>7, <1>8 DEF v, w

\* Match makes a trade that nobody has in hand and the ring does not show.
LEMMA ReportFill ==
  ASSUME TypeInv, ReportInv, NEW h \in Handlers, Fill(h)
  PROVE  ReportInv'
  <1> DEFINE r == order[h].resource
             t == NextTrade(r)
  <1>1. /\ pc[h] = "matching" /\ r \in Resources /\ t \in Trades
        /\ tape' = [tape EXCEPT ![r] = Append(@, t)]
        /\ fills' = [fills EXCEPT ![h] = Append(@, t)]
        /\ pc' = pc /\ recent' = recent
    BY FillStep DEF serverVars
  <1>2. t.resource = r /\ t.id = Len(tape[r]) + 1
    BY DEF NextTrade
  <1> HIDE DEF r, t
  <1>3. /\ tape \in [Resources -> Seq(Trades)] /\ fills \in [Handlers -> Seq(Trades)]
        /\ tape[r] \in Seq(Trades) /\ Len(tape[r]) \in Nat /\ fills[h] \in Seq(Trades)
    BY <1>1, LenProperties DEF TypeInv, TypeOK
  <1>4. ASSUME NEW ts, Numbered(ts) PROVE t \notin Range(ts) /\ Numbered(ts)'
    <2>1. t \notin Range(ts)
      BY <1>2, <1>3, <1>4 DEF Numbered
    <2>2. ASSUME NEW y \in Range(ts)
          PROVE  y.resource \in Resources /\ y.id \in 1..Len(tape'[y.resource])
      <3>1. y.resource \in Resources /\ y.id \in 1..Len(tape[y.resource])
        BY <1>4 DEF Numbered
      <3>2. CASE y.resource # r
        BY <1>1, <1>3, <3>1, <3>2
      <3>3. CASE y.resource = r
        <4>1. tape'[r] = Append(tape[r], t) BY <1>1, <1>3
        <4>2. Len(tape'[r]) = Len(tape[r]) + 1 BY <1>1, <1>3, <4>1, AppendProperties
        <4> QED BY <1>3, <3>1, <3>3, <4>2
      <3> QED BY <3>2, <3>3
    <2> QED BY <2>1, <2>2 DEF Numbered
  <1>5. /\ fills'[h] = Append(fills[h], t) /\ \A g \in Handlers \ {h} : fills'[g] = fills[g]
        /\ Range(fills'[h]) = Range(fills[h]) \union {t}
        /\ IsInjective(fills'[h])
    BY <1>1, <1>3, <1>4, AppendNew DEF ReportInv
  <1>6. /\ Numbered(recent)' /\ t \notin Range(recent)
        /\ \A g \in Handlers : t \notin Range(fills[g])
    BY <1>1, <1>4 DEF ReportInv
  <1>7. \A g \in Handlers : Numbered(fills[g])'
    <2> SUFFICES ASSUME NEW g \in Handlers PROVE Numbered(fills[g])'
      OBVIOUS
    <2>1. CASE g # h
      <3>1. fills'[g] = fills[g] BY <1>5, <2>1
      <3>2. Numbered(fills[g]) BY DEF ReportInv
      <3>3. \A y \in Range(fills[g]) : y.resource \in Resources /\ y.id \in 1..Len(tape'[y.resource])
        BY <3>2, <1>4 DEF Numbered
      <3> QED BY <3>1, <3>3 DEF Numbered
    <2>2. CASE g = h
      <3>1. Numbered(fills[h]) BY DEF ReportInv
      <3>2. \A y \in Range(fills[h]) : y.resource \in Resources /\ y.id \in 1..Len(tape'[y.resource])
        BY <3>1, <1>4 DEF Numbered
      <3>3. tape'[r] = Append(tape[r], t) BY <1>1, <1>3
      <3>4. Len(tape'[r]) = Len(tape[r]) + 1 BY <1>1, <1>3, <3>3, AppendProperties
      <3>5. t.resource \in Resources /\ t.id \in 1..Len(tape'[t.resource])
        BY <1>1, <1>2, <1>3, <3>4
      <3> QED BY <2>2, <1>5, <3>2, <3>5 DEF Numbered
    <2> QED BY <2>1, <2>2
  <1>8. ReportedOnce'
    <2>1. \A f, g \in Handlers : f # g => Range(fills'[f]) \intersect Range(fills'[g]) = {}
      <3>1. \A f, g \in Handlers : f # g => Range(fills[f]) \intersect Range(fills[g]) = {}
        BY DEF ReportInv, ReportedOnce
      <3> SUFFICES ASSUME NEW f \in Handlers, NEW g \in Handlers, f # g
                   PROVE  Range(fills'[f]) \intersect Range(fills'[g]) = {}
        OBVIOUS
      <3>2. Range(fills[f]) \intersect Range(fills[g]) = {} BY <3>1
      <3>3. t \notin Range(fills[f]) /\ t \notin Range(fills[g]) BY <1>6
      <3>4. CASE f = h
        <4>1. fills'[g] = fills[g] /\ Range(fills'[f]) = Range(fills[f]) \union {t}
          BY <1>5, <3>4
        <4> QED BY <3>2, <3>3, <4>1
      <3>5. CASE g = h
        <4>1. fills'[f] = fills[f] /\ Range(fills'[g]) = Range(fills[g]) \union {t}
          BY <1>5, <3>5
        <4> QED BY <3>2, <3>3, <4>1
      <3>6. CASE f # h /\ g # h
        BY <1>5, <3>2, <3>6
      <3> QED BY <3>4, <3>5, <3>6
    <2>2. \A g \in Handlers :
             pc'[g] \in {"matching", "record"} => Range(fills'[g]) \intersect Range(recent') = {}
      <3>1. \A g \in Handlers :
              pc[g] \in {"matching", "record"} => Range(fills[g]) \intersect Range(recent) = {}
        BY DEF ReportInv, ReportedOnce
      <3> QED BY <1>1, <1>5, <1>6, <3>1
    <2> QED BY <1>1, <2>1, <2>2 DEF ReportInv, ReportedOnce
  <1>9. \A g \in Handlers : IsInjective(fills'[g])
    BY <1>5 DEF ReportInv
  <1>10. \A g \in Handlers : pc'[g] \in {"idle", "place", "match"} => fills'[g] = <<>>
    BY <1>1, <1>5 DEF ReportInv
  <1> QED BY <1>6, <1>7, <1>8, <1>9, <1>10 DEF ReportInv

\* What Record adds to the ring is not in it, and nobody else has it.
LEMMA ReportRecord ==
  ASSUME TypeInv, ReportInv, NEW h \in Handlers, Record(h)
  PROVE  ReportInv'
  <1>1. /\ pc[h] = "record" /\ pc' = [pc EXCEPT ![h] = "emit"]
        /\ recent' = Newest(recent \o fills[h]) /\ fills' = fills /\ tape' = tape
        /\ pc \in [Handlers -> Stages]
    BY DEF Record, bookVars, TypeInv, TypeOK
  <1>2. /\ recent \in Seq(Trades) /\ fills[h] \in Seq(Trades)
        /\ IsInjective(recent) /\ IsInjective(fills[h])
        /\ Range(recent) \intersect Range(fills[h]) = {}
    BY <1>1 DEF ReportInv, ReportedOnce, TypeInv, TypeOK
  <1>3. /\ IsInjective(recent') /\ Len(recent') <= MaxRecent
        /\ Range(recent') \subseteq Range(recent) \union Range(fills[h])
    BY <1>1, <1>2, JoinTrim
  <1>4. Numbered(recent)'
    BY <1>1, <1>3 DEF ReportInv, Numbered
  <1>5. \A g \in Handlers : pc'[g] \in {"matching", "record"} =>
                              Range(fills[g]) \intersect Range(recent') = {}
    <2> SUFFICES ASSUME NEW g \in Handlers, pc'[g] \in {"matching", "record"}
                 PROVE  Range(fills[g]) \intersect Range(recent') = {}
      OBVIOUS
    <2>1. g # h /\ pc[g] = pc'[g] BY <1>1
    <2>2. /\ Range(fills[g]) \intersect Range(recent) = {}
          /\ Range(fills[g]) \intersect Range(fills[h]) = {}
      BY <2>1 DEF ReportInv, ReportedOnce
    <2> QED BY <1>3, <2>2
  <1>6. ReportedOnce'
    BY <1>1, <1>3, <1>5 DEF ReportInv, ReportedOnce
  <1>7. \A g \in Handlers :
          /\ Numbered(fills[g])' /\ IsInjective(fills'[g])
          /\ pc'[g] \in {"idle", "place", "match"} => fills'[g] = <<>>
    BY <1>1 DEF ReportInv, Numbered
  <1> QED BY <1>4, <1>6, <1>7 DEF ReportInv

\* A step that keeps tapes and ring, and at most empties the hands of one handler that
\* leaves matching, keeps reports unique.
LEMMA ReportRest ==
  ASSUME TypeInv, ReportInv, NEW h \in Handlers, UNCHANGED <<tape, recent>>,
         fills' \in {fills, [fills EXCEPT ![h] = <<>>]},
         NEW to \in Stages, pc' = [pc EXCEPT ![h] = to],
         to = "record" => pc[h] = "matching",
         to \in {"idle", "place", "match", "matching"} => fills'[h] = <<>>
  PROVE  ReportInv'
  <1>1. pc \in [Handlers -> Stages] /\ fills \in [Handlers -> Seq(Trades)]
    BY DEF TypeInv, TypeOK
  <1>2. Range(<<>>) = {} /\ IsInjective(<<>>)
    BY DEF Range, IsInjective
  <1>3. \A g \in Handlers : fills'[g] = fills[g] \/ fills'[g] = <<>>
    BY <1>1
  <1>4. \A g \in Handlers : Numbered(fills[g])' /\ IsInjective(fills'[g])
    BY <1>2, <1>3 DEF ReportInv, Numbered
  <1>5. \A g \in Handlers : pc'[g] \in {"idle", "place", "match"} => fills'[g] = <<>>
    BY <1>1, <1>3 DEF ReportInv
  <1>6. \A f, g \in Handlers : f # g => Range(fills'[f]) \intersect Range(fills'[g]) = {}
    BY <1>2, <1>3 DEF ReportInv, ReportedOnce
  <1>7. \A g \in Handlers : pc'[g] \in {"matching", "record"} =>
                              Range(fills'[g]) \intersect Range(recent') = {}
    <2> SUFFICES ASSUME NEW g \in Handlers, pc'[g] \in {"matching", "record"}
                 PROVE  Range(fills'[g]) \intersect Range(recent') = {}
      OBVIOUS
    <2>1. CASE fills'[g] = <<>> BY <2>1, <1>2
    <2>2. CASE fills'[g] = fills[g] /\ pc[g] \in {"matching", "record"}
      BY <2>2 DEF ReportInv, ReportedOnce
    <2> QED BY <1>1, <1>3, <2>1, <2>2
  <1>8. ReportedOnce' /\ Numbered(recent)'
    BY <1>6, <1>7 DEF ReportInv, ReportedOnce, Numbered
  <1> QED BY <1>4, <1>5, <1>8 DEF ReportInv

LEMMA ReportNext ==
  ASSUME TypeInv, ReportInv, [Next]_vars
  PROVE  ReportInv'
  <1>1. /\ pc \in [Handlers -> Stages] /\ fills \in [Handlers -> Seq(Trades)]
        /\ \A h \in Handlers : pc[h] \in {"idle", "place", "match"} => fills[h] = <<>>
    BY DEF TypeInv, TypeOK, ReportInv
  <1>2. ASSUME NEW h \in Handlers, NEW req \in Requests, Receive(h, req) PROVE ReportInv'
    <2>1. /\ UNCHANGED <<tape, recent>> /\ fills' = fills /\ pc' = [pc EXCEPT ![h] = "place"]
          /\ "place" \in Stages /\ fills'[h] = <<>>
      BY <1>1, <1>2 DEF Receive, bookVars, Stages
    <2> QED BY <2>1, ReportRest
  <1>3. ASSUME NEW h \in Handlers, PlaceInBook(h) PROVE ReportInv'
    <2>1. /\ UNCHANGED <<tape, recent>> /\ fills' = fills /\ pc' = [pc EXCEPT ![h] = "match"]
          /\ "match" \in Stages /\ fills'[h] = <<>>
      BY <1>1, <1>3, PlaceInBookStep DEF serverVars, Stages
    <2> QED BY <2>1, ReportRest
  <1>4. ASSUME NEW h \in Handlers, BeginMatch(h) PROVE ReportInv'
    <2>1. /\ UNCHANGED <<tape, recent>> /\ fills' = fills /\ pc' = [pc EXCEPT ![h] = "matching"]
          /\ "matching" \in Stages /\ fills'[h] = <<>>
      BY <1>1, <1>4 DEF BeginMatch, serverVars, Stages
    <2> QED BY <2>1, ReportRest
  <1>5. ASSUME NEW h \in Handlers, EndMatch(h) PROVE ReportInv'
    <2>1. CASE fills[h] = <<>>
      <3>1. /\ UNCHANGED <<tape, recent>> /\ fills' = fills /\ pc' = [pc EXCEPT ![h] = "idle"]
            /\ "idle" \in Stages /\ fills'[h] = <<>>
        BY <1>5, <2>1 DEF EndMatch, serverVars, Stages
      <3> QED BY <3>1, ReportRest
    <2>2. CASE fills[h] # <<>>
      <3>1. /\ UNCHANGED <<tape, recent>> /\ fills' = fills /\ pc' = [pc EXCEPT ![h] = "record"]
            /\ "record" \in Stages /\ pc[h] = "matching"
        BY <1>5, <2>2 DEF EndMatch, serverVars, Stages
      <3> QED BY <3>1, ReportRest
    <2> QED BY <2>1, <2>2
  <1>6. ASSUME NEW h \in Handlers, Emit(h) PROVE ReportInv'
    <2>1. UNCHANGED <<tape, recent>> /\ pc[h] = "emit"
      BY <1>6 DEF Emit, bookVars, serverVars
    <2>2. CASE emitted[h] + 1 = TwoPerTrade(fills[h])
      <3>1. /\ fills' = [fills EXCEPT ![h] = <<>>] /\ pc' = [pc EXCEPT ![h] = "idle"]
            /\ "idle" \in Stages /\ fills'[h] = <<>>
        BY <1>1, <1>6, <2>2 DEF Emit, Stages
      <3> QED BY <2>1, <3>1, ReportRest
    <2>3. CASE emitted[h] + 1 # TwoPerTrade(fills[h])
      <3>1. fills' = fills /\ pc' = [pc EXCEPT ![h] = "emit"] /\ "emit" \in Stages
        BY <1>1, <1>6, <2>1, <2>3 DEF Emit, Stages
      <3> QED BY <2>1, <3>1, ReportRest
    <2> QED BY <2>2, <2>3
  <1>7. ASSUME Restart PROVE ReportInv'
    <2>1. recent' = <<>> /\ \A h \in Handlers : fills'[h] = <<>>
      BY <1>7 DEF Restart
    <2>2. Range(<<>>) = {} /\ IsInjective(<<>>) /\ Len(<<>>) <= MaxRecent
      BY MarketAssumption DEF Range, IsInjective
    <2> QED BY <2>1, <2>2 DEF ReportInv, ReportedOnce, Numbered
  <1>8. ASSUME UNCHANGED vars PROVE ReportInv'
    BY <1>8 DEF vars, bookVars, serverVars, handlerVars, ReportInv, ReportedOnce, Numbered
  <1> QED BY <1>2, <1>3, <1>4, <1>5, <1>6, <1>7, <1>8, ReportFill, ReportRecord DEF Next, Step

LEMMA ReportInit == Init => ReportInv
  <1>1. Range(<<>>) = {} /\ IsInjective(<<>>) /\ Len(<<>>) <= MaxRecent
    BY MarketAssumption DEF Range, IsInjective
  <1> QED BY <1>1 DEF Init, ReportInv, ReportedOnce, Numbered

\* Each trade is in the hands of one handler and is recorded once: handlers that match one
\* book in turn never report a trade twice, and a trade enters the ring once.
THEOREM TradesReportedOnce == Spec => []ReportedOnce
  <1>1. TypeInv /\ ReportInv /\ [Next]_vars => TypeInv' /\ ReportInv'
    BY TypeNext, ReportNext
  <1>2. ReportInv => ReportedOnce
    BY DEF ReportInv
  <1> QED BY <1>1, <1>2, TypeInit, ReportInit, PTL DEF Spec
-----------------------------------------------------------------------------
(***************************************************************************)
(* No quantity is lost or minted.                                          *)
(***************************************************************************)

\* Order numbers identify orders: those of the books, the tapes and the requests have been
\* given out, no two requests have the same, and no two orders of a book.
OrdersNumbered ==
  /\ \A h \in Handlers : pc[h] # "idle" => order[h].id <= orderSeq
  /\ \A g, h \in Handlers :
       pc[g] # "idle" /\ pc[h] # "idle" /\ order[g].id = order[h].id => g = h
  /\ \A r \in Resources : \A o \in OpenOrders(r) : o.id <= orderSeq
  /\ \A r \in Resources : \A o, p \in OpenOrders(r) : o.id = p.id => o = p
  /\ \A r \in Resources : \A n \in 1..Len(tape[r]) :
       tape[r][n].buyOrder <= orderSeq /\ tape[r][n].sellOrder <= orderSeq

\* An order reaches its book with PlaceInBook, and keeps its side: until then neither book
\* nor tape knows its number.
Placed ==
  \A h \in Handlers : pc[h] # "idle" =>
    \A r \in Resources :
      /\ \A o \in OpenOrders(r) :
           o.id = order[h].id => pc[h] # "place" /\ o.side = order[h].side
      /\ pc[h] = "place" =>
           \A n \in 1..Len(tape[r]) : order[h].id \notin {tape[r][n].buyOrder, tape[r][n].sellOrder}

\* The number of an order is enough to find what it has open on a sorted slice: its
\* quantity when it is there, nothing when it is not.
LEMMA OpenQtyOf ==
  ASSUME NEW s \in Seq(Orders), NEW side, Sorted(side, s),
         \A o, p \in Range(s) : o.id = p.id => o = p,
         NEW id
  PROVE  /\ OpenQty(s, id) \in Int
         /\ \A o \in Range(s) : o.id = id => OpenQty(s, id) = o.qty
         /\ (\A o \in Range(s) : o.id # id) => OpenQty(s, id) = 0
  <1> DEFINE f == [i \in DOMAIN s |-> s[i].qty]
             T == {i \in DOMAIN s : s[i].id = id}
  <1>1. /\ Len(s) \in Nat /\ DOMAIN s = 1..Len(s)
        /\ Range(s) = {s[i] : i \in 1..Len(s)}
        /\ \A i \in 1..Len(s) : s[i] \in Orders
    BY LenProperties, RangeEquality, ElementOfSeq
  <1>2. \A i \in 1..Len(s) : f[i] = s[i].qty /\ f[i] \in Int
    BY <1>1 DEF Orders
  <1>3. OpenQty(s, id) = SumFunctionOnSet(f, T)
    BY DEF OpenQty
  <1>4. ASSUME NEW i \in 1..Len(s), NEW j \in 1..Len(s), s[i].id = s[j].id PROVE i = j
    <2>1. s[i] = s[j]
      BY <1>1, <1>4
    <2>2. ~Precedes(side, s[i], s[j]) /\ ~Precedes(side, s[j], s[i])
      BY <1>1, <2>1 DEF Precedes, BidFirst, AskFirst, Orders
    <2>3. ~(i < j) /\ ~(j < i)
      BY <2>2 DEF Sorted
    <2> QED BY <2>3
  <1>5. ASSUME NEW o \in Range(s), o.id = id PROVE OpenQty(s, id) = o.qty /\ OpenQty(s, id) \in Int
    <2>1. PICK i \in 1..Len(s) : o = s[i]
      BY <1>1
    <2>2. T = {i}
      BY <1>1, <1>4, <1>5, <2>1
    <2>3. f[i] = o.qty /\ f[i] \in Int
      BY <1>2, <2>1
    <2> HIDE DEF f, T
    <2>4. SumFunctionOnSet(f, {i}) = f[i]
      BY <2>3, SumOne
    <2> QED BY <1>3, <2>2, <2>3, <2>4
  <1>6. ASSUME \A o \in Range(s) : o.id # id PROVE OpenQty(s, id) = 0
    <2>1. T = {}
      BY <1>1, <1>6
    <2> QED BY <1>3, <2>1, SumEmpty
  <1> QED BY <1>5, <1>6

\* An order that keeps its number while its quantity falls.
LEMMA RestKeepsId ==
  ASSUME NEW x \in Orders, NEW q \in Nat \ {0}, ~(x.qty <= q)
  PROVE  LET y == [x EXCEPT !.qty = @ - q] IN y.id = x.id /\ y.qty = x.qty - q
  BY DEF Orders

\* What a fill leaves open: q less of the head, of every other order the same.
LEMMA OpenQtyFill ==
  ASSUME NEW s \in Seq(Orders), s # <<>>, NEW q \in Nat \ {0}, q <= s[1].qty,
         NEW side, Sorted(side, s),
         \A o, p \in Range(s) : o.id = p.id => o = p,
         NEW id
  PROVE  OpenQty(TakeFromHead(s, q), id) = OpenQty(s, id) - (IF id = s[1].id THEN q ELSE 0)
  <1> DEFINE t == TakeFromHead(s, q)
             b == s[1]
             y == [s[1] EXCEPT !.qty = @ - q]
  <1>1. t \in Seq(Orders) /\ Sorted(side, t)
    BY OrdersOrderSet, TakeFromHeadProperties, TakeFromHeadKeepsSorted
  <1>2. Range(t) = (Range(s) \ {b}) \union (IF b.qty <= q THEN {} ELSE {y})
    BY OrdersOrderSet, TakeFromHeadRange
  <1>3. b \in Orders /\ b \in Range(s) /\ b.qty \in Nat \ {0}
    <2>1. Len(s) \in Nat /\ 1 \in 1..Len(s) /\ Range(s) = {s[i] : i \in 1..Len(s)}
      BY EmptySeq, LenProperties, RangeEquality
    <2>2. b \in Orders /\ b \in Range(s)
      BY <2>1, ElementOfSeq
    <2> QED BY <2>2 DEF Orders
  <1>4. ~(b.qty <= q) => y.id = b.id /\ y.qty = b.qty - q
    BY <1>3, RestKeepsId
  <1> HIDE DEF b, t, y
  <1>5. \A o, p \in Range(t) : o.id = p.id => o = p
    BY <1>2, <1>3, <1>4
  <1>6. /\ OpenQty(t, id) \in Int /\ OpenQty(s, id) \in Int
        /\ \A o \in Range(t) : o.id = id => OpenQty(t, id) = o.qty
        /\ (\A o \in Range(t) : o.id # id) => OpenQty(t, id) = 0
        /\ \A o \in Range(s) : o.id = id => OpenQty(s, id) = o.qty
        /\ (\A o \in Range(s) : o.id # id) => OpenQty(s, id) = 0
    BY <1>1, <1>5, OpenQtyOf
  <1>7. CASE id = b.id
    <2>1. OpenQty(s, id) = b.qty
      BY <1>3, <1>6, <1>7
    <2>2. CASE b.qty <= q
      <3>1. b.qty = q
        BY <1>3, <2>2 DEF b
      <3>2. \A o \in Range(t) : o.id # id
        BY <1>2, <1>3, <1>7, <2>2
      <3>3. OpenQty(t, id) = 0
        BY <1>6, <3>2
      <3> QED BY <1>3, <1>7, <2>1, <3>1, <3>3 DEF b, t
    <2>3. CASE ~(b.qty <= q)
      <3>1. y \in Range(t) /\ y.id = id /\ y.qty = b.qty - q
        BY <1>2, <1>4, <1>7, <2>3
      <3>2. OpenQty(t, id) = b.qty - q
        BY <1>6, <3>1
      <3> QED BY <1>7, <2>1, <3>2 DEF b, t
    <2> QED BY <2>2, <2>3
  <1>8. CASE id # b.id
    <2>1. ASSUME NEW o, o.id = id PROVE o \in Range(t) <=> o \in Range(s)
      BY <1>2, <1>4, <1>8, <2>1
    <2>2. OpenQty(t, id) = OpenQty(s, id)
      <3>1. CASE \E o \in Range(s) : o.id = id
        BY <1>6, <2>1, <3>1
      <3>2. CASE \A o \in Range(s) : o.id # id
        BY <1>6, <2>1, <3>2
      <3> QED BY <3>1, <3>2
    <2>3. OpenQty(s, id) - 0 = OpenQty(s, id)
      BY <1>6
    <2> QED BY <1>8, <2>2, <2>3 DEF b, t
  <1> QED BY <1>7, <1>8

\* What an insertion leaves open: all of the new order, of every other the same.
LEMMA OpenQtyInsert ==
  ASSUME NEW s \in Seq(Orders), NEW o \in Orders, NEW i \in 1..(Len(s) + 1),
         NEW side, Sorted(side, s), Sorted(side, InsertAt(s, i, o)),
         \A p, x \in Range(s) : p.id = x.id => p = x,
         \A p \in Range(s) : p.id # o.id,
         NEW id
  PROVE  OpenQty(InsertAt(s, i, o), id) = IF id = o.id THEN o.qty ELSE OpenQty(s, id)
  <1> DEFINE t == InsertAt(s, i, o)
  <1>1. t \in Seq(Orders) /\ Range(t) = Range(s) \union {o}
    BY InsertAtProperties, InsertAtRange
  <1> HIDE DEF t
  <1>2. Sorted(side, t)
    BY DEF t
  <1>3. \A p, x \in Range(t) : p.id = x.id => p = x
    BY <1>1
  <1>4. /\ \A p \in Range(t) : p.id = id => OpenQty(t, id) = p.qty
        /\ (\A p \in Range(t) : p.id # id) => OpenQty(t, id) = 0
        /\ \A p \in Range(s) : p.id = id => OpenQty(s, id) = p.qty
        /\ (\A p \in Range(s) : p.id # id) => OpenQty(s, id) = 0
    BY <1>1, <1>2, <1>3, OpenQtyOf
  <1>5. CASE id = o.id
    BY <1>1, <1>4, <1>5 DEF t
  <1>6. CASE id # o.id
    <2>1. CASE \E p \in Range(s) : p.id = id
      BY <1>1, <1>4, <1>6, <2>1 DEF t
    <2>2. CASE \A p \in Range(s) : p.id # id
      BY <1>1, <1>4, <1>6, <2>2 DEF t
    <2> QED BY <2>1, <2>2
  <1> QED BY <1>5, <1>6

\* What a tape has of an order: nothing when no trade names it, and one more trade adds its
\* quantity to the two orders it names.
LEMMA TradedQtyLaws ==
  ASSUME NEW s \in Seq(Trades), NEW id
  PROVE  /\ TradedQty(s, id) \in Int
         /\ (\A n \in 1..Len(s) : id \notin {s[n].buyOrder, s[n].sellOrder}) => TradedQty(s, id) = 0
         /\ \A t \in Trades :
              TradedQty(Append(s, t), id)
                = TradedQty(s, id) + (IF id \in {t.buyOrder, t.sellOrder} THEN t.qty ELSE 0)
  <1> DEFINE f == [n \in DOMAIN s |-> s[n].qty]
             T == {n \in DOMAIN s : id \in {s[n].buyOrder, s[n].sellOrder}}
  <1>1. Len(s) \in Nat /\ DOMAIN s = 1..Len(s) /\ \A n \in 1..Len(s) : s[n] \in Trades
    BY LenProperties, ElementOfSeq
  <1>2. \A n \in DOMAIN s : f[n] = s[n].qty /\ s[n].qty \in Int
    BY <1>1 DEF Trades
  <1>3. TradedQty(s, id) = SumFunctionOnSet(f, T)
    BY DEF TradedQty
  <1>4. IsFiniteSet(T) /\ T \subseteq DOMAIN s
    <2>1. IsFiniteSet(DOMAIN s)
      <3>1. IsFiniteSet(1..Len(s))
        BY <1>1, FS_Interval
      <3> QED BY <1>1, <3>1
    <2>2. T \subseteq DOMAIN s
      OBVIOUS
    <2> HIDE DEF T
    <2> QED BY <2>1, <2>2, FS_Subset
  <1>5. SumFunctionOnSet(f, T) \in Int
    <2> HIDE DEF f, T
    <2> QED BY <1>2, <1>4, SumType
  <1>6. ASSUME \A n \in 1..Len(s) : id \notin {s[n].buyOrder, s[n].sellOrder}
        PROVE  TradedQty(s, id) = 0
    <2>1. T = {}
      BY <1>1, <1>6
    <2> QED BY <1>3, <2>1, SumEmpty
  <1>7. ASSUME NEW t \in Trades
        PROVE  TradedQty(Append(s, t), id)
                 = TradedQty(s, id) + (IF id \in {t.buyOrder, t.sellOrder} THEN t.qty ELSE 0)
    <2> DEFINE u == Append(s, t)
               m == Len(s) + 1
               g == [n \in DOMAIN u |-> u[n].qty]
               U == {n \in DOMAIN u : id \in {u[n].buyOrder, u[n].sellOrder}}
    <2>1. /\ DOMAIN u = 1..m /\ u[m] = t
          /\ \A n \in 1..Len(s) : u[n] = s[n]
      BY <1>1, AppendProperties, LenProperties
    <2>2. TradedQty(u, id) = SumFunctionOnSet(g, U)
      BY DEF TradedQty
    <2>3. g[m] = t.qty /\ t.qty \in Int /\ m \notin T /\ m \in 1..m
      BY <1>1, <2>1 DEF Trades
    <2>4. \A n \in T : g[n] = f[n]
      BY <1>1, <2>1
    <2>5. U = IF id \in {t.buyOrder, t.sellOrder} THEN T \union {m} ELSE T
      BY <1>1, <2>1
    <2> HIDE DEF u, m, g, U, f, T
    <2>6. SumFunctionOnSet(f, T) = SumFunctionOnSet(g, T)
      BY <1>2, <1>4, <2>4, SumSame
    <2>7. SumFunctionOnSet(g, T \union {m}) = SumFunctionOnSet(g, T) + t.qty
      BY <1>2, <1>4, <2>3, <2>4, SumAdd
    <2> QED BY <1>3, <1>5, <2>2, <2>5, <2>6, <2>7 DEF u
  <1> QED BY <1>3, <1>5, <1>6, <1>7

\* The open orders of a book after an insertion and after a fill.
LEMMA OpenOrdersPlace ==
  ASSUME TypeInv, NEW h \in Handlers, PlaceInBook(h), NEW r \in Resources
  PROVE  OpenOrders(r)' = OpenOrders(r) \union (IF r = order[h].resource THEN {Stamped(h)} ELSE {})
  <1> DEFINE o == Stamped(h)
             x == order[h].resource
  <1>1. /\ x \in Resources /\ o \in Orders /\ o.side \in {"BID", "ASK"}
        /\ \/ /\ o.side = "BID" /\ asks' = asks
              /\ \E i \in Places("BID", bids[x], o) :
                   bids' = [bids EXCEPT ![x] = InsertAt(@, i, o)]
           \/ /\ o.side = "ASK" /\ bids' = bids
              /\ \E i \in Places("ASK", asks[x], o) :
                   asks' = [asks EXCEPT ![x] = InsertAt(@, i, o)]
    BY PlaceInBookStep
  <1>2. /\ bids \in [Resources -> Seq(Orders)] /\ asks \in [Resources -> Seq(Orders)]
        /\ bids[x] \in Seq(Orders) /\ asks[x] \in Seq(Orders)
    BY <1>1 DEF TypeInv, TypeOK
  <1> HIDE DEF o, x
  <1>3. CASE r # x
    BY <1>1, <1>2, <1>3 DEF OpenOrders, x
  <1>4. CASE r = x /\ o.side = "BID"
    <2>1. PICK i \in Places("BID", bids[x], o) : bids'[x] = InsertAt(bids[x], i, o)
      BY <1>1, <1>2, <1>4
    <2>2. Range(bids'[x]) = Range(bids[x]) \union {o}
      BY <1>1, <1>2, <2>1, InsertAtRange DEF Places
    <2> QED BY <1>1, <1>4, <2>2 DEF OpenOrders, o, x
  <1>5. CASE r = x /\ o.side = "ASK"
    <2>1. PICK i \in Places("ASK", asks[x], o) : asks'[x] = InsertAt(asks[x], i, o)
      BY <1>1, <1>2, <1>5
    <2>2. Range(asks'[x]) = Range(asks[x]) \union {o}
      BY <1>1, <1>2, <2>1, InsertAtRange DEF Places
    <2> QED BY <1>1, <1>5, <2>2 DEF OpenOrders, o, x
  <1> QED BY <1>1, <1>3, <1>4, <1>5

LEMMA OpenOrdersFill ==
  ASSUME TypeInv, BooksSorted, NEW h \in Handlers, Fill(h), NEW r \in Resources,
         NEW o \in OpenOrders(r)'
  PROVE  \E p \in OpenOrders(r) : p.id = o.id /\ p.side = o.side
  <1> DEFINE x == order[h].resource
             q == NextTrade(x).qty
  <1>1. /\ x \in Resources /\ q \in Nat \ {0}
        /\ bids[x] \in Seq(Orders) /\ bids[x] # <<>> /\ q <= bids[x][1].qty
        /\ asks[x] \in Seq(Orders) /\ asks[x] # <<>> /\ q <= asks[x][1].qty
        /\ bids' = [bids EXCEPT ![x] = TakeFromHead(@, q)]
        /\ asks' = [asks EXCEPT ![x] = TakeFromHead(@, q)]
        /\ bids \in [Resources -> Seq(Orders)] /\ asks \in [Resources -> Seq(Orders)]
        /\ Sorted("BID", bids[x]) /\ Sorted("ASK", asks[x])
    BY FillStep DEF BooksSorted, IsSide, TypeInv, TypeOK
  <1> HIDE DEF x, q
  <1>2. ASSUME NEW s \in Seq(Orders), s # <<>>, q <= s[1].qty, NEW side, Sorted(side, s),
               NEW y \in Range(TakeFromHead(s, q))
        PROVE  \E p \in Range(s) : p.id = y.id /\ p.side = y.side
    <2>1. Len(s) \in Nat /\ 1 \in 1..Len(s) /\ Range(s) = {s[i] : i \in 1..Len(s)}
      BY <1>2, EmptySeq, LenProperties, RangeEquality
    <2>2. s[1] \in Orders /\ s[1] \in Range(s)
      BY <2>1, ElementOfSeq
    <2>3. y \in (Range(s) \ {s[1]}) \union
                (IF s[1].qty <= q THEN {} ELSE {[s[1] EXCEPT !.qty = @ - q]})
      BY <1>1, <1>2, OrdersOrderSet, TakeFromHeadRange
    <2>4. y \in Range(s) \/ (y.id = s[1].id /\ y.side = s[1].side)
      BY <2>2, <2>3 DEF Orders
    <2> QED BY <2>2, <2>4
  <1>3. CASE r # x
    BY <1>1, <1>3 DEF OpenOrders
  <1>4. CASE r = x
    <2>1. bids'[r] = TakeFromHead(bids[r], q) /\ asks'[r] = TakeFromHead(asks[r], q)
      BY <1>1, <1>4
    <2>2. CASE o \in Range(bids'[r])
      <3>1. \E p \in Range(bids[r]) : p.id = o.id /\ p.side = o.side
        BY <1>1, <1>2, <1>4, <2>1, <2>2
      <3> QED BY <3>1 DEF OpenOrders
    <2>3. CASE o \in Range(asks'[r])
      <3>1. \E p \in Range(asks[r]) : p.id = o.id /\ p.side = o.side
        BY <1>1, <1>2, <1>4, <2>1, <2>3
      <3> QED BY <3>1 DEF OpenOrders
    <2> QED BY <2>2, <2>3 DEF OpenOrders
  <1> QED BY <1>3, <1>4

\* Every open order is an order, on the slice of its side.
LEMMA OpenOrdersTyped ==
  ASSUME TypeInv, BooksSorted, NEW r \in Resources
  PROVE  /\ \A o \in Range(bids[r]) : o \in Orders /\ o.side = "BID"
         /\ \A o \in Range(asks[r]) : o \in Orders /\ o.side = "ASK"
  <1>1. bids[r] \in Seq(Orders) /\ asks[r] \in Seq(Orders)
    BY DEF TypeInv, TypeOK
  <1>2. /\ Range(bids[r]) = {bids[r][i] : i \in 1..Len(bids[r])}
        /\ Range(asks[r]) = {asks[r][i] : i \in 1..Len(asks[r])}
        /\ \A i \in 1..Len(bids[r]) : bids[r][i] \in Orders /\ bids[r][i].side = "BID"
        /\ \A i \in 1..Len(asks[r]) : asks[r][i] \in Orders /\ asks[r][i].side = "ASK"
    BY <1>1, RangeEquality, ElementOfSeq DEF BooksSorted, IsSide
  <1> QED BY <1>2

\* What the trade of a fill names are the numbers of two open orders of its book.
LEMMA HeadsAreOpen ==
  ASSUME TypeInv, NEW h \in Handlers, Fill(h)
  PROVE  LET r == order[h].resource
             t == NextTrade(r)
         IN  /\ bids[r][1] \in Range(bids[r]) /\ t.buyOrder = bids[r][1].id
             /\ asks[r][1] \in Range(asks[r]) /\ t.sellOrder = asks[r][1].id
  <1> DEFINE r == order[h].resource
  <1>1. /\ bids[r] \in Seq(Orders) /\ bids[r] # <<>>
        /\ asks[r] \in Seq(Orders) /\ asks[r] # <<>>
    BY FillStep
  <1> HIDE DEF r
  <1>2. ASSUME NEW s \in Seq(Orders), s # <<>> PROVE s[1] \in Range(s)
    <2>1. Len(s) \in Nat /\ 1 \in 1..Len(s) /\ Range(s) = {s[i] : i \in 1..Len(s)}
      BY <1>2, EmptySeq, LenProperties, RangeEquality
    <2> QED BY <2>1
  <1>3. bids[r][1] \in Range(bids[r]) /\ asks[r][1] \in Range(asks[r])
    BY <1>1, <1>2
  <1> QED BY <1>3 DEF NextTrade, r

\* A fill changes nothing about two open orders but the quantity of the heads.
LEMMA FillKeepsDistinct ==
  ASSUME TypeInv, BooksSorted, OrdersNumbered, NEW h \in Handlers, Fill(h), NEW r \in Resources,
         NEW o \in OpenOrders(r)', NEW p \in OpenOrders(r)', o.id = p.id
  PROVE  o = p
  <1> DEFINE x == order[h].resource
             q == NextTrade(x).qty
             b == bids[x][1]
             a == asks[x][1]
             Rest(s) == IF s.qty <= q THEN {} ELSE {[s EXCEPT !.qty = @ - q]}
  <1>1. /\ x \in Resources /\ q \in Nat \ {0}
        /\ bids[x] \in Seq(Orders) /\ bids[x] # <<>> /\ q <= b.qty
        /\ asks[x] \in Seq(Orders) /\ asks[x] # <<>> /\ q <= a.qty
        /\ bids' = [bids EXCEPT ![x] = TakeFromHead(@, q)]
        /\ asks' = [asks EXCEPT ![x] = TakeFromHead(@, q)]
        /\ bids \in [Resources -> Seq(Orders)] /\ asks \in [Resources -> Seq(Orders)]
        /\ Sorted("BID", bids[x]) /\ Sorted("ASK", asks[x])
    BY FillStep DEF BooksSorted, IsSide, TypeInv, TypeOK
  <1>2. b \in Range(bids[x]) /\ a \in Range(asks[x])
    BY HeadsAreOpen
  <1> HIDE DEF x, q, a, b
  <1>3. CASE r # x
    BY <1>1, <1>3 DEF OpenOrders, OrdersNumbered
  <1>4. CASE r = x
    <2>1. /\ Range(bids'[r]) = (Range(bids[r]) \ {b}) \union Rest(b)
          /\ Range(asks'[r]) = (Range(asks[r]) \ {a}) \union Rest(a)
      <3>1. bids'[r] = TakeFromHead(bids[r], q) /\ asks'[r] = TakeFromHead(asks[r], q)
        BY <1>1, <1>4
      <3>2. /\ Range(TakeFromHead(bids[r], q)) = (Range(bids[r]) \ {b}) \union Rest(b)
            /\ Range(TakeFromHead(asks[r], q)) = (Range(asks[r]) \ {a}) \union Rest(a)
        BY <1>1, <1>4, OrdersOrderSet, TakeFromHeadRange DEF a, b
      <3> QED BY <3>1, <3>2
    <2>2. /\ b \in Orders /\ b.side = "BID" /\ a \in Orders /\ a.side = "ASK"
          /\ \A s \in Range(bids[r]) : s.side = "BID"
          /\ \A s \in Range(asks[r]) : s.side = "ASK"
      BY <1>1, <1>2, <1>4, OpenOrdersTyped
    <2>3. /\ \A s \in Rest(b) : s.id = b.id /\ s.side = "BID" /\ Rest(b) = {s}
          /\ \A s \in Rest(a) : s.id = a.id /\ s.side = "ASK" /\ Rest(a) = {s}
      BY <2>2 DEF Orders
    <2> HIDE DEF Rest
    <2>4. \A s, y \in Range(bids[r]) \union Range(asks[r]) : s.id = y.id => s = y
      BY DEF OrdersNumbered, OpenOrders
    <2>5. a # b /\ a.id # b.id
      BY <1>2, <1>4, <2>2, <2>4
    <2>6. /\ o \in Range(bids'[r]) \union Range(asks'[r])
          /\ p \in Range(bids'[r]) \union Range(asks'[r])
      BY DEF OpenOrders
    <2>7. ASSUME NEW s \in Range(bids'[r]) \union Range(asks'[r])
          PROVE  \/ s \in Range(bids[r]) \union Range(asks[r]) /\ s.id # b.id /\ s.id # a.id
                 \/ s \in Rest(b) /\ s.id = b.id
                 \/ s \in Rest(a) /\ s.id = a.id
      <3>1. CASE s \in Rest(b)
        BY <2>3, <3>1
      <3>2. CASE s \in Rest(a)
        BY <2>3, <3>2
      <3>3. CASE s \notin Rest(b) /\ s \notin Rest(a)
        <4>1. s \in Range(bids[r]) \union Range(asks[r]) /\ s # b /\ s # a
          BY <1>2, <1>4, <2>1, <2>2, <3>3
        <4> QED BY <1>2, <1>4, <2>4, <4>1
      <3> QED BY <3>1, <3>2, <3>3
    <2> QED BY <2>3, <2>4, <2>5, <2>6, <2>7
  <1> QED BY <1>3, <1>4

\* The orders and trades that a tape gains name no number that has not been given out.
LEMMA TapeGrows ==
  ASSUME TypeInv, NEW h \in Handlers, Fill(h), NEW x \in Resources,
         NEW n \in 1..Len(tape'[x])
  PROVE  \/ /\ n \in 1..Len(tape[x])
            /\ tape'[x][n] = tape[x][n]
         \/ /\ x = order[h].resource
            /\ tape'[x][n] = NextTrade(x)
  <1> DEFINE r == order[h].resource
             t == NextTrade(r)
  <1>1. /\ r \in Resources /\ t \in Trades /\ tape' = [tape EXCEPT ![r] = Append(@, t)]
        /\ tape \in [Resources -> Seq(Trades)]
    BY FillStep DEF TypeInv, TypeOK
  <1> HIDE DEF r, t
  <1>2. CASE x # r
    BY <1>1, <1>2
  <1>3. CASE x = r
    <2>1. tape'[x] = Append(tape[x], t) /\ tape[x] \in Seq(Trades) /\ Len(tape[x]) \in Nat
      BY <1>1, <1>3, LenProperties
    <2>2. /\ Len(tape'[x]) = Len(tape[x]) + 1
          /\ tape'[x][Len(tape[x]) + 1] = t
          /\ \A k \in 1..Len(tape[x]) : tape'[x][k] = tape[x][k]
      BY <1>1, <2>1, AppendProperties
    <2>3. n \in 1..Len(tape[x]) \/ n = Len(tape[x]) + 1
      BY <2>1, <2>2
    <2> QED BY <1>3, <2>2, <2>3 DEF r, t
  <1> QED BY <1>2, <1>3

LEMMA NumberedNext ==
  ASSUME TypeInv, BooksSorted, OrdersNumbered, Placed, [Next]_vars, BooksSorted', TypeInv'
  PROVE  OrdersNumbered' /\ Placed'
  <1>1. /\ orderSeq \in Nat /\ pc \in [Handlers -> Stages]
        /\ order \in [Handlers -> Requests \union {NoRequest}]
        /\ \A h \in Handlers : pc[h] # "idle" => order[h] \in Requests /\ order[h].id \in Nat
        /\ \A r \in Resources : \A n \in 1..Len(tape[r]) :
             tape[r][n].buyOrder \in Nat /\ tape[r][n].sellOrder \in Nat
    <2>1. \A h \in Handlers : pc[h] # "idle" => order[h] \in Requests /\ order[h].id \in Nat
      BY DEF TypeInv, RequestInHand, Requests
    <2>2. ASSUME NEW r \in Resources, NEW n \in 1..Len(tape[r])
          PROVE  tape[r][n].buyOrder \in Nat /\ tape[r][n].sellOrder \in Nat
      <3>1. tape[r][n] \in Trades
        BY ElementOfSeq DEF TypeInv, TypeOK
      <3> QED BY <3>1 DEF Trades
    <2> QED BY <2>1, <2>2 DEF TypeInv, TypeOK
  <1>2. \A r \in Resources : \A o \in OpenOrders(r) : o.id \in Nat
    BY OpenOrdersTyped DEF OpenOrders, Orders
  <1>3. ASSUME NEW h \in Handlers, NEW req \in Requests, Receive(h, req)
        PROVE  OrdersNumbered' /\ Placed'
    <2>1. /\ pc[h] = "idle" /\ req.id = orderSeq + 1 /\ orderSeq' = orderSeq + 1
          /\ order' = [order EXCEPT ![h] = req] /\ pc' = [pc EXCEPT ![h] = "place"]
          /\ UNCHANGED <<bids, asks, tape>>
      BY <1>3 DEF Receive, bookVars
    <2>2. \A r \in Resources : OpenOrders(r)' = OpenOrders(r)
      BY <2>1 DEF OpenOrders
    <2>3. \A g \in Handlers :
            pc'[g] # "idle" =>
              \/ g = h /\ order'[g].id = orderSeq + 1 /\ pc'[g] = "place"
              \/ g # h /\ order'[g] = order[g] /\ pc'[g] = pc[g]
      BY <1>1, <2>1
    <2>4. OrdersNumbered'
      BY <1>1, <1>2, <2>1, <2>2, <2>3 DEF OrdersNumbered
    <2>5. Placed'
      BY <1>1, <1>2, <2>1, <2>2, <2>3 DEF OrdersNumbered, Placed
    <2> QED BY <2>4, <2>5
  <1>4. ASSUME NEW h \in Handlers, PlaceInBook(h)
        PROVE  OrdersNumbered' /\ Placed'
    <2> DEFINE o == Stamped(h)
               x == order[h].resource
    <2>1. /\ x \in Resources /\ o \in Orders /\ pc[h] = "place"
          /\ pc' = [pc EXCEPT ![h] = "match"] /\ UNCHANGED <<orderSeq, order, tape>>
      BY <1>4, PlaceInBookStep DEF serverVars
    <2>2. \A r \in Resources :
            OpenOrders(r)' = OpenOrders(r) \union (IF r = x THEN {o} ELSE {})
      BY <1>4, OpenOrdersPlace
    <2>3. o.id = order[h].id /\ o.side = order[h].side
      BY DEF Stamped
    <2> HIDE DEF o, x
    <2>4. \A g \in Handlers : pc[g] = "idle" <=> pc'[g] = "idle"
      BY <1>1, <2>1
    <2>5. \A g \in Handlers : pc'[g] = "place" => pc[g] = "place" /\ g # h
      BY <1>1, <2>1
    <2>6. OrdersNumbered'
      BY <2>1, <2>2, <2>3, <2>4 DEF OrdersNumbered, Placed
    <2>7. Placed'
      BY <2>1, <2>2, <2>3, <2>4, <2>5 DEF OrdersNumbered, Placed
    <2> QED BY <2>6, <2>7
  <1>5. ASSUME NEW h \in Handlers, Fill(h)
        PROVE  OrdersNumbered' /\ Placed'
    <2> DEFINE x == order[h].resource
               t == NextTrade(x)
               b == bids[x][1]
               a == asks[x][1]
    <2>1. /\ x \in Resources /\ pc[h] = "matching"
          /\ UNCHANGED <<orderSeq, order, pc>>
      BY <1>5, FillStep DEF serverVars
    <2>2. /\ b \in OpenOrders(x) /\ a \in OpenOrders(x)
          /\ t.buyOrder = b.id /\ t.sellOrder = a.id
      BY <1>5, HeadsAreOpen DEF OpenOrders
    <2>3. \A r \in Resources : \A o \in OpenOrders(r)' :
            \E p \in OpenOrders(r) : p.id = o.id /\ p.side = o.side
      BY <1>5, OpenOrdersFill
    <2>4. \A r \in Resources : \A n \in 1..Len(tape'[r]) :
            \/ n \in 1..Len(tape[r]) /\ tape'[r][n] = tape[r][n]
            \/ r = x /\ tape'[r][n] = t
      BY <1>5, TapeGrows
    <2>5. ASSUME NEW r \in Resources, NEW o \in OpenOrders(r)', NEW p \in OpenOrders(r)', o.id = p.id
          PROVE  o = p
      BY <1>5, <2>5, FillKeepsDistinct
    <2> HIDE DEF x, t, a, b
    <2>6. OrdersNumbered'
      <3>1. b.id <= orderSeq /\ a.id <= orderSeq
        BY <2>1, <2>2 DEF OrdersNumbered
      <3>2. \A r \in Resources : \A n \in 1..Len(tape'[r]) :
              tape'[r][n].buyOrder <= orderSeq /\ tape'[r][n].sellOrder <= orderSeq
        BY <2>2, <2>4, <3>1 DEF OrdersNumbered
      <3>3. \A r \in Resources : \A o \in OpenOrders(r)' : o.id <= orderSeq
        BY <2>3 DEF OrdersNumbered
      <3> QED BY <2>1, <2>5, <3>2, <3>3 DEF OrdersNumbered
    <2>7. Placed'
      BY <2>1, <2>2, <2>3, <2>4 DEF Placed
    <2> QED BY <2>6, <2>7
  <1>6. CASE Restart
    <2>1. \A r \in Resources : OpenOrders(r)' = {}
      BY <1>6 DEF Restart, OpenOrders, Range
    <2> QED BY <1>6, <2>1 DEF Restart, OrdersNumbered, Placed
  <1>7. ASSUME UNCHANGED <<bids, asks, tape, orderSeq>>,
               \A g \in Handlers :
                 pc'[g] # "idle" => pc[g] # "idle" /\ order'[g] = order[g]
                                    /\ (pc'[g] = "place" <=> pc[g] = "place")
        PROVE  OrdersNumbered' /\ Placed'
    <2>1. \A r \in Resources : OpenOrders(r)' = OpenOrders(r)
      BY <1>7 DEF OpenOrders
    <2> QED BY <1>7, <2>1 DEF OrdersNumbered, Placed
  <1>8. ASSUME NEW h \in Handlers, BeginMatch(h) \/ EndMatch(h) \/ Record(h) \/ Emit(h)
        PROVE  OrdersNumbered' /\ Placed'
    <2>1. /\ UNCHANGED <<bids, asks, tape, orderSeq>>
          /\ \A g \in Handlers :
               pc'[g] # "idle" => pc[g] # "idle" /\ order'[g] = order[g]
                                  /\ (pc'[g] = "place" <=> pc[g] = "place")
      BY <1>1, <1>8 DEF BeginMatch, EndMatch, Record, Emit, bookVars, serverVars
    <2> QED BY <1>7, <2>1
  <1>9. CASE UNCHANGED vars
    BY <1>7, <1>9 DEF vars, bookVars, serverVars, handlerVars
  <1> QED BY <1>3, <1>4, <1>5, <1>6, <1>8, <1>9 DEF Next, Step


\* What the book of a handler has traded and still keeps of the handler's order.
Accounted(h) ==
  order[h].qty = Traded(order[h].resource, order[h].id)
                   + Resting(order[h].resource, order[h].side, order[h].id)

\* A step that moves no order, no trade and no request moves no quantity.
LEMMA AccountedUnchanged ==
  ASSUME NEW h, UNCHANGED <<bids, asks, tape>>, order'[h] = order[h], Accounted(h)
  PROVE  Accounted(h)'
  BY DEF Accounted, Traded, Resting

\* An insertion puts all of an order that no trade names on the slice of its side.
LEMMA AccountedPlace ==
  ASSUME TypeInv, BooksSorted, OrdersNumbered, Placed, BooksSorted', NEW g \in Handlers, PlaceInBook(g),
         NEW h \in Handlers, pc'[h] \notin {"idle", "place"},
         pc[h] \notin {"idle", "place"} => Accounted(h)
  PROVE  Accounted(h)'
  <1> DEFINE x == order[g].resource
             o == Stamped(g)
             r == order[h].resource
             id == order[h].id
             side == order[h].side
             Slice(b, a) == IF side = "BID" THEN b ELSE a
  <1>1. /\ x \in Resources /\ o \in Orders /\ pc[g] = "place" /\ o.side \in {"BID", "ASK"}
        /\ \/ /\ o.side = "BID" /\ asks' = asks
              /\ \E i \in Places("BID", bids[x], o) :
                   bids' = [bids EXCEPT ![x] = InsertAt(@, i, o)]
           \/ /\ o.side = "ASK" /\ bids' = bids
              /\ \E i \in Places("ASK", asks[x], o) :
                   asks' = [asks EXCEPT ![x] = InsertAt(@, i, o)]
        /\ pc' = [pc EXCEPT ![g] = "match"] /\ order' = order /\ tape' = tape
    BY PlaceInBookStep
  <1>2. /\ bids \in [Resources -> Seq(Orders)] /\ asks \in [Resources -> Seq(Orders)]
        /\ tape \in [Resources -> Seq(Trades)] /\ pc \in [Handlers -> Stages]
    BY DEF TypeInv, TypeOK
  <1>3. o.id = order[g].id /\ o.side = order[g].side /\ o.qty = order[g].qty
    BY DEF Stamped
  <1>4. pc[h] # "idle" /\ (h # g => pc[h] # "place") /\ r \in Resources /\ order[h].qty \in Nat
        /\ side \in {"BID", "ASK"}
    <2>1. pc[h] # "idle" /\ (h # g => pc[h] # "place")
      BY <1>1, <1>2
    <2>2. order[h] \in Requests
      BY <2>1 DEF TypeInv, RequestInHand
    <2>3. Quantities \subseteq Nat
      BY MarketAssumption
    <2> QED BY <2>1, <2>2, <2>3 DEF Requests, Sides
  <1>5. h # g => id # o.id
    BY <1>1, <1>3, <1>4 DEF OrdersNumbered
  <1>6. \A p \in OpenOrders(x) : p.id # o.id
    BY <1>1, <1>3 DEF Placed
  <1>7. \A n \in 1..Len(tape[x]) : o.id \notin {tape[x][n].buyOrder, tape[x][n].sellOrder}
    BY <1>1, <1>3 DEF Placed
  <1> HIDE DEF o
  <1>8. ASSUME NEW s, NEW u, s \in Seq(Orders), NEW sd, Sorted(sd, s), Sorted(sd, u),
               \A p \in Range(s) : p \in OpenOrders(x),
               \E i \in Places(sd, s, o) : u = InsertAt(s, i, o)
        PROVE  \A k : OpenQty(u, k) = IF k = o.id THEN o.qty ELSE OpenQty(s, k)
    <2>1. PICK i \in 1..(Len(s) + 1) : u = InsertAt(s, i, o)
      BY <1>8 DEF Places
    <2>2. /\ \A p, y \in Range(s) : p.id = y.id => p = y
          /\ \A p \in Range(s) : p.id # o.id
      BY <1>1, <1>6, <1>8 DEF OrdersNumbered
    <2> QED BY <1>1, <1>8, <2>1, <2>2, OpenQtyInsert
  <1>9. /\ Sorted("BID", bids[x]) /\ Sorted("BID", bids'[x])
        /\ Sorted("ASK", asks[x]) /\ Sorted("ASK", asks'[x])
    BY <1>1 DEF BooksSorted, IsSide
  <1>10. /\ \A p \in Range(bids[x]) : p \in OpenOrders(x)
         /\ \A p \in Range(asks[x]) : p \in OpenOrders(x)
    BY DEF OpenOrders
  <1> HIDE DEF x
  <1>11. IF r = x /\ side = o.side
         THEN \A k : OpenQty(Slice(bids'[r], asks'[r]), k)
                       = IF k = o.id THEN o.qty ELSE OpenQty(Slice(bids[r], asks[r]), k)
         ELSE Slice(bids'[r], asks'[r]) = Slice(bids[r], asks[r])
    <2>1. CASE r # x
      <3>1. bids'[r] = bids[r] /\ asks'[r] = asks[r]
        <4> HIDE DEF r
        <4> QED BY <1>1, <1>2, <1>4, <2>1
      <3> QED BY <2>1, <3>1
    <2>2. CASE r = x /\ o.side = "BID"
      <3>1. \E i \in Places("BID", bids[x], o) : bids'[x] = InsertAt(bids[x], i, o)
        BY <1>1, <1>2, <2>2
      <3>2. \A k : OpenQty(bids'[x], k) = IF k = o.id THEN o.qty ELSE OpenQty(bids[x], k)
        BY <1>1, <1>2, <1>8, <1>9, <1>10, <3>1
      <3> HIDE DEF r, side
      <3> QED BY <1>1, <1>4, <2>2, <3>2
    <2>3. CASE r = x /\ o.side = "ASK"
      <3>1. \E i \in Places("ASK", asks[x], o) : asks'[x] = InsertAt(asks[x], i, o)
        BY <1>1, <1>2, <2>3
      <3>2. \A k : OpenQty(asks'[x], k) = IF k = o.id THEN o.qty ELSE OpenQty(asks[x], k)
        BY <1>1, <1>2, <1>8, <1>9, <1>10, <3>1
      <3> HIDE DEF r, side
      <3> QED BY <1>1, <1>4, <2>3, <3>2
    <2> QED BY <1>1, <2>1, <2>2, <2>3
  <1>12. /\ Traded(r, id)' = TradedQty(tape[r], id)
         /\ Resting(r, side, id)' = OpenQty(Slice(bids'[r], asks'[r]), id)
         /\ Traded(r, id) = TradedQty(tape[r], id)
         /\ Resting(r, side, id) = OpenQty(Slice(bids[r], asks[r]), id)
         /\ order' = order
    BY <1>1 DEF Traded, Resting
  <1>13. CASE h # g
    <2>1. Accounted(h)
      BY <1>4, <1>13
    <2>2. OpenQty(Slice(bids'[r], asks'[r]), id) = OpenQty(Slice(bids[r], asks[r]), id)
      BY <1>5, <1>11, <1>13
    <2> QED BY <1>12, <2>1, <2>2 DEF Accounted
  <1>14. CASE h = g
    <2>1. r = x /\ id = o.id /\ side = o.side
      BY <1>3, <1>14 DEF x
    <2>2. TradedQty(tape[r], id) = 0
      <3>1. tape[x] \in Seq(Trades)
        BY <1>1, <1>2
      <3>2. TradedQty(tape[x], o.id) = 0
        BY ONLY <1>7, <3>1, TradedQtyLaws
      <3> HIDE DEF r, id
      <3> QED BY ONLY <2>1, <3>2
    <2>3. OpenQty(Slice(bids'[r], asks'[r]), id) = o.qty
      BY <1>11, <2>1
    <2>4. o.qty = order[h].qty
      BY <1>3, <1>14
    <2> QED BY <1>4, <1>12, <2>2, <2>3, <2>4 DEF Accounted
  <1> QED BY <1>13, <1>14

\* A fill moves the same quantity from what rests of two orders to what is traded of them.
LEMMA AccountedFill ==
  ASSUME TypeInv, BooksSorted, OrdersNumbered, Placed, NEW g \in Handlers, Fill(g),
         NEW h \in Handlers, pc[h] \notin {"idle", "place"}, Accounted(h)
  PROVE  Accounted(h)'
  <1> DEFINE x == order[g].resource
             t == NextTrade(x)
             b == bids[x][1]
             a == asks[x][1]
             r == order[h].resource
             id == order[h].id
             side == order[h].side
             Slice(bs, as) == IF side = "BID" THEN bs ELSE as
  <1>1. /\ x \in Resources /\ t \in Trades /\ t.qty \in Nat \ {0}
        /\ bids[x] \in Seq(Orders) /\ bids[x] # <<>> /\ t.qty <= b.qty
        /\ asks[x] \in Seq(Orders) /\ asks[x] # <<>> /\ t.qty <= a.qty
        /\ bids' = [bids EXCEPT ![x] = TakeFromHead(@, t.qty)]
        /\ asks' = [asks EXCEPT ![x] = TakeFromHead(@, t.qty)]
        /\ tape' = [tape EXCEPT ![x] = Append(@, t)]
        /\ order' = order
        /\ Sorted("BID", bids[x]) /\ Sorted("ASK", asks[x])
        /\ bids \in [Resources -> Seq(Orders)] /\ asks \in [Resources -> Seq(Orders)]
        /\ tape \in [Resources -> Seq(Trades)]
    BY FillStep DEF BooksSorted, IsSide, TypeInv, TypeOK
  <1>2. /\ b \in Range(bids[x]) /\ t.buyOrder = b.id /\ b.side = "BID"
        /\ a \in Range(asks[x]) /\ t.sellOrder = a.id /\ a.side = "ASK"
    <2>1. /\ b \in Range(bids[x]) /\ t.buyOrder = b.id
          /\ a \in Range(asks[x]) /\ t.sellOrder = a.id
      BY HeadsAreOpen
    <2> QED BY <1>1, <2>1, OpenOrdersTyped
  <1>3. order[h] \in Requests /\ r \in Resources /\ side \in {"BID", "ASK"}
    BY DEF TypeInv, RequestInHand, Requests, Sides
  <1>4. (id = b.id => side = "BID") /\ (id = a.id => side = "ASK")
    BY <1>1, <1>2 DEF Placed, OpenOrders
  <1> HIDE DEF x, t, a, b
  <1>5. /\ \A p, y \in Range(bids[x]) : p.id = y.id => p = y
        /\ \A p, y \in Range(asks[x]) : p.id = y.id => p = y
    BY <1>1 DEF OrdersNumbered, OpenOrders
  <1>6. /\ \A k : OpenQty(TakeFromHead(bids[x], t.qty), k) = OpenQty(bids[x], k) - (IF k = b.id THEN t.qty ELSE 0)
        /\ \A k : OpenQty(TakeFromHead(asks[x], t.qty), k) = OpenQty(asks[x], k) - (IF k = a.id THEN t.qty ELSE 0)
        /\ \A k : OpenQty(bids[x], k) \in Int /\ OpenQty(asks[x], k) \in Int
    BY <1>1, <1>5, OpenQtyFill, OpenQtyOf DEF a, b
  <1>7. \A k : /\ TradedQty(tape[x], k) \in Int
               /\ TradedQty(Append(tape[x], t), k)
                    = TradedQty(tape[x], k) + (IF k \in {b.id, a.id} THEN t.qty ELSE 0)
    BY <1>1, <1>2, TradedQtyLaws
  <1>8. /\ Traded(r, id)' = TradedQty(tape'[r], id)
        /\ Resting(r, side, id)' = OpenQty(Slice(bids'[r], asks'[r]), id)
        /\ Traded(r, id) = TradedQty(tape[r], id)
        /\ Resting(r, side, id) = OpenQty(Slice(bids[r], asks[r]), id)
        /\ order' = order
    BY <1>1 DEF Traded, Resting
  <1>9. CASE r # x
    <2>1. bids'[r] = bids[r] /\ asks'[r] = asks[r] /\ tape'[r] = tape[r]
      <3> HIDE DEF r
      <3> QED BY <1>1, <1>3, <1>9
    <2> QED BY <1>8, <2>1 DEF Accounted
  <1>10. CASE r = x
    <2> DEFINE moved == IF id \in {b.id, a.id} THEN t.qty ELSE 0
    <2>1. /\ bids'[x] = TakeFromHead(bids[x], t.qty) /\ asks'[x] = TakeFromHead(asks[x], t.qty)
          /\ tape'[x] = Append(tape[x], t)
      BY <1>1
    <2>2. TradedQty(tape'[r], id) = TradedQty(tape[r], id) + moved
      <3> HIDE DEF id
      <3> QED BY <1>7, <1>10, <2>1
    <2>3. OpenQty(Slice(bids'[r], asks'[r]), id) = OpenQty(Slice(bids[r], asks[r]), id) - moved
      <3>1. CASE side = "BID"
        <4>1. moved = IF id = b.id THEN t.qty ELSE 0
          BY <1>4, <3>1
        <4> HIDE DEF id, moved, side
        <4> QED BY <1>6, <1>10, <2>1, <3>1, <4>1
      <3>2. CASE side = "ASK"
        <4>1. moved = IF id = a.id THEN t.qty ELSE 0
          BY <1>4, <3>2
        <4> HIDE DEF id, moved, side
        <4> QED BY <1>6, <1>10, <2>1, <3>2, <4>1
      <3> QED BY <1>3, <3>1, <3>2
    <2>4. moved \in Int /\ TradedQty(tape[r], id) \in Int /\ OpenQty(Slice(bids[r], asks[r]), id) \in Int
      BY <1>1, <1>6, <1>7, <1>10
    <2> HIDE DEF moved, r, id, side, Slice
    <2>5. order[h].qty = TradedQty(tape[r], id) + OpenQty(Slice(bids[r], asks[r]), id)
      BY <1>8 DEF Accounted, r, id, side
    <2>6. TradedQty(tape'[r], id) + OpenQty(Slice(bids'[r], asks'[r]), id)
            = TradedQty(tape[r], id) + OpenQty(Slice(bids[r], asks[r]), id)
      BY <2>2, <2>3, <2>4
    <2> QED BY <1>8, <2>5, <2>6 DEF Accounted, r, id, side
  <1> QED BY <1>9, <1>10

LEMMA NothingLostNext ==
  ASSUME TypeInv, BooksSorted, OrdersNumbered, Placed, BooksSorted', NothingLostOrMinted, [Next]_vars
  PROVE  NothingLostOrMinted'
  <1>1. \A h \in Handlers : pc[h] \notin {"idle", "place"} => Accounted(h)
    BY DEF NothingLostOrMinted, Accounted
  <1> SUFFICES ASSUME NEW h \in Handlers, pc'[h] \notin {"idle", "place"}
               PROVE  Accounted(h)'
    BY DEF NothingLostOrMinted, Accounted
  <1>2. pc \in [Handlers -> Stages] /\ order \in [Handlers -> Requests \union {NoRequest}]
    BY DEF TypeInv, TypeOK
  <1>3. CASE Restart
    BY <1>3 DEF Restart
  <1>4. ASSUME NEW g \in Handlers, PlaceInBook(g) PROVE Accounted(h)'
    BY <1>1, <1>4, AccountedPlace
  <1>5. ASSUME NEW g \in Handlers, Fill(g) PROVE Accounted(h)'
    <2>1. pc'[h] = pc[h]
      BY <1>5, FillStep
    <2> QED BY <1>1, <1>5, <2>1, AccountedFill
  <1>6. ASSUME NEW g \in Handlers, Step(g), ~PlaceInBook(g), ~Fill(g) PROVE Accounted(h)'
    <2>1. pc[h] \notin {"idle", "place"} /\ order'[h] = order[h]
      BY <1>2, <1>6 DEF Step, Receive, BeginMatch, EndMatch, Record, Emit, bookVars, serverVars
    <2> QED BY <1>1, <1>6, <2>1, BooksAlone, AccountedUnchanged
  <1>7. CASE UNCHANGED vars
    BY <1>1, <1>7, AccountedUnchanged DEF vars, bookVars, handlerVars
  <1> QED BY <1>3, <1>4, <1>5, <1>6, <1>7 DEF Next

\* Whatever order the handlers insert and match in, and whoever's Match trades an order: what
\* was asked for is what has been traded of it plus what still rests in the book.
THEOREM NothingIsLostOrMinted == Spec => []NothingLostOrMinted
  <1>1. Init => BooksSorted /\ OrdersNumbered /\ Placed /\ NothingLostOrMinted
    <2> SUFFICES ASSUME Init PROVE BooksSorted /\ OrdersNumbered /\ Placed /\ NothingLostOrMinted
      OBVIOUS
    <2>1. \A r \in Resources : OpenOrders(r) = {}
      BY DEF Init, OpenOrders, Range
    <2> QED BY <2>1 DEF Init, BooksSorted, IsSide, Sorted, OrdersNumbered, Placed, NothingLostOrMinted
  <1>2. TypeInv /\ BooksSorted /\ [Next]_vars => TypeInv' /\ BooksSorted'
    BY TypeNext, BooksSortedNext
  <1>3. TypeInv /\ TypeInv' /\ BooksSorted /\ BooksSorted' /\ OrdersNumbered /\ Placed /\ [Next]_vars
          => OrdersNumbered' /\ Placed'
    BY NumberedNext
  <1>4. TypeInv /\ BooksSorted /\ BooksSorted' /\ OrdersNumbered /\ Placed /\ NothingLostOrMinted /\ [Next]_vars
          => NothingLostOrMinted'
    BY NothingLostNext
  <1> QED BY <1>1, <1>2, <1>3, <1>4, TypeInit, PTL DEF Spec
-----------------------------------------------------------------------------
(***************************************************************************)
(* The service implements the exchange: seen through the sets of open      *)
(* orders and the tapes, PlaceInBook is an accept, Fill is a trade of the  *)
(* best bid with the best ask, a restart loses everything, and every other *)
(* step is a stutter.                                                      *)
(***************************************************************************)

\* What the abstract variables stand for.
Open == [r \in Resources |-> OpenOrders(r)]

\* An insertion is an accept.
LEMMA PlaceIsAccept ==
  ASSUME TypeInv, BooksSorted, NEW h \in Handlers, PlaceInBook(h)
  PROVE  EX!Next
  <1> DEFINE r == order[h].resource
             o == Stamped(h)
  <1>1. /\ r \in Resources /\ o \in Orders
        /\ o.side \in {"BID", "ASK"} /\ o.ts = clock[r] + 1 /\ clock[r] \in Nat
        /\ \/ /\ o.side = "BID" /\ asks' = asks
              /\ \E i \in Places("BID", bids[r], o) :
                   bids' = [bids EXCEPT ![r] = InsertAt(@, i, o)]
           \/ /\ o.side = "ASK" /\ bids' = bids
              /\ \E i \in Places("ASK", asks[r], o) :
                   asks' = [asks EXCEPT ![r] = InsertAt(@, i, o)]
        /\ tape' = tape
    BY PlaceInBookStep
  <1>2. o \in EX!Orders
    <2>1. o.qty \in Quantities
      BY DEF Stamped, PlaceInBook, TypeInv, RequestInHand, Requests
    <2> HIDE DEF o
    <2> QED BY <1>1, <2>1 DEF EX!Orders, Orders, Sides
  <1> HIDE DEF r, o
  <1>3. /\ bids \in [Resources -> Seq(Orders)] /\ asks \in [Resources -> Seq(Orders)]
        /\ bids[r] \in Seq(Orders) /\ asks[r] \in Seq(Orders)
        /\ IsSide("BID", bids[r], clock[r]) /\ IsSide("ASK", asks[r], clock[r])
    BY <1>1 DEF TypeInv, TypeOK, BooksSorted
  <1>4. \A p \in OpenOrders(r) : p.ts < o.ts
    <2>1. \A i \in 1..Len(bids[r]) : bids[r][i].ts \in Int /\ bids[r][i].ts < o.ts
      BY <1>1, <1>3, ElementOfSeq, OrdersOrderSet DEF IsSide, OrderSet
    <2>2. \A i \in 1..Len(asks[r]) : asks[r][i].ts \in Int /\ asks[r][i].ts < o.ts
      BY <1>1, <1>3, ElementOfSeq, OrdersOrderSet DEF IsSide, OrderSet
    <2>3. /\ Range(bids[r]) = {bids[r][i] : i \in 1..Len(bids[r])}
          /\ Range(asks[r]) = {asks[r][i] : i \in 1..Len(asks[r])}
      BY <1>3, RangeEquality
    <2> QED BY <2>1, <2>2, <2>3 DEF OpenOrders
  <1>5. ASSUME NEW x \in Resources
        PROVE  OpenOrders(x)' = IF x = r THEN OpenOrders(r) \union {o} ELSE OpenOrders(x)
    <2>1. CASE x # r
      BY <1>1, <1>3, <2>1 DEF OpenOrders
    <2>2. CASE x = r /\ o.side = "BID"
      <3>1. PICK i \in Places("BID", bids[r], o) : bids'[x] = InsertAt(bids[r], i, o)
        BY <1>1, <1>3, <2>2
      <3>2. Range(bids'[x]) = Range(bids[r]) \union {o}
        BY <1>1, <1>3, <3>1, InsertAtRange DEF Places
      <3> QED BY <1>1, <2>2, <3>2 DEF OpenOrders
    <2>3. CASE x = r /\ o.side = "ASK"
      <3>1. PICK i \in Places("ASK", asks[r], o) : asks'[x] = InsertAt(asks[r], i, o)
        BY <1>1, <1>3, <2>3
      <3>2. Range(asks'[x]) = Range(asks[r]) \union {o}
        BY <1>1, <1>3, <3>1, InsertAtRange DEF Places
      <3> QED BY <1>1, <2>3, <3>2 DEF OpenOrders
    <2> QED BY <1>1, <2>1, <2>2, <2>3
  <1>6. Open' = [Open EXCEPT ![r] = @ \union {o}]
    BY <1>1, <1>5 DEF Open
  <1>7. EX!Accept(r, o)
    BY <1>1, <1>4, <1>6 DEF EX!Accept, Open
  <1> QED BY <1>1, <1>2, <1>7 DEF EX!Next

\* The heads of two sorted sides are the best bid and the best ask.
LEMMA HeadsAreBest ==
  ASSUME TypeInv, BooksSorted, NEW r \in Resources, bids[r] # <<>>, asks[r] # <<>>
  PROVE  /\ EX!Best(r, bids[r][1]) /\ EX!Best(r, asks[r][1])
         /\ bids[r][1].side = "BID" /\ asks[r][1].side = "ASK"
         /\ bids[r][1] \notin Range(asks[r]) /\ asks[r][1] \notin Range(bids[r])
  <1> DEFINE b == bids[r][1]
             a == asks[r][1]
  <1>1. /\ bids[r] \in Seq(Orders) /\ asks[r] \in Seq(Orders)
        /\ 1 \in 1..Len(bids[r]) /\ 1 \in 1..Len(asks[r])
        /\ Range(bids[r]) = {bids[r][i] : i \in 1..Len(bids[r])}
        /\ Range(asks[r]) = {asks[r][i] : i \in 1..Len(asks[r])}
    BY EmptySeq, LenProperties, RangeEquality DEF TypeInv, TypeOK
  <1>2. /\ \A p \in Range(bids[r]) : p.side = "BID" /\ (p = b \/ BidFirst(b, p))
        /\ \A p \in Range(asks[r]) : p.side = "ASK" /\ (p = a \/ AskFirst(a, p))
    <2>1. \A i \in 1..Len(bids[r]) : i = 1 \/ Precedes("BID", bids[r][1], bids[r][i])
      BY <1>1, LenProperties DEF BooksSorted, IsSide, Sorted
    <2>2. \A i \in 1..Len(asks[r]) : i = 1 \/ Precedes("ASK", asks[r][1], asks[r][i])
      BY <1>1, LenProperties DEF BooksSorted, IsSide, Sorted
    <2>3. /\ \A i \in 1..Len(bids[r]) : bids[r][i].side = "BID"
          /\ \A i \in 1..Len(asks[r]) : asks[r][i].side = "ASK"
      BY DEF BooksSorted, IsSide
    <2> QED BY <1>1, <2>1, <2>2, <2>3 DEF Precedes
  <1>3. b \in Range(bids[r]) /\ a \in Range(asks[r])
    BY <1>1
  <1>4. b.side = "BID" /\ a.side = "ASK"
    BY <1>2, <1>3
  <1>5. b \notin Range(asks[r]) /\ a \notin Range(bids[r])
    BY <1>2, <1>4
  <1>6. \A p \in Range(bids[r]) \union Range(asks[r]) : p.price \in Int
    BY <1>1, ElementOfSeq, OrdersOrderSet DEF OrderSet
  <1> HIDE DEF a, b
  <1>7. EX!Best(r, b)
    <2>1. ASSUME NEW p \in OpenOrders(r) \ {b}, p.side = b.side PROVE EX!Ahead(b, p)
      <3>1. p \in Range(bids[r]) /\ p # b
        BY <1>2, <1>4, <2>1 DEF OpenOrders
      <3>2. BidFirst(b, p) BY <1>2, <3>1
      <3> QED BY <1>3, <1>4, <1>6, <3>1, <3>2 DEF BidFirst, EX!Ahead
    <2> QED BY <1>3, <2>1 DEF EX!Best, OpenOrders
  <1>8. EX!Best(r, a)
    <2>1. ASSUME NEW p \in OpenOrders(r) \ {a}, p.side = a.side PROVE EX!Ahead(a, p)
      <3>1. p \in Range(asks[r]) /\ p # a
        BY <1>2, <1>4, <2>1 DEF OpenOrders
      <3>2. AskFirst(a, p) BY <1>2, <3>1
      <3> QED BY <1>3, <1>4, <1>6, <3>1, <3>2 DEF AskFirst, EX!Ahead
    <2> QED BY <1>3, <2>1 DEF EX!Best, OpenOrders
  <1> QED BY <1>4, <1>5, <1>7, <1>8 DEF a, b

\* A turn of Match's loop is a trade.
LEMMA FillIsTrade ==
  ASSUME TypeInv, BooksSorted, NEW h \in Handlers, Fill(h)
  PROVE  EX!Next
  <1> DEFINE r == order[h].resource
             t == NextTrade(r)
             b == bids[r][1]
             a == asks[r][1]
             q == t.qty
  <1>1. /\ r \in Resources /\ Crosses(bids[r], asks[r])
        /\ bids[r] \in Seq(Orders) /\ bids[r] # <<>>
        /\ asks[r] \in Seq(Orders) /\ asks[r] # <<>>
        /\ q \in Nat \ {0} /\ q <= b.qty /\ q <= a.qty
        /\ bids' = [bids EXCEPT ![r] = TakeFromHead(@, q)]
        /\ asks' = [asks EXCEPT ![r] = TakeFromHead(@, q)]
        /\ tape' = [tape EXCEPT ![r] = Append(@, t)]
    BY FillStep
  <1>2. q = EX!Lesser(b.qty, a.qty)
        /\ t = [id |-> Len(tape[r]) + 1, buyOrder |-> b.id, sellOrder |-> a.id,
                buyer |-> b.npc, seller |-> a.npc, resource |-> r, price |-> a.price, qty |-> q]
    BY DEF NextTrade, Lesser, EX!Lesser
  <1>3. b.price >= a.price BY <1>1 DEF Crosses
  <1> HIDE DEF r, t, q
  <1>4. /\ EX!Best(r, b) /\ EX!Best(r, a) /\ b.side = "BID" /\ a.side = "ASK"
        /\ b \notin Range(asks[r]) /\ a \notin Range(bids[r])
    BY <1>1, HeadsAreBest
  <1>5. /\ Range(TakeFromHead(bids[r], q)) = (Range(bids[r]) \ {b}) \union EX!Rest(b, q)
        /\ Range(TakeFromHead(asks[r], q)) = (Range(asks[r]) \ {a}) \union EX!Rest(a, q)
    <2>1. Sorted("BID", bids[r]) /\ Sorted("ASK", asks[r])
      BY <1>1 DEF BooksSorted, IsSide
    <2> QED BY <1>1, <2>1, TakeFromHeadRange, OrdersOrderSet DEF EX!Rest
  <1>6. DOMAIN bids = Resources /\ DOMAIN asks = Resources /\ DOMAIN tape = Resources
    BY DEF TypeInv, TypeOK
  <1> DEFINE after == (OpenOrders(r) \ {b, a}) \union EX!Rest(b, q) \union EX!Rest(a, q)
  <1>7. ASSUME NEW x \in Resources
        PROVE  OpenOrders(x)' = IF x = r THEN after ELSE OpenOrders(x)
    <2>1. CASE x # r
      BY <1>1, <1>6, <2>1 DEF OpenOrders
    <2>2. CASE x = r
      <3>1. bids'[x] = TakeFromHead(bids[r], q) /\ asks'[x] = TakeFromHead(asks[r], q)
        BY <1>1, <1>6, <2>2
      <3>2. OpenOrders(x)' = ((Range(bids[r]) \ {b}) \union EX!Rest(b, q))
                             \union ((Range(asks[r]) \ {a}) \union EX!Rest(a, q))
        BY <1>5, <3>1 DEF OpenOrders
      <3>3. after = ((Range(bids[r]) \union Range(asks[r])) \ {b, a})
                    \union EX!Rest(b, q) \union EX!Rest(a, q)
        BY DEF OpenOrders
      <3> HIDE DEF a, b, after
      <3> QED BY <1>4, <2>2, <3>2, <3>3
    <2> QED BY <2>1, <2>2
  <1>8. Open' = [Open EXCEPT ![r] = after]
    <2> HIDE DEF after
    <2> QED BY <1>1, <1>7 DEF Open
  <1>9. EX!Trade(r, b, a)
    BY <1>1, <1>2, <1>3, <1>4, <1>8 DEF EX!Trade, Open
  <1>10. b \in OpenOrders(r) /\ a \in OpenOrders(r)
    BY <1>1, <1>4 DEF EX!Best
  <1> QED BY <1>1, <1>9, <1>10 DEF EX!Next

LEMMA RestartIsLose == Restart => EX!Next
  <1> SUFFICES ASSUME Restart PROVE EX!Next
    OBVIOUS
  <1>1. Range(<<>>) = {} BY DEF Range
  <1>2. \A r \in Resources : OpenOrders(r)' = {}
    BY <1>1 DEF Restart, OpenOrders
  <1>3. Open' = [r \in Resources |-> {}]
    BY <1>2 DEF Open
  <1> QED BY <1>3 DEF Restart, EX!Next, EX!Lose, Open

\* Every step of the service is a step of the exchange or none.
LEMMA StepIsExchangeStep ==
  ASSUME TypeInv, BooksSorted, [Next]_vars
  PROVE  [EX!Next]_EX!exchangeVars
  <1>1. ASSUME UNCHANGED <<bids, asks, tape>> PROVE UNCHANGED EX!exchangeVars
    BY <1>1 DEF EX!exchangeVars, OpenOrders
  <1>2. ASSUME NEW h \in Handlers, Step(h) PROVE [EX!Next]_EX!exchangeVars
    <2>1. CASE PlaceInBook(h) BY <2>1, PlaceIsAccept
    <2>2. CASE Fill(h) BY <2>2, FillIsTrade
    <2>3. CASE ~PlaceInBook(h) /\ ~Fill(h) BY <1>1, <1>2, <2>3, BooksAlone
    <2> QED BY <2>1, <2>2, <2>3
  <1>3. CASE Restart BY <1>3, RestartIsLose
  <1>4. CASE UNCHANGED vars BY <1>1, <1>4 DEF vars, bookVars
  <1> QED BY <1>2, <1>3, <1>4 DEF Next

\* The handlers, locks and slices of the service implement the atomic price-time exchange.
THEOREM ImplementsExchange == Spec => ExchangeSpec
  <1>1. Init => EX!Init
    BY DEF Init, EX!Init, OpenOrders, Range
  <1>2. Init => BooksSorted
    BY DEF Init, BooksSorted, IsSide, Sorted
  <1>3. TypeInv /\ BooksSorted /\ [Next]_vars => TypeInv' /\ BooksSorted'
    BY TypeNext, BooksSortedNext
  <1>4. TypeInv /\ BooksSorted /\ [Next]_vars => [EX!Next]_EX!exchangeVars
    BY StepIsExchangeStep
  <1> QED BY <1>1, <1>2, <1>3, <1>4, TypeInit, PTL DEF Spec, ExchangeSpec, EX!ExchangeSpec
=============================================================================
