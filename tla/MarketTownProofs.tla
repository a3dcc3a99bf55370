--------------------------- MODULE MarketTownProofs ---------------------------
(***************************************************************************)
(* The market-trade flow end to end, composed from the theorems about its  *)
(* two parts. A step of the town leaves the market alone, so the market's  *)
(* invariants hold as they stand; a step of the market adds at most one    *)
(* message to the topic, and the town's invariants survive that.           *)
(***************************************************************************)
EXTENDS MarketTown, MarketServerProofs

TP == INSTANCE SettlementProofs WITH
  Messages <- FlowMessages, Residents <- NPCs, Log <- <<>>, pc <- townPc

-----------------------------------------------------------------------------
(***************************************************************************)
(* What the market can trade: a trade takes a number that an insertion has *)
(* paid for, and a quantity no larger than an order's.                     *)
(***************************************************************************)
Sizes == UNION {1..s : s \in Quantities}

FlowTrades ==
  [id : 1..MaxOrders, buyOrder : 1..MaxOrders, sellOrder : 1..MaxOrders, buyer : NPCs,
   seller : NPCs, resource : Resources, price : Prices, qty : Sizes]

\* Every insertion gives a book one more timestamp, and a trade removes an order for good.
BookFits(r) ==
  /\ Len(tape[r]) + Len(bids[r]) + Len(asks[r]) <= clock[r]
  /\ \A o \in OpenOrders(r) : o.qty \in Sizes
  /\ \A n \in 1..Len(tape[r]) :
       tape[r][n] \in FlowTrades /\ tape[r][n].id = n /\ tape[r][n].resource = r

\* What the handlers report is on the tapes.
TradesFit ==
  /\ \A r \in Resources : BookFits(r)
  /\ \A h \in Handlers : Range(fills[h]) \subseteq AllTrades

LEMMA SizesDown ==
  ASSUME NEW q \in Sizes
  PROVE  q \in Nat \ {0} /\ \A k \in 1..q : k \in Sizes
  <1>1. PICK s \in Quantities : q \in 1..s
    BY DEF Sizes
  <1>2. s \in Nat
    BY MarketAssumption
  <1>3. \A k \in 1..q : k \in 1..s
    BY <1>1, <1>2
  <1> QED BY <1>1, <1>2, <1>3 DEF Sizes

LEMMA QuantityIsSize == Quantities \subseteq Sizes
  <1>1. \A q \in Quantities : q \in 1..q
    BY MarketAssumption
  <1> QED BY <1>1 DEF Sizes

\* A trade shortens a slice by its head, or reduces the head.
LEMMA TakeFits ==
  ASSUME NEW s \in Seq(Orders), s # <<>>, \A o \in Range(s) : o.qty \in Sizes,
         NEW q \in Nat \ {0}, q <= s[1].qty
  PROVE  LET t == TakeFromHead(s, q)
         IN  /\ Len(t) <= Len(s) /\ (q = s[1].qty => Len(t) = Len(s) - 1)
             /\ \A o \in Range(t) : o.qty \in Sizes
  <1> DEFINE t == TakeFromHead(s, q)
  <1>1. /\ Len(s) \in Nat /\ 1 \in 1..Len(s) /\ s[1] \in Orders
        /\ \A j \in 1..Len(s) : s[j] \in Range(s)
    BY LenProperties, ElementOfSeq, EmptySeq DEF Range
  <1>2. s[1].qty \in Sizes /\ s[1].qty \in Nat
    BY <1>1, SizesDown
  <1>3. /\ t \in Seq(Orders)
        /\ s[1].qty <= q =>
             /\ Len(t) = Len(s) - 1
             /\ \A j \in 1..Len(t) : t[j] = s[j + 1]
        /\ ~(s[1].qty <= q) =>
             /\ Len(t) = Len(s)
             /\ t[1] = [s[1] EXCEPT !.qty = @ - q]
             /\ \A j \in 2..Len(s) : t[j] = s[j]
    BY OrdersOrderSet, TakeFromHeadProperties
  <1> HIDE DEF t
  <1>4. Len(t) <= Len(s) /\ (q = s[1].qty => Len(t) = Len(s) - 1)
    BY <1>1, <1>2, <1>3
  <1>5. ASSUME NEW j \in 1..Len(t) PROVE t[j].qty \in Sizes
    <2>1. CASE s[1].qty <= q
      <3>1. j + 1 \in 1..Len(s) /\ t[j] = s[j + 1]
        BY <1>1, <1>3, <2>1
      <3> QED BY <1>1, <3>1
    <2>2. CASE ~(s[1].qty <= q) /\ j = 1
      <3>1. t[1].qty = s[1].qty - q
        BY <1>1, <1>3, <2>2 DEF Orders
      <3>2. s[1].qty - q \in 1..s[1].qty
        BY <1>2, <2>2
      <3> QED BY <1>2, <2>2, <3>1, <3>2, SizesDown
    <2>3. CASE ~(s[1].qty <= q) /\ j # 1
      <3>1. j \in 2..Len(s) /\ j \in 1..Len(s)
        BY <1>1, <1>3, <2>3
      <3> QED BY <1>1, <1>3, <2>3, <3>1
    <2> QED BY <2>1, <2>2, <2>3
  <1>6. DOMAIN t = 1..Len(t)
    BY <1>3, LenProperties
  <1> QED BY <1>4, <1>5, <1>6 DEF Range, t

\* An insertion lengthens one slice of its book by one.
LEMMA PlaceFits ==
  ASSUME TypeInv, NEW h \in Handlers, PlaceInBook(h), NEW x \in Resources, BookFits(x)
  PROVE  BookFits(x)'
  <1> DEFINE r == order[h].resource
             o == Stamped(h)
  <1>1. /\ r \in Resources /\ o \in Orders /\ clock[r] \in Nat
        /\ \/ /\ asks' = asks
              /\ \E i \in Places("BID", bids[r], o) :
                   bids' = [bids EXCEPT ![r] = InsertAt(@, i, o)]
           \/ /\ bids' = bids
              /\ \E i \in Places("ASK", asks[r], o) :
                   asks' = [asks EXCEPT ![r] = InsertAt(@, i, o)]
        /\ clock' = [clock EXCEPT ![r] = @ + 1] /\ tape' = tape
    BY PlaceInBookStep
  <1>2. /\ bids \in [Resources -> Seq(Orders)] /\ asks \in [Resources -> Seq(Orders)]
        /\ clock \in [Resources -> 0..MaxOrders] /\ Len(tape[x]) \in Nat
        /\ Len(bids[x]) \in Nat /\ Len(asks[x]) \in Nat
    BY LenProperties DEF TypeInv, TypeOK
  <1>3. o.qty \in Sizes
    BY QuantityIsSize DEF Stamped, TypeInv, RequestInHand, PlaceInBook, Requests
  <1>4. OpenOrders(x)' \subseteq OpenOrders(x) \union {o}
    BY OpenOrdersPlace
  <1>5. \A y \in OpenOrders(x)' : y.qty \in Sizes
    BY <1>3, <1>4 DEF BookFits
  <1> HIDE DEF r, o
  <1>6. Len(tape'[x]) + Len(bids'[x]) + Len(asks'[x]) <= clock'[x]
    <2>1. CASE x # r
      BY <1>1, <1>2, <2>1 DEF BookFits
    <2>2. CASE x = r
      <3>1. \A i \in Places("BID", bids[r], o) : Len(InsertAt(bids[r], i, o)) = Len(bids[r]) + 1
        BY <1>1, <1>2, InsertAtProperties DEF Places
      <3>2. \A i \in Places("ASK", asks[r], o) : Len(InsertAt(asks[r], i, o)) = Len(asks[r]) + 1
        BY <1>1, <1>2, InsertAtProperties DEF Places
      <3>3. clock'[x] = clock[x] + 1 /\ clock[x] \in Nat
        BY <1>1, <1>2, <2>2
      <3>4. \/ Len(bids'[x]) = Len(bids[x]) + 1 /\ asks'[x] = asks[x]
            \/ Len(asks'[x]) = Len(asks[x]) + 1 /\ bids'[x] = bids[x]
        BY <1>1, <1>2, <2>2, <3>1, <3>2
      <3>5. Len(tape[x]) + Len(bids[x]) + Len(asks[x]) <= clock[x] /\ tape'[x] = tape[x]
        BY <1>1 DEF BookFits
      <3>6. /\ Len(tape'[x]) = Len(tape[x])
            /\ \/ Len(bids'[x]) = Len(bids[x]) + 1 /\ Len(asks'[x]) = Len(asks[x])
               \/ Len(bids'[x]) = Len(bids[x]) /\ Len(asks'[x]) = Len(asks[x]) + 1
        BY ONLY <3>4, <3>5
      <3> DEFINE T == Len(tape[x])  B == Len(bids[x])  A == Len(asks[x])
      <3>7. T \in Nat /\ B \in Nat /\ A \in Nat /\ T + B + A <= clock[x]
        BY <1>2, <3>5
      <3> HIDE DEF T, B, A
      <3>8. T + (B + 1) + A <= clock[x] + 1 /\ T + B + (A + 1) <= clock[x] + 1
        BY ONLY <3>3, <3>7
      <3> QED BY <3>3, <3>6, <3>8 DEF T, B, A
    <2> QED BY <2>1, <2>2
  <1> QED BY <1>1, <1>5, <1>6 DEF BookFits

\* A trade takes the number after the last one, and an order less is in the book.
LEMMA FillFits ==
  ASSUME TypeInv, NEW h \in Handlers, Fill(h), NEW x \in Resources, BookFits(x)
  PROVE  BookFits(x)'
  <1> DEFINE r == order[h].resource
             t == NextTrade(r)
  <1>1. /\ r \in Resources /\ t \in Trades
        /\ bids[r] \in Seq(Orders) /\ bids[r] # <<>>
        /\ asks[r] \in Seq(Orders) /\ asks[r] # <<>>
        /\ t.qty \in Nat \ {0} /\ t.qty <= bids[r][1].qty /\ t.qty <= asks[r][1].qty
        /\ bids' = [bids EXCEPT ![r] = TakeFromHead(@, t.qty)]
        /\ asks' = [asks EXCEPT ![r] = TakeFromHead(@, t.qty)]
        /\ tape' = [tape EXCEPT ![r] = Append(@, t)]
        /\ clock' = clock
    BY FillStep
  <1>2. /\ bids \in [Resources -> Seq(Orders)] /\ asks \in [Resources -> Seq(Orders)]
        /\ tape \in [Resources -> Seq(Trades)]
        /\ clock[x] \in Nat /\ clock[x] <= MaxOrders /\ Len(tape[x]) \in Nat
        /\ Len(bids[x]) \in Nat /\ Len(asks[x]) \in Nat
    BY MarketAssumption, LenProperties DEF TypeInv, TypeOK
  <1>3. t.id = Len(tape[r]) + 1 /\ t.resource = r
        /\ (t.qty = bids[r][1].qty \/ t.qty = asks[r][1].qty)
    BY DEF NextTrade, Lesser
  <1>4. CASE x # r
    <2>1. UNCHANGED <<tape[x], bids[x], asks[x], clock>>
      BY <1>1, <1>2, <1>4
    <2> QED BY <2>1 DEF BookFits, OpenOrders
  <1>5. CASE x = r
    <2> HIDE DEF r, t
    <2>1. /\ \A o \in Range(bids[x]) : o.qty \in Sizes
          /\ \A o \in Range(asks[x]) : o.qty \in Sizes
      BY DEF BookFits, OpenOrders
    <2> DEFINE b == TakeFromHead(bids[x], t.qty)
               a == TakeFromHead(asks[x], t.qty)
    <2>2. /\ bids'[x] = b /\ asks'[x] = a /\ tape'[x] = Append(tape[x], t)
          /\ tape[x] \in Seq(Trades)
      BY <1>1, <1>2, <1>5
    <2>3. /\ Len(b) <= Len(bids[x]) /\ (t.qty = bids[x][1].qty => Len(b) = Len(bids[x]) - 1)
          /\ \A o \in Range(b) : o.qty \in Sizes
      BY <1>1, <1>5, <2>1, TakeFits
    <2>4. /\ Len(a) <= Len(asks[x]) /\ (t.qty = asks[x][1].qty => Len(a) = Len(asks[x]) - 1)
          /\ \A o \in Range(a) : o.qty \in Sizes
      BY <1>1, <1>5, <2>1, TakeFits
    <2> HIDE DEF b, a
    <2>5. Len(tape'[x]) = Len(tape[x]) + 1
          /\ \A n \in 1..(Len(tape[x]) + 1) :
               tape'[x][n] = IF n = Len(tape[x]) + 1 THEN t ELSE tape[x][n]
      BY <1>1, <2>2, AppendProperties
    <2>6. Len(a) \in Nat /\ Len(b) \in Nat /\ Len(bids[x]) # 0 /\ Len(asks[x]) # 0
      <3>1. a \in Seq(Orders) /\ b \in Seq(Orders)
        BY <1>1, <1>5, OrdersOrderSet, TakeFromHeadProperties DEF a, b
      <3> QED BY <1>1, <1>5, <3>1, LenProperties, EmptySeq
    <2>7. Len(tape[x]) + Len(bids[x]) + Len(asks[x]) <= clock[x]
      BY DEF BookFits
    <2>8. Len(tape'[x]) + Len(bids'[x]) + Len(asks'[x]) <= clock'[x]
      <3>1. Len(b) + Len(a) <= Len(bids[x]) + Len(asks[x]) - 1
        BY <1>2, <1>3, <1>5, <2>3, <2>4, <2>6
      <3> QED BY <1>1, <1>2, <2>2, <2>5, <2>6, <2>7, <3>1
    <2>9. t \in FlowTrades
      <3>1. t.id \in 1..MaxOrders
        BY <1>2, <1>3, <1>5, <2>6, <2>7, MarketAssumption
      <3>2. t.qty \in Sizes
        <4>1. bids[x][1] \in Range(bids[x]) /\ asks[x][1] \in Range(asks[x])
          BY <1>1, <1>5, <2>6, LenProperties DEF Range
        <4> QED BY <1>3, <1>5, <2>1, <4>1
      <3> QED BY <1>1, <3>1, <3>2 DEF Trades, FlowTrades
    <2>10. \A o \in OpenOrders(x)' : o.qty \in Sizes
      BY <2>2, <2>3, <2>4 DEF OpenOrders
    <2>11. \A n \in 1..Len(tape'[x]) :
             tape'[x][n] \in FlowTrades /\ tape'[x][n].id = n /\ tape'[x][n].resource = x
      <3> SUFFICES ASSUME NEW n \in 1..(Len(tape[x]) + 1)
                   PROVE  tape'[x][n] \in FlowTrades /\ tape'[x][n].id = n /\ tape'[x][n].resource = x
        BY <2>5
      <3>1. CASE n = Len(tape[x]) + 1
        BY <1>3, <1>5, <2>5, <2>9, <3>1
      <3>2. CASE n # Len(tape[x]) + 1
        <4>1. n \in 1..Len(tape[x]) /\ tape'[x][n] = tape[x][n]
          BY <1>2, <2>5, <3>2
        <4> QED BY <4>1 DEF BookFits
      <3> QED BY <3>1, <3>2
    <2> QED BY <2>8, <2>10, <2>11 DEF BookFits
  <1> QED BY <1>4, <1>5

LEMMA RangeAppend ==
  ASSUME NEW S, NEW s \in Seq(S), NEW e \in S
  PROVE  Range(Append(s, e)) = Range(s) \union {e}
  <1>1. /\ Len(s) \in Nat /\ DOMAIN s = 1..Len(s) /\ DOMAIN Append(s, e) = 1..(Len(s) + 1)
        /\ \A i \in 1..Len(s) : Append(s, e)[i] = s[i]
        /\ Append(s, e)[Len(s) + 1] = e
    BY AppendProperties, LenProperties
  <1>2. \A i \in 1..(Len(s) + 1) : i \in 1..Len(s) \/ i = Len(s) + 1
    BY <1>1
  <1>3. Len(s) + 1 \in 1..(Len(s) + 1) /\ \A i \in 1..Len(s) : i \in 1..(Len(s) + 1)
    BY <1>1
  <1> QED BY <1>1, <1>2, <1>3 DEF Range

LEMMA FillAddsTrade ==
  ASSUME TypeInv, NEW h \in Handlers, Fill(h)
  PROVE  LET t == NextTrade(order[h].resource)
         IN  /\ t \in Trades /\ AllTrades' = AllTrades \union {t}
             /\ fills' = [fills EXCEPT ![h] = Append(@, t)]
  <1> DEFINE r == order[h].resource
             t == NextTrade(r)
  <1>1. /\ r \in Resources /\ t \in Trades /\ tape' = [tape EXCEPT ![r] = Append(@, t)]
        /\ fills' = [fills EXCEPT ![h] = Append(@, t)] /\ tape \in [Resources -> Seq(Trades)]
    BY FillStep DEF Fill, TypeInv, TypeOK
  <1> HIDE DEF t, r
  <1>2. Range(Append(tape[r], t)) = Range(tape[r]) \union {t}
    BY <1>1, RangeAppend
  <1>3. \A x \in Resources :
          Range(tape'[x]) = IF x = r THEN Range(tape[x]) \union {t} ELSE Range(tape[x])
    BY <1>1, <1>2
  <1>4. \A u : u \in AllTrades' <=> \E x \in Resources : u \in Range(tape'[x])
    BY DEF AllTrades
  <1>5. \A u : u \in AllTrades <=> \E x \in Resources : u \in Range(tape[x])
    BY DEF AllTrades
  <1>6. \A u : u \in AllTrades' <=> u \in AllTrades \/ u = t
    BY <1>1, <1>3, <1>4, <1>5
  <1>7. AllTrades' = AllTrades \union {t}
    BY <1>6
  <1> QED BY <1>1, <1>7 DEF t, r

\* Handlers make trades one by one and report them in the end; only the death of the process
\* takes trades off the tapes.
LEMMA TradeSteps ==
  ASSUME TypeInv, [Next]_vars
  PROVE  \/ \E h \in Handlers :
              LET t == NextTrade(order[h].resource)
              IN  /\ Fill(h) /\ t \in Trades
                  /\ AllTrades' = AllTrades \union {t}
                  /\ fills' = [fills EXCEPT ![h] = Append(@, t)]
         \/ /\ tape' = tape /\ AllTrades' = AllTrades
            /\ \A h \in Handlers : fills'[h] = fills[h] \/ fills'[h] = <<>>
         \/ Restart
  <1>1. fills \in [Handlers -> Seq(Trades)] /\ tape \in [Resources -> Seq(Trades)]
    BY DEF TypeInv, TypeOK
  <1>2. \A h \in Handlers : Fill(h) => LET t == NextTrade(order[h].resource)
                                     IN  /\ t \in Trades /\ AllTrades' = AllTrades \union {t}
                                         /\ fills' = [fills EXCEPT ![h] = Append(@, t)]
    BY FillAddsTrade
  <1>3. ASSUME NEW h \in Handlers, Step(h), ~Fill(h)
        PROVE  tape' = tape /\ \A g \in Handlers : fills'[g] = fills[g] \/ fills'[g] = <<>>
    <2>1. CASE PlaceInBook(h)
      BY <2>1, PlaceInBookStep DEF PlaceInBook
    <2>2. CASE ~PlaceInBook(h)
      <3>1. tape' = tape
        BY <1>3, <2>2, BooksAlone
      <3>2. fills' = fills \/ fills' = [fills EXCEPT ![h] = <<>>]
        BY <1>3, <2>2 DEF Step, Receive, BeginMatch, EndMatch, Record, Emit
      <3> QED BY <1>1, <3>1, <3>2
    <2> QED BY <2>1, <2>2
  <1>4. CASE UNCHANGED vars
    BY <1>4 DEF vars, bookVars, handlerVars, AllTrades
  <1>5. tape' = tape => AllTrades' = AllTrades
    BY DEF AllTrades
  <1>6. CASE \E h \in Handlers : Fill(h)
    BY <1>2, <1>6
  <1>7. CASE \E h \in Handlers : Step(h) /\ ~Fill(h)
    BY <1>3, <1>5, <1>7
  <1> QED BY <1>4, <1>5, <1>6, <1>7 DEF Next

LEMMA TradesInit == Init => TradesFit
  <1> SUFFICES ASSUME Init PROVE TradesFit
    OBVIOUS
  <1>1. ASSUME NEW r \in Resources PROVE BookFits(r)
    BY EmptySeq DEF Init, BookFits, OpenOrders, Range
  <1>2. ASSUME NEW h \in Handlers PROVE Range(fills[h]) = {}
    BY EmptySeq DEF Init, Range
  <1> QED BY <1>1, <1>2 DEF TradesFit

LEMMA TradesNext ==
  ASSUME TypeInv, TradesFit, [Next]_vars
  PROVE  TradesFit'
  <1>1. ASSUME NEW x \in Resources, ~Restart PROVE BookFits(x)'
    <2>1. BookFits(x)
      BY DEF TradesFit
    <2>2. ASSUME NEW h \in Handlers, Step(h) PROVE BookFits(x)'
      <3>1. CASE PlaceInBook(h)
        BY <2>1, <3>1, PlaceFits
      <3>2. CASE Fill(h)
        BY <2>1, <3>2, FillFits
      <3>3. CASE ~PlaceInBook(h) /\ ~Fill(h)
        BY <2>1, <2>2, <3>3, BooksAlone DEF BookFits, OpenOrders
      <3> QED BY <3>1, <3>2, <3>3
    <2>3. CASE UNCHANGED vars
      BY <2>1, <2>3 DEF vars, bookVars, BookFits, OpenOrders
    <2> QED BY <1>1, <2>2, <2>3 DEF Next
  <1>2. ASSUME NEW h \in Handlers, Fill(h) PROVE TradesFit'
    <2> DEFINE t == NextTrade(order[h].resource)
    <2>1. /\ t \in Trades /\ AllTrades' = AllTrades \union {t}
          /\ fills' = [fills EXCEPT ![h] = Append(@, t)] /\ ~Restart
      <3>1. ~Restart
        BY <1>2 DEF Fill, Restart
      <3> QED BY <1>2, <3>1, FillAddsTrade
    <2> HIDE DEF t
    <2>2. /\ fills \in [Handlers -> Seq(Trades)]
          /\ \A g \in Handlers : Range(fills[g]) \subseteq AllTrades
      BY DEF TypeInv, TypeOK, TradesFit
    <2>3. Range(Append(fills[h], t)) = Range(fills[h]) \union {t}
      BY <2>1, <2>2, RangeAppend
    <2>4. \A g \in Handlers : Range(fills'[g]) \subseteq AllTrades'
      BY <2>1, <2>2, <2>3
    <2> QED BY <1>1, <2>1, <2>4 DEF TradesFit
  <1>3. ASSUME tape' = tape, AllTrades' = AllTrades, ~Restart,
               \A h \in Handlers : fills'[h] = fills[h] \/ fills'[h] = <<>>
        PROVE  TradesFit'
    <2>1. Range(<<>>) = {}
      BY EmptySeq DEF Range
    <2>2. \A h \in Handlers : Range(fills'[h]) \subseteq AllTrades'
      BY <1>3, <2>1 DEF TradesFit
    <2> QED BY <1>1, <1>3, <2>2 DEF TradesFit
  <1>4. ASSUME Restart PROVE TradesFit'
    <2>1. ASSUME NEW r \in Resources PROVE BookFits(r)'
      BY <1>4, EmptySeq DEF Restart, BookFits, OpenOrders, Range
    <2>2. ASSUME NEW h \in Handlers PROVE Range(fills'[h]) = {}
      BY <1>4, EmptySeq DEF Restart, Range
    <2> QED BY <2>1, <2>2 DEF TradesFit
  <1> QED BY <1>2, <1>3, <1>4, TradeSteps

-----------------------------------------------------------------------------
(***************************************************************************)
(* The messages of a trade, and the topic.                                 *)
(***************************************************************************)
LEMMA MessageTypes ==
  ASSUME NEW t \in FlowTrades
  PROVE  MessagesOf(t) \subseteq FlowMessages
  <1> DEFINE Amounts == {p * q : p \in Prices, q \in Sizes}
             x == t.price * t.qty
  <1>1. x \in Amounts
    BY DEF FlowTrades
  <1> HIDE DEF x
  <1>2. x \in Amounts \union {-y : y \in Amounts} /\ -x \in Amounts \union {-y : y \in Amounts}
    BY <1>1
  <1>3. FlowMessages = [npc : NPCs, delta : Amounts \union {-y : y \in Amounts},
                        resource : Resources, trade : 1..MaxOrders]
    BY DEF FlowMessages, Sizes
  <1> HIDE DEF Amounts
  <1>4. /\ t.buyer \in NPCs /\ t.seller \in NPCs /\ t.resource \in Resources
        /\ t.id \in 1..MaxOrders
    BY DEF FlowTrades
  <1>5. MessagesOf(t) =
          {[npc |-> t.buyer,  delta |-> -x, resource |-> t.resource, trade |-> t.id],
           [npc |-> t.seller, delta |-> x,  resource |-> t.resource, trade |-> t.id]}
    BY DEF MessagesOf, x
  <1> QED BY <1>2, <1>3, <1>4, <1>5

LEMMA TapeTrades ==
  ASSUME TypeInv, TradesFit, NEW t \in AllTrades
  PROVE  t \in FlowTrades /\ \E n \in 1..Len(tape[t.resource]) : t = tape[t.resource][n] /\ t.id = n
  <1>1. PICK r \in Resources : t \in Range(tape[r])
    BY DEF AllTrades
  <1>2. PICK n \in 1..Len(tape[r]) : t = tape[r][n]
    BY <1>1, RangeEquality DEF TypeInv, TypeOK
  <1>3. tape[r][n] \in FlowTrades /\ tape[r][n].id = n /\ tape[r][n].resource = r
    BY <1>2 DEF TradesFit, BookFits
  <1> QED BY <1>2, <1>3

\* Messages go out trade by trade, the buyer's and then the seller's.
LEMMA SentOfTrade ==
  ASSUME NEW ts \in Seq(Trades), NEW k \in 1..(2 * Len(ts))
  PROVE  \E t \in Range(ts) : Settlement(ts, k) \in MessagesOf(t)
  <1> DEFINE n == (k + 1) \div 2
  <1>1. n \in 1..Len(ts)
    BY LenProperties
  <1>2. ts[n] \in Range(ts) /\ k % 2 \in {0, 1}
    BY <1>1, LenProperties DEF Range
  <1> HIDE DEF n
  <1>3. Settlement(ts, k) \in MessagesOf(ts[n])
    <2>1. CASE k % 2 = 1
      BY <2>1 DEF Settlement, MessagesOf, n
    <2>2. CASE k % 2 # 1
      BY <2>2 DEF Settlement, MessagesOf, n
    <2> QED BY <2>1, <2>2
  <1> QED BY <1>2, <1>3

\* A handler that emits has the next message to send.
LEMMA NextMessage ==
  ASSUME TypeInv, NEW h \in Handlers, pc[h] = "emit"
  PROVE  /\ fills[h] \in Seq(Trades) /\ Len(fills[h]) \in Nat /\ emitted[h] \in Nat
         /\ emitted[h] + 1 \in 1..(2 * Len(fills[h]))
  BY LenProperties DEF TypeInv, TypeOK, MoreToEmit

LEMMA TopicSteps ==
  ASSUME TypeInv, [Next]_vars
  PROVE  \/ topic' = topic
         \/ \E h \in Handlers :
              Emit(h) /\ topic' = Append(topic, Settlement(fills[h], emitted[h] + 1))
  <1>1. ASSUME NEW h \in Handlers, Step(h), ~Emit(h) PROVE topic' = topic
    BY <1>1 DEF Step, Receive, PlaceInBook, BeginMatch, Fill, EndMatch, Record
  <1>2. \A h \in Handlers :
          Emit(h) => topic' = topic \/ topic' = Append(topic, Settlement(fills[h], emitted[h] + 1))
    BY DEF Emit
  <1>3. Restart \/ UNCHANGED vars => topic' = topic
    BY DEF Restart, vars
  <1> QED BY <1>1, <1>2, <1>3 DEF Next

\* What the topic gets is a message of a trade on a tape.
LEMMA MessageAdded ==
  ASSUME TypeInv, TradesFit, [Next]_vars, topic' # topic
  PROVE  \E t \in AllTrades : \E m \in MessagesOf(t) :
           m \in FlowMessages /\ topic' = Append(topic, m)
  <1>1. PICK h \in Handlers : /\ pc[h] = "emit"
                              /\ topic' = Append(topic, Settlement(fills[h], emitted[h] + 1))
    BY TopicSteps DEF Emit
  <1>2. PICK t \in Range(fills[h]) : Settlement(fills[h], emitted[h] + 1) \in MessagesOf(t)
    BY <1>1, NextMessage, SentOfTrade
  <1>3. t \in AllTrades /\ t \in FlowTrades
    BY <1>2, TapeTrades DEF TradesFit
  <1> QED BY <1>1, <1>2, <1>3, MessageTypes

-----------------------------------------------------------------------------
(***************************************************************************)
(* A step of the flow is a step of the market or a step of the town.       *)
(***************************************************************************)

\* What the theorems about the town ask of its constants.
LEMMA TownConstants ==
  /\ NPCs \subseteq NPCs
  /\ None \notin NPCs \union FlowMessages
  /\ \A m \in FlowMessages : m.npc \in NPCs /\ m.delta \in Int
  /\ <<>> \in Seq(FlowMessages)
  /\ Workers \subseteq Processes
  /\ PartitionOf \in [FlowMessages -> Partitions] /\ Resumed \subseteq Partitions
  /\ Piece \in Nat \ {0}
  /\ InitialGold \in Int /\ TickPay \in Int
  /\ MaxFaults \in Nat /\ MaxReplays \in Nat /\ MaxTicks \in Nat
  <1> DEFINE Amounts == {p * q : p \in Prices, q \in Sizes}
  <1>1. \A x \in Amounts : x \in Int
    BY SizesDown, MarketAssumption
  <1> HIDE DEF Amounts
  <1>2. \A d \in Amounts \union {-y : y \in Amounts} : d \in Int
    BY <1>1
  <1>3. FlowMessages = [npc : NPCs, delta : Amounts \union {-y : y \in Amounts},
                        resource : Resources, trade : 1..MaxOrders]
    BY DEF FlowMessages, Sizes, Amounts
  <1>4. \A m \in FlowMessages : m.npc \in NPCs /\ m.delta \in Int
    BY <1>2, <1>3
  <1> QED BY <1>4, FlowAssumption, EmptySeq

LEMMA SameTown ==
  /\ Town!Init <=> TP!Init
  /\ Town!Next <=> TP!Next
  /\ Town!Settled = TP!Settled
  /\ \A m : Town!Key(m) = TP!Key(m)
  <1>1. Town!Init <=> TP!Init
    BY DEF Town!Init, TP!Init, Town!NoTick, TP!NoTick, Town!NoOffset, TP!NoOffset
  <1>2. Town!Settled = TP!Settled /\ \A m : Town!Key(m) = TP!Key(m)
    BY DEF Town!Settled, TP!Settled, Town!Key, TP!Key
  <1>3. Town!Next <=> TP!Next
    BY DEF Town!Next, TP!Next, Town!Handle, TP!Handle, Town!Fetch, TP!Fetch, Town!Skip, TP!Skip,
           Town!Read, TP!Read, Town!Commit, TP!Commit, Town!DeadLetter, TP!DeadLetter,
           Town!Replay, TP!Replay, Town!Raise, TP!Raise, Town!Emission, TP!Emission,
           Town!AutoCommit, TP!AutoCommit, Town!CommitPositions, TP!CommitPositions, Town!Crash,
           TP!Crash, Town!Rebalance, TP!Rebalance, Town!Reassign, TP!Reassign, Town!Reset,
           TP!Reset, Town!Forsaken, TP!Forsaken, Town!TickRead, TP!TickRead, Town!TickWrite,
           TP!TickWrite, Town!Arrive, TP!Arrive, Town!Finish, TP!Finish, Town!Pay, TP!Pay,
           Town!Part, TP!Part, Town!Ahead, TP!Ahead, Town!groupVars, TP!groupVars,
           Town!letterVars, TP!letterVars, Town!dbVars, TP!dbVars, Town!sessionVars,
           TP!sessionVars, Town!tickVars, TP!tickVars, Town!Settled, TP!Settled, Town!Key,
           TP!Key, Town!NoTick, TP!NoTick, Town!NoOffset, TP!NoOffset, Town!Book!Stored,
           TP!Book!Stored, Town!Book!Half, TP!Book!Half
  <1> QED BY <1>1, <1>2, <1>3

\* The messages come from the market, the town itself writes none.
LEMMA FlowSteps ==
  ASSUME [FlowNext]_<<vars, townVars>>, topic \in Seq(FlowMessages)
  PROVE  \/ [Next]_vars /\ UNCHANGED townVars
         \/ UNCHANGED vars /\ [TP!Consume]_(TP!vars) /\ [TP!Next]_(TP!vars)
  <1>1. CASE Next /\ UNCHANGED townVars
    BY <1>1
  <1>2. CASE Town!Next /\ UNCHANGED <<bookVars, serverVars, handlerVars, restarts>>
    <2>1. TP!Next
      BY <1>2, SameTown
    <2>2. ~TP!Arrive
      <3>1. Len(topic) \in Nat /\ Len(<<>>) = 0
        BY LenProperties, EmptySeq
      <3> QED BY <3>1 DEF TP!Arrive
    <2>3. [TP!Consume]_(TP!vars)
      BY <2>1, <2>2, TownConstants, TP!NextCases
    <2>4. topic' = topic
      BY <2>3, TownConstants, TP!RecordsGrow
    <2> QED BY <1>2, <2>1, <2>3, <2>4 DEF vars
  <1>3. CASE UNCHANGED <<vars, townVars>>
    BY <1>3
  <1> QED BY <1>1, <1>2, <1>3 DEF FlowNext

-----------------------------------------------------------------------------
(***************************************************************************)
(* The inductive invariant of the flow: those of its two parts.            *)
(***************************************************************************)
TownInv == TP!SettleInv

FlowInv == TypeInv /\ ReportInv /\ TradesFit /\ TownInv

LEMMA TopicGrows ==
  ASSUME TypeInv, TradesFit, [Next]_vars, topic \in Seq(FlowMessages)
  PROVE  /\ topic' \in Seq(FlowMessages)
         /\ \A i \in DOMAIN topic : i \in DOMAIN topic' /\ topic'[i] = topic[i]
  <1>1. CASE topic' = topic
    BY <1>1
  <1>2. CASE topic' # topic
    <2>1. PICK m \in FlowMessages : topic' = Append(topic, m)
      BY <1>2, MessageAdded
    <2>2. /\ Len(topic) \in Nat /\ DOMAIN topic = 1..Len(topic)
          /\ topic' \in Seq(FlowMessages) /\ DOMAIN topic' = 1..(Len(topic) + 1)
          /\ \A i \in 1..Len(topic) : topic'[i] = topic[i]
      BY <2>1, AppendProperties, LenProperties
    <2> QED BY <2>2
  <1> QED BY <1>1, <1>2

LEMMA TownBesideMarket ==
  ASSUME TypeInv, TradesFit, TownInv, [Next]_vars, UNCHANGED townVars
  PROVE  TownInv'
  <1>1. topic \in Seq(FlowMessages)
    BY DEF TownInv, TP!SettleInv, TP!TypeOK
  <1>2. /\ topic' \in Seq(FlowMessages)
        /\ \A i \in DOMAIN topic : i \in DOMAIN topic' /\ topic'[i] = topic[i]
    BY <1>1, TopicGrows
  <1>3. Len(topic) <= Len(topic')
    <2>1. /\ DOMAIN topic = 1..Len(topic) /\ DOMAIN topic' = 1..Len(topic')
          /\ Len(topic) \in Nat /\ Len(topic') \in Nat
      BY <1>1, <1>2, LenProperties
    <2>2. CASE Len(topic) = 0
      BY <2>1, <2>2
    <2>3. CASE Len(topic) # 0
      BY <1>2, <2>1, <2>3
    <2> QED BY <2>2, <2>3
  <1>4. UNCHANGED <<owner, position, committed, skipped, TP!letterVars, TP!dbVars, TP!sessionVars,
                    TP!tickVars, faults, replays>>
    BY DEF townVars, TP!letterVars, TP!dbVars, TP!sessionVars, TP!tickVars
  <1> QED BY <1>2, <1>3, <1>4, TownConstants, TP!TopicGrows DEF TownInv

LEMMA TownNext ==
  ASSUME TownInv, [TP!Consume]_(TP!vars)
  PROVE  TownInv'
  BY TownConstants, TP!TypeNext, TP!PlaceNext, TP!OffsetsFitNext, TP!ReadNext, TP!ForgetNext
  DEF TownInv, TP!SettleInv

LEMMA TownTopic == TownInv => topic \in Seq(FlowMessages)
  BY DEF TownInv, TP!SettleInv, TP!TypeOK

LEMMA FlowNextKeeps ==
  ASSUME FlowInv, [FlowNext]_<<vars, townVars>>
  PROVE  FlowInv'
  <1>1. CASE [Next]_vars /\ UNCHANGED townVars
    BY <1>1, TypeNext, ReportNext, TradesNext, TownBesideMarket DEF FlowInv
  <1>2. CASE UNCHANGED vars /\ [TP!Consume]_(TP!vars)
    <2>1. [Next]_vars
      BY <1>2
    <2> QED BY <1>2, <2>1, TypeNext, ReportNext, TradesNext, TownNext DEF FlowInv
  <1> QED BY <1>1, <1>2, FlowSteps, TownTopic DEF FlowInv

LEMMA FlowInitHolds == FlowInit => FlowInv
  <1> SUFFICES ASSUME FlowInit PROVE FlowInv
    OBVIOUS
  <1>1. TypeInv /\ TradesFit
    BY TypeInit, TradesInit DEF FlowInit
  <1>2. ReportInv
    BY ReportInit DEF FlowInit
  <1>3. TP!SettleInv
    BY TownConstants, SameTown, TP!SettleInit DEF FlowInit
  <1> QED BY <1>1, <1>2, <1>3 DEF FlowInv, TownInv

LEMMA FlowInvariant == FlowSpec => []FlowInv
  BY FlowInitHolds, FlowNextKeeps, PTL DEF FlowSpec

\* The market does not see the town.
LEMMA FlowIsMarket == FlowSpec => Spec
  <1>1. FlowInit => Init
    BY DEF FlowInit
  <1>2. FlowInv /\ [FlowNext]_<<vars, townVars>> => [Next]_vars
    BY FlowSteps, TownTopic DEF FlowInv
  <1> QED BY FlowInvariant, <1>1, <1>2, PTL DEF FlowSpec, Spec

\* Beside a town that reads its messages, the market is still an atomic price-time exchange.
THEOREM FlowIsExchange == FlowSpec => ExchangeSpec
  BY FlowIsMarket, ImplementsExchange, PTL

\* The topic grows while the group reads it: still a committed offset leaves no message behind.
THEOREM GrowingTopicForgetsNothing == FlowSpec => []Town!NothingForgotten
  <1>1. TownInv => Town!NothingForgotten
    BY DEF TownInv, TP!SettleInv, TP!NothingForgotten, TP!Key, TP!Settled, TP!Part,
           Town!NothingForgotten, Town!Key, Town!Settled, Town!Part
  <1>2. FlowInv => TownInv
    BY DEF FlowInv
  <1> QED BY FlowInvariant, <1>1, <1>2, PTL

-----------------------------------------------------------------------------
\* The gold that the session of a single consumer has read is current, whatever the market does.
LEMMA FreshBesideMarket ==
  ASSUME TP!FreshInv, UNCHANGED townVars
  PROVE  TP!FreshInv'
  <1>1. UNCHANGED <<ticks, tick, townPc, snap, gold, hand>>
    BY DEF townVars
  <1> QED BY <1>1 DEF TP!FreshInv, TP!NoTick

LEMMA FreshInitHolds == FlowInit => TP!FreshInv
  BY DEF FlowInit, Town!Init, Town!NoTick, TP!FreshInv, TP!NoTick

LEMMA FlowFreshNext ==
  ASSUME TP!Alone, FlowInv, TP!FreshInv, [FlowNext]_<<vars, townVars>>
  PROVE  TP!FreshInv'
  <1>1. CASE [Next]_vars /\ UNCHANGED townVars
    BY <1>1, FreshBesideMarket
  <1>2. CASE UNCHANGED vars /\ [TP!Next]_(TP!vars)
    BY <1>2, TownConstants, TP!FreshNext DEF FlowInv, TownInv
  <1> QED BY <1>1, <1>2, FlowSteps, TownTopic DEF FlowInv

\* The whole flow, from the handlers to the wallets, moves each counterparty's gold exactly once
\* for each pair of a trade number and an NPC, when a single session writes gold.
THEOREM FlowAppliesExactlyOnce == TP!Alone => (FlowSpec => Accounts)
  <1> SUFFICES ASSUME TP!Alone PROVE FlowSpec => Accounts
    OBVIOUS
  <1>1. FlowInit => Town!Book!Init
    BY TownConstants DEF FlowInit, Town!Init, Town!Book!Init, Town!Settled
  <1>2. ASSUME FlowInv, TP!FreshInv, [FlowNext]_<<vars, townVars>>
        PROVE  [Town!Book!Next]_(Town!Book!bookVars)
    <2>1. CASE UNCHANGED townVars
      BY <2>1 DEF townVars, Town!Book!bookVars, Town!Settled, Town!Key
    <2>2. CASE [TP!Next]_(TP!vars)
      <3>1. [TP!Book!Next]_(TP!Book!bookVars)
        BY <1>2, <2>2, TownConstants, TP!StepApplies DEF FlowInv, TownInv
      <3> QED BY <3>1 DEF TP!Book!Next, TP!Book!bookVars, TP!Book!Apply, TP!Book!Key,
                          TP!Book!Stored, TP!Book!Half, TP!Settled, TP!Key,
                          Town!Book!Next, Town!Book!bookVars, Town!Book!Apply, Town!Book!Key,
                          Town!Book!Stored, Town!Book!Half, Town!Settled, Town!Key
    <2> QED BY <1>2, <2>1, <2>2, FlowSteps, TownTopic DEF FlowInv
  <1>3. FlowInv /\ TP!FreshInv /\ [FlowNext]_<<vars, townVars>> =>
          TP!FreshInv' /\ [Town!Book!Next]_(Town!Book!bookVars)
    BY <1>2, FlowFreshNext
  <1> QED BY FlowInvariant, FreshInitHolds, <1>1, <1>3, PTL
          DEF FlowSpec, Accounts, Town!ExactlyOnce, Town!Book!AccountBookSpec

-----------------------------------------------------------------------------
(***************************************************************************)
(* Every message has a trade behind it, as long as the market's process    *)
(* lives: the tapes die with it, and a message of a trade nobody knows any *)
(* more still settles.                                                     *)
(***************************************************************************)

\* Every message that is anywhere: in the topic, in the hands of a consumer, among the dead
\* letters, given up, or in the ledger.
Circulating ==
  Range(topic) \union dlq \union lost \union ledger
    \union {hand[p] : p \in {q \in Processes : townPc[q] # "poll"}}

OfTrade(m) == \E t \in AllTrades : m \in MessagesOf(t)

Traced == \A m \in Circulating : OfTrade(m)

\* Without a restart the tapes only grow.
LEMMA TradesKept ==
  ASSUME MaxRestarts = 0, TypeInv, [Next]_vars
  PROVE  ~Restart /\ AllTrades \subseteq AllTrades'
  <1>1. ~Restart
    BY DEF Restart, TypeInv, TypeOK
  <1> QED BY <1>1, TradeSteps

\* The town makes no message of its own.
LEMMA TownOnlyPassesOn ==
  ASSUME TownInv, [TP!Consume]_(TP!vars)
  PROVE  Circulating' \subseteq Circulating
  <1> USE DEF TP!groupVars, TP!letterVars, TP!dbVars, TP!sessionVars, TP!tickVars
  <1> DEFINE Busy == {q \in Processes : townPc[q] # "poll"}
  <1>1. topic' = topic /\ \A i \in DOMAIN topic : topic[i] \in Circulating
    BY TownConstants, TP!RecordsGrow DEF Circulating, Range
  <1>2. \A p \in Busy : hand[p] \in Circulating
    BY DEF Circulating
  <1>3. dlq \subseteq Circulating /\ lost \subseteq Circulating /\ ledger \subseteq Circulating
    BY DEF Circulating
  <1>4. townPc \in [Processes -> {"poll", "read", "commit", "dead", "hung"}]
        /\ hand \in [Processes -> FlowMessages \union {None}]
    BY DEF TownInv, TP!SettleInv, TP!TypeOK
  <1> DEFINE Kept == /\ dlq' \subseteq Circulating /\ lost' \subseteq Circulating
                     /\ ledger' \subseteq Circulating
                     /\ \A q \in Processes : townPc'[q] # "poll" => hand'[q] \in Circulating
  <1>5. Kept => Circulating' \subseteq Circulating
    BY <1>1 DEF Circulating, Range
  <1> HIDE DEF Circulating
  <1>6. ASSUME NEW p \in Processes, TP!Fetch(p) PROVE Kept
    <2>1. PICK i \in DOMAIN topic : hand' = [hand EXCEPT ![p] = topic[i]]
      BY <1>6 DEF TP!Fetch, TP!Ahead
    <2>2. townPc' = [townPc EXCEPT ![p] = "read"] /\ UNCHANGED <<dlq, lost, ledger>>
      BY <1>6 DEF TP!Fetch
    <2> QED BY <1>1, <1>2, <1>3, <1>4, <2>1, <2>2
  <1>7. ASSUME NEW p \in Processes, TP!Replay(p) PROVE Kept
    <2>1. PICK m \in dlq : hand' = [hand EXCEPT ![p] = m]
      BY <1>7 DEF TP!Replay
    <2>2. townPc' = [townPc EXCEPT ![p] = "read"] /\ UNCHANGED <<dlq, lost, ledger>>
      BY <1>7 DEF TP!Replay
    <2> QED BY <1>2, <1>3, <1>4, <2>1, <2>2
  <1>8. ASSUME NEW p \in Processes,
               TP!Skip(p) \/ TP!Commit(p) \/ TP!DeadLetter(p) \/ TP!Crash(p)
        PROVE  Kept
    <2>1. \/ townPc' = [townPc EXCEPT ![p] = "poll"] /\ hand' = [hand EXCEPT ![p] = None]
          \/ townPc' = [townPc EXCEPT ![p] = "hung"] /\ hand' = hand /\ townPc[p] = "dead"
      BY <1>8 DEF TP!Skip, TP!Commit, TP!DeadLetter, TP!Crash, TP!Finish
    <2>2. \A q \in Processes : townPc'[q] # "poll" => hand'[q] = hand[q] /\ townPc[q] # "poll"
      BY <1>4, <2>1
    <2>3. \/ UNCHANGED <<dlq, lost, ledger>>
          \/ /\ townPc[p] # "poll" /\ dlq' \subseteq dlq \union {hand[p]}
             /\ lost' \subseteq lost \union {hand[p]} /\ ledger' \subseteq ledger \union {hand[p]}
      <3>1. CASE TP!Skip(p) \/ TP!Commit(p)
        BY <3>1 DEF TP!Skip, TP!Commit
      <3>2. CASE TP!DeadLetter(p)
        BY <3>2 DEF TP!DeadLetter
      <3>3. CASE TP!Crash(p)
        BY <3>3 DEF TP!Crash
      <3> QED BY <1>8, <3>1, <3>2, <3>3
    <2> QED BY <1>2, <1>3, <2>2, <2>3
  <1>9. ASSUME NEW p \in Processes,
               TP!Read(p) \/ TP!Raise(p) \/ TP!Emission(p) \/ TP!AutoCommit(p) \/ TP!Rebalance(p)
        PROVE  Kept
    <2>1. /\ \A q \in Processes : townPc'[q] # "poll" => hand'[q] = hand[q] /\ townPc[q] # "poll"
          /\ UNCHANGED <<dlq, lost, ledger>>
      BY <1>4, <1>9 DEF TP!Read, TP!Raise, TP!Emission, TP!AutoCommit, TP!CommitPositions,
                        TP!Rebalance, TP!Finish
    <2> QED BY <1>2, <1>3, <2>1
  <1>10. ASSUME TP!TickRead \/ TP!TickWrite \/ UNCHANGED TP!vars PROVE Kept
    <2>1. UNCHANGED <<dlq, lost, ledger, townPc, hand>>
      BY <1>10 DEF TP!TickRead, TP!TickWrite, TP!vars
    <2> QED BY <1>2, <1>3, <2>1
  <1> QED BY <1>5, <1>6, <1>7, <1>8, <1>9, <1>10 DEF TP!Consume, TP!Handle

LEMMA TracedNext ==
  ASSUME MaxRestarts = 0, FlowInv, Traced, [FlowNext]_<<vars, townVars>>
  PROVE  Traced'
  <1>1. CASE [Next]_vars /\ UNCHANGED townVars
    <2>1. AllTrades \subseteq AllTrades'
      BY <1>1, TradesKept DEF FlowInv
    <2>2. \A m : OfTrade(m) => OfTrade(m)'
      BY <2>1 DEF OfTrade
    <2>3. ASSUME NEW m \in Circulating', m \notin Circulating PROVE OfTrade(m)
      <3>1. UNCHANGED <<dlq, lost, ledger, townPc, hand>>
        BY <1>1 DEF townVars
      <3>2. m \in Range(topic') /\ m \notin Range(topic)
        BY <2>3, <3>1 DEF Circulating
      <3>3. topic' # topic
        BY <3>2
      <3>4. PICK t \in AllTrades : \E x \in MessagesOf(t) : x \in FlowMessages /\ topic' = Append(topic, x)
        BY <1>1, <3>3, MessageAdded DEF FlowInv
      <3>5. PICK x \in MessagesOf(t) : x \in FlowMessages /\ topic' = Append(topic, x)
        BY <3>4
      <3>6. Range(topic') = Range(topic) \union {x}
        BY <3>5, RangeAppend DEF FlowInv, TownInv, TP!SettleInv, TP!TypeOK
      <3> QED BY <3>2, <3>5, <3>6 DEF OfTrade
    <2> QED BY <2>2, <2>3 DEF Traced
  <1>2. CASE UNCHANGED vars /\ [TP!Consume]_(TP!vars)
    <2>1. AllTrades' = AllTrades
      BY <1>2 DEF vars, bookVars, AllTrades
    <2>2. Circulating' \subseteq Circulating
      BY <1>2, TownOnlyPassesOn DEF FlowInv
    <2> QED BY <2>1, <2>2 DEF Traced, OfTrade
  <1> QED BY <1>1, <1>2, FlowSteps, TownTopic DEF FlowInv

LEMMA TracedInit == FlowInit => Traced
  <1> SUFFICES ASSUME FlowInit PROVE Circulating = {}
    BY DEF Traced
  <1>1. Range(topic) = {}
    BY DEF FlowInit, Init, Range
  <1> QED BY <1>1 DEF FlowInit, Town!Init, Circulating

\* While the market's process lives, no gold moves without a trade: redelivery, dead letters
\* and replays never put a row into the ledger that is not one side of a trade on a tape.
THEOREM RowsHaveTrades == MaxRestarts = 0 => (FlowSpec => []NoGoldWithoutTrade)
  <1> SUFFICES ASSUME MaxRestarts = 0 PROVE FlowSpec => []NoGoldWithoutTrade
    OBVIOUS
  <1>1. FlowInv /\ Traced /\ [FlowNext]_<<vars, townVars>> => Traced'
    BY TracedNext
  <1>2. Traced => NoGoldWithoutTrade
    BY DEF Traced, Circulating, OfTrade, NoGoldWithoutTrade
  <1> QED BY FlowInvariant, TracedInit, <1>1, <1>2, PTL DEF FlowSpec

-----------------------------------------------------------------------------
(***************************************************************************)
(* Buyers buy and sellers sell, from the request to the tape. Where nobody *)
(* does both, the two messages of a trade have different keys.             *)
(***************************************************************************)
TradersKnown ==
  /\ \A h \in Handlers : pc[h] # "idle" => order[h].npc \in Traders(order[h].side)
  /\ \A r \in Resources :
       /\ \A o \in Range(bids[r]) : o.npc \in Buyers
       /\ \A o \in Range(asks[r]) : o.npc \in Sellers
  /\ \A t \in AllTrades : t.buyer \in Buyers /\ t.seller \in Sellers

\* A trade leaves the orders on a slice with their owners.
LEMMA TakeKeepsOwners ==
  ASSUME NEW s \in Seq(Orders), s # <<>>, NEW q \in Nat \ {0}, q <= s[1].qty,
         NEW S, \A o \in Range(s) : o.npc \in S
  PROVE  s[1].npc \in S /\ \A o \in Range(TakeFromHead(s, q)) : o.npc \in S
  <1> DEFINE t == TakeFromHead(s, q)
  <1>1. /\ Len(s) \in Nat /\ 1 \in 1..Len(s) /\ s[1] \in Orders
        /\ \A j \in 1..Len(s) : s[j].npc \in S
    BY LenProperties, ElementOfSeq, EmptySeq DEF Range
  <1>2. /\ t \in Seq(Orders)
        /\ s[1].qty <= q =>
             /\ Len(t) = Len(s) - 1
             /\ \A j \in 1..Len(t) : t[j] = s[j + 1]
        /\ ~(s[1].qty <= q) =>
             /\ Len(t) = Len(s)
             /\ t[1] = [s[1] EXCEPT !.qty = @ - q]
             /\ \A j \in 2..Len(s) : t[j] = s[j]
    BY OrdersOrderSet, TakeFromHeadProperties
  <1>3. DOMAIN t = 1..Len(t) /\ Len(t) \in Nat
    BY <1>2, LenProperties
  <1> HIDE DEF t
  <1>4. ASSUME NEW j \in 1..Len(t) PROVE t[j].npc \in S
    <2>1. CASE s[1].qty <= q
      <3>1. j + 1 \in 1..Len(s) /\ t[j] = s[j + 1]
        BY <1>1, <1>2, <2>1
      <3> QED BY <1>1, <3>1
    <2>2. CASE ~(s[1].qty <= q) /\ j = 1
      <3>1. t[1].npc = s[1].npc
        BY <1>1, <1>2, <2>2 DEF Orders
      <3> QED BY <1>1, <2>2, <3>1
    <2>3. CASE ~(s[1].qty <= q) /\ j # 1
      <3>1. j \in 2..Len(s) /\ j \in 1..Len(s)
        BY <1>1, <1>2, <2>3
      <3> QED BY <1>1, <1>2, <2>3, <3>1
    <2> QED BY <2>1, <2>2, <2>3
  <1> QED BY <1>1, <1>3, <1>4 DEF Range, t

LEMMA TradersNext ==
  ASSUME TypeInv, TradersKnown, [Next]_vars
  PROVE  TradersKnown'
  <1>1. /\ pc \in [Handlers -> Stages] /\ DOMAIN order = Handlers
        /\ bids \in [Resources -> Seq(Orders)] /\ asks \in [Resources -> Seq(Orders)]
    BY DEF TypeInv, TypeOK
  <1> DEFINE Requested == \A h \in Handlers : pc[h] # "idle" => order[h].npc \in Traders(order[h].side)
             OnBook(r) == /\ \A o \in Range(bids[r]) : o.npc \in Buyers
                          /\ \A o \in Range(asks[r]) : o.npc \in Sellers
             Done == \A t \in AllTrades : t.buyer \in Buyers /\ t.seller \in Sellers
  <1>2. Requested /\ (\A r \in Resources : OnBook(r)) /\ Done
    BY DEF TradersKnown
  <1>3. tape' = tape => Done'
    BY <1>2 DEF AllTrades
  <1>4. UNCHANGED <<bids, asks>> => \A r \in Resources : OnBook(r)'
    BY <1>2
  <1>5. ASSUME NEW h \in Handlers, PlaceInBook(h) PROVE TradersKnown'
    <2> DEFINE r == order[h].resource
               o == Stamped(h)
    <2>1. /\ r \in Resources /\ o \in Orders /\ pc[h] = "place" /\ tape' = tape /\ order' = order
          /\ pc' = [pc EXCEPT ![h] = "match"]
          /\ \/ /\ o.side = "BID" /\ asks' = asks
                /\ \E i \in Places("BID", bids[r], o) :
                     bids' = [bids EXCEPT ![r] = InsertAt(@, i, o)]
             \/ /\ o.side = "ASK" /\ bids' = bids
                /\ \E i \in Places("ASK", asks[r], o) :
                     asks' = [asks EXCEPT ![r] = InsertAt(@, i, o)]
      BY <1>5, PlaceInBookStep
    <2>2. o.npc \in Traders(o.side)
      BY <1>2, <2>1 DEF Stamped
    <2> HIDE DEF r, o
    <2>3. ASSUME NEW x \in Resources PROVE OnBook(x)'
      <3>1. CASE o.side = "BID" /\ asks' = asks
        <4>1. PICK i \in Places("BID", bids[r], o) : bids' = [bids EXCEPT ![r] = InsertAt(@, i, o)]
          BY <2>1, <3>1
        <4>2. Range(InsertAt(bids[r], i, o)) = Range(bids[r]) \union {o}
          BY <1>1, <2>1, <4>1, InsertAtRange DEF Places
        <4>3. o.npc \in Buyers
          BY <2>2, <3>1 DEF Traders
        <4> QED BY <1>1, <1>2, <2>1, <3>1, <4>1, <4>2, <4>3
      <3>2. CASE o.side = "ASK" /\ bids' = bids
        <4>1. PICK i \in Places("ASK", asks[r], o) : asks' = [asks EXCEPT ![r] = InsertAt(@, i, o)]
          BY <2>1, <3>2
        <4>2. Range(InsertAt(asks[r], i, o)) = Range(asks[r]) \union {o}
          BY <1>1, <2>1, <4>1, InsertAtRange DEF Places
        <4>3. o.npc \in Sellers
          BY <2>2, <3>2 DEF Traders
        <4> QED BY <1>1, <1>2, <2>1, <3>2, <4>1, <4>2, <4>3
      <3> QED BY <2>1, <3>1, <3>2
    <2>4. Requested'
      BY <1>1, <1>2, <2>1
    <2> QED BY <1>3, <2>1, <2>3, <2>4 DEF TradersKnown
  <1>6. ASSUME NEW h \in Handlers, Fill(h) PROVE TradersKnown'
    <2> DEFINE r == order[h].resource
               t == NextTrade(r)
    <2>1. /\ r \in Resources
          /\ bids[r] \in Seq(Orders) /\ bids[r] # <<>>
          /\ asks[r] \in Seq(Orders) /\ asks[r] # <<>>
          /\ t.qty \in Nat \ {0} /\ t.qty <= bids[r][1].qty /\ t.qty <= asks[r][1].qty
          /\ bids' = [bids EXCEPT ![r] = TakeFromHead(@, t.qty)]
          /\ asks' = [asks EXCEPT ![r] = TakeFromHead(@, t.qty)]
          /\ pc' = pc /\ order' = order
      BY <1>6, FillStep
    <2>2. t.buyer = bids[r][1].npc /\ t.seller = asks[r][1].npc
      BY DEF NextTrade
    <2>3. AllTrades' = AllTrades \union {t}
      BY <1>6, FillAddsTrade
    <2> HIDE DEF r, t
    <2>4. /\ bids[r][1].npc \in Buyers
          /\ \A o \in Range(TakeFromHead(bids[r], t.qty)) : o.npc \in Buyers
      BY <1>2, <2>1, TakeKeepsOwners
    <2>5. /\ asks[r][1].npc \in Sellers
          /\ \A o \in Range(TakeFromHead(asks[r], t.qty)) : o.npc \in Sellers
      BY <1>2, <2>1, TakeKeepsOwners
    <2>6. ASSUME NEW x \in Resources PROVE OnBook(x)'
      BY <1>1, <1>2, <2>1, <2>4, <2>5
    <2>7. Done'
      BY <1>2, <2>2, <2>3, <2>4, <2>5
    <2>8. Requested'
      BY <1>2, <2>1
    <2> QED BY <2>6, <2>7, <2>8 DEF TradersKnown
  <1>7. ASSUME NEW h \in Handlers, Step(h), ~PlaceInBook(h), ~Fill(h) PROVE TradersKnown'
    <2>1. UNCHANGED <<bids, asks, tape>>
      BY <1>7, BooksAlone
    <2>2. \A g \in Handlers \ {h} : pc'[g] = pc[g] /\ order'[g] = order[g]
      BY <1>1, <1>7 DEF Step, Receive, BeginMatch, EndMatch, Record, Emit
    <2>3. pc'[h] # "idle" => order'[h].npc \in Traders(order'[h].side)
      <3>1. CASE \E req \in Requests : Receive(h, req)
        BY <1>1, <3>1 DEF Receive
      <3>2. CASE BeginMatch(h) \/ EndMatch(h) \/ Record(h) \/ Emit(h)
        <4>1. pc[h] # "idle" /\ (pc'[h] # "idle" => order' = order)
          BY <1>1, <3>2 DEF BeginMatch, EndMatch, Record, Emit
        <4> QED BY <1>2, <4>1
      <3> QED BY <1>7, <3>1, <3>2 DEF Step
    <2>4. Requested'
      BY <1>2, <2>2, <2>3
    <2> QED BY <1>3, <1>4, <2>1, <2>4 DEF TradersKnown
  <1>8. ASSUME Restart PROVE TradersKnown'
    <2>1. Range(<<>>) = {}
      BY EmptySeq DEF Range
    <2> QED BY <1>8, <2>1 DEF Restart, TradersKnown, AllTrades
  <1>9. ASSUME UNCHANGED vars PROVE TradersKnown'
    BY <1>9 DEF vars, bookVars, handlerVars, TradersKnown, AllTrades
  <1> QED BY <1>5, <1>6, <1>7, <1>8, <1>9 DEF Next

LEMMA TradersInit == Init => TradersKnown
  <1>1. Range(<<>>) = {}
    BY EmptySeq DEF Range
  <1> QED BY <1>1 DEF Init, TradersKnown, AllTrades

-----------------------------------------------------------------------------
(***************************************************************************)
(* Both messages of every trade reach the topic: a trade is reported by    *)
(* one handler, which writes its messages one by one.                      *)
(***************************************************************************)

\* The messages that handler h has still to write.
Unsent(h) == {Settlement(fills[h], k) : k \in (emitted[h] + 1)..(2 * Len(fills[h]))}

\* A message of a trade is written, or some handler will write it.
Delivered ==
  \A t \in AllTrades : \A m \in MessagesOf(t) :
    m \in Range(topic) \/ \E h \in Handlers : m \in Unsent(h)

\* The messages of trades come in the order of the trades, and one more trade adds its two at
\* the end.
LEMMA OneMoreTrade ==
  ASSUME NEW ts \in Seq(Trades), NEW t \in Trades
  PROVE  LET us == Append(ts, t)
             n == Len(ts)
         IN  /\ n \in Nat /\ Len(us) = n + 1
             /\ \A k \in 1..(2 * n) : Settlement(us, k) = Settlement(ts, k)
             /\ MessagesOf(t) = {Settlement(us, 2 * n + 1), Settlement(us, 2 * n + 2)}
  <1> DEFINE us == Append(ts, t)
             n == Len(ts)
  <1>1. /\ n \in Nat /\ Len(us) = n + 1 /\ us[n + 1] = t
        /\ \A i \in 1..n : us[i] = ts[i]
    BY AppendProperties, LenProperties
  <1> HIDE DEF us, n
  <1>2. ASSUME NEW k \in 1..(2 * n) PROVE Settlement(us, k) = Settlement(ts, k)
    <2>1. (k + 1) \div 2 \in 1..n
      BY <1>1
    <2> QED BY <1>1, <2>1 DEF Settlement
  <1>3. /\ (2 * n + 1 + 1) \div 2 = n + 1 /\ (2 * n + 1) % 2 = 1
        /\ (2 * n + 2 + 1) \div 2 = n + 1 /\ (2 * n + 2) % 2 = 0
    BY <1>1
  <1>4. /\ Settlement(us, 2 * n + 1) =
             [npc |-> t.buyer, delta |-> -(t.price * t.qty), resource |-> t.resource, trade |-> t.id]
        /\ Settlement(us, 2 * n + 2) =
             [npc |-> t.seller, delta |-> t.price * t.qty, resource |-> t.resource, trade |-> t.id]
    BY <1>1, <1>3 DEF Settlement
  <1>5. MessagesOf(t) = {Settlement(us, 2 * n + 1), Settlement(us, 2 * n + 2)}
    BY <1>4 DEF MessagesOf
  <1> QED BY <1>1, <1>2, <1>5 DEF us, n

LEMMA DeliveredNext ==
  ASSUME MaxRestarts = 0, ~EmitMayFail, TypeInv, TradesFit, Delivered, [Next]_vars,
         topic \in Seq(FlowMessages)
  PROVE  Delivered'
  <1>1. /\ fills \in [Handlers -> Seq(Trades)] /\ emitted \in [Handlers -> Nat]
        /\ \A h \in Handlers : Len(fills[h]) \in Nat
        /\ \A h \in Handlers : pc[h] # "emit" => emitted[h] = 0
    BY LenProperties DEF TypeInv, TypeOK, MoreToEmit
  <1>2. Range(topic) \subseteq Range(topic')
    BY TopicGrows DEF Range
  <1>3. ASSUME NEW h \in Handlers, Fill(h) PROVE Delivered'
    <2> DEFINE t == NextTrade(order[h].resource)
               ts == fills[h]
               us == Append(ts, t)
               n == Len(ts)
    <2>1. /\ t \in Trades /\ AllTrades' = AllTrades \union {t}
          /\ fills' = [fills EXCEPT ![h] = Append(@, t)] /\ emitted' = emitted /\ emitted[h] = 0
      BY <1>1, <1>3, FillAddsTrade DEF Fill
    <2> HIDE DEF t
    <2>2. /\ n \in Nat /\ Len(us) = n + 1
          /\ \A k \in 1..(2 * n) : Settlement(us, k) = Settlement(ts, k)
          /\ MessagesOf(t) = {Settlement(us, 2 * n + 1), Settlement(us, 2 * n + 2)}
      BY <1>1, <2>1, OneMoreTrade
    <2>3. fills'[h] = us /\ emitted'[h] = 0 /\ \A g \in Handlers \ {h} : fills'[g] = fills[g]
      BY <1>1, <2>1
    <2>4. Unsent(h)' = {Settlement(us, k) : k \in 1..(2 * Len(us))}
      BY <2>3 DEF Unsent
    <2>5. Unsent(h) = {Settlement(ts, k) : k \in 1..(2 * n)}
      BY <2>1 DEF Unsent
    <2> HIDE DEF us, ts
    <2>6. Unsent(h) \subseteq Unsent(h)'
      <3>1. \A k \in 1..(2 * n) : k \in 1..(2 * Len(us))
        BY <2>2
      <3> QED BY <2>2, <2>4, <2>5, <3>1
    <2>7. MessagesOf(t) \subseteq Unsent(h)'
      <3>1. 2 * n + 1 \in 1..(2 * Len(us)) /\ 2 * n + 2 \in 1..(2 * Len(us))
        BY <2>2
      <3> QED BY <2>2, <2>4, <3>1
    <2>8. \A g \in Handlers \ {h} : Unsent(g)' = Unsent(g)
      BY <2>1, <2>3 DEF Unsent
    <2>9. \A m : m \in Range(topic) \/ (\E g \in Handlers : m \in Unsent(g))
                   => m \in Range(topic') \/ \E g \in Handlers : m \in Unsent(g)'
      BY <1>2, <2>6, <2>8
    <2> QED BY <2>1, <2>7, <2>9 DEF Delivered
  <1>4. ASSUME NEW h \in Handlers, Emit(h) PROVE Delivered'
    <2> DEFINE k == emitted[h] + 1
               m == Settlement(fills[h], k)
    <2>1. /\ k \in 1..(2 * Len(fills[h])) /\ fills[h] \in Seq(Trades)
          /\ topic' = Append(topic, m) /\ tape' = tape
      BY <1>4, NextMessage DEF Emit, bookVars
    <2>2. m \in FlowMessages
      <3>1. PICK t \in Range(fills[h]) : m \in MessagesOf(t)
        BY <2>1, SentOfTrade
      <3> QED BY <3>1, TapeTrades, MessageTypes DEF TradesFit
    <2>3. m \in Range(topic')
      BY <2>1, <2>2, RangeAppend
    <2>4. Unsent(h) \subseteq {m} \union Unsent(h)'
      <3>1. CASE k = TwoPerTrade(fills[h])
        <4>1. \A j \in (emitted[h] + 1)..(2 * Len(fills[h])) : j = k
          <5>1. 2 * Len(fills[h]) = emitted[h] + 1 /\ emitted[h] \in Nat
            BY <1>1, <3>1 DEF TwoPerTrade
          <5>2. \A e \in Nat : \A j \in (e + 1)..(e + 1) : j = e + 1
            OBVIOUS
          <5> QED BY <5>1, <5>2
        <4> QED BY <4>1 DEF Unsent
      <3>2. CASE k # TwoPerTrade(fills[h])
        <4>1. fills'[h] = fills[h] /\ emitted'[h] = k
          BY <1>1, <1>4, <3>2 DEF Emit
        <4>2. \A j \in (emitted[h] + 1)..(2 * Len(fills[h])) :
                j = k \/ j \in (k + 1)..(2 * Len(fills[h]))
          BY <1>1
        <4> QED BY <4>1, <4>2 DEF Unsent
      <3> QED BY <3>1, <3>2
    <2>5. \A g \in Handlers \ {h} : fills'[g] = fills[g] /\ emitted'[g] = emitted[g]
      BY <1>1, <1>4 DEF Emit
    <2>6. \A g \in Handlers \ {h} : Unsent(g)' = Unsent(g)
      BY <2>5 DEF Unsent
    <2> HIDE DEF m
    <2>7. \A x : x \in Range(topic) \/ (\E g \in Handlers : x \in Unsent(g))
                   => x \in Range(topic') \/ \E g \in Handlers : x \in Unsent(g)'
      BY <1>2, <2>3, <2>4, <2>6
    <2>8. AllTrades' = AllTrades
      BY <2>1 DEF AllTrades
    <2> QED BY <2>7, <2>8 DEF Delivered
  <1>5. ASSUME NEW h \in Handlers, Step(h), ~Fill(h), ~Emit(h) PROVE Delivered'
    <2>1. UNCHANGED <<fills, emitted, topic, tape>>
      BY <1>5 DEF Step, Receive, PlaceInBook, BeginMatch, EndMatch, Record, bookVars
    <2> QED BY <2>1 DEF Delivered, Unsent, AllTrades
  <1>6. ASSUME UNCHANGED vars PROVE Delivered'
    BY <1>6 DEF vars, bookVars, handlerVars, Delivered, Unsent, AllTrades
  <1>7. ~Restart
    BY TradesKept
  <1> QED BY <1>3, <1>4, <1>5, <1>6, <1>7 DEF Next

LEMMA DeliveredInit == Init => Delivered
  <1>1. Range(<<>>) = {}
    BY EmptySeq DEF Range
  <1> QED BY <1>1 DEF Init, Delivered, AllTrades

-----------------------------------------------------------------------------
(***************************************************************************)
(* End to end. One resource, so that trade numbers do not collide; nobody  *)
(* who buys and sells, so that the two messages of a trade have two keys;  *)
(* no restart of the market; one session that writes gold. Then, in a      *)
(* quiet state, the rows of an NPC none of whose messages went astray are  *)
(* the messages of its trades, and add up to what the trades add up to.    *)
(***************************************************************************)
DistinctKeys ==
  /\ \A r, s \in Resources : r = s
  /\ Buyers \intersect Sellers = {}

\* The rows are what moved gold, whatever the market does.
LEMMA LedgerBesideMarket ==
  ASSUME TP!LedgerInv, UNCHANGED townVars
  PROVE  TP!LedgerInv'
  <1>1. UNCHANGED <<ledger, gold, earned>>
    BY DEF townVars
  <1> QED BY <1>1 DEF TP!LedgerInv, TP!GoldMatchesLedger, TP!Near, TP!Credited, TP!RowsOf

\* With one book, the number of a trade says which trade it is, and its buyer is not its seller.
LEMMA TradesDiffer ==
  ASSUME DistinctKeys, TypeInv, TradesFit, TradersKnown, NEW t \in AllTrades
  PROVE  /\ t \in FlowTrades /\ t.buyer # t.seller
         /\ \A u \in AllTrades : u.id = t.id => u = t
  <1>1. t \in FlowTrades /\ t.buyer # t.seller
    BY TapeTrades DEF TradersKnown, DistinctKeys
  <1>2. ASSUME NEW u \in AllTrades, u.id = t.id PROVE u = t
    <2>1. u.resource \in Resources /\ t.resource \in Resources /\ u.resource = t.resource
      BY TapeTrades DEF FlowTrades, DistinctKeys
    <2> QED BY <1>2, <2>1, TapeTrades
  <1> QED BY <1>1, <1>2

\* Every handler has answered, so what no write failed for is in the topic.
LEMMA QuietPublished ==
  ASSUME Quiet, FlowInv, NEW n \in NPCs, EmitMayFail => Published(n), EmitMayFail \/ Delivered
  PROVE  Published(n)
  <1>1. ASSUME NEW h \in Handlers PROVE Unsent(h) = {}
    <2>1. fills[h] = <<>> /\ emitted[h] = 0
      BY DEF Quiet, FlowInv, ReportInv, TypeInv, MoreToEmit
    <2>2. \A k \in (0 + 1)..(2 * 0) : FALSE
      OBVIOUS
    <2> QED BY <2>1, <2>2, EmptySeq DEF Unsent
  <1> QED BY <1>1 DEF Delivered, Published

\* The group has read every message; one that did not go astray has its pair in the ledger.
LEMMA QuietSettled ==
  ASSUME Quiet, FlowInv, NEW m \in Range(topic), m \notin Astray
  PROVE  \E row \in ledger : TP!Key(row) = TP!Key(m)
  <1>1. PICK i \in DOMAIN topic : topic[i] = m
    BY DEF Range
  <1>2. /\ i \in Nat \ {0} /\ m \in FlowMessages /\ TP!Part(i) \in Partitions
        /\ position[TP!Part(i)] \in Nat /\ owner[TP!Part(i)] \in Processes
    BY <1>1, TownConstants, TP!PartType DEF FlowInv, TownInv, TP!SettleInv
  <1>3. \A p \in Processes : townPc[p] = "poll" /\ at[p] = 0
    BY DEF Quiet, FlowInv, TownInv, TP!SettleInv, TP!HandMatchesPlace
  <1>4. i <= position[TP!Part(i)]
    <2>1. i \notin Town!Ahead(TP!Part(i))
      BY <1>2 DEF Quiet
    <2>2. ~(i > position[TP!Part(i)])
      BY <1>1, <2>1 DEF Town!Ahead, Town!Part, TP!Part
    <2> QED BY <1>2, <2>2
  <1>5. TP!Handled(i) \/ TP!PassedOver(i)
    <2>1. \/ TP!Handled(i) \/ TP!PassedOver(i)
          \/ i <= committed[TP!Part(i)] \/ at[owner[TP!Part(i)]] = i
      BY <1>4 DEF FlowInv, TownInv, TP!SettleInv, TP!ReadIsHandled
    <2>2. i <= committed[TP!Part(i)] => TP!Handled(i) \/ TP!PassedOver(i)
      BY <1>3 DEF FlowInv, TownInv, TP!SettleInv, TP!NothingForgotten, TP!Handled, TP!PassedOver
    <2> QED BY <1>2, <1>3, <2>1, <2>2
  <1>6. TP!Key(m) \in TP!Settled
    <2>1. m.npc \in NPCs
      BY <1>2, TownConstants
    <2>2. m \in dlq \union lost \union {topic[j] : j \in skipped} => TP!Key(m) \in TP!Settled
      BY SameTown DEF Astray
    <2>3. CASE TP!Handled(i)
      BY <1>1, <2>1, <2>2, <2>3 DEF TP!Handled
    <2>4. CASE TP!PassedOver(i)
      BY <1>1, <2>2, <2>4 DEF TP!PassedOver
    <2> QED BY <1>5, <2>3, <2>4
  <1> QED BY <1>6 DEF TP!Settled

\* In a quiet state the rows of such an NPC are the messages of its trades, no more and no less.
LEMMA QuietLedger ==
  ASSUME DistinctKeys, Quiet, FlowInv, Traced, TradersKnown,
         NEW n \in NPCs, Published(n), \A m \in Astray : m.npc # n
  PROVE  /\ \A t \in AllTrades : \A m \in MessagesOf(t) : m.npc = n => m \in ledger
         /\ \A row \in ledger : \E t \in AllTrades : row \in MessagesOf(t)
  <1>1. \A row \in ledger : \E t \in AllTrades : row \in MessagesOf(t)
    BY DEF Traced, Circulating, OfTrade
  <1>2. ASSUME NEW t \in AllTrades, NEW m \in MessagesOf(t), m.npc = n PROVE m \in ledger
    <2>1. PICK row \in ledger : row.trade = m.trade /\ row.npc = m.npc
      <3>1. m \in Range(topic) /\ m \notin Astray
        BY <1>2 DEF Published
      <3>2. PICK row \in ledger : TP!Key(row) = TP!Key(m)
        BY <3>1, QuietSettled
      <3> QED BY <3>2 DEF TP!Key
    <2>2. PICK u \in AllTrades : row \in MessagesOf(u)
      BY <1>1
    <2>3. m.trade = t.id /\ row.trade = u.id
      BY <2>2 DEF MessagesOf
    <2>4. u = t /\ t.buyer # t.seller
      BY <2>1, <2>3, TradesDiffer DEF FlowInv
    <2> QED BY <2>1, <2>2, <2>4 DEF MessagesOf
  <1> QED BY <1>1, <1>2

\* The two messages of a trade are about different NPCs, so an NPC is on one side at most, and the
\* message of that side says what the trade moves.
LEMMA SideOfTrade ==
  ASSUME DistinctKeys, TypeInv, TradesFit, TradersKnown, NEW t \in AllTrades, NEW n \in NPCs
  PROVE  LET x == t.price * t.qty
             moved == (IF t.seller = n THEN x ELSE 0) - (IF t.buyer = n THEN x ELSE 0)
             m == IF t.seller = n
                  THEN [npc |-> t.seller, delta |-> x, resource |-> t.resource, trade |-> t.id]
                  ELSE [npc |-> t.buyer, delta |-> -x, resource |-> t.resource, trade |-> t.id]
         IN  /\ moved \in Int
             /\ n \notin {t.buyer, t.seller} => moved = 0
             /\ n \in {t.buyer, t.seller} =>
                  m \in MessagesOf(t) /\ m.npc = n /\ m.delta = moved /\ m.trade = t.id
             /\ \A row \in MessagesOf(t) :
                  row.npc = n => n \in {t.buyer, t.seller} /\ row = m
  <1> DEFINE x == t.price * t.qty
  <1>1. t.buyer # t.seller /\ t \in FlowTrades
    BY TradesDiffer
  <1>2. x \in Int
    <2>1. t \in Trades
      <3>1. t.qty \in Nat \ {0} /\ t.id \in Nat \ {0}
        BY <1>1, SizesDown, MarketAssumption DEF FlowTrades
      <3> QED BY <1>1, <3>1 DEF FlowTrades, Trades
    <2> QED BY <2>1, NotionalType
  <1>3. MessagesOf(t) =
          {[npc |-> t.buyer,  delta |-> -x, resource |-> t.resource, trade |-> t.id],
           [npc |-> t.seller, delta |-> x,  resource |-> t.resource, trade |-> t.id]}
    BY DEF MessagesOf
  <1>4. /\ x - 0 = x /\ 0 - x = -x /\ 0 - 0 = 0 /\ -x \in Int
    BY <1>2
  <1> HIDE DEF x
  <1>5. CASE t.seller = n
    BY <1>1, <1>2, <1>3, <1>4, <1>5 DEF x
  <1>6. CASE t.buyer = n
    BY <1>1, <1>2, <1>3, <1>4, <1>6 DEF x
  <1>7. CASE n \notin {t.buyer, t.seller}
    BY <1>1, <1>2, <1>3, <1>4, <1>7 DEF x
  <1> QED BY <1>5, <1>6, <1>7

LEMMA TradesFinite ==
  ASSUME DistinctKeys, TypeInv, TradesFit, TradersKnown
  PROVE  IsFiniteSet(AllTrades)
  <1> DEFINE number == [t \in AllTrades |-> t.id]
  <1>1. \A t \in AllTrades : t.id \in 1..MaxOrders
    BY TradesDiffer DEF FlowTrades
  <1>2. number \in Injection(AllTrades, 1..MaxOrders)
    BY <1>1, TradesDiffer DEF Injection, IsInjective
  <1>3. IsFiniteSet(1..MaxOrders)
    BY MarketAssumption, FS_Interval
  <1> HIDE DEF number
  <1> QED BY <1>2, <1>3, FS_Injection

\* The town adds up as the market does.
LEMMA SameSums ==
  ASSUME NEW f, NEW S
  PROVE  TP!SumFunctionOnSet(f, S) = SumFunctionOnSet(f, S)
  BY DEF TP!SumFunctionOnSet, TP!FoldFunctionOnSet, TP!MapThenFoldSet,
         SumFunctionOnSet, FoldFunctionOnSet, MapThenFoldSet

LEMMA CreditedIsOwed ==
  ASSUME DistinctKeys, Quiet, FlowInv, TP!LedgerInv, Traced, TradersKnown,
         NEW n \in NPCs, Published(n), \A m \in Astray : m.npc # n
  PROVE  TP!Credited(n) = Owed(n)
  <1> DEFINE f == [t \in AllTrades |-> (IF t.seller = n THEN t.price * t.qty ELSE 0)
                                       - (IF t.buyer = n THEN t.price * t.qty ELSE 0)]
             g == [row \in ledger |-> row.delta]
             T == {t \in AllTrades : n \in {t.buyer, t.seller}}
             b == [t \in T |-> IF t.seller = n
                               THEN [npc |-> t.seller, delta |-> t.price * t.qty,
                                     resource |-> t.resource, trade |-> t.id]
                               ELSE [npc |-> t.buyer, delta |-> -(t.price * t.qty),
                                     resource |-> t.resource, trade |-> t.id]]
             R == {row \in ledger : row.npc = n}
  <1>1. IsFiniteSet(AllTrades) /\ IsFiniteSet(T) /\ T \in SUBSET AllTrades
    <2>1. IsFiniteSet(AllTrades)
      BY TradesFinite DEF FlowInv
    <2> QED BY <2>1, FS_Subset
  <1>2. \A t \in AllTrades : f[t] \in Int /\ (t \notin T => f[t] = 0)
    BY SideOfTrade DEF FlowInv
  <1>3. \A t \in T : b[t] \in MessagesOf(t) /\ b[t].npc = n /\ b[t].delta = f[t] /\ b[t].trade = t.id
    BY SideOfTrade DEF FlowInv
  <1>4. \A t \in AllTrades : \A row \in MessagesOf(t) : row.npc = n => t \in T /\ row = b[t]
    BY SideOfTrade DEF FlowInv
  <1>5. Owed(n) = SumFunctionOnSet(f, AllTrades)
    BY DEF Owed, SumFunction
  <1>6. TP!Credited(n) = SumFunctionOnSet(g, R)
    BY SameSums DEF TP!Credited, TP!RowsOf
  <1>7. \A row \in ledger : g[row] = row.delta
    OBVIOUS
  <1>8. /\ \A t \in AllTrades : \A m \in MessagesOf(t) : m.npc = n => m \in ledger
        /\ \A row \in ledger : \E t \in AllTrades : row \in MessagesOf(t)
    BY QuietLedger
  <1>9. \A t, u \in AllTrades : t.id = u.id => t = u
    BY TradesDiffer DEF FlowInv
  <1> HIDE DEF f, g, b
  <1>10. {b[t] : t \in T} = R
    <2>1. ASSUME NEW t \in T PROVE b[t] \in R
      BY <1>3, <1>8
    <2>2. ASSUME NEW row \in R PROVE \E t \in T : row = b[t]
      <3>1. PICK t \in AllTrades : row \in MessagesOf(t)
        BY <1>8
      <3> QED BY <1>4, <3>1
    <2> QED BY <2>1, <2>2
  <1>11. \A t, u \in T : b[t] = b[u] => t = u
    BY <1>3, <1>9
  <1>12. \A t \in T : f[t] \in Int /\ g[b[t]] = f[t]
    BY <1>2, <1>3, <1>7, <1>8
  <1> HIDE DEF T, R
  <1>13. SumFunctionOnSet(f, T) = SumFunctionOnSet(g, {b[t] : t \in T})
    BY <1>1, <1>11, <1>12, SumImage
  <1>14. SumFunctionOnSet(f, AllTrades) = SumFunctionOnSet(f, T)
    BY <1>1, <1>2, SumSupport
  <1> QED BY <1>5, <1>6, <1>10, <1>13, <1>14

LEMMA SameNear ==
  ASSUME NEW n, NEW x
  PROVE  Town!Near(n, x) <=> TP!Near(n, x)
  <1>1. Town!Book!Half = TP!Book!Half /\ Town!RowsOf(n) = TP!RowsOf(n)
    BY DEF Town!Book!Half, TP!Book!Half, Town!RowsOf, TP!RowsOf
  <1>2. Town!Cardinality(TP!RowsOf(n)) = TP!Cardinality(TP!RowsOf(n))
    BY Zenon DEF Town!Cardinality, TP!Cardinality
  <1> QED BY <1>1, <1>2 DEF Town!Near, TP!Near

\* From the order to the wallet: once nothing is on its way, the gold of every NPC none of whose
\* messages went astray has moved by exactly what it bought and sold, to within half a coin
\* for each message, whatever was delivered again, dead-lettered and replayed.
THEOREM WalletsMatchTrades ==
  TP!Alone /\ MaxRestarts = 0 /\ DistinctKeys => (FlowSpec => []GoldMatchesTrades)
  <1> SUFFICES ASSUME TP!Alone, MaxRestarts = 0, DistinctKeys
               PROVE  FlowSpec => []GoldMatchesTrades
    OBVIOUS
  <1> DEFINE Rest == /\ TP!FreshInv /\ TP!LedgerInv /\ Traced /\ TradersKnown
                     /\ EmitMayFail \/ Delivered
  <1>1. FlowInit => Rest
    <2>1. FlowInit => TP!LedgerInv
      BY TownConstants, SameTown, TP!LedgerInit DEF FlowInit
    <2> QED BY <2>1, FreshInitHolds, TracedInit, TradersInit, DeliveredInit DEF FlowInit
  <1>2. ASSUME FlowInv, Rest, [FlowNext]_<<vars, townVars>> PROVE Rest'
    <2>0. topic \in Seq(FlowMessages)
      BY <1>2, TownTopic DEF FlowInv
    <2>1. TP!FreshInv' /\ Traced'
      BY <1>2, FlowFreshNext, TracedNext
    <2>2. [Next]_vars
      BY <1>2, <2>0, FlowSteps
    <2>3. TradersKnown'
      BY <1>2, <2>2, TradersNext DEF FlowInv
    <2>4. EmitMayFail \/ Delivered'
      BY <1>2, <2>0, <2>2, DeliveredNext DEF FlowInv
    <2>5. TP!LedgerInv'
      <3>1. CASE UNCHANGED townVars
        BY <1>2, <3>1, LedgerBesideMarket
      <3>2. CASE [TP!Next]_(TP!vars)
        BY <1>2, <3>2, TownConstants, TP!LedgerNext DEF FlowInv, TownInv
      <3> QED BY <1>2, <2>0, <3>1, <3>2, FlowSteps
    <2> QED BY <2>1, <2>3, <2>4, <2>5
  <1>3. FlowInv /\ Rest => GoldMatchesTrades
    <2> SUFFICES ASSUME FlowInv, Rest, Quiet, NEW n \in NPCs, \A m \in Astray : m.npc # n,
                        EmitMayFail => Published(n)
                 PROVE  Town!Near(n, InitialGold + earned[n] + Owed(n))
      BY DEF GoldMatchesTrades
    <2>1. TP!Near(n, InitialGold + earned[n] + TP!Credited(n))
      BY DEF TP!LedgerInv, TP!GoldMatchesLedger
    <2>2. TP!Credited(n) = Owed(n)
      BY QuietPublished, CreditedIsOwed
    <2> QED BY <2>1, <2>2, SameNear
  <1> HIDE DEF Rest
  <1> QED BY FlowInvariant, <1>1, <1>2, <1>3, PTL DEF FlowSpec

=============================================================================
