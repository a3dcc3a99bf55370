---------------------------- MODULE MarketServer ----------------------------
(***************************************************************************)
(* The market-district service: gRPC handlers, each a goroutine, share one *)
(* in-memory order book per resource. PlaceOrder is not one step: it takes *)
(* the server's lock for an order number, the book's lock to insert, the   *)
(* book's lock again to match, the server's lock again to record, and then *)
(* writes to Kafka holding no lock. Between any two of those the other     *)
(* handlers run, so a handler may trade an order that another one placed,  *)
(* and trades reach the recent-trades ring in another order than the book  *)
(* made them.                                                              *)
(***************************************************************************)
EXTENDS OrderBook, FiniteSets, Functions

CONSTANTS
  Handlers,     \* goroutines that serve PlaceOrder
  Resources,    \* goods, one order book each
  Buyers,       \* NPCs whose BIDs arrive
  Sellers,      \* NPCs whose ASKs arrive
  Prices,       \* limit prices
  Quantities,   \* order sizes
  MaxRecent,    \* maxRecentTrades, the capacity of the recent-trades ring
  MaxOrders,    \* bound: orders accepted by one process
  MaxRestarts,  \* bound: times the process dies
  EmitMayFail,  \* whether a Kafka write may return an error
  Nobody        \* the holder of a free lock

ASSUME MarketAssumption ==
  /\ IsFiniteSet(Handlers)
  /\ Nobody \notin Handlers
  /\ Prices \subseteq Int
  /\ Quantities \subseteq Nat \ {0}
  /\ MaxRecent \in Nat \ {0}
  /\ MaxOrders \in Nat
  /\ MaxRestarts \in Nat
  /\ EmitMayFail \in BOOLEAN

VARIABLES
  bids,       \* OrderBook.Bids of each resource, best first
  asks,       \* OrderBook.Asks of each resource, best first
  lock,       \* the handler that holds OrderBook.mu while it matches, or Nobody
  clock,      \* the last timestamp a book gave an order
  tape,       \* every trade of each book since the process started; its length is OrderBook.tradeSeq
  orderSeq,   \* MarketServer.tradeSeq, which numbers orders
  recent,     \* MarketServer.recentTrades
  topic,      \* what Kafka has of qtown.economy.trade.settled
  pc,         \* where each handler is in PlaceOrder
  order,      \* the request each handler serves
  fills,      \* the trades its Match returned
  emitted,    \* how many settlement messages it has tried to write
  restarts    \* times the process died

bookVars    == <<bids, asks, lock, clock, tape>>
serverVars  == <<orderSeq, recent>>
handlerVars == <<pc, order, fills, emitted>>
vars == <<bookVars, serverVars, topic, handlerVars, restarts>>
-----------------------------------------------------------------------------
NPCs  == Buyers \union Sellers
Sides == {"BID", "ASK"}

\* Who may trade on a side.
Traders(side) == IF side = "BID" THEN Buyers ELSE Sellers

Requests == [id : 1..MaxOrders, npc : NPCs, resource : Resources, side : Sides,
             price : Prices, qty : Quantities]
Orders   == [id : 1..MaxOrders, npc : NPCs, side : Sides, price : Prices,
             qty : Nat \ {0}, ts : 1..MaxOrders]
Trades   == [id : Nat \ {0}, buyOrder : 1..MaxOrders, sellOrder : 1..MaxOrders,
             buyer : NPCs, seller : NPCs, resource : Resources, price : Prices,
             qty : Nat \ {0}]
Messages == [npc : NPCs, delta : Int, resource : Resources, trade : Nat \ {0}]

Stages == {"idle", "place", "match", "matching", "record", "emit"}

\* What a handler has in hand while it serves nobody.
NoRequest == [id |-> 0]

\* Handler h serves an order for book r.
Serves(h, r) == pc[h] # "idle" /\ order[h].resource = r

Init ==
  /\ bids = [r \in Resources |-> <<>>]
  /\ asks = [r \in Resources |-> <<>>]
  /\ lock = [r \in Resources |-> Nobody]
  /\ clock = [r \in Resources |-> 0]
  /\ tape = [r \in Resources |-> <<>>]
  /\ orderSeq = 0
  /\ recent = <<>>
  /\ topic = <<>>
  /\ pc = [h \in Handlers |-> "idle"]
  /\ order = [h \in Handlers |-> NoRequest]
  /\ fills = [h \in Handlers |-> <<>>]
  /\ emitted = [h \in Handlers |-> 0]
  /\ restarts = 0
-----------------------------------------------------------------------------
\* PlaceOrder is called: the book is looked up or created and, under the
\* server's lock, the order gets its number.
Receive(h, req) ==
  /\ pc[h] = "idle"
  /\ orderSeq < MaxOrders
  /\ req.id = orderSeq + 1
  /\ req.npc \in Traders(req.side)
  /\ orderSeq' = orderSeq + 1
  /\ order' = [order EXCEPT ![h] = req]
  /\ pc' = [pc EXCEPT ![h] = "place"]
  /\ UNCHANGED <<bookVars, recent, topic, fills, emitted, restarts>>

\* OrderBook.PlaceOrder: under the book's lock the order gets its timestamp, is
\* appended to its side, and the side is sorted. Nothing is matched yet.
PlaceInBook(h) ==
  LET r == order[h].resource
      o == [id |-> order[h].id, npc |-> order[h].npc, side |-> order[h].side,
            price |-> order[h].price, qty |-> order[h].qty, ts |-> clock[r] + 1]
  IN  /\ pc[h] = "place"
      /\ lock[r] = Nobody
      /\ \/ /\ o.side = "BID"
            /\ \E i \in Places("BID", bids[r], o) :
                 bids' = [bids EXCEPT ![r] = InsertAt(@, i, o)]
            /\ UNCHANGED asks
         \/ /\ o.side = "ASK"
            /\ \E i \in Places("ASK", asks[r], o) :
                 asks' = [asks EXCEPT ![r] = InsertAt(@, i, o)]
            /\ UNCHANGED bids
      /\ clock' = [clock EXCEPT ![r] = @ + 1]
      /\ pc' = [pc EXCEPT ![h] = "match"]
      /\ UNCHANGED <<lock, tape, serverVars, topic, order, fills, emitted, restarts>>

\* OrderBook.Match takes the book's lock.
BeginMatch(h) ==
  LET r == order[h].resource
  IN  /\ pc[h] = "match"
      /\ lock[r] = Nobody
      /\ lock' = [lock EXCEPT ![r] = h]
      /\ pc' = [pc EXCEPT ![h] = "matching"]
      /\ UNCHANGED <<bids, asks, clock, tape, serverVars, topic, order, fills,
                     emitted, restarts>>

\* Mutant: the trade is made at the price of the bid.
NextTradeAtBid(r) ==
  LET b == bids[r][1]
      a == asks[r][1]
  IN  [id |-> Len(tape[r]) + 1, buyOrder |-> b.id, sellOrder |-> a.id,
       buyer |-> b.npc, seller |-> a.npc, resource |-> r,
       price |-> b.price, qty |-> Lesser(b.qty, a.qty)]

\* The trade that the heads of book r make.
NextTrade(r) ==
  LET b == bids[r][1]
      a == asks[r][1]
  IN  [id |-> Len(tape[r]) + 1, buyOrder |-> b.id, sellOrder |-> a.id,
       buyer |-> b.npc, seller |-> a.npc, resource |-> r,
       price |-> a.price, qty |-> Lesser(b.qty, a.qty)]

\* One turn of Match's loop: the heads cross, and trade.
Fill(h) ==
  LET r == order[h].resource
      t == NextTrade(r)
  IN  /\ pc[h] = "matching"
      /\ Crosses(bids[r], asks[r])
      /\ bids' = [bids EXCEPT ![r] = TakeFromHead(@, t.qty)]
      /\ asks' = [asks EXCEPT ![r] = TakeFromHead(@, t.qty)]
      /\ tape' = [tape EXCEPT ![r] = Append(@, t)]
      /\ fills' = [fills EXCEPT ![h] = Append(@, t)]
      /\ UNCHANGED <<lock, clock, serverVars, topic, pc, order, emitted, restarts>>

\* Mutant: the path without trades returns with the book still locked.
EndMatchLocked(h) ==
  LET r == order[h].resource
  IN  /\ pc[h] = "matching"
      /\ ~Crosses(bids[r], asks[r])
      /\ lock' = IF fills[h] = <<>> THEN lock ELSE [lock EXCEPT ![r] = Nobody]
      /\ pc' = [pc EXCEPT ![h] = IF fills[h] = <<>> THEN "idle" ELSE "record"]
      /\ order' = IF fills[h] = <<>> THEN [order EXCEPT ![h] = NoRequest] ELSE order
      /\ UNCHANGED <<bids, asks, clock, tape, serverVars, topic, fills, emitted,
                     restarts>>

\* The loop ends and Match unlocks the book. With no trade to report the
\* handler answers at once.
EndMatch(h) ==
  LET r == order[h].resource
  IN  /\ pc[h] = "matching"
      /\ ~Crosses(bids[r], asks[r])
      /\ lock' = [lock EXCEPT ![r] = Nobody]
      /\ IF fills[h] = <<>>
         THEN /\ pc' = [pc EXCEPT ![h] = "idle"]
              /\ order' = [order EXCEPT ![h] = NoRequest]
         ELSE /\ pc' = [pc EXCEPT ![h] = "record"]
              /\ UNCHANGED order
      /\ UNCHANGED <<bids, asks, clock, tape, serverVars, topic, fills, emitted,
                     restarts>>

\* Mutant: the ring is trimmed one trade late.
NewestLate(s) ==
  IF Len(s) > MaxRecent + 1 THEN SubSeq(s, Len(s) - MaxRecent + 1, Len(s)) ELSE s

\* The newest MaxRecent elements of s.
Newest(s) ==
  IF Len(s) > MaxRecent THEN SubSeq(s, Len(s) - MaxRecent + 1, Len(s)) ELSE s

\* recordTrades, under the server's lock.
Record(h) ==
  /\ pc[h] = "record"
  /\ recent' = Newest(recent \o fills[h])
  /\ pc' = [pc EXCEPT ![h] = "emit"]
  /\ UNCHANGED <<bookVars, orderSeq, topic, order, fills, emitted, restarts>>

\* Mutant: the buyer's message has the sign of the seller's.
SettlementUnsigned(ts, k) ==
  LET t == ts[(k + 1) \div 2]
  IN  [npc      |-> IF k % 2 = 1 THEN t.buyer ELSE t.seller,
       delta    |-> t.price * t.qty,
       resource |-> t.resource,
       trade    |-> t.id]

\* The k-th message of emitTradesSettled for the trades ts: the buyer's, then the
\* seller's, trade by trade.
Settlement(ts, k) ==
  LET t == ts[(k + 1) \div 2]
      notional == t.price * t.qty
  IN  [npc      |-> IF k % 2 = 1 THEN t.buyer ELSE t.seller,
       delta    |-> IF k % 2 = 1 THEN -notional ELSE notional,
       resource |-> t.resource,
       trade    |-> t.id]

\* Mutant: one message for each trade.
OnePerTrade(ts) == Len(ts)

\* How many messages the trades ts make.
TwoPerTrade(ts) == 2 * Len(ts)

\* One write of emitTradesSettled. An error - the broker is away, or the caller's
\* deadline cancelled the context - is logged and the handler goes on. After the
\* last message PlaceOrder answers.
Emit(h) ==
  LET k == emitted[h] + 1
      last == k = TwoPerTrade(fills[h])
  IN  /\ pc[h] = "emit"
      /\ \/ topic' = Append(topic, Settlement(fills[h], k))
         \/ EmitMayFail /\ UNCHANGED topic
      /\ emitted' = [emitted EXCEPT ![h] = IF last THEN 0 ELSE k]
      /\ pc'    = IF last THEN [pc EXCEPT ![h] = "idle"] ELSE pc
      /\ order' = IF last THEN [order EXCEPT ![h] = NoRequest] ELSE order
      /\ fills' = IF last THEN [fills EXCEPT ![h] = <<>>] ELSE fills
      /\ UNCHANGED <<bookVars, serverVars, restarts>>

\* The process dies and starts again with NewMarketServer: everything was in memory.
Restart ==
  /\ restarts < MaxRestarts
  /\ restarts' = restarts + 1
  /\ bids' = [r \in Resources |-> <<>>]
  /\ asks' = [r \in Resources |-> <<>>]
  /\ lock' = [r \in Resources |-> Nobody]
  /\ clock' = [r \in Resources |-> 0]
  /\ tape' = [r \in Resources |-> <<>>]
  /\ orderSeq' = 0
  /\ recent' = <<>>
  /\ pc' = [h \in Handlers |-> "idle"]
  /\ order' = [h \in Handlers |-> NoRequest]
  /\ fills' = [h \in Handlers |-> <<>>]
  /\ emitted' = [h \in Handlers |-> 0]
  /\ UNCHANGED topic

Step(h) ==
  \/ \E req \in Requests : Receive(h, req)
  \/ PlaceInBook(h)
  \/ BeginMatch(h)
  \/ Fill(h)
  \/ EndMatch(h)
  \/ Record(h)
  \/ Emit(h)

Next == Restart \/ \E h \in Handlers : Step(h)

Spec == Init /\ [][Next]_vars

\* A runnable goroutine runs; sync.RWMutex hands a lock that is freed again and
\* again to each waiter in the end; a Kafka write ends, with an error at the latest
\* when the deadline passes. Nobody has to call PlaceOrder.
Fairness ==
  \A h \in Handlers :
    /\ WF_vars(Fill(h) \/ EndMatch(h) \/ Record(h) \/ Emit(h))
    /\ SF_vars(PlaceInBook(h) \/ BeginMatch(h))

FairSpec == Spec /\ Fairness
-----------------------------------------------------------------------------
\* Each variable holds the kind of value the Go declarations give it.
TypeOK ==
  /\ bids \in [Resources -> Seq(Orders)]
  /\ asks \in [Resources -> Seq(Orders)]
  /\ lock \in [Resources -> Handlers \union {Nobody}]
  /\ clock \in [Resources -> 0..MaxOrders]
  /\ tape \in [Resources -> Seq(Trades)]
  /\ orderSeq \in 0..MaxOrders
  /\ recent \in Seq(Trades)
  /\ topic \in Seq(Messages)
  /\ pc \in [Handlers -> Stages]
  /\ order \in [Handlers -> Requests \union {NoRequest}]
  /\ fills \in [Handlers -> Seq(Trades)]
  /\ emitted \in [Handlers -> Nat]
  /\ restarts \in 0..MaxRestarts

\* Both sides of every book are in price-time order whenever anyone can look, so
\* the head Match takes is the order with the best price that came first.
BooksSorted ==
  \A r \in Resources :
    IsSide("BID", bids[r], clock[r]) /\ IsSide("ASK", asks[r], clock[r])

\* Placing and matching are two critical sections, and a handler's Match may find
\* that another handler's already did its work. Still no cross is left behind: while a
\* bid of a book meets one of its asks, some handler of that book has its Match ahead of it.
NoStrandedCross ==
  \A r \in Resources :
    (\E b \in Range(bids[r]), a \in Range(asks[r]) : b.price >= a.price) =>
      \E h \in Handlers : Serves(h, r) /\ pc[h] \in {"match", "matching"}

\* What the orders numbered id have open on the slice s.
OpenQty(s, id) ==
  SumFunctionOnSet([i \in DOMAIN s |-> s[i].qty], {i \in DOMAIN s : s[i].id = id})

\* What book r still has open of the order id of side.
Resting(r, side, id) == OpenQty(IF side = "BID" THEN bids[r] ELSE asks[r], id)

\* What the trades on the tape s moved of the order id.
TradedQty(s, id) ==
  SumFunctionOnSet([n \in DOMAIN s |-> s[n].qty],
                   {n \in DOMAIN s : id \in {s[n].buyOrder, s[n].sellOrder}})

\* What book r has traded of the order id.
Traded(r, id) == TradedQty(tape[r], id)

\* From the insertion to the answer, whoever's Match trades it: what was asked for is
\* what the book has traded of it plus what still rests there.
NothingLostOrMinted ==
  \A h \in Handlers :
    pc[h] \notin {"idle", "place"} =>
      LET q == order[h]
      IN  q.qty = Traded(q.resource, q.id) + Resting(q.resource, q.side, q.id)

\* Each trade is reported by one handler and recorded once: no two handlers hold
\* the same trade, a trade not yet recorded is not in the ring, and the ring has no
\* trade twice.
ReportedOnce ==
  /\ \A g, h \in Handlers : g # h => Range(fills[g]) \intersect Range(fills[h]) = {}
  /\ \A h \in Handlers :
       pc[h] \in {"matching", "record"} => Range(fills[h]) \intersect Range(recent) = {}
  /\ IsInjective(recent)
  /\ Len(recent) <= MaxRecent

\* The open orders of a book, whatever slice keeps them.
OpenOrders(r) == Range(bids[r]) \union Range(asks[r])

EX == INSTANCE Exchange WITH open <- [r \in Resources |-> OpenOrders(r)], tape <- tape

\* The handlers, locks and slices together behave as one atomic price-time exchange.
ExchangeSpec == EX!ExchangeSpec

\* Every PlaceOrder call is answered, or lost with the process: no handler waits
\* for ever for a lock.
AlwaysAnswers == \A h \in Handlers : pc[h] # "idle" ~> pc[h] = "idle"
=============================================================================
