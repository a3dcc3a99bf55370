------------------------------ MODULE Exchange ------------------------------
(***************************************************************************)
(* What a market-district order book promises to the callers of PlaceOrder *)
(* (internal/orderbook, package comment: "price-time priority ... continu- *)
(* ous matching, and partial fills"), with neither handlers nor locks nor  *)
(* sorted slices: a book is the set of its open orders, and the only ways  *)
(* an order changes are a trade of the best bid with the best ask and the  *)
(* loss of the whole process.                                              *)
(***************************************************************************)
EXTENDS Integers, Sequences

CONSTANTS
  Resources,   \* the goods, one book each
  NPCs,        \* who may own an order
  Prices,      \* limit prices
  Quantities,  \* order sizes
  MaxOrders    \* bound: orders accepted by one process

VARIABLES
  open,        \* open[r] is the set of open orders of book r
  tape         \* tape[r] is the sequence of trades of book r since the process started

exchangeVars == <<open, tape>>

\* a is served before b, two orders of one side: a better price first, then
\* the earlier arrival.
Ahead(a, b) ==
  \/ a.side = "BID" /\ a.price > b.price
  \/ a.side = "ASK" /\ a.price < b.price
  \/ a.price = b.price /\ a.ts < b.ts

\* o is the order of its side that book r serves next.
Best(r, o) ==
  /\ o \in open[r]
  /\ \A p \in open[r] \ {o} : p.side = o.side => Ahead(o, p)

Lesser(m, n) == IF m < n THEN m ELSE n

\* What stays open of order o once q of it has traded.
Rest(o, q) == IF o.qty <= q THEN {} ELSE {[o EXCEPT !.qty = @ - q]}

Init ==
  /\ open = [r \in Resources |-> {}]
  /\ tape = [r \in Resources |-> <<>>]

\* An order enters its book behind every order that arrived before it.
Accept(r, o) ==
  /\ \A p \in open[r] : p.ts < o.ts
  /\ open' = [open EXCEPT ![r] = @ \union {o}]
  /\ UNCHANGED tape

\* The best bid and the best ask trade when they cross: as much as both have,
\* at the price of the ask. The number of the trade is its place on the tape.
Trade(r, b, a) ==
  LET q == Lesser(b.qty, a.qty)
  IN  /\ b.side = "BID" /\ a.side = "ASK"
      /\ Best(r, b) /\ Best(r, a)
      /\ b.price >= a.price
      /\ open' = [open EXCEPT ![r] = (@ \ {b, a}) \union Rest(b, q) \union Rest(a, q)]
      /\ tape' = [tape EXCEPT ![r] = Append(@,
                    [id |-> Len(tape[r]) + 1, buyOrder |-> b.id, sellOrder |-> a.id,
                     buyer |-> b.npc, seller |-> a.npc, resource |-> r,
                     price |-> a.price, qty |-> q])]

\* The process dies: the books are in memory only.
Lose ==
  /\ open' = [r \in Resources |-> {}]
  /\ tape' = [r \in Resources |-> <<>>]

Orders == [id : 1..MaxOrders, npc : NPCs, side : {"BID", "ASK"},
           price : Prices, qty : Quantities, ts : 1..MaxOrders]

Next ==
  \/ \E r \in Resources :
       \/ \E o \in Orders : Accept(r, o)
       \/ \E b, a \in open[r] : Trade(r, b, a)
  \/ Lose

ExchangeSpec == Init /\ [][Next]_exchangeVars
=============================================================================
