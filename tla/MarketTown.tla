----------------------------- MODULE MarketTown -----------------------------
(***************************************************************************)
(* The market-trade flow from PlaceOrder to the wallets: the market-       *)
(* district process of MarketServer and the town-core consumer of          *)
(* Settlement share one topic. Neither side sees anything else of the      *)
(* other, and each runs at its own pace.                                   *)
(***************************************************************************)
EXTENDS MarketServer

CONSTANTS
  Processes, Workers, Partitions, PartitionOf, Resumed, InitialGold, TickPay, Piece,
  MaxFaults, MaxReplays, MaxTicks,
  None        \* no message, no NPC

VARIABLES
  owner, position, committed, skipped, producer, dlq, lost, gold, ledger, townPc,
  hand, at, snap, tick, earned, faults, replays, ticks

\* The messages that orders of these prices and sizes can lead to.
FlowMessages ==
  LET Amounts == {p * q : p \in Prices, q \in UNION {1..s : s \in Quantities}}
  IN  [npc : NPCs, delta : Amounts \union {-x : x \in Amounts},
       resource : Resources, trade : 1..MaxOrders]

\* Every NPC that trades lives in town.
Town == INSTANCE Settlement WITH
  Messages <- FlowMessages, Residents <- NPCs, Log <- <<>>, pc <- townPc

ASSUME FlowAssumption ==
  /\ None \notin NPCs \union FlowMessages
  /\ Workers \subseteq Processes
  /\ PartitionOf \in [FlowMessages -> Partitions] /\ Resumed \subseteq Partitions
  /\ Piece \in Nat \ {0}
  /\ InitialGold \in Int /\ TickPay \in Int
  /\ MaxFaults \in Nat /\ MaxReplays \in Nat /\ MaxTicks \in Nat

townVars == <<owner, position, committed, skipped, producer, dlq, lost, gold, ledger,
              townPc, hand, at, snap, tick, earned, faults, replays, ticks>>

FlowInit == Init /\ Town!Init

FlowNext ==
  \/ Next /\ UNCHANGED townVars
  \/ Town!Next /\ UNCHANGED <<bookVars, serverVars, handlerVars, restarts>>

FlowSpec == FlowInit /\ [][FlowNext]_<<vars, townVars>>

FlowFairness ==
  /\ Fairness
  /\ \A p \in Processes : WF_townVars(Town!Handle(p))

FairFlowSpec == FlowSpec /\ FlowFairness
-----------------------------------------------------------------------------
AllTrades == UNION {Range(tape[r]) : r \in Resources}

\* The two messages of a trade.
MessagesOf(t) ==
  {[npc |-> t.buyer,  delta |-> -(t.price * t.qty), resource |-> t.resource, trade |-> t.id],
   [npc |-> t.seller, delta |-> t.price * t.qty,    resource |-> t.resource, trade |-> t.id]}

\* The change of n's gold that the books' trades amount to.
Owed(n) ==
  SumFunction([t \in AllTrades |-> (IF t.seller = n THEN t.price * t.qty ELSE 0)
                                   - (IF t.buyer = n THEN t.price * t.qty ELSE 0)])

\* Nothing is on its way: every handler has answered, the consumer has read what there is
\* and finished with it.
Quiet ==
  /\ \A h \in Handlers : pc[h] = "idle"
  /\ \A p \in Processes : townPc[p] = "poll"
  /\ \A q \in Partitions : Town!Ahead(q) = {}

\* The messages that went astray and are not in the ledger by another delivery: dead letters
\* that no replay has applied, those lost with the write of their dead letter, and
\* those passed over before the first commit of their partition.
Astray ==
  {m \in dlq \union lost \union {topic[i] : i \in skipped} : Town!Key(m) \notin Town!Settled}

\* Every message about n's trades was written to the topic.
Published(n) ==
  \A t \in AllTrades : \A m \in MessagesOf(t) : m.npc = n => m \in Range(topic)

\* End to end: once nothing is on its way, the gold of every NPC none of whose messages
\* went astray has moved by exactly what it bought and sold, to within half a coin
\* for each message, across redelivery, dead letters and replays.
GoldMatchesTrades ==
  Quiet =>
    \A n \in NPCs :
      (\A m \in Astray : m.npc # n) /\ (EmitMayFail => Published(n))
        => Town!Near(n, InitialGold + earned[n] + Owed(n))

\* No gold moves without a trade: every row of the ledger is one side of a trade on a tape.
NoGoldWithoutTrade ==
  \A row \in ledger : \E t \in AllTrades : row \in MessagesOf(t)

\* Message m waits for a send that never returns.
Waits(m) == \E i \in DOMAIN topic : topic[i] = m /\ Town!Stuck(i)

\* Both sides of every trade reach the ledger, if their messages do not go astray or wait
\* for a send that never returns.
TradesSettle ==
  <>[](\A t \in AllTrades : \A m \in MessagesOf(t) :
         Town!Key(m) \in Town!Settled \/ m \in Astray \/ Waits(m))

\* The docstring of ProcessedTrade, of every message: when the ledger has its pair, this
\* message's own delta is the one that was applied.
RowMeansApplied ==
  \A i \in DOMAIN topic : Town!Key(topic[i]) \in Town!Settled => topic[i] \in ledger

Accounts == Town!ExactlyOnce
=============================================================================
