# Qtown in TLA+

Qtown is a simulated town split into services that talk over gRPC, Kafka and
shared databases. This directory holds its specification: TLA+ modules
translated from the code, TLC configurations that check them on small
instances, and TLAPS proofs that hold for every instance.

## The system

| component | state it keeps | operations | talks to |
|---|---|---|---|
| market-district order book (`internal/orderbook`) | two sorted slices of orders per resource, a trade counter, a mutex | `PlaceOrder`, `Match`, `GetSnapshot` | called by the gRPC server |
| market-district server (`internal/grpc`) | the books, an order counter, a ring of 200 recent trades, a mutex | `PlaceOrder`, `GetTrades`, `GetOrderBook`, `PriceFeed`, `StressTest` | Kafka `qtown.economy.trade.settled` |
| town-core settlement consumer (`engine/kafka_consumer.py`) | `npcs.gold`, the `processed_trades` ledger, Kafka offsets, a dead-letter topic | `handle_trade_settled`, `handle_travel_complete`, dead letters and their replay | Kafka, the database |
| town-core origination (`auto_sell_surplus`, `market_client.py`) | stock of each building, a circuit breaker | sell surplus once a tick | gRPC to the market |
| town-core tick and rules (`main.py`, `simulation/tick.py`, `npcs.py`, `economy.py`, `init.py`) | rows of `npcs`, `relationships`, `world_state`, `events` | one tick every 30 s in a dozen transactions, the repairs at startup, admin and visitor routes | database |
| town-core outbox (`event_outbox.py`, `kafka_producer.py`) | a producer singleton | publish the events of the last tick | Kafka `qtown.events.broadcast` |
| tavern (`services/tavern/src`) | Redis scores, content buffer, table of WebSocket clients | consume, publish, broadcast, subscribe, heartbeat | Kafka, Redis |
| library (`library/kafka_consumer.py`) | one document buffer per index, three tasks | buffer, flush in bulk, stop, search | Kafka, Elasticsearch |
| asset-pipeline | manual offsets | generate, upload, publish | Kafka, ComfyUI, S3 |
| academy, fortress, cartographer, dashboard | model routing and content; policies, trials and audit; GraphQL gateway; user interface | | |
| ralph v2 | a worklist file, reserved services, a pool of worker processes | pick, spawn, monitor, commit | git, Ollama |

The town's economy hangs on one flow: an NPC's order is placed, the book
matches it, two settlement messages leave for Kafka (one per counterparty),
and town-core moves the gold of each NPC. It crosses two processes, two locks,
a log that delivers at least once, a database with concurrent sessions and a
dead-letter queue. It is the first thing modelled. Around it, the tick
moves the same rows in transactions of its own and leaves events in an outbox;
tavern and library consume what the town publishes, each with its own way of
losing or repeating it.

What is hard about it: handlers interleave between the critical sections of
one call; messages are lost, delivered again and replayed; offsets are
committed behind the handler's back; processes die between two steps; and two
sessions read, add to and write back the same gold; a tick stops between two of its
commits; tasks of one event loop share buffers across an `await`. `PROJECT.json`
lists these hazards line by line, with those of the parts not modelled.

What makes each part correct:

- the book: it is always sorted, trades only the best bid with the best ask,
  and neither loses nor mints quantity;
- the server: whatever the interleaving, its handlers together are one atomic
  exchange; no crossed book is left behind; a trade is reported once; every
  call is answered;
- the consumer: every message it is given moves its NPC's gold at most once, and ends in the
  ledger, as a dead letter or with a dead letter's failed write; a committed offset never forgets
  a message, but for those that the group's first position passes over;
- origination: a good is on its shelf or on offer and never both while nothing
  fails; whatever fails, goods leave a shelf only onto the market; an outage costs a
  bounded number of waits and does not shut the market out when it is over;
- the flow: once nothing is on its way, the gold of everybody whose messages all came through has
  moved by what the trades say, to within half a coin a message;
- the tick: wherever it is cut short its number is spent, so nobody is paid twice
  for it, and the worker goes on; marriages are mutual and no relationship
  outlives its people, through restarts and the reset of the world;
- the outbox: no event is broadcast twice, and while nothing interferes none is left out;
- tavern: every client sees publications once and in Redis's order, nothing that was taken is
  committed before it is handled, and the leaderboard adds up;
- library: no document drops out of the buffers unnoticed or is in two of them, a
  stop loses only what it cancels in flight, and what is buffered is written.

## Modules

| module | what it is | code |
|---|---|---|
| `OrderBook` | the sorted slices as operators | `internal/orderbook/orderbook.go` |
| `MarketServer` | the PlaceOrder handlers over books, locks, ring and topic | `internal/grpc/server.go` |
| `Exchange` | what a book promises: a set of open orders, atomic price-time trades | abstract |
| `Settlement` | consumer loop, offsets, dead letters, replay, handler sessions, tick | `engine/kafka_consumer.py`, `engine/models.py` |
| `AccountBook` | what the consumer promises: each message applied once | abstract |
| `MarketTown` | `MarketServer` and an instance of `Settlement` over one topic | the whole flow |
| `Origination` | ticks that sell surplus through the client and its breaker | `engine/simulation/economy.py`, `engine/clients/market_client.py` |
| `Society` | people, jobs, gold, hunger, friendships and marriages, and the rules on them | `engine/simulation/{init,npcs,economy}.py`, repairs of `engine/main.py` |
| `TownTick` | `Society`'s rules cut into the tick's transactions; worker, outbox, routes, restarts | `engine/main.py`, `engine/simulation/tick.py`, `engine/event_outbox.py`, `engine/kafka_producer.py` |
| `TavernGateway` | the group's nodes, Redis, subscribers and WebSocket clients | `services/tavern/src` |
| `LibraryIndexer` | three tasks over the document buffers | `services/library/library/kafka_consumer.py` |
| `SumTheorems` | the laws of sums over finite sets that the proofs share | |
| `MarketServerProofs`, `SettlementProofs`, `MarketTownProofs`, `OriginationProofs`, `TownTickProofs`, `TavernGatewayProofs`, `LibraryIndexerProofs` | theorems | |
| `MCMarketServer`, `MCSettlement`, `MCMarketTown`, `MCOrigination`, `MCTownTick`, `MCTavernGateway`, `MCLibraryIndexer` | finite instances | |

### MarketServer

`pc[h]` is where goroutine `h` is in `PlaceOrder`. The call is cut where it
takes and releases a lock or writes to Kafka, which is where others can run:

| action | code |
|---|---|
| `Receive` | `getOrCreateBook` and the order number under the server's lock |
| `PlaceInBook` | `OrderBook.PlaceOrder`: timestamp, append and sort, one critical section |
| `BeginMatch`, `Fill`, `EndMatch` | `OrderBook.Match` holding the book's lock, one action per turn of its loop |
| `Record` | `recordTrades` under the server's lock |
| `Emit` | one write of `emitTradesSettled`, holding no lock |
| `Restart` | the process dies; `NewMarketServer` starts empty |

`bids` and `asks` are the slices themselves, in order. Appending an order and
sorting stably is stated by its result: `Places` is where the order ends up.
Timestamps are arrival numbers: `time.Now()` is read under the book's lock.
`tape` keeps every trade of a book since the process started; its length is
the code's `tradeSeq`. `GetSnapshot` copies under the book's read lock, and
`GetTrades` under the server's: what they can see is a state in which that lock is
free, so an invariant on books and ring covers them. `lock` appears only for
`Match`, which spans several actions; a section that is one action needs no lock.

Prices and quantities are positive integers in the model; the code has
float64 and does not check the sign. The callers in the repository send positive surpluses.

### Settlement

`topic` is the log in the order of arrival (`Arrive`). `PartitionOf` says which partition the market put
a message in; it is arbitrary, because the market's balancer (`LeastBytes`) ignores the key. Each partition
has an `owner`, which reads it in order from its `position` (`Ahead`, `Fetch`), and the offset the
group has `committed`.

Where a new owner begins is `Reset`: at the committed offset, or, when there is none (`NoOffset`), at the
end of the partition, since the consumer is built with `auto_offset_reset="latest"`
(`kafka_consumer.py:50`). What lies before the end is then never read, and the next commit covers it;
`skipped` is the history of the places passed over in that way (`Forsaken`). `Resumed` are the partitions with an
offset from an earlier life. The model starts when the group first has its partitions; messages that
lay there before are a crash before the first fetch. `Crash` and `Rebalance` both go through
`Reassign`; a process that was dropped from the group goes on with the message it has.

`AutoCommit` is aiokafka's background task. The handler has no `await`, so the event loop cannot run that
task while the handler is at work: its guard says so, and `NothingForgotten` depends on it. While the loop
awaits the dead-letter write the task does run, so a crash at that moment loses the message.
`Read` and `Commit` are the two halves of the handler's session (`snap` is the gold it loaded);
between them another process, a replay or the tick may commit. `TickRead` and
`TickWrite` are the simulation tick's session, which `main.py` runs in a thread.

`_send_to_dlq` writes through `get_producer`, which stores the producer before its `start()` has
succeeded (`kafka_producer.py:26-36`) and which the outbox uses too (`Emission`, in the `Workers`). With a started
producer the write succeeds, or fails and is swallowed. With an unstarted one `send` raises or never returns: the
loop is then `"hung"` until the process is killed, and has no step. `lost` is the history of letters given up.

The delta is a float64, the gold column an Integer: `Pay` stores a multiple of `Piece` next to the sum
(`Stored`; which one at a tie is the database's affair), so with `Piece = 2` amounts are in half coins. Claims
on gold hold to within half a coin for each row (`Near`). The column's 32 bits are not modelled. The market
numbers every trade, so `trade_id` is never empty and the branches for an empty one are left out.
`Residents` are the NPCs that have a row; a message for another one is consumed with a warning.

Nothing outside the tests calls `TownCoreConsumer.start`, so `Settlement`
describes the consumer as its class, its handlers and their tests define it.

### MarketTown

The two meet only in `topic`. `Accounts` is `Settlement`'s refinement of
`AccountBook` in the composition; `GoldMatchesTrades` ties the wallets to the
tapes of the books. It speaks of an NPC none of whose messages went `Astray` (a dead letter nobody replayed, one
lost with its write, one passed over before the first commit) and all of whose messages were
`Published`, where writes may fail. `TradesSettle` excepts what is astray and what `Waits` for a send that never
returns.

### Origination

A shelf is a row of `resources`: one good at one building. `Work` begins a tick
with the production it commits; `Visit` is one turn of the loop of
`auto_sell_surplus` up to its call; `Answer`, `Unreachable` and `Miss` are the ways
`place_order` returns from one; `Save` is the commit after the loop. A session that
raises (`Abort`) or dies (`Restart`) loses what it has `drawn`. `Level` is what the
session sees: the session factory has autoflush off, and SQLAlchemy keeps a changed
row alive in the session and reads every other one afresh.

The market is seen from the client: an order reaches its book (`Land`) before the
answer, and a request whose deadline has passed may still do so (`LandLate`).
`MarketServer` refuses no order, so an answer is an acceptance. The breaker's time
is one bit: `open` until `CoolDown`. The failure count matters up to `Threshold` only.
`made`, `onOffer` and `outage` are history variables; prices are left out.

Two runners of `Ticks` are the worker and `POST /tick`. FastAPI runs the route in a
thread, so the two overlap, and they share the client.

### Society and TownTick

A row of `npcs` is a person with the job of his role, his workplace, gold and hunger; a row of
`relationships` is a strength above 0, a marriage a pair in `spouses`. Autoflush is
off, so a query inside a rule sees what is committed: `Wed` judges all rows of one
pass of `check_marriage` by the state before it. `Repair` is what startup does to the rows:
`assign_work_and_homes`, `_reset_world_state` past tick 1000, `_fix_null_columns`.

`process_tick` is not one transaction. `pc` is the transaction that comes next:

| action | code |
|---|---|
| `Begin`, `Route` | `_tick_worker`, `POST /tick` |
| `AssignWork`, `Weather` | `assign_work_and_homes`; `update_weather`, which commits if the weather changes |
| `Decide`, `Produce` | one NPC's `eat` or `calculate_happiness`; the producers |
| `Visit`, `Work`, `Taxes` | `process_tavern`, `process_work`, `collect_taxes` |
| `Growth`, `Ageing`, `Relations` | `check_population_growth`, `age_npcs`, `update_relationships` |
| `Final` | `check_marriage` and the commit at the end |
| `Abort` | an exception anywhere: the rest of the tick is dropped, the worker sleeps on |
| `ReadTick`, `Send`, `SendFails`, `DrainEnds` | the worker's `drain_events`, one emission each |
| `Trigger`, `CreateNpc` | `POST /api/trigger`, `POST /api/npcs` |
| `Restart`, `BrokerDown`, `BrokerUp` | the process dies and starts again; Kafka goes and comes |

The tick number is raised in memory (`now`) and saved by whichever transaction
commits next (`Go`): that the tick is spent with its first commit is what
`OncePerTick` rests on. Chance (weather, newcomers, deaths, who is near his
workplace) is open. What a producer that was never started does is aiokafka's: the model
lets `send` raise or hang, and never succeed.

### TavernGateway

`Begin` takes a message and publishes it, `Score` is the command a settlement has
left to do, and `CommandFails` is either of them with a broken connection, under which
ioredis may send a command twice or give up on one that took effect. A handler that
throws is logged and counts as handled. `AutoCommit` waits for the handler, because
`eachMessage` returns its promise. The consumer subscribes with `fromBeginning: false`
(`kafka-consumer.ts:97`): an owner of a partition without a committed offset begins at its end
(`Starts`, `Resume`, `Reassigned`). The logs are constants of which a part may be yet unwritten, so the end may be any
place from the last one read on; `skipped` holds what was passed over. `since` is where the owner began: kafkajs
commits nothing for a partition it has not read of (`CommitOffsets`). `Publish` puts the number of the publication
into the pipe of every node that is connected; `Deliver` broadcasts it to the node's open
clients that have the channel. `Connect`, `Request`, `Close`, `Vanish`, `Pong` and `Heartbeat` are the
life of a client; `Unlink`, `Relink`, `Rebalance` and `Crash` are the faults of a node.

### LibraryIndexer

`consume()`, the periodic flush and `stop()` are tasks of one event loop that switch only at
`await bulk_index`. `GoOn` is a task's way from one await to the next: it drains the next
buffer that is due, or its round ends. `Consume` and `Wake` start a round; `Indexed` and
`BulkFails` resume one. A failed bulk call may have done its work; the documents go back into
the buffer either way. `CancelConsume`, `CancelFlush` and `Stopped` are the three stages of
a shutdown. `CancelledError` is no `Exception`: what a cancelled task had drained is gone
(`Cut`). `lost` and `cancelled` are history variables that name each such way of losing a document.

Elasticsearch keeps one document per `_id`, which `bulk_index` takes from `_id`, `event_id`, `trade_id` or
`dialogue_id` (`elasticsearch_client.py:236-244`). `Id` gives it for each message, and messages of one index with
one `_id` are `SameDoc`: the two settlement messages of a trade are, and trades of two books that have
the same number. A write replaces what is `stored` under the `_id`; `index` counts the writes of each
message. So the library promises that a message was written and a document with its `_id` is there (`Present`),
not that the document is that message's. This consumer has `auto_offset_reset="earliest"`, so none
is passed over. One process is modelled: no rebalance, and no record that cannot be decoded.

## Runs

| run | instance | checks |
|---|---|---|
| `market_server` | 2 handlers, 3 orders, prices and sizes {1,2}, ring of 1 | types, `BooksSorted`, `NoStrandedCross`, `NothingLostOrMinted`, `ReportedOnce`, implements `Exchange` |
| `market_faults` | 2 handlers, 2 orders, failing writes, 1 restart | implements `Exchange`, `AlwaysAnswers` |
| `settlement` | 2 processes, 2 partitions of which 1 was committed before, 3 messages (one of an unknown NPC), 2 faults, 1 replay, 1 tick write | types, `NothingForgotten`, `GoldMovesWithLedger`, `EventuallyHandled` |
| `market_town` | 1 handler, 3 orders at 1.5 coins, 1 process, 2 partitions of which 1 was committed before, 1 fault, 1 replay | `GoldMatchesTrades`, `NoGoldWithoutTrade`, `Accounts`, `TradesSettle` |
| `origination` | 1 tick runner, 3 sellers on 2 shelves, reserve 1, threshold 2, 2 faults | types, `EscrowOnlyAccepted`, `GoodsConserved`, `OutageIsCheap`, `SurplusIsOffered` |
| `town_tick` | 1 founder, room for 3 people, 2 ticks, periods 1 and 2, reset at 2, any 2 incidents | types, `OncePerTick`, `BroadcastOnce`, `TicksDrained`, `SpousesMutual`, `NoDanglingBonds`, `NoSecondSpouse`, `KeepsTicking` |
| `tavern` | 2 nodes, 2 partitions of which 1 was committed before, 3 messages, 1 client, 2 requests, buffer of 1, 1 fault | types, `FeedInOrder`, `ScoresMatch`, `CommittedIsHandled`, `EventuallyServed` |
| `library_indexer` | 2 buffers of 2, 5 messages of which 2 share an `_id` and 1 has none, 1 fault, 1 restart | types, `NothingVanishes`, `HeldOnce`, `StopLosesOnlyCancelled`, `SmallBatches`, `EventuallyIndexed` |
| `trade_ids` | 2 resources | finds `RowMeansApplied` violated |
| `lost_update` | 1 process, 1 tick write | finds `GoldMatchesLedger` violated |
| `monogamy` | `town_tick` without incidents | finds `Monogamy` violated |
| `broker_outage` | `town_tick` with 1 incident and no reset | finds `OutageSkipsTicks` violated |

Why the bounds are enough. Two handlers suffice for a handler's order to be
traded by another's Match: the third would only repeat one of the two roles.
Three orders with sizes 1 and 2 give partial fills on either side, one order
meeting two, and two orders at one price; a ring of one overflows with the
second trade. In `settlement` a message delivered again or replayed meets one of the same trade and one of the same
NPC, and one partition can be skipped while the other cannot. Two processes give a rebalance with the old
owner still at work, and two sessions that both find a row missing. Two faults are an emission that leaves the producer
unstarted and an error that sends a dead letter through it, or a rebalance and a crash. In `market_town` a
trade of one unit is 1.5 coins and rounds, one of two does not; the skipped messages are the seller's, the
redelivered ones the buyer's. In `origination` two
sellers share a shelf and one has its own, each shelf gains twice what one sale takes, and
one outage already fails as many calls as the breaker can count. In `town_tick` the periods are
scaled so that within two ticks people eat, pay taxes, join, marry, die and the world
is reset, and two incidents give, say, an aborted tick with an admin's tick before the worker
reads the number. In `tavern` a settlement has its second command open while the other node
publishes content, so the client's feed mixes two nodes and the buffer of one overflows. In
`library_indexer` index 1 fills its buffer once and starts it again, a settlement's other side arrives
when the first may be buffered, in flight or written, the message in the middle belongs in no index, and the shutdown can meet either task at its await.
Every bound is a constant named as one in its module and, but for `MaxPublished`, which
only bounds the range of a property, appears in the guard of what it
bounds. Deadlock is not an error: when the orders, ticks or logs are used up the system rests.

Fairness. A runnable goroutine runs and a Kafka write ends with its deadline,
so `Fill`, `EndMatch`, `Record` and `Emit` are weakly fair. A handler waiting for the
book's lock sees it freed and taken in turn; `sync.RWMutex` does not starve a
waiter, hence strong fairness of `PlaceInBook` and `BeginMatch`. In
`Settlement` the event loop of a live process keeps taking messages: weak
fairness of `Handle`. A loop that awaits a send which never returns has no step, so the fairness asks nothing of it:
what it holds up is the exception `Stuck` of `EventuallyHandled`. In `Origination` the worker's loop goes on, a request to a
market that is up is taken, and time passes (`CoolDown`); nobody promises that the
market comes back, so `SurplusIsOffered` assumes it. In `TownTick` the loop sleeps 30 s and goes on
(`Begin`), a tick reaches its end or an exception (`Transaction`) and an emission returns
or raises (`Drain`). In `TavernGateway` the event loop serves consumer, subscriber and timer
(`Handle` or its failure, `Deliver`, `Heartbeat`). In `LibraryIndexer` the timer fires (`Wake`), a bulk call
returns or times out, and a shutdown that has begun goes on (`CancelFlush`, `Stopped`).
Clients, the broker's return, a subscriber's reconnection, replays, faults and background commits are owed by nobody.

Findings. Four runs state what a comment, a docstring or a test says and TLC
refutes by what the code does: trade ids collide across books, so a settlement
is taken for a replay; a tick beside the handler loses one of two updates of the
gold; one pass of `check_marriage` marries one person to several, because it does not
see the rows it has just changed; and `get_producer` keeps a producer whose
`start()` failed, so an outage at the first emission is for ever. The models also show,
without a run of their own: a settlement is lost when its Kafka write fails (`Emit`); recent
trades can be recorded out of order (`Record`); a call that misses its deadline gives `None` with its order in
the book (`Miss`); two overlapping
ticks make goods leave a shelf with no order; what arrives before a partition's first commit can be passed over after a
crash or a rebalance, and the next commit covers it, in town-core ("latest") as in the tavern (`fromBeginning:
false`); a dead letter that goes through a producer whose start failed can hang the consumer's loop (`DeadLetter`);
the two settlement messages of a trade have one `_id` in Elasticsearch, so the library keeps one of them
(`WriteAll`); and, found when `WalletsMatchTrades` could not be proved without a
hypothesis against it, an NPC whose bid meets its own ask (`Match` does not compare the two) makes two messages
with one key of trade and NPC, of which only the first is applied.

## Proofs

Every theorem is checked by TLAPS for any number of handlers, resources,
processes, partitions, messages and faults, from the named assumptions of each module:
`MarketAssumption`, `SettlementAssumption`, `FlowAssumption`, `OriginationAssumption` (finitely many
handlers, positive sizes, a log of messages whose NPC is known and whose delta is an integer in units of the
price; messages may repeat);
`PeopleAssumption`, `JobsAssumption`, `AmountsAssumption`, `PeriodsAssumption`, `TickBoundsAssumption` (a founder starts with
at most 100 gold, as `seed_npcs` gives; periods are positive); `FinitelyManyAssumption`, `HomeAssumption`,
`LogsAssumption`, `StartAssumption`, `LimitsAssumption`, `InterestsAssumption`; `BuffersAssumption`, `LogAssumption`,
`IdAssumption`, `BoundsAssumption`.

- `SumTheorems`: what a sum over a finite set is when an element is added, removed or
  changed, when most terms are 0, and when the set is mapped one to one onto another (`SumImage`).
  Sums are recursive functions on sets, so these laws need induction. The library's induction
  theorems take a predicate, which no installed prover instantiates; `Induction` and
  `SubsetInduction` take a set in its place and rest on `WFMin`.
- `MarketServerProofs`: types, `BooksSorted`, `NoStrandedCross`,
  `ReportedOnce`, `NothingLostOrMinted`, and `Spec => ExchangeSpec`. The first lemmas are about
  the slices: inserting at a place of `Places` keeps a slice sorted and
  adds exactly the order; taking from the head keeps it sorted and changes only the head.
  `NoStrandedCross` needs that a cross can only appear by an
  insertion, whose handler is then at `match`, and disappears before the
  handler that holds the lock leaves `matching`. `ReportedOnce` is not inductive: a handler could report an
  old trade again unless trade numbers on the tape are known to be dense and
  every reported trade to be on the tape; `ReportInv` adds that. `NothingLostOrMinted` equates what a caller
  asked for with sums over the tape and the slices, which go by the order's number. It needs that no two
  orders have one number (`OrdersNumbered`), and that an order is on its own side of its book, and neither
  there nor on the tape before `PlaceInBook` (`Placed`).
  The refinement mapping reads `open[r]` as
  the set of orders in the two slices. `PlaceInBook` maps to `Accept`, `Fill` to
  `Trade`, `Restart` to `Lose` and everything else stutters; the head of a sorted
  slice is `Best` because the order `Precedes` is strict on distinct timestamps.
- `SettlementProofs`: types; `NothingForgotten`, from the invariant `SettleInv`: what lies up to an owner's position
  is handled, committed, the message the owner is at, or passed over (`ReadIsHandled`); a process
  that is busy has the message of its place (`HandMatchesPlace`); offsets lie within the topic, and a
  partition with an earlier commit always has one (`OffsetsFit`). That last is why nothing of such a partition is
  passed over: `Reset` is then the committed offset, up to which all is handled. `GoldMovesWithLedger`. And, when one session writes gold
  (`Alone`: one process, no tick), `Spec => ExactlyOnce`, the consumer implements `AccountBook`, and
  `GoldMatchesLedger`: every NPC has what the rows of the ledger gave it, to within half a coin a row. The invariants are
  that the session's snapshot is still the gold of the table (`FreshInv`) and that gold and rows agree at every
  commit (`LedgerInv`). Run `lost_update`, which finds `GoldMatchesLedger` violated with a tick
  beside the handler, shows the hypothesis is needed.
- `MarketTownProofs`: the flow end to end, from the theorems of its two parts. A step of the
  town leaves the market alone, so `ExchangeSpec` holds of the composition (`FlowIsExchange`); a step of the
  market adds at most one message to the topic, which takes what was fixed in
  `Settlement` (the log) and lets it grow, and `NothingForgotten` (`GrowingTopicForgetsNothing`) and, for one session,
  `Accounts` (`FlowAppliesExactlyOnce`) survive that, because `SettleInv` speaks of places and a place once
  filled keeps its message and its partition (`TopicGrows`); `TownInv` is `SettleInv` of the composition.
  `NoGoldWithoutTrade` follows from `Traced`, every message on its way and every row is a side of a trade on a
  tape, while the market does not restart: the tapes die with the process, the rows do not.
  `GoldMatchesTrades` is the theorem `WalletsMatchTrades`. It is about each NPC by itself. `Delivered` says that, if writes do not fail, a message of a trade is
  in the topic or still unsent at the handler that made the trade; if they may fail the property asks
  for it (`Published`). At rest every message in the topic is handled, so all messages of an NPC with nothing `Astray`
  are rows, every row is a message of a trade, and `SumImage` makes the sum of his rows the sum of his trades.
  Each of its hypotheses is needed. `TP!Alone`: two sessions lose an update (`lost_update`).
  `MaxRestarts = 0`: the tapes, which say what was traded, die with the market, the gold does not. `DistinctKeys`, of
  which the first half is one resource: trade ids are numbered per book (`trade_ids`); the second
  half is that nobody is both buyer and seller: see the last finding above.
- `OriginationProofs`: types for any number of runners, and for one at a time
  (`Alone`: two that overlap sell the same goods twice) `EscrowOnlyAccepted`,
  `GoodsConserved` and `OutageIsCheap`. The first two are not inductive: the
  invariant speaks of what each session will leave on a shelf once its call is
  answered (`After`), because an order that has landed is on offer before its goods are
  taken. `BreakerInv` says that the count equals the waits until the circuit first
  opens and stays at the threshold until a success.

- `TownTickProofs`: types with `PhaseOK`, which says for each phase whether the tick number
  is saved yet. `SpousesMutual` and `NoDanglingBonds` from `BondInv`: both rows of a
  friendship always have one strength (`Symmetric`), so `Wed` takes both or none, and every bond is
  `Anchored` in two rows. `NoSecondSpouse` is an action property that holds by
  what `Wed` asks, for each pass as a whole; within one pass it fails (`monogamy`).
  `OncePerTick` from `OnceInv`, which counts wages and friendships by
  the phase (`Paid`, `Met`): the number is saved before either can grow again. `BroadcastOnce` from `OutboxInv`: ids
  are unique (`RowIds`), the topic holds rows in order (`TopicOK`), what is queued is of one
  tick and later than all that was sent (`QueueOK`), and a running tick is later still (`WorkerOK`).
  `TicksDrained` is a second invariant over the phases, of a run in which nothing interferes.
- `TavernGatewayProofs`: types; `CommittedIsHandled` from `OffsetInv`: what lies before a partition's position
  has ended, is in the hand of its owner or was passed over (`TakenIsHandled`), so the owner's commit,
  made with an empty hand, covers only what has ended or was passed over, which happens to no partition with an
  earlier commit (`ResumedIsCommitted`); a node that loses the partition
  keeps its message but not the position. `FeedInOrder` from `OrderInv`: each pipe ascends and
  everything in it is younger than what the client has received. `ScoresMatch` from `ScoreInv`: score plus
  what the nodes still hold equals the sum of what was taken of the partitions; a node that has published and waits
  to score holds a settlement (`HandsInv`), whose delta moves from one sum into the other when `Score` is done.
- `LibraryIndexerProofs`: types, `HeldOnce`, `NothingVanishes` and `StopLosesOnlyCancelled` from
  one invariant: the first two, that a task at rest holds nothing (`AtRest`), and that without a fault what is
  still to come or held is unwritten and `stop` leaves no filled buffer behind the one
  it awaits (`Clean`). For `NothingVanishes` the index adds `Written`: where a document was written there is one with its
  `_id`, whatever replaces it. `GoOnKeeps` is the lemma all actions share: a round moves documents and drops none.
  `SmallBatches` from `Batches`: a buffer that is full lies ahead of the one that `consume()` awaits
  (`FullAhead`), so it is flushed in the same round, before the next message can be appended.

Model-checked only: the liveness properties `AlwaysAnswers`, `EventuallyHandled`, `SurplusIsOffered`,
`TradesSettle`, `KeepsTicking`, `EventuallyServed` and `EventuallyIndexed`, because fairness and `ENABLED` are
out of the prover's reach. Every other property of a run that is expected to pass is a theorem.

## Not modelled

Of the modelled parts:

- market-district: read-only calls (`GetTrades`, `GetOrderBook`, `PriceFeed`, `Health`), the load
  generator `StressTest`, the rounding of its own float sums (prices and sizes are integers in a common unit), the
  travel handler. kafka-go may write a message twice when an acknowledgement is lost: the theorems of
  `SettlementProofs` allow any log, also one that repeats a message; `MarketServer` has no action for it, and in the
  runs a message comes again by redelivery and replay.
- town-core: travel (in production nothing starts a journey, and
  `handle_travel_complete` only answers one); elections, production, inflation and dialogue, which
  touch no row of `Society`; happiness, energy, skills, homes and places; rivals, who
  need two buildings of one type; hospital and school, which no role leads to;
  `_migrate_layout`; the order of rows within a tick; overlapping ticks in `TownTick`
  (`Origination` has them); the event `baby_boom`, which imports a function that does not exist
  and is rolled back. Hundreds of functions of `npcs.py`, `events.py` and `buildings.py` are called by
  tests only: they are not part of the running program.
- tavern: the presence hash, the crime leaderboard (no service sends `crime_count`),
  metrics and REST reads.
- library: the search API, which reads, and the order of documents in a bulk request.

Other parts:

- market-district's price cycles and tournaments: sequential arithmetic on floats; trades
  are recorded whether or not the tournament runs.
- asset-pipeline: one request at a time with manual commits; what can go wrong is decided by
  ComfyUI and S3.
- academy: routing and text generation; its outcomes are texts and statistics of outside services.
- fortress: validation rules and small sequential machines; cartographer: reads of other services.
- ralph v2: as the code stands no worker starts, since `pool.apply_async` cannot pickle the
  worker's `ModelRouter`; v1: the monolith town-core has replaced.
- dashboard, landing, generated code, infrastructure and tools.

## Plan

What could follow, in this order: the consumer of `Settlement` composed with `TownTick`, whose sessions
write the same gold; two overlapping runs of `process_tick` in `TownTick`; the orchestrator's worklist once its workers start;
asset-pipeline's commits.
