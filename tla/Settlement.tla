----------------------------- MODULE Settlement -----------------------------
(***************************************************************************)
(* town-core's consumption of qtown.economy.trade.settled: the consumer    *)
(* loop with its background offset commits and its dead-letter topic, the  *)
(* replay of dead letters, and handle_trade_settled, whose session reads   *)
(* the ledger and the NPC and then commits the new gold and the ledger row *)
(* in one transaction. The sim tick, which runs in a thread with a session *)
(* of its own, reads and writes the same gold.                             *)
(*                                                                         *)
(* The group reads from the offset it has committed; with none committed   *)
(* it begins at the end of the partition (auto_offset_reset="latest"), and *)
(* what lies before that is skipped. The model starts when the group first *)
(* has its partitions; that messages were there before is a crash before   *)
(* the first fetch.                                                        *)
(***************************************************************************)
EXTENDS Integers, Sequences, Functions, FiniteSets

CONSTANTS
  Processes,    \* processes that run the consumer or replay dead letters
  Workers,      \* those of them that run the simulation, whose outbox emits events
  Partitions,   \* partitions of the settlement topic
  PartitionOf,  \* the one the market's balancer, which ignores the key, put a message in
  Resumed,      \* partitions the group has committed an offset of in an earlier life
  NPCs,         \* NPCs named in messages
  Residents,    \* those that have a row in the npcs table
  Messages,     \* settlement messages: records with npc, delta and a trade, never empty
  Log,          \* what is written to the topic, in this order
  InitialGold,  \* gold of every NPC at the start
  TickPay,      \* what one write of the tick adds to an NPC's gold
  Piece,        \* the gold column holds multiples of it; prices are finer than a coin
  MaxFaults,    \* bound: crashes, rebalances, errors of the database and the broker
  MaxReplays,   \* bound: dead letters replayed
  MaxTicks,     \* bound: writes of the tick to an NPC's gold
  None          \* no message, no NPC

ASSUME SettlementAssumption ==
  /\ Residents \subseteq NPCs /\ Workers \subseteq Processes
  /\ None \notin NPCs \union Messages
  /\ \A m \in Messages : m.npc \in NPCs /\ m.delta \in Int
  /\ Log \in Seq(Messages)
  /\ PartitionOf \in [Messages -> Partitions] /\ Resumed \subseteq Partitions
  /\ InitialGold \in Int /\ TickPay \in Int /\ Piece \in Nat \ {0}
  /\ MaxFaults \in Nat /\ MaxReplays \in Nat /\ MaxTicks \in Nat

VARIABLES
  topic,      \* the settlement topic, all partitions in the order of arrival
  owner,      \* the process each partition is assigned to
  position,   \* the last place of each partition that its owner has read or begun after
  committed,  \* the position the group has committed for each partition
  skipped,    \* history: places passed over because no offset was committed
  producer,   \* the producer each process keeps for dead letters and the outbox
  dlq,        \* the dead-letter topic
  lost,       \* history: messages given up without a trace
  gold,       \* npcs.gold
  ledger,     \* the rows of processed_trades
  pc,         \* what each process is doing
  hand,       \* the message its handler has
  at,         \* that message's place in the topic, 0 for a replayed dead letter
  snap,       \* npc.gold as its session read it
  tick,       \* the NPC the tick's session has read, with its gold
  earned,     \* history: what ticks have paid each NPC
  faults, replays, ticks

groupVars   == <<topic, owner, position, committed, skipped>>
letterVars  == <<producer, dlq, lost>>
dbVars      == <<gold, ledger>>
sessionVars == <<pc, hand, at, snap>>
tickVars    == <<tick, earned, ticks>>
vars == <<groupVars, letterVars, dbVars, sessionVars, tickVars, faults, replays>>
-----------------------------------------------------------------------------
\* Mutant: the ledger is keyed on the trade alone.
KeyOfTrade(m) == <<m.trade>>

\* The unique constraint uq_processed_trade_npc.
Key(m) == <<m.trade, m.npc>>
Settled == {Key(row) : row \in ledger}

Book == INSTANCE AccountBook WITH settled <- Settled

NoTick == [npc |-> None, gold |-> 0]

NoOffset == -1

Init ==
  /\ topic = <<>>
  /\ owner \in [Partitions -> Processes]
  /\ position = [q \in Partitions |-> 0]
  /\ committed = [q \in Partitions |-> IF q \in Resumed THEN 0 ELSE NoOffset]
  /\ skipped = {}
  /\ producer = [p \in Processes |-> "none"]
  /\ dlq = {} /\ lost = {}
  /\ gold = [n \in NPCs |-> InitialGold]
  /\ ledger = {}
  /\ pc = [p \in Processes |-> "poll"]
  /\ hand = [p \in Processes |-> None]
  /\ at = [p \in Processes |-> 0]
  /\ snap = [p \in Processes |-> 0]
  /\ tick = NoTick
  /\ earned = [n \in NPCs |-> 0]
  /\ faults = 0 /\ replays = 0 /\ ticks = 0

\* p's session is closed and it goes back to its loop.
Finish(p) ==
  /\ pc' = [pc EXCEPT ![p] = "poll"]
  /\ hand' = [hand EXCEPT ![p] = None]
  /\ at' = [at EXCEPT ![p] = 0]
  /\ snap' = [snap EXCEPT ![p] = 0]
-----------------------------------------------------------------------------
\* The market writes its next message.
Arrive ==
  /\ Len(topic) < Len(Log)
  /\ topic' = Append(topic, Log[Len(topic) + 1])
  /\ UNCHANGED <<owner, position, committed, skipped, letterVars, dbVars, sessionVars,
                 tickVars, faults, replays>>

Part(i) == PartitionOf[topic[i]]

\* What the owner of partition q has before it.
Ahead(q) == {i \in DOMAIN topic : Part(i) = q /\ i > position[q]}

\* The loop takes the next message of some partition and calls the handler.
Fetch(p) ==
  /\ pc[p] = "poll"
  /\ \E q \in Partitions : \E i \in Ahead(q) :
       /\ owner[q] = p
       /\ \A j \in Ahead(q) : i <= j
       /\ position' = [position EXCEPT ![q] = i]
       /\ hand' = [hand EXCEPT ![p] = topic[i]]
       /\ at' = [at EXCEPT ![p] = i]
  /\ pc' = [pc EXCEPT ![p] = "read"]
  /\ UNCHANGED <<topic, owner, committed, skipped, letterVars, dbVars, snap, tickVars,
                 faults, replays>>

\* Mutant: the whole dead letter, not its value, goes to the handler.
ReplayEnvelope(p) ==
  /\ pc[p] = "poll"
  /\ replays < MaxReplays
  /\ replays' = replays + 1
  /\ \E m \in dlq : hand' = [hand EXCEPT ![p] = [value |-> m]]
  /\ at' = [at EXCEPT ![p] = 0]
  /\ pc' = [pc EXCEPT ![p] = "read"]
  /\ UNCHANGED <<groupVars, letterVars, dbVars, snap, tickVars, faults>>

\* replay_dlq_record: a dead letter goes through the same handler. Nothing removes
\* it from the dead-letter topic.
Replay(p) ==
  /\ pc[p] = "poll"
  /\ replays < MaxReplays
  /\ replays' = replays + 1
  /\ \E m \in dlq : hand' = [hand EXCEPT ![p] = m]
  /\ at' = [at EXCEPT ![p] = 0]
  /\ pc' = [pc EXCEPT ![p] = "read"]
  /\ UNCHANGED <<groupVars, letterVars, dbVars, snap, tickVars, faults>>

\* The handler returns early: the pair is already in the ledger, or the NPC is not
\* in the table (a warning; the message is consumed).
Skip(p) ==
  /\ pc[p] = "read"
  /\ Key(hand[p]) \in Settled \/ hand[p].npc \notin Residents
  /\ Finish(p)
  /\ UNCHANGED <<groupVars, letterVars, dbVars, tickVars, faults, replays>>

\* The session loads the NPC; gold is computed from what it loaded.
Read(p) ==
  /\ pc[p] = "read"
  /\ Key(hand[p]) \notin Settled /\ hand[p].npc \in Residents
  /\ snap' = [snap EXCEPT ![p] = gold[hand[p].npc]]
  /\ pc' = [pc EXCEPT ![p] = "commit"]
  /\ UNCHANGED <<groupVars, letterVars, dbVars, hand, at, tickVars, faults, replays>>

\* The delta goes to the gold the session has read, and the sum into a column of whole coins.
Pay(p) ==
  \E g \in Book!Stored(snap[p] + hand[p].delta) :
    gold' = [gold EXCEPT ![hand[p].npc] = g]

\* Mutant: processed_trades has no unique constraint.
CommitUnchecked(p) ==
  /\ pc[p] = "commit"
  /\ Pay(p)
  /\ ledger' = ledger \union {hand[p]}
  /\ Finish(p)
  /\ UNCHANGED <<groupVars, letterVars, tickVars, faults, replays>>

\* Mutant: the row is left to another transaction.
CommitGoldOnly(p) ==
  /\ pc[p] = "commit"
  /\ Pay(p)
  /\ Finish(p)
  /\ UNCHANGED <<groupVars, letterVars, ledger, tickVars, faults, replays>>

\* The commit: the gold and the ledger row together, or neither when another
\* session has recorded the pair meanwhile (IntegrityError, rollback).
Commit(p) ==
  /\ pc[p] = "commit"
  /\ \/ /\ Key(hand[p]) \in Settled
        /\ UNCHANGED dbVars
     \/ /\ Key(hand[p]) \notin Settled
        /\ Pay(p)
        /\ ledger' = ledger \union {hand[p]}
  /\ Finish(p)
  /\ UNCHANGED <<groupVars, letterVars, tickVars, faults, replays>>

\* The database fails under the handler. The loop sends its message to the dead-letter
\* topic; an operator's replay just fails.
Raise(p) ==
  /\ pc[p] \in {"read", "commit"}
  /\ faults < MaxFaults
  /\ faults' = faults + 1
  /\ \/ /\ at[p] # 0
        /\ pc' = [pc EXCEPT ![p] = "dead"]
        /\ snap' = [snap EXCEPT ![p] = 0]
        /\ UNCHANGED <<hand, at>>
     \/ /\ at[p] = 0
        /\ Finish(p)
  /\ UNCHANGED <<groupVars, letterVars, dbVars, tickVars, replays>>

\* _send_to_dlq: a failed write is logged and forgotten. get_producer keeps a producer
\* whose start has failed; a send through that one raises, or never returns.
DeadLetter(p) ==
  /\ pc[p] = "dead"
  /\ \/ /\ producer[p] # "unstarted"
        /\ producer' = [producer EXCEPT ![p] = "started"]
        /\ dlq' = dlq \union {hand[p]}
        /\ Finish(p)
        /\ UNCHANGED <<lost, faults>>
     \/ /\ producer[p] # "unstarted" /\ faults < MaxFaults
        /\ producer' = [producer EXCEPT ![p] = IF @ = "none" THEN "unstarted" ELSE @]
        /\ lost' = lost \union {hand[p]}
        /\ faults' = faults + 1
        /\ Finish(p)
        /\ UNCHANGED dlq
     \/ /\ producer[p] = "unstarted"
        /\ lost' = lost \union {hand[p]}
        /\ Finish(p)
        /\ UNCHANGED <<producer, dlq, faults>>
     \/ /\ producer[p] = "unstarted"
        /\ pc' = [pc EXCEPT ![p] = "hung"]
        /\ UNCHANGED <<letterVars, hand, at, snap, faults>>
  /\ UNCHANGED <<groupVars, dbVars, tickVars, replays>>

\* The outbox sends its first event through the same producer.
Emission(p) ==
  /\ p \in Workers /\ producer[p] = "none"
  /\ \/ /\ producer' = [producer EXCEPT ![p] = "started"]
        /\ UNCHANGED faults
     \/ /\ faults < MaxFaults
        /\ faults' = faults + 1
        /\ producer' = [producer EXCEPT ![p] = "unstarted"]
  /\ UNCHANGED <<groupVars, dlq, lost, dbVars, sessionVars, tickVars, replays>>

CommitPositions(p) ==
  /\ committed' = [q \in Partitions |-> IF owner[q] = p THEN position[q] ELSE committed[q]]
  /\ committed' # committed
  /\ UNCHANGED <<topic, owner, position, skipped, letterVars, dbVars, sessionVars, tickVars,
                 faults, replays>>

\* Mutant: the position is committed while the handler is at work.
AutoCommitEarly(p) == CommitPositions(p)

\* enable_auto_commit: a background task of p's event loop commits the position of each
\* partition p has. The handler never awaits, so the task runs between messages, or
\* while the loop awaits the dead-letter write.
AutoCommit(p) == pc[p] \notin {"read", "commit"} /\ CommitPositions(p)

\* Mutant: a consumer seeks to the end of what it is assigned.
SeekToEnd(q) == Len(topic)

\* Where a new owner of q begins.
Reset(q) == IF committed[q] = NoOffset THEN Len(topic) ELSE committed[q]

\* The places a new owner of partition q passes over though nobody has finished with them.
Forsaken(q) ==
  {i \in DOMAIN topic : /\ Part(i) = q /\ committed[q] = NoOffset
                        /\ i > position[q] \/ \E p \in Processes : at[p] = i}

\* The partitions of p go to some of the heirs, who begin at the committed offsets.
Reassign(p, heirs) ==
  LET Q == {q \in Partitions : owner[q] = p}
  IN  /\ \E heir \in [Q -> heirs] :
           owner' = [q \in Partitions |-> IF q \in Q THEN heir[q] ELSE owner[q]]
      /\ position' = [q \in Partitions |-> IF q \in Q THEN Reset(q) ELSE position[q]]
      /\ skipped' = skipped \union UNION {Forsaken(q) : q \in Q}

\* p dies and is started again: its session is rolled back, and the group goes on from the
\* committed offsets. A message whose offset was committed while p was still writing
\* its dead letter is gone.
Crash(p) ==
  /\ faults < MaxFaults
  /\ faults' = faults + 1
  /\ Reassign(p, Processes)
  /\ lost' = IF pc[p] \in {"dead", "hung"} /\ at[p] <= committed[PartitionOf[hand[p]]]
             THEN lost \union {hand[p]} ELSE lost
  /\ producer' = [producer EXCEPT ![p] = "none"]
  /\ Finish(p)
  /\ UNCHANGED <<topic, committed, dlq, dbVars, tickVars, replays>>

\* The group drops p, whose handler goes on: others get its partitions, or p itself once
\* its event loop runs again.
Rebalance(p) ==
  /\ faults < MaxFaults
  /\ faults' = faults + 1
  /\ Reassign(p, IF pc[p] \in {"read", "commit"} THEN Processes \ {p} ELSE Processes)
  /\ UNCHANGED <<topic, committed, letterVars, dbVars, sessionVars, tickVars, replays>>

\* The tick's session loads an NPC ...
TickRead ==
  /\ tick = NoTick
  /\ ticks < MaxTicks
  /\ ticks' = ticks + 1
  /\ \E n \in Residents : tick' = [npc |-> n, gold |-> gold[n]]
  /\ UNCHANGED <<groupVars, letterVars, dbVars, sessionVars, earned, faults, replays>>

\* ... and writes back the gold it computed.
TickWrite ==
  /\ tick # NoTick
  /\ gold' = [gold EXCEPT ![tick.npc] = tick.gold + TickPay]
  /\ earned' = [earned EXCEPT ![tick.npc] = @ + TickPay]
  /\ tick' = NoTick
  /\ UNCHANGED <<groupVars, letterVars, ledger, sessionVars, ticks, faults, replays>>

\* What the loop of p does with a message.
Handle(p) == Fetch(p) \/ Skip(p) \/ Read(p) \/ Commit(p) \/ DeadLetter(p)

Next ==
  \/ \E p \in Processes :
       \/ Handle(p) \/ Replay(p) \/ Raise(p) \/ Emission(p) \/ AutoCommit(p)
       \/ Crash(p) \/ Rebalance(p)
  \/ Arrive
  \/ TickRead
  \/ TickWrite

Spec == Init /\ [][Next]_vars

\* The event loop of every process keeps running; a loop that awaits a send which never
\* returns has no step. Nobody has to replay, and the background commit is not needed
\* for progress.
FairSpec == Spec /\ \A p \in Processes : WF_vars(Handle(p))
-----------------------------------------------------------------------------
\* Each variable holds the kind of value the code gives it.
TypeOK ==
  /\ topic \in Seq(Messages)
  /\ owner \in [Partitions -> Processes]
  /\ position \in [Partitions -> Nat]
  /\ committed \in [Partitions -> Nat \union {NoOffset}]
  /\ skipped \subseteq Nat
  /\ producer \in [Processes -> {"none", "started", "unstarted"}]
  /\ dlq \subseteq Messages /\ lost \subseteq Messages
  /\ gold \in [NPCs -> Int]
  /\ ledger \subseteq Messages
  /\ pc \in [Processes -> {"poll", "read", "commit", "dead", "hung"}]
  /\ hand \in [Processes -> Messages \union {None}]
  /\ at \in [Processes -> Nat]
  /\ snap \in [Processes -> Int]
  /\ tick \in [npc : NPCs \union {None}, gold : Int]
  /\ earned \in [NPCs -> Int]
  /\ faults \in 0..MaxFaults /\ replays \in 0..MaxReplays /\ ticks \in 0..MaxTicks

\* The group never commits an offset past a message it has given up, but for those that
\* "latest" passes over before a partition's first commit: the message is in the
\* ledger, or its NPC is unknown, or it is a dead letter - written, being written, or
\* lost with its write.
NothingForgotten ==
  \A i \in DOMAIN topic : i <= committed[Part(i)] =>
    \/ Key(topic[i]) \in Settled
    \/ topic[i].npc \notin Residents
    \/ topic[i] \in dlq \union lost
    \/ \E p \in Processes : at[p] = i /\ pc[p] \in {"dead", "hung"}
    \/ i \in skipped /\ Part(i) \notin Resumed

\* However deliveries, replays and processes interleave, the handler moves an NPC's gold
\* only together with a new ledger row of that NPC: a duplicate that two sessions
\* both found missing is applied by one of them.
GoldMovesWithLedger ==
  [][\A n \in NPCs :
       gold'[n] # gold[n] =>
         \/ \E m \in ledger' : m.npc = n /\ Key(m) \notin Settled
         \/ tick # NoTick /\ tick.npc = n]_vars

RowsOf(n) == {row \in ledger : row.npc = n}

\* What the rows of n say n was paid.
Credited(n) == SumFunctionOnSet([row \in ledger |-> row.delta], RowsOf(n))

\* The gold of n is the amount x, but for what rounding took or gave with each row.
Near(n, x) ==
  LET slack == Book!Half * Cardinality(RowsOf(n))
  IN  gold[n] >= x - slack /\ gold[n] <= x + slack

\* The docstring of ProcessedTrade: "A row's existence means this counterparty's gold
\* delta was already applied" - to within half a coin for each row.
GoldMatchesLedger ==
  \A n \in NPCs : Near(n, InitialGold + earned[n] + Credited(n))

\* Message i waits for a send that never returns: its own, or one that holds up the loop
\* of the process that has its partition.
Stuck(i) == \E p \in Processes : pc[p] = "hung" /\ (at[p] = i \/ owner[Part(i)] = p)

\* Each message of a known NPC that arrives ends in the ledger, or among the dead letters,
\* or lost with the write of one; or it stays stuck behind a send that never returns, or
\* was passed over before its partition's first commit.
EventuallyHandled ==
  <>[](\A i \in DOMAIN topic :
         topic[i].npc \in Residents =>
           \/ Key(topic[i]) \in Settled
           \/ topic[i] \in dlq \union lost
           \/ i \in skipped /\ Part(i) \notin Resumed
           \/ Stuck(i))

ExactlyOnce == Book!AccountBookSpec
=============================================================================
