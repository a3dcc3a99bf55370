-------------------------- MODULE SettlementProofs --------------------------
(***************************************************************************)
(* town-core's consumption of settlements, for any number of processes,    *)
(* messages, faults, replays and ticks: the types, that a committed offset *)
(* forgets no message, that gold moves only with a new ledger row; and     *)
(* that a single process with no tick beside it applies every message      *)
(* exactly once and keeps every wallet equal to its rows.                  *)
(***************************************************************************)
EXTENDS Settlement, SumTheorems, SequenceTheorems

\* Message i needs no delivery any more.
Handled(i) ==
  \/ Key(topic[i]) \in Settled
  \/ topic[i].npc \notin Residents
  \/ topic[i] \in dlq \union lost

\* Message i was passed over before its partition's first commit.
PassedOver(i) == i \in skipped /\ Part(i) \notin Resumed

\* A busy handler has a message, the one at its place unless it came from the dead letters.
HandMatchesPlace ==
  \A p \in Processes :
    /\ pc[p] # "poll" => hand[p] \in Messages
    /\ pc[p] # "poll" /\ at[p] # 0 => at[p] \in DOMAIN topic /\ hand[p] = topic[at[p]]
    /\ pc[p] = "poll" => at[p] = 0
    /\ pc[p] \in {"dead", "hung"} => at[p] # 0

\* Offsets lie within the topic, and what is committed stays committed.
OffsetsFit ==
  /\ \A q \in Partitions : position[q] <= Len(topic) /\ committed[q] <= Len(topic)
  /\ \A q \in Resumed : committed[q] # NoOffset

\* Read and not committed: the message is handled, its partition's owner is at it, or it was
\* passed over.
ReadIsHandled ==
  \A i \in DOMAIN topic : i <= position[Part(i)] =>
    \/ Handled(i) \/ PassedOver(i)
    \/ i <= committed[Part(i)]
    \/ at[owner[Part(i)]] = i

SettleInv == TypeOK /\ HandMatchesPlace /\ OffsetsFit /\ ReadIsHandled /\ NothingForgotten

\* Every step but the arrival of a message.
Consume ==
  \/ \E p \in Processes :
       \/ Handle(p) \/ Replay(p) \/ Raise(p) \/ Emission(p) \/ AutoCommit(p)
       \/ Crash(p) \/ Rebalance(p)
  \/ TickRead
  \/ TickWrite

LEMMA NextCases == [Next]_vars <=> [Consume]_vars \/ Arrive
  BY DEF Next, Consume

LEMMA PartType ==
  ASSUME TypeOK, NEW i \in DOMAIN topic
  PROVE  /\ i \in Nat \ {0} /\ i <= Len(topic) /\ topic[i] \in Messages
         /\ Part(i) \in Partitions /\ owner[Part(i)] \in Processes
         /\ position[Part(i)] \in Nat /\ committed[Part(i)] \in Nat \union {-1}
  <1>1. DOMAIN topic = 1 .. Len(topic) /\ Len(topic) \in Nat /\ topic[i] \in Messages
    BY LenProperties, ElementOfSeq DEF TypeOK
  <1>2. Part(i) \in Partitions
    BY <1>1, SettlementAssumption DEF Part
  <1> QED BY <1>1, <1>2 DEF TypeOK, NoOffset

LEMMA SettleInit == Init => SettleInv
  <1> SUFFICES ASSUME Init PROVE SettleInv
    OBVIOUS
  <1>1. committed \in [Partitions -> Nat \union {-1}] /\ NoOffset = -1
    BY DEF Init, NoOffset
  <1>2. TypeOK
    BY <1>1, SettlementAssumption DEF Init, TypeOK, NoTick
  <1>3. HandMatchesPlace /\ ReadIsHandled /\ NothingForgotten
    BY DEF Init, HandMatchesPlace, ReadIsHandled, NothingForgotten
  <1>4. OffsetsFit
    <2>1. Len(topic) = 0 /\ \A q \in Partitions : position[q] = 0 /\ committed[q] <= 0
      BY DEF Init, NoOffset
    <2>2. \A q \in Resumed : committed[q] = 0
      BY SettlementAssumption DEF Init
    <2> QED BY <2>1, <2>2 DEF OffsetsFit, NoOffset
  <1> QED BY <1>2, <1>3, <1>4 DEF SettleInv

\* Nothing a step adds to the ledger or to the letters makes a message unhandled.
LEMMA HandledStays ==
  ASSUME ledger \subseteq ledger', dlq \subseteq dlq', lost \subseteq lost',
         NEW i, topic'[i] = topic[i], Handled(i)
  PROVE  Handled(i)'
  BY DEF Handled, Settled

-----------------------------------------------------------------------------
(* The topic grows under the group. *)

LEMMA TopicGrows ==
  ASSUME SettleInv, topic' \in Seq(Messages), Len(topic) <= Len(topic'),
         \A i \in DOMAIN topic : topic'[i] = topic[i],
         UNCHANGED <<owner, position, committed, skipped, letterVars, dbVars, sessionVars,
                     tickVars, faults, replays>>
  PROVE  SettleInv'
  <1> USE DEF letterVars, dbVars, sessionVars, tickVars
  <1>1. /\ DOMAIN topic = 1 .. Len(topic) /\ DOMAIN topic' = 1 .. Len(topic')
        /\ Len(topic) \in Nat /\ Len(topic') \in Nat
    BY LenProperties DEF SettleInv, TypeOK
  <1>2. TypeOK'
    BY DEF SettleInv, TypeOK
  <1>3. HandMatchesPlace'
    BY <1>1 DEF SettleInv, HandMatchesPlace
  <1>4. OffsetsFit'
    <2>1. \A q \in Partitions : /\ position[q] \in Nat /\ committed[q] \in Nat \union {-1}
                                /\ position[q] <= Len(topic) /\ committed[q] <= Len(topic)
      BY DEF SettleInv, TypeOK, OffsetsFit, NoOffset
    <2>2. \A q \in Partitions : position[q] <= Len(topic') /\ committed[q] <= Len(topic')
      BY <1>1, <2>1
    <2> QED BY <2>2 DEF SettleInv, OffsetsFit
  <1>5. ASSUME NEW i \in DOMAIN topic
        PROVE  /\ topic'[i] = topic[i] /\ Part(i)' = Part(i)
               /\ (Handled(i) => Handled(i)') /\ (PassedOver(i) => PassedOver(i)')
    <2>1. Part(i)' = Part(i)
      BY DEF Part
    <2> QED BY <2>1, HandledStays DEF PassedOver
  <1>6. ASSUME NEW i \in DOMAIN topic', i \notin DOMAIN topic
        PROVE  ~(i <= position'[Part(i)']) /\ ~(i <= committed'[Part(i)'])
    <2>1. i > Len(topic) /\ i \in Nat /\ Part(i)' \in Partitions
      BY <1>1, <1>2, <1>6, ElementOfSeq, SettlementAssumption DEF Part
    <2>2. /\ position[Part(i)'] \in Nat /\ committed[Part(i)'] \in Nat \union {-1}
          /\ position[Part(i)'] <= Len(topic) /\ committed[Part(i)'] <= Len(topic)
      BY <2>1 DEF SettleInv, TypeOK, OffsetsFit, NoOffset
    <2> QED BY <1>1, <2>1, <2>2
  <1>7. ReadIsHandled'
    <2> SUFFICES ASSUME NEW i \in DOMAIN topic', i <= position'[Part(i)']
                 PROVE  \/ Handled(i)' \/ PassedOver(i)'
                        \/ i <= committed'[Part(i)'] \/ at'[owner'[Part(i)']] = i
      BY DEF ReadIsHandled
    <2>1. i \in DOMAIN topic
      BY <1>6
    <2>2. Part(i)' = Part(i) /\ i <= position[Part(i)]
      BY <1>5, <2>1
    <2>3. \/ Handled(i) \/ PassedOver(i)
          \/ i <= committed[Part(i)] \/ at[owner[Part(i)]] = i
      BY <2>1, <2>2 DEF SettleInv, ReadIsHandled
    <2>4. CASE Handled(i) \/ PassedOver(i)
      BY <1>5, <2>1, <2>4
    <2>5. CASE i <= committed[Part(i)] \/ at[owner[Part(i)]] = i
      BY <2>2, <2>5
    <2> QED BY <2>3, <2>4, <2>5
  <1>8. NothingForgotten'
    <2> SUFFICES ASSUME NEW i \in DOMAIN topic', i <= committed'[Part(i)']
                 PROVE  \/ Handled(i)' \/ PassedOver(i)'
                        \/ \E p \in Processes : at'[p] = i /\ pc'[p] \in {"dead", "hung"}
      BY DEF NothingForgotten, Handled, PassedOver
    <2>1. i \in DOMAIN topic
      BY <1>6
    <2>2. i <= committed[Part(i)]
      BY <1>5, <2>1
    <2>3. \/ Handled(i) \/ PassedOver(i)
          \/ \E p \in Processes : at[p] = i /\ pc[p] \in {"dead", "hung"}
      BY <2>1, <2>2 DEF SettleInv, NothingForgotten, Handled, PassedOver
    <2>4. CASE Handled(i) \/ PassedOver(i)
      BY <1>5, <2>1, <2>4
    <2> QED BY <2>3, <2>4
  <1> QED BY <1>2, <1>3, <1>4, <1>7, <1>8 DEF SettleInv

LEMMA ArriveNext == SettleInv /\ Arrive => SettleInv'
  <1> SUFFICES ASSUME SettleInv, Arrive PROVE SettleInv'
    OBVIOUS
  <1>1. topic \in Seq(Messages) /\ Len(topic) \in Nat /\ Log \in Seq(Messages) /\ Len(Log) \in Nat
    BY SettlementAssumption, LenProperties DEF SettleInv, TypeOK
  <1>2. Log[Len(topic) + 1] \in Messages
    BY <1>1, ElementOfSeq DEF Arrive
  <1>3. topic' = Append(topic, Log[Len(topic) + 1])
    BY DEF Arrive
  <1>4. /\ topic' \in Seq(Messages) /\ Len(topic') = Len(topic) + 1
        /\ \A i \in 1 .. Len(topic) : topic'[i] = topic[i]
    BY <1>1, <1>2, <1>3, AppendProperties
  <1>5. DOMAIN topic = 1 .. Len(topic)
    BY <1>1, LenProperties
  <1> QED BY <1>1, <1>4, <1>5, TopicGrows DEF Arrive

-----------------------------------------------------------------------------
(* The steps of the group. *)

LEMMA HalfType == Book!Half \in Nat
  BY SettlementAssumption DEF Book!Half

LEMMA StoredType ==
  ASSUME NEW x \in Int, NEW g \in Book!Stored(x)
  PROVE  g \in Int /\ g >= x - Book!Half /\ g <= x + Book!Half
  <1>1. g \in x - Book!Half .. x + Book!Half
    BY Zenon DEF Book!Stored
  <1> QED BY <1>1, HalfType

\* A new owner begins at the committed offset, or at the end, and what it passes over is skipped.
LEMMA ReassignMeaning ==
  ASSUME TypeOK, OffsetsFit, NEW p \in Processes, NEW H \in SUBSET Processes, Reassign(p, H)
  PROVE  /\ owner' \in [Partitions -> Processes] /\ position' \in [Partitions -> Nat]
         /\ skipped \subseteq skipped' /\ skipped' \subseteq Nat
         /\ \A q \in Partitions : owner[q] # p => owner'[q] = owner[q] /\ position'[q] = position[q]
         /\ \A q \in Partitions : owner[q] = p =>
              position'[q] = IF committed[q] = NoOffset THEN Len(topic) ELSE committed[q]
         /\ \A q \in Partitions : owner[q] = p => Forsaken(q) \subseteq skipped'
  <1> DEFINE Q == {q \in Partitions : owner[q] = p}
  <1>1. PICK heir \in [Q -> H] :
          owner' = [q \in Partitions |-> IF q \in Q THEN heir[q] ELSE owner[q]]
    BY DEF Reassign
  <1>2. /\ position' = [q \in Partitions |-> IF q \in Q THEN Reset(q) ELSE position[q]]
        /\ skipped' = skipped \union UNION {Forsaken(q) : q \in Q}
    BY DEF Reassign
  <1>3. DOMAIN topic \subseteq Nat /\ Len(topic) \in Nat
    BY LenProperties DEF TypeOK
  <1>4. \A q \in Q : Reset(q) = (IF committed[q] = NoOffset THEN Len(topic) ELSE committed[q])
                     /\ Reset(q) \in Nat
    BY <1>3 DEF Reset, TypeOK
  <1>5. \A q \in Q : Forsaken(q) \subseteq Nat
    BY <1>3 DEF Forsaken
  <1>6. \A q \in Partitions : q \in Q <=> owner[q] = p
    OBVIOUS
  <1>10. owner \in [Partitions -> Processes] /\ position \in [Partitions -> Nat] /\ skipped \subseteq Nat
    BY DEF TypeOK
  <1> HIDE DEF Q
  <1>7. owner' \in [Partitions -> Processes]
    BY <1>1, <1>10
  <1>8. position' \in [Partitions -> Nat]
    BY <1>2, <1>4, <1>10
  <1>9. skipped' \subseteq Nat /\ \A q \in Q : Forsaken(q) \subseteq skipped'
    BY <1>2, <1>5, <1>10
  <1> QED BY <1>1, <1>2, <1>4, <1>6, <1>7, <1>8, <1>9

LEMMA PayType ==
  ASSUME TypeOK, NEW p \in Processes, hand[p] \in Messages, Pay(p)
  PROVE  /\ gold' \in [NPCs -> Int] /\ hand[p].npc \in NPCs /\ hand[p].delta \in Int
         /\ \A n \in NPCs \ {hand[p].npc} : gold'[n] = gold[n]
         /\ gold'[hand[p].npc] \in Book!Stored(snap[p] + hand[p].delta)
         /\ gold'[hand[p].npc] >= snap[p] + hand[p].delta - Book!Half
         /\ gold'[hand[p].npc] <= snap[p] + hand[p].delta + Book!Half
  <1>1. hand[p].npc \in NPCs /\ hand[p].delta \in Int /\ snap[p] \in Int
    BY SettlementAssumption DEF TypeOK
  <1>2. PICK g \in Book!Stored(snap[p] + hand[p].delta) : gold' = [gold EXCEPT ![hand[p].npc] = g]
    BY DEF Pay
  <1>3. /\ g \in Int /\ g >= snap[p] + hand[p].delta - Book!Half
        /\ g <= snap[p] + hand[p].delta + Book!Half
    <2> DEFINE x == snap[p] + hand[p].delta
    <2>1. x \in Int /\ x = snap[p] + hand[p].delta /\ g \in Book!Stored(x)
      BY <1>1, <1>2
    <2> HIDE DEF x
    <2>2. g \in Int /\ g >= x - Book!Half /\ g <= x + Book!Half
      BY <2>1, StoredType
    <2> QED BY <1>1, <2>1, <2>2, HalfType
  <1>4. gold \in [NPCs -> Int]
    BY DEF TypeOK
  <1> QED BY <1>1, <1>2, <1>3, <1>4

LEMMA TypeNext == TypeOK /\ HandMatchesPlace /\ OffsetsFit /\ [Consume]_vars => TypeOK'
  <1> SUFFICES ASSUME TypeOK, HandMatchesPlace, OffsetsFit, [Consume]_vars PROVE TypeOK'
    OBVIOUS
  <1> USE DEF groupVars, letterVars, dbVars, sessionVars, tickVars, Finish
  <1>0. DOMAIN topic \subseteq Nat
    BY LenProperties DEF TypeOK
  <1>1. ASSUME NEW p \in Processes, Fetch(p) PROVE TypeOK'
    <2>0. PICK q \in Partitions : \E i \in Ahead(q) :
            /\ position' = [position EXCEPT ![q] = i]
            /\ hand' = [hand EXCEPT ![p] = topic[i]]
            /\ at' = [at EXCEPT ![p] = i]
      BY <1>1 DEF Fetch
    <2>1. PICK i \in Ahead(q) : /\ position' = [position EXCEPT ![q] = i]
                                /\ hand' = [hand EXCEPT ![p] = topic[i]]
                                /\ at' = [at EXCEPT ![p] = i]
      BY <2>0
    <2>2. i \in DOMAIN topic
      BY <2>1 DEF Ahead
    <2>3. topic[i] \in Messages /\ i \in Nat
      BY <2>2, PartType
    <2>4. /\ position' \in [Partitions -> Nat] /\ hand' \in [Processes -> Messages \union {None}]
          /\ at' \in [Processes -> Nat]
      BY <2>1, <2>3 DEF TypeOK
    <2> QED BY SMTT(30), <1>1, <2>4 DEF Fetch, TypeOK
  <1>2. ASSUME NEW p \in Processes, Replay(p) PROVE TypeOK'
    <2>1. replays' \in 0..MaxReplays
      BY <1>2, SettlementAssumption DEF Replay, TypeOK
    <2>2. hand' \in [Processes -> Messages \union {None}]
      BY <1>2 DEF Replay, TypeOK
    <2> QED BY <1>2, <2>1, <2>2 DEF Replay, TypeOK
  <1>3. ASSUME NEW p \in Processes, Skip(p) PROVE TypeOK'
    BY <1>3 DEF Skip, TypeOK
  <1>4. ASSUME NEW p \in Processes, Read(p) PROVE TypeOK'
    BY <1>4, SettlementAssumption DEF Read, TypeOK
  <1>5. ASSUME NEW p \in Processes, Commit(p) PROVE TypeOK'
    <2>1. hand[p] \in Messages
      BY <1>5 DEF Commit, HandMatchesPlace
    <2>2. gold' \in [NPCs -> Int] /\ ledger' \subseteq Messages
      <3>1. CASE UNCHANGED dbVars
        BY <3>1 DEF TypeOK
      <3>2. CASE Pay(p) /\ ledger' = ledger \union {hand[p]}
        BY <2>1, <3>2, PayType DEF TypeOK
      <3> QED BY <1>5, <3>1, <3>2 DEF Commit
    <2> QED BY SMTT(30), <1>5, <2>2 DEF Commit, TypeOK
  <1>6. ASSUME NEW p \in Processes, Raise(p) PROVE TypeOK'
    <2>1. faults' \in 0..MaxFaults
      BY <1>6, SettlementAssumption DEF Raise, TypeOK
    <2>2. CASE at[p] # 0
      <3>1. /\ pc' = [pc EXCEPT ![p] = "dead"] /\ snap' = [snap EXCEPT ![p] = 0]
            /\ UNCHANGED <<hand, at, groupVars, letterVars, dbVars, tickVars, replays>>
        BY <1>6, <2>2 DEF Raise
      <3> QED BY SMTT(30), <2>1, <3>1 DEF TypeOK
    <2>3. CASE at[p] = 0
      <3>1. Finish(p) /\ UNCHANGED <<groupVars, letterVars, dbVars, tickVars, replays>>
        BY <1>6, <2>3 DEF Raise
      <3> QED BY SMTT(30), <2>1, <3>1 DEF TypeOK
    <2> QED BY <2>2, <2>3
  <1>7. ASSUME NEW p \in Processes, DeadLetter(p) PROVE TypeOK'
    <2>1. hand[p] \in Messages
      BY <1>7 DEF DeadLetter, HandMatchesPlace
    <2>2. producer' \in [Processes -> {"none", "started", "unstarted"}]
      <3> DEFINE kept == IF producer[p] = "none" THEN "unstarted" ELSE producer[p]
      <3>1. \/ producer' = [producer EXCEPT ![p] = "started"]
            \/ producer' = [producer EXCEPT ![p] = kept]
            \/ producer' = producer
        BY <1>7 DEF DeadLetter
      <3>2. producer \in [Processes -> {"none", "started", "unstarted"}]
        BY DEF TypeOK
      <3> QED BY <3>1, <3>2
    <2>3. dlq' \subseteq Messages /\ lost' \subseteq Messages /\ faults' \in 0..MaxFaults
      <3>1. /\ dlq' = dlq \/ dlq' = dlq \union {hand[p]}
            /\ lost' = lost \/ lost' = lost \union {hand[p]}
            /\ faults' = faults \/ (faults < MaxFaults /\ faults' = faults + 1)
        BY <1>7 DEF DeadLetter
      <3> QED BY <2>1, <3>1, SettlementAssumption DEF TypeOK
    <2>4. Finish(p) \/ (pc' = [pc EXCEPT ![p] = "hung"] /\ UNCHANGED <<hand, at, snap>>)
      BY <1>7 DEF DeadLetter
    <2>5. /\ pc' \in [Processes -> {"poll", "read", "commit", "dead", "hung"}]
          /\ hand' \in [Processes -> Messages \union {None}]
          /\ at' \in [Processes -> Nat] /\ snap' \in [Processes -> Int]
      <3>1. CASE Finish(p)
        BY SMTT(30), <3>1 DEF TypeOK
      <3>2. CASE pc' = [pc EXCEPT ![p] = "hung"] /\ UNCHANGED <<hand, at, snap>>
        BY <3>2 DEF TypeOK
      <3> QED BY <2>4, <3>1, <3>2
    <2> QED BY SMTT(30), <1>7, <2>2, <2>3, <2>5 DEF DeadLetter, TypeOK
  <1>14. ASSUME NEW p \in Processes, Emission(p) PROVE TypeOK'
    <2>1. /\ producer' \in [Processes -> {"none", "started", "unstarted"}]
          /\ faults' \in 0..MaxFaults
      <3>1. /\ \/ producer' = [producer EXCEPT ![p] = "started"]
               \/ producer' = [producer EXCEPT ![p] = "unstarted"]
            /\ faults' = faults \/ (faults < MaxFaults /\ faults' = faults + 1)
        BY <1>14 DEF Emission
      <3>2. faults' \in 0..MaxFaults
        BY <3>1, SettlementAssumption DEF TypeOK
      <3>3. producer \in [Processes -> {"none", "started", "unstarted"}]
        BY DEF TypeOK
      <3> QED BY <3>1, <3>2, <3>3
    <2> QED BY <1>14, <2>1 DEF Emission, TypeOK
  <1>8. ASSUME NEW p \in Processes, AutoCommit(p) PROVE TypeOK'
    <2>1. committed' \in [Partitions -> Nat \union {NoOffset}]
      BY <1>8 DEF AutoCommit, CommitPositions, TypeOK
    <2> QED BY <1>8, <2>1 DEF AutoCommit, CommitPositions, TypeOK
  <1>9. ASSUME NEW p \in Processes, Crash(p) PROVE TypeOK'
    <2>1. lost' \subseteq Messages
      BY <1>9 DEF Crash, HandMatchesPlace, TypeOK
    <2>2. /\ owner' \in [Partitions -> Processes] /\ position' \in [Partitions -> Nat]
          /\ skipped' \subseteq Nat
      BY <1>9, ReassignMeaning DEF Crash
    <2>3. faults' \in 0..MaxFaults /\ producer' \in [Processes -> {"none", "started", "unstarted"}]
      BY <1>9, SettlementAssumption DEF Crash, TypeOK
    <2>4. Finish(p) /\ UNCHANGED <<topic, committed, dlq, dbVars, tickVars, replays>>
      BY <1>9 DEF Crash
    <2> QED BY SMTT(30), <2>1, <2>2, <2>3, <2>4 DEF TypeOK
  <1>10. ASSUME NEW p \in Processes, Rebalance(p) PROVE TypeOK'
    <2>1. PICK H \in SUBSET Processes : Reassign(p, H)
      BY <1>10 DEF Rebalance
    <2>2. /\ owner' \in [Partitions -> Processes] /\ position' \in [Partitions -> Nat]
          /\ skipped' \subseteq Nat
      BY <2>1, ReassignMeaning
    <2>3. faults' \in 0..MaxFaults
      BY <1>10, SettlementAssumption DEF Rebalance, TypeOK
    <2> QED BY <1>10, <2>2, <2>3 DEF Rebalance, TypeOK
  <1>11. ASSUME TickRead PROVE TypeOK'
    BY <1>11, SettlementAssumption DEF TickRead, NoTick, TypeOK
  <1>12. ASSUME TickWrite PROVE TypeOK'
    <2>1. gold' \in [NPCs -> Int] /\ earned' \in [NPCs -> Int]
      <3>1. tick.gold + TickPay \in Int /\ \A n \in NPCs : earned[n] + TickPay \in Int
        BY SettlementAssumption DEF TypeOK
      <3> QED BY <1>12, <3>1 DEF TickWrite, TypeOK
    <2>2. tick' \in [npc : NPCs \union {None}, gold : Int]
      BY <1>12 DEF TickWrite, NoTick
    <2> QED BY <1>12, <2>1, <2>2 DEF TickWrite, TypeOK
  <1>13. ASSUME UNCHANGED vars PROVE TypeOK'
    BY <1>13 DEF vars, TypeOK
  <1> QED BY <1>1, <1>2, <1>3, <1>4, <1>5, <1>6, <1>7, <1>8, <1>9, <1>10, <1>11, <1>12, <1>13, <1>14
          DEF Consume, Handle

\* What is in the ledger or among the letters stays there, and the topic is as it was.
LEMMA RecordsGrow ==
  ASSUME [Consume]_vars
  PROVE  /\ topic' = topic
         /\ ledger \subseteq ledger' /\ dlq \subseteq dlq' /\ lost \subseteq lost'
  <1> DEFINE Grow == /\ topic' = topic
                     /\ ledger \subseteq ledger' /\ dlq \subseteq dlq' /\ lost \subseteq lost'
  <1> USE DEF groupVars, letterVars, dbVars, sessionVars, tickVars
  <1>1. ASSUME NEW p \in Processes, Handle(p) PROVE Grow
    BY <1>1 DEF Handle, Fetch, Skip, Read, Commit, DeadLetter
  <1>2. ASSUME NEW p \in Processes, Replay(p) \/ Raise(p) \/ Emission(p) PROVE Grow
    BY <1>2 DEF Replay, Raise, Emission
  <1>4. ASSUME NEW p \in Processes, AutoCommit(p) \/ Crash(p) \/ Rebalance(p) PROVE Grow
    BY <1>4 DEF AutoCommit, CommitPositions, Crash, Rebalance
  <1>3. ASSUME TickRead \/ TickWrite \/ UNCHANGED vars PROVE Grow
    BY <1>3 DEF TickRead, TickWrite, vars
  <1> QED BY <1>1, <1>2, <1>3, <1>4 DEF Consume

\* A handler only takes a message from the topic, or finishes, or goes on with the
\* message it has.
LEMMA PlaceNext == SettleInv /\ [Consume]_vars => HandMatchesPlace'
  <1> SUFFICES ASSUME SettleInv, [Consume]_vars PROVE HandMatchesPlace'
    OBVIOUS
  <1> USE DEF HandMatchesPlace, sessionVars, Finish
  <1>0. topic' = topic
    BY RecordsGrow
  <1>a. /\ pc \in [Processes -> {"poll", "read", "commit", "dead", "hung"}]
        /\ hand \in [Processes -> Messages \union {None}] /\ at \in [Processes -> Nat]
        /\ HandMatchesPlace /\ TypeOK
    BY DEF SettleInv, TypeOK
  <1>1. ASSUME NEW p \in Processes, Fetch(p) PROVE HandMatchesPlace'
    <2>0. PICK q \in Partitions : \E i \in Ahead(q) : /\ hand' = [hand EXCEPT ![p] = topic[i]]
                                                      /\ at' = [at EXCEPT ![p] = i]
      BY <1>1 DEF Fetch
    <2>1. PICK i \in Ahead(q) : /\ hand' = [hand EXCEPT ![p] = topic[i]]
                                /\ at' = [at EXCEPT ![p] = i]
      BY <2>0
    <2>2. i \in DOMAIN topic /\ topic[i] \in Messages
      BY <1>a, PartType DEF Ahead
    <2> QED BY <1>0, <1>1, <1>a, <2>1, <2>2 DEF Fetch
  <1>2. ASSUME NEW p \in Processes, Replay(p) PROVE HandMatchesPlace'
    <2>1. PICK m \in Messages : hand' = [hand EXCEPT ![p] = m]
      BY <1>2, <1>a DEF Replay, TypeOK
    <2> QED BY <1>0, <1>2, <1>a, <2>1 DEF Replay
  <1>b. ASSUME NEW p \in Processes, Finish(p) PROVE HandMatchesPlace'
    <2>1. pc'[p] = "poll" /\ at'[p] = 0
      BY <1>a, <1>b
    <2>2. \A o \in Processes \ {p} : pc'[o] = pc[o] /\ hand'[o] = hand[o] /\ at'[o] = at[o]
      BY <1>a, <1>b
    <2> QED BY <1>0, <1>a, <2>1, <2>2
  <1>c. ASSUME NEW p \in Processes, NEW w \in {"commit", "dead", "hung"},
               pc[p] # "poll", w \in {"dead", "hung"} => at[p] # 0,
               pc' = [pc EXCEPT ![p] = w], UNCHANGED <<hand, at>>
        PROVE  HandMatchesPlace'
    BY <1>0, <1>a, <1>c
  <1>3. ASSUME NEW p \in Processes, Skip(p) \/ Commit(p) \/ Crash(p) PROVE HandMatchesPlace'
    BY <1>b, <1>3 DEF Skip, Commit, Crash
  <1>4. ASSUME NEW p \in Processes, Read(p) PROVE HandMatchesPlace'
    BY <1>c, <1>4 DEF Read
  <1>6. ASSUME NEW p \in Processes, Raise(p) PROVE HandMatchesPlace'
    <2>1. CASE at[p] # 0
      <3>1. pc[p] # "poll" /\ pc' = [pc EXCEPT ![p] = "dead"] /\ UNCHANGED <<hand, at>>
        BY <1>6, <2>1 DEF Raise
      <3> QED BY <1>c, <2>1, <3>1
    <2>2. CASE at[p] = 0
      <3>1. Finish(p)
        BY ONLY <1>6, <2>2 DEF Raise
      <3> QED BY <1>b, <3>1
    <2> QED BY <2>1, <2>2
  <1>7. ASSUME NEW p \in Processes, DeadLetter(p) PROVE HandMatchesPlace'
    <2>1. Finish(p) \/ (pc[p] = "dead" /\ pc' = [pc EXCEPT ![p] = "hung"] /\ UNCHANGED <<hand, at>>)
      BY ONLY <1>7 DEF DeadLetter
    <2>2. CASE Finish(p)
      BY <1>b, <2>2
    <2>3. CASE pc[p] = "dead" /\ pc' = [pc EXCEPT ![p] = "hung"] /\ UNCHANGED <<hand, at>>
      <3>1. at[p] # 0
        BY <1>a, <2>3
      <3> QED BY <1>c, <2>3, <3>1
    <2> QED BY <2>1, <2>2, <2>3
  <1>8. ASSUME UNCHANGED sessionVars PROVE HandMatchesPlace'
    BY <1>0, <1>8, <1>a
  <1>9. ASSUME NEW p \in Processes, AutoCommit(p) \/ Rebalance(p) \/ Emission(p)
        PROVE  HandMatchesPlace'
    BY <1>8, <1>9 DEF AutoCommit, CommitPositions, Rebalance, Emission
  <1>10. ASSUME TickRead \/ TickWrite \/ UNCHANGED vars PROVE HandMatchesPlace'
    BY <1>8, <1>10 DEF TickRead, TickWrite, vars
  <1> QED BY <1>1, <1>2, <1>3, <1>4, <1>6, <1>7, <1>9, <1>10 DEF Consume, Handle

\* The steps that move no offset.
LEMMA OffsetCases ==
  ASSUME [Consume]_vars
  PROVE  \/ \E p \in Processes : Fetch(p) \/ AutoCommit(p) \/ Crash(p) \/ Rebalance(p)
         \/ UNCHANGED groupVars
  BY DEF Consume, Handle, Skip, Read, Commit, DeadLetter, Replay, Raise, Emission, TickRead,
         TickWrite, vars

\* A crashed or evicted process leaves its partitions to others.
LEMMA LeaveCases ==
  ASSUME NEW p \in Processes, Crash(p) \/ Rebalance(p)
  PROVE  committed' = committed /\ \E H \in SUBSET Processes : Reassign(p, H)
  BY DEF Crash, Rebalance

LEMMA OffsetsFitNext == SettleInv /\ [Consume]_vars => OffsetsFit'
  <1> SUFFICES ASSUME SettleInv, [Consume]_vars PROVE OffsetsFit'
    OBVIOUS
  <1>0. topic' = topic /\ TypeOK /\ OffsetsFit /\ Len(topic) \in Nat
    BY RecordsGrow, LenProperties DEF SettleInv, TypeOK
  <1>1. /\ position \in [Partitions -> Nat] /\ committed \in [Partitions -> Nat \union {-1}]
        /\ \A q \in Partitions : position[q] <= Len(topic) /\ committed[q] <= Len(topic)
        /\ \A q \in Resumed : q \in Partitions /\ committed[q] # -1
    BY <1>0, SettlementAssumption DEF TypeOK, OffsetsFit, NoOffset
  <1>2. ASSUME NEW p \in Processes, Fetch(p) PROVE OffsetsFit'
    <2>0. PICK q \in Partitions : \E i \in Ahead(q) : position' = [position EXCEPT ![q] = i]
      BY <1>2 DEF Fetch
    <2>1. PICK i \in Ahead(q) : position' = [position EXCEPT ![q] = i]
      BY <2>0
    <2>2. i \in DOMAIN topic /\ i <= Len(topic)
      BY <1>0, PartType DEF Ahead
    <2>3. \A o \in Partitions : position'[o] <= Len(topic)
      BY <1>1, <2>1, <2>2
    <2> QED BY <1>0, <1>2, <2>3 DEF Fetch, OffsetsFit
  <1>3. ASSUME NEW p \in Processes, AutoCommit(p) PROVE OffsetsFit'
    <2>1. \A q \in Partitions : committed'[q] = position[q] \/ committed'[q] = committed[q]
      BY <1>3 DEF AutoCommit, CommitPositions
    <2>2. \A q \in Partitions : committed'[q] <= Len(topic)
      BY <1>1, <2>1
    <2>3. \A q \in Resumed : committed'[q] # -1
      BY <1>1, <2>1
    <2> QED BY <1>0, <1>3, <2>2, <2>3 DEF AutoCommit, CommitPositions, OffsetsFit, NoOffset
  <1>4. ASSUME NEW p \in Processes, Crash(p) \/ Rebalance(p) PROVE OffsetsFit'
    <2>1. PICK H \in SUBSET Processes : Reassign(p, H)
      BY <1>4, LeaveCases
    <2>2. ASSUME NEW q \in Partitions PROVE position'[q] <= Len(topic)
      <3>1. \/ position'[q] = position[q] \/ position'[q] = Len(topic)
            \/ position'[q] = committed[q]
        BY <1>0, <2>1, ReassignMeaning
      <3> QED BY <1>0, <1>1, <3>1
    <2> QED BY <1>0, <1>4, <2>2, LeaveCases DEF OffsetsFit
  <1>5. CASE UNCHANGED groupVars
    BY <1>0, <1>5 DEF OffsetsFit, groupVars
  <1> QED BY <1>2, <1>3, <1>4, <1>5, OffsetCases

\* A handler that lets its message go has handled it.
LEMMA LetGoIsHandled ==
  ASSUME SettleInv, [Consume]_vars, NEW p \in Processes, NEW i \in DOMAIN topic,
         at[p] = i, at'[p] # i,
         Skip(p) \/ Commit(p) \/ DeadLetter(p)
  PROVE  Handled(i)'
  <1>1. hand[p] = topic[i] /\ topic' = topic
    <2>1. pc[p] # "poll"
      BY DEF Skip, Commit, DeadLetter
    <2>2. i # 0
      BY PartType DEF SettleInv
    <2> QED BY <2>1, <2>2, RecordsGrow DEF SettleInv, HandMatchesPlace
  <1>2. CASE Skip(p)
    BY <1>1, <1>2 DEF Skip, Handled, Settled, dbVars
  <1>3. CASE Commit(p)
    <2>1. Key(hand[p]) \in Settled'
      BY <1>3 DEF Commit, Settled, dbVars
    <2> QED BY <1>1, <2>1 DEF Handled, Key
  <1>4. CASE DeadLetter(p)
    <2>1. hand[p] \in dlq' \union lost'
      BY <1>4 DEF DeadLetter
    <2> QED BY <1>1, <2>1 DEF Handled
  <1> QED BY <1>2, <1>3, <1>4

\* What is at a process stays there, or the process dies with it, or it has been handled.
LEMMA AtStays ==
  ASSUME SettleInv, [Consume]_vars, NEW p \in Processes, NEW i \in DOMAIN topic, at[p] = i
  PROVE  at'[p] = i \/ Handled(i)' \/ Crash(p)
  <1> SUFFICES ASSUME at'[p] # i, ~Crash(p) PROVE Handled(i)'
    OBVIOUS
  <1> USE DEF sessionVars
  <1>1. pc[p] # "poll" /\ i # 0 /\ at \in [Processes -> Nat]
    <2>1. i # 0
      BY PartType DEF SettleInv
    <2> QED BY <2>1 DEF SettleInv, HandMatchesPlace, TypeOK
  <1>2. ASSUME NEW o \in Processes, Fetch(o) \/ Replay(o) PROVE FALSE
    <2>1. o # p /\ at'[p] = at[p]
      BY <1>1, <1>2 DEF Fetch, Replay
    <2> QED BY <2>1
  <1>3. ASSUME NEW o \in Processes, Skip(o) \/ Commit(o) \/ DeadLetter(o)
        PROVE  o = p
    BY <1>1, <1>3 DEF Skip, Commit, DeadLetter, Finish
  <1>4. ASSUME NEW o \in Processes, Raise(o) PROVE FALSE
    <2>1. at' = at \/ (at[o] = 0 /\ at' = [at EXCEPT ![o] = 0])
      BY ONLY <1>4 DEF Raise, Finish
    <2> QED BY <1>1, <2>1
  <1>5. ASSUME NEW o \in Processes, Crash(o) PROVE FALSE
    BY <1>1, <1>5 DEF Crash, Finish
  <1>6. ASSUME NEW o \in Processes, Read(o) \/ Emission(o) \/ AutoCommit(o) \/ Rebalance(o)
        PROVE  FALSE
    BY <1>6 DEF Read, Emission, AutoCommit, CommitPositions, Rebalance
  <1>7. ASSUME TickRead \/ TickWrite \/ UNCHANGED vars PROVE FALSE
    BY <1>7 DEF TickRead, TickWrite, vars
  <1> QED BY <1>2, <1>3, <1>4, <1>5, <1>6, <1>7, LetGoIsHandled DEF Consume, Handle

\* What has been read stays handled, at its partition's owner, committed or passed over.
LEMMA ReadNext == SettleInv /\ [Consume]_vars => ReadIsHandled'
  <1> SUFFICES ASSUME SettleInv, [Consume]_vars, NEW i \in DOMAIN topic',
                      i <= position'[Part(i)']
               PROVE  \/ Handled(i)' \/ PassedOver(i)' \/ i <= committed'[Part(i)']
                      \/ at'[owner'[Part(i)']] = i
    BY DEF ReadIsHandled
  <1> DEFINE q == Part(i)
             Safe == \/ Handled(i)' \/ PassedOver(i)' \/ i <= committed'[q] \/ at'[owner'[q]] = i
  <1>0. /\ topic' = topic /\ i \in DOMAIN topic /\ Part(i)' = q /\ TypeOK /\ OffsetsFit
        /\ i \in Nat \ {0} /\ i <= Len(topic) /\ Len(topic) \in Nat
        /\ q \in Partitions /\ owner[q] \in Processes /\ position[q] \in Nat
        /\ committed[q] \in Nat \union {-1}
    BY RecordsGrow, PartType, LenProperties DEF SettleInv, Part, TypeOK
  <1> SUFFICES Safe
    BY <1>0
  <1>1. Handled(i) => Handled(i)'
    BY <1>0, RecordsGrow, HandledStays
  <1>2. i <= position[q] =>
          Handled(i) \/ PassedOver(i) \/ i <= committed[q] \/ at[owner[q]] = i
    BY <1>0 DEF SettleInv, ReadIsHandled
  <1> HIDE DEF q
  <1>p. PassedOver(i)' <=> i \in skipped' /\ q \notin Resumed
    BY <1>0 DEF PassedOver
  <1>q. PassedOver(i) <=> i \in skipped /\ q \notin Resumed
    BY DEF PassedOver, q
  <1>3. ASSUME i <= position[q], skipped \subseteq skipped', owner'[q] = owner[q], committed'[q] = committed[q],
               ~Crash(owner[q])
        PROVE  Safe
    <2>1. CASE at[owner[q]] = i
      BY <1>0, <1>3, <2>1, AtStays
    <2>2. CASE Handled(i) \/ PassedOver(i) \/ i <= committed[q]
      BY <1>1, <1>3, <1>p, <1>q, <2>2
    <2> QED BY <1>2, <1>3, <2>1, <2>2
  <1>4. ASSUME NEW p \in Processes, Fetch(p) PROVE Safe
    <2>0. PICK r \in Partitions : \E k \in Ahead(r) :
            /\ owner[r] = p /\ position' = [position EXCEPT ![r] = k] /\ at' = [at EXCEPT ![p] = k]
            /\ \A j \in Ahead(r) : k <= j
      BY <1>4 DEF Fetch
    <2>1. PICK k \in Ahead(r) :
            /\ owner[r] = p /\ position' = [position EXCEPT ![r] = k] /\ at' = [at EXCEPT ![p] = k]
            /\ \A j \in Ahead(r) : k <= j
      BY <2>0
    <2>2. UNCHANGED <<owner, committed, skipped>> /\ pc[p] = "poll" /\ pc' = [pc EXCEPT ![p] = "read"]
      BY <1>4 DEF Fetch
    <2>3. CASE i <= position[q]
      <3>1. CASE at[owner[q]] = i
        <4>1. pc[owner[q]] # "poll"
          BY <1>0, <3>1 DEF SettleInv, HandMatchesPlace
        <4>2. owner[q] # p /\ at'[owner[q]] = at[owner[q]]
          BY <1>0, <2>1, <2>2, <4>1 DEF TypeOK
        <4> QED BY <2>2, <3>1, <4>2
      <3>2. CASE Handled(i) \/ PassedOver(i) \/ i <= committed[q]
        BY <1>1, <1>p, <1>q, <2>2, <3>2
      <3> QED BY <1>2, <2>3, <3>1, <3>2
    <2>4. CASE ~(i <= position[q])
      <3>1. r = q /\ i <= k
        BY <1>0, <2>1, <2>4 DEF TypeOK
      <3>2. i \in Ahead(q)
        BY <1>0, <2>4 DEF Ahead, q
      <3>3. k \in Nat
        BY <1>0, PartType DEF Ahead
      <3>4. i = k
        BY <1>0, <2>1, <3>1, <3>2, <3>3
      <3>5. at'[owner'[q]] = i
        BY <1>0, <2>1, <2>2, <3>1, <3>4 DEF TypeOK
      <3> QED BY <3>5
    <2> QED BY <2>3, <2>4
  <1>5. ASSUME NEW p \in Processes, AutoCommit(p) PROVE Safe
    <2>1. UNCHANGED <<owner, position, skipped, at>> /\ i <= position[q]
          /\ committed' = [r \in Partitions |-> IF owner[r] = p THEN position[r] ELSE committed[r]]
      BY <1>0, <1>5 DEF AutoCommit, CommitPositions, sessionVars
    <2>2. committed'[q] = position[q] \/ committed'[q] = committed[q]
      BY <1>0, <2>1
    <2>3. i <= committed'[q] \/ committed'[q] = committed[q]
      BY <2>1, <2>2
    <2> QED BY <1>1, <1>2, <1>p, <1>q, <2>1, <2>3
  <1>6. ASSUME NEW p \in Processes, Crash(p) \/ Rebalance(p) PROVE Safe
    <2>1. PICK H \in SUBSET Processes : Reassign(p, H)
      BY <1>6, LeaveCases
    <2>2. committed' = committed /\ skipped \subseteq skipped'
      BY <1>0, <1>6, <2>1, LeaveCases, ReassignMeaning
    <2>3. CASE owner[q] = p
      <3>1. CASE committed[q] # NoOffset
        <4>1. position'[q] = committed[q]
          BY <1>0, <2>1, <2>3, <3>1, ReassignMeaning
        <4> QED BY <1>0, <2>2, <4>1
      <3>2. CASE committed[q] = NoOffset
        <4>1. q \notin Resumed
          BY <1>0, <3>2 DEF OffsetsFit
        <4>2. CASE i \in Forsaken(q)
          <5>1. i \in skipped'
            BY <1>0, <2>1, <2>3, <4>2, ReassignMeaning
          <5> QED BY <1>p, <4>1, <5>1
        <4>3. CASE i \notin Forsaken(q)
          <5>1. ~(i > position[q]) /\ \A o \in Processes : at[o] # i
            BY <1>0, <3>2, <4>3 DEF Forsaken, q
          <5>2. i <= position[q] /\ ~(i <= committed[q]) /\ at[owner[q]] # i
            BY <1>0, <3>2, <5>1 DEF NoOffset
          <5> QED BY <1>1, <1>2, <1>p, <1>q, <2>2, <5>2
        <4> QED BY <4>2, <4>3
      <3> QED BY <3>1, <3>2
    <2>4. CASE owner[q] # p
      <3>1. owner'[q] = owner[q] /\ position'[q] = position[q] /\ i <= position[q]
        BY <1>0, <2>1, <2>4, ReassignMeaning
      <3>2. CASE at[owner[q]] = i
        <4>1. at'[owner[q]] = at[owner[q]]
          BY <1>0, <1>6, <2>4 DEF Crash, Rebalance, Finish, sessionVars, TypeOK
        <4> QED BY <3>1, <3>2, <4>1
      <3>3. CASE Handled(i) \/ PassedOver(i) \/ i <= committed[q]
        BY <1>1, <1>p, <1>q, <2>2, <3>3
      <3> QED BY <1>2, <3>1, <3>2, <3>3
    <2> QED BY <2>3, <2>4
  <1>7. CASE UNCHANGED groupVars
    <2>1. UNCHANGED <<owner, committed, skipped, position>> /\ i <= position[q]
      BY <1>0, <1>7 DEF groupVars
    <2>2. CASE Crash(owner[q])
      BY <1>0, <1>6, <2>2
    <2> QED BY <1>3, <2>1, <2>2
  <1> QED BY <1>4, <1>5, <1>6, <1>7, OffsetCases

\* An offset is committed when its message is handled, on its way to the dead letters or
\* passed over, and stays so.
LEMMA ForgetNext == SettleInv /\ [Consume]_vars => NothingForgotten'
  <1> DEFINE Dying(i) == \E p \in Processes : at[p] = i /\ pc[p] \in {"dead", "hung"}
  <1> SUFFICES ASSUME SettleInv, [Consume]_vars, NEW i \in DOMAIN topic', i <= committed'[Part(i)']
               PROVE  Handled(i)' \/ PassedOver(i)' \/ Dying(i)'
    BY DEF NothingForgotten, Handled, PassedOver
  <1> DEFINE q == Part(i)
  <1>0. /\ topic' = topic /\ i \in DOMAIN topic /\ Part(i)' = q /\ TypeOK /\ OffsetsFit
        /\ i \in Nat \ {0} /\ q \in Partitions /\ owner[q] \in Processes
    BY RecordsGrow, PartType DEF SettleInv, Part
  <1>1. Handled(i) => Handled(i)'
    BY <1>0, RecordsGrow, HandledStays
  <1>2. i <= committed[q] => Handled(i) \/ PassedOver(i) \/ Dying(i)
    BY <1>0 DEF SettleInv, NothingForgotten, Handled, PassedOver
  <1>3. i <= position[q] =>
          Handled(i) \/ PassedOver(i) \/ i <= committed[q] \/ at[owner[q]] = i
    BY <1>0 DEF SettleInv, ReadIsHandled
  <1>4. PassedOver(i) => PassedOver(i)'
    <2>1. skipped \subseteq skipped'
      <3>1. ASSUME NEW p \in Processes, Crash(p) \/ Rebalance(p) PROVE skipped \subseteq skipped'
        BY <1>0, <3>1, LeaveCases, ReassignMeaning
      <3>2. ASSUME NEW p \in Processes, Fetch(p) \/ AutoCommit(p) PROVE skipped \subseteq skipped'
        BY <3>2 DEF Fetch, AutoCommit, CommitPositions
      <3> QED BY <3>1, <3>2, OffsetCases DEF groupVars
    <2> QED BY <1>0, <2>1 DEF PassedOver
  <1> HIDE DEF q
  <1>6. ASSUME NEW p \in Processes, Crash(p), i <= committed[q], at[p] = i, pc[p] \in {"dead", "hung"}
        PROVE  Handled(i)'
    <2>1. hand[p] = topic[i] /\ PartitionOf[hand[p]] = q
      BY <1>0, <1>6 DEF SettleInv, HandMatchesPlace, Part, q
    <2>2. hand[p] \in lost'
      BY <1>6, <2>1 DEF Crash
    <2> QED BY <1>0, <2>1, <2>2 DEF Handled
  <1>5. ASSUME Dying(i), i <= committed[q] PROVE Handled(i)' \/ Dying(i)'
    <2>1. PICK p \in Processes : at[p] = i /\ pc[p] \in {"dead", "hung"}
      BY <1>5
    <2>2. CASE at'[p] = i
      <3>1. pc'[p] \in {"dead", "hung"}
        <4> USE DEF sessionVars
        <4>1. pc[p] # "poll" /\ i # 0 /\ pc \in [Processes -> {"poll", "read", "commit", "dead", "hung"}]
              /\ at \in [Processes -> Nat]
          BY <1>0, <2>1 DEF TypeOK
        <4>2. ASSUME NEW o \in Processes, Fetch(o) \/ Replay(o) \/ Skip(o) \/ Read(o) \/ Commit(o)
              PROVE  pc'[p] = pc[p]
          BY <2>1, <4>1, <4>2 DEF Fetch, Replay, Skip, Read, Commit, Finish
        <4>3. ASSUME NEW o \in Processes, Raise(o) PROVE pc'[p] = pc[p]
          BY <2>1, <4>1, <4>3 DEF Raise, Finish
        <4>4. ASSUME NEW o \in Processes, DeadLetter(o) PROVE pc'[p] \in {"dead", "hung"}
          <5>1. \/ pc' = [pc EXCEPT ![o] = "poll"] /\ at' = [at EXCEPT ![o] = 0]
                \/ pc' = [pc EXCEPT ![o] = "hung"]
            BY ONLY <4>4 DEF DeadLetter, Finish
          <5> QED BY <2>1, <2>2, <4>1, <5>1
        <4>5. ASSUME NEW o \in Processes, Crash(o) PROVE pc'[p] = pc[p]
          <5>1. pc' = [pc EXCEPT ![o] = "poll"] /\ at' = [at EXCEPT ![o] = 0]
            BY <4>5 DEF Crash, Finish
          <5> QED BY <2>1, <2>2, <4>1, <5>1
        <4>6. ASSUME NEW o \in Processes, Emission(o) \/ AutoCommit(o) \/ Rebalance(o)
              PROVE  pc'[p] = pc[p]
          BY <4>6 DEF Emission, AutoCommit, CommitPositions, Rebalance
        <4>7. ASSUME TickRead \/ TickWrite \/ UNCHANGED vars PROVE pc'[p] = pc[p]
          BY <4>7 DEF TickRead, TickWrite, vars
        <4> QED BY <2>1, <4>2, <4>3, <4>4, <4>5, <4>6, <4>7 DEF Consume, Handle
      <3> QED BY <2>2, <3>1
    <2>3. CASE at'[p] # i
      BY <1>0, <1>5, <1>6, <2>1, <2>3, AtStays
    <2> QED BY <2>2, <2>3
  <1>7. CASE i <= committed[q]
    BY <1>1, <1>2, <1>4, <1>5, <1>7
  <1>8. CASE ~(i <= committed[q])
    <2>1. PICK p \in Processes : AutoCommit(p)
      <3>1. committed'[q] # committed[q]
        BY <1>0, <1>8
      <3>2. \A p \in Processes : ~Fetch(p) /\ ~Crash(p) /\ ~Rebalance(p)
        BY <3>1 DEF Fetch, Crash, Rebalance
      <3> QED BY <3>1, <3>2, OffsetCases DEF groupVars
    <2>2. /\ pc[p] \notin {"read", "commit"} /\ UNCHANGED <<pc, at>>
          /\ committed' = [r \in Partitions |-> IF owner[r] = p THEN position[r] ELSE committed[r]]
      BY <2>1 DEF AutoCommit, CommitPositions, sessionVars
    <2>3. owner[q] = p /\ i <= position[q]
      BY <1>0, <1>8, <2>2
    <2>4. CASE at[p] = i
      <3>1. pc[p] \in {"dead", "hung"}
        BY <1>0, <2>2, <2>4 DEF SettleInv, HandMatchesPlace, TypeOK
      <3> QED BY <2>2, <2>4, <3>1
    <2>5. CASE Handled(i) \/ PassedOver(i)
      BY <1>1, <1>4, <2>5
    <2> QED BY <1>3, <1>8, <2>3, <2>4, <2>5
  <1> QED BY <1>7, <1>8

\* SettleInv holds in every state.
LEMMA SettleInvariant == Spec => []SettleInv
  <1>1. SettleInv /\ [Consume]_vars => SettleInv'
    BY TypeNext, PlaceNext, OffsetsFitNext, ReadNext, ForgetNext DEF SettleInv
  <1>2. SettleInv /\ [Next]_vars => SettleInv'
    BY <1>1, ArriveNext, NextCases
  <1> QED BY SettleInit, <1>2, PTL DEF Spec

\* The variables of the consumer always hold values of their types.
THEOREM TypeCorrect == Spec => []TypeOK
  BY SettleInvariant, PTL DEF SettleInv

\* However arrivals, handlers, crashes, rebalances and the background commits interleave, a
\* committed offset leaves behind no message of a known NPC but those that "latest" passes
\* over before their partition's first commit: its pair is in the ledger, or it is a dead
\* letter, or on its way to become one, or lost on that way.
THEOREM OffsetsForgetNothing == Spec => []NothingForgotten
  BY SettleInvariant, PTL DEF SettleInv

\* Gold moves only with a new ledger row of the NPC, or by the tick.
THEOREM GoldOnlyWithRows == Spec => GoldMovesWithLedger
  <1> DEFINE Moves == \A n \in NPCs :
        gold'[n] # gold[n] =>
          \/ \E m \in ledger' : m.npc = n /\ Key(m) \notin Settled
          \/ tick # NoTick /\ tick.npc = n
  <1>1. SettleInv /\ [Next]_vars => [Moves]_vars
    <2> SUFFICES ASSUME SettleInv, Next, NEW n \in NPCs, gold'[n] # gold[n]
                 PROVE  \/ \E m \in ledger' : m.npc = n /\ Key(m) \notin Settled
                        \/ tick # NoTick /\ tick.npc = n
      OBVIOUS
    <2>1. (\E p \in Processes : Commit(p)) \/ TickWrite
      <3>1. ASSUME NEW p \in Processes, Replay(p) \/ Raise(p) \/ Emission(p) \/ AutoCommit(p)
                                       \/ Crash(p) \/ Rebalance(p)
            PROVE  UNCHANGED gold
        BY <3>1 DEF Replay, Raise, Emission, AutoCommit, CommitPositions, Crash, Rebalance, dbVars
      <3> QED BY <3>1 DEF Next, Handle, Fetch, Skip, Read, DeadLetter, Arrive, TickRead, dbVars
    <2>2. ASSUME NEW p \in Processes, Commit(p)
          PROVE  \E m \in ledger' : m.npc = n /\ Key(m) \notin Settled
      <3>1. hand[p] \in Messages
        BY <2>2 DEF Commit, SettleInv, HandMatchesPlace
      <3>2. Key(hand[p]) \notin Settled /\ Pay(p) /\ ledger' = ledger \union {hand[p]}
        BY <2>2 DEF Commit, dbVars
      <3>3. \A o \in NPCs \ {hand[p].npc} : gold'[o] = gold[o]
        BY <3>1, <3>2, PayType DEF SettleInv
      <3> QED BY <3>2, <3>3
    <2>3. CASE TickWrite
      BY <2>3 DEF TickWrite, SettleInv, TypeOK
    <2> QED BY <2>1, <2>2, <2>3
  <1> QED BY SettleInvariant, <1>1, PTL DEF Spec, GoldMovesWithLedger

-----------------------------------------------------------------------------
(***************************************************************************)
(* Refinement. One process and no tick: the gold its session read is the   *)
(* gold it replaces, so the consumer implements AccountBook. MCLostUpdate  *)
(* shows that it does not with a tick beside it.                           *)
(***************************************************************************)

\* Only one session is at work.
Alone == MaxTicks = 0 /\ \A p, q \in Processes : p = q

\* The session's copy of the gold is current when it commits.
FreshInv ==
  /\ ticks = 0 /\ tick = NoTick
  /\ \A p \in Processes : pc[p] = "commit" => snap[p] = gold[hand[p].npc]

LEMMA FreshNext ==
  ASSUME Alone, SettleInv, FreshInv, [Next]_vars
  PROVE  FreshInv'
  <1> USE DEF FreshInv, groupVars, dbVars, sessionVars, tickVars, Finish
  <1>0. /\ pc \in [Processes -> {"poll", "read", "commit", "dead", "hung"}]
        /\ snap \in [Processes -> Int]
    BY DEF SettleInv, TypeOK
  <1>1. ASSUME NEW p \in Processes, Fetch(p) \/ Replay(p) \/ Skip(p) \/ Read(p) \/ Commit(p)
        PROVE  FreshInv'
    <2>1. /\ UNCHANGED <<ticks, tick>>
          /\ \A q \in Processes : q = p
      BY <1>1 DEF Alone, Fetch, Replay, Skip, Read, Commit
    <2>2. pc'[p] = "commit" => snap'[p] = gold'[hand'[p].npc]
      BY <1>0, <1>1 DEF Fetch, Replay, Skip, Read, Commit
    <2> QED BY <2>1, <2>2
  <1>5. ASSUME NEW p \in Processes, UNCHANGED <<ticks, tick, gold>>,
               pc'[p] = "commit" => pc[p] = "commit" /\ snap'[p] = snap[p] /\ hand'[p] = hand[p]
        PROVE  FreshInv'
    <2>1. \A q \in Processes : q = p
      BY DEF Alone
    <2> QED BY <1>5, <2>1
  <1>6. ASSUME NEW p \in Processes, Raise(p) \/ DeadLetter(p) PROVE FreshInv'
    <2>1. UNCHANGED <<ticks, tick, gold>>
      BY <1>6 DEF Raise, DeadLetter
    <2>2. pc' = [pc EXCEPT ![p] = "dead"] \/ pc' = [pc EXCEPT ![p] = "poll"]
          \/ pc' = [pc EXCEPT ![p] = "hung"]
      BY ONLY <1>6 DEF Raise, DeadLetter, Finish
    <2>3. pc'[p] # "commit"
      BY <1>0, <2>2
    <2> QED BY <1>5, <2>1, <2>3
  <1>2. ASSUME NEW p \in Processes, Crash(p) \/ AutoCommit(p) \/ Rebalance(p) \/ Emission(p)
        PROVE  FreshInv'
    <2>1. UNCHANGED <<ticks, tick, gold>>
      BY <1>2 DEF Crash, AutoCommit, CommitPositions, Rebalance, Emission
    <2>2. pc'[p] = "commit" => pc[p] = "commit" /\ snap'[p] = snap[p] /\ hand'[p] = hand[p]
      BY <1>0, <1>2 DEF Crash, AutoCommit, CommitPositions, Rebalance, Emission
    <2> QED BY <1>5, <2>1, <2>2
  <1>3. ASSUME TickRead \/ TickWrite PROVE FALSE
    BY <1>3 DEF Alone, TickRead, TickWrite
  <1>4. ASSUME Arrive \/ UNCHANGED vars PROVE FreshInv'
    BY <1>4 DEF Arrive, vars
  <1> QED BY <1>1, <1>2, <1>3, <1>4, <1>6 DEF Next, Handle

\* With a single session only its commit writes the books.
LEMMA OnlyCommits ==
  ASSUME Alone, FreshInv, [Next]_vars
  PROVE  (\E p \in Processes : Commit(p)) \/ UNCHANGED <<dbVars, earned>>
  <1> USE DEF dbVars, tickVars
  <1>1. ASSUME NEW p \in Processes, Replay(p) \/ Raise(p) \/ Emission(p) \/ AutoCommit(p)
                                   \/ Crash(p) \/ Rebalance(p)
        PROVE  UNCHANGED <<dbVars, earned>>
    BY <1>1 DEF Replay, Raise, Emission, AutoCommit, CommitPositions, Crash, Rebalance
  <1>2. ASSUME NEW p \in Processes, Fetch(p) \/ Skip(p) \/ Read(p) \/ DeadLetter(p)
        PROVE  UNCHANGED <<dbVars, earned>>
    BY <1>2 DEF Fetch, Skip, Read, DeadLetter
  <1>3. ASSUME Arrive \/ TickRead \/ TickWrite \/ UNCHANGED vars PROVE UNCHANGED <<dbVars, earned>>
    BY <1>3 DEF Arrive, TickRead, TickWrite, Alone, FreshInv, vars
  <1> QED BY <1>1, <1>2, <1>3 DEF Next, Handle

\* A step of the consumer is a step of the account book or leaves it alone: only the commit
\* of a new row moves gold.
LEMMA StepApplies ==
  ASSUME Alone, SettleInv, FreshInv, [Next]_vars
  PROVE  [Book!Next]_(Book!bookVars)
  <1> USE DEF groupVars, dbVars, sessionVars, tickVars
  <1>1. ASSUME NEW p \in Processes, Commit(p) PROVE [Book!Next]_(Book!bookVars)
    <2>1. CASE UNCHANGED dbVars
      BY <2>1 DEF Book!bookVars, Settled
    <2>2. CASE /\ Key(hand[p]) \notin Settled
               /\ Pay(p) /\ ledger' = ledger \union {hand[p]}
      <3>1. hand[p] \in Messages /\ snap[p] = gold[hand[p].npc]
        BY <1>1 DEF Commit, SettleInv, HandMatchesPlace, FreshInv
      <3>2. Settled' = Settled \union {Key(hand[p])}
        BY <2>2 DEF Settled
      <3>3. \E g \in Book!Stored(gold[hand[p].npc] + hand[p].delta) :
              gold' = [gold EXCEPT ![hand[p].npc] = g]
        BY <2>2, <3>1 DEF Pay
      <3>4. Book!Apply(hand[p])
        BY <2>2, <3>2, <3>3 DEF Book!Apply, Book!Key, Key
      <3> QED BY <3>1, <3>4 DEF Book!Next
    <2> QED BY <1>1, <2>1, <2>2 DEF Commit
  <1>2. ASSUME UNCHANGED dbVars PROVE [Book!Next]_(Book!bookVars)
    BY <1>2 DEF Book!bookVars, Settled
  <1>3. (\E p \in Processes : Commit(p)) \/ UNCHANGED dbVars
    BY OnlyCommits
  <1> QED BY <1>1, <1>2, <1>3

\* Every delivery, redelivery and replay of a message together move the gold of its NPC
\* exactly once, when a single session writes gold.
THEOREM AppliesExactlyOnce == Alone => (Spec => ExactlyOnce)
  <1> SUFFICES ASSUME Alone PROVE Spec => ExactlyOnce
    OBVIOUS
  <1>1. Init => FreshInv /\ Book!Init
    BY SettlementAssumption DEF Init, FreshInv, Book!Init, Settled
  <1>2. SettleInv /\ FreshInv /\ [Next]_vars => FreshInv' /\ [Book!Next]_(Book!bookVars)
    BY FreshNext, StepApplies
  <1> QED BY SettleInvariant, <1>1, <1>2, PTL DEF Spec, ExactlyOnce, Book!AccountBookSpec
-----------------------------------------------------------------------------
(***************************************************************************)
(* Wallets and rows. With one session at work, what the rows of an NPC add *)
(* up to is what the consumer has moved. MCLostUpdate shows that it is not *)
(* so with a tick beside it.                                               *)
(***************************************************************************)

\* The rows can be added up, and add up to the gold that has moved.
LedgerInv == IsFiniteSet(ledger) /\ GoldMatchesLedger

\* One more row adds its delta to its NPC's sum and to no other.
LEMMA CreditedGrows ==
  ASSUME TypeOK, IsFiniteSet(ledger), NEW m \in Messages, m \notin ledger,
         ledger' = ledger \union {m}, NEW n \in NPCs
  PROVE  /\ Credited(n) \in Int
         /\ Credited(n)' = Credited(n) + (IF m.npc = n THEN m.delta ELSE 0)
         /\ Cardinality(RowsOf(n)) \in Nat
         /\ Cardinality(RowsOf(n)') = Cardinality(RowsOf(n)) + (IF m.npc = n THEN 1 ELSE 0)
  <1> DEFINE f == [row \in ledger |-> row.delta]
             g == [row \in ledger' |-> row.delta]
             T == RowsOf(n)
             U == RowsOf(n)'
  <1>1. \A row \in ledger' : g[row] = row.delta /\ g[row] \in Int
    BY SettlementAssumption DEF TypeOK
  <1>2. \A row \in T : f[row] = g[row] /\ f[row] \in Int
    BY <1>1 DEF RowsOf
  <1>3. IsFiniteSet(T) /\ m \notin T
    BY FS_Subset DEF RowsOf
  <1>4. U = IF m.npc = n THEN T \union {m} ELSE T
    BY DEF RowsOf
  <1>10. /\ Cardinality(T) \in Nat
         /\ Cardinality(U) = Cardinality(T) + (IF m.npc = n THEN 1 ELSE 0)
    BY <1>3, <1>4, FS_AddElement, FS_CardinalityType
  <1>5. Credited(n) = SumFunctionOnSet(f, T) /\ Credited(n)' = SumFunctionOnSet(g, U)
    BY DEF Credited
  <1>6. g[m] = m.delta /\ m.delta \in Int
    BY <1>1
  <1> HIDE DEF f, g, T, U
  <1>7. SumFunctionOnSet(f, T) = SumFunctionOnSet(g, T)
    BY <1>2, <1>3, SumSame
  <1>8. SumFunctionOnSet(f, T) \in Int
    BY <1>2, <1>3, SumType
  <1>9. SumFunctionOnSet(g, T \union {m}) = SumFunctionOnSet(g, T) + m.delta
    BY <1>2, <1>3, <1>6, SumAdd
  <1> QED BY <1>4, <1>5, <1>7, <1>8, <1>9, <1>10 DEF T, U

LEMMA LedgerNext ==
  ASSUME Alone, SettleInv, FreshInv, LedgerInv, [Next]_vars
  PROVE  LedgerInv'
  <1> USE DEF groupVars, dbVars, sessionVars, tickVars
  <1>1. ASSUME UNCHANGED <<gold, ledger, earned>> PROVE LedgerInv'
    BY <1>1 DEF LedgerInv, GoldMatchesLedger, Near, Credited, RowsOf
  <1>2. ASSUME NEW p \in Processes, Commit(p) PROVE LedgerInv'
    <2>1. CASE UNCHANGED dbVars
      BY <1>1, <1>2, <2>1 DEF Commit
    <2>2. CASE Key(hand[p]) \notin Settled /\ Pay(p) /\ ledger' = ledger \union {hand[p]}
      <3> DEFINE m == hand[p]
      <3>1. /\ m \in Messages /\ m.npc \in NPCs /\ m.delta \in Int
            /\ snap[p] = gold[m.npc] /\ m \notin ledger /\ earned' = earned
        BY <1>2, <2>2, SettlementAssumption DEF Commit, SettleInv, HandMatchesPlace, FreshInv, Settled
      <3>2. IsFiniteSet(ledger')
        BY <2>2, FS_AddElement DEF LedgerInv
      <3>4. /\ \A n \in NPCs \ {m.npc} : gold'[n] = gold[n]
            /\ gold' \in [NPCs -> Int]
            /\ gold'[m.npc] >= snap[p] + m.delta - Book!Half
            /\ gold'[m.npc] <= snap[p] + m.delta + Book!Half
        BY <2>2, <3>1, PayType DEF SettleInv
      <3>3. ASSUME NEW n \in NPCs PROVE Near(n, InitialGold + earned[n] + Credited(n))'
        <4> DEFINE k == Cardinality(RowsOf(n))
                   c == Credited(n)
                   start == InitialGold + earned[n]
        <4>1. /\ c \in Int /\ k \in Nat /\ start \in Int
              /\ Credited(n)' = c + (IF m.npc = n THEN m.delta ELSE 0)
              /\ Cardinality(RowsOf(n)') = k + (IF m.npc = n THEN 1 ELSE 0)
          <5>1. TypeOK /\ IsFiniteSet(ledger) /\ ledger' = ledger \union {m}
            BY <2>2 DEF SettleInv, LedgerInv
          <5>2. start \in Int
            BY SettlementAssumption DEF SettleInv, TypeOK
          <5> HIDE DEF m, start
          <5> QED BY <3>1, <5>1, <5>2, CreditedGrows
        <4>2. gold[n] >= (start + c) - Book!Half * k /\ gold[n] <= (start + c) + Book!Half * k
          <5>1. Near(n, InitialGold + earned[n] + Credited(n))
            BY DEF LedgerInv, GoldMatchesLedger
          <5>2. InitialGold + earned[n] + Credited(n) = start + c
            OBVIOUS
          <5> HIDE DEF k, c, start
          <5> QED BY <5>1, <5>2 DEF Near, k
        <4>3. gold[n] \in Int /\ gold'[n] \in Int
          BY <3>4 DEF SettleInv, TypeOK
        <4> HIDE DEF k, c
        <4>4. /\ gold'[n] >= (start + Credited(n)') - Book!Half * Cardinality(RowsOf(n)')
              /\ gold'[n] <= (start + Credited(n)') + Book!Half * Cardinality(RowsOf(n)')
          <5>1. CASE m.npc = n
            <6>1. Credited(n)' = c + m.delta /\ Cardinality(RowsOf(n)') = k + 1 /\ snap[p] = gold[n]
              BY <3>1, <4>1, <5>1
            <6>2. Book!Half * (k + 1) = Book!Half * k + Book!Half /\ Book!Half * k \in Nat
              BY <4>1, HalfType
            <6>3. /\ gold'[n] >= (gold[n] + m.delta) - Book!Half
                  /\ gold'[n] <= (gold[n] + m.delta) + Book!Half
              BY <3>1, <3>4, <4>3, <5>1, HalfType
            <6> HIDE DEF m, start
            <6> QED BY <3>1, <4>1, <4>2, <4>3, <6>1, <6>2, <6>3, HalfType
          <5>2. CASE m.npc # n
            <6>1. Credited(n)' = c /\ Cardinality(RowsOf(n)') = k /\ gold'[n] = gold[n]
              BY <3>4, <4>1, <5>2
            <6> QED BY <4>2, <6>1
          <5> QED BY <5>1, <5>2
        <4>5. (InitialGold + earned[n] + Credited(n))' = start + Credited(n)'
          BY <3>1
        <4> HIDE DEF start
        <4> QED BY <4>4, <4>5 DEF Near
      <3> QED BY <3>2, <3>3 DEF LedgerInv, GoldMatchesLedger
    <2> QED BY <1>2, <2>1, <2>2 DEF Commit
  <1>3. (\E p \in Processes : Commit(p)) \/ UNCHANGED <<gold, ledger, earned>>
    BY OnlyCommits DEF dbVars
  <1> QED BY <1>1, <1>2, <1>3

LEMMA LedgerInit == Init => LedgerInv
  <1> SUFFICES ASSUME Init PROVE LedgerInv
    OBVIOUS
  <1>1. IsFiniteSet(ledger)
    BY FS_EmptySet DEF Init
  <1>2. ASSUME NEW n \in NPCs PROVE Near(n, InitialGold + earned[n] + Credited(n))
    <2>1. RowsOf(n) = {}
      BY DEF Init, RowsOf
    <2>2. Credited(n) = 0
      BY <2>1, SumEmpty DEF Credited
    <2>3. Book!Half * Cardinality(RowsOf(n)) = 0
      BY <2>1, FS_EmptySet, HalfType
    <2>4. gold[n] = InitialGold /\ earned[n] = 0 /\ InitialGold \in Int
      BY SettlementAssumption DEF Init
    <2> QED BY <2>2, <2>3, <2>4 DEF Near
  <1> QED BY <1>1, <1>2 DEF LedgerInv, GoldMatchesLedger

\* The docstring of ProcessedTrade, for a single session: every wallet is what it started with
\* and what its rows say, to within half a coin for each row, whatever is delivered again,
\* dead-lettered or replayed.
THEOREM WalletsMatchRows == Alone => (Spec => []GoldMatchesLedger)
  <1> SUFFICES ASSUME Alone PROVE Spec => []GoldMatchesLedger
    OBVIOUS
  <1>1. Init => FreshInv
    BY DEF Init, FreshInv
  <1>2. SettleInv /\ FreshInv /\ LedgerInv /\ [Next]_vars => FreshInv' /\ LedgerInv'
    BY FreshNext, LedgerNext
  <1>3. LedgerInv => GoldMatchesLedger
    BY DEF LedgerInv
  <1> QED BY SettleInvariant, LedgerInit, <1>1, <1>2, <1>3, PTL DEF Spec
=============================================================================
