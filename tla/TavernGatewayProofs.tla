------------------------ MODULE TavernGatewayProofs ------------------------
(***************************************************************************)
(* TavernGateway, for any nodes, clients, logs and bounds: the types, that *)
(* nothing is committed before its handler has ended, and that every       *)
(* client is served in the one order of Redis.                             *)
(***************************************************************************)
EXTENDS TavernGateway, SumTheorems, SequenceTheorems

LEMMA PlaceMeaning ==
  ASSUME NEW p \in Partitions, NEW i \in 1 .. Len(Logs[p])
  PROVE  /\ <<p, i>> \in Places /\ <<p, i>> # None
         /\ At(<<p, i>>) = Logs[p][i] /\ Logs[p][i] \in Messages
  <1>1. Logs[p] \in Seq(Messages)
    BY LogsAssumption
  <1>2. DOMAIN Logs[p] = 1 .. Len(Logs[p]) /\ Logs[p][i] \in Messages
    BY <1>1, LenProperties, ElementOfSeq
  <1>3. <<p, i>> \in {p} \X DOMAIN Logs[p]
    BY <1>2
  <1>4. <<p, i>> \in Partitions \X Nat
    OBVIOUS
  <1> QED BY <1>2, <1>3, <1>4, LogsAssumption DEF Places, At

LEMMA PlaceType == ASSUME NEW x \in Places PROVE At(x) \in Messages /\ x # None
  <1>1. PICK p \in Partitions : x \in {p} \X DOMAIN Logs[p]
    BY DEF Places
  <1>2. DOMAIN Logs[p] = 1 .. Len(Logs[p])
    BY LogsAssumption, LenProperties
  <1>3. PICK i \in 1 .. Len(Logs[p]) : x = <<p, i>>
    BY <1>1, <1>2
  <1> QED BY <1>3, PlaceMeaning

LEMMA TimesType ==
  ASSUME NEW S, NEW x \in S, NEW k \in Nat PROVE Times(k, x) \in Seq(S) /\ Len(Times(k, x)) = k
  BY DEF Times

LEMMA KeepType ==
  ASSUME NEW items \in Seq(Messages), NEW m \in Messages
  PROVE  Keep(items, m) \in Seq(Messages) /\ Len(Keep(items, m)) <= BufferMax
  <1> DEFINE all == <<m>> \o items
             top == IF Len(items) < BufferMax THEN Len(items) + 1 ELSE BufferMax
  <1>1. all \in Seq(Messages) /\ Len(all) = Len(items) + 1 /\ Len(items) \in Nat
    BY ConcatProperties, LenProperties
  <1>2. top \in Nat /\ top <= BufferMax /\ top <= Len(all)
    BY <1>1, LimitsAssumption
  <1>3. Keep(items, m) = SubSeq(all, 1, top)
    BY DEF Keep
  <1> HIDE DEF all, top
  <1>4. SubSeq(all, 1, top) \in Seq(Messages) /\ Len(SubSeq(all, 1, top)) = top
    BY <1>1, <1>2, SubSeqProperties
  <1> QED BY <1>2, <1>3, <1>4

-----------------------------------------------------------------------------
(* What one command does to the feeds. *)

LEMMA PublishType ==
  ASSUME published \in Seq(Messages), pipe \in [Served -> Seq(1 .. Len(published))],
         NEW n, NEW m \in Messages, NEW k \in Nat, Publish(n, m, k)
  PROVE  /\ published' \in Seq(Messages) /\ Len(published') = Len(published) + k
         /\ pipe' \in [Served -> Seq(1 .. Len(published'))]
  <1>1. published' \in Seq(Messages) /\ Len(published') = Len(published) + k
        /\ Len(published) \in Nat
    <2>1. Times(k, m) \in Seq(Messages) /\ Len(Times(k, m)) = k
      BY TimesType
    <2>2. published' = published \o Times(k, m)
      BY DEF Publish
    <2> QED BY <2>1, <2>2, ConcatProperties, LenProperties
  <1> DEFINE new == [i \in 1 .. k |-> Len(published) + i]
  <1>2. new \in Seq(1 .. Len(published'))
    BY <1>1
  <1>3. \A o \in Served : pipe[o] \in Seq(1 .. Len(published'))
    <2> SUFFICES ASSUME NEW o \in Served PROVE pipe[o] \in Seq(1 .. Len(published'))
      OBVIOUS
    <2>1. pipe[o] \in Seq(1 .. Len(published)) /\ 1 .. Len(published) \subseteq 1 .. Len(published')
      BY <1>1
    <2> QED BY <2>1, SeqMonotonic
  <1>4. pipe' = [o \in Served |-> IF linked[o] THEN pipe[o] \o new ELSE pipe[o]]
    BY DEF Publish
  <1> HIDE DEF new
  <1>5. \A o \in Served : pipe[o] \o new \in Seq(1 .. Len(published'))
    BY <1>2, <1>3, ConcatProperties
  <1> QED BY <1>1, <1>3, <1>4, <1>5

-----------------------------------------------------------------------------
(* Types. *)

LEMMA TypeInit == Init => TypeOK
  <1> SUFFICES ASSUME Init PROVE TypeOK
    OBVIOUS
  <1>1. \A p \in Partitions : Len(Logs[p]) \in Nat
    BY LogsAssumption, LenProperties
  <1>2. \A p \in Partitions : next[p] \in 1 .. Len(Logs[p]) + 1
    BY <1>1 DEF Init, Starts
  <1>4. /\ {since, next, committed} \subseteq [Partitions -> Nat] /\ skipped \subseteq Places
        /\ \A p \in Partitions : /\ next[p] \in 1 .. Len(Logs[p]) + 1 /\ since[p] \in 1 .. next[p]
                                /\ committed[p] <= Len(Logs[p]) + 1
    <2>1. next \in [Partitions -> Nat] /\ since = next
      BY <1>2 DEF Init
    <2>2. committed \in [Partitions -> Nat] /\ \A p \in Partitions : committed[p] <= 1
      BY DEF Init
    <2>3. skipped \subseteq Places
      BY DEF Init
    <2> QED BY <1>1, <1>2, <2>1, <2>2, <2>3
  <1>3. content \in [Nodes -> Seq(Messages)] /\ \A n \in Nodes : Len(content[n]) <= BufferMax
    BY LimitsAssumption DEF Init
  <1> QED BY <1>3, <1>4, StartAssumption, LimitsAssumption DEF Init, TypeOK

LEMMA BeginType ==
  ASSUME TypeOK, NEW n \in Nodes, NEW k \in Nat, NEW answered \in BOOLEAN,
         Begin(n, k, answered), faults' \in 0 .. MaxFaults
  PROVE  TypeOK'
  <1>1. PICK p \in Partitions :
          LET m == Logs[p][next[p]]
              more == answered /\ m.kind = "trade" IN
          /\ owner[p] = n /\ next[p] <= Len(Logs[p])
          /\ next' = [next EXCEPT ![p] = @ + 1]
          /\ Publish(n, m, k)
          /\ hand' = [hand EXCEPT ![n] = IF more THEN <<p, next[p]>> ELSE None]
          /\ ended' = IF more THEN ended ELSE ended \union {<<p, next[p]>>}
          /\ content' = IF answered /\ m.kind = "content"
                        THEN [content EXCEPT ![n] = Keep(@, m)] ELSE content
    BY DEF Begin
  <1> DEFINE m == Logs[p][next[p]]
  <1>2. next[p] \in 1 .. Len(Logs[p]) /\ Len(Logs[p]) \in Nat
    BY <1>1, LogsAssumption, LenProperties DEF TypeOK
  <1>3. <<p, next[p]>> \in Places /\ m \in Messages
    BY <1>2, PlaceMeaning
  <1>4. /\ published' \in Seq(Messages) /\ Len(published') = Len(published) + k
        /\ pipe' \in [Served -> Seq(1 .. Len(published'))]
    BY <1>1, <1>3, PublishType DEF TypeOK
  <1>5. /\ {since', next', committed'} \subseteq [Partitions -> Nat] /\ skipped' \subseteq Places
        /\ \A q \in Partitions : /\ next'[q] \in 1 .. Len(Logs[q]) + 1 /\ since'[q] \in 1 .. next'[q]
                                /\ committed'[q] <= Len(Logs[q]) + 1
    <2>1. /\ next' = [next EXCEPT ![p] = next[p] + 1]
          /\ committed' = committed /\ since' = since /\ skipped' = skipped
      BY <1>1 DEF Begin
    <2>2. /\ {since, next, committed} \subseteq [Partitions -> Nat] /\ skipped \subseteq Places
          /\ \A q \in Partitions : /\ next[q] \in 1 .. Len(Logs[q]) + 1 /\ since[q] \in 1 .. next[q]
                                  /\ committed[q] <= Len(Logs[q]) + 1
      BY DEF TypeOK
    <2>3. next' \in [Partitions -> Nat]
      BY ONLY <2>1, <2>2
    <2>4. next[p] + 1 \in 1 .. Len(Logs[p]) + 1 /\ since[p] \in 1 .. next[p] + 1
      BY ONLY <1>2, <2>2
    <2>5. ASSUME NEW q \in Partitions
          PROVE  next'[q] \in 1 .. Len(Logs[q]) + 1 /\ since'[q] \in 1 .. next'[q]
      <3>1. CASE q = p
        BY ONLY <2>1, <2>2, <2>4, <3>1
      <3>2. CASE q # p
        BY ONLY <2>1, <2>2, <2>5, <3>2
      <3> QED BY <3>1, <3>2
    <2> QED BY <2>1, <2>2, <2>3, <2>5
  <1>6. hand' \in [Nodes -> Places \union {None}] /\ ended' \subseteq Places
    BY <1>1, <1>3 DEF TypeOK
  <1>7. content' \in [Nodes -> Seq(Messages)] /\ \A o \in Nodes : Len(content'[o]) <= BufferMax
    <2>1. content[n] \in Seq(Messages)
      BY DEF TypeOK
    <2>2. Keep(content[n], m) \in Seq(Messages) /\ Len(Keep(content[n], m)) <= BufferMax
      BY <2>1, <1>3, KeepType
    <2>3. content' = IF answered /\ m.kind = "content"
                     THEN [content EXCEPT ![n] = Keep(content[n], m)] ELSE content
      BY <1>1
    <2>4. content' = content \/ content' = [content EXCEPT ![n] = Keep(content[n], m)]
      BY ONLY <2>3
    <2>5. content \in [Nodes -> Seq(Messages)] /\ \A o \in Nodes : Len(content[o]) <= BufferMax
      BY DEF TypeOK
    <2> QED BY ONLY <2>2, <2>4, <2>5
  <1>8. got' \in [Clients -> Seq(1 .. Len(published'))]
    <2>1. Len(published) \in Nat /\ 1 .. Len(published) \subseteq 1 .. Len(published')
      BY <1>4, LenProperties DEF TypeOK
    <2>2. ASSUME NEW c \in Clients PROVE got[c] \in Seq(1 .. Len(published'))
      <3>1. got[c] \in Seq(1 .. Len(published))
        BY DEF TypeOK
      <3> QED BY <2>1, <3>1, SeqMonotonic
    <2> QED BY <2>2 DEF Begin, clientVars, TypeOK
  <1> QED BY <1>4, <1>5, <1>6, <1>7, <1>8 DEF Begin, clientVars, TypeOK

LEMMA ScoreType ==
  ASSUME TypeOK, NEW n \in Nodes, NEW k \in Nat, Score(n, k), faults' \in 0 .. MaxFaults
  PROVE  TypeOK'
  <1>1. hand[n] \in Places
    BY DEF Score, TypeOK
  <1>2. At(hand[n]) \in Messages
    BY <1>1, PlaceType
  <1>3. k * At(hand[n]).delta \in Int
    BY <1>2 DEF Messages
  <1>4. score' \in [NPCs -> Int]
    <2>1. score' = [score EXCEPT ![At(hand[n]).npc] = @ + k * At(hand[n]).delta]
      BY DEF Score, ApplyGoldDelta
    <2> DEFINE delta == k * At(hand[n]).delta
               npc == At(hand[n]).npc
    <2>2. score' = [score EXCEPT ![npc] = @ + delta] /\ delta \in Int /\ score \in [NPCs -> Int]
      BY <1>3, <2>1 DEF TypeOK
    <2>3. npc \in NPCs
      BY <1>2 DEF Messages
    <2> HIDE DEF delta, npc
    <2>4. score[npc] + delta \in Int
      BY <2>2, <2>3
    <2> QED BY ONLY <2>2, <2>4
  <1>5. hand' \in [Nodes -> Places \union {None}] /\ ended' \subseteq Places
    BY <1>1 DEF Score, TypeOK
  <1> QED BY <1>4, <1>5 DEF Score, kafkaVars, feedVars, clientVars, TypeOK

\* The steps of the handlers, with or without a fault.
LEMMA CommandCases ==
  ASSUME TypeOK, NEW n \in Nodes, Handle(n) \/ CommandFails(n)
  PROVE  /\ faults' \in 0 .. MaxFaults
         /\ \E k \in Nat : \/ \E answered \in BOOLEAN : Begin(n, k, answered)
                           \/ Score(n, k)
  <1>1. CASE Handle(n)
    <2>1. faults' \in 0 .. MaxFaults
      BY <1>1 DEF Handle, TypeOK
    <2> QED BY <1>1, <2>1 DEF Handle
  <1>2. CASE CommandFails(n)
    <2>1. faults' \in 0 .. MaxFaults
      BY <1>2, LimitsAssumption DEF CommandFails, TypeOK
    <2> QED BY <1>2, <2>1 DEF CommandFails
  <1> QED BY <1>1, <1>2

LEMMA DeliverType == ASSUME TypeOK, NEW n \in Served, Deliver(n) PROVE TypeOK'
  <1>1. pipe[n] \in Seq(1 .. Len(published)) /\ pipe[n] # <<>>
    BY DEF Deliver, TypeOK
  <1>2. Head(pipe[n]) \in 1 .. Len(published) /\ Tail(pipe[n]) \in Seq(1 .. Len(published))
    BY <1>1, HeadTailProperties
  <1>3. pipe' \in [Served -> Seq(1 .. Len(published))]
    BY <1>2 DEF Deliver, TypeOK
  <1>4. got' \in [Clients -> Seq(1 .. Len(published))]
    <2>1. \A c \in Clients : got[c] \in Seq(1 .. Len(published))
                             /\ Append(got[c], Head(pipe[n])) \in Seq(1 .. Len(published))
      BY <1>2, AppendProperties DEF TypeOK
    <2> QED BY <2>1 DEF Deliver
  <1> QED BY <1>3, <1>4 DEF Deliver, kafkaVars, handlerVars, redisVars, TypeOK

\* A partition that changes hands is begun at the committed place or further on than it was read;
\* what is passed over is skipped.
LEMMA ReassignedMeaning ==
  ASSUME TypeOK, NEW Q \in SUBSET Partitions, Reassigned(Q)
  PROVE  /\ {since', next'} \subseteq [Partitions -> Nat]
         /\ \A p \in Partitions : next'[p] \in 1 .. Len(Logs[p]) + 1 /\ since'[p] \in 1 .. next'[p]
         /\ \A p \in Partitions \ Q : next'[p] = next[p]
         /\ \A p \in Q : next'[p] = committed[p] \/ committed[p] = 0
         /\ skipped \subseteq skipped' /\ skipped' \subseteq Places
         /\ \A p \in Q : committed[p] = 0 =>
              \A i \in 1 .. next'[p] - 1 : <<p, i>> \in ended \/ <<p, i>> \in skipped'
  <1>1. PICK start \in [Q -> UNION {Resume(p) : p \in Q}] :
          /\ \A p \in Q : start[p] \in Resume(p)
          /\ next' = [p \in Partitions |-> IF p \in Q THEN start[p] ELSE next[p]]
    BY DEF Reassigned
  <1>2. since' = [p \in Partitions |-> IF p \in Q THEN next'[p] ELSE since[p]]
    BY DEF Reassigned
  <1>3. \A p \in Partitions : Len(Logs[p]) \in Nat /\ DOMAIN Logs[p] = 1 .. Len(Logs[p])
    BY LogsAssumption, LenProperties
  <1>4. \A p \in Partitions : /\ next[p] \in 1 .. Len(Logs[p]) + 1 /\ since[p] \in 1 .. next[p]
                             /\ committed[p] \in Nat /\ committed[p] <= Len(Logs[p]) + 1
    BY DEF TypeOK
  <1>5. ASSUME NEW p \in Q
        PROVE  /\ next'[p] \in 1 .. Len(Logs[p]) + 1 /\ next'[p] = start[p]
               /\ next'[p] = committed[p] \/ committed[p] = 0
    <2>1. next'[p] = start[p] /\ start[p] \in Resume(p)
      BY <1>1
    <2>2. CASE committed[p] = 0
      BY <1>3, <1>4, <2>1, <2>2 DEF Resume
    <2>3. CASE committed[p] # 0
      BY <1>3, <1>4, <2>1, <2>3 DEF Resume
    <2> QED BY <2>1, <2>2, <2>3
  <1>6. ASSUME NEW p \in Partitions \ Q PROVE next'[p] = next[p] /\ since'[p] = since[p]
    BY <1>1, <1>2
  <1>7. ASSUME NEW p \in Partitions
        PROVE  next'[p] \in 1 .. Len(Logs[p]) + 1 /\ since'[p] \in 1 .. next'[p]
    <2>1. CASE p \in Q
      BY <1>2, <1>5, <2>1
    <2>2. CASE p \notin Q
      BY <1>4, <1>6, <2>2
    <2> QED BY <2>1, <2>2
  <1>8. {since', next'} \subseteq [Partitions -> Nat]
    <2>1. \A p \in Partitions : next'[p] \in Nat /\ since'[p] \in Nat
      BY <1>3, <1>7
    <2> QED BY <1>1, <1>2, <2>1
  <1>9. /\ skipped' = skipped \union
            {place \in Places \ ended : /\ place[1] \in {p \in Q : committed[p] = 0}
                                       /\ place[2] < next'[place[1]]}
    BY DEF Reassigned
  <1>10. ASSUME NEW p \in Q, committed[p] = 0, NEW i \in 1 .. next'[p] - 1
         PROVE  <<p, i>> \in ended \/ <<p, i>> \in skipped'
    <2>1. i \in 1 .. Len(Logs[p]) /\ i < next'[p]
      BY <1>3, <1>5
    <2>2. <<p, i>> \in Places
      BY <2>1, PlaceMeaning
    <2> QED BY <1>9, <1>10, <2>1, <2>2
  <1>11. skipped \subseteq skipped' /\ skipped' \subseteq Places
    BY <1>9 DEF TypeOK
  <1> QED BY <1>5, <1>6, <1>7, <1>8, <1>10, <1>11

LEMMA TypeNext == TypeOK /\ [Next]_vars => TypeOK'
  <1> SUFFICES ASSUME TypeOK, [Next]_vars PROVE TypeOK'
    OBVIOUS
  <1> USE DEF kafkaVars, handlerVars, redisVars, feedVars, clientVars
  <1>1. ASSUME NEW n \in Nodes, Handle(n) \/ CommandFails(n) PROVE TypeOK'
    BY <1>1, CommandCases, BeginType, ScoreType
  <1>2. ASSUME NEW n \in Nodes, AutoCommit(n) PROVE TypeOK'
    <2>1. committed' = [p \in Partitions |-> IF owner[p] = n /\ next[p] > since[p]
                                              THEN next[p] ELSE committed[p]]
      BY <1>2 DEF AutoCommit, CommitOffsets
    <2>2. /\ next \in [Partitions -> Nat] /\ committed \in [Partitions -> Nat]
          /\ \A p \in Partitions : next[p] <= Len(Logs[p]) + 1 /\ committed[p] <= Len(Logs[p]) + 1
      BY DEF TypeOK
    <2>3. /\ committed' \in [Partitions -> Nat]
          /\ \A p \in Partitions : committed'[p] <= Len(Logs[p]) + 1
      BY ONLY <2>1, <2>2
    <2> QED BY <1>2, <2>3 DEF AutoCommit, CommitOffsets, TypeOK
  <1>3. ASSUME NEW n \in Nodes, Crash(n) PROVE TypeOK'
    <2>1. owner' \in [Partitions -> Nodes]
      BY <1>3 DEF Crash, TypeOK
    <2>2. /\ {since', next'} \subseteq [Partitions -> Nat] /\ skipped' \subseteq Places
          /\ \A p \in Partitions : next'[p] \in 1 .. Len(Logs[p]) + 1 /\ since'[p] \in 1 .. next'[p]
      <3>1. Reassigned({p \in Partitions : owner[p] = n})
        BY <1>3 DEF Crash
      <3> HIDE DEF Reassigned
      <3> QED BY <3>1, ReassignedMeaning
    <2>3. content' \in [Nodes -> Seq(Messages)] /\ \A o \in Nodes : Len(content'[o]) <= BufferMax
      BY <1>3, LimitsAssumption DEF Crash, TypeOK
    <2>4. /\ pipe' \in [Served -> Seq(1 .. Len(published))] /\ linked' \in [Served -> BOOLEAN]
          /\ hand' \in [Nodes -> Places \union {None}]
      <3>1. pipe \in [Served -> Seq(1 .. Len(published))] /\ linked \in [Served -> BOOLEAN]
            /\ hand \in [Nodes -> Places \union {None}]
        BY DEF TypeOK
      <3>2. /\ pipe' = [o \in Served |-> IF o = n THEN <<>> ELSE pipe[o]]
            /\ linked' = [o \in Served |-> linked[o] \/ o = n]
            /\ hand' = [hand EXCEPT ![n] = None]
        BY <1>3 DEF Crash
      <3>3. <<>> \in Seq(1 .. Len(published))
        BY EmptySeq
      <3>4. pipe' \in [Served -> Seq(1 .. Len(published))]
        BY ONLY <3>1, <3>2, <3>3
      <3>5. linked' \in [Served -> BOOLEAN]
        BY ONLY <3>2
      <3>6. hand' \in [Nodes -> Places \union {None}]
        BY ONLY <3>1, <3>2
      <3> QED BY <3>4, <3>5, <3>6
    <2>5. /\ mode' \in [Clients -> {"out", "open", "dead", "gone"}]
          /\ alive' \in [Clients -> BOOLEAN] /\ subs' \in [Clients -> SUBSET Channels]
      BY <1>3 DEF Crash, TypeOK
    <2>6. faults' \in 0 .. MaxFaults
      BY <1>3, LimitsAssumption DEF Crash, TypeOK
    <2>7. UNCHANGED <<committed, ended, score, published, got, requests>>
      BY <1>3 DEF Crash
    <2> QED BY <2>1, <2>2, <2>3, <2>4, <2>5, <2>6, <2>7 DEF TypeOK
  <1>4. ASSUME NEW n \in Served, Deliver(n) PROVE TypeOK'
    BY <1>4, DeliverType
  <1>5. ASSUME NEW n \in Served, Unlink(n) PROVE TypeOK'
    <2>1. faults' \in 0 .. MaxFaults
      BY <1>5, LimitsAssumption DEF Unlink, TypeOK
    <2>2. pipe' \in [Served -> Seq(1 .. Len(published))] /\ linked' \in [Served -> BOOLEAN]
      BY <1>5 DEF Unlink, TypeOK
    <2> QED BY <1>5, <2>1, <2>2 DEF Unlink, TypeOK
  <1>6. ASSUME NEW n \in Served, Relink(n) PROVE TypeOK'
    BY <1>6 DEF Relink, TypeOK
  <1>7. ASSUME NEW n \in Served, Heartbeat(n) PROVE TypeOK'
    BY <1>7 DEF Heartbeat, TypeOK
  <1>8. ASSUME NEW p \in Partitions, Rebalance(p) PROVE TypeOK'
    <2>1. faults' \in 0 .. MaxFaults
      BY <1>8, LimitsAssumption DEF Rebalance, TypeOK
    <2>2. /\ {since', next'} \subseteq [Partitions -> Nat] /\ skipped' \subseteq Places
          /\ \A q \in Partitions : next'[q] \in 1 .. Len(Logs[q]) + 1 /\ since'[q] \in 1 .. next'[q]
      <3>1. Reassigned({p}) /\ {p} \in SUBSET Partitions
        BY <1>8 DEF Rebalance
      <3> QED BY <3>1, ReassignedMeaning
    <2> QED BY <1>8, <2>1, <2>2 DEF Rebalance, TypeOK
  <1>9. ASSUME NEW c \in Clients, Connect(c) \/ Close(c) \/ Vanish(c) \/ Pong(c) PROVE TypeOK'
    BY <1>9 DEF Connect, Close, Vanish, Pong, TypeOK
  <1>10. ASSUME NEW c \in Clients, Request(c) PROVE TypeOK'
    <2>1. requests' \in 0 .. MaxRequests
      BY <1>10, LimitsAssumption DEF Request, TypeOK
    <2>2. subs' \in [Clients -> SUBSET Channels]
      <3>1. PICK ch \in Interests[c] :
              subs' = [subs EXCEPT ![c] = IF ch \in @ THEN @ \ {ch} ELSE @ \union {ch}]
        BY <1>10 DEF Request
      <3>2. ch \in Channels /\ subs \in [Clients -> SUBSET Channels]
        BY InterestsAssumption DEF TypeOK
      <3> QED BY ONLY <3>1, <3>2
    <2> QED BY <1>10, <2>1, <2>2 DEF Request, TypeOK
  <1>11. CASE UNCHANGED vars
    BY <1>11 DEF vars, TypeOK
  <1> QED BY <1>1, <1>2, <1>3, <1>4, <1>5, <1>6, <1>7, <1>8, <1>9, <1>10, <1>11 DEF Next

\* The types of the offsets, the feeds and the clients' table; the recent
\* content never outgrows its buffer.
THEOREM TypeCorrect == Spec => []TypeOK
  BY TypeInit, TypeNext, PTL DEF Spec

-----------------------------------------------------------------------------
(***************************************************************************)
(* Offsets: what lies before the place the owner of a partition reads next *)
(* has had its handler end, is the one message the owner is at, or was     *)
(* passed over when the partition had no offset yet.  A node that loses    *)
(* the partition may still be at a message of it; the new owner takes that *)
(* one again, unless nothing is committed of the partition.                *)
(***************************************************************************)
PassedOver(p, i) == <<p, i>> \in skipped /\ p \notin Resumed

TakenIsHandled ==
    \A p \in Partitions : \A i \in 1 .. next[p] - 1 :
        <<p, i>> \in ended \/ hand[owner[p]] = <<p, i>> \/ PassedOver(p, i)

ResumedIsCommitted == \A p \in Resumed : committed[p] # 0

OffsetInv == TakenIsHandled /\ ResumedIsCommitted /\ CommittedIsHandled

LEMMA OffsetInit == Init => OffsetInv
  <1> SUFFICES ASSUME Init PROVE OffsetInv
    OBVIOUS
  <1>1. ASSUME NEW p \in Partitions, NEW i \in 1 .. next[p] - 1 PROVE PassedOver(p, i)
    <2>1. Len(Logs[p]) \in Nat /\ next[p] \in Starts(p)
      BY LogsAssumption, LenProperties DEF Init
    <2>2. CASE p \in Resumed
      BY <2>1, <2>2 DEF Starts
    <2>3. CASE p \notin Resumed
      <3>1. i \in 1 .. Len(Logs[p]) /\ i < next[p]
        BY <2>1, <2>3 DEF Starts
      <3>2. <<p, i>> \in Places
        BY <3>1, PlaceMeaning
      <3> QED BY <2>3, <3>1, <3>2 DEF PassedOver, Init
    <2> QED BY <2>2, <2>3
  <1>2. \A p \in Partitions : committed[p] \in {0, 1} /\ (p \in Resumed => committed[p] = 1)
    BY DEF Init
  <1>3. ResumedIsCommitted
    BY <1>2, LogsAssumption DEF ResumedIsCommitted
  <1>4. CommittedIsHandled
    BY <1>2 DEF CommittedIsHandled
  <1> QED BY <1>1, <1>3, <1>4 DEF OffsetInv, TakenIsHandled

LEMMA BeginOffset ==
  ASSUME TypeOK, OffsetInv, NEW n \in Nodes, NEW k \in Nat, NEW answered \in BOOLEAN,
         Begin(n, k, answered)
  PROVE  OffsetInv'
  <1>1. PICK p \in Partitions :
          LET more == answered /\ Logs[p][next[p]].kind = "trade" IN
          /\ owner[p] = n /\ next[p] <= Len(Logs[p])
          /\ next' = [next EXCEPT ![p] = @ + 1]
          /\ hand' = [hand EXCEPT ![n] = IF more THEN <<p, next[p]>> ELSE None]
          /\ ended' = IF more THEN ended ELSE ended \union {<<p, next[p]>>}
    BY DEF Begin
  <1>2. hand[n] = None /\ ended \subseteq ended' /\ UNCHANGED <<owner, committed, skipped>>
    BY <1>1 DEF Begin
  <1>3. next \in [Partitions -> Nat] /\ owner \in [Partitions -> Nodes]
        /\ hand \in [Nodes -> Places \union {None}]
    BY DEF TypeOK
  <1>4. ASSUME NEW q \in Partitions, NEW i \in 1 .. next'[q] - 1
        PROVE  <<q, i>> \in ended' \/ hand'[owner'[q]] = <<q, i>> \/ PassedOver(q, i)'
    <2>1. CASE q = p /\ i = next[p]
      <3>1. hand'[n] = <<p, i>> \/ <<p, i>> \in ended'
        BY <1>1, <1>3, <2>1
      <3> QED BY <3>1, <1>1, <1>2, <2>1
    <2>2. CASE ~(q = p /\ i = next[p])
      <3>1. i \in 1 .. next[q] - 1
        BY <1>1, <1>3, <2>2
      <3>2. <<q, i>> \in ended \/ hand[owner[q]] = <<q, i>> \/ PassedOver(q, i)
        BY <3>1 DEF OffsetInv, TakenIsHandled
      <3>6. CASE PassedOver(q, i)
        BY <1>2, <3>6 DEF PassedOver
      <3>3. <<q, i>> # None
        <4>1. <<q, i>> \in Partitions \X Nat
          BY <3>1
        <4> QED BY <4>1, LogsAssumption
      <3>4. CASE owner[q] = n
        BY <1>2, <3>2, <3>3, <3>4, <3>6
      <3>5. CASE owner[q] # n
        <4>1. hand'[owner[q]] = hand[owner[q]]
          BY <1>1, <1>3, <3>5
        <4> QED BY <4>1, <1>2, <3>2, <3>6
      <3> QED BY <3>4, <3>5
    <2> QED BY <2>1, <2>2
  <1>5. CommittedIsHandled' /\ ResumedIsCommitted'
    BY <1>2 DEF OffsetInv, CommittedIsHandled, ResumedIsCommitted
  <1> QED BY <1>4, <1>5 DEF OffsetInv, TakenIsHandled

LEMMA ScoreOffset ==
  ASSUME TypeOK, OffsetInv, NEW n \in Nodes, NEW k \in Nat, Score(n, k) PROVE OffsetInv'
  <1>1. /\ hand' = [hand EXCEPT ![n] = None] /\ ended' = ended \union {hand[n]}
        /\ UNCHANGED <<owner, next, committed, skipped>>
    BY DEF Score, kafkaVars
  <1>2. hand \in [Nodes -> Places \union {None}] /\ owner \in [Partitions -> Nodes]
    BY DEF TypeOK
  <1>3. ASSUME NEW q \in Partitions, NEW i \in 1 .. next[q] - 1
        PROVE  <<q, i>> \in ended' \/ hand'[owner[q]] = <<q, i>> \/ PassedOver(q, i)'
    <2>1. <<q, i>> \in ended \/ hand[owner[q]] = <<q, i>> \/ PassedOver(q, i)
      BY DEF OffsetInv, TakenIsHandled
    <2>2. CASE owner[q] = n
      BY <1>1, <2>1, <2>2 DEF PassedOver
    <2>3. CASE owner[q] # n
      BY <1>1, <1>2, <2>1, <2>3 DEF PassedOver
    <2> QED BY <2>2, <2>3
  <1>4. CommittedIsHandled' /\ ResumedIsCommitted'
    BY <1>1 DEF OffsetInv, CommittedIsHandled, ResumedIsCommitted
  <1> QED BY <1>1, <1>3, <1>4 DEF OffsetInv, TakenIsHandled

LEMMA OffsetNext == TypeOK /\ OffsetInv /\ [Next]_vars => OffsetInv'
  <1> SUFFICES ASSUME TypeOK, OffsetInv, [Next]_vars PROVE OffsetInv'
    OBVIOUS
  <1> USE DEF kafkaVars, handlerVars
  <1>1. ASSUME NEW n \in Nodes, Handle(n) \/ CommandFails(n) PROVE OffsetInv'
    BY <1>1, CommandCases, BeginOffset, ScoreOffset
  <1>2. ASSUME NEW n \in Nodes, AutoCommit(n) PROVE OffsetInv'
    <2>1. /\ committed' = [p \in Partitions |-> IF owner[p] = n /\ next[p] > since[p]
                                              THEN next[p] ELSE committed[p]]
          /\ hand[n] = None /\ UNCHANGED <<owner, next, skipped, hand, ended>>
      BY <1>2 DEF AutoCommit, CommitOffsets
    <2>2. ASSUME NEW p \in Partitions
          PROVE  committed'[p] = committed[p] \/ (owner[p] = n /\ committed'[p] = next[p])
      BY <2>1
    <2>3. ASSUME NEW p \in Partitions, NEW i \in 1 .. committed'[p] - 1
          PROVE  <<p, i>> \in ended \/ PassedOver(p, i)
      <3>1. CASE owner[p] = n /\ committed'[p] = next[p]
        <4>1. i \in 1 .. next[p] - 1 /\ hand[owner[p]] = None
          BY <2>1, <2>3, <3>1
        <4>2. <<p, i>> # None
          BY <4>1, LogsAssumption DEF TypeOK
        <4> QED BY <4>1, <4>2 DEF OffsetInv, TakenIsHandled
      <3>2. CASE committed'[p] = committed[p]
        BY <2>3, <3>2 DEF OffsetInv, CommittedIsHandled, PassedOver
      <3> QED BY <2>2, <3>1, <3>2
    <2>4. ResumedIsCommitted'
      <3>1. \A p \in Resumed : p \in Partitions /\ committed[p] # 0
        BY LogsAssumption DEF OffsetInv, ResumedIsCommitted
      <3>2. \A p \in Partitions : next[p] # 0
        BY DEF TypeOK
      <3> QED BY <2>2, <3>1, <3>2 DEF ResumedIsCommitted
    <2> QED BY <2>1, <2>3, <2>4 DEF OffsetInv, TakenIsHandled, CommittedIsHandled, PassedOver
  <1>11. ASSUME NEW Q \in SUBSET Partitions, Reassigned(Q), UNCHANGED <<committed, ended>>,
               \A p \in Partitions \ Q : hand'[owner'[p]] = hand[owner[p]]
        PROVE  OffsetInv'
    <2>1. /\ \A p \in Partitions \ Q : next'[p] = next[p]
          /\ \A p \in Q : next'[p] = committed[p] \/ committed[p] = 0
          /\ skipped \subseteq skipped'
          /\ \A p \in Q : committed[p] = 0 =>
               \A i \in 1 .. next'[p] - 1 : <<p, i>> \in ended \/ <<p, i>> \in skipped'
      BY <1>11, ReassignedMeaning
    <2>2. ASSUME NEW p \in Partitions, NEW i \in 1 .. next'[p] - 1
          PROVE  <<p, i>> \in ended \/ hand'[owner'[p]] = <<p, i>> \/ PassedOver(p, i)'
      <3>1. CASE p \notin Q
        BY <1>11, <2>1, <2>2, <3>1 DEF OffsetInv, TakenIsHandled, PassedOver
      <3>2. CASE p \in Q /\ committed[p] = 0
        BY <2>1, <2>2, <3>2 DEF OffsetInv, ResumedIsCommitted, PassedOver
      <3>3. CASE p \in Q /\ committed[p] # 0
        BY <2>1, <2>2, <3>3 DEF OffsetInv, CommittedIsHandled, PassedOver
      <3> QED BY <3>1, <3>2, <3>3
    <2>3. CommittedIsHandled' /\ ResumedIsCommitted'
      BY <1>11, <2>1 DEF OffsetInv, CommittedIsHandled, ResumedIsCommitted
    <2> QED BY <1>11, <2>2, <2>3 DEF OffsetInv, TakenIsHandled
  <1>3. ASSUME NEW n \in Nodes, Crash(n) PROVE OffsetInv'
    <2> DEFINE Q == {p \in Partitions : owner[p] = n}
    <2>1. PICK m \in Nodes :
            owner' = [p \in Partitions |-> IF owner[p] = n THEN m ELSE owner[p]]
      BY <1>3 DEF Crash
    <2>2. hand' = [hand EXCEPT ![n] = None] /\ UNCHANGED <<committed, ended>> /\ Reassigned(Q)
      BY <1>3 DEF Crash
    <2>3. \A p \in Partitions \ Q : hand'[owner'[p]] = hand[owner[p]]
      BY <2>1, <2>2 DEF TypeOK
    <2>4. Q \in SUBSET Partitions
      OBVIOUS
    <2> HIDE DEF Q
    <2> QED BY <1>11, <2>2, <2>3, <2>4
  <1>4. ASSUME NEW p \in Partitions, Rebalance(p) PROVE OffsetInv'
    <2>1. PICK m \in Nodes : owner' = [owner EXCEPT ![p] = m]
      BY <1>4 DEF Rebalance
    <2>2. Reassigned({p}) /\ UNCHANGED <<committed, hand, ended>>
      BY <1>4 DEF Rebalance
    <2>3. \A q \in Partitions \ {p} : hand'[owner'[q]] = hand[owner[q]]
      BY <2>1, <2>2 DEF TypeOK
    <2> QED BY <1>11, <2>2, <2>3
  <1>5. ASSUME UNCHANGED <<kafkaVars, handlerVars>> PROVE OffsetInv'
    BY <1>5 DEF OffsetInv, TakenIsHandled, ResumedIsCommitted, CommittedIsHandled, PassedOver
  <1>6. ASSUME NEW n \in Served, Deliver(n) \/ Unlink(n) \/ Relink(n) \/ Heartbeat(n)
        PROVE  OffsetInv'
    BY <1>5, <1>6 DEF Deliver, Unlink, Relink, Heartbeat
  <1>7. ASSUME NEW c \in Clients, Connect(c) \/ Request(c) \/ Close(c) \/ Vanish(c) \/ Pong(c)
        PROVE  OffsetInv'
    BY <1>5, <1>7 DEF Connect, Request, Close, Vanish, Pong
  <1>8. CASE UNCHANGED vars
    BY <1>5, <1>8 DEF vars
  <1> QED BY <1>1, <1>2, <1>3, <1>4, <1>6, <1>7, <1>8 DEF Next

\* At least once: the group never commits a message whose handler has not
\* ended, whatever the rebalances, crashes and failed commands.
THEOREM CommitsAreHandled == Spec => []CommittedIsHandled
  <1>1. OffsetInv => CommittedIsHandled
    BY DEF OffsetInv
  <1> QED BY TypeInit, TypeNext, OffsetInit, OffsetNext, <1>1, PTL DEF Spec

-----------------------------------------------------------------------------
(***************************************************************************)
(* Order: what is on the way to a node ascends, what a client has received *)
(* ascends, and all of it is older than all that is on the way.            *)
(***************************************************************************)
Ascending(s) == \A i, j \in 1 .. Len(s) : i < j => s[i] < s[j]

Older(s, t) == \A i \in 1 .. Len(s), j \in 1 .. Len(t) : s[i] < t[j]

OrderInv ==
    /\ \A n \in Served : Ascending(pipe[n])
    /\ \A c \in Clients : Ascending(got[c]) /\ Older(got[c], pipe[Home[c]])

LEMMA OrderInit == Init => OrderInv
  BY HomeAssumption DEF Init, OrderInv, Ascending, Older, Served

\* New publications have numbers above all that Redis has published.
LEMMA Extend ==
  ASSUME NEW N \in Nat, NEW s \in Seq(1 .. N), NEW k \in Nat, Ascending(s),
         NEW g \in Seq(1 .. N), Older(g, s)
  PROVE  LET t == s \o [i \in 1 .. k |-> N + i] IN Ascending(t) /\ Older(g, t)
  <1> DEFINE new == [i \in 1 .. k |-> N + i]
             t == s \o new
  <1>1. new \in Seq(Nat) /\ Len(new) = k /\ s \in Seq(Nat) /\ Len(s) \in Nat
    <2>1. 1 .. N \subseteq Nat
      OBVIOUS
    <2> QED BY <2>1, SeqMonotonic, LenProperties
  <1>2. Len(t) = Len(s) + k
        /\ \A i \in 1 .. Len(s) + k : t[i] = IF i <= Len(s) THEN s[i] ELSE new[i - Len(s)]
    BY <1>1, ConcatProperties
  <1>3. \A i \in 1 .. Len(s) : s[i] \in 1 .. N
    BY ElementOfSeq
  <1>4. \A i \in 1 .. Len(s) + k :
          t[i] = IF i <= Len(s) THEN s[i] ELSE N + (i - Len(s))
    BY <1>1, <1>2
  <1>5. \A i \in 1 .. Len(g) : g[i] \in 1 .. N
    BY ElementOfSeq
  <1>6. Len(g) \in Nat
    BY LenProperties
  <1> HIDE DEF t, new
  <1>7. Ascending(t)
    <2> SUFFICES ASSUME NEW i \in 1 .. Len(s) + k, NEW j \in 1 .. Len(s) + k, i < j
                 PROVE  t[i] < t[j]
      BY <1>2 DEF Ascending
    <2>1. CASE j <= Len(s)
      BY <1>1, <1>4, <2>1 DEF Ascending
    <2>2. CASE i <= Len(s) /\ j > Len(s)
      <3>1. s[i] \in 1 .. N /\ t[i] = s[i] /\ t[j] = N + (j - Len(s))
        BY <1>1, <1>3, <1>4, <2>2
      <3> QED BY SMTT(30), <1>1, <2>2, <3>1
    <2>3. CASE i > Len(s)
      <3>1. t[i] = N + (i - Len(s)) /\ t[j] = N + (j - Len(s))
        BY <1>1, <1>4, <2>3
      <3> QED BY <1>1, <2>3, <3>1
    <2> QED BY <1>1, <2>1, <2>2, <2>3
  <1>8. Older(g, t)
    <2> SUFFICES ASSUME NEW i \in 1 .. Len(g), NEW j \in 1 .. Len(s) + k PROVE g[i] < t[j]
      BY <1>2 DEF Older
    <2>1. CASE j <= Len(s)
      BY <1>1, <1>4, <2>1 DEF Older
    <2>2. CASE j > Len(s)
      <3>1. g[i] \in 1 .. N /\ t[j] = N + (j - Len(s))
        BY <1>1, <1>4, <1>5, <2>2
      <3> QED BY <1>1, <2>2, <3>1
    <2> QED BY <1>1, <2>1, <2>2
  <1> QED BY <1>7, <1>8 DEF t, new

\* The head of the feed moves to a client.
LEMMA Move ==
  ASSUME NEW N \in Nat, NEW s \in Seq(1 .. N), s # <<>>, Ascending(s),
         NEW g \in Seq(1 .. N), Ascending(g), Older(g, s)
  PROVE  /\ Ascending(Tail(s)) /\ Older(g, Tail(s))
         /\ Ascending(Append(g, Head(s))) /\ Older(Append(g, Head(s)), Tail(s))
  <1> DEFINE r == Tail(s)
             h == Append(g, Head(s))
  <1>1. /\ Len(s) \in Nat /\ Len(s) # 0 /\ Len(g) \in Nat
        /\ \A i \in 1 .. Len(s) : s[i] \in 1 .. N
        /\ \A i \in 1 .. Len(g) : g[i] \in 1 .. N
    BY LenProperties, ElementOfSeq, EmptySeq
  <1>2. Head(s) = s[1] /\ Len(r) = Len(s) - 1 /\ \A i \in 1 .. Len(r) : r[i] = s[i + 1]
    BY <1>1, HeadTailProperties
  <1>3. Len(h) = Len(g) + 1
        /\ \A i \in 1 .. Len(g) + 1 : h[i] = IF i <= Len(g) THEN g[i] ELSE s[1]
    BY <1>1, <1>2, AppendProperties
  <1> HIDE DEF r, h
  <1>4. Ascending(r)
    <2> SUFFICES ASSUME NEW i \in 1 .. Len(r), NEW j \in 1 .. Len(r), i < j PROVE r[i] < r[j]
      BY DEF Ascending
    <2>1. i + 1 \in 1 .. Len(s) /\ j + 1 \in 1 .. Len(s) /\ i + 1 < j + 1
      BY <1>1, <1>2
    <2>2. s[i + 1] < s[j + 1]
      BY <2>1 DEF Ascending
    <2> QED BY <1>2, <2>2
  <1>5. Older(g, r)
    <2> SUFFICES ASSUME NEW i \in 1 .. Len(g), NEW j \in 1 .. Len(r) PROVE g[i] < r[j]
      BY DEF Older
    <2>1. j + 1 \in 1 .. Len(s)
      BY <1>1, <1>2
    <2> QED BY <1>2, <2>1 DEF Older
  <1>6. Ascending(h)
    <2> SUFFICES ASSUME NEW i \in 1 .. Len(g) + 1, NEW j \in 1 .. Len(g) + 1, i < j
                 PROVE  h[i] < h[j]
      BY <1>3 DEF Ascending
    <2>1. i \in 1 .. Len(g) /\ h[i] = g[i]
      BY <1>1, <1>3
    <2>2. CASE j <= Len(g)
      <3>1. j \in 1 .. Len(g) /\ h[j] = g[j]
        BY <1>1, <1>3, <2>2
      <3> QED BY <2>1, <3>1 DEF Ascending
    <2>3. CASE j > Len(g)
      <3>1. h[j] = s[1] /\ 1 \in 1 .. Len(s)
        BY <1>1, <1>3, <2>3
      <3> QED BY <2>1, <3>1 DEF Older
    <2> QED BY <1>1, <2>2, <2>3
  <1>7. Older(h, r)
    <2> SUFFICES ASSUME NEW i \in 1 .. Len(g) + 1, NEW j \in 1 .. Len(r) PROVE h[i] < r[j]
      BY <1>3 DEF Older
    <2>1. j + 1 \in 1 .. Len(s) /\ 1 \in 1 .. Len(s) /\ 1 < j + 1 /\ r[j] = s[j + 1]
      BY <1>1, <1>2
    <2>2. CASE i <= Len(g)
      <3>1. i \in 1 .. Len(g) /\ h[i] = g[i]
        BY <1>1, <1>3, <2>2
      <3> QED BY <2>1, <3>1 DEF Older
    <2>3. CASE i > Len(g)
      BY SMTT(30), <1>1, <1>3, <2>1, <2>3 DEF Ascending
    <2> QED BY <1>1, <2>2, <2>3
  <1> QED BY <1>4, <1>5, <1>6, <1>7 DEF r, h

LEMMA PublishOrder ==
  ASSUME TypeOK, OrderInv, NEW n, NEW m, NEW k \in Nat, Publish(n, m, k), UNCHANGED got
  PROVE  OrderInv'
  <1> DEFINE N == Len(published)
             new == [i \in 1 .. k |-> N + i]
  <1>1. N \in Nat /\ pipe \in [Served -> Seq(1 .. N)] /\ got \in [Clients -> Seq(1 .. N)]
    BY LenProperties DEF TypeOK
  <1>2. pipe' = [o \in Served |-> IF linked[o] THEN pipe[o] \o new ELSE pipe[o]]
    BY DEF Publish
  <1> HIDE DEF N
  <1>3. ASSUME NEW o \in Served PROVE Ascending(pipe'[o])
    <2>1. Ascending(pipe[o]) /\ Older(<<>>, pipe[o]) /\ <<>> \in Seq(1 .. N)
      BY DEF OrderInv, Older
    <2>2. Ascending(pipe[o] \o new)
      BY <1>1, <2>1, Extend
    <2> QED BY <1>2, <2>1, <2>2
  <1>4. ASSUME NEW c \in Clients PROVE Older(got[c], pipe'[Home[c]])
    <2>1. Home[c] \in Served
      BY DEF Served
    <2>2. Ascending(pipe[Home[c]]) /\ Older(got[c], pipe[Home[c]])
      BY <2>1 DEF OrderInv
    <2>3. Older(got[c], pipe[Home[c]] \o new)
      BY <1>1, <2>1, <2>2, Extend
    <2> QED BY <1>2, <2>1, <2>2, <2>3
  <1> QED BY <1>3, <1>4 DEF OrderInv

LEMMA DeliverOrder == ASSUME TypeOK, OrderInv, NEW n \in Served, Deliver(n) PROVE OrderInv'
  <1> DEFINE N == Len(published)
             i == Head(pipe[n])
  <1>1. N \in Nat /\ pipe \in [Served -> Seq(1 .. N)] /\ got \in [Clients -> Seq(1 .. N)]
    BY LenProperties DEF TypeOK
  <1>2. /\ pipe[n] # <<>> /\ pipe' = [pipe EXCEPT ![n] = Tail(@)]
        /\ got' = [c \in Clients |-> IF c \in Receivers(n, published[i])
                                     THEN Append(got[c], i) ELSE got[c]]
    BY DEF Deliver
  <1> HIDE DEF N
  <1>3. ASSUME NEW o \in Served PROVE Ascending(pipe'[o])
    <2>1. Ascending(pipe[o]) /\ Ascending(<<>>) /\ Older(<<>>, pipe[o]) /\ <<>> \in Seq(1 .. N)
      BY DEF OrderInv, Older, Ascending
    <2>2. CASE o = n
      BY <1>1, <1>2, <2>1, <2>2, Move
    <2>3. CASE o # n
      BY <1>1, <1>2, <2>1, <2>3
    <2> QED BY <2>2, <2>3
  <1>4. ASSUME NEW c \in Clients PROVE Ascending(got'[c]) /\ Older(got'[c], pipe'[Home[c]])
    <2>1. Home[c] \in Served
      BY DEF Served
    <2>2. Ascending(pipe[Home[c]]) /\ Ascending(got[c]) /\ Older(got[c], pipe[Home[c]])
      BY <2>1 DEF OrderInv
    <2>3. CASE Home[c] = n
      <3>1. /\ Older(got[c], Tail(pipe[n]))
            /\ Ascending(Append(got[c], i)) /\ Older(Append(got[c], i), Tail(pipe[n]))
        BY <1>1, <1>2, <2>2, <2>3, Move
      <3> HIDE DEF i
      <3>2. pipe'[Home[c]] = Tail(pipe[n]) /\ (got'[c] = got[c] \/ got'[c] = Append(got[c], i))
        BY <1>1, <1>2, <2>3
      <3> QED BY <2>2, <3>1, <3>2
    <2>4. CASE Home[c] # n
      <3>1. pipe'[Home[c]] = pipe[Home[c]] /\ got'[c] = got[c]
        BY <1>1, <1>2, <2>1, <2>4 DEF Receivers
      <3> QED BY <2>2, <3>1
    <2> QED BY <2>3, <2>4
  <1> QED BY <1>3, <1>4 DEF OrderInv

\* A connection that breaks and a node that dies only empty feeds.
LEMMA EmptyOrder ==
  ASSUME OrderInv, UNCHANGED got,
         \A o \in Served : pipe'[o] = pipe[o] \/ pipe'[o] = <<>>
  PROVE  OrderInv'
  <1>1. \A o \in Served : Ascending(pipe'[o])
    BY DEF OrderInv, Ascending
  <1>2. ASSUME NEW c \in Clients PROVE Older(got[c], pipe'[Home[c]])
    <2>1. pipe'[Home[c]] = pipe[Home[c]] \/ pipe'[Home[c]] = <<>>
      BY DEF Served
    <2> QED BY <2>1 DEF OrderInv, Older
  <1> QED BY <1>1, <1>2 DEF OrderInv

LEMMA OrderNext == TypeOK /\ OrderInv /\ [Next]_vars => OrderInv'
  <1> SUFFICES ASSUME TypeOK, OrderInv, [Next]_vars PROVE OrderInv'
    OBVIOUS
  <1> USE DEF feedVars, clientVars
  <1>1. ASSUME NEW n \in Nodes, NEW k \in Nat, NEW answered \in BOOLEAN, Begin(n, k, answered)
        PROVE  OrderInv'
    <2>1. UNCHANGED got /\ \E m : Publish(n, m, k)
      BY <1>1 DEF Begin
    <2> QED BY <2>1, PublishOrder
  <1>2. ASSUME NEW n \in Nodes, NEW k \in Nat, Score(n, k) PROVE OrderInv'
    BY <1>2, EmptyOrder DEF Score
  <1>3. ASSUME NEW n \in Nodes, Handle(n) \/ CommandFails(n) PROVE OrderInv'
    BY <1>1, <1>2, <1>3, CommandCases
  <1>4. ASSUME NEW n \in Served, Deliver(n) PROVE OrderInv'
    BY <1>4, DeliverOrder
  <1>5. ASSUME NEW n \in Served, Unlink(n) PROVE OrderInv'
    <2>1. UNCHANGED got /\ pipe' = [pipe EXCEPT ![n] = <<>>] /\ pipe \in [Served -> Seq(1 .. Len(published))]
      BY <1>5 DEF Unlink, TypeOK
    <2>2. \A o \in Served : pipe'[o] = pipe[o] \/ pipe'[o] = <<>>
      BY <2>1
    <2> QED BY <2>1, <2>2, EmptyOrder
  <1>6. ASSUME NEW n \in Nodes, Crash(n) PROVE OrderInv'
    <2>1. UNCHANGED got /\ \A o \in Served : pipe'[o] = pipe[o] \/ pipe'[o] = <<>>
      BY <1>6 DEF Crash
    <2> QED BY <2>1, EmptyOrder
  <1>7. ASSUME UNCHANGED <<pipe, got>> PROVE OrderInv'
    BY <1>7, EmptyOrder
  <1>8. ASSUME NEW n \in Nodes, AutoCommit(n) PROVE OrderInv'
    BY <1>7, <1>8 DEF AutoCommit, CommitOffsets
  <1>9. ASSUME NEW p \in Partitions, Rebalance(p) PROVE OrderInv'
    BY <1>7, <1>9 DEF Rebalance
  <1>10. ASSUME NEW n \in Served, Relink(n) \/ Heartbeat(n) PROVE OrderInv'
    BY <1>7, <1>10 DEF Relink, Heartbeat
  <1>11. ASSUME NEW c \in Clients, Connect(c) \/ Request(c) \/ Close(c) \/ Vanish(c) \/ Pong(c)
         PROVE  OrderInv'
    BY <1>7, <1>11 DEF Connect, Request, Close, Vanish, Pong
  <1>12. CASE UNCHANGED vars
    BY <1>7, <1>12 DEF vars
  <1> QED BY <1>3, <1>4, <1>5, <1>6, <1>8, <1>9, <1>10, <1>11, <1>12 DEF Next

\* Every client receives publications in the order of Redis and each of them
\* at most once, whatever fails and whenever it subscribes.
THEOREM FeedsInOrder == Spec => []FeedInOrder
  <1>1. TypeOK /\ OrderInv => FeedInOrder
    <2> SUFFICES ASSUME TypeOK, OrderInv, NEW c \in Clients PROVE
                   \A i, j \in DOMAIN got[c] : i < j => got[c][i] < got[c][j]
      BY DEF FeedInOrder
    <2>1. got[c] \in Seq(1 .. Len(published))
      BY DEF TypeOK
    <2>2. DOMAIN got[c] = 1 .. Len(got[c])
      BY <2>1, LenProperties
    <2> QED BY <2>2 DEF OrderInv, Ascending
  <1> QED BY TypeInit, TypeNext, OrderInit, OrderNext, <1>1, PTL DEF Spec


-----------------------------------------------------------------------------
(***************************************************************************)
(* The leaderboard: while nothing has failed, what an NPC's score and the  *)
(* handlers that still have to add to it come to is what the settlements   *)
(* taken come to. A handler that has published waits with a trade in hand. *)
(***************************************************************************)
Awaited(c) == SumFunction([n \in Scoring(c) |-> At(hand[n]).delta])

Gold(c) == SumFunction([p \in Partitions |-> TakenGold(p, c)])

HandsInv == \A n \in Nodes : hand[n] # None => At(hand[n]).kind = "trade"

ScoreInv == faults = 0 => HandsInv /\ ScoresMatch

\* The settlements for c from one place of p to before another, and the nodes that have one for c in
\* hand: both are finitely many, and their deltas are integers.
Between(p, c, low, top) == {i \in low .. top - 1 : Logs[p][i].kind = "trade" /\ Logs[p][i].npc = c}

LEMMA BetweenType ==
  ASSUME NEW p \in Partitions, NEW c \in NPCs, NEW low \in Nat \ {0}, NEW top \in 1 .. Len(Logs[p]) + 1
  PROVE  /\ IsFiniteSet(Between(p, c, low, top))
         /\ [i \in Between(p, c, low, top) |-> Logs[p][i].delta] \in [Between(p, c, low, top) -> Int]
         /\ SumFunction([i \in Between(p, c, low, top) |-> Logs[p][i].delta]) \in Int
  <1>1. Len(Logs[p]) \in Nat
    BY LogsAssumption, LenProperties
  <1>2. Between(p, c, low, top) \subseteq 1 .. Len(Logs[p])
    BY <1>1 DEF Between
  <1>3. IsFiniteSet(1 .. Len(Logs[p]))
    BY <1>1, FS_Interval
  <1>4. IsFiniteSet(Between(p, c, low, top))
    BY <1>2, <1>3, FS_Subset
  <1>5. \A i \in Between(p, c, low, top) : Logs[p][i].delta \in Int
    BY <1>2, PlaceMeaning DEF Messages
  <1>6. [i \in Between(p, c, low, top) |-> Logs[p][i].delta] \in [Between(p, c, low, top) -> Int]
    BY <1>5
  <1> QED BY <1>4, <1>6, TableType

Holders(h, c) == {n \in Nodes : h[n] # None /\ At(h[n]).npc = c}

LEMMA HoldersType ==
  ASSUME NEW h \in [Nodes -> Places \union {None}], NEW c \in NPCs
  PROVE  /\ IsFiniteSet(Holders(h, c))
         /\ [n \in Holders(h, c) |-> At(h[n]).delta] \in [Holders(h, c) -> Int]
         /\ SumFunction([n \in Holders(h, c) |-> At(h[n]).delta]) \in Int
  <1>1. IsFiniteSet(Holders(h, c))
    BY FinitelyManyAssumption, FS_Subset DEF Holders
  <1>2. \A n \in Holders(h, c) : At(h[n]).delta \in Int
    BY PlaceType DEF Holders, Messages
  <1>3. [n \in Holders(h, c) |-> At(h[n]).delta] \in [Holders(h, c) -> Int]
    BY <1>2
  <1> QED BY <1>1, <1>3, TableType

\* A handler takes up a settlement: it has that one in hand.
LEMMA AwaitedGrows ==
  ASSUME TypeOK, TypeOK', NEW c \in NPCs, NEW n \in Nodes, NEW x \in Places,
         hand[n] = None, hand' = [hand EXCEPT ![n] = x]
  PROVE  Awaited(c)' = Awaited(c) + IF At(x).npc = c THEN At(x).delta ELSE 0
  <1> DEFINE f == [o \in Scoring(c) |-> At(hand[o]).delta]
             g == [o \in Scoring(c)' |-> At(hand'[o]).delta]
  <1>0. /\ hand \in [Nodes -> Places \union {None}] /\ hand' \in [Nodes -> Places \union {None}]
        /\ Scoring(c) = Holders(hand, c) /\ Scoring(c)' = Holders(hand', c)
    BY DEF TypeOK, Scoring, Holders
  <1>1. Awaited(c) = SumFunction(f) /\ Awaited(c)' = SumFunction(g)
    BY DEF Awaited
  <1>2. /\ IsFiniteSet(Scoring(c)) /\ f \in [Scoring(c) -> Int] /\ Awaited(c) \in Int
        /\ g \in [Scoring(c)' -> Int]
    BY <1>0, HoldersType DEF Awaited
  <1>3. /\ n \notin Scoring(c) /\ hand'[n] = x /\ x # None
        /\ \A o \in Nodes \ {n} : hand'[o] = hand[o]
    BY PlaceType DEF Scoring, TypeOK
  <1>4. \A o \in Scoring(c) : o \in Nodes \ {n}
    BY <1>3 DEF Scoring
  <1>5. \A o \in Scoring(c) \intersect Scoring(c)' : f[o] = g[o]
    BY <1>3, <1>4
  <1>6. CASE At(x).npc = c
    <2>1. Scoring(c)' = Scoring(c) \union {n}
      BY <1>3, <1>6 DEF Scoring
    <2>2. g[n] = At(x).delta
      BY <1>3, <2>1
    <2> HIDE DEF f, g
    <2>3. SumFunction(g) = SumFunction(f) + g[n]
      BY <1>2, <1>3, <1>5, <2>1, TableRow
    <2> QED BY <1>1, <1>6, <2>2, <2>3
  <1>7. CASE At(x).npc # c
    <2>1. Scoring(c)' = Scoring(c)
      BY <1>3, <1>7 DEF Scoring
    <2>2. f = g
      BY <1>3, <1>4, <2>1
    <2> HIDE DEF f, g
    <2> QED BY <1>1, <1>2, <1>7, <2>2
  <1> QED BY <1>6, <1>7

\* A handler adds its settlement to the score: it has nothing in hand any more.
LEMMA AwaitedShrinks ==
  ASSUME TypeOK, TypeOK', NEW c \in NPCs, NEW n \in Nodes,
         hand[n] # None, hand' = [hand EXCEPT ![n] = None]
  PROVE  Awaited(c) = Awaited(c)' + IF At(hand[n]).npc = c THEN At(hand[n]).delta ELSE 0
  <1> DEFINE f == [o \in Scoring(c) |-> At(hand[o]).delta]
             g == [o \in Scoring(c)' |-> At(hand'[o]).delta]
  <1>0. /\ hand \in [Nodes -> Places \union {None}] /\ hand' \in [Nodes -> Places \union {None}]
        /\ Scoring(c) = Holders(hand, c) /\ Scoring(c)' = Holders(hand', c)
    BY DEF TypeOK, Scoring, Holders
  <1>1. Awaited(c) = SumFunction(f) /\ Awaited(c)' = SumFunction(g)
    BY DEF Awaited
  <1>2. /\ IsFiniteSet(Scoring(c)') /\ g \in [Scoring(c)' -> Int] /\ Awaited(c)' \in Int
        /\ f \in [Scoring(c) -> Int]
    BY <1>0, HoldersType DEF Awaited
  <1>3. hand'[n] = None /\ \A o \in Nodes \ {n} : hand'[o] = hand[o]
    BY DEF TypeOK
  <1>4. n \notin Scoring(c)' /\ \A o \in Scoring(c)' : o \in Nodes \ {n}
    BY <1>3 DEF Scoring
  <1>5. \A o \in Scoring(c) \intersect Scoring(c)' : f[o] = g[o]
    BY <1>3, <1>4
  <1>6. CASE At(hand[n]).npc = c
    <2>1. Scoring(c) = Scoring(c)' \union {n}
      BY <1>3, <1>6 DEF Scoring
    <2>2. f[n] = At(hand[n]).delta
      BY <2>1
    <2> HIDE DEF f, g
    <2>3. SumFunction(f) = SumFunction(g) + f[n]
      BY <1>2, <1>4, <1>5, <2>1, TableRow
    <2> QED BY <1>1, <1>6, <2>2, <2>3
  <1>7. CASE At(hand[n]).npc # c
    <2>1. Scoring(c)' = Scoring(c)
      BY <1>3, <1>7 DEF Scoring
    <2>2. f = g
      BY <1>3, <1>4, <2>1
    <2> HIDE DEF f, g
    <2> QED BY <1>1, <1>2, <1>7, <2>2
  <1> QED BY <1>6, <1>7

\* A message is taken from a partition: its gold counts if it is a settlement.
LEMMA GoldGrows ==
  ASSUME TypeOK, TypeOK', NEW c \in NPCs, NEW p \in Partitions, next[p] <= Len(Logs[p]),
         next' = [next EXCEPT ![p] = @ + 1], UNCHANGED since
  PROVE  LET m == Logs[p][next[p]] IN
         Gold(c)' = Gold(c) + IF m.kind = "trade" /\ m.npc = c THEN m.delta ELSE 0
  <1> DEFINE i == next[p]
             m == Logs[p][i]
             F == [q \in Partitions |-> TakenGold(q, c)]
             G == [q \in Partitions |-> TakenGold(q, c)']
             delta == IF m.kind = "trade" /\ m.npc = c THEN m.delta ELSE 0
  <1>0. \A q \in Partitions : /\ next[q] \in 1 .. Len(Logs[q]) + 1 /\ next'[q] \in 1 .. Len(Logs[q]) + 1
                             /\ Taken(q, c) = Between(q, c, since[q], next[q])
                             /\ Taken(q, c)' = Between(q, c, since[q], next'[q])
                             /\ since[q] \in Nat \ {0} /\ since[q] <= next[q]
    <2>1. ASSUME NEW q \in Partitions
          PROVE  /\ next[q] \in 1 .. Len(Logs[q]) + 1 /\ next'[q] \in 1 .. Len(Logs[q]) + 1
                 /\ since[q] \in Nat \ {0} /\ since[q] <= next[q] /\ Len(Logs[q]) \in Nat
      <3>1. since[q] \in 1 .. next[q] /\ next[q] \in 1 .. Len(Logs[q]) + 1
            /\ next'[q] \in 1 .. Len(Logs[q]) + 1 /\ Len(Logs[q]) \in Nat
        BY LogsAssumption, LenProperties DEF TypeOK
      <3> QED BY <3>1
    <2>2. ASSUME NEW q \in Partitions
          PROVE  /\ Taken(q, c) = Between(q, c, since[q], next[q])
                 /\ Taken(q, c)' = Between(q, c, since[q], next'[q])
      BY DEF Taken, Between
    <2> QED BY <2>1, <2>2
  <1>1. Gold(c) = SumFunction(F) /\ Gold(c)' = SumFunction(G)
    BY DEF Gold
  <1>2. F \in [Partitions -> Int] /\ G \in [Partitions -> Int]
    <2>1. ASSUME NEW q \in Partitions PROVE TakenGold(q, c) \in Int /\ TakenGold(q, c)' \in Int
      <3>1. TakenGold(q, c) \in Int
        BY <1>0, BetweenType DEF TakenGold
      <3>2. TakenGold(q, c)' \in Int
        BY <1>0, BetweenType DEF TakenGold
      <3> QED BY <3>1, <3>2
    <2> QED BY <2>1
  <1>3. i \in 1 .. Len(Logs[p]) /\ m \in Messages /\ m.delta \in Int
    <2>1. i \in 1 .. Len(Logs[p])
      BY LogsAssumption, LenProperties DEF TypeOK
    <2> QED BY <2>1, PlaceMeaning DEF Messages
  <1>4. next'[p] = i + 1 /\ \A q \in Partitions \ {p} : next'[q] = next[q]
    BY DEF TypeOK
  <1>5. \A q \in Partitions \ {p} : F[q] = G[q]
    BY <1>4 DEF TakenGold, Taken
  <1>6. G[p] = F[p] + delta
    <2> DEFINE S == Between(p, c, since[p], i)
               T == Between(p, c, since[p], i + 1)
               f == [j \in S |-> Logs[p][j].delta]
               g == [j \in T |-> Logs[p][j].delta]
    <2>1. F[p] = SumFunction(f) /\ G[p] = SumFunction(g)
      BY <1>0, <1>4 DEF TakenGold
    <2>2. IsFiniteSet(S) /\ f \in [S -> Int] /\ g \in [T -> Int] /\ SumFunction(f) \in Int
      <3>1. i \in 1 .. Len(Logs[p]) + 1 /\ i + 1 \in 1 .. Len(Logs[p]) + 1
        BY <1>3, LogsAssumption, LenProperties
      <3> HIDE DEF i
      <3>2. IsFiniteSet(S) /\ f \in [S -> Int] /\ SumFunction(f) \in Int
        BY <1>0, <3>1, BetweenType
      <3>3. g \in [T -> Int]
        BY <1>0, <3>1, BetweenType
      <3> QED BY <3>2, <3>3
    <2>3. i \notin S /\ since[p] .. (i + 1) - 1 = (since[p] .. i - 1) \union {i}
      BY <1>0, <1>3 DEF Between
    <2>4. CASE m.kind = "trade" /\ m.npc = c
      <3>1. T = S \union {i}
        BY <2>3, <2>4 DEF Between
      <3>2. g[i] = delta /\ \A j \in S : g[j] = f[j]
        BY <2>4, <3>1
      <3> HIDE DEF f, g, i, S, T, delta
      <3>3. g \in [S \union {i} -> Int]
        BY <2>2, <3>1
      <3>4. i \notin S /\ \A j \in S : g[j] = f[j]
        BY <2>3, <3>2
      <3>5. IsFiniteSet(S) /\ f \in [S -> Int]
        BY <2>2
      <3>6. SumFunction(g) = SumFunction(f) + g[i]
        BY ONLY <3>3, <3>4, <3>5, TableRow
      <3> QED BY <2>1, <3>2, <3>6
    <2>5. CASE ~(m.kind = "trade" /\ m.npc = c)
      <3>1. T = S /\ delta = 0
        BY <2>3, <2>5 DEF Between
      <3> HIDE DEF S, T, delta
      <3> QED BY <2>1, <2>2, <3>1
    <2> QED BY <2>4, <2>5
  <1>7. F[p] \in Int /\ delta \in Int
    BY <1>2, <1>3
  <1> HIDE DEF F, G, m, delta
  <1>8. SumFunction(G) = SumFunction(F) + (G[p] - F[p])
    BY <1>2, <1>5, FinitelyManyAssumption, TableChange
  <1>9. SumFunction(F) \in Int
    BY <1>2, FinitelyManyAssumption, TableType
  <1>10. SumFunction(G) = SumFunction(F) + delta
    BY <1>6, <1>7, <1>8, <1>9
  <1> QED BY <1>1, <1>10 DEF m, delta

LEMMA GoldType ==
  ASSUME TypeOK, NEW c \in NPCs PROVE Gold(c) \in Int /\ Awaited(c) \in Int
  <1>1. \A p \in Partitions : TakenGold(p, c) \in Int
    <2>1. ASSUME NEW p \in Partitions
          PROVE  since[p] \in Nat \ {0} /\ next[p] \in 1 .. Len(Logs[p]) + 1
      <3>1. since[p] \in 1 .. next[p] /\ next[p] \in 1 .. Len(Logs[p]) + 1 /\ Len(Logs[p]) \in Nat
        BY LogsAssumption, LenProperties DEF TypeOK
      <3> QED BY <3>1
    <2>2. \A p \in Partitions : Taken(p, c) = Between(p, c, since[p], next[p])
      BY DEF Taken, Between
    <2> QED BY <2>1, <2>2, BetweenType DEF TakenGold
  <1>2. Gold(c) \in Int
    <2> DEFINE F == [p \in Partitions |-> TakenGold(p, c)]
    <2>1. F \in [Partitions -> Int]
      BY <1>1
    <2> QED BY <2>1, FinitelyManyAssumption, TableType DEF Gold
  <1>3. Awaited(c) \in Int
    BY HoldersType DEF TypeOK, Awaited, Scoring, Holders
  <1> QED BY <1>2, <1>3

Balanced(c) == score[c] + Awaited(c) = Earlier[c] + Gold(c)

LEMMA BalancedMeaning == HandsInv /\ (\A c \in NPCs : Balanced(c)) => ScoreInv
  BY DEF Balanced, Awaited, Gold, ScoreInv, ScoresMatch

LEMMA BeginScore ==
  ASSUME TypeOK, TypeOK', HandsInv, NEW n \in Nodes, Begin(n, 1, TRUE),
         \A c \in NPCs : Balanced(c)
  PROVE  HandsInv' /\ \A c \in NPCs : Balanced(c)'
  <1>1. PICK p \in Partitions :
          LET m == Logs[p][next[p]] IN
          /\ next[p] <= Len(Logs[p])
          /\ next' = [next EXCEPT ![p] = @ + 1] /\ UNCHANGED since
          /\ hand' = [hand EXCEPT ![n] = IF m.kind = "trade" THEN <<p, next[p]>> ELSE None]
    BY DEF Begin
  <1> DEFINE m == Logs[p][next[p]]
             x == <<p, next[p]>>
  <1>2. x \in Places /\ At(x) = m /\ m \in Messages
    <2>1. next[p] \in 1 .. Len(Logs[p])
      BY <1>1, LogsAssumption, LenProperties DEF TypeOK
    <2> QED BY <2>1, PlaceMeaning
  <1>3. hand[n] = None /\ UNCHANGED score
    BY DEF Begin
  <1>4. HandsInv'
    BY <1>1, <1>2 DEF HandsInv, TypeOK
  <1>5. ASSUME NEW c \in NPCs PROVE Balanced(c)'
    <2> DEFINE delta == IF m.kind = "trade" /\ m.npc = c THEN m.delta ELSE 0
    <2>1. Gold(c)' = Gold(c) + delta
      BY <1>1, GoldGrows
    <2>2. Awaited(c)' = Awaited(c) + delta
      <3>1. CASE m.kind = "trade"
        <4>1. hand' = [hand EXCEPT ![n] = x]
          BY <1>1, <3>1
        <4>2. Awaited(c)' = Awaited(c) + IF At(x).npc = c THEN At(x).delta ELSE 0
          BY <1>2, <1>3, <4>1, AwaitedGrows
        <4> QED BY <1>2, <3>1, <4>2
      <3>2. CASE m.kind # "trade"
        <4>1. hand' = hand
          BY <1>1, <1>3, <3>2 DEF TypeOK
        <4>2. Awaited(c)' = Awaited(c)
          BY <4>1 DEF Awaited, Scoring
        <4> QED BY <3>2, <4>2, GoldType
      <3> QED BY <3>1, <3>2
    <2>3. Awaited(c) \in Int /\ Gold(c) \in Int
      BY GoldType
    <2>4. delta \in Int /\ score[c] \in Int /\ Earlier[c] \in Int
      <3>1. m.delta \in Int
        BY <1>2 DEF Messages
      <3>2. delta \in Int
        BY <3>1
      <3> QED BY <3>2, StartAssumption DEF TypeOK
    <2>5. score[c] + Awaited(c) = Earlier[c] + Gold(c) /\ score'[c] = score[c]
      BY <1>3 DEF Balanced
    <2> HIDE DEF delta
    <2>6. score'[c] + Awaited(c)' = Earlier[c] + Gold(c)'
      BY <2>1, <2>2, <2>3, <2>4, <2>5
    <2> QED BY <2>6 DEF Balanced
  <1> QED BY <1>4, <1>5

LEMMA EndScore ==
  ASSUME TypeOK, TypeOK', HandsInv, NEW n \in Nodes, Score(n, 1),
         \A c \in NPCs : Balanced(c)
  PROVE  HandsInv' /\ \A c \in NPCs : Balanced(c)'
  <1>1. /\ hand[n] # None /\ hand' = [hand EXCEPT ![n] = None] /\ UNCHANGED <<since, next>>
        /\ score' = [score EXCEPT ![At(hand[n]).npc] = @ + 1 * At(hand[n]).delta]
    BY DEF Score, ApplyGoldDelta, kafkaVars
  <1>2. At(hand[n]).npc \in NPCs /\ At(hand[n]).delta \in Int
    BY <1>1, PlaceType DEF TypeOK, Messages
  <1>3. HandsInv'
    BY <1>1 DEF HandsInv, TypeOK
  <1>4. ASSUME NEW c \in NPCs PROVE Balanced(c)'
    <2> DEFINE delta == IF At(hand[n]).npc = c THEN At(hand[n]).delta ELSE 0
    <2>1. score[c] \in Int /\ delta \in Int /\ score'[c] = score[c] + delta
      BY <1>1, <1>2 DEF TypeOK
    <2>2. Awaited(c) = Awaited(c)' + delta
      BY <1>1, AwaitedShrinks
    <2>3. Gold(c)' = Gold(c)
      BY <1>1 DEF Gold, TakenGold, Taken
    <2>4. Awaited(c)' \in Int
      BY HoldersType DEF TypeOK, Awaited, Scoring, Holders
    <2> HIDE DEF delta
    <2>5. score'[c] + Awaited(c)' = score[c] + Awaited(c)
      BY <2>1, <2>2, <2>4
    <2> QED BY <1>4, <2>3, <2>5 DEF Balanced
  <1> QED BY <1>3, <1>4

LEMMA ScoreInit == Init => ScoreInv
  <1> SUFFICES ASSUME Init PROVE ScoreInv
    OBVIOUS
  <1>1. HandsInv
    BY DEF Init, HandsInv
  <1>2. ASSUME NEW c \in NPCs PROVE Balanced(c)
    <2>1. Scoring(c) = {} /\ \A p \in Partitions : Taken(p, c) = {}
      <3>1. \A p \in Partitions : since[p] = next[p] /\ next[p] \in Nat
        BY TypeInit DEF Init, TypeOK
      <3>2. \A p \in Partitions : since[p] .. next[p] - 1 = {}
        BY <3>1
      <3> QED BY <3>2 DEF Init, Scoring, Taken
    <2>2. Awaited(c) = 0
      BY <2>1, SumEmpty DEF Awaited, SumFunction
    <2>3. \A p \in Partitions : TakenGold(p, c) = 0
      BY <2>1, SumEmpty DEF TakenGold, SumFunction
    <2>4. Gold(c) = 0
      <3> DEFINE F == [p \in Partitions |-> TakenGold(p, c)]
      <3>1. \A p \in Partitions : F[p] \in Int /\ F[p] = 0
        BY <2>3
      <3>2. Gold(c) = SumFunctionOnSet(F, Partitions)
        BY DEF Gold, SumFunction
      <3> HIDE DEF F
      <3>3. SumFunctionOnSet(F, Partitions) = SumFunctionOnSet(F, {})
        BY <3>1, FinitelyManyAssumption, SumSupport
      <3> QED BY <3>2, <3>3, SumEmpty
    <2> QED BY <2>2, <2>4, StartAssumption DEF Init, Balanced
  <1> QED BY <1>1, <1>2, BalancedMeaning

LEMMA ScoreNext == TypeOK /\ TypeOK' /\ ScoreInv /\ [Next]_vars => ScoreInv'
  <1> SUFFICES ASSUME TypeOK, TypeOK', ScoreInv, [Next]_vars, faults' = 0
               PROVE  HandsInv' /\ ScoresMatch'
    BY DEF ScoreInv
  <1> USE DEF kafkaVars, handlerVars, redisVars, clientVars
  <1>1. faults \in Nat
    BY DEF TypeOK
  <1>2. ASSUME UNCHANGED <<since, next, hand, score, faults>> PROVE HandsInv' /\ ScoresMatch'
    BY <1>2 DEF ScoreInv, HandsInv, ScoresMatch, TakenGold, Taken, Scoring
  <1>3. ASSUME NEW n \in Nodes, Handle(n) PROVE HandsInv' /\ ScoresMatch'
    <2>1. HandsInv /\ \A c \in NPCs : Balanced(c)
      BY <1>3 DEF Handle, ScoreInv, ScoresMatch, Balanced, Awaited, Gold
    <2>2. HandsInv' /\ \A c \in NPCs : Balanced(c)'
      BY <1>3, <2>1, BeginScore, EndScore DEF Handle
    <2> QED BY <2>2 DEF ScoresMatch, Balanced, Awaited, Gold
  <1>4. ASSUME NEW n \in Nodes, CommandFails(n) \/ Crash(n) PROVE FALSE
    <2>1. faults' = faults + 1
      BY <1>4 DEF CommandFails, Crash
    <2> QED BY <1>1, <2>1
  <1>5. ASSUME NEW n \in Nodes, AutoCommit(n) PROVE HandsInv' /\ ScoresMatch'
    BY <1>2, <1>5 DEF AutoCommit, CommitOffsets
  <1>6. ASSUME NEW p \in Partitions, Rebalance(p) PROVE FALSE
    BY <1>1, <1>6 DEF Rebalance
  <1>7. ASSUME NEW n \in Served, Unlink(n) PROVE FALSE
    BY <1>1, <1>7 DEF Unlink
  <1>8. ASSUME NEW n \in Served, Deliver(n) \/ Relink(n) \/ Heartbeat(n)
        PROVE  HandsInv' /\ ScoresMatch'
    BY <1>2, <1>8 DEF Deliver, Relink, Heartbeat
  <1>9. ASSUME NEW c \in Clients, Connect(c) \/ Request(c) \/ Close(c) \/ Vanish(c) \/ Pong(c)
        PROVE  HandsInv' /\ ScoresMatch'
    BY <1>2, <1>9 DEF Connect, Request, Close, Vanish, Pong
  <1>10. CASE UNCHANGED vars
    BY <1>2, <1>10 DEF vars
  <1> QED BY <1>3, <1>4, <1>5, <1>6, <1>7, <1>8, <1>9, <1>10 DEF Next

\* While no command fails, no connection breaks and no node dies, the
\* leaderboard mirrors the settlements: an NPC's score is what Redis held of
\* it before and the deltas taken from all partitions, but for those that a
\* handler has published and not yet added.
THEOREM LeaderboardMirrors == Spec => []ScoresMatch
  <1>1. ScoreInv => ScoresMatch
    BY DEF ScoreInv, ScoresMatch
  <1> QED BY TypeInit, TypeNext, ScoreInit, ScoreNext, <1>1, PTL DEF Spec

=============================================================================
