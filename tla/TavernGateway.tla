--------------------------- MODULE TavernGateway ----------------------------
(***************************************************************************)
(* tavern (services/tavern/src): the nodes of one consumer group take      *)
(* town events from Kafka, publish them to Redis and keep the gold         *)
(* leaderboard and the recent content; every node's Redis subscriber       *)
(* hands what was published to the node's WebSocket clients, which         *)
(* subscribe to channels and are pinged by a heartbeat.                    *)
(*                                                                         *)
(* On a partition without a committed offset a node begins at its end      *)
(* (fromBeginning: false).  Where that is is left open: a message beyond   *)
(* it has arrived later.                                                   *)
(*                                                                         *)
(* A publication is its number in the order Redis has taken them.  Frames  *)
(* on an open socket arrive in order.  A journey is its publication: the   *)
(* presence hash written before it is left out, and so is the `crime`      *)
(* branch of handleEventsBroadcast (no service sends crime_count).         *)
(***************************************************************************)
EXTENDS Integers, Sequences, FiniteSets, Functions

CONSTANTS
    Nodes,         \* processes of tavern-consumer-group
    Clients,       \* WebSocket clients
    Home,          \* the node a client connects to
    Interests,     \* bound: the channels a client asks for
    NPCs,
    Logs,          \* a sequence of messages for every partition
    Resumed,       \* the partitions the group has committed an offset of before
    FirstOwner,    \* how the group first assigns the partitions
    Earlier,       \* the scores Redis holds from before
    BufferMax,     \* ContentBuffer's max: 100
    MaxFaults,     \* bound: Redis errors, lost connections, crashes, rebalances
    MaxRequests,   \* bound: how often clients subscribe or unsubscribe
    MaxPublished,  \* bound: publications the liveness property looks at
    None           \* no place of a log

Partitions == DOMAIN Logs
Places == UNION {{p} \X DOMAIN Logs[p] : p \in Partitions}
At(place) == Logs[place[1]][place[2]]

\* The others broadcast to nobody.
Served == {Home[c] : c \in Clients}

Kinds == {"trade", "price", "event", "content", "depart", "complete"}
Messages == [kind : Kinds, npc : NPCs, delta : Int]

ASSUME FinitelyManyAssumption == IsFiniteSet(Nodes) /\ IsFiniteSet(Partitions)
ASSUME HomeAssumption == Home \in [Clients -> Nodes]
ASSUME LogsAssumption ==
    /\ \A p \in Partitions : Logs[p] \in Seq(Messages)
    /\ None \notin Partitions \X Nat
    /\ Resumed \subseteq Partitions
ASSUME StartAssumption == FirstOwner \in [Partitions -> Nodes] /\ Earlier \in [NPCs -> Int]
ASSUME LimitsAssumption == {BufferMax, MaxFaults, MaxRequests} \subseteq Nat

\* TOPIC_TO_REDIS_CHANNEL; a travel message goes to the channel of its NPC.
Channel(m) ==
    CASE m.kind \in {"trade", "price"} -> "market"
      [] m.kind = "event" -> "events"
      [] m.kind = "content" -> "content"
      [] m.kind \in {"depart", "complete"} -> m.npc

Channels == {"market", "events", "content"} \union NPCs

ASSUME InterestsAssumption == Interests \in [Clients -> SUBSET Channels]

VARIABLES
    owner,       \* the node a partition is assigned to
    since,       \* the place its owner has begun at
    next,        \* the place its owner reads next
    committed,   \* the place the group has committed, 0 for none
    skipped,     \* history: unfinished places that an owner has begun after
    hand,        \* the place whose first command a node's handler has done
    ended,       \* history: the places whose handler has ended
    score,       \* qtown:leaderboard:gold
    content,     \* the ContentBuffer of a node, newest first
    published,   \* what Redis has published, in order
    linked,      \* whether a node's subscriber is connected
    pipe,        \* publications on the way to it
    mode,        \* what a client is
    alive,       \* its isAlive flag
    subs,        \* its subscriptions
    got,         \* the publications it has received
    faults,
    requests

kafkaVars == <<owner, since, next, committed, skipped>>
handlerVars == <<hand, ended>>
redisVars == <<score, published>>
feedVars == <<linked, pipe>>
clientVars == <<mode, alive, subs, got>>
vars == <<kafkaVars, handlerVars, content, redisVars, feedVars, clientVars, faults, requests>>

TypeOK ==
    /\ owner \in [Partitions -> Nodes]
    /\ {since, next, committed} \subseteq [Partitions -> Nat]
    /\ \A p \in Partitions : /\ next[p] \in 1 .. Len(Logs[p]) + 1 /\ since[p] \in 1 .. next[p]
                            /\ committed[p] <= Len(Logs[p]) + 1
    /\ skipped \subseteq Places
    /\ hand \in [Nodes -> Places \union {None}] /\ ended \subseteq Places
    /\ score \in [NPCs -> Int]
    /\ content \in [Nodes -> Seq(Messages)]
    /\ \A n \in Nodes : Len(content[n]) <= BufferMax
    /\ published \in Seq(Messages)
    /\ linked \in [Served -> BOOLEAN]
    /\ pipe \in [Served -> Seq(1 .. Len(published))]
    /\ mode \in [Clients -> {"out", "open", "dead", "gone"}]
    /\ alive \in [Clients -> BOOLEAN]
    /\ subs \in [Clients -> SUBSET Channels]
    /\ got \in [Clients -> Seq(1 .. Len(published))]
    /\ faults \in 0 .. MaxFaults /\ requests \in 0 .. MaxRequests

\* Where the first owner of p may begin.
Starts(p) == IF p \in Resumed THEN {1} ELSE 1 .. Len(Logs[p]) + 1

Init ==
    /\ owner = FirstOwner
    /\ committed = [p \in Partitions |-> IF p \in Resumed THEN 1 ELSE 0]
    /\ next \in [Partitions -> UNION {Starts(p) : p \in Partitions}]
    /\ \A p \in Partitions : next[p] \in Starts(p)
    /\ since = next
    /\ skipped = {place \in Places : place[2] < next[place[1]]}
    /\ hand = [n \in Nodes |-> None] /\ ended = {}
    /\ score = Earlier
    /\ content = [n \in Nodes |-> <<>>]
    /\ published = <<>>
    /\ linked = [n \in Served |-> TRUE] /\ pipe = [n \in Served |-> <<>>]
    /\ mode = [c \in Clients |-> "out"] /\ alive = [c \in Clients |-> FALSE]
    /\ subs = [c \in Clients |-> {}] /\ got = [c \in Clients |-> <<>>]
    /\ faults = 0 /\ requests = 0

-----------------------------------------------------------------------------
Times(k, x) == [i \in 1 .. k |-> x]

\* Mutant: the handler also broadcasts to the clients of its own node.
PublishTwice(n, m, k) ==
    /\ published' = published \o Times(k, m)
    /\ pipe' = [o \in Served |->
                  IF ~linked[o] THEN pipe[o]
                  ELSE pipe[o] \o [i \in 1 .. k |-> Len(published) + i]
                               \o Times(IF o = n THEN k ELSE 0, Len(published) + k)]

\* PUBLISH: Redis passes the message on to the subscribers it has.
Publish(n, m, k) ==
    /\ published' = published \o Times(k, m)
    /\ pipe' = [o \in Served |->
                  IF linked[o] THEN pipe[o] \o [i \in 1 .. k |-> Len(published) + i] ELSE pipe[o]]

\* Mutant: the score is set to the delta.
SetGold(m, k) == score' = IF k = 0 THEN score ELSE [score EXCEPT ![m.npc] = m.delta]

\* applyGoldDelta.
ApplyGoldDelta(m, k) == score' = [score EXCEPT ![m.npc] = @ + k * m.delta]

\* Mutant: the buffer is not cut.
KeepAll(items, m) == <<m>> \o items

\* ContentBuffer.add.
Keep(items, m) ==
    SubSeq(<<m>> \o items, 1, IF Len(items) < BufferMax THEN Len(items) + 1 ELSE BufferMax)

(***************************************************************************)
(* eachMessage, one message at a time for each node: n's handler takes the *)
(* next message and publishes it, k times.  Without an answer it throws,   *)
(* dispatch logs the error and the message is not taken up again; with it  *)
(* content enters the buffer, and a settlement has its score to come.      *)
(***************************************************************************)
Begin(n, k, answered) ==
    /\ hand[n] = None
    /\ \E p \in Partitions :
         LET m == Logs[p][next[p]]
             more == answered /\ m.kind = "trade" IN
         /\ owner[p] = n /\ next[p] <= Len(Logs[p])
         /\ next' = [next EXCEPT ![p] = @ + 1]
         /\ Publish(n, m, k)
         /\ hand' = [hand EXCEPT ![n] = IF more THEN <<p, next[p]>> ELSE None]
         /\ ended' = IF more THEN ended ELSE ended \union {<<p, next[p]>>}
         /\ content' = IF answered /\ m.kind = "content"
                       THEN [content EXCEPT ![n] = Keep(@, m)] ELSE content
    /\ UNCHANGED <<owner, since, committed, skipped, score, linked, clientVars, requests>>

\* handleTradeSettled, after the publication.
Score(n, k) ==
    /\ hand[n] # None
    /\ ApplyGoldDelta(At(hand[n]), k)
    /\ hand' = [hand EXCEPT ![n] = None]
    /\ ended' = ended \union {hand[n]}
    /\ UNCHANGED <<kafkaVars, content, published, feedVars, clientVars, requests>>

Handle(n) == (Begin(n, 1, TRUE) \/ Score(n, 1)) /\ UNCHANGED faults

\* The connection breaks under a command: ioredis sends it again, so that it
\* may take effect twice, or gives up, whether it has taken effect or not.
CommandFails(n) ==
    /\ faults < MaxFaults
    /\ faults' = faults + 1
    /\ \/ Begin(n, 0, FALSE) \/ Begin(n, 1, FALSE) \/ Begin(n, 2, TRUE)
       \/ Score(n, 0) \/ Score(n, 2)

\* The offsets of the partitions of n that it has read of go to the group.
CommitOffsets(n) ==
    /\ committed' = [p \in Partitions |-> IF owner[p] = n /\ next[p] > since[p]
                                          THEN next[p] ELSE committed[p]]
    /\ committed' # committed
    /\ UNCHANGED <<owner, since, next, skipped, handlerVars, content, redisVars, feedVars,
                   clientVars, faults, requests>>

\* Mutant: eachMessage does not return its promise, so kafkajs goes on.
AutoCommitEarly(n) == CommitOffsets(n)

\* kafkajs commits what n has resolved: not what it is handling.
AutoCommit(n) == hand[n] = None /\ CommitOffsets(n)

\* Where a new owner of p may begin: at the committed place, or at the end.
Resume(p) == IF committed[p] = 0 THEN next[p] .. Len(Logs[p]) + 1 ELSE {committed[p]}

\* The partitions Q have new owners.
Reassigned(Q) ==
    /\ \E start \in [Q -> UNION {Resume(p) : p \in Q}] :
         /\ \A p \in Q : start[p] \in Resume(p)
         /\ next' = [p \in Partitions |-> IF p \in Q THEN start[p] ELSE next[p]]
    /\ since' = [p \in Partitions |-> IF p \in Q THEN next'[p] ELSE since[p]]
    /\ LET fresh == {p \in Q : committed[p] = 0} IN
       skipped' = skipped \union
         {place \in Places \ ended : place[1] \in fresh /\ place[2] < next'[place[1]]}

\* The group gives p to another node.
Rebalance(p) ==
    /\ faults < MaxFaults
    /\ faults' = faults + 1
    /\ \E n \in Nodes \ {owner[p]} : owner' = [owner EXCEPT ![p] = n]
    /\ Reassigned({p})
    /\ UNCHANGED <<committed, handlerVars, content, redisVars, feedVars, clientVars, requests>>
-----------------------------------------------------------------------------
Wants(c, m) == mode[c] = "open" /\ Channel(m) \in subs[c]

\* broadcast: the clients of the node that are open and have the channel.
Receivers(n, m) == {c \in Clients : Home[c] = n /\ Wants(c, m)}

\* RedisPubSub.handleMessage: the subscriber passes a publication on.
Deliver(n) ==
    /\ linked[n] /\ pipe[n] # <<>>
    /\ pipe' = [pipe EXCEPT ![n] = Tail(@)]
    /\ LET i == Head(pipe[n]) IN
       got' = [c \in Clients |-> IF c \in Receivers(n, published[i])
                                 THEN Append(got[c], i) ELSE got[c]]
    /\ UNCHANGED <<kafkaVars, handlerVars, content, redisVars, linked, mode, alive, subs,
                   faults, requests>>

\* The subscriber's connection breaks: what is on the way is gone.
Unlink(n) ==
    /\ linked[n]
    /\ faults < MaxFaults
    /\ faults' = faults + 1
    /\ linked' = [linked EXCEPT ![n] = FALSE]
    /\ pipe' = [pipe EXCEPT ![n] = <<>>]
    /\ UNCHANGED <<kafkaVars, handlerVars, content, redisVars, clientVars, requests>>

\* ioredis connects again and renews the subscriptions - within 15 attempts.
Relink(n) ==
    /\ ~linked[n]
    /\ linked' = [linked EXCEPT ![n] = TRUE]
    /\ UNCHANGED <<kafkaVars, handlerVars, content, redisVars, pipe, clientVars, faults, requests>>
-----------------------------------------------------------------------------
\* handleConnection.
Connect(c) ==
    /\ mode[c] = "out"
    /\ mode' = [mode EXCEPT ![c] = "open"]
    /\ alive' = [alive EXCEPT ![c] = TRUE]
    /\ UNCHANGED <<kafkaVars, handlerVars, content, redisVars, feedVars, subs, got,
                   faults, requests>>

\* handleMessage: subscribe or unsubscribe.
Request(c) ==
    /\ mode[c] = "open"
    /\ requests < MaxRequests
    /\ requests' = requests + 1
    /\ \E ch \in Interests[c] :
         subs' = [subs EXCEPT ![c] = IF ch \in @ THEN @ \ {ch} ELSE @ \union {ch}]
    /\ UNCHANGED <<kafkaVars, handlerVars, content, redisVars, feedVars, mode, alive, got, faults>>

\* The "close" or "error" event removes the client.
Close(c) ==
    /\ mode[c] = "open"
    /\ mode' = [mode EXCEPT ![c] = "gone"]
    /\ alive' = [alive EXCEPT ![c] = FALSE]
    /\ subs' = [subs EXCEPT ![c] = {}]
    /\ UNCHANGED <<kafkaVars, handlerVars, content, redisVars, feedVars, got, faults, requests>>

\* The client vanishes without a word: for the server it is still open.
Vanish(c) ==
    /\ mode[c] = "open"
    /\ mode' = [mode EXCEPT ![c] = "dead"]
    /\ UNCHANGED <<kafkaVars, handlerVars, content, redisVars, feedVars, alive, subs, got,
                   faults, requests>>

Table(n) == {c \in Clients : Home[c] = n /\ mode[c] \in {"open", "dead"}}

\* Those who have not answered the last ping.
Silent(n) == {c \in Table(n) : ~alive[c]}

\* Mutant: a ping does not lower the flag.
HeartbeatTrusting(n) ==
    /\ Table(n) # {}
    /\ mode' = [c \in Clients |-> IF c \in Silent(n) THEN "gone" ELSE mode[c]]
    /\ subs' = [c \in Clients |-> IF c \in Silent(n) THEN {} ELSE subs[c]]
    /\ UNCHANGED <<alive, kafkaVars, handlerVars, content, redisVars, feedVars, got,
                   faults, requests>>

(***************************************************************************)
(* The heartbeat terminates the silent and pings the others.  The flag of  *)
(* a client that has left is not kept.                                     *)
(***************************************************************************)
Heartbeat(n) ==
    /\ Table(n) # {}
    /\ mode' = [c \in Clients |-> IF c \in Silent(n) THEN "gone" ELSE mode[c]]
    /\ subs' = [c \in Clients |-> IF c \in Silent(n) THEN {} ELSE subs[c]]
    /\ alive' = [c \in Clients |-> alive[c] /\ c \notin Table(n)]
    /\ UNCHANGED <<kafkaVars, handlerVars, content, redisVars, feedVars, got, faults, requests>>

Pong(c) ==
    /\ mode[c] = "open" /\ ~alive[c]
    /\ alive' = [alive EXCEPT ![c] = TRUE]
    /\ UNCHANGED <<kafkaVars, handlerVars, content, redisVars, feedVars, mode, subs, got,
                   faults, requests>>

\* A node dies: its clients and its buffer are gone, its partitions go to
\* any node, and it starts again.
Crash(n) ==
    /\ faults < MaxFaults
    /\ faults' = faults + 1
    /\ hand' = [hand EXCEPT ![n] = None]
    /\ content' = [content EXCEPT ![n] = <<>>]
    /\ linked' = [o \in Served |-> linked[o] \/ o = n]
    /\ pipe' = [o \in Served |-> IF o = n THEN <<>> ELSE pipe[o]]
    /\ mode' = [c \in Clients |-> IF c \in Table(n) THEN "gone" ELSE mode[c]]
    /\ alive' = [c \in Clients |-> alive[c] /\ c \notin Table(n)]
    /\ subs' = [c \in Clients |-> IF c \in Table(n) THEN {} ELSE subs[c]]
    /\ \E m \in Nodes : owner' = [p \in Partitions |-> IF owner[p] = n THEN m ELSE owner[p]]
    /\ Reassigned({p \in Partitions : owner[p] = n})
    /\ UNCHANGED <<committed, ended, redisVars, got, requests>>
-----------------------------------------------------------------------------
Next ==
    \/ \E n \in Nodes : Handle(n) \/ CommandFails(n) \/ AutoCommit(n) \/ Crash(n)
    \/ \E n \in Served : Deliver(n) \/ Unlink(n) \/ Relink(n) \/ Heartbeat(n)
    \/ \E p \in Partitions : Rebalance(p)
    \/ \E c \in Clients : Connect(c) \/ Request(c) \/ Close(c) \/ Vanish(c) \/ Pong(c)

Spec == Init /\ [][Next]_vars

\* The event loop serves its sockets, its timers and the consumer; nothing
\* says that a client answers or that a lost subscriber comes back.
Fairness ==
    /\ \A n \in Nodes : WF_vars(Handle(n) \/ CommandFails(n))
    /\ \A n \in Served : WF_vars(Deliver(n)) /\ WF_vars(Heartbeat(n))

FairSpec == Spec /\ Fairness
-----------------------------------------------------------------------------
\* Every client sees publications in the one order of Redis, each of them
\* once, whichever node took the message and whichever it is connected to:
\* the consumer "publishes to Redis ONLY" (kafka-consumer.ts:62-65).
FeedInOrder ==
    \A c \in Clients : \A i, j \in DOMAIN got[c] : i < j => got[c][i] < got[c][j]

\* The trades of an NPC in a partition that its owner has taken.
Taken(p, c) == {i \in since[p] .. next[p] - 1 : Logs[p][i].kind = "trade" /\ Logs[p][i].npc = c}

TakenGold(p, c) == SumFunction([i \in Taken(p, c) |-> Logs[p][i].delta])

Scoring(c) == {n \in Nodes : hand[n] # None /\ At(hand[n]).npc = c}

\* While nothing fails, the gold leaderboard is the sum of the deltas of the
\* settlements taken from Kafka but for those a handler is still at, over
\* all partitions and nodes ("mirrors town-core's `gold += delta`",
\* kafka-consumer.ts:207-209).
ScoresMatch ==
    faults = 0 =>
        \A c \in NPCs :
            score[c] + SumFunction([n \in Scoring(c) |-> At(hand[n]).delta])
              = Earlier[c] + SumFunction([p \in Partitions |-> TakenGold(p, c)])

\* At least once, from the first commit of a partition on: nothing is committed
\* whose handler has not ended, on whichever node, when partitions change
\* hands while a handler is at work or a node dies between the commands of
\* one (connectWithRetry's run), but for what an owner passed over when the
\* partition had no offset yet.
CommittedIsHandled ==
    \A p \in Partitions : \A i \in 1 .. committed[p] - 1 :
        <<p, i>> \in ended \/ (<<p, i>> \in skipped /\ p \notin Resumed)

\* A publication for c, whose node has not lost Redis.
Owed(c, i) == i \in DOMAIN published /\ Wants(c, published[i]) /\ linked[Home[c]]

OnTheWay(c, i) == \E k \in DOMAIN pipe[Home[c]] : pipe[Home[c]][k] = i

Received(c, i) == \E k \in DOMAIN got[c] : got[c][k] = i

\* What Redis has passed on to a node reaches its subscribers, unless the
\* client leaves or unsubscribes first or the node loses Redis
\* (handleMessage, broadcast); and a client that has vanished leaves the
\* table (startHeartbeat).
EventuallyServed ==
    \A c \in Clients :
        /\ \A i \in 1 .. MaxPublished :
             (Owed(c, i) /\ OnTheWay(c, i)) ~> (Received(c, i) \/ ~Owed(c, i))
        /\ (mode[c] = "dead") ~> (mode[c] # "dead")

=============================================================================
