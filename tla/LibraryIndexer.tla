--------------------------- MODULE LibraryIndexer ---------------------------
(***************************************************************************)
(* The library's Kafka consumer (services/library/library/                 *)
(* kafka_consumer.py): messages are routed into one buffer per index and   *)
(* written to Elasticsearch in bulk.  Three asyncio tasks share the        *)
(* buffers: consume() after every message, the periodic flush, and stop(). *)
(* They interleave only at `await bulk_index`, so a step here runs from    *)
(* one await to the next.  Offsets are committed in the background.        *)
(*                                                                         *)
(* A document is the offset of its message.  Elasticsearch keeps one       *)
(* document for each _id of an index, which bulk_index takes from the      *)
(* message: a later write of the same _id replaces it.  The order of the   *)
(* documents inside one bulk request is left open.                         *)
(***************************************************************************)
EXTENDS Naturals, Sequences, FiniteSets

CONSTANTS
    NBuffers,     \* the indices, in the order of the dict self._buffers
    Log,          \* the topics: per offset the buffer routed to, 0 for none
    Id,           \* the _id of each message's document, 0 if Elasticsearch makes one
    MaxBuffer,    \* MAX_BUFFER_SIZE
    MaxFaults,    \* bound: failed bulk calls, rejected documents and crashes
    MaxRestarts   \* bound: how often the service is started again

ASSUME BuffersAssumption == NBuffers \in Nat
ASSUME LogAssumption == Log \in Seq(0 .. NBuffers)
ASSUME IdAssumption == Id \in [1 .. Len(Log) -> Nat]
ASSUME BoundsAssumption ==
    MaxBuffer \in Nat \ {0} /\ MaxFaults \in Nat /\ MaxRestarts \in Nat

Buffers == 1 .. NBuffers
Offsets == 1 .. Len(Log)
Tasks == {"consume", "flush", "stop"}

VARIABLES
    life,        \* where the process is between lifespan's start and its end
    next,        \* messages taken from Kafka
    committed,   \* messages a restarted consumer does not see again
    docs,        \* self._docs of each buffer
    at,          \* the buffer whose bulk_index a task awaits, 0 if none
    sent,        \* the documents of that call
    index,       \* how often Elasticsearch has written each document
    stored,      \* the documents it holds
    cancelled,   \* documents cut off in flight by a task's cancellation
    lost,        \* documents no buffer, call or later fetch will write
    faults,
    restarts

kafkaVars == <<next, committed>>
indexVars == <<index, stored>>
ghostVars == <<cancelled, lost>>
countVars == <<faults, restarts>>
vars == <<life, kafkaVars, docs, at, sent, indexVars, ghostVars, countVars>>

InMemory == (UNION {docs[b] : b \in Buffers}) \union (UNION {sent[t] : t \in Tasks})

TypeOK ==
    /\ life \in {"running", "cancelled", "stopping", "down"}
    /\ next \in 0 .. Len(Log)
    /\ committed \in 0 .. Len(Log)
    /\ docs \in [Buffers -> SUBSET Offsets]
    /\ at \in [Tasks -> 0 .. NBuffers]
    /\ sent \in [Tasks -> SUBSET Offsets]
    /\ index \in [Offsets -> Nat]
    /\ stored \subseteq Offsets
    /\ cancelled \subseteq Offsets
    /\ lost \subseteq Offsets
    /\ faults \in 0 .. MaxFaults
    /\ restarts \in 0 .. MaxRestarts

Empty == [b \in Buffers |-> {}]
Idle == [t \in Tasks |-> 0]
Nothing == [t \in Tasks |-> {}]

Init ==
    /\ life = "running"
    /\ next = 0 /\ committed = 0
    /\ docs = Empty /\ at = Idle /\ sent = Nothing
    /\ index = [o \in Offsets |-> 0] /\ stored = {}
    /\ cancelled = {} /\ lost = {}
    /\ faults = 0 /\ restarts = 0

-----------------------------------------------------------------------------
(***************************************************************************)
(* should_flush: a buffer is due when it is full, or when it holds         *)
(* anything and FLUSH_INTERVAL_SECONDS have passed since its last drain.   *)
(* The clock is not modelled, so any filled buffer may be old.  The        *)
(* periodic flush and stop() take every filled buffer.                     *)
(***************************************************************************)
Filled(bufs) == {b \in Buffers : bufs[b] # {}}

\* Mutant: a buffer is flushed one document too late.
ShouldFlushLate(bufs) == {b \in Buffers : Cardinality(bufs[b]) > MaxBuffer}

ShouldFlush(bufs) == {b \in Buffers : Cardinality(bufs[b]) >= MaxBuffer}

\* Mutant: the periodic flush leaves the buffers that are not full.
DueSetsFull(t, bufs) ==
    IF t = "stop" THEN {Filled(bufs)} ELSE {ShouldFlush(bufs)}

DueSets(t, bufs) ==
    IF t = "consume"
    THEN {due \in SUBSET Filled(bufs) : ShouldFlush(bufs) \subseteq due}
    ELSE {Filled(bufs)}

\* Mutant: drain copies the documents and clears them after the call.
GoOnCopied(t, from, bufs, calls, sending) ==
    \E due \in DueSets(t, bufs) :
        LET rest == {b \in due : b > from} IN
        /\ docs' = bufs
        /\ \/ rest = {} /\ at' = [calls EXCEPT ![t] = 0]
                      /\ sent' = [sending EXCEPT ![t] = {}]
           \/ \E b \in rest :
                /\ at' = [calls EXCEPT ![t] = b]
                /\ sent' = [sending EXCEPT ![t] = bufs[b]]

(***************************************************************************)
(* Task t goes on through the buffers after number `from`: it drains the   *)
(* first one that is due and awaits its bulk_index, or its round ends.     *)
(***************************************************************************)
GoOn(t, from, bufs, calls, sending) ==
    \E due \in DueSets(t, bufs) :
        LET rest == {b \in due : b > from} IN
        \/ /\ rest = {}
           /\ docs' = bufs
           /\ at' = [calls EXCEPT ![t] = 0]
           /\ sent' = [sending EXCEPT ![t] = {}]
        \/ \E b \in rest :
           /\ \A c \in rest : b <= c
           /\ docs' = [bufs EXCEPT ![b] = {}]
           /\ at' = [calls EXCEPT ![t] = b]
           /\ sent' = [sending EXCEPT ![t] = bufs[b]]

\* consume: one message is routed and the buffers are looked at.
Consume ==
    /\ life = "running"
    /\ at["consume"] = 0
    /\ next < Len(Log)
    /\ next' = next + 1
    /\ LET to == Log[next + 1] IN
       GoOn("consume", 0,
            IF to = 0 THEN docs ELSE [docs EXCEPT ![to] = @ \union {next + 1}],
            at, sent)
    /\ UNCHANGED <<life, committed, indexVars, ghostVars, countVars>>

\* _periodic_flush wakes up: _running is still true until stop() clears it.
Wake ==
    /\ life \in {"running", "cancelled"}
    /\ at["flush"] = 0
    /\ GoOn("flush", 0, docs, at, sent)
    /\ UNCHANGED <<life, kafkaVars, indexVars, ghostVars, countVars>>

\* d and o have the same _id in the same index.
SameDoc(d, o) == d = o \/ (Log[d] = Log[o] /\ Id[d] = Id[o] /\ Id[d] # 0)

\* Elasticsearch writes these documents: of those with one _id it keeps one, w.
WriteAll(these) ==
    /\ index' = [o \in Offsets |-> IF o \in these THEN index[o] + 1 ELSE index[o]]
    /\ \E w \in SUBSET these :
         /\ \A o \in these : \E d \in w : SameDoc(d, o)
         /\ \A d, o \in w : SameDoc(d, o) => d = o
         /\ stored' = {d \in stored : \A o \in these : ~SameDoc(d, o)} \union w

(***************************************************************************)
(* bulk_index returns.  Documents Elasticsearch rejects one by one are     *)
(* only counted in result["errors"]: nobody puts them back.                *)
(***************************************************************************)
Indexed(t) ==
    /\ at[t] # 0
    /\ \E rejected \in SUBSET sent[t] :
       /\ rejected = {} \/ faults < MaxFaults
       /\ faults' = IF rejected = {} THEN faults ELSE faults + 1
       /\ WriteAll(sent[t] \ rejected)
       /\ lost' = lost \union rejected
    /\ GoOn(t, at[t], docs, at, sent)
    /\ UNCHANGED <<life, kafkaVars, cancelled, restarts>>

\* Mutant: a failed bulk call is only logged.
PutBackNothing(t) == docs

(***************************************************************************)
(* bulk_index raises, with or without Elasticsearch having done the work:  *)
(* the documents go back into their buffer and the round goes on.          *)
(***************************************************************************)
PutBack(t) == [docs EXCEPT ![at[t]] = @ \union sent[t]]

BulkFails(t) ==
    /\ at[t] # 0
    /\ faults < MaxFaults
    /\ faults' = faults + 1
    /\ WriteAll({}) \/ WriteAll(sent[t])
    /\ GoOn(t, at[t], PutBack(t), at, sent)
    /\ UNCHANGED <<life, kafkaVars, ghostVars, restarts>>

\* Mutant: the offset after the position is committed.
AutoCommitPast ==
    /\ life # "down"
    /\ committed < next
    /\ committed' = next + 1
    /\ UNCHANGED <<life, next, docs, at, sent, indexVars, ghostVars, countVars>>

\* aiokafka commits the position of the consumer every few seconds.
AutoCommit ==
    /\ life # "down"
    /\ committed < next
    /\ committed' = next
    /\ UNCHANGED <<life, next, docs, at, sent, indexVars, ghostVars, countVars>>

-----------------------------------------------------------------------------
(***************************************************************************)
(* Shutdown (main.py, lifespan): the consume task is cancelled, then       *)
(* stop() cancels the periodic flush, flushes every buffer and leaves the  *)
(* group, which commits.  A task cancelled at its await drops the          *)
(* documents it had drained: CancelledError is not an Exception, so they   *)
(* are not put back.  Elasticsearch may have written them all the same.    *)
(***************************************************************************)
Cut(t) ==
    \/ /\ WriteAll(sent[t])
       /\ UNCHANGED ghostVars
    \/ /\ UNCHANGED indexVars
       /\ cancelled' = cancelled \union sent[t]
       /\ lost' = lost \union sent[t]

CancelConsume ==
    /\ life = "running"
    /\ life' = "cancelled"
    /\ Cut("consume")
    /\ at' = [at EXCEPT !["consume"] = 0]
    /\ sent' = [sent EXCEPT !["consume"] = {}]
    /\ UNCHANGED <<kafkaVars, docs, countVars>>

\* Mutant: stop() leaves the group without flushing the buffers.
CancelFlushOnly ==
    /\ life = "cancelled"
    /\ life' = "stopping"
    /\ Cut("flush")
    /\ at' = [at EXCEPT !["flush"] = 0]
    /\ sent' = [sent EXCEPT !["flush"] = {}]
    /\ UNCHANGED <<kafkaVars, docs, countVars>>

CancelFlush ==
    /\ life = "cancelled"
    /\ life' = "stopping"
    /\ Cut("flush")
    /\ GoOn("stop", 0, docs, [at EXCEPT !["flush"] = 0], [sent EXCEPT !["flush"] = {}])
    /\ UNCHANGED <<kafkaVars, countVars>>

Stopped ==
    /\ life = "stopping"
    /\ at["stop"] = 0
    /\ life' = "down"
    /\ committed' = next
    /\ lost' = lost \union InMemory
    /\ docs' = Empty
    /\ UNCHANGED <<next, at, sent, indexVars, cancelled, countVars>>

\* The process dies.  Its group reads on after the committed offset, so what
\* it held comes again only if it was not committed.
Crash ==
    /\ life # "down"
    /\ faults < MaxFaults
    /\ faults' = faults + 1
    /\ life' = "down"
    /\ next' = committed
    /\ \E done \in SUBSET Tasks : WriteAll(UNION {sent[t] : t \in done})
    /\ lost' = lost \union (InMemory \intersect 1 .. committed)
    /\ docs' = Empty /\ at' = Idle /\ sent' = Nothing
    /\ UNCHANGED <<committed, cancelled, restarts>>

\* start: the consumer joins the group and reads on after the committed offset.
Start ==
    /\ life = "down"
    /\ restarts < MaxRestarts
    /\ restarts' = restarts + 1
    /\ life' = "running"
    /\ UNCHANGED <<kafkaVars, docs, at, sent, indexVars, ghostVars, faults>>

Next ==
    \/ Consume
    \/ Wake
    \/ \E t \in Tasks : Indexed(t) \/ BulkFails(t)
    \/ AutoCommit
    \/ CancelConsume
    \/ CancelFlush
    \/ Stopped
    \/ Crash
    \/ Start

Spec == Init /\ [][Next]_vars

(***************************************************************************)
(* The event loop runs every task that is not waiting: the timer wakes the *)
(* flush, a bulk call returns or raises (request_timeout), and a shutdown  *)
(* that has begun goes on.                                                 *)
(***************************************************************************)
Fairness ==
    /\ WF_vars(Wake)
    /\ \A t \in Tasks : WF_vars(Indexed(t) \/ BulkFails(t))
    /\ WF_vars(CancelFlush)
    /\ WF_vars(Stopped)

FairSpec == Spec /\ Fairness

-----------------------------------------------------------------------------
\* Elasticsearch holds a document under the _id of o: its own, or that of
\* another message with the same _id, as the other side of a trade.
Present(o) == \E d \in stored : SameDoc(d, o)

\* Every message taken so far that belongs in an index is in a buffer or in a
\* bulk call, or known to be lost, or it has been written and there still is
\* a document with its _id: across failed and half-done bulk calls, two tasks
\* at one buffer, overwritten documents, commits, crashes and restarts no
\* message drops out unnoticed (_flush_buffer, drain, stop, bulk_index).
NothingVanishes ==
    \A o \in 1 .. next :
        Log[o] # 0 => (index[o] > 0 /\ Present(o)) \/ o \in InMemory \/ o \in lost

\* A document is held once: by its own buffer or by one bulk call for that
\* buffer, whatever way the tasks interleave (drain copies and clears before
\* the await, the except branch puts back after it).
HeldOnce ==
    /\ \A b \in Buffers : \A o \in docs[b] : o <= next /\ Log[o] = b
    /\ \A t \in Tasks : \A o \in sent[t] : o <= next /\ Log[o] = at[t]
    /\ \A t \in Tasks : \A b \in Buffers : sent[t] \intersect docs[b] = {}
    /\ \A t, u \in Tasks : t # u => sent[t] \intersect sent[u] = {}

\* Without a fault a stop, however it falls, loses only what a cancelled
\* task had in flight: stop() writes out the rest, and no document is
\* written twice, also across restarts.
StopLosesOnlyCancelled ==
    faults = 0 => lost \subseteq cancelled /\ \A o \in Offsets : index[o] <= 1

\* As long as Elasticsearch answers, no buffer and no bulk call grows beyond
\* MAX_BUFFER_SIZE (should_flush is asked after every message).
SmallBatches ==
    faults = 0 =>
        /\ \A b \in Buffers : Cardinality(docs[b]) <= MaxBuffer
        /\ \A t \in Tasks : Cardinality(sent[t]) <= MaxBuffer

\* What is buffered gets written: with finitely many faults every document
\* held in memory is indexed, or lost in one of the named ways, or the
\* process goes down (_periodic_flush and the put-back of _flush_buffer).
EventuallyIndexed ==
    \A o \in Offsets :
        o \in InMemory ~> index[o] > 0 \/ o \in lost \/ life = "down"

=============================================================================
