------------------------------ MODULE TownTick ------------------------------
(***************************************************************************)
(* town-core's tick and its event outbox: the worker (main.py,             *)
(* _tick_worker) runs process_tick (simulation/tick.py) and then publishes *)
(* the tick's events (event_outbox.py); beside it an admin can run a tick  *)
(* (POST /tick) or create an NPC, and a visitor can trigger an event.      *)
(*                                                                         *)
(* process_tick is not one transaction: most of its rules commit on their  *)
(* own, so an exception leaves the part before it in the database.  An     *)
(* action of the model is one transaction.  Transactions that touch no     *)
(* row modelled here (production, effects on happiness, inflation) are     *)
(* left out; auto_sell_surplus is in Origination.  Ticks do not overlap    *)
(* here (Origination has the case where they do).  The broadcast is        *)
(* enabled, and every event the model has is narrative (_should_broadcast).*)
(***************************************************************************)
EXTENDS Society

CONSTANTS
    TaxEvery,      \* 10
    GrowEvery,     \* 25
    MarryEvery,    \* 50
    AgeEvery,      \* 100
    ResetAt,       \* _reset_world_state: 1000
    Strays,        \* bound: those who may be away from their workplace
    MaxTick,       \* bound: the last tick
    MaxIncidents   \* bound: aborted ticks, broker outages, restarts of the
                   \*        process, admin ticks and triggers together

ASSUME PeriodsAssumption ==
    {TaxEvery, GrowEvery, MarryEvery, AgeEvery, ResetAt} \subseteq Nat \ {0}
ASSUME TickBoundsAssumption ==
    Strays \subseteq People /\ MaxTick \in Nat /\ MaxIncidents \in Nat

VARIABLES
    tick,       \* WorldState.tick as committed
    now,        \* the tick number in the running tick's session
    pc,         \* the transaction of process_tick that comes next
    by,         \* who runs the tick
    todo,       \* living NPCs whose decision is still to come
    worker,     \* where the worker's loop is
    queue,      \* rows its drain has still to send
    events,     \* the rows of events
    serial,     \* ids of events given out
    topic,      \* qtown.events.broadcast
    producer,   \* the singleton _producer
    broker,     \* whether Kafka answers
    faults, restarts, resets, routes, triggers

runVars == <<tick, now, pc, by, todo>>
outboxVars == <<queue, topic, producer>>
rowVars == <<events, serial>>
countVars == <<faults, restarts, resets, routes, triggers>>
vars == <<societyVars, runVars, worker, outboxVars, rowVars, broker, countVars>>

Phases == {"idle", "begin", "weather", "needs", "decide", "visit", "work", "taxes",
           "growth", "ageing", "relations", "final"}

Rows == [id : Nat, tick : Nat, who : People \union {0}]

TypeOK ==
    /\ SocietyTypeOK
    /\ tick \in 0 .. MaxTick
    /\ now \in 0 .. MaxTick
    /\ pc \in Phases
    /\ by \in {"worker", "route"}
    /\ todo \subseteq People
    /\ worker \in {"asleep", "ticking", "done", "draining", "hung"}
    /\ events \subseteq Rows /\ queue \subseteq Rows
    /\ serial \in Nat
    /\ topic \in Seq(Rows)
    /\ producer \in {"none", "started", "unstarted"}
    /\ broker \in {"up", "down"}
    /\ {faults, restarts, resets, routes, triggers} \subseteq Nat

Init ==
    /\ SocietyInit
    /\ tick = 0 /\ now = 0 /\ pc = "idle" /\ by = "worker" /\ todo = {}
    /\ worker = "asleep"
    /\ queue = {} /\ topic = <<>> /\ producer = "none"
    /\ events = {} /\ serial = 0
    /\ broker = "up"
    /\ faults = 0 /\ restarts = 0 /\ resets = 0 /\ routes = 0 /\ triggers = 0

-----------------------------------------------------------------------------
\* Mutant: the tick number is saved by the last transaction only.
GoLate(next) ==
    /\ pc' = next
    /\ tick' = IF next = "idle" THEN now ELSE tick
    /\ UNCHANGED <<now, by>>

\* A transaction commits: the tick number, raised in memory at the start,
\* is saved with the first one.
Go(next) ==
    /\ pc' = next
    /\ tick' = now
    /\ UNCHANGED <<now, by>>

Incidents == faults + restarts + routes + triggers

elsewhere == <<worker, outboxVars, broker, countVars>>

Begin ==
    /\ worker = "asleep" /\ pc = "idle"
    /\ tick < MaxTick
    /\ worker' = "ticking" /\ by' = "worker"
    /\ pc' = "begin" /\ now' = tick
    /\ UNCHANGED <<societyVars, tick, todo, outboxVars, rowVars, broker, countVars>>

\* POST /tick: the same function, without a drain after it.
Route ==
    /\ pc = "idle"
    /\ tick < MaxTick /\ Incidents < MaxIncidents
    /\ routes' = routes + 1
    /\ by' = "route"
    /\ pc' = "begin" /\ now' = tick
    /\ UNCHANGED <<societyVars, tick, todo, worker, outboxVars, rowVars, broker,
                   faults, restarts, resets, triggers>>

\* assign_work_and_homes commits before the world state is touched.
AssignWork ==
    /\ pc = "begin"
    /\ pc' = "weather"
    /\ work' = Assigned
    /\ now' = now + 1
    /\ UNCHANGED <<tick, by, todo, people, living, calling, gold, hunger, bondVars,
                   rowVars, elsewhere>>

\* update_weather commits, and the tick number with it, if the weather changes.
Weather ==
    /\ pc = "weather"
    /\ \/ Go("needs")
       \/ pc' = "needs" /\ UNCHANGED <<tick, now, by>>
    /\ todo' = living
    /\ UNCHANGED <<societyVars, rowVars, elsewhere>>

(***************************************************************************)
(* One NPC's eat or calculate_happiness.  The first decision also commits  *)
(* the needs of everybody.                                                 *)
(***************************************************************************)
Decide(p) ==
    /\ pc \in {"needs", "decide"}
    /\ p \in First(1, todo)
    /\ todo' = todo \ {p}
    /\ Go("decide")
    /\ Eat(p, IF pc = "needs" THEN Hungrier(todo) ELSE hunger)
    /\ UNCHANGED <<people, living, calling, work, bondVars, rowVars, elsewhere>>

\* The transactions of the producers.
Produce ==
    /\ pc \in {"needs", "decide"} /\ todo = {}
    /\ Go("visit")
    /\ UNCHANGED <<societyVars, todo, rowVars, elsewhere>>

\* process_tavern: an event for everybody who works there, dead or alive.
Visit ==
    /\ pc = "visit"
    /\ Go("work")
    /\ LET guests == {p \in people : work[p] = "tavern"}
           number(p) == serial + Cardinality({q \in guests : q <= p})
       IN /\ events' = events \union {[id |-> number(p), tick |-> now, who |-> p] : p \in guests}
          /\ serial' = serial + Cardinality(guests)
    /\ UNCHANGED <<societyVars, todo, elsewhere>>

\* process_work: how far the strays have come is open.
Work ==
    /\ pc = "work"
    /\ Go("taxes")
    /\ \E away \in SUBSET Strays : PayWages(away)
    /\ UNCHANGED <<people, living, calling, work, hunger, bondVars, todo, rowVars, elsewhere>>

Taxes ==
    /\ pc = "taxes"
    /\ Go("growth")
    /\ IF now % TaxEvery = 0 THEN CollectTaxes ELSE gold' = gold
    /\ UNCHANGED <<people, living, calling, work, hunger, bondVars, todo, rowVars, elsewhere>>

Growth ==
    /\ pc = "growth"
    /\ Go("ageing")
    /\ \/ now % GrowEvery = 0 /\ Grow
       \/ UNCHANGED societyVars
    /\ UNCHANGED <<todo, rowVars, elsewhere>>

\* age_npcs: who reaches max_age dies.
Ageing ==
    /\ pc = "ageing"
    /\ Go("relations")
    /\ IF now % AgeEvery = 0 THEN living' \in SUBSET living ELSE living' = living
    /\ UNCHANGED <<people, calling, work, gold, hunger, bondVars, todo, rowVars, elsewhere>>

Relations ==
    /\ pc = "relations"
    /\ Go("final")
    /\ strength' = Warmer
    /\ UNCHANGED <<people, living, calling, work, gold, hunger, spouses, todo, rowVars, elsewhere>>

\* check_marriage leaves its commit to the end of process_tick.
Final ==
    /\ pc = "final"
    /\ Go("idle")
    /\ spouses' = IF now % MarryEvery = 0 THEN spouses \union Wed ELSE spouses
    /\ worker' = IF by = "worker" THEN "done" ELSE worker
    /\ UNCHANGED <<people, living, calling, work, gold, hunger, strength, todo,
                   outboxVars, rowVars, broker, countVars>>

\* Mutant: an exception in a tick ends the worker's loop.
AbortForGood ==
    /\ pc # "idle"
    /\ Incidents < MaxIncidents
    /\ faults' = faults + 1
    /\ pc' = "idle"
    /\ worker' = IF by = "worker" THEN "hung" ELSE worker
    /\ UNCHANGED <<societyVars, tick, now, by, todo, outboxVars, rowVars, broker,
                   restarts, resets, routes, triggers>>

\* An exception between two commits: the rest of the tick is dropped, and
\* the worker sleeps until the next one.
Abort ==
    /\ pc # "idle"
    /\ Incidents < MaxIncidents
    /\ faults' = faults + 1
    /\ pc' = "idle"
    /\ worker' = IF by = "worker" THEN "asleep" ELSE worker
    /\ UNCHANGED <<societyVars, tick, now, by, todo, outboxVars, rowVars, broker,
                   restarts, resets, routes, triggers>>
-----------------------------------------------------------------------------
\* Mutant: the drain takes up what earlier ticks have left.
EventsUpTo(t) == {e \in events : e.tick <= t}

\* Mutant: the drain is given the number of the tick before.
EventsBefore(t) == {e \in events : e.tick + 1 = t}

EventsOf(t) == {e \in events : e.tick = t}

\* Back on the event loop the worker reads the tick number again and asks
\* for the rows with that number.
ReadTick ==
    /\ worker = "done"
    /\ worker' = "draining"
    /\ queue' = EventsOf(tick)
    /\ UNCHANGED <<societyVars, runVars, topic, producer, rowVars, broker, countVars>>

\* get_producer: the singleton is stored before its start is awaited.
Started == IF producer = "none" THEN IF broker = "up" THEN "started" ELSE "unstarted"
           ELSE producer

\* The rows come without an order; their order within a tick is left out.
FirstRow(e) == e \in queue /\ \A f \in queue : e.id <= f.id

Send(e) ==
    /\ worker = "draining"
    /\ FirstRow(e)
    /\ producer' = Started
    /\ producer' = "started" /\ broker = "up"
    /\ topic' = Append(topic, e)
    /\ queue' = queue \ {e}
    /\ UNCHANGED <<societyVars, runVars, worker, rowVars, broker, countVars>>

(***************************************************************************)
(* The emission raises, with or without the broker having the message, and *)
(* the drain stops.  On a producer that was never started (aiokafka, not   *)
(* in this repository) a send does not succeed: it raises or never returns.*)
(***************************************************************************)
SendFails(e) ==
    /\ worker = "draining"
    /\ FirstRow(e)
    /\ producer' = Started
    /\ producer' = "unstarted" \/ broker = "down"
    /\ \/ worker' = "asleep" /\ queue' = {}
       \/ producer = "unstarted" /\ worker' = "hung" /\ queue' = queue
    /\ \/ topic' = topic
       \/ producer = "started" /\ topic' = Append(topic, e)
    /\ UNCHANGED <<societyVars, runVars, rowVars, broker, countVars>>

DrainEnds ==
    /\ worker = "draining"
    /\ queue = {}
    /\ worker' = "asleep"
    /\ UNCHANGED <<societyVars, runVars, outboxVars, rowVars, broker, countVars>>
-----------------------------------------------------------------------------
\* POST /api/trigger: an event with the committed tick number; gold_rush
\* also pays the living miners.  baby_boom imports a function that does not
\* exist, so its session is rolled back.
Trigger(rush) ==
    /\ Incidents < MaxIncidents
    /\ triggers' = triggers + 1
    /\ serial' = serial + 1
    /\ events' = events \union {[id |-> serial + 1, tick |-> tick, who |-> 0]}
    /\ gold' = [p \in People |-> IF rush /\ p \in living /\ calling[p] = "mine"
                                 THEN gold[p] + Rush ELSE gold[p]]
    /\ UNCHANGED <<people, living, calling, work, hunger, bondVars, runVars, worker,
                   outboxVars, broker, faults, restarts, resets, routes>>

\* POST /api/npcs: a person of any role, without gold.
CreateNpc ==
    /\ \E p \in People, job \in Jobs \union {Nowhere} : Join(p, job, 0)
    /\ UNCHANGED <<runVars, rowVars, elsewhere>>

\* The process dies and starts again; past ResetAt the world starts anew.
Restart ==
    LET reset == tick >= ResetAt IN
    /\ Incidents < MaxIncidents
    /\ restarts' = restarts + 1
    /\ resets' = IF reset THEN resets + 1 ELSE resets
    /\ Repair(reset)
    /\ tick' = IF reset THEN 0 ELSE tick
    /\ now' = 0 /\ pc' = "idle" /\ by' = "worker" /\ todo' = {}
    /\ worker' = "asleep" /\ queue' = {} /\ producer' = "none"
    /\ events' = IF reset
                 THEN {e \in events : e.who \in {0} \union First(Len(Founders), people)}
                 ELSE events
    /\ UNCHANGED <<serial, topic, broker, faults, routes, triggers>>

BrokerDown ==
    /\ broker = "up"
    /\ Incidents < MaxIncidents
    /\ faults' = faults + 1
    /\ broker' = "down"
    /\ UNCHANGED <<societyVars, runVars, worker, outboxVars, rowVars,
                   restarts, resets, routes, triggers>>

BrokerUp ==
    /\ broker = "down"
    /\ broker' = "up"
    /\ UNCHANGED <<societyVars, runVars, worker, outboxVars, rowVars, countVars>>
-----------------------------------------------------------------------------
Transaction ==
    \/ AssignWork
    \/ Weather
    \/ \E p \in People : Decide(p)
    \/ Produce
    \/ Visit
    \/ Work
    \/ Taxes
    \/ Growth
    \/ Ageing
    \/ Relations
    \/ Final

Drain ==
    \/ ReadTick
    \/ \E e \in queue : Send(e)
    \/ \E e \in queue : SendFails(e)
    \/ DrainEnds

Environment ==
    \/ Route
    \/ CreateNpc
    \/ \E rush \in BOOLEAN : Trigger(rush)
    \/ Abort
    \/ Restart
    \/ BrokerDown
    \/ BrokerUp

Next == Begin \/ Transaction \/ Drain \/ Environment

Spec == Init /\ [][Next]_vars

(***************************************************************************)
(* The loop sleeps 30 s and goes on for ever; a tick goes on to its end or *)
(* to an exception; an emission returns or times out.  Nothing that the    *)
(* outside does is owed.                                                   *)
(***************************************************************************)
Fairness == WF_vars(Begin) /\ WF_vars(Transaction) /\ WF_vars(Drain)

FairSpec == Spec /\ Fairness
-----------------------------------------------------------------------------
\* Each tick's wages and friendships come at most once: however often a
\* tick is cut short between its commits, its number is spent with its
\* first commit and what was done is not done again (tick.py:62).
OncePerTick ==
    resets = 0 =>
        /\ \A p \in People :
             gold[p] <= 100 + Rush * triggers + Wage * tick
        /\ \A ab \in People \X People : strength[ab] <= Warmth * tick

\* No event is broadcast twice and the ticks of the broadcast ascend, with
\* failed and doubtful sends, aborted ticks, restarts, an admin's tick
\* between the worker's commit and its reading of the tick number
\* (drain_events, main.py:422-431) - until a reset starts to count anew.
BroadcastOnce ==
    resets = 0 =>
        \A i, j \in DOMAIN topic :
            i < j => topic[i].id # topic[j].id /\ topic[i].tick <= topic[j].tick

\* When nothing fails and nobody interferes, every event there is has been
\* broadcast by the time the worker sleeps (event_outbox.py:1-4).
TicksDrained ==
    faults + restarts + routes + triggers = 0 /\ worker = "asleep"
        => \A e \in events : \E i \in DOMAIN topic : topic[i] = e

\* The worker ticks on after aborted ticks, outages and restarts; only a
\* send that never returns can hold it up.
KeepsTicking ==
    tick < MaxTick ~> tick = MaxTick \/ (worker = "hung" /\ producer = "unstarted")

\* "a broker outage just skips this tick" (event_outbox.py:54): what a
\* drain takes up while the broker answers is sent, unless the broker goes
\* down again or the process dies.
OutageSkipsTicks ==
    \A i \in 1 .. MaxTick * NPeople :
        (worker = "draining" /\ broker = "up" /\ \E e \in queue : e.id = i)
            ~> (broker = "down" \/ restarts > 0 \/ \E k \in DOMAIN topic : topic[k].id = i)

=============================================================================
