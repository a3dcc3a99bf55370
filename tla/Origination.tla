---------------------------- MODULE Origination ----------------------------
(***************************************************************************)
(* Where town-core's orders come from: in every tick auto_sell_surplus     *)
(* offers what each producer's building has above its reserve to the       *)
(* market, through a client with a deadline and a circuit breaker, takes   *)
(* the offered goods out of the building when the answer comes, and saves  *)
(* all of it in one commit after the last NPC. Ticks are run by the tick   *)
(* worker and by POST /tick, each with a database session of its own.      *)
(***************************************************************************)
EXTENDS Integers, FiniteSets

CONSTANTS
  Ticks,      \* who runs ticks: the worker's thread, requests of the route
  Sellers,    \* producer NPCs with a work building
  Shelves,    \* rows of the resources table: one good at one building
  ShelfOf,    \* the row that a seller's role and building select
  Keep,       \* SURPLUS_KEEP_STOCK
  Opening,    \* what each shelf has at the start
  Batches,    \* what a shelf may gain in one tick
  MaxMade,    \* bound: goods ever made for one shelf
  Threshold,  \* failures in a row that open the circuit
  MaxFaults,  \* bound: outages, missed deadlines, failed ticks, restarts
  None        \* no seller

ASSUME OriginationAssumption ==
  /\ ShelfOf \in [Sellers -> Shelves]
  /\ None \notin Sellers
  /\ Keep \in Nat /\ Opening \in Nat /\ MaxMade \in Nat /\ MaxFaults \in Nat
  /\ Batches \subseteq Nat
  /\ Threshold \in Nat \ {0}

VARIABLES
  stock,     \* resources.quantity as committed
  made,      \* history: all that was ever put on a shelf
  pc,        \* whether each tick is selling
  todo,      \* sellers that the tick's loop has still to visit
  drawn,     \* shelves the tick's session has changed and not committed
  draft,     \* their quantity in that session
  call,      \* the PlaceOrder call of the tick, if it is in one
  up,        \* the market answers
  onOffer,   \* history: quantity of each shelf's orders that reached a book
  late,      \* abandoned requests that may still reach the market
  failures,  \* _consecutive_failures, counted up to Threshold
  open,      \* the circuit is open: its cooldown has not elapsed
  outage,    \* history: calls that failed since the last cooldown or success, and
             \* whether a cooldown has passed since the last success
  faults

goods == <<stock, made>>
session == <<pc, todo, drawn, draft, call>>
market == <<up, onOffer, late>>
breaker == <<failures, open, outage>>
vars == <<goods, session, market, breaker, faults>>
-----------------------------------------------------------------------------
NoCall == [seller |-> None, level |-> 0, landed |-> FALSE]
Waiting(t) == call[t].seller # None
Fresh == [calls |-> 0, known |-> FALSE]

\* Mutant: every seller finds the committed quantity.
CommittedLevel(t, s) == stock[s]

\* The quantity of a shelf as t's session sees it: its own change, else the database's.
Level(t, s) == IF s \in drawn[t] THEN draft[t][s] ELSE stock[s]

\* What t's call offers, of which shelf.
Lot(t) == [shelf |-> ShelfOf[call[t].seller], qty |-> call[t].level - Keep]

Init ==
  /\ stock = [s \in Shelves |-> Opening] /\ made = stock
  /\ pc = [t \in Ticks |-> "idle"]
  /\ todo = [t \in Ticks |-> {}]
  /\ drawn = [t \in Ticks |-> {}]
  /\ draft = [t \in Ticks |-> [s \in Shelves |-> 0]]
  /\ call = [t \in Ticks |-> NoCall]
  /\ up = TRUE
  /\ onOffer = [s \in Shelves |-> 0]
  /\ late = {}
  /\ failures = 0 /\ open = FALSE /\ outage = Fresh
  /\ faults = 0

\* t's session ends; what it has not committed is gone.
Close(t) ==
  /\ pc' = [pc EXCEPT ![t] = "idle"]
  /\ todo' = [todo EXCEPT ![t] = {}]
  /\ drawn' = [drawn EXCEPT ![t] = {}]
  /\ draft' = [draft EXCEPT ![t] = [s \in Shelves |-> 0]]
  /\ call' = [call EXCEPT ![t] = NoCall]

\* The call of t returns, and the loop goes on with the next seller.
Return(t) == call' = [call EXCEPT ![t] = NoCall]

Fault == faults < MaxFaults /\ faults' = faults + 1
-----------------------------------------------------------------------------
\* A tick begins: production puts goods on the shelves and commits them, and
\* auto_sell_surplus loads the sellers.
Work(t) ==
  /\ pc[t] = "idle"
  /\ \E b \in [Shelves -> Batches] :
       /\ \A s \in Shelves : made[s] + b[s] <= MaxMade \/ b[s] = 0
       /\ stock' = [s \in Shelves |-> stock[s] + b[s]]
       /\ made' = [s \in Shelves |-> made[s] + b[s]]
  /\ pc' = [pc EXCEPT ![t] = "selling"]
  /\ todo' = [todo EXCEPT ![t] = Sellers]
  /\ UNCHANGED <<drawn, draft, call, market, breaker, faults>>

\* Mutant: the failure count keeps the circuit closed to calls after the cooldown.
FailsFastForGood == failures >= Threshold

\* The client gives None without a call.
FailsFast == open

\* Mutant: the reserve is offered too when nothing else is there.
SomeSurplus(level) == level >= 0

HasSurplus(level) == level > Keep

\* The loop comes to seller n. Only a surplus and a closed circuit lead to a call.
Visit(t, n) ==
  LET level == Level(t, ShelfOf[n])
  IN  /\ pc[t] = "selling" /\ ~Waiting(t)
      /\ n \in todo[t]
      /\ todo' = [todo EXCEPT ![t] = @ \ {n}]
      /\ IF HasSurplus(level) /\ ~FailsFast
         THEN call' = [call EXCEPT ![t] = [seller |-> n, level |-> level, landed |-> FALSE]]
         ELSE UNCHANGED call
      /\ UNCHANGED <<goods, pc, drawn, draft, market, breaker, faults>>

\* The market puts the order of t's call into its book (MarketServer refuses none).
Land(t) ==
  /\ Waiting(t) /\ ~call[t].landed /\ up
  /\ call' = [call EXCEPT ![t].landed = TRUE]
  /\ onOffer' = [onOffer EXCEPT ![Lot(t).shelf] = @ + Lot(t).qty]
  /\ UNCHANGED <<goods, pc, todo, drawn, draft, up, late, breaker, faults>>

\* The offered goods leave the shelf, in t's session.
Escrow(t) ==
  /\ drawn' = [drawn EXCEPT ![t] = @ \union {Lot(t).shelf}]
  /\ draft' = [draft EXCEPT ![t][Lot(t).shelf] = call[t].level - Lot(t).qty]

\* The answer comes in time.
Answer(t) ==
  /\ Waiting(t) /\ call[t].landed /\ up
  /\ Escrow(t)
  /\ Return(t)
  /\ failures' = 0 /\ outage' = Fresh
  /\ UNCHANGED <<goods, pc, todo, market, open, faults>>
-----------------------------------------------------------------------------
\* Mutant: opening the circuit starts the count again.
CountAndReset ==
  LET n == failures + 1
  IN  /\ failures' = IF n >= Threshold THEN 0 ELSE n
      /\ open' = (open \/ n >= Threshold)
      /\ outage' = [outage EXCEPT !.calls = @ + 1]

\* place_order's except clause.
CountFailure ==
  LET n == IF failures < Threshold THEN failures + 1 ELSE Threshold
  IN  /\ failures' = n
      /\ open' = (open \/ n >= Threshold)
      /\ outage' = [outage EXCEPT !.calls = @ + 1]

\* Mutant: a failed call takes the goods all the same.
UnreachableEscrow(t) ==
  /\ Waiting(t) /\ ~up
  /\ Escrow(t)
  /\ Return(t)
  /\ CountFailure
  /\ UNCHANGED <<goods, pc, todo, market, faults>>

\* The market is down: the call fails, also one whose order it had already taken.
Unreachable(t) ==
  /\ Waiting(t) /\ ~up
  /\ Return(t)
  /\ CountFailure
  /\ UNCHANGED <<goods, pc, todo, drawn, draft, market, faults>>

\* t gives its request up; the market may not have seen it yet.
Abandon(t) ==
  IF Waiting(t) /\ ~call[t].landed
  THEN {[no |-> faults, by |-> t, shelf |-> Lot(t).shelf, qty |-> Lot(t).qty]}
  ELSE {}

\* The deadline passes before the answer.
Miss(t) ==
  /\ Waiting(t) /\ up
  /\ Fault
  /\ late' = late \union Abandon(t)
  /\ Return(t)
  /\ CountFailure
  /\ UNCHANGED <<goods, pc, todo, drawn, draft, up, onOffer>>

\* An abandoned request reaches the market after all.
LandLate(r) ==
  /\ r \in late /\ up
  /\ late' = late \ {r}
  /\ onOffer' = [onOffer EXCEPT ![r.shelf] = @ + r.qty]
  /\ UNCHANGED <<goods, session, up, breaker, faults>>

\* After the last seller the session commits what it has changed.
Save(t) ==
  /\ pc[t] = "selling" /\ ~Waiting(t) /\ todo[t] = {}
  /\ stock' = [s \in Shelves |-> Level(t, s)]
  /\ Close(t)
  /\ UNCHANGED <<made, market, breaker, faults>>

\* A statement of the loop or the commit raises; the worker logs it and closes the session.
Abort(t) ==
  /\ pc[t] = "selling" /\ ~Waiting(t)
  /\ Fault
  /\ Close(t)
  /\ UNCHANGED <<goods, market, breaker>>

\* The process dies and starts again with a new client.
Restart ==
  /\ Fault
  /\ late' = late \union UNION {Abandon(t) : t \in Ticks}
  /\ pc' = [t \in Ticks |-> "idle"]
  /\ todo' = [t \in Ticks |-> {}]
  /\ drawn' = [t \in Ticks |-> {}]
  /\ draft' = [t \in Ticks |-> [s \in Shelves |-> 0]]
  /\ call' = [t \in Ticks |-> NoCall]
  /\ failures' = 0 /\ open' = FALSE /\ outage' = Fresh
  /\ UNCHANGED <<goods, up, onOffer>>

\* Thirty seconds have passed since the circuit was opened. The count stays.
CoolDown ==
  /\ open
  /\ open' = FALSE
  /\ outage' = [calls |-> 0, known |-> TRUE]
  /\ UNCHANGED <<goods, session, market, failures, faults>>

GoDown ==
  /\ up /\ Fault
  /\ up' = FALSE
  /\ UNCHANGED <<goods, session, onOffer, late, breaker>>

ComeBack ==
  /\ ~up
  /\ up' = TRUE
  /\ UNCHANGED <<goods, session, onOffer, late, breaker, faults>>
-----------------------------------------------------------------------------
Tick(t) ==
  \/ Work(t)
  \/ \E n \in Sellers : Visit(t, n)
  \/ Answer(t)
  \/ Unreachable(t)
  \/ Save(t)

Next ==
  \/ \E t \in Ticks : Tick(t) \/ Land(t) \/ Miss(t) \/ Abort(t)
  \/ \E r \in late : LandLate(r)
  \/ Restart
  \/ CoolDown
  \/ GoDown
  \/ ComeBack

Spec == Init /\ [][Next]_vars

\* The tick loop goes on, time passes, and a market that stays up takes orders.
\* Nobody promises that it comes back.
FairSpec ==
  /\ Spec
  /\ \A t \in Ticks : WF_vars(Tick(t)) /\ WF_vars(Land(t))
  /\ WF_vars(CoolDown)
-----------------------------------------------------------------------------
\* Each variable holds the kind of value the code gives it; no lot is negative.
TypeOK ==
  /\ stock \in [Shelves -> Nat] /\ made \in [Shelves -> Nat]
  /\ pc \in [Ticks -> {"idle", "selling"}]
  /\ todo \in [Ticks -> SUBSET Sellers]
  /\ drawn \in [Ticks -> SUBSET Shelves]
  /\ draft \in [Ticks -> [Shelves -> Nat]]
  /\ call \in [Ticks -> [seller : Sellers \union {None}, level : Nat, landed : BOOLEAN]]
  /\ up \in BOOLEAN
  /\ onOffer \in [Shelves -> Nat]
  /\ late \subseteq [no : Nat, by : Ticks, shelf : Shelves, qty : Nat]
  /\ failures \in 0..Threshold /\ open \in BOOLEAN
  /\ outage \in [calls : Nat, known : BOOLEAN]
  /\ faults \in 0..MaxFaults

\* auto_sell_surplus: "goods are escrowed out of the building only on an accepted
\* order". Whatever fails or comes late, what has left a shelf has been put on offer.
EscrowOnlyAccepted == \A s \in Shelves : made[s] - stock[s] <= onOffer[s]

\* While nothing fails, a good is on its shelf or on offer and never both: between
\* ticks the two add up to what was made, also for sellers that share a shelf.
GoodsConserved ==
  faults = 0 /\ (\A t \in Ticks : pc[t] = "idle") =>
    \A s \in Shelves : made[s] = stock[s] + onOffer[s]

\* The breaker bounds what an outage costs: Threshold waits until it opens, and one
\* for each cooldown after that.
OutageIsCheap == outage.calls <= IF outage.known THEN 1 ELSE Threshold

\* A market that stays up gets every surplus, however the circuit was opened before.
SurplusIsOffered == <>[]up => \A s \in Shelves : []<>(stock[s] <= Keep)
=============================================================================
