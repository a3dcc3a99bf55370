-------------------------- MODULE OriginationProofs --------------------------
(***************************************************************************)
(* Origination, for any shelves, sellers, reserve, production and faults:  *)
(* the types with any number of tick runners; and with a single one, that  *)
(* goods leave a shelf only onto the market, that nothing is lost or       *)
(* doubled while nothing fails, and what an outage costs.                  *)
(***************************************************************************)
EXTENDS Origination, TLAPS

\* A call offers something.
LotsPositive ==
  \A t \in Ticks : Waiting(t) => call[t].seller \in Sellers /\ call[t].level > Keep

TypeInv == TypeOK /\ LotsPositive

LEMMA LotType ==
  ASSUME TypeInv, NEW t \in Ticks, Waiting(t)
  PROVE  /\ Lot(t).shelf \in Shelves /\ Lot(t).shelf = ShelfOf[call[t].seller]
         /\ Lot(t).qty \in Nat /\ Lot(t).qty = call[t].level - Keep
         /\ call[t].level - Lot(t).qty = Keep
  <1>1. call[t].seller \in Sellers /\ call[t].level > Keep /\ call[t].level \in Nat
    BY DEF TypeInv, TypeOK, LotsPositive
  <1> QED BY <1>1, OriginationAssumption DEF Lot

LEMMA LevelType ==
  ASSUME TypeOK, NEW t \in Ticks, NEW s \in Shelves
  PROVE  Level(t, s) \in Nat
  BY DEF TypeOK, Level

LEMMA AbandonType ==
  ASSUME TypeInv, NEW t \in Ticks
  PROVE  Abandon(t) \subseteq [no : Nat, by : Ticks, shelf : Shelves, qty : Nat]
  <1>1. CASE Waiting(t) /\ ~call[t].landed
    BY <1>1, LotType, OriginationAssumption DEF Abandon, TypeInv, TypeOK
  <1>2. CASE ~(Waiting(t) /\ ~call[t].landed)
    BY <1>2 DEF Abandon
  <1> QED BY <1>1, <1>2

LEMMA CountType ==
  ASSUME TypeOK, CountFailure
  PROVE  /\ failures' \in 0..Threshold /\ open' \in BOOLEAN
         /\ outage' \in [calls : Nat, known : BOOLEAN]
  BY OriginationAssumption DEF TypeOK, CountFailure

LEMMA TypeInit == Init => TypeInv
  <1> SUFFICES ASSUME Init PROVE TypeInv
    OBVIOUS
  <1>1. stock \in [Shelves -> Nat] /\ made \in [Shelves -> Nat] /\ onOffer \in [Shelves -> Nat]
    BY OriginationAssumption DEF Init
  <1>2. draft \in [Ticks -> [Shelves -> Nat]]
    BY DEF Init
  <1>3. /\ call \in [Ticks -> [seller : Sellers \union {None}, level : Nat, landed : BOOLEAN]]
        /\ LotsPositive
    BY DEF Init, NoCall, LotsPositive, Waiting
  <1>4. /\ failures \in 0..Threshold /\ faults \in 0..MaxFaults
        /\ outage \in [calls : Nat, known : BOOLEAN]
    BY OriginationAssumption DEF Init, Fresh
  <1> QED BY <1>1, <1>2, <1>3, <1>4 DEF Init, TypeInv, TypeOK

LEMMA TypeNext == TypeInv /\ [Next]_vars => TypeInv'
  <1> SUFFICES ASSUME TypeInv, [Next]_vars PROVE TypeInv'
    OBVIOUS
  <1> USE DEF TypeInv, TypeOK, LotsPositive, Waiting, goods, session, market, breaker
  <1>1. ASSUME NEW t \in Ticks, Work(t) PROVE TypeInv'
    <2>1. PICK b \in [Shelves -> Batches] :
             /\ stock' = [s \in Shelves |-> stock[s] + b[s]]
             /\ made' = [s \in Shelves |-> made[s] + b[s]]
      BY <1>1 DEF Work
    <2>2. \A s \in Shelves : b[s] \in Nat
      BY OriginationAssumption
    <2>3. stock' \in [Shelves -> Nat] /\ made' \in [Shelves -> Nat]
      BY <2>1, <2>2
    <2> QED BY <1>1, <2>3 DEF Work
  <1>2. ASSUME NEW t \in Ticks, NEW n \in Sellers, Visit(t, n) PROVE TypeInv'
    <2>1. ShelfOf[n] \in Shelves /\ n # None
      BY OriginationAssumption
    <2>2. Level(t, ShelfOf[n]) \in Nat
      BY <2>1, LevelType
    <2>3. CASE call' = call
      BY <1>2, <2>3 DEF Visit
    <2>4. CASE /\ HasSurplus(Level(t, ShelfOf[n]))
               /\ call' = [call EXCEPT ![t] =
                             [seller |-> n, level |-> Level(t, ShelfOf[n]), landed |-> FALSE]]
      BY <1>2, <2>2, <2>4 DEF Visit, HasSurplus
    <2> QED BY <1>2, <2>3, <2>4 DEF Visit
  <1>3. ASSUME NEW t \in Ticks, Land(t) PROVE TypeInv'
    <2>1. Lot(t).shelf \in Shelves /\ Lot(t).qty \in Nat
      BY <1>3, LotType DEF Land
    <2>2. onOffer' \in [Shelves -> Nat]
      BY <1>3, <2>1 DEF Land
    <2>3. /\ call' \in [Ticks -> [seller : Sellers \union {None}, level : Nat, landed : BOOLEAN]]
          /\ \A u \in Ticks : call'[u].seller = call[u].seller /\ call'[u].level = call[u].level
      BY <1>3 DEF Land
    <2> QED BY <1>3, <2>2, <2>3 DEF Land
  <1>4. ASSUME NEW t \in Ticks, Answer(t) PROVE TypeInv'
    <2>1. Lot(t).shelf \in Shelves /\ call[t].level - Lot(t).qty = Keep /\ Keep \in Nat
      BY <1>4, LotType, OriginationAssumption DEF Answer
    <2>2. drawn' \in [Ticks -> SUBSET Shelves] /\ draft' \in [Ticks -> [Shelves -> Nat]]
      BY <1>4, <2>1 DEF Answer, Escrow
    <2>3. /\ call' \in [Ticks -> [seller : Sellers \union {None}, level : Nat, landed : BOOLEAN]]
          /\ LotsPositive'
      BY <1>4 DEF Answer, Return, NoCall
    <2>4. failures' \in 0..Threshold /\ outage' \in [calls : Nat, known : BOOLEAN]
      BY <1>4, OriginationAssumption DEF Answer, Fresh
    <2> QED BY <1>4, <2>2, <2>3, <2>4 DEF Answer
  <1>5. ASSUME NEW t \in Ticks, Unreachable(t) PROVE TypeInv'
    BY <1>5, CountType DEF Unreachable, Return, NoCall
  <1>6. ASSUME NEW t \in Ticks, Miss(t) PROVE TypeInv'
    <2>1. late' \subseteq [no : Nat, by : Ticks, shelf : Shelves, qty : Nat]
      BY <1>6, AbandonType DEF Miss
    <2>2. faults' \in 0..MaxFaults
      BY <1>6, OriginationAssumption DEF Miss, Fault
    <2> QED BY <1>6, <2>1, <2>2, CountType DEF Miss, Return, NoCall
  <1>7. ASSUME NEW t \in Ticks, Save(t) PROVE TypeInv'
    <2>1. stock' \in [Shelves -> Nat]
      BY <1>7, LevelType DEF Save
    <2> QED BY <1>7, <2>1 DEF Save, Close, NoCall
  <1>8. ASSUME NEW t \in Ticks, Abort(t) PROVE TypeInv'
    BY <1>8, OriginationAssumption DEF Abort, Fault, Close, NoCall
  <1>9. ASSUME NEW r \in late, LandLate(r) PROVE TypeInv'
    BY <1>9 DEF LandLate
  <1>10. ASSUME Restart PROVE TypeInv'
    <2>1. late' \subseteq [no : Nat, by : Ticks, shelf : Shelves, qty : Nat]
      BY <1>10, AbandonType DEF Restart
    <2>2. /\ call' \in [Ticks -> [seller : Sellers \union {None}, level : Nat, landed : BOOLEAN]]
          /\ draft' \in [Ticks -> [Shelves -> Nat]]
          /\ LotsPositive'
      BY <1>10 DEF Restart, NoCall
    <2>3. /\ failures' \in 0..Threshold /\ faults' \in 0..MaxFaults
          /\ outage' \in [calls : Nat, known : BOOLEAN]
      BY <1>10, OriginationAssumption DEF Restart, Fault, Fresh
    <2> QED BY <1>10, <2>1, <2>2, <2>3 DEF Restart
  <1>11. ASSUME CoolDown PROVE TypeInv'
    BY <1>11 DEF CoolDown
  <1>12. ASSUME GoDown \/ ComeBack PROVE TypeInv'
    <2>1. faults' \in 0..MaxFaults
      BY <1>12, OriginationAssumption DEF GoDown, ComeBack, Fault
    <2> QED BY <1>12, <2>1 DEF GoDown, ComeBack
  <1>13. CASE UNCHANGED vars
    BY <1>13 DEF vars
  <1> QED BY <1>1, <1>2, <1>3, <1>4, <1>5, <1>6, <1>7, <1>8, <1>9, <1>10, <1>11, <1>12, <1>13
          DEF Next, Tick

\* Every variable of origination has its type in every reachable state.
THEOREM TypeCorrect == Spec => []TypeOK
  <1>1. TypeInv => TypeOK
    BY DEF TypeInv
  <1> QED BY <1>1, TypeInit, TypeNext, PTL DEF Spec
-----------------------------------------------------------------------------
\* From here on a single runner: the worker, with nobody using POST /tick.
Alone == \A t, u \in Ticks : t = u

\* What t's session will leave on a shelf once a call whose order has landed is answered.
After(t, s) ==
  IF Waiting(t) /\ call[t].landed /\ ShelfOf[call[t].seller] = s THEN Keep ELSE Level(t, s)

\* An idle tick has no session; a call offers what its session sees above the reserve.
SessionInv ==
  \A t \in Ticks :
    /\ pc[t] = "idle" => drawn[t] = {} /\ ~Waiting(t)
    /\ Waiting(t) => call[t].level = Level(t, ShelfOf[call[t].seller])

\* The difference of what was made and what is left, of s, is on offer.
Accounted(s, left) ==
  /\ made[s] - left <= onOffer[s]
  /\ faults = 0 => made[s] - left = onOffer[s]

\* Committed or in a session, what left a shelf is on offer; only faults put more on it.
GoodsInv ==
  /\ \A s \in Shelves : made[s] - stock[s] <= onOffer[s]
  /\ \A t \in Ticks, s \in Shelves : Accounted(s, After(t, s))
  /\ faults = 0 => up /\ late = {}

OneTickInv == TypeInv /\ SessionInv /\ GoodsInv

LEMMA OneTickInit == Init => OneTickInv
  <1> SUFFICES ASSUME Init PROVE OneTickInv
    OBVIOUS
  <1>1. SessionInv
    BY DEF Init, SessionInv, Waiting, NoCall
  <1>2. GoodsInv
    BY OriginationAssumption
       DEF Init, GoodsInv, Accounted, After, Level, Waiting, NoCall
  <1> QED BY <1>1, <1>2, TypeInit DEF OneTickInv

LEMMA SessionNext == Alone /\ TypeInv /\ SessionInv /\ [Next]_vars => SessionInv'
  <1> SUFFICES ASSUME Alone, TypeInv, SessionInv, [Next]_vars PROVE SessionInv'
    OBVIOUS
  <1> USE DEF TypeInv, TypeOK, SessionInv, Waiting, goods, session, market, breaker
  <1>1. ASSUME NEW t \in Ticks, Work(t) PROVE SessionInv'
    <2>1. drawn[t] = {} /\ call[t].seller = None /\ call' = call /\ drawn' = drawn
      BY <1>1 DEF Work
    <2> QED BY <1>1, <2>1 DEF Work, Alone
  <1>2. ASSUME NEW t \in Ticks, NEW n \in Sellers, Visit(t, n) PROVE SessionInv'
    <2>1. drawn' = drawn /\ draft' = draft /\ stock' = stock /\ pc[t] = "selling" /\ pc' = pc
      BY <1>2 DEF Visit
    <2>2. \A s \in Shelves : Level(t, s)' = Level(t, s)
      BY <2>1 DEF Level
    <2>3. call'[t].seller = n => call'[t].level = Level(t, ShelfOf[n])
      BY <1>2, OriginationAssumption DEF Visit
    <2>4. call'[t].seller \in {n, None}
      BY <1>2 DEF Visit
    <2> QED BY <2>1, <2>2, <2>3, <2>4, OriginationAssumption DEF Alone
  <1>3. ASSUME NEW t \in Ticks, Land(t) PROVE SessionInv'
    <2>1. /\ drawn' = drawn /\ draft' = draft /\ stock' = stock /\ pc' = pc
          /\ \A u \in Ticks : call'[u].seller = call[u].seller /\ call'[u].level = call[u].level
      BY <1>3 DEF Land
    <2> QED BY <2>1 DEF Level
  <1>4. ASSUME NEW t \in Ticks, Answer(t) PROVE SessionInv'
    <2>1. call'[t].seller = None /\ pc'[t] = "selling"
      BY <1>4 DEF Answer, Return, NoCall
    <2> QED BY <2>1 DEF Alone
  <1>5. ASSUME NEW t \in Ticks, Unreachable(t) \/ Miss(t) PROVE SessionInv'
    <2>1. call'[t].seller = None /\ pc' = pc /\ drawn' = drawn
      BY <1>5 DEF Unreachable, Miss, Return, NoCall
    <2> QED BY <2>1 DEF Alone
  <1>6. ASSUME NEW t \in Ticks, Save(t) \/ Abort(t) PROVE SessionInv'
    <2>1. call'[t].seller = None /\ drawn'[t] = {}
      BY <1>6 DEF Save, Abort, Close, NoCall
    <2> QED BY <2>1 DEF Alone
  <1>7. ASSUME Restart PROVE SessionInv'
    BY <1>7 DEF Restart, NoCall
  <1>8. CASE (\E r \in late : LandLate(r)) \/ CoolDown \/ GoDown \/ ComeBack \/ UNCHANGED vars
    <2>1. session' = session /\ stock' = stock
      BY <1>8 DEF LandLate, CoolDown, GoDown, ComeBack, vars
    <2> QED BY <2>1 DEF Level
  <1> QED BY <1>1, <1>2, <1>3, <1>4, <1>5, <1>6, <1>7, <1>8 DEF Next, Tick

\* A call that returns without its answer leaves the session as it was before it.
LEMMA GoodsFailed ==
  ASSUME OneTickInv, Alone, NEW t \in Ticks, Waiting(t), Return(t),
         goods' = goods, drawn' = drawn, draft' = draft, onOffer' = onOffer, faults' # 0,
         faults = 0 => up /\ late = {}
  PROVE  GoodsInv'
  <1> USE DEF OneTickInv, TypeInv, TypeOK, goods
  <1>1. SUFFICES ASSUME NEW s \in Shelves PROVE made[s] - Level(t, s) <= onOffer[s]
    BY DEF Alone, GoodsInv, Accounted, After, Level, Return, NoCall, Waiting
  <1>2. call[t].level > Keep /\ call[t].level = Level(t, ShelfOf[call[t].seller])
    BY DEF LotsPositive, SessionInv
  <1>3. After(t, s) <= Level(t, s)
    BY <1>2, LevelType, OriginationAssumption DEF After
  <1>4. made[s] - After(t, s) <= onOffer[s] /\ After(t, s) \in Int
    BY LevelType, OriginationAssumption DEF GoodsInv, Accounted, After
  <1> QED BY <1>3, <1>4, LevelType

LEMMA GoodsNext == Alone /\ OneTickInv /\ [Next]_vars => GoodsInv'
  <1> SUFFICES ASSUME Alone, OneTickInv, [Next]_vars PROVE GoodsInv'
    OBVIOUS
  <1> USE DEF OneTickInv, TypeInv, TypeOK, goods, session, market, breaker
  <1>1. ASSUME NEW t \in Ticks, Work(t) PROVE GoodsInv'
    <2>1. PICK b \in [Shelves -> Batches] :
             /\ stock' = [s \in Shelves |-> stock[s] + b[s]]
             /\ made' = [s \in Shelves |-> made[s] + b[s]]
      BY <1>1 DEF Work
    <2>2. drawn[t] = {} /\ ~Waiting(t)
      BY <1>1 DEF Work, SessionInv
    <2>3. \A s \in Shelves : After(t, s) = stock[s] /\ After(t, s)' = stock'[s]
      BY <1>1, <2>2 DEF Work, After, Level, Waiting
    <2>4. \A s \in Shelves : b[s] \in Nat
      BY OriginationAssumption
    <2> QED BY <1>1, <2>1, <2>3, <2>4 DEF Work, GoodsInv, Accounted, Alone
  <1>2. ASSUME NEW t \in Ticks, NEW n \in Sellers, Visit(t, n) PROVE GoodsInv'
    <2>1. /\ ~Waiting(t)
          /\ call' = call \/ call'[t].landed = FALSE
      BY <1>2 DEF Visit
    <2>2. \A s \in Shelves : After(t, s)' = After(t, s)
      BY <1>2, <2>1 DEF Visit, After, Level, Waiting
    <2> QED BY <1>2, <2>2 DEF Visit, GoodsInv, Accounted, Alone
  <1>3. ASSUME NEW t \in Ticks, Land(t) PROVE GoodsInv'
    <2> DEFINE sh == Lot(t).shelf
    <2>1. /\ sh \in Shelves /\ sh = ShelfOf[call[t].seller]
          /\ Lot(t).qty \in Nat /\ Level(t, sh) - Lot(t).qty = Keep
      BY <1>3, LotType DEF Land, SessionInv
    <2>2. \A s \in Shelves : After(t, s) = Level(t, s)
      BY <1>3 DEF Land, After
    <2>3. \A s \in Shelves : After(t, s)' = IF s = sh THEN Keep ELSE Level(t, s)
      BY <1>3, <2>1 DEF Land, After, Level, Waiting
    <2>4. onOffer' = [onOffer EXCEPT ![sh] = @ + Lot(t).qty] /\ made' = made /\ faults' = faults
      BY <1>3 DEF Land
    <2>5. ASSUME NEW s \in Shelves PROVE Accounted(s, After(t, s))'
      <3>1. Accounted(s, Level(t, s)) /\ Level(t, s) \in Nat
        BY <2>2, LevelType DEF GoodsInv
      <3>2. CASE s = sh
        <4>1. After(t, s)' = Keep /\ Keep = Level(t, s) - Lot(t).qty /\ Lot(t).qty \in Nat
          BY <2>1, <2>3, <3>2
        <4>2. onOffer'[s] = onOffer[s] + Lot(t).qty /\ onOffer[s] \in Nat /\ made[s] \in Nat
          BY <2>4, <3>2
        <4> HIDE DEF sh
        <4> QED BY <2>4, <3>1, <4>1, <4>2 DEF Accounted
      <3>3. CASE s # sh
        BY <2>3, <2>4, <3>1, <3>3 DEF Accounted
      <3> QED BY <3>2, <3>3
    <2>6. \A s \in Shelves : (made[s] - stock[s] <= onOffer[s])'
      BY <1>3, <2>1, <2>4 DEF Land, GoodsInv
    <2> QED BY <1>3, <2>5, <2>6 DEF Land, GoodsInv, Alone
  <1>4. ASSUME NEW t \in Ticks, Answer(t) PROVE GoodsInv'
    <2>1. /\ Lot(t).shelf \in Shelves /\ Lot(t).shelf = ShelfOf[call[t].seller]
          /\ call[t].level - Lot(t).qty = Keep
      BY <1>4, LotType DEF Answer
    <2>2. \A s \in Shelves : After(t, s) = IF s = Lot(t).shelf THEN Keep ELSE Level(t, s)
      BY <1>4, <2>1 DEF Answer, After
    <2>3. \A s \in Shelves : Level(t, s)' = IF s = Lot(t).shelf THEN Keep ELSE Level(t, s)
      BY <1>4, <2>1 DEF Answer, Escrow, Level
    <2>4. \A s \in Shelves : After(t, s)' = Level(t, s)'
      BY <1>4 DEF Answer, Return, NoCall, After, Waiting
    <2> QED BY <1>4, <2>2, <2>3, <2>4 DEF Answer, GoodsInv, Accounted, Alone
  <1>5. ASSUME NEW t \in Ticks, Unreachable(t) \/ Miss(t) PROVE GoodsInv'
    <2>1. faults' # 0
      BY <1>5 DEF Unreachable, Miss, Fault, GoodsInv
    <2> QED BY <1>5, <2>1, GoodsFailed DEF Unreachable, Miss, GoodsInv
  <1>6. ASSUME NEW t \in Ticks, Save(t) PROVE GoodsInv'
    <2>1. \A s \in Shelves : After(t, s) = Level(t, s) /\ stock'[s] = Level(t, s)
      BY <1>6 DEF Save, After
    <2>2. \A s \in Shelves : After(t, s)' = stock'[s]
      BY <1>6 DEF Save, Close, NoCall, After, Level, Waiting
    <2> QED BY <1>6, <2>1, <2>2 DEF Save, GoodsInv, Accounted, Alone
  <1>7. ASSUME NEW t \in Ticks, Abort(t) PROVE GoodsInv'
    <2>1. \A s \in Shelves : After(t, s)' = stock[s]
      BY <1>7 DEF Abort, Close, NoCall, After, Level, Waiting
    <2>2. faults' # 0
      BY <1>7 DEF Abort, Fault
    <2> QED BY <1>7, <2>1, <2>2 DEF Abort, GoodsInv, Accounted, Alone
  <1>8. ASSUME NEW r \in late, LandLate(r) PROVE GoodsInv'
    <2>1. \A s \in Shelves : onOffer'[s] >= onOffer[s] /\ onOffer'[s] \in Nat
      BY <1>8 DEF LandLate
    <2>2. faults # 0 /\ faults' = faults /\ stock' = stock /\ made' = made
      BY <1>8 DEF LandLate, GoodsInv
    <2>3. \A u \in Ticks, s \in Shelves : After(u, s)' = After(u, s) /\ After(u, s) \in Nat
      BY <1>8, LevelType, OriginationAssumption DEF LandLate, After, Level, Waiting
    <2> QED BY <2>1, <2>2, <2>3 DEF GoodsInv, Accounted
  <1>9. ASSUME Restart PROVE GoodsInv'
    <2>1. \A t \in Ticks, s \in Shelves : After(t, s)' = stock[s]
      BY <1>9 DEF Restart, NoCall, After, Level, Waiting
    <2>2. faults' # 0
      BY <1>9 DEF Restart, Fault
    <2> QED BY <1>9, <2>1, <2>2 DEF Restart, GoodsInv, Accounted
  <1>10. CASE CoolDown \/ GoDown \/ ComeBack \/ UNCHANGED vars
    <2>1. goods' = goods /\ session' = session /\ onOffer' = onOffer /\ late' = late
      BY <1>10 DEF CoolDown, GoDown, ComeBack, vars
    <2>2. /\ faults' = 0 => faults = 0 /\ up' = up
      BY <1>10 DEF CoolDown, GoDown, ComeBack, Fault, vars, GoodsInv
    <2>3. \A u \in Ticks, s \in Shelves : After(u, s)' = After(u, s)
      BY <2>1 DEF After, Level, Waiting
    <2> QED BY <2>1, <2>2, <2>3 DEF GoodsInv, Accounted
  <1> QED BY <1>1, <1>2, <1>3, <1>4, <1>5, <1>6, <1>7, <1>8, <1>9, <1>10 DEF Next, Tick

LEMMA OneTickInvariant == Alone => (Spec => []OneTickInv)
  <1> SUFFICES ASSUME Alone PROVE Spec => []OneTickInv
    OBVIOUS
  <1>1. OneTickInv /\ [Next]_vars => OneTickInv'
    BY TypeNext, SessionNext, GoodsNext DEF OneTickInv
  <1> QED BY OneTickInit, <1>1, PTL DEF Spec

\* With one tick at a time, whatever fails or comes late, what left a shelf is on offer.
THEOREM GoodsLeaveOnlyOntoMarket == Alone => (Spec => []EscrowOnlyAccepted)
  <1>1. OneTickInv => EscrowOnlyAccepted
    BY DEF OneTickInv, GoodsInv, EscrowOnlyAccepted
  <1> QED BY OneTickInvariant, <1>1, PTL

\* With one tick at a time and no fault yet, stock and offers add up to what was made.
THEOREM GoodsAreConserved == Alone /\ Ticks # {} => (Spec => []GoodsConserved)
  <1> SUFFICES ASSUME Alone, Ticks # {} PROVE Spec => []GoodsConserved
    OBVIOUS
  <1>1. OneTickInv => GoodsConserved
    <2> SUFFICES ASSUME OneTickInv, faults = 0, \A t \in Ticks : pc[t] = "idle", NEW s \in Shelves
                 PROVE  made[s] = stock[s] + onOffer[s]
      BY DEF GoodsConserved
    <2>1. PICK t \in Ticks : TRUE
      OBVIOUS
    <2>2. After(t, s) = stock[s]
      BY DEF OneTickInv, SessionInv, After, Level
    <2> QED BY <2>2 DEF OneTickInv, GoodsInv, Accounted, TypeInv, TypeOK
  <1> QED BY OneTickInvariant, <1>1, PTL
-----------------------------------------------------------------------------
\* The failure count is the number of waits until the circuit first opens; from then on it
\* stays at the threshold, so that the first failure after a cooldown opens it again.
BreakerInv ==
  /\ open => failures = Threshold /\ \A t \in Ticks : ~Waiting(t)
  /\ ~outage.known => outage.calls = failures /\ (failures = Threshold => open)
  /\ outage.known => failures = Threshold /\ outage.calls = IF open THEN 1 ELSE 0

LEMMA BreakerCounts ==
  ASSUME TypeInv, BreakerInv, Alone, NEW t \in Ticks, Waiting(t), Return(t), CountFailure
  PROVE  BreakerInv'
  <1>1. ~open
    BY DEF BreakerInv
  <1>2. \A u \in Ticks : ~Waiting(u)'
    BY DEF Alone, Return, NoCall, Waiting, TypeInv, TypeOK
  <1>3. /\ failures \in 0..Threshold /\ Threshold \in Nat \ {0}
        /\ outage \in [calls : Nat, known : BOOLEAN]
    BY OriginationAssumption DEF TypeInv, TypeOK
  <1>4. /\ outage'.known = outage.known /\ outage'.calls = outage.calls + 1
        /\ failures' = (IF failures < Threshold THEN failures + 1 ELSE Threshold)
        /\ open' <=> failures' >= Threshold
    BY <1>1, <1>3 DEF CountFailure
  <1> QED BY <1>1, <1>2, <1>3, <1>4 DEF BreakerInv

LEMMA BreakerNext == Alone /\ TypeInv /\ BreakerInv /\ [Next]_vars => BreakerInv'
  <1> SUFFICES ASSUME Alone, TypeInv, BreakerInv, [Next]_vars PROVE BreakerInv'
    OBVIOUS
  <1> USE DEF TypeInv, TypeOK, goods, session, market, breaker
  <1>1. ASSUME NEW t \in Ticks, Work(t) PROVE BreakerInv'
    BY <1>1 DEF Work, BreakerInv, Waiting
  <1>2. ASSUME NEW t \in Ticks, NEW n \in Sellers, Visit(t, n) PROVE BreakerInv'
    <2>1. open => call' = call
      BY <1>2 DEF Visit, FailsFast
    <2> QED BY <1>2, <2>1 DEF Visit, BreakerInv, Waiting
  <1>3. ASSUME NEW t \in Ticks, Land(t) PROVE BreakerInv'
    BY <1>3 DEF Land, BreakerInv, Waiting
  <1>4. ASSUME NEW t \in Ticks, Answer(t) PROVE BreakerInv'
    <2>1. ~open /\ open' = open /\ failures' = 0 /\ outage' = Fresh
      BY <1>4 DEF Answer, BreakerInv
    <2> QED BY <2>1, OriginationAssumption DEF BreakerInv, Fresh
  <1>5. ASSUME NEW t \in Ticks, Unreachable(t) \/ Miss(t) PROVE BreakerInv'
    BY <1>5, BreakerCounts DEF Unreachable, Miss
  <1>6. ASSUME NEW t \in Ticks, Save(t) \/ Abort(t) PROVE BreakerInv'
    BY <1>6 DEF Save, Abort, Close, NoCall, BreakerInv, Waiting, Alone
  <1>7. ASSUME Restart PROVE BreakerInv'
    BY <1>7, OriginationAssumption DEF Restart, BreakerInv, Fresh
  <1>8. ASSUME CoolDown PROVE BreakerInv'
    BY <1>8 DEF CoolDown, BreakerInv, Waiting
  <1>9. CASE (\E r \in late : LandLate(r)) \/ GoDown \/ ComeBack \/ UNCHANGED vars
    BY <1>9 DEF LandLate, GoDown, ComeBack, vars, BreakerInv, Waiting
  <1> QED BY <1>1, <1>2, <1>3, <1>4, <1>5, <1>6, <1>7, <1>8, <1>9 DEF Next, Tick

\* With one tick at a time an outage costs Threshold waits, then one for each cooldown.
THEOREM OutagesAreCheap == Alone => (Spec => []OutageIsCheap)
  <1> SUFFICES ASSUME Alone PROVE Spec => []OutageIsCheap
    OBVIOUS
  <1>1. Init => BreakerInv
    BY OriginationAssumption DEF Init, BreakerInv, Fresh
  <1>2. TypeInv /\ BreakerInv /\ [Next]_vars => BreakerInv'
    BY BreakerNext
  <1>3. TypeInv /\ BreakerInv => OutageIsCheap
    BY OriginationAssumption DEF TypeInv, TypeOK, BreakerInv, OutageIsCheap
  <1> QED BY TypeInit, TypeNext, <1>1, <1>2, <1>3, PTL DEF Spec
=============================================================================
