--------------------------- MODULE TownTickProofs ---------------------------
(***************************************************************************)
(* TownTick, for any number of people, founders, jobs, periods and bounds: *)
(* the types; that marriages have both rows and relationships no dangling  *)
(* end, and nobody is married a second time; that a tick's wages and       *)
(* friendships come once; and that no event is broadcast twice.            *)
(***************************************************************************)
EXTENDS TownTick, FiniteSetTheorems, SequenceTheorems, TLAPS

Pairs == People \X People

LEMMA PairParts ==
  ASSUME NEW ab \in Pairs
  PROVE  ab[1] \in People /\ ab[2] \in People /\ ab = <<ab[1], ab[2]>>
         /\ <<ab[2], ab[1]>> \in Pairs
  BY DEF Pairs

LEMMA PeopleFinite ==
  ASSUME NEW S \in SUBSET People
  PROVE  IsFiniteSet(S) /\ Cardinality(S) \in Nat
  <1>1. IsFiniteSet(People)
    BY PeopleAssumption, FS_Interval DEF People
  <1> QED BY <1>1, FS_Subset, FS_CardinalityType

-----------------------------------------------------------------------------
(* The rules keep the rows well-typed. *)

LEMMA AssignedType ==
  ASSUME SocietyTypeOK PROVE Assigned \in [People -> Jobs \union {Nowhere}]
  BY DEF SocietyTypeOK, Assigned

LEMMA AtMostType ==
  ASSUME NEW m \in Nat, NEW n \in Nat PROVE AtMost(m, n) \in 0 .. m /\ AtMost(m, n) <= n
  BY DEF AtMost

LEMMA HungrierType ==
  ASSUME SocietyTypeOK, NEW listed PROVE Hungrier(listed) \in [People -> 0 .. 100]
  <1>1. \A p \in People : AtMost(100, hunger[p] + Appetite) \in 0 .. 100
    <2>1. \A p \in People : hunger[p] + Appetite \in Nat
      BY AmountsAssumption DEF SocietyTypeOK
    <2> QED BY <2>1, AtMostType
  <1> QED BY <1>1 DEF SocietyTypeOK, Hungrier

LEMMA EatType ==
  ASSUME SocietyTypeOK, NEW p \in People, NEW hungers \in [People -> 0 .. 100],
         Eat(p, hungers)
  PROVE  gold' \in [People -> Nat] /\ hunger' \in [People -> 0 .. 100]
  <1>1. CASE hungers[p] > 50 /\ gold[p] >= FoodPrice
    <2>1. gold[p] - 5 \in Nat /\ hungers[p] \in 0 .. 100
      BY <1>1 DEF SocietyTypeOK, FoodPrice
    <2> QED BY <1>1, <2>1 DEF Eat, SocietyTypeOK, Meal, FoodPrice
  <1>2. CASE ~(hungers[p] > 50 /\ gold[p] >= FoodPrice)
    BY <1>2 DEF Eat, SocietyTypeOK
  <1> QED BY <1>1, <1>2

LEMMA WagesType ==
  ASSUME SocietyTypeOK, NEW away, PayWages(away) PROVE gold' \in [People -> Nat]
  BY DEF SocietyTypeOK, PayWages, Wage

LEMMA TaxesType ==
  ASSUME SocietyTypeOK, CollectTaxes PROVE gold' \in [People -> Nat]
  BY DEF SocietyTypeOK, CollectTaxes, TaxDue

LEMMA JoinType ==
  ASSUME SocietyTypeOK, NEW p \in People, NEW job \in Jobs \union {Nowhere}, NEW money \in Nat,
         Join(p, job, money)
  PROVE  SocietyTypeOK'
  BY DEF SocietyTypeOK, Join, bondVars

LEMMA GrowType ==
  ASSUME SocietyTypeOK, Grow PROVE SocietyTypeOK'
  <1>1. PICK p \in People, job \in NewCallings : Join(p, job, Purse)
    BY DEF Grow
  <1> QED BY <1>1, JoinType, JobsAssumption DEF Purse

LEMMA WarmerType ==
  ASSUME SocietyTypeOK PROVE Warmer \in [Pairs -> 0 .. 100]
  <1>1. \A ab \in Pairs : AtMost(100, strength[ab] + Warmth) \in 0 .. 100
    <2>1. \A ab \in Pairs : strength[ab] + Warmth \in Nat
      BY AmountsAssumption DEF SocietyTypeOK, Pairs
    <2> QED BY <2>1, AtMostType
  <1> QED BY <1>1 DEF SocietyTypeOK, Warmer, Pairs

LEMMA SpawnedType == ASSUME NEW rows PROVE Spawned(rows) \subseteq People \ rows
  BY DEF Spawned, First

LEMMA KeptType ==
  ASSUME NEW n, NEW rows PROVE First(n, rows) \subseteq rows
  BY DEF First

LEMMA RepairType ==
  ASSUME SocietyTypeOK, NEW reset \in BOOLEAN, Repair(reset)
  PROVE  SocietyTypeOK'
  <1> DEFINE kept == IF reset THEN First(Len(Founders), people) ELSE people
             new == Spawned(kept)
             money(p) == IF reset THEN Purse ELSE gold[p]
             need(p) == IF reset THEN 0 ELSE hunger[p]
  <1>1. kept \subseteq people /\ new \subseteq People
    BY KeptType, SpawnedType
  <1>2. people' \subseteq People /\ living' \subseteq people'
    BY <1>1 DEF Repair, SocietyTypeOK
  <1>3. calling' \in [People -> Jobs \union {Nowhere}]
    <2>1. PICK drawn \in [new -> NewCallings] :
            calling' = [p \in People |-> IF p \in new THEN drawn[p]
                                         ELSE IF ~reset THEN calling[p]
                                         ELSE IF p \in kept /\ p \in DOMAIN ResetCallings
                                         THEN ResetCallings[p] ELSE Nowhere]
      BY DEF Repair
    <2>2. \A p \in DOMAIN ResetCallings : ResetCallings[p] \in Jobs \union {Nowhere}
      BY JobsAssumption
    <2>3. \A p \in new : drawn[p] \in Jobs \union {Nowhere}
      BY <2>1, JobsAssumption
    <2> HIDE DEF kept, new
    <2> QED BY <2>1, <2>2, <2>3 DEF SocietyTypeOK
  <1>4. work' \in [People -> Jobs \union {Nowhere}]
    BY AssignedType DEF Repair
  <1>5. gold' \in [People -> Nat]
    <2>1. \A p \in People : money(p) \in Nat
      BY DEF SocietyTypeOK, Purse
    <2>2. gold' = [p \in People |-> IF p \in kept /\ money(p) >= 5 THEN money(p)
                                    ELSE IF p \in people' THEN Purse ELSE 0]
      BY DEF Repair
    <2> HIDE DEF kept, money
    <2> QED BY <2>1, <2>2 DEF Purse
  <1>6. hunger' \in [People -> 0 .. 100]
    <2>1. \A p \in People : need(p) \in 0 .. 100
      BY DEF SocietyTypeOK
    <2>2. hunger' = [p \in People |-> IF p \notin kept THEN 0
                                      ELSE IF need(p) > 90 THEN 20 ELSE need(p)]
      BY DEF Repair
    <2> HIDE DEF kept, need
    <2> QED BY <2>1, <2>2
  <1>7. strength' \in [Pairs -> 0 .. 100]
    BY DEF Repair, SocietyTypeOK, Pairs
  <1>8. spouses' \subseteq Pairs
    BY DEF Repair, SocietyTypeOK, Pairs
  <1> QED BY <1>2, <1>3, <1>4, <1>5, <1>6, <1>7, <1>8 DEF SocietyTypeOK, Pairs

LEMMA SocietyTypeInit == ASSUME SocietyInit PROVE SocietyTypeOK
  <1> DEFINE new == Spawned(DOMAIN Founders)
  <1>1. DOMAIN Founders \subseteq People /\ new \subseteq People
    BY JobsAssumption, PeopleAssumption, SpawnedType DEF People
  <1>2. \A p \in DOMAIN Founders : Founders[p].calling \in Jobs \union {Nowhere}
                                   /\ Founders[p].gold \in Nat
    <2>1. \A p \in DOMAIN Founders : Founders[p] \in [calling : Jobs \union {Nowhere}, gold : 0 .. 100]
      BY JobsAssumption, ElementOfSeq, LenProperties
    <2> QED BY <2>1
  <1>3. people \subseteq People /\ living \subseteq people
    BY <1>1 DEF SocietyInit
  <1>4. calling \in [People -> Jobs \union {Nowhere}]
    <2>1. PICK drawn \in [new -> NewCallings] :
            calling = [p \in People |-> IF p \in DOMAIN Founders THEN Founders[p].calling
                                        ELSE IF p \in new THEN drawn[p] ELSE Nowhere]
      BY DEF SocietyInit
    <2>2. \A p \in new : drawn[p] \in Jobs \union {Nowhere}
      BY <2>1, JobsAssumption
    <2> HIDE DEF new
    <2> QED BY <2>1, <2>2, <1>2
  <1>5. gold \in [People -> Nat]
    BY <1>2 DEF SocietyInit, Purse
  <1> QED BY <1>3, <1>4, <1>5 DEF SocietyInit, SocietyTypeOK

-----------------------------------------------------------------------------
(* The types of a run.  A tick in hand has the number after the committed  *)
(* one, until its first commit; a tick only begins below the bound.        *)

PhaseOK ==
  /\ pc = "begin" => now = tick /\ tick < MaxTick
  /\ pc \notin {"idle", "begin"} => tick \in {now - 1, now} /\ now > 0
  /\ pc \notin {"idle", "begin", "weather", "needs"} => tick = now

TypeInv == TypeOK /\ PhaseOK

LEMMA TypeInit == Init => TypeInv
  <1> SUFFICES ASSUME Init PROVE TypeInv
    OBVIOUS
  <1>1. SocietyTypeOK
    BY SocietyTypeInit DEF Init
  <1> QED BY <1>1, TickBoundsAssumption DEF Init, TypeInv, TypeOK, PhaseOK, Phases

\* A commit of a tick that is under way, by the phase it leads to.
LEMMA GoType ==
  ASSUME TypeInv, pc \notin {"idle", "begin"}, NEW next \in Phases \ {"begin"}, Go(next)
  PROVE  /\ tick' \in 0 .. MaxTick /\ now' \in 0 .. MaxTick /\ by' \in {"worker", "route"}
         /\ pc' \in Phases
         /\ PhaseOK'
  BY DEF TypeInv, TypeOK, PhaseOK, Go

LEMMA TransactionType == ASSUME TypeInv, Transaction PROVE TypeInv'
  <1> USE DEF elsewhere, outboxVars, rowVars, countVars, bondVars
  <1> DEFINE Rest == /\ worker' \in {"asleep", "ticking", "done", "draining", "hung"}
                     /\ queue' \subseteq Rows /\ topic' \in Seq(Rows)
                     /\ producer' \in {"none", "started", "unstarted"}
                     /\ broker' \in {"up", "down"}
                     /\ {faults', restarts', resets', routes', triggers'} \subseteq Nat
             RowsOK == events' \subseteq Rows /\ serial' \in Nat
             Went == /\ tick' \in 0 .. MaxTick /\ now' \in 0 .. MaxTick
                     /\ by' \in {"worker", "route"} /\ pc' \in Phases /\ PhaseOK'
  <1>a. SocietyTypeOK' /\ todo' \subseteq People /\ Rest /\ RowsOK /\ Went => TypeInv'
    BY DEF TypeInv, TypeOK
  <1>b. UNCHANGED <<worker, outboxVars, broker, countVars>> => Rest
    BY DEF TypeInv, TypeOK
  <1>c. UNCHANGED rowVars => RowsOK
    BY DEF TypeInv, TypeOK
  <1>d. SocietyTypeOK /\ todo \subseteq People /\ living \subseteq People
    BY DEF TypeInv, TypeOK, SocietyTypeOK
  <1>e. Phases \ {"begin"} = {"idle", "weather", "needs", "decide", "visit", "work", "taxes",
                              "growth", "ageing", "relations", "final"}
    BY DEF Phases
  <1>1. CASE AssignWork
    <2>1. SocietyTypeOK'
      BY <1>1, <1>d, AssignedType DEF AssignWork, SocietyTypeOK
    <2>2. Went
      BY <1>1, TickBoundsAssumption DEF AssignWork, TypeInv, TypeOK, PhaseOK, Phases
    <2> QED BY <1>1, <2>1, <2>2, <1>a, <1>b, <1>c, <1>d DEF AssignWork
  <1>2. CASE Weather
    <2>1. SocietyTypeOK'
      BY <1>2, <1>d DEF Weather, SocietyTypeOK, societyVars
    <2>2. Went
      <3>1. CASE Go("needs")
        BY <1>2, <3>1, GoType, <1>e DEF Weather
      <3>2. CASE pc' = "needs" /\ UNCHANGED <<tick, now, by>>
        BY <1>2, <3>2 DEF Weather, TypeInv, TypeOK, PhaseOK, Phases
      <3> QED BY <1>2, <3>1, <3>2 DEF Weather
    <2> QED BY <1>2, <2>1, <2>2, <1>a, <1>b, <1>c, <1>d DEF Weather
  <1>3. ASSUME NEW p \in People, Decide(p) PROVE TypeInv'
    <2>1. Hungrier(todo) \in [People -> 0 .. 100] /\ hunger \in [People -> 0 .. 100]
      BY <1>d, HungrierType DEF SocietyTypeOK
    <2>2. gold' \in [People -> Nat] /\ hunger' \in [People -> 0 .. 100]
      <3> DEFINE h == IF pc = "needs" THEN Hungrier(todo) ELSE hunger
      <3>1. h \in [People -> 0 .. 100]
        BY <2>1
      <3>2. Eat(p, h)
        BY <1>3 DEF Decide
      <3> HIDE DEF h
      <3> QED BY <3>1, <3>2, <1>d, EatType
    <2>3. SocietyTypeOK'
      BY <1>3, <2>2, <1>d DEF Decide, SocietyTypeOK
    <2>4. Went
      BY <1>3, GoType, <1>e DEF Decide
    <2> QED BY <1>3, <2>3, <2>4, <1>a, <1>b, <1>c, <1>d DEF Decide
  <1>4. CASE Produce
    <2>1. SocietyTypeOK'
      BY <1>4, <1>d DEF Produce, SocietyTypeOK, societyVars
    <2>2. Went
      BY <1>4, GoType, <1>e DEF Produce
    <2> QED BY <1>4, <2>1, <2>2, <1>a, <1>b, <1>c, <1>d DEF Produce
  <1>5. CASE Visit
    <2>1. SocietyTypeOK'
      BY <1>5, <1>d DEF Visit, SocietyTypeOK, societyVars
    <2>2. Went
      BY <1>5, GoType, <1>e DEF Visit
    <2>3. RowsOK
      <3> DEFINE guests == {p \in people : work[p] = "tavern"}
                 number(p) == serial + Cardinality({q \in guests : q <= p})
      <3>1. guests \subseteq People
        BY <1>d DEF SocietyTypeOK
      <3>2. Cardinality(guests) \in Nat
            /\ \A p \in guests : Cardinality({q \in guests : q <= p}) \in Nat
        <4> HIDE DEF guests
        <4>1. \A p \in guests : {q \in guests : q <= p} \in SUBSET People
          BY <3>1
        <4> QED BY <3>1, <4>1, PeopleFinite
      <3>3. serial \in Nat /\ now \in Nat /\ events \subseteq Rows
        BY TickBoundsAssumption DEF TypeInv, TypeOK
      <3>4. \A p \in guests : [id |-> number(p), tick |-> now, who |-> p] \in Rows
        <4> HIDE DEF guests
        <4> QED BY <3>1, <3>2, <3>3 DEF Rows
      <3>5. /\ events' = events \union {[id |-> number(p), tick |-> now, who |-> p] : p \in guests}
            /\ serial' = serial + Cardinality(guests)
        BY <1>5 DEF Visit
      <3> HIDE DEF guests, number
      <3> QED BY <3>2, <3>3, <3>4, <3>5
    <2> QED BY <1>5, <2>1, <2>2, <2>3, <1>a, <1>b, <1>d DEF Visit
  <1>6. CASE Work
    <2>1. gold' \in [People -> Nat]
      BY <1>6, <1>d, WagesType DEF Work
    <2>2. SocietyTypeOK'
      BY <1>6, <2>1, <1>d DEF Work, SocietyTypeOK
    <2>3. Went
      BY <1>6, GoType, <1>e DEF Work
    <2> QED BY <1>6, <2>2, <2>3, <1>a, <1>b, <1>c, <1>d DEF Work
  <1>7. CASE Taxes
    <2>1. gold' \in [People -> Nat]
      BY <1>7, <1>d, TaxesType DEF Taxes, SocietyTypeOK
    <2>2. SocietyTypeOK'
      BY <1>7, <2>1, <1>d DEF Taxes, SocietyTypeOK
    <2>3. Went
      BY <1>7, GoType, <1>e DEF Taxes
    <2> QED BY <1>7, <2>2, <2>3, <1>a, <1>b, <1>c, <1>d DEF Taxes
  <1>8. CASE Growth
    <2>1. SocietyTypeOK'
      BY <1>8, <1>d, GrowType DEF Growth, SocietyTypeOK, societyVars
    <2>2. Went
      BY <1>8, GoType, <1>e DEF Growth
    <2> QED BY <1>8, <2>1, <2>2, <1>a, <1>b, <1>c, <1>d DEF Growth
  <1>9. CASE Ageing
    <2>1. SocietyTypeOK'
      BY <1>9, <1>d DEF Ageing, SocietyTypeOK
    <2>2. Went
      BY <1>9, GoType, <1>e DEF Ageing
    <2> QED BY <1>9, <2>1, <2>2, <1>a, <1>b, <1>c, <1>d DEF Ageing
  <1>10. CASE Relations
    <2>1. SocietyTypeOK'
      BY <1>10, <1>d, WarmerType DEF Relations, SocietyTypeOK, Pairs
    <2>2. Went
      BY <1>10, GoType, <1>e DEF Relations
    <2> QED BY <1>10, <2>1, <2>2, <1>a, <1>b, <1>c, <1>d DEF Relations
  <1>11. CASE Final
    <2>1. SocietyTypeOK'
      BY <1>11, <1>d DEF Final, SocietyTypeOK, Wed
    <2>2. Went
      BY <1>11, GoType, <1>e DEF Final
    <2>3. Rest
      BY <1>11 DEF Final, TypeInv, TypeOK
    <2> QED BY <1>11, <2>1, <2>2, <2>3, <1>a, <1>c, <1>d DEF Final
  <1> QED
    BY <1>1, <1>2, <1>3, <1>4, <1>5, <1>6, <1>7, <1>8, <1>9, <1>10, <1>11 DEF Transaction

LEMMA DrainType == ASSUME TypeInv, Drain PROVE TypeInv'
  <1> USE DEF TypeInv, TypeOK, PhaseOK, runVars, outboxVars, rowVars, countVars
  <1>0. UNCHANGED societyVars => SocietyTypeOK'
    BY DEF SocietyTypeOK, societyVars
  <1>1. CASE ReadTick
    BY <1>1, <1>0 DEF ReadTick, EventsOf
  <1>2. ASSUME NEW e \in queue, Send(e) PROVE TypeInv'
    <2>1. topic' \in Seq(Rows)
      BY <1>2 DEF Send
    <2> QED BY <1>2, <2>1, <1>0 DEF Send
  <1>3. ASSUME NEW e \in queue, SendFails(e) PROVE TypeInv'
    <2>1. topic' \in Seq(Rows) /\ queue' \subseteq Rows
          /\ worker' \in {"asleep", "ticking", "done", "draining", "hung"}
      <3>1. e \in Rows
        OBVIOUS
      <3>2. Append(topic, e) \in Seq(Rows)
        BY <3>1
      <3> QED BY <1>3, <3>2 DEF SendFails
    <2>2. producer' \in {"none", "started", "unstarted"}
      BY <1>3 DEF SendFails, Started
    <2> QED BY <1>3, <2>1, <2>2, <1>0 DEF SendFails
  <1>4. CASE DrainEnds
    BY <1>4, <1>0 DEF DrainEnds
  <1> QED BY <1>1, <1>2, <1>3, <1>4 DEF Drain

LEMMA EnvironmentType == ASSUME TypeInv, Environment PROVE TypeInv'
  <1> USE DEF TypeInv, TypeOK, PhaseOK, Phases, runVars, outboxVars, rowVars, countVars, elsewhere
  <1>0. UNCHANGED societyVars => SocietyTypeOK'
    BY DEF SocietyTypeOK, societyVars
  <1>1. CASE Route
    BY <1>1, <1>0 DEF Route
  <1>2. CASE CreateNpc
    <2>1. SocietyTypeOK'
      BY <1>2, JoinType DEF CreateNpc
    <2> QED BY <1>2, <2>1 DEF CreateNpc
  <1>3. ASSUME NEW rush \in BOOLEAN, Trigger(rush) PROVE TypeInv'
    <2>1. gold' \in [People -> Nat]
      BY <1>3 DEF Trigger, SocietyTypeOK, Rush
    <2>2. SocietyTypeOK'
      BY <1>3, <2>1 DEF Trigger, SocietyTypeOK, bondVars
    <2>3. [id |-> serial + 1, tick |-> tick, who |-> 0] \in Rows
      BY TickBoundsAssumption DEF Rows
    <2> QED BY <1>3, <2>2, <2>3 DEF Trigger
  <1>4. CASE Abort
    BY <1>4, <1>0 DEF Abort
  <1>5. CASE Restart
    <2>1. SocietyTypeOK'
      <3>1. (tick >= ResetAt) \in BOOLEAN /\ Repair(tick >= ResetAt)
        BY <1>5 DEF Restart
      <3> HIDE DEF TypeInv, TypeOK
      <3> QED BY <3>1, RepairType DEF TypeInv, TypeOK
    <2> QED BY <1>5, <2>1, TickBoundsAssumption DEF Restart
  <1>6. CASE BrokerDown
    BY <1>6, <1>0 DEF BrokerDown
  <1>7. CASE BrokerUp
    BY <1>7, <1>0 DEF BrokerUp
  <1> QED BY <1>1, <1>2, <1>3, <1>4, <1>5, <1>6, <1>7 DEF Environment

LEMMA TypeNext == TypeInv /\ [Next]_vars => TypeInv'
  <1> SUFFICES ASSUME TypeInv, [Next]_vars PROVE TypeInv'
    OBVIOUS
  <1>1. CASE Begin
    <2>1. SocietyTypeOK'
      BY <1>1 DEF Begin, TypeInv, TypeOK, SocietyTypeOK, societyVars
    <2> QED BY <1>1, <2>1 DEF Begin, TypeInv, TypeOK, PhaseOK, Phases, outboxVars, rowVars, countVars
  <1>2. CASE UNCHANGED vars
    <2>1. SocietyTypeOK'
      BY <1>2 DEF vars, TypeInv, TypeOK, SocietyTypeOK, societyVars
    <2> QED BY <1>2, <2>1 DEF vars, runVars, TypeInv, TypeOK, PhaseOK, outboxVars, rowVars, countVars
  <1> QED BY <1>1, <1>2, TransactionType, DrainType, EnvironmentType DEF Next

\* The types (the models behind the rows, and the loop's and the drain's
\* state) for every value of the constants.
THEOREM TypeCorrect == Spec => []TypeOK
  <1>1. Spec => []TypeInv
    BY TypeInit, TypeNext, PTL DEF Spec
  <1> QED BY <1>1, PTL DEF TypeInv

-----------------------------------------------------------------------------
(* Bonds.  A marriage has both its rows because both rows of a friendship  *)
(* are as strong as each other: colleagues grow warmer in pairs.           *)

Symmetric == \A p, q \in People : strength[<<p, q>>] = strength[<<q, p>>]

Mutual == \A p, q \in People : <<p, q>> \in spouses => <<q, p>> \in spouses

Anchored ==
  \A p, q \in People : strength[<<p, q>>] > 0 \/ <<p, q>> \in spouses
                         => p \in people /\ q \in people

BondInv == Symmetric /\ Mutual /\ Anchored

LEMMA BondMeaning == ASSUME TypeInv, BondInv PROVE SpousesMutual /\ NoDanglingBonds
  <1>1. SpousesMutual
    <2> SUFFICES ASSUME NEW ab \in spouses PROVE <<ab[2], ab[1]>> \in spouses
      BY DEF SpousesMutual
    <2>1. ab \in Pairs
      BY DEF TypeInv, TypeOK, SocietyTypeOK, Pairs
    <2> QED BY <2>1, PairParts DEF BondInv, Mutual
  <1>2. NoDanglingBonds
    <2> SUFFICES ASSUME NEW ab \in Pairs, strength[ab] > 0 \/ ab \in spouses
                 PROVE  {ab[1], ab[2]} \subseteq people
      BY DEF NoDanglingBonds, Pairs
    <2>1. ab[1] \in people /\ ab[2] \in people
      BY PairParts DEF BondInv, Anchored
    <2> QED BY <2>1
  <1> QED BY <1>1, <1>2

LEMMA BondInit == Init => BondInv
  BY DEF Init, SocietyInit, BondInv, Symmetric, Mutual, Anchored

\* A pass of update_relationships.
LEMMA WarmerBonds ==
  ASSUME TypeInv, BondInv, strength' = Warmer, UNCHANGED <<people, spouses>>
  PROVE  BondInv'
  <1>1. ASSUME NEW p \in People, NEW q \in People
        PROVE  strength'[<<p, q>>] = IF Colleagues(p, q)
                                     THEN AtMost(100, strength[<<p, q>>] + Warmth)
                                     ELSE strength[<<p, q>>]
    BY DEF Warmer
  <1>2. ASSUME NEW p \in People, NEW q \in People
        PROVE  /\ Colleagues(p, q) => Colleagues(q, p)
               /\ Colleagues(p, q) => p \in people /\ q \in people
    BY DEF Colleagues
  <1> QED BY <1>1, <1>2 DEF BondInv, Symmetric, Mutual, Anchored

\* A pass of check_marriage.
LEMMA WedBonds ==
  ASSUME TypeInv, BondInv, spouses' = spouses \union Wed, UNCHANGED <<people, strength>>
  PROVE  BondInv'
  <1>1. ASSUME NEW p \in People, NEW q \in People
        PROVE  <<p, q>> \in Wed <=> strength[<<p, q>>] > 80 /\ ~Married(p) /\ ~Married(q)
    BY DEF Wed
  <1>2. ASSUME NEW p \in People, NEW q \in People, strength[<<p, q>>] > 80
        PROVE  strength[<<p, q>>] > 0
    <2>1. <<p, q>> \in People \X People
      OBVIOUS
    <2>2. strength[<<p, q>>] \in 0 .. 100
      BY <2>1 DEF TypeInv, TypeOK, SocietyTypeOK
    <2> QED BY <1>2, <2>2
  <1> QED BY <1>1, <1>2 DEF BondInv, Symmetric, Mutual, Anchored

\* A startup.
LEMMA RepairBonds ==
  ASSUME TypeInv, BondInv, NEW reset \in BOOLEAN, Repair(reset)
  PROVE  BondInv'
  <1> DEFINE kept == IF reset THEN First(Len(Founders), people) ELSE people
  <1>1. kept \subseteq people' /\ kept \subseteq people
    BY KeptType DEF Repair
  <1>2. /\ strength' = [ab \in Pairs |-> IF ab \in Within(kept) THEN strength[ab] ELSE 0]
        /\ spouses' = spouses \intersect Within(kept)
    BY DEF Repair, Pairs
  <1>3. ASSUME NEW p \in People, NEW q \in People
        PROVE  <<p, q>> \in Within(kept) <=> p \in kept /\ q \in kept
    BY DEF Within
  <1> HIDE DEF kept
  <1>4. ASSUME NEW p \in People, NEW q \in People
        PROVE  /\ strength'[<<p, q>>] = IF p \in kept /\ q \in kept THEN strength[<<p, q>>] ELSE 0
               /\ <<p, q>> \in spouses' <=> <<p, q>> \in spouses /\ p \in kept /\ q \in kept
    BY <1>2, <1>3 DEF Pairs
  <1> QED BY <1>1, <1>4 DEF BondInv, Symmetric, Mutual, Anchored

LEMMA BondNext == TypeInv /\ BondInv /\ [Next]_vars => BondInv'
  <1> SUFFICES ASSUME TypeInv, BondInv, [Next]_vars PROVE BondInv'
    OBVIOUS
  <1> USE DEF bondVars, societyVars
  <1>0. people \subseteq people' /\ UNCHANGED bondVars => BondInv'
    BY DEF BondInv, Symmetric, Mutual, Anchored
  <1>1. CASE Begin
    BY <1>1, <1>0 DEF Begin
  <1>2. CASE Transaction
    <2>1. CASE AssignWork BY <2>1, <1>0 DEF AssignWork
    <2>2. CASE Weather BY <2>2, <1>0 DEF Weather
    <2>3. ASSUME NEW p \in People, Decide(p) PROVE BondInv' BY <2>3, <1>0 DEF Decide
    <2>4. CASE Produce BY <2>4, <1>0 DEF Produce
    <2>5. CASE Visit BY <2>5, <1>0 DEF Visit
    <2>6. CASE Work BY <2>6, <1>0 DEF Work
    <2>7. CASE Taxes BY <2>7, <1>0 DEF Taxes
    <2>8. CASE Growth BY <2>8, <1>0 DEF Growth, Grow, Join
    <2>9. CASE Ageing BY <2>9, <1>0 DEF Ageing
    <2>10. CASE Relations BY <2>10, WarmerBonds DEF Relations
    <2>11. CASE Final
      <3>1. CASE now % MarryEvery = 0
        BY <2>11, <3>1, WedBonds DEF Final
      <3>2. CASE now % MarryEvery # 0
        BY <2>11, <3>2, <1>0 DEF Final
      <3> QED BY <3>1, <3>2
    <2> QED BY <1>2, <2>1, <2>2, <2>3, <2>4, <2>5, <2>6, <2>7, <2>8, <2>9, <2>10, <2>11
            DEF Transaction
  <1>3. CASE Drain
    BY <1>3, <1>0 DEF Drain, ReadTick, Send, SendFails, DrainEnds
  <1>4. CASE Environment
    <2>1. CASE Restart
      <3>1. (tick >= ResetAt) \in BOOLEAN /\ Repair(tick >= ResetAt)
        BY <2>1 DEF Restart
      <3> QED BY <3>1, RepairBonds
    <2>2. CASE CreateNpc BY <2>2, <1>0 DEF CreateNpc, Join
    <2>3. ASSUME NEW rush \in BOOLEAN, Trigger(rush) PROVE BondInv'
      BY <2>3, <1>0 DEF Trigger
    <2>4. CASE Route \/ Abort \/ BrokerDown \/ BrokerUp
      BY <2>4, <1>0 DEF Route, Abort, BrokerDown, BrokerUp
    <2> QED BY <1>4, <2>1, <2>2, <2>3, <2>4 DEF Environment
  <1>5. CASE UNCHANGED vars
    BY <1>5, <1>0 DEF vars
  <1> QED BY <1>1, <1>2, <1>3, <1>4, <1>5 DEF Next

LEMMA BondsKept == Spec => [](TypeInv /\ BondInv)
  BY TypeInit, TypeNext, BondInit, BondNext, PTL DEF Spec

\* Every marriage has both its rows (check_marriage).
THEOREM MarriagesMutual == Spec => []SpousesMutual
  <1>1. TypeInv /\ BondInv => SpousesMutual
    BY BondMeaning
  <1> QED BY <1>1, BondsKept, PTL

\* No relationship names a person without a row (_reset_world_state).
THEOREM BondsAnchored == Spec => []NoDanglingBonds
  <1>1. TypeInv /\ BondInv => NoDanglingBonds
    BY BondMeaning
  <1> QED BY <1>1, BondsKept, PTL

\* Who is married is not married again (check_marriage).
THEOREM NoRemarriage == Spec => NoSecondSpouse
  <1>1. TypeInv /\ [Next]_vars
          => [\A ab \in spouses' \ spouses : ~Married(ab[1]) /\ ~Married(ab[2])]_societyVars
    <2> SUFFICES ASSUME TypeInv, [Next]_vars, NEW ab \in spouses' \ spouses
                 PROVE  ~Married(ab[1]) /\ ~Married(ab[2])
      OBVIOUS
    <2>1. spouses' \subseteq spouses \union Wed
      <3> USE DEF bondVars, societyVars
      <3>1. CASE Begin \/ UNCHANGED vars
        BY <3>1 DEF Begin, vars
      <3>2. CASE Transaction
        <4>1. CASE Final BY <4>1 DEF Final
        <4>2. CASE Growth BY <4>2 DEF Growth, Grow, Join
        <4>3. CASE \/ AssignWork \/ Weather \/ Produce \/ Visit \/ Work \/ Taxes \/ Ageing
                   \/ Relations \/ \E p \in People : Decide(p)
          BY <4>3 DEF AssignWork, Weather, Decide, Produce, Visit, Work, Taxes, Ageing, Relations
        <4> QED BY <3>2, <4>1, <4>2, <4>3 DEF Transaction
      <3>3. CASE Drain
        BY <3>3 DEF Drain, ReadTick, Send, SendFails, DrainEnds
      <3>4. CASE Environment
        <4>1. CASE Restart BY <4>1 DEF Restart, Repair
        <4>2. CASE CreateNpc BY <4>2 DEF CreateNpc, Join
        <4>3. CASE \/ Route \/ Abort \/ BrokerDown \/ BrokerUp
                   \/ \E rush \in BOOLEAN : Trigger(rush)
          BY <4>3 DEF Route, Abort, BrokerDown, BrokerUp, Trigger
        <4> QED BY <3>4, <4>1, <4>2, <4>3 DEF Environment
      <3> QED BY <3>1, <3>2, <3>3, <3>4 DEF Next
    <2> QED BY <2>1 DEF Wed
  <1> QED BY <1>1, BondsKept, PTL DEF Spec, NoSecondSpouse

-----------------------------------------------------------------------------
(* Once per tick.  The ticks that have paid their wages, and those that    *)
(* have warmed the friendships, are counted by the phase of the tick at    *)
(* hand; a tick that is cut short has its number spent.                    *)

Paid ==
  IF pc \in {"weather", "needs", "decide", "visit", "work"} THEN now - 1
  ELSE IF pc \in {"idle", "begin"} THEN tick ELSE now

Met ==
  IF pc \in {"idle", "begin"} THEN tick ELSE IF pc = "final" THEN now ELSE now - 1

OnceInv ==
  resets = 0 =>
    /\ \A p \in People : gold[p] <= 100 + 50 * triggers + 10 * Paid
    /\ \A ab \in Pairs : strength[ab] <= Warmth * Met

CountsOK ==
  /\ tick \in Nat /\ now \in Nat /\ triggers \in Nat /\ resets \in Nat
  /\ Paid \in Nat /\ Paid <= tick /\ Met \in Nat /\ Met <= tick
  /\ \A p \in People : gold[p] \in Nat
  /\ \A ab \in Pairs : strength[ab] \in Nat

LEMMA CountsType == TypeInv => CountsOK
  <1> SUFFICES ASSUME TypeInv PROVE CountsOK
    OBVIOUS
  <1>1. /\ tick \in Nat /\ now \in Nat /\ triggers \in Nat /\ resets \in Nat
        /\ Paid \in Nat /\ Paid <= tick /\ Met \in Nat /\ Met <= tick
    BY TickBoundsAssumption DEF TypeInv, TypeOK, PhaseOK, Phases, Paid, Met
  <1>2. gold \in [People -> Nat] /\ strength \in [Pairs -> 0 .. 100]
    BY DEF TypeInv, TypeOK, SocietyTypeOK, Pairs
  <1>3. \A ab \in Pairs : strength[ab] \in 0 .. 100
    BY <1>2
  <1> QED BY <1>1, <1>2, <1>3 DEF CountsOK

LEMMA WarmthTimes ==
  ASSUME NEW m \in Nat, NEW n \in Nat, m <= n
  PROVE  Warmth * m \in Nat /\ Warmth * m <= Warmth * n /\ Warmth * (m + 1) = Warmth * m + Warmth
  BY AmountsAssumption

LEMMA OnceMeaning == ASSUME TypeInv, OnceInv PROVE OncePerTick
  <1> SUFFICES ASSUME resets = 0
               PROVE  /\ \A p \in People : gold[p] <= 100 + Rush * triggers + Wage * tick
                      /\ \A ab \in People \X People : strength[ab] <= Warmth * tick
    BY DEF OncePerTick
  <1>1. CountsOK
    BY CountsType
  <1>3. \A p \in People : gold[p] <= 100 + Rush * triggers + Wage * tick
    BY <1>1 DEF CountsOK, OnceInv, Rush, Wage
  <1>4. Warmth * Met \in Nat /\ Warmth * tick \in Nat /\ Warmth * Met <= Warmth * tick
    BY <1>1, WarmthTimes DEF CountsOK
  <1>5. \A ab \in Pairs : strength[ab] <= Warmth * tick
    BY <1>1, <1>4 DEF CountsOK, OnceInv
  <1> QED BY <1>3, <1>5 DEF Pairs

LEMMA OnceInit == Init => OnceInv
  <1> SUFFICES ASSUME Init PROVE OnceInv
    OBVIOUS
  <1>1. \A p \in DOMAIN Founders : Founders[p].gold \in 0 .. 100
    <2>1. \A p \in DOMAIN Founders : Founders[p] \in [calling : Jobs \union {Nowhere}, gold : 0 .. 100]
      BY JobsAssumption, ElementOfSeq, LenProperties
    <2> QED BY <2>1
  <1>2. \A p \in People : gold[p] <= 100
    <2>1. gold = [p \in People |-> IF p \in DOMAIN Founders THEN Founders[p].gold
                                   ELSE IF p \in Spawned(DOMAIN Founders) THEN 50 ELSE 0]
      BY DEF Init, SocietyInit, Purse
    <2> QED BY <1>1, <2>1
  <1>3. \A ab \in Pairs : strength[ab] = 0
    BY DEF Init, SocietyInit, Pairs
  <1>4. pc = "idle" /\ tick = 0 /\ triggers = 0
    BY DEF Init
  <1>5. Paid = 0 /\ Met = 0 /\ Warmth * 0 = 0
    BY <1>4, AmountsAssumption DEF Paid, Met
  <1> QED BY <1>2, <1>3, <1>4, <1>5 DEF OnceInv

\* Steps that add to no purse and no friendship.
LEMMA OnceKeep ==
  ASSUME TypeInv, TypeInv', OnceInv, UNCHANGED <<resets, triggers>>,
         \A p \in People : gold'[p] <= gold[p] \/ gold'[p] <= 100,
         \A ab \in Pairs : strength'[ab] <= strength[ab],
         Paid' >= Paid, Met' >= Met
  PROVE  OnceInv'
  <1> SUFFICES ASSUME resets = 0
               PROVE  /\ \A p \in People : gold'[p] <= 100 + 50 * triggers + 10 * Paid'
                      /\ \A ab \in Pairs : strength'[ab] <= Warmth * Met'
    BY DEF OnceInv
  <1>1. CountsOK /\ CountsOK'
    BY CountsType, PTL
  <1>2. \A p \in People : gold'[p] <= 100 + 50 * triggers + 10 * Paid'
    BY <1>1 DEF CountsOK, OnceInv
  <1>3. Warmth * Met \in Nat /\ Warmth * Met' \in Nat /\ Warmth * Met <= Warmth * Met'
    BY <1>1, WarmthTimes DEF CountsOK
  <1>4. \A ab \in Pairs : strength'[ab] <= Warmth * Met'
    BY <1>1, <1>3 DEF CountsOK, OnceInv
  <1> QED BY <1>2, <1>4

LEMMA JoinGold ==
  ASSUME TypeInv, NEW p \in People, NEW job, NEW money \in 0 .. 100, Join(p, job, money)
  PROVE  UNCHANGED strength /\ \A q \in People : gold'[q] <= gold[q] \/ gold'[q] <= 100
  <1>1. gold \in [People -> Nat] /\ gold' = [gold EXCEPT ![p] = money]
    BY DEF Join, TypeInv, TypeOK, SocietyTypeOK
  <1>2. \A q \in People : gold'[q] <= gold[q] \/ gold'[q] <= 100
    BY <1>1
  <1> QED BY <1>2 DEF Join, bondVars

LEMMA OnceTransaction ==
  ASSUME TypeInv, TypeInv', OnceInv, Transaction PROVE OnceInv'
  <1> USE DEF elsewhere, countVars, bondVars, societyVars
  <1>a. CountsOK /\ CountsOK'
    BY CountsType, PTL
  <1>b. PhaseOK /\ pc \in Phases
    BY DEF TypeInv, TypeOK
  <1>c. UNCHANGED gold => \A p \in People : gold'[p] <= gold[p] \/ gold'[p] <= 100
    BY <1>a DEF CountsOK
  <1>d. UNCHANGED strength => \A ab \in Pairs : strength'[ab] <= strength[ab]
    BY <1>a DEF CountsOK
  <1>1. CASE AssignWork
    <2>1. Paid' >= Paid /\ Met' >= Met
      BY <1>1, <1>a, <1>b DEF AssignWork, Paid, Met, PhaseOK, CountsOK
    <2> QED BY <1>1, <2>1, <1>c, <1>d, OnceKeep DEF AssignWork
  <1>2. CASE Weather
    <2>1. Paid' >= Paid /\ Met' >= Met
      <3>1. Paid = now - 1 /\ Met = now - 1 /\ now' = now /\ pc' = "needs"
        BY <1>2 DEF Weather, Go, Paid, Met
      <3>2. Paid' = now - 1 /\ Met' = now - 1
        BY <3>1 DEF Paid, Met
      <3> QED BY <3>1, <3>2, <1>a DEF CountsOK
    <2> QED BY <1>2, <2>1, <1>c, <1>d, OnceKeep DEF Weather
  <1>3. ASSUME NEW p \in People, Decide(p) PROVE OnceInv'
    <2>1. Paid' >= Paid /\ Met' >= Met
      BY <1>3, <1>a, <1>b DEF Decide, Go, Paid, Met, PhaseOK, CountsOK
    <2>2. gold' = gold \/ gold' = [gold EXCEPT ![p] = @ - 5]
      BY <1>3 DEF Decide, Eat, FoodPrice
    <2>3. \A q \in People : gold'[q] <= gold[q]
      <3>1. gold \in [People -> Nat]
        BY DEF TypeInv, TypeOK, SocietyTypeOK
      <3> QED BY <2>2, <3>1
    <2> QED BY <1>3, <2>1, <2>3, <1>d, OnceKeep DEF Decide
  <1>4. CASE Produce
    <2>1. Paid' >= Paid /\ Met' >= Met
      BY <1>4, <1>a, <1>b DEF Produce, Go, Paid, Met, PhaseOK, CountsOK
    <2> QED BY <1>4, <2>1, <1>c, <1>d, OnceKeep DEF Produce
  <1>5. CASE Visit
    <2>1. Paid' >= Paid /\ Met' >= Met
      BY <1>5, <1>a, <1>b DEF Visit, Go, Paid, Met, PhaseOK, CountsOK
    <2> QED BY <1>5, <2>1, <1>c, <1>d, OnceKeep DEF Visit
  <1>6. CASE Work
    <2>1. Paid' = Paid + 1 /\ Met' >= Met
      BY <1>6, <1>a, <1>b DEF Work, Go, Paid, Met, PhaseOK, CountsOK
    <2>2. \A p \in People : gold'[p] <= gold[p] + 10
      <3>1. PICK away \in SUBSET Strays : PayWages(away)
        BY <1>6 DEF Work
      <3> QED BY <3>1, <1>a DEF PayWages, Wage, CountsOK
    <2>3. SUFFICES ASSUME resets = 0
                   PROVE  /\ \A p \in People : gold'[p] <= 100 + 50 * triggers + 10 * Paid'
                          /\ \A ab \in Pairs : strength[ab] <= Warmth * Met'
      BY <1>6 DEF OnceInv, Work
    <2>4. \A p \in People : gold'[p] <= 100 + 50 * triggers + 10 * Paid'
      BY <2>1, <2>2, <2>3, <1>a DEF OnceInv, CountsOK
    <2>5. Warmth * Met \in Nat /\ Warmth * Met' \in Nat /\ Warmth * Met <= Warmth * Met'
      BY <2>1, <1>a, WarmthTimes DEF CountsOK
    <2> QED BY <2>3, <2>4, <2>5, <1>a DEF OnceInv, CountsOK
  <1>7. CASE Taxes
    <2>1. Paid' >= Paid /\ Met' >= Met
      BY <1>7, <1>a, <1>b DEF Taxes, Go, Paid, Met, PhaseOK, CountsOK
    <2>2. \A p \in People : gold'[p] <= gold[p]
      BY <1>7, <1>a DEF Taxes, CollectTaxes, TaxDue, CountsOK
    <2> QED BY <1>7, <2>1, <2>2, <1>d, OnceKeep DEF Taxes
  <1>8. CASE Growth
    <2>1. Paid' >= Paid /\ Met' >= Met
      BY <1>8, <1>a, <1>b DEF Growth, Go, Paid, Met, PhaseOK, CountsOK
    <2>2. UNCHANGED strength /\ \A p \in People : gold'[p] <= gold[p] \/ gold'[p] <= 100
      <3>1. CASE UNCHANGED societyVars
        BY <3>1, <1>c
      <3>2. CASE Grow
        <4>1. PICK p \in People, job \in NewCallings : Join(p, job, Purse)
          BY <3>2 DEF Grow
        <4> QED BY <4>1, JoinGold DEF Purse
      <3> QED BY <1>8, <3>1, <3>2 DEF Growth
    <2> QED BY <1>8, <2>1, <2>2, <1>d, OnceKeep DEF Growth
  <1>9. CASE Ageing
    <2>1. Paid' >= Paid /\ Met' >= Met
      BY <1>9, <1>a, <1>b DEF Ageing, Go, Paid, Met, PhaseOK, CountsOK
    <2> QED BY <1>9, <2>1, <1>c, <1>d, OnceKeep DEF Ageing
  <1>10. CASE Relations
    <2>1. Paid' >= Paid /\ Met' = Met + 1
      BY <1>10, <1>a, <1>b DEF Relations, Go, Paid, Met, PhaseOK, CountsOK
    <2>2. \A ab \in Pairs : strength'[ab] <= strength[ab] + Warmth
      <3>1. \A ab \in Pairs : AtMost(100, strength[ab] + Warmth) <= strength[ab] + Warmth
        <4>1. \A ab \in Pairs : strength[ab] + Warmth \in Nat
          BY <1>a, AmountsAssumption DEF CountsOK
        <4> QED BY <4>1, AtMostType
      <3>2. \A ab \in Pairs : strength[ab] <= strength[ab] + Warmth
        BY <1>a, AmountsAssumption DEF CountsOK
      <3> QED BY <1>10, <3>1, <3>2 DEF Relations, Warmer, Pairs
    <2>3. SUFFICES ASSUME resets = 0
                   PROVE  /\ \A p \in People : gold[p] <= 100 + 50 * triggers + 10 * Paid'
                          /\ \A ab \in Pairs : strength'[ab] <= Warmth * Met'
      BY <1>10 DEF OnceInv, Relations
    <2>4. Warmth * Met' = Warmth * Met + Warmth /\ Warmth * Met \in Nat
      BY <2>1, <1>a, WarmthTimes DEF CountsOK
    <2>5. \A ab \in Pairs : strength'[ab] <= Warmth * Met'
      <3>1. \A ab \in Pairs : strength[ab] <= Warmth * Met
        BY <2>3 DEF OnceInv
      <3>2. \A ab \in Pairs : strength[ab] \in Nat /\ strength'[ab] \in Nat
        BY <1>a DEF CountsOK
      <3> HIDE DEF Pairs
      <3> QED BY <2>2, <2>4, <3>1, <3>2, AmountsAssumption
    <2>6. \A p \in People : gold[p] <= 100 + 50 * triggers + 10 * Paid'
      BY <2>1, <2>3, <1>a DEF OnceInv, CountsOK
    <2> QED BY <2>5, <2>6
  <1>11. CASE Final
    <2>1. Paid' >= Paid /\ Met' >= Met
      BY <1>11, <1>a, <1>b DEF Final, Go, Paid, Met, PhaseOK, CountsOK
    <2> QED BY <1>11, <2>1, <1>c, <1>d, OnceKeep DEF Final
  <1> QED
    BY <1>1, <1>2, <1>3, <1>4, <1>5, <1>6, <1>7, <1>8, <1>9, <1>10, <1>11 DEF Transaction

LEMMA OnceEnvironment ==
  ASSUME TypeInv, TypeInv', OnceInv, Environment PROVE OnceInv'
  <1> USE DEF elsewhere, countVars, bondVars, societyVars, runVars
  <1>a. CountsOK /\ CountsOK'
    BY CountsType, PTL
  <1>b. PhaseOK /\ pc \in Phases
    BY DEF TypeInv, TypeOK
  <1>c. UNCHANGED gold => \A p \in People : gold'[p] <= gold[p] \/ gold'[p] <= 100
    BY <1>a DEF CountsOK
  <1>d. UNCHANGED strength => \A ab \in Pairs : strength'[ab] <= strength[ab]
    BY <1>a DEF CountsOK
  <1>e. UNCHANGED runVars => Paid' >= Paid /\ Met' >= Met
    BY <1>a DEF Paid, Met, CountsOK
  <1>1. CASE Route
    <2>1. Paid' >= Paid /\ Met' >= Met
      BY <1>1, <1>a DEF Route, Paid, Met, CountsOK
    <2> QED BY <1>1, <2>1, <1>c, <1>d, OnceKeep DEF Route
  <1>2. CASE CreateNpc
    <2>1. UNCHANGED strength /\ \A p \in People : gold'[p] <= gold[p] \/ gold'[p] <= 100
      <3>1. PICK p \in People, job \in Jobs \union {Nowhere} : Join(p, job, 0)
        BY <1>2 DEF CreateNpc
      <3> QED BY <3>1, JoinGold
    <2> QED BY <1>2, <2>1, <1>d, <1>e, OnceKeep DEF CreateNpc
  <1>3. ASSUME NEW rush \in BOOLEAN, Trigger(rush) PROVE OnceInv'
    <2>1. \A p \in People : gold'[p] <= gold[p] + 50
      BY <1>3, <1>a DEF Trigger, Rush, CountsOK
    <2>2. UNCHANGED <<strength, resets, Paid, Met>> /\ triggers' = triggers + 1
      BY <1>3 DEF Trigger, Paid, Met
    <2> QED BY <2>1, <2>2, <1>a DEF OnceInv, CountsOK
  <1>4. CASE Abort
    <2>1. Paid' >= Paid /\ Met' >= Met
      BY <1>4, <1>a, <1>b DEF Abort, Paid, Met, PhaseOK, CountsOK
    <2> QED BY <1>4, <2>1, <1>c, <1>d, OnceKeep DEF Abort
  <1>5. CASE Restart
    <2>1. CASE tick >= ResetAt
      BY <1>5, <2>1, <1>a DEF Restart, OnceInv, CountsOK
    <2>2. CASE ~(tick >= ResetAt)
      <3>1. PICK reset \in BOOLEAN : Repair(reset)
        <4>1. (tick >= ResetAt) \in BOOLEAN /\ Repair(tick >= ResetAt)
          BY <1>5 DEF Restart
        <4> QED BY <4>1, Zenon
      <3>2. UNCHANGED <<resets, triggers, tick>> /\ pc' = "idle"
        BY <1>5, <2>2 DEF Restart
      <3>3. Paid' >= Paid /\ Met' >= Met
        BY <3>2, <1>a DEF Paid, Met, CountsOK
      <3>4. \A p \in People : gold'[p] <= gold[p] \/ gold'[p] <= 100
        BY <3>1, <1>a DEF Repair, Purse, CountsOK
      <3>5. \A ab \in Pairs : strength'[ab] <= strength[ab]
        BY <3>1, <1>a DEF Repair, CountsOK, Pairs
      <3> QED BY <3>2, <3>3, <3>4, <3>5, OnceKeep
    <2> QED BY <2>1, <2>2
  <1>6. CASE BrokerDown
    BY <1>6, <1>c, <1>d, <1>e, OnceKeep DEF BrokerDown
  <1>7. CASE BrokerUp
    BY <1>7, <1>c, <1>d, <1>e, OnceKeep DEF BrokerUp
  <1> QED BY <1>1, <1>2, <1>3, <1>4, <1>5, <1>6, <1>7 DEF Environment

LEMMA OnceNext == TypeInv /\ TypeInv' /\ OnceInv /\ [Next]_vars => OnceInv'
  <1> SUFFICES ASSUME TypeInv, TypeInv', OnceInv, [Next]_vars PROVE OnceInv'
    OBVIOUS
  <1> USE DEF countVars, societyVars, runVars
  <1>a. CountsOK
    BY CountsType
  <1>b. UNCHANGED <<societyVars, runVars, resets, triggers>> => OnceInv'
    BY DEF OnceInv, Paid, Met
  <1>1. CASE Begin
    <2>1. Paid' >= Paid /\ Met' >= Met
      BY <1>1, <1>a DEF Begin, Paid, Met, CountsOK
    <2>2. UNCHANGED <<gold, strength, resets, triggers>>
      BY <1>1 DEF Begin
    <2> QED BY <2>1, <2>2, <1>a, OnceKeep DEF CountsOK
  <1>2. CASE Drain
    BY <1>2, <1>b DEF Drain, ReadTick, Send, SendFails, DrainEnds
  <1>3. CASE UNCHANGED vars
    BY <1>3, <1>b DEF vars
  <1> QED BY <1>1, <1>2, <1>3, OnceTransaction, OnceEnvironment DEF Next

\* A tick's wages and friendships come at most once, though it is committed
\* in parts and can be cut short between them (process_tick).
THEOREM WagesOncePerTick == Spec => []OncePerTick
  <1>1. Spec => [](TypeInv /\ OnceInv)
    BY TypeInit, TypeNext, OnceInit, OnceNext, PTL DEF Spec
  <1>2. TypeInv /\ OnceInv => OncePerTick
    BY OnceMeaning
  <1> QED BY <1>1, <1>2, PTL

-----------------------------------------------------------------------------
(* The outbox.  Until a reset counts anew, what has been broadcast are     *)
(* rows of events, each once, in the order of their ticks; and when the    *)
(* worker is about to drain a tick, everything broadcast is from earlier   *)
(* ticks: the worker has raised the number since its last drain.           *)

RowIds ==
  \A e \in events : /\ e.id <= serial /\ e.tick <= tick
                    /\ \A f \in events : e.id = f.id => e = f

TopicOK ==
  /\ \A i \in DOMAIN topic : topic[i] \in events
  /\ \A i, j \in DOMAIN topic :
       i < j => topic[i].id # topic[j].id /\ topic[i].tick <= topic[j].tick

QueueOK ==
  /\ queue \subseteq events
  /\ \A e, f \in queue : e.tick = f.tick
  /\ worker = "draining" =>
       \A e \in queue, i \in DOMAIN topic : topic[i].tick <= e.tick /\ topic[i].id # e.id

WorkerOK ==
  /\ pc # "idle" /\ by = "worker" => worker = "ticking"
  /\ worker = "ticking" =>
       /\ pc # "idle" /\ by = "worker"
       /\ pc # "begin" => \A i \in DOMAIN topic : topic[i].tick < now
  /\ worker = "done" => \A i \in DOMAIN topic : topic[i].tick < tick

OutboxInv == resets = 0 => RowIds /\ TopicOK /\ QueueOK /\ WorkerOK

OutboxTypes ==
  /\ tick \in Nat /\ now \in Nat /\ serial \in Nat /\ resets \in Nat
  /\ events \subseteq Rows /\ queue \subseteq Rows /\ topic \in Seq(Rows)
  /\ \A e \in Rows : e.id \in Nat /\ e.tick \in Nat
  /\ \A i \in DOMAIN topic : topic[i] \in Rows

LEMMA OutboxType == TypeInv => OutboxTypes
  <1> SUFFICES ASSUME TypeInv PROVE OutboxTypes
    OBVIOUS
  <1>1. \A e \in Rows : e.id \in Nat /\ e.tick \in Nat
    BY DEF Rows
  <1>2. topic \in Seq(Rows)
    BY DEF TypeInv, TypeOK
  <1>3. \A i \in DOMAIN topic : topic[i] \in Rows
    BY <1>2, ElementOfSeq, LenProperties
  <1> QED BY <1>1, <1>2, <1>3, TickBoundsAssumption DEF OutboxTypes, TypeInv, TypeOK

LEMMA OutboxInit == Init => OutboxInv
  BY DEF Init, OutboxInv, RowIds, TopicOK, QueueOK, WorkerOK

\* Steps of a tick under way that leave the events alone.
LEMMA OutboxTick ==
  ASSUME TypeInv, TypeInv', OutboxInv, UNCHANGED <<resets, worker, outboxVars, rowVars, by>>,
         tick' >= tick, pc # "idle", pc' # "idle", now' >= now,
         pc = "begin" /\ pc' # "begin" => tick < now'
  PROVE  OutboxInv'
  <1> SUFFICES ASSUME resets = 0
               PROVE  RowIds' /\ TopicOK' /\ QueueOK' /\ WorkerOK'
    BY DEF OutboxInv
  <1> USE DEF outboxVars, rowVars
  <1>1. OutboxTypes /\ OutboxTypes'
    BY OutboxType, PTL
  <1>2. \A i \in DOMAIN topic : topic[i].tick <= tick /\ topic[i].tick \in Nat
    BY <1>1 DEF OutboxInv, RowIds, TopicOK, OutboxTypes
  <1>3. RowIds'
    BY <1>1 DEF OutboxInv, RowIds, OutboxTypes
  <1>4. TopicOK' /\ QueueOK'
    BY DEF OutboxInv, TopicOK, QueueOK
  <1>5. WorkerOK'
    BY <1>1, <1>2 DEF OutboxInv, WorkerOK, OutboxTypes
  <1> QED BY <1>3, <1>4, <1>5

\* process_tavern numbers its rows anew.
LEMMA VisitNumbers ==
  ASSUME TypeInv, NEW guests \in SUBSET People
  PROVE  /\ Cardinality(guests) \in Nat
         /\ \A p \in guests : Cardinality({q \in guests : q <= p}) \in 1 .. Cardinality(guests)
         /\ \A p, r \in guests :
              Cardinality({q \in guests : q <= p}) = Cardinality({q \in guests : q <= r}) => p = r
  <1> DEFINE upto(p) == {q \in guests : q <= p}
  <1>1. IsFiniteSet(guests) /\ Cardinality(guests) \in Nat
    BY PeopleFinite
  <1>2. \A p \in guests : IsFiniteSet(upto(p)) /\ Cardinality(upto(p)) \in Nat
    BY PeopleFinite
  <1>3. \A p \in guests : p \in Nat
    BY PeopleAssumption DEF People
  <1>4. ASSUME NEW p \in guests PROVE Cardinality(upto(p)) \in 1 .. Cardinality(guests)
    <2>1. upto(p) \in SUBSET guests /\ p \in upto(p)
      BY <1>3
    <2>2. Cardinality(upto(p)) <= Cardinality(guests)
      BY <2>1, <1>1, FS_Subset
    <2>3. Cardinality(upto(p)) # 0
      BY <2>1, <1>2, FS_EmptySet
    <2> HIDE DEF upto
    <2> QED BY <2>2, <2>3, <1>1, <1>2
  <1>5. ASSUME NEW p \in guests, NEW r \in guests, p < r
        PROVE  Cardinality(upto(p)) # Cardinality(upto(r))
    <2>1. upto(p) \in SUBSET upto(r) /\ r \in upto(r) /\ r \notin upto(p)
      BY <1>3, <1>5
    <2>2. Cardinality(upto(r)) = Cardinality(upto(p)) => upto(r) = upto(p)
      BY <2>1, <1>2, FS_Subset
    <2> QED BY <2>1, <2>2
  <1>6. \A p, r \in guests : p < r \/ r < p \/ p = r
    BY <1>3
  <1> QED BY <1>1, <1>4, <1>5, <1>6

LEMMA OutboxVisit == ASSUME TypeInv, TypeInv', OutboxInv, Visit PROVE OutboxInv'
  <1> DEFINE guests == {p \in people : work[p] = "tavern"}
             count(p) == Cardinality({q \in guests : q <= p})
             row(p) == [id |-> serial + count(p), tick |-> now, who |-> p]
  <1> USE DEF elsewhere, outboxVars, countVars
  <1> SUFFICES ASSUME resets = 0
               PROVE  RowIds' /\ TopicOK' /\ QueueOK' /\ WorkerOK'
    BY DEF OutboxInv, Visit
  <1>1. OutboxTypes /\ OutboxTypes'
    BY OutboxType, PTL
  <1>2. guests \in SUBSET People
    BY DEF TypeInv, TypeOK, SocietyTypeOK
  <1>3. /\ Cardinality(guests) \in Nat
        /\ \A p \in guests : count(p) \in 1 .. Cardinality(guests)
        /\ \A p, r \in guests : count(p) = count(r) => p = r
    BY <1>2, VisitNumbers
  <1>4. /\ events' = events \union {row(p) : p \in guests}
        /\ serial' = serial + Cardinality(guests)
        /\ tick' = now /\ now' = now /\ pc' = "work" /\ pc = "visit"
        /\ UNCHANGED <<topic, queue, worker, by>>
    BY DEF Visit, Go
  <1>5. tick = now
    BY <1>4 DEF TypeInv, PhaseOK
  <1> HIDE DEF guests, count
  <1>6. \A p \in guests : row(p).id = serial + count(p) /\ row(p).tick = now
    OBVIOUS
  <1>7. \A p \in guests : /\ row(p).id \in Nat /\ row(p).id > serial /\ row(p).id <= serial'
                          /\ \A r \in guests : row(p).id = row(r).id => p = r
    BY <1>1, <1>3, <1>4, <1>6 DEF OutboxTypes
  <1>8. RowIds'
    <2>1. \A e \in events' : e \in events \/ \E p \in guests : e = row(p)
      BY <1>4
    <2>2. \A e \in events : e.id \in Nat /\ e.id <= serial /\ e.tick <= tick
                            /\ \A f \in events : e.id = f.id => e = f
      BY <1>1 DEF OutboxInv, RowIds, OutboxTypes
    <2>3. serial' \in Nat /\ serial \in Nat /\ serial <= serial' /\ now \in Nat
      BY <1>1, <1>3, <1>4 DEF OutboxTypes
    <2>4. \A e \in events' : e.id <= serial' /\ e.tick <= tick'
      BY <2>1, <2>2, <2>3, <1>4, <1>5, <1>6, <1>7
    <2> HIDE DEF row
    <2>5. \A e, f \in events' : e.id = f.id => e = f
      BY <2>1, <2>2, <2>3, <1>7
    <2> QED BY <2>4, <2>5 DEF RowIds
  <1>9. TopicOK' /\ QueueOK'
    BY <1>4 DEF OutboxInv, TopicOK, QueueOK
  <1>10. WorkerOK'
    BY <1>4, <1>5 DEF OutboxInv, WorkerOK
  <1> QED BY <1>8, <1>9, <1>10

LEMMA OutboxTransaction ==
  ASSUME TypeInv, TypeInv', OutboxInv, Transaction PROVE OutboxInv'
  <1> USE DEF elsewhere, countVars
  <1>a. OutboxTypes /\ OutboxTypes'
    BY OutboxType, PTL
  <1>b. PhaseOK
    BY DEF TypeInv
  <1>c. ASSUME NEW next \in Phases \ {"idle", "begin"}, Go(next), pc \notin {"idle", "begin"}
        PROVE  tick' >= tick /\ now' >= now /\ by' = by /\ pc' # "idle" /\ pc # "idle"
    BY <1>a, <1>b, <1>c DEF Go, PhaseOK, OutboxTypes
  <1>1. CASE AssignWork
    BY <1>1, <1>a, <1>b, OutboxTick DEF AssignWork, PhaseOK, OutboxTypes
  <1>2. CASE Weather
    <2>1. CASE Go("needs")
      BY <1>2, <2>1, <1>c, OutboxTick DEF Weather, Phases
    <2>2. CASE pc' = "needs" /\ UNCHANGED <<tick, now, by>>
      BY <1>2, <2>2, <1>a, OutboxTick DEF Weather, OutboxTypes
    <2> QED BY <1>2, <2>1, <2>2 DEF Weather
  <1>3. ASSUME NEW p \in People, Decide(p) PROVE OutboxInv'
    BY <1>3, <1>c, OutboxTick DEF Decide, Phases
  <1>4. CASE Produce
    BY <1>4, <1>c, OutboxTick DEF Produce, Phases
  <1>5. CASE Visit
    BY <1>5, OutboxVisit
  <1>6. CASE Work
    BY <1>6, <1>c, OutboxTick DEF Work, Phases
  <1>7. CASE Taxes
    BY <1>7, <1>c, OutboxTick DEF Taxes, Phases
  <1>8. CASE Growth
    BY <1>8, <1>c, OutboxTick DEF Growth, Phases
  <1>9. CASE Ageing
    BY <1>9, <1>c, OutboxTick DEF Ageing, Phases
  <1>10. CASE Relations
    BY <1>10, <1>c, OutboxTick DEF Relations, Phases
  <1>11. CASE Final
    <2> SUFFICES ASSUME resets = 0
                 PROVE  RowIds' /\ TopicOK' /\ QueueOK' /\ WorkerOK'
      BY <1>11 DEF OutboxInv, Final
    <2>1. /\ pc = "final" /\ pc' = "idle" /\ tick' = now /\ tick = now /\ by' = by
          /\ UNCHANGED <<topic, queue, events, serial>>
          /\ worker' = IF by = "worker" THEN "done" ELSE worker
      BY <1>11, <1>b DEF Final, Go, PhaseOK, outboxVars, rowVars
    <2>2. RowIds' /\ TopicOK'
      BY <2>1 DEF OutboxInv, RowIds, TopicOK
    <2>3. QueueOK'
      BY <2>1 DEF OutboxInv, QueueOK
    <2>4. WorkerOK'
      BY <2>1 DEF OutboxInv, WorkerOK
    <2> QED BY <2>2, <2>3, <2>4
  <1> QED
    BY <1>1, <1>2, <1>3, <1>4, <1>5, <1>6, <1>7, <1>8, <1>9, <1>10, <1>11 DEF Transaction

LEMMA OutboxSend == ASSUME TypeInv, OutboxInv, NEW e \in queue, Send(e) PROVE OutboxInv'
  <1> USE DEF runVars, rowVars, countVars
  <1> SUFFICES ASSUME resets = 0
               PROVE  RowIds' /\ TopicOK' /\ QueueOK' /\ WorkerOK'
    BY DEF OutboxInv, Send
  <1>1. /\ topic' = Append(topic, e) /\ queue' = queue \ {e} /\ worker = "draining"
        /\ UNCHANGED <<events, serial, tick, now, pc, by, worker>>
    BY DEF Send
  <1>2. OutboxTypes /\ RowIds /\ TopicOK /\ QueueOK /\ WorkerOK
    BY OutboxType DEF OutboxInv
  <1>3. e \in events /\ e \in Rows /\ \A f \in queue : f.tick = e.tick /\ f \in events
    BY <1>2 DEF QueueOK, OutboxTypes
  <1>4. \A i \in DOMAIN topic : topic[i].tick <= e.tick /\ topic[i].id # e.id
    BY <1>1, <1>2 DEF QueueOK
  <1>5. /\ DOMAIN topic = 1 .. Len(topic) /\ Len(topic) \in Nat
        /\ DOMAIN topic' = 1 .. (Len(topic) + 1)
        /\ topic'[Len(topic) + 1] = e
        /\ \A i \in DOMAIN topic : topic'[i] = topic[i]
    BY <1>1, <1>2, <1>3, AppendProperties, LenProperties DEF OutboxTypes
  <1>6. RowIds'
    BY <1>1, <1>2 DEF RowIds
  <1>7. TopicOK'
    <2>1. \A i \in DOMAIN topic' : i \in DOMAIN topic \/ i = Len(topic) + 1
      BY <1>5
    <2>2. \A i, j \in DOMAIN topic' : i < j => i \in DOMAIN topic
      BY <1>5
    <2> QED BY <2>1, <2>2, <1>1, <1>2, <1>3, <1>4, <1>5 DEF TopicOK
  <1>8. QueueOK'
    <2>1. \A f \in queue' : f \in queue /\ f # e /\ f.tick = e.tick /\ f.id # e.id
      BY <1>1, <1>2, <1>3 DEF RowIds
    <2>2. \A i \in DOMAIN topic' : i \in DOMAIN topic \/ i = Len(topic) + 1
      BY <1>5
    <2>3. \A f \in queue', i \in DOMAIN topic' : topic'[i].tick <= f.tick /\ topic'[i].id # f.id
      <3> SUFFICES ASSUME NEW f \in queue', NEW i \in DOMAIN topic'
                   PROVE  topic'[i].tick <= f.tick /\ topic'[i].id # f.id
        OBVIOUS
      <3>1. CASE i \in DOMAIN topic
        BY <3>1, <2>1, <1>1, <1>2, <1>5 DEF QueueOK
      <3>2. CASE i = Len(topic) + 1
        BY <3>2, <2>1, <1>2, <1>3, <1>5 DEF OutboxTypes
      <3> QED BY <2>2, <3>1, <3>2
    <2> QED BY <2>1, <2>3, <1>1, <1>2 DEF QueueOK
  <1>9. WorkerOK'
    BY <1>1, <1>2 DEF WorkerOK
  <1> QED BY <1>6, <1>7, <1>8, <1>9

LEMMA OutboxSendFails ==
  ASSUME TypeInv, OutboxInv, NEW e \in queue, SendFails(e) PROVE OutboxInv'
  <1> USE DEF runVars, rowVars, countVars
  <1> SUFFICES ASSUME resets = 0
               PROVE  RowIds' /\ TopicOK' /\ QueueOK' /\ WorkerOK'
    BY DEF OutboxInv, SendFails
  <1>1. /\ UNCHANGED <<events, serial, tick, now, pc, by>> /\ worker = "draining"
        /\ \/ worker' = "asleep" /\ queue' = {}
           \/ producer = "unstarted" /\ worker' = "hung" /\ queue' = queue
        /\ topic' = topic \/ (producer = "started" /\ topic' = Append(topic, e))
    BY DEF SendFails
  <1>2. OutboxTypes /\ RowIds /\ TopicOK /\ QueueOK /\ WorkerOK
    BY OutboxType DEF OutboxInv
  <1>3. RowIds' /\ WorkerOK' /\ QueueOK'
    BY <1>1, <1>2 DEF RowIds, WorkerOK, QueueOK
  <1>4. CASE topic' = topic
    BY <1>1, <1>2, <1>3, <1>4 DEF TopicOK
  <1>5. CASE topic' = Append(topic, e)
    <2>1. e \in events /\ e \in Rows
      BY <1>2 DEF QueueOK, OutboxTypes
    <2>2. \A i \in DOMAIN topic : topic[i].tick <= e.tick /\ topic[i].id # e.id
      BY <1>1, <1>2 DEF QueueOK
    <2>3. /\ DOMAIN topic = 1 .. Len(topic) /\ Len(topic) \in Nat
          /\ DOMAIN topic' = 1 .. (Len(topic) + 1)
          /\ topic'[Len(topic) + 1] = e
          /\ \A i \in DOMAIN topic : topic'[i] = topic[i]
      BY <1>5, <1>2, <2>1, AppendProperties, LenProperties DEF OutboxTypes
    <2>4. \A i \in DOMAIN topic' : i \in DOMAIN topic \/ i = Len(topic) + 1
      BY <2>3
    <2>5. \A i, j \in DOMAIN topic' : i < j => i \in DOMAIN topic
      BY <2>3
    <2>6. TopicOK'
      BY <2>1, <2>2, <2>3, <2>4, <2>5, <1>1, <1>2 DEF TopicOK
    <2> QED BY <2>6, <1>3
  <1> QED BY <1>1, <1>4, <1>5

LEMMA OutboxDrain == ASSUME TypeInv, OutboxInv, Drain PROVE OutboxInv'
  <1> USE DEF runVars, rowVars, countVars, outboxVars
  <1>1. CASE ReadTick
    <2> SUFFICES ASSUME resets = 0
                 PROVE  RowIds' /\ TopicOK' /\ QueueOK' /\ WorkerOK'
      BY <1>1 DEF OutboxInv, ReadTick
    <2>1. /\ UNCHANGED <<events, serial, tick, now, pc, by, topic>> /\ worker = "done"
          /\ worker' = "draining" /\ queue' = {e \in events : e.tick = tick}
      BY <1>1 DEF ReadTick, EventsOf
    <2>2. OutboxTypes /\ RowIds /\ TopicOK /\ WorkerOK
      BY OutboxType DEF OutboxInv
    <2>3. RowIds' /\ TopicOK' /\ WorkerOK'
      BY <2>1, <2>2 DEF RowIds, TopicOK, WorkerOK
    <2>4. \A i \in DOMAIN topic : topic[i].tick < tick /\ topic[i] \in events /\ topic[i] \in Rows
      BY <2>1, <2>2 DEF WorkerOK, TopicOK, OutboxTypes
    <2>5. \A e \in queue', i \in DOMAIN topic : topic[i].tick <= e.tick /\ topic[i].id # e.id
      <3> SUFFICES ASSUME NEW e \in queue', NEW i \in DOMAIN topic
                   PROVE  topic[i].tick <= e.tick /\ topic[i].id # e.id
        OBVIOUS
      <3>1. e \in events /\ e.tick = tick
        BY <2>1
      <3>2. topic[i].tick # e.tick /\ topic[i].tick <= e.tick
        BY <3>1, <2>2, <2>4 DEF OutboxTypes
      <3> QED BY <3>1, <3>2, <2>2, <2>4 DEF RowIds
    <2> QED BY <2>1, <2>3, <2>5 DEF QueueOK
  <1>2. ASSUME NEW e \in queue, Send(e) PROVE OutboxInv'
    BY <1>2, OutboxSend
  <1>3. ASSUME NEW e \in queue, SendFails(e) PROVE OutboxInv'
    BY <1>3, OutboxSendFails
  <1>4. CASE DrainEnds
    BY <1>4 DEF DrainEnds, OutboxInv, RowIds, TopicOK, QueueOK, WorkerOK
  <1> QED BY <1>1, <1>2, <1>3, <1>4 DEF Drain

LEMMA OutboxEnvironment == ASSUME TypeInv, OutboxInv, Environment PROVE OutboxInv'
  <1> USE DEF runVars, rowVars, countVars, outboxVars, elsewhere, OutboxInv
  <1>a. OutboxTypes
    BY OutboxType
  <1>b. UNCHANGED <<runVars, rowVars, worker, queue, topic, resets>> => OutboxInv'
    BY DEF RowIds, TopicOK, QueueOK, WorkerOK
  <1>1. CASE Route
    BY <1>1 DEF Route, RowIds, TopicOK, QueueOK, WorkerOK
  <1>2. CASE CreateNpc
    BY <1>2, <1>b DEF CreateNpc
  <1>3. ASSUME NEW rush \in BOOLEAN, Trigger(rush) PROVE OutboxInv'
    <2> DEFINE row == [id |-> serial + 1, tick |-> tick, who |-> 0]
    <2> SUFFICES ASSUME resets = 0
                 PROVE  RowIds' /\ TopicOK' /\ QueueOK' /\ WorkerOK'
      BY <1>3 DEF Trigger
    <2>1. /\ events' = events \union {row} /\ serial' = serial + 1
          /\ UNCHANGED <<tick, now, pc, by, worker, topic, queue>>
      BY <1>3 DEF Trigger
    <2>2. row.id = serial + 1 /\ row.tick = tick
      OBVIOUS
    <2>3. \A e \in events : e.id \in Nat /\ e.id <= serial
      BY <1>a DEF RowIds, OutboxTypes
    <2> HIDE DEF row
    <2>4. RowIds'
      BY <2>1, <2>2, <2>3, <1>a DEF RowIds, OutboxTypes
    <2>5. TopicOK' /\ QueueOK' /\ WorkerOK'
      BY <2>1 DEF TopicOK, QueueOK, WorkerOK
    <2> QED BY <2>4, <2>5
  <1>4. CASE Abort
    BY <1>4 DEF Abort, RowIds, TopicOK, QueueOK, WorkerOK
  <1>5. CASE Restart
    <2>1. CASE tick >= ResetAt
      BY <1>5, <2>1, <1>a DEF Restart, OutboxTypes
    <2>2. CASE ~(tick >= ResetAt)
      <3>1. /\ UNCHANGED <<tick, events, serial, topic, resets>>
            /\ pc' = "idle" /\ worker' = "asleep" /\ queue' = {}
        BY <1>5, <2>2 DEF Restart
      <3> QED BY <3>1 DEF RowIds, TopicOK, QueueOK, WorkerOK
    <2> QED BY <2>1, <2>2
  <1>6. CASE BrokerDown
    BY <1>6, <1>b DEF BrokerDown
  <1>7. CASE BrokerUp
    BY <1>7, <1>b DEF BrokerUp
  <1> QED BY <1>1, <1>2, <1>3, <1>4, <1>5, <1>6, <1>7 DEF Environment

LEMMA OutboxNext == TypeInv /\ TypeInv' /\ OutboxInv /\ [Next]_vars => OutboxInv'
  <1> SUFFICES ASSUME TypeInv, TypeInv', OutboxInv, [Next]_vars PROVE OutboxInv'
    OBVIOUS
  <1>1. CASE Begin
    <2>1. \A i \in DOMAIN topic : resets = 0 => topic[i] \in events
      BY DEF OutboxInv, TopicOK
    <2> QED BY <1>1, <2>1 DEF Begin, OutboxInv, RowIds, TopicOK, QueueOK, WorkerOK,
                              rowVars, countVars, outboxVars
  <1>2. CASE UNCHANGED vars
    BY <1>2 DEF vars, OutboxInv, RowIds, TopicOK, QueueOK, WorkerOK, runVars, rowVars,
                countVars, outboxVars
  <1> QED BY <1>1, <1>2, OutboxTransaction, OutboxDrain, OutboxEnvironment DEF Next

LEMMA OutboxKept == Spec => [](TypeInv /\ OutboxInv)
  BY TypeInit, TypeNext, OutboxInit, OutboxNext, PTL DEF Spec

\* No event is broadcast twice, and ticks are broadcast in their order
\* (drain_events).
THEOREM BroadcastsOnce == Spec => []BroadcastOnce
  <1>1. OutboxInv => BroadcastOnce
    BY DEF OutboxInv, TopicOK, BroadcastOnce
  <1> QED BY <1>1, OutboxKept, PTL

-----------------------------------------------------------------------------
(* Nothing is left behind while nothing fails: an event that is not yet    *)
(* broadcast is in the drain, or of the tick the worker is at.             *)

Smooth == faults + restarts + routes + triggers = 0

Sent(e) == \E i \in DOMAIN topic : topic[i] = e

SmoothInv ==
  Smooth =>
    /\ broker = "up" /\ producer # "unstarted" /\ by = "worker"
    /\ pc # "idle" => worker = "ticking"
    /\ \A e \in events : \/ Sent(e)
                         \/ worker = "draining" /\ e \in queue
                         \/ worker \in {"ticking", "done"} /\ e.tick = now
    /\ worker = "ticking" /\ pc \in {"begin", "weather", "needs", "decide", "visit"}
         => \A e \in events : Sent(e)
    /\ worker = "done" => tick = now

LEMMA SmoothInit == Init => SmoothInv
  BY DEF Init, SmoothInv

\* Steps of a tick that leave the events alone.
LEMMA SmoothTick ==
  ASSUME SmoothInv, UNCHANGED <<worker, outboxVars, broker, countVars, rowVars, by>>,
         pc # "idle", pc' # "idle",
         now' = now \/ pc = "begin",
         pc' \in {"begin", "weather", "needs", "decide", "visit"}
           => pc \in {"begin", "weather", "needs", "decide", "visit"}
  PROVE  SmoothInv'
  BY DEF SmoothInv, Smooth, Sent, outboxVars, countVars, rowVars

LEMMA SmoothNext == TypeInv /\ SmoothInv /\ [Next]_vars => SmoothInv'
  <1> SUFFICES ASSUME TypeInv, SmoothInv, [Next]_vars PROVE SmoothInv'
    OBVIOUS
  <1> USE DEF outboxVars, countVars, rowVars, elsewhere
  <1>a. faults \in Nat /\ restarts \in Nat /\ routes \in Nat /\ triggers \in Nat
    BY DEF TypeInv, TypeOK
  <1>b. PhaseOK
    BY DEF TypeInv
  <1>1. CASE Begin
    BY <1>1 DEF Begin, SmoothInv, Smooth, Sent
  <1>2. CASE Transaction
    <2>1. CASE AssignWork BY <2>1, SmoothTick DEF AssignWork
    <2>2. CASE Weather BY <2>2, SmoothTick DEF Weather, Go
    <2>3. ASSUME NEW p \in People, Decide(p) PROVE SmoothInv'
      BY <2>3, SmoothTick DEF Decide, Go
    <2>4. CASE Produce BY <2>4, SmoothTick DEF Produce, Go
    <2>5. CASE Visit
      <3> SUFFICES ASSUME Smooth PROVE SmoothInv'
        BY <2>5 DEF Visit, SmoothInv, Smooth
      <3>1. worker = "ticking" /\ \A e \in events : Sent(e)
        BY <2>5 DEF Visit, SmoothInv
      <3>2. \A e \in events' : e \in events \/ e.tick = now
        <4> DEFINE guests == {p \in people : work[p] = "tavern"}
                   number(p) == serial + Cardinality({q \in guests : q <= p})
        <4>1. events' = events \union {[id |-> number(p), tick |-> now, who |-> p] : p \in guests}
          BY <2>5 DEF Visit
        <4> HIDE DEF guests, number
        <4> QED BY <4>1
      <3>3. /\ UNCHANGED <<worker, outboxVars, broker, countVars, by, now>> /\ pc' = "work"
        BY <2>5 DEF Visit, Go
      <3> QED BY <3>1, <3>2, <3>3 DEF SmoothInv, Smooth, Sent
    <2>6. CASE Work BY <2>6, SmoothTick DEF Work, Go
    <2>7. CASE Taxes BY <2>7, SmoothTick DEF Taxes, Go
    <2>8. CASE Growth BY <2>8, SmoothTick DEF Growth, Go
    <2>9. CASE Ageing BY <2>9, SmoothTick DEF Ageing, Go
    <2>10. CASE Relations BY <2>10, SmoothTick DEF Relations, Go
    <2>11. CASE Final
      BY <2>11, <1>b DEF Final, Go, SmoothInv, Smooth, Sent, PhaseOK
    <2> QED BY <1>2, <2>1, <2>2, <2>3, <2>4, <2>5, <2>6, <2>7, <2>8, <2>9, <2>10, <2>11
            DEF Transaction
  <1>3. CASE Drain
    <2> USE DEF runVars
    <2>1. CASE ReadTick
      BY <2>1 DEF ReadTick, EventsOf, SmoothInv, Smooth, Sent
    <2>2. ASSUME NEW e \in queue, Send(e) PROVE SmoothInv'
      <3> SUFFICES ASSUME Smooth PROVE SmoothInv'
        BY <2>2 DEF Send, SmoothInv, Smooth
      <3>1. /\ topic' = Append(topic, e) /\ queue' = queue \ {e} /\ worker = "draining"
            /\ producer' = "started"
            /\ UNCHANGED <<events, tick, now, pc, by, worker, broker, countVars>>
        BY <2>2 DEF Send
      <3>2. e \in Rows /\ topic \in Seq(Rows)
        BY DEF TypeInv, TypeOK
      <3>3. \A f : Sent(f) => Sent(f)'
        BY <3>1, <3>2, AppendProperties, LenProperties DEF Sent
      <3>4. Sent(e)'
        <4>1. Len(topic) + 1 \in DOMAIN topic' /\ topic'[Len(topic) + 1] = e
          BY <3>1, <3>2, AppendProperties, LenProperties
        <4> QED BY <4>1 DEF Sent
      <3> QED BY <3>1, <3>3, <3>4 DEF SmoothInv, Smooth
    <2>3. ASSUME NEW e \in queue, SendFails(e) PROVE SmoothInv'
      BY <2>3 DEF SendFails, Started, SmoothInv, Smooth
    <2>4. CASE DrainEnds
      BY <2>4 DEF DrainEnds, SmoothInv, Smooth, Sent
    <2> QED BY <1>3, <2>1, <2>2, <2>3, <2>4 DEF Drain
  <1>4. CASE Environment
    <2>1. CASE CreateNpc
      BY <2>1 DEF CreateNpc, runVars, SmoothInv, Smooth, Sent
    <2>2. CASE BrokerUp
      BY <2>2 DEF BrokerUp, runVars, SmoothInv, Smooth, Sent
    <2>3. CASE Route \/ Abort \/ Restart \/ BrokerDown \/ \E rush \in BOOLEAN : Trigger(rush)
      <3>1. ~Smooth'
        BY <2>3, <1>a DEF Route, Abort, Restart, BrokerDown, Trigger, Smooth
      <3> QED BY <3>1 DEF SmoothInv
    <2> QED BY <1>4, <2>1, <2>2, <2>3 DEF Environment
  <1>5. CASE UNCHANGED vars
    BY <1>5 DEF vars, runVars, SmoothInv, Smooth, Sent
  <1> QED BY <1>1, <1>2, <1>3, <1>4, <1>5 DEF Next

\* While nothing fails every event has been broadcast by the time the
\* worker sleeps (_tick_worker).
THEOREM EveryTickDrained == Spec => []TicksDrained
  <1>1. SmoothInv => TicksDrained
    BY DEF SmoothInv, Smooth, Sent, TicksDrained
  <1> QED BY <1>1, TypeInit, TypeNext, SmoothInit, SmoothNext, PTL DEF Spec

=============================================================================
