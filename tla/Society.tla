------------------------------ MODULE Society -------------------------------
(***************************************************************************)
(* The rows of town-core's database that the rules of a tick work on, and  *)
(* those rules (services/town-core/engine/simulation: init.py, npcs.py,    *)
(* economy.py; main.py for the repairs at startup).  TownTick puts them    *)
(* into transactions.  A session has autoflush off (db.py:37): a query of  *)
(* a rule sees what is committed, not what the rule has changed so far.    *)
(*                                                                         *)
(* Left out: places on the map (who is near his workplace is open),        *)
(* happiness, energy, skills and homes (everybody's home is the first      *)
(* residential building).  assign_work_and_homes takes the first building  *)
(* of a type, so one job is one building, and two people never have the    *)
(* same type of workplace at two buildings: update_relationships makes no  *)
(* rivals.  No role leads to a hospital, a school or to theft.             *)
(***************************************************************************)
EXTENDS Naturals, Sequences, FiniteSets

CONSTANTS
    NPeople,        \* bound: the ids npc rows can have
    Jobs,           \* building types that _ROLE_WORK_BUILDING maps a role to
    Nowhere,        \* the job of a role without one, work_building_id None
    Founders,       \* seed_npcs: the job of the role and the gold of each
    ResetCallings,  \* the jobs of _reset_world_state's ROLES
    NewCallings,    \* the jobs of the roles newcomers draw
    MinPop,         \* MIN_POP of _fix_null_columns: 11
    MaxPop,         \* check_population_growth: 30
    Appetite,       \* hunger a tick adds: 5
    Warmth          \* strength a tick adds to a friendship: 5

ASSUME PeopleAssumption == NPeople \in Nat
ASSUME JobsAssumption ==
    /\ Nowhere \notin Jobs
    /\ NewCallings \subseteq Jobs \union {Nowhere}
    /\ ResetCallings \in Seq(Jobs \union {Nowhere})
    /\ Founders \in Seq([calling : Jobs \union {Nowhere}, gold : 0 .. 100])
    /\ Len(Founders) <= NPeople
ASSUME AmountsAssumption ==
    MinPop \in Nat /\ MaxPop \in Nat /\ Appetite \in Nat /\ Warmth \in Nat

People == 1 .. NPeople

VARIABLES
    people,     \* the rows of npcs
    living,     \* those with is_dead = 0
    calling,    \* the job of the role
    work,       \* work_building_id
    gold,
    hunger,
    strength,   \* relationships.strength of an ordered pair, 0 without a row
    spouses     \* the ordered pairs whose row has type spouse, not friend

societyVars == <<people, living, calling, work, gold, hunger, strength, spouses>>
bondVars == <<strength, spouses>>

FoodPrice == 5
Meal == 30
Wage == 10      \* WorldState.base_wage
TaxDue == 2
Purse == 50     \* gold of a newcomer, also what a pauper is given at startup
Rush == 50

AtMost(max, n) == IF n > max THEN max ELSE n

SocietyTypeOK ==
    /\ people \subseteq People
    /\ living \subseteq people
    /\ calling \in [People -> Jobs \union {Nowhere}]
    /\ work \in [People -> Jobs \union {Nowhere}]
    /\ gold \in [People -> Nat]
    /\ hunger \in [People -> 0 .. 100]
    /\ strength \in [People \X People -> 0 .. 100]
    /\ spouses \subseteq People \X People

\* The n lowest ids of a set.
First(n, set) == {p \in set : Cardinality({q \in set : q < p}) < n}

Missing(rows) == IF Cardinality(rows) < MinPop THEN MinPop - Cardinality(rows) ELSE 0

\* The newcomers _fix_null_columns inserts beside the rows there are.
Spawned(rows) == First(Missing(rows), People \ rows)

SocietyInit ==
    /\ LET new == Spawned(DOMAIN Founders) IN
       /\ people = DOMAIN Founders \union new
       /\ \E drawn \in [new -> NewCallings] :
            calling = [p \in People |-> IF p \in DOMAIN Founders THEN Founders[p].calling
                                        ELSE IF p \in new THEN drawn[p] ELSE Nowhere]
       /\ gold = [p \in People |-> IF p \in DOMAIN Founders THEN Founders[p].gold
                                   ELSE IF p \in new THEN Purse ELSE 0]
    /\ living = people
    /\ work = [p \in People |-> IF p \in DOMAIN Founders THEN calling[p] ELSE Nowhere]
    /\ hunger = [p \in People |-> 0]
    /\ strength = [ab \in People \X People |-> 0]
    /\ spouses = {}

-----------------------------------------------------------------------------
\* assign_work_and_homes: the living who have no work get that of their role.
Assigned ==
    [p \in People |-> IF p \in living /\ work[p] = Nowhere THEN calling[p] ELSE work[p]]

\* The needs of the NPCs a tick has listed, in memory until a decision commits.
Hungrier(listed) ==
    [p \in People |-> IF p \in listed THEN AtMost(100, hunger[p] + Appetite) ELSE hunger[p]]

\* eat: p pays for a meal when hungry, by the hunger the session has.
Eat(p, hungers) ==
    IF hungers[p] > 50 /\ gold[p] >= FoodPrice
    THEN /\ gold' = [gold EXCEPT ![p] = @ - FoodPrice]
         /\ hunger' = [hungers EXCEPT ![p] = IF @ < Meal THEN 0 ELSE @ - Meal]
    ELSE gold' = gold /\ hunger' = hungers

\* process_work: who has work and is near it is paid, dead or alive.
PayWages(away) ==
    gold' = [p \in People |-> IF p \in people \ away /\ work[p] # Nowhere
                              THEN gold[p] + Wage ELSE gold[p]]

\* Mutant: everybody pays, also who has less than the tax.
CollectTaxesFromAll ==
    gold' = [p \in People |-> IF p \in people THEN gold[p] - TaxDue ELSE gold[p]]

\* collect_taxes: the Treasury row it would go to is never created.
CollectTaxes ==
    gold' = [p \in People |-> IF p \in people /\ gold[p] >= TaxDue
                              THEN gold[p] - TaxDue ELSE gold[p]]

\* A new row with the next free id.
Join(p, job, money) ==
    /\ p \in First(1, People \ people)
    /\ people' = people \union {p}
    /\ living' = living \union {p}
    /\ calling' = [calling EXCEPT ![p] = job]
    /\ gold' = [gold EXCEPT ![p] = money]
    /\ work' = [work EXCEPT ![p] = Nowhere]
    /\ hunger' = [hunger EXCEPT ![p] = 0]
    /\ UNCHANGED bondVars

\* check_population_growth, when chance and the mean happiness allow it.
Grow ==
    /\ living # {} /\ Cardinality(living) < MaxPop
    /\ \E p \in People, job \in NewCallings : Join(p, job, Purse)

Colleagues(a, b) ==
    a # b /\ {a, b} \subseteq people /\ work[a] = work[b] /\ work[a] # Nowhere

\* update_relationships: both rows of a pair at one building, dead or alive.
Warmer ==
    [ab \in People \X People |->
        IF Colleagues(ab[1], ab[2]) THEN AtMost(100, strength[ab] + Warmth) ELSE strength[ab]]

Married(p) == \E q \in People : <<p, q>> \in spouses \/ <<q, p>> \in spouses

\* Mutant: only the npc_id of the row is asked for a spouse.
WedFirst ==
    {ab \in People \X People : strength[ab] > 80 /\ ~Married(ab[1])}

\* Mutant: the second row of a pair sees the first one already married.
WedOneWay ==
    {ab \in People \X People : strength[ab] > 80 /\ ab[1] < ab[2]
                               /\ ~Married(ab[1]) /\ ~Married(ab[2])}

(***************************************************************************)
(* check_marriage: the friend rows that become spouse rows.  It asks the   *)
(* database who has a spouse; the rows it has just changed are not there   *)
(* yet, so all rows of one pass are judged by the same old state.          *)
(***************************************************************************)
Wed ==
    {ab \in People \X People : strength[ab] > 80
                               /\ ~Married(ab[1]) /\ ~Married(ab[2])}

\* Mutant: the rows that name a removed person as target_npc_id stay.
WithinSource(kept) == {ab \in People \X People : ab[1] \in kept}

\* The relationships _reset_world_state leaves: none with a removed person.
Within(kept) == {ab \in People \X People : ab[1] \in kept /\ ab[2] \in kept}

(***************************************************************************)
(* What startup makes of the rows: assign_work_and_homes, then             *)
(* _reset_world_state (if reset) keeps the first five, then                *)
(* _fix_null_columns revives everybody, feeds and funds the poorest and    *)
(* fills the town up to MIN_POP.                                           *)
(***************************************************************************)
Repair(reset) ==
    LET kept == IF reset THEN First(Len(Founders), people) ELSE people
        new == Spawned(kept)
        money(p) == IF reset THEN Purse ELSE gold[p]
        need(p) == IF reset THEN 0 ELSE hunger[p]
    IN
    /\ people' = kept \union new
    /\ living' = people'
    /\ \E drawn \in [new -> NewCallings] :
         calling' = [p \in People |-> IF p \in new THEN drawn[p]
                                      ELSE IF ~reset THEN calling[p]
                                      ELSE IF p \in kept /\ p \in DOMAIN ResetCallings
                                      THEN ResetCallings[p] ELSE Nowhere]
    /\ work' = [p \in People |-> IF p \in kept THEN Assigned[p] ELSE Nowhere]
    /\ gold' = [p \in People |-> IF p \in kept /\ money(p) >= 5 THEN money(p)
                                 ELSE IF p \in people' THEN Purse ELSE 0]
    /\ hunger' = [p \in People |-> IF p \notin kept THEN 0
                                   ELSE IF need(p) > 90 THEN 20 ELSE need(p)]
    /\ strength' = [ab \in People \X People |-> IF ab \in Within(kept) THEN strength[ab] ELSE 0]
    /\ spouses' = spouses \intersect Within(kept)

-----------------------------------------------------------------------------
\* A marriage has both its rows or none: check_marriage judges the two rows
\* of a pair by the same old state and they are committed together, through
\* aborted ticks, restarts and resets.
SpousesMutual == \A ab \in spouses : <<ab[2], ab[1]>> \in spouses

\* Nobody who has a spouse gets another one later ("Only marry if neither
\* has a spouse", npcs.py:619), however often friendships outgrow 80.
NoSecondSpouse ==
    [][\A ab \in spouses' \ spouses : ~Married(ab[1]) /\ ~Married(ab[2])]_societyVars

\* "Two NPCs with friendship strength > 80 and no existing spouse may marry"
\* (npcs.py:595-596): one spouse at most.
Monogamy == \A p, q, r \in People : {<<p, q>>, <<p, r>>} \subseteq spouses => q = r

\* No relationship names a person without a row, through resets that delete
\* rows of npcs and ids that are given out again (_reset_world_state).
NoDanglingBonds ==
    \A ab \in People \X People : strength[ab] > 0 \/ ab \in spouses => {ab[1], ab[2]} \subseteq people

=============================================================================
