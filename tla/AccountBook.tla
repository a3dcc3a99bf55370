----------------------------- MODULE AccountBook -----------------------------
(***************************************************************************)
(* What the consumption of qtown.economy.trade.settled promises (ADR 0001, *)
(* decision 4, and the docstring of ProcessedTrade): whatever is delivered *)
(* again or replayed, the message of a counterparty moves that NPC's gold  *)
(* exactly once, and the row that says so appears with the gold.           *)
(***************************************************************************)
EXTENDS Integers

CONSTANTS
  NPCs,        \* owners of gold
  Piece,       \* gold is kept in multiples of it
  Messages     \* settlement messages: an npc, a delta and a trade

VARIABLES
  gold,        \* gold of each NPC
  settled      \* (trade, npc) pairs whose gold has moved

bookVars == <<gold, settled>>

Key(m) == <<m.trade, m.npc>>

Init ==
  /\ gold \in [NPCs -> Int]
  /\ settled = {}

\* Amounts are counted in a unit in which prices are whole; what a column keeps of an amount
\* is the nearest multiple of Piece. The rule for a tie is the database's.
Half == Piece \div 2
Stored(x) == {y \in x - Half .. x + Half : y % Piece = 0}

Apply(m) ==
  /\ Key(m) \notin settled
  /\ settled' = settled \union {Key(m)}
  /\ \E g \in Stored(gold[m.npc] + m.delta) : gold' = [gold EXCEPT ![m.npc] = g]

Next == \E m \in Messages : Apply(m)

AccountBookSpec == Init /\ [][Next]_bookVars
=============================================================================
