---------------------------- MODULE MCMarketTown ----------------------------
(***************************************************************************)
(* One consumer process; the buyers' messages are on a partition of which  *)
(* the group has committed an offset before, the sellers' on a new one.    *)
(* Handlers, resources and faults are set by each configuration. Amounts   *)
(* are in half coins, so a price of 3 is 1.5 coins.                        *)
(***************************************************************************)
EXTENDS MarketTown

CONSTANTS h1, h2, p1, old, new, anna, bert, ore, wood

OneHandler == {h1}
TwoHandlers == {h1, h2}
MCProcesses == {p1}
OnlyOre == {ore}
OreAndWood == {ore, wood}
MCBuyers == {anna}
MCSellers == {bert}
MCPartitions == {old, new}
MCResumed == {old}
MCPartitionOf == [m \in FlowMessages |-> IF m.npc = anna THEN old ELSE new]
=============================================================================
