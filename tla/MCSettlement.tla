---------------------------- MODULE MCSettlement ----------------------------
(***************************************************************************)
(* Two processes of the consumer group and two partitions, one of which    *)
(* the group has never committed an offset of. Both messages of a trade,   *)
(* of which the seller's NPC is not in the npcs table, are on the known    *)
(* partition; the message of another trade is on the new one. Amounts are  *)
(* in whole coins.                                                         *)
(***************************************************************************)
EXTENDS Settlement

CONSTANTS p1, p2, old, new, anna, ghost, t1, t2

MCProcesses == {p1, p2}
OneProcess == {p1}
MCPartitions == {old, new}
MCResumed == {old}
MCNPCs == {anna, ghost}
MCResidents == {anna}
Msg(n, d, t) == [npc |-> n, delta |-> d, trade |-> t]
MCLog == <<Msg(anna, -3, t1), Msg(ghost, 3, t1), Msg(anna, -1, t2)>>
MCMessages == {MCLog[i] : i \in DOMAIN MCLog}
MCPartitionOf == [m \in MCMessages |-> IF m.trade = t1 THEN old ELSE new]
=============================================================================
