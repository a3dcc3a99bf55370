--------------------------- MODULE MCTavernGateway --------------------------
(***************************************************************************)
(* A client of one node; a settlement on a partition that the group has    *)
(* committed before, and two pieces of content, for a buffer of one, on a  *)
(* new partition that the other node takes.                                *)
(***************************************************************************)
EXTENDS TavernGateway

MCNodes == {"n1", "n2"}
MCClients == {"ada"}
MCHome == [c \in MCClients |-> "n1"]
MCInterests == [c \in MCClients |-> {"content"}]
MCNPCs == {"npc1"}
MCEarlier == [c \in MCNPCs |-> 5]
Msg(kind, delta) == [kind |-> kind, npc |-> "npc1", delta |-> delta]
MCLogs == <<<<Msg("trade", 3)>>, <<Msg("content", 0), Msg("content", 0)>>>>
MCResumed == {1}
MCFirstOwner == <<"n1", "n2">>
=============================================================================
