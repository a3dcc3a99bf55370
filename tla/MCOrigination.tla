---------------------------- MODULE MCOrigination ----------------------------
(***************************************************************************)
(* Two miners of one mine, who share its shelf, and a farmer.              *)
(***************************************************************************)
EXTENDS Origination

CONSTANTS worker, miner1, miner2, farmer, ore, food

TheWorker == {worker}
MCSellers == {miner1, miner2, farmer}
MCShelves == {ore, food}
MCShelfOf == [n \in MCSellers |-> IF n = farmer THEN food ELSE ore]
MCBatches == {0, 2}
=============================================================================
