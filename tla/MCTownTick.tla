----------------------------- MODULE MCTownTick -----------------------------
(***************************************************************************)
(* A founder who works in the mine, up to two newcomers who may join       *)
(* him, and periods, appetite and warmth scaled so that within a few ticks *)
(* people eat, pay taxes, marry, die and the world is reset.               *)
(***************************************************************************)
EXTENDS TownTick

MCJobs == {"tavern", "mine"}
MCFounders == <<[calling |-> "mine", gold |-> 100]>>
MCResetCallings == <<"nowhere">>
=============================================================================
