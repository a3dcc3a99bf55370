--------------------------- MODULE MCLibraryIndexer ---------------------------
(***************************************************************************)
(* Two of the four indices; one message in the middle belongs in none. Two *)
(* documents of an index, the settlements of one trade, share an _id, and  *)
(* another has none.                                                       *)
(***************************************************************************)
EXTENDS LibraryIndexer

MCLog == <<1, 2, 0, 1, 1>>
MCId == <<7, 8, 9, 7, 0>>
=============================================================================
