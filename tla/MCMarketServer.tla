--------------------------- MODULE MCMarketServer ---------------------------
(***************************************************************************)
(* Two handlers, three orders of one good.                                 *)
(***************************************************************************)
EXTENDS MarketServer

CONSTANTS h1, h2, buyer, seller, ore

MCHandlers == {h1, h2}
MCResources == {ore}
MCBuyers == {buyer}
MCSellers == {seller}
=============================================================================
