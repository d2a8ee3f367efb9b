------------------------------ MODULE MCStores -------------------------------
EXTENDS Stores

CONSTANTS a, b, c, d, leaf

(* Two pieces that share a block.                                           *)
MCLinks == [p \in Piece |-> {leaf}]
=============================================================================
