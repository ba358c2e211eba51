--------------------------- MODULE MCCustodyNetwork ---------------------------
(***************************************************************************)
(* A source, a destination and two nodes that relay, so that the bundle    *)
(* can go round.                                                           *)
(***************************************************************************)
EXTENDS CustodyNetwork, TLC

CONSTANTS s, d

Relays == Permutations(Node \ {s, d})
===============================================================================
