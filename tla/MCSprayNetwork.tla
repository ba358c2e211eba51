---------------------------- MODULE MCSprayNetwork ----------------------------
(***************************************************************************)
(* A source, a destination and two nodes that relay.  Seven copies: halves *)
(* are lost on the way down to one.  One program is at the source and one  *)
(* at the destination, which may register twice.                           *)
(***************************************************************************)
EXTENDS SprayNetwork, TLC

CONSTANTS s, d, x, y

MCHome == x :> s @@ y :> d

MCName == x :> {s} @@ y :> {d}

MCAllocBound == x :> 1 @@ y :> 2

Relays == Permutations(Node \ {s, d})
===============================================================================
