-------------------------- MODULE MCEpidemicRouter --------------------------
(***************************************************************************)
(* Bundles for a peer, for a node out of reach and for this node.  A byte  *)
(* here is one entry of a dictionary.  The first bundle may come from its  *)
(* source, and grows then.  The buffer has room for a bundle of 2 and one  *)
(* of 1, and for the two of 2 while the counter is below what they take.   *)
(***************************************************************************)
EXTENDS EpidemicRouter, TLC

CONSTANTS pA, pB, b1, b2, b3, b4, far

MCSize == b1 :> 2 @@ b2 :> 1 @@ b3 :> 2 @@ b4 :> 1

MCComes == b1 :> {1, 2} @@ b2 :> {1} @@ b3 :> {2} @@ b4 :> {1}

MCDestination == b1 :> pA @@ b2 :> far @@ b3 :> far @@ b4 :> Node
=============================================================================
