------------------------ MODULE MCDirectDeliveryRouter ------------------------
(***************************************************************************)
(* Bundles for a peer and for a node out of reach.  The buffer of 5 bytes  *)
(* holds any two of them; the newer must go for the third.                 *)
(***************************************************************************)
EXTENDS DirectDeliveryRouter, TLC

CONSTANTS pA, pB, b1, b2, b3, far

MCSize == b1 :> 1 @@ b2 :> 3 @@ b3 :> 1

MCDestination == b1 :> pA @@ b2 :> pB @@ b3 :> far
=============================================================================
