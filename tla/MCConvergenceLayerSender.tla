---------------------- MODULE MCConvergenceLayerSender ----------------------
(***************************************************************************)
(* The sending half with two peers, and two bundles of one segment and of  *)
(* two.                                                                    *)
(***************************************************************************)
EXTENDS ConvergenceLayerSender

CONSTANTS b1, b2

MCNumberOfSegments == b1 :> 1 @@ b2 :> 2
=============================================================================
