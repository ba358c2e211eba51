---------------------------- MODULE MCOrwarNetwork ----------------------------
(***************************************************************************)
(* The bundle is for one of the two nodes, or for a third.  A copy of one  *)
(* that is to be copied 40 times bears the number of an answer.  Messages  *)
(* are given up where the peer is the destination.                         *)
(***************************************************************************)
EXTENDS OrwarNetwork, TLC

CONSTANTS a, b, c

MCBrought == b :> {2, 40} @@ c :> {2}

MCFailing == b :> {a} @@ c :> {}
===============================================================================
