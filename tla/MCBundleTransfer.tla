-------------------------- MODULE MCBundleTransfer --------------------------
(***************************************************************************)
(* Transfers to one peer, of two bundles of two segments; and to two       *)
(* peers, of one bundle of one segment.                                    *)
(***************************************************************************)
EXTENDS BundleTransfer, TLC

MCTwoSegments == [g \in Bundle |-> 2]
MCOneSegment == [g \in Bundle |-> 1]
=============================================================================
