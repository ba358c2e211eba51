--------------------------- MODULE MCLinkManager ---------------------------
(***************************************************************************)
(* The links to two peers; a pause is shorter than the time to live, and   *)
(* two pauses longer.                                                      *)
(***************************************************************************)
EXTENDS LinkManager
=============================================================================
