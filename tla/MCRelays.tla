------------------------------ MODULE MCRelays ------------------------------
(***************************************************************************)
(* A bundle for a peer, which may be passed to the other, one for this     *)
(* node and one for a node out of reach; and two of this node's own.  A    *)
(* byte here is one entry of a dictionary: the bundles of others may grow  *)
(* by one; of this node's the second may come back, and shrinks then.      *)
(* There is room for one bundle, or for two while the counter is off.      *)
(***************************************************************************)
EXTENDS Relays, TLC

CONSTANTS pA, pB, b1, b2, b3, b4, b5, far

MCSize == [g \in Bundle |-> 2]

MCComes == [g \in Bundle |-> IF g = b4 THEN {} ELSE IF g = b5 THEN {3} ELSE {1, 2}]

MCDestination == b1 :> pA @@ b2 :> Node @@ b3 :> far @@ b4 :> pA @@ b5 :> far

MCHellos == {pA :> 1}

Scene(router, peers, bundles, mine, ends, others) ==
  [router |-> router, peers |-> peers, bundles |-> bundles, mine |-> mine,
   ends |-> ends, others |-> others]

MCScenes ==
  {Scene(r, {pA, pB}, {b1}, {}, TRUE, TRUE) : r \in {"epidemic", "spray"}}
    \cup {Scene("spray", {pB}, {b1, b2}, {}, TRUE, TRUE),
          Scene("epidemic", {pB}, {b1, b3}, {}, FALSE, TRUE),
          Scene("prophet", {pB}, {b1, b2}, {}, TRUE, TRUE),
          Scene("prophet", {pB}, {b5, b3}, {b5}, FALSE, TRUE),
          Scene("prophet", {pA, pB}, {b4}, {b4}, FALSE, TRUE),
          Scene("trend", {pB}, {b1}, {}, TRUE, TRUE),
          Scene("trend", {pB}, {b2}, {}, FALSE, TRUE),
          Scene("trend", {pB}, {b4, b5}, {b4, b5}, FALSE, FALSE),
          Scene("trend", {pA, pB}, {b4}, {b4}, FALSE, FALSE)}
=============================================================================
