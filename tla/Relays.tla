------------------------------- MODULE Relays -------------------------------
(***************************************************************************)
(* A node with any of the four routers that relay: each is a module of its *)
(* own, and the node has one of them for good.  What the four promise of   *)
(* BundleRouter is stated here once for all.                               *)
(***************************************************************************)
EXTENDS Integers, Sequences, FiniteSets, SequencesExt

CONSTANTS
  Mac, Bundle, Size, MaxBytes, Mortal, Ends, TryBound, SendBound,  \* BundleRouter
  Node, Destination, Comes, DriftBound,  \* RelayRouter
  Brought,            \* SprayAndWaitRouter
  PendingBound,       \* CustodyRouter
  One, Ages, Hellos,  \* ProphetRouter
  Scenes              \* bound: the routers, each with the peers that it may
                      \* meet, the bundles that there are then, those of this
                      \* node among them, whether anything ends, and whether
                      \* other nodes pass bundles on, too

ASSUME RelaysAssumption ==
  /\ Size \in [Bundle -> Nat \ {0}] /\ MaxBytes \in Nat
  /\ Mortal \subseteq Bundle /\ Ends \in BOOLEAN
  /\ TryBound \in Nat \ {0} /\ SendBound \in Nat
  /\ Comes \in [Bundle -> SUBSET (Nat \ {0})] /\ DriftBound \in Nat
  /\ Brought \subseteq Nat
  /\ PendingBound \in Nat \ {0}
  /\ One \in Nat \ {0} /\ Ages \subseteq 1..One
  /\ \A list \in Hellos : \A d \in DOMAIN list : list[d] \in 0..One
  /\ Scenes \subseteq [router : {"epidemic", "spray", "prophet", "trend"},
                       peers : SUBSET Mac, bundles : SUBSET Bundle,
                       mine : SUBSET Bundle, ends : BOOLEAN, others : BOOLEAN]

VARIABLES
  scene,       \* the router that the node has, and what there is around it
  state, queue, isSending, bundleList, nBytes, nBundles, expired, handoff, outbox,
  tries, over,
  reclist, forwardLog, kdm, delivers, offered,
  copies, ma,
  local, custodyList, pending, erasures,
  prob, receivedFrom,
  asks, lasting

Epidemic == INSTANCE EpidemicRouter WITH Polling <- FALSE
Spray == INSTANCE SprayAndWaitRouter WITH Polling <- FALSE
Prophet == INSTANCE ProphetRouter WITH Polling <- FALSE
Trend == INSTANCE TrendRouter WITH Polling <- TRUE

vars == <<scene, Trend!vars, copies, prob, receivedFrom>>

-----------------------------------------------------------------------------

(* The variables of the other routers *)
NoSpray == copies = [g \in Bundle |-> 0]
NoTable == ma = {}
NoCustody == Prophet!CustodyInit /\ local = {}
NoProphet == prob = [p \in Mac |-> [d \in Prophet!Eid |-> 0]]
             /\ receivedFrom = [g \in Bundle |-> {}]
NoTrend == asks = {} /\ lasting = {}

Init ==
  /\ scene \in Scenes
  /\ CASE scene.router = "epidemic" -> /\ Epidemic!Init
                                       /\ NoCustody /\ NoTable /\ NoSpray /\ NoProphet /\ NoTrend
       [] scene.router = "spray" -> Spray!Init /\ NoCustody /\ NoProphet /\ NoTrend
       [] scene.router = "prophet" -> Prophet!Init /\ NoTable /\ NoSpray /\ NoTrend
       [] scene.router = "trend" -> Trend!Init /\ NoSpray /\ NoProphet
  /\ local = scene.mine

(* Bound: the other peers are never met, and the other bundles never come; *)
(* perhaps nothing expires, and the simulation does not end, and what is   *)
(* new in the table is of this node.                                       *)
InScene ==
  /\ ~scene.ends => expired' = {} /\ ~over'
  /\ ~scene.others => \A e \in ma' \ ma : e[1] \in reclist'[e[2]]
  /\ \A p \in Mac \ scene.peers :
       /\ state'[p] = "unknown" /\ prob'[p] = prob[p] /\ p \notin lasting'
       /\ \A g \in Bundle : <<p, g>> \notin ma' /\ p \notin receivedFrom'[g]
  /\ \A g \in Bundle \ scene.bundles :
       /\ g \notin ToSet(bundleList') \cup delivers' \cup expired'
       /\ \A i \in DOMAIN handoff' : handoff'[i].gbid # g
       /\ \A p \in Mac : <<p, g>> \notin ma'

Next ==
  /\ \/ scene.router = "epidemic" /\ Epidemic!Next
        /\ UNCHANGED <<copies, ma, local, custodyList, pending, erasures, prob, receivedFrom,
                       asks, lasting>>
     \/ scene.router = "spray" /\ Spray!Next
        /\ UNCHANGED <<local, custodyList, pending, erasures, prob, receivedFrom, asks, lasting>>
     \/ scene.router = "prophet" /\ Prophet!Next /\ UNCHANGED <<copies, ma, asks, lasting>>
     \/ scene.router = "trend" /\ Trend!Next /\ UNCHANGED <<copies, prob, receivedFrom>>
  /\ InScene
  /\ UNCHANGED scene

Spec == Init /\ [][Next]_vars

-----------------------------------------------------------------------------

TypeOK ==
  CASE scene.router = "epidemic" -> Epidemic!TypeOK
    [] scene.router = "spray" -> Spray!TypeOK
    [] scene.router = "prophet" -> Prophet!TypeOK
    [] scene.router = "trend" -> Trend!TypeOK

(* The counters of the buffer follow the list in every router, but for     *)
(* what a bundle grows when this node becomes its custodian, with bundles  *)
(* that come with custody requested and are deleted by an answer.          *)
Accounted == Prophet!Accounted

(* A router only thinks that it sends while a report is to come.  The      *)
(* answers of the custody exchange go out as bundles do, beside them.      *)
SendingEndsInReport == Prophet!SendingEndsInReport

(* Nothing that can be sent is left lying: while a router is not sending   *)
(* and has a bundle for a connected peer, a look at it is due; and the     *)
(* timer of the trend of delivery router never stops.                      *)
LookIsDue ==
  CASE scene.router = "epidemic" -> Epidemic!LookIsDue
    [] scene.router = "spray" -> Spray!LookIsDue
    [] scene.router = "prophet" -> Prophet!LookIsDue
    [] scene.router = "trend" -> Trend!LookIsDue
=============================================================================
