--------------------------- MODULE CustodyNetwork ---------------------------
(***************************************************************************)
(* One bundle in a network of nodes that hand over custody: RTProphet asks *)
(* for custody whenever it passes the bundle on, RTTrendOfDelivery copies  *)
(* it or asks for custody.  Whoever takes custody answers, and the sender  *)
(* deletes its copy when the answer comes.                                 *)
(*                                                                         *)
(* Any two nodes may meet at any time.  A message may fail before or after *)
(* it arrived, and the agent may hand the same message up again.  Messages *)
(* go side by side: the acknowledgement of an answer resets m_isSending    *)
(* while the bundle itself is under way.  What keeps a node from offering  *)
(* the bundle to a peer is left out: here any holder may offer it to any   *)
(* node, again and again.  ProphetRouter and TrendRouter have that.        *)
(*                                                                         *)
(* The agent knows an answer by its replication factor of 20.  It gives    *)
(* the bundles of its application a factor that grows with the network,    *)
(* int(nodes * 0.1) + 1, and neither router changes it: where that is 20,  *)
(* whoever gets the bundle ignores it.                                     *)
(***************************************************************************)
EXTENDS Integers, FiniteSets

CONSTANTS
  Node,        \* the nodes
  Source,      \* the node whose application hands the bundle over
  Dest,        \* the destination
  Routers,     \* the routers that the network may run, among Router
  Factors,     \* the replication factors that the bundle may have
  Again,       \* bound: whether a message is handed up a second time
  TransferBound \* bound: the messages under way at a time

Router == {"prophet", "trend"}

ASSUME CustodyNetworkAssumption ==
  /\ Source \in Node /\ Dest \in Node \ {Source}
  /\ Routers \subseteq Router /\ Factors \subseteq Nat /\ Again \in BOOLEAN /\ TransferBound \in Nat

VARIABLES
  router,      \* the router that all nodes run
  factor,      \* the replication factor of the bundle
  holders,     \* the nodes that hold the bundle
  custodyList, \* m_custodyList: the nodes that ever asked for custody of it
  air,         \* the messages under way
  delivers,    \* m_bundlesDelivers of the destination has the bundle
  handedUp,    \* how often the bundle was handed up to the application
  dropped      \* a node dropped it, for lack of room or because it expired

vars == <<router, factor, holders, custodyList, air, delivers, handedUp, dropped>>

(* A copy, a bundle that asks for custody, or an answer to one.            *)
Message == [from : Node, to : Node, what : {"copy", "custody", "yes", "no"},
            arrived : BOOLEAN]

TypeOK ==
  /\ router \in Routers /\ factor \in Factors
  /\ holders \in SUBSET Node /\ custodyList \in SUBSET Node
  /\ air \in SUBSET Message
  /\ delivers \in BOOLEAN /\ handedUp \in Nat /\ dropped \in BOOLEAN

Init ==
  /\ router \in Routers /\ factor \in Factors
  /\ holders = {Source} /\ custodyList = {}
  /\ air = {}
  /\ delivers = FALSE /\ handedUp = 0 /\ dropped = FALSE

Sent(n, p, what) == [from |-> n, to |-> p, what |-> what, arrived |-> FALSE]

-----------------------------------------------------------------------------
(* Passing the bundle on *)

CopyTo(n, p) ==
  /\ router = "trend"
  /\ air' = air \cup {Sent(n, p, "copy")}
  /\ UNCHANGED custodyList

(* InsertCustodyHistorical *)
HandOver(n, p) ==
  /\ air' = air \cup {Sent(n, p, "custody")}
  /\ custodyList' = custodyList \cup {n}

SendBundle(n, p) ==
  /\ n \in holders /\ p # n
  /\ Cardinality(air) < TransferBound
  /\ CopyTo(n, p) \/ HandOver(n, p)
  /\ UNCHANGED <<router, factor, holders, delivers, handedUp, dropped>>

-----------------------------------------------------------------------------
(* BundleReceivedFromConvergenceLayer, which the acknowledgement does not  *)
(* wait for                                                                *)

(* The factor that marks an answer *)
AnswerFactor == 20

(* Mutant: a node takes the bundle back that it handed over. *)
IgnoresNothing(p) == FALSE

(* Bundles whose custody was ever handed over are ignored. *)
Ignores(p) == p \in custodyList

(* Mutant: the destination does not remember that it got it. *)
NeverDelivered(p) == FALSE

(* isBundleDelivery *)
IsDelivered(p) == p = Dest /\ delivers

(* What m has come to.  The answer goes out if there is a link back.       *)
Arrived(m) == (air \ {m}) \cup {[m EXCEPT !.arrived = TRUE]}

Answered(m, what) ==
  air' \in {Arrived(m), Arrived(m) \cup {Sent(m.to, m.from, what)}}

(* The answer to one that asks for custody, and none to a copy. *)
AnsweredIfAsked(m, what) ==
  IF m.what = "custody" THEN Answered(m, what) ELSE air' = Arrived(m)

(* It was delivered here before. *)
AnswerDelivered(m) ==
  /\ IsDelivered(m.to)
  /\ AnsweredIfAsked(m, "yes")
  /\ UNCHANGED <<holders, delivers, handedUp>>

(* It is held already: RTTrendOfDelivery answers. *)
AnswerHeld(m) ==
  /\ ~IsDelivered(m.to) /\ ~Ignores(m.to) /\ m.to \in holders
  /\ IF router = "trend" THEN AnsweredIfAsked(m, "yes") ELSE air' = Arrived(m)
  /\ UNCHANGED <<holders, delivers, handedUp>>

(* There is no room, and GenerateCustodySignal says no.  The destination   *)
(* has noted the bundle as delivered by then; it has room for any copy.    *)
Refuse(m) ==
  /\ ~IsDelivered(m.to) /\ ~Ignores(m.to) /\ m.to \notin holders
  /\ m.what = "copy" => m.to # Dest
  /\ AnsweredIfAsked(m, "no")
  /\ delivers' = (delivers \/ m.to = Dest)
  /\ UNCHANGED <<holders, handedUp>>

(* The node takes it: the destination hands it up.                         *)
Take(m) ==
  /\ ~IsDelivered(m.to) /\ ~Ignores(m.to) /\ m.to \notin holders
  /\ AnsweredIfAsked(m, "yes")
  /\ IF m.to = Dest
     THEN delivers' = TRUE /\ handedUp' = handedUp + 1 /\ UNCHANGED holders
     ELSE holders' = holders \cup {m.to} /\ UNCHANGED <<delivers, handedUp>>

Ignore(m) ==
  /\ ~IsDelivered(m.to) /\ Ignores(m.to)
  /\ air' = Arrived(m)
  /\ UNCHANGED <<holders, delivers, handedUp>>

(* The bundle is taken for an answer that says no, to a blank identifier.  *)
TakenForAnswer(m) ==
  /\ factor = AnswerFactor
  /\ air' = Arrived(m)
  /\ UNCHANGED <<holders, delivers, handedUp>>

Receive(m) ==
  /\ m.what \in {"copy", "custody"} /\ (~m.arrived \/ Again)
  /\ \/ TakenForAnswer(m)
     \/ /\ factor # AnswerFactor
        /\ AnswerDelivered(m) \/ AnswerHeld(m) \/ Refuse(m) \/ Take(m) \/ Ignore(m)
  /\ UNCHANGED <<router, factor, custodyList, dropped>>

(* The bundle is gone from n.  What n has under way may yet arrive, or be  *)
(* cancelled, as any message may fail.                                     *)
Deleted(n) == holders' = holders \ {n}

(* An answer: the bundle is deleted if custody was taken.                  *)
ReceiveAnswer(m) ==
  /\ m.what \in {"yes", "no"} /\ (~m.arrived \/ Again)
  /\ air' = Arrived(m)
  /\ IF m.what = "yes" THEN Deleted(m.to) ELSE UNCHANGED holders
  /\ UNCHANGED <<router, factor, custodyList, delivers, handedUp, dropped>>

(* The acknowledgement arrives, of a bundle or an answer.  If it is the    *)
(* destination's, the sender has nothing more to do with the bundle.       *)
BundleSent(m) ==
  /\ m.arrived
  /\ air' = air \ {m}
  /\ IF m.to = Dest THEN Deleted(m.from) ELSE UNCHANGED holders
  /\ UNCHANGED <<router, factor, custodyList, delivers, handedUp, dropped>>

(* The agent gives up, or the message is cancelled. *)
BundleTransmissionFailed(m) ==
  /\ air' = air \ {m}
  /\ UNCHANGED <<router, factor, holders, custodyList, delivers, handedUp, dropped>>

(* The bundle goes for lack of room, or because it expired. *)
DeleteBundle(n) ==
  /\ n \in holders
  /\ Deleted(n)
  /\ dropped' = TRUE
  /\ UNCHANGED <<router, factor, custodyList, air, delivers, handedUp>>

Next ==
  \/ \E n, p \in Node : SendBundle(n, p)
  \/ \E m \in air : \/ Receive(m) \/ ReceiveAnswer(m) \/ BundleSent(m)
                    \/ BundleTransmissionFailed(m)
  \/ \E n \in Node : DeleteBundle(n)

Spec == Init /\ [][Next]_vars

-----------------------------------------------------------------------------

(* The exchange of custody never loses the bundle, however late an answer  *)
(* comes and by whatever way the bundle has gone round meanwhile: as long  *)
(* as no node has dropped it and the destination has not noted it as       *)
(* delivered, somebody holds it.  What sees to it is that nobody takes a   *)
(* bundle back whose custody it once asked another to take.  The one       *)
(* exception is a bundle that has the number of an answer, as all have in  *)
(* a network of 190 to 199 nodes: its destination ignores it, and the      *)
(* acknowledgement deletes it all the same.                                *)
NeverLost ==
  factor = AnswerFactor \/ dropped \/ delivers \/ holders # {}

(* The application gets the bundle once, by however many ways it comes.    *)
HandedUpOnce == handedUp <= 1

=============================================================================
