---------------------------- MODULE SprayNetwork ----------------------------
(***************************************************************************)
(* One bundle in a network of nodes that run RTSprayAndWait: what becomes  *)
(* of its copies.  Any two nodes may meet at any time.  A transfer may     *)
(* fail before or after the bundle arrived, and the agent may hand the     *)
(* same bundle up twice.  A node may lose its bundle at any time, when it  *)
(* makes room for another.                                                 *)
(*                                                                         *)
(* Programs register with the source and with the destination.  One that   *)
(* is registered at the source sends the bundle.                           *)
(*                                                                         *)
(* SprayAndWaitRouter has one node in detail.                              *)
(***************************************************************************)
EXTENDS Registrations, FiniteSetsExt

CONSTANTS
  Node,        \* the nodes
  Source,      \* the node whose application hands the bundle over
  Dest,        \* the destination
  Initial,     \* the copies that the bundle starts with
  Again,       \* bound: whether the agent hands a bundle up a second time
  TransferBound \* bound: the transfers under way at a time

(* Programs register the name of their own node: Register takes no other  *)
(* where the repository calls it.                                          *)
ASSUME SprayNetworkAssumption ==
  /\ Source \in Node /\ Dest \in Node \ {Source}
  /\ Initial \in Nat /\ Again \in BOOLEAN /\ TransferBound \in Nat
  /\ \A r \in Registration : Dest \in Name[r] => Home[r] = Dest

VARIABLES
  holders,     \* the nodes that hold the bundle
  copies,      \* GetReplicationFactor of what each holds
  reclist,     \* the peers each holder has offered its bundle
  forwardLog,  \* the peers that have acknowledged it to each node
  ma,          \* the table that all nodes share: who was offered the bundle
  air,         \* the transfers under way
  noted,       \* whether the destination has noted that it was delivered
  offers,      \* how often each node was offered the bundle by another
  extra        \* the copies that came in with a bundle handed up again

netVars == <<holders, copies, reclist, forwardLog, ma, air, noted, offers, extra>>

vars == <<netVars, regVars>>

Transfer == [from : Node, to : Node, copies : Nat, arrived : BOOLEAN]

TypeOK ==
  /\ RegTypeOK
  /\ holders \in SUBSET Node
  /\ copies \in [Node -> Nat]
  /\ reclist \in [Node -> SUBSET Node] /\ forwardLog \in [Node -> SUBSET Node]
  /\ ma \in SUBSET Node
  /\ air \in SUBSET Transfer
  /\ noted \in BOOLEAN /\ offers \in [Node -> Nat] /\ extra \in Nat

Init ==
  /\ RegInit
  /\ holders = {} /\ air = {} /\ ma = {}
  /\ copies = [n \in Node |-> 0]
  /\ reclist = [n \in Node |-> {}] /\ forwardLog = [n \in Node |-> {}]
  /\ noted = FALSE /\ offers = [n \in Node |-> 0] /\ extra = 0

-----------------------------------------------------------------------------

(* A program at the source sends the bundle, if it is registered.  The     *)
(* source is noted in the table.  Bound: once.                             *)
Send(r) ==
  /\ registered[r] /\ Home[r] = Source /\ Source \notin ma
  /\ holders' = {Source}
  /\ copies' = [copies EXCEPT ![Source] = Initial]
  /\ ma' = {Source}
  /\ UNCHANGED <<reclist, forwardLog, air, noted, offers, extra, regVars>>

(* Mutant: what a node remembers itself is all it asks. *)
OfferableByItself(n) ==
  {p \in Node \ {n} : \/ p = Dest /\ p \notin reclist[n]
                      \/ copies[n] > 1 /\ p \notin forwardLog[n]}

(* The peers that n has the bundle for. *)
Offerable(n) ==
  {p \in Node \ {n} : \/ p = Dest /\ p \notin reclist[n]
                      \/ copies[n] > 1 /\ p \notin ma /\ p \notin forwardLog[n]}

(* Mutant: the sender keeps its copies. *)
KeepAll(c) == c

(* What the sender keeps, and what the peer gets. *)
Half(c) == c \div 2

(* n passes the bundle on, one transfer at a time.  It halves the copies   *)
(* at once and notes the peer, whatever comes of it.                       *)
SendBundle(n, p) ==
  /\ n \in holders /\ p \in Offerable(n)
  /\ \A t \in air : t.from # n
  /\ Cardinality(air) < TransferBound
  /\ copies' = [copies EXCEPT ![n] = Half(@)]
  /\ reclist' = [reclist EXCEPT ![n] = @ \cup {p}]
  /\ ma' = ma \cup {p}
  /\ air' = air \cup {[from |-> n, to |-> p, copies |-> Half(copies[n]), arrived |-> FALSE]}
  /\ offers' = [offers EXCEPT ![p] = @ + 1]
  /\ UNCHANGED <<holders, forwardLog, noted, extra, regVars>>

(* A bundle with this many copies is taken for a response of the custody   *)
(* exchange, and goes no further.                                          *)
CustodyResponse == 20

(* Mutant: the destination does not note that it got it. *)
WantsAny(p, c) == p \notin holders /\ c # CustodyResponse

(* The node has neither got it for itself before nor holds it. *)
Wants(p, c) ==
  /\ p \notin holders /\ (p = Dest => ~noted)
  /\ c # CustodyResponse

(* n holds the bundle, with c copies.  The list of receivers is not part   *)
(* of what is sent.                                                        *)
Insert(n, c) ==
  /\ holders' = holders \cup {n}
  /\ copies' = [copies EXCEPT ![n] = c]
  /\ reclist' = [reclist EXCEPT ![n] = {}]

(* It is handed up where programs are registered with its destination's    *)
(* name, and held anywhere else: at the destination itself too, where      *)
(* nothing hands it up when a program registers later.                     *)
BundleDispatching(n, c) ==
  IF LookupLocal(n, Dest)
  THEN ForwardUp(n, Dest) /\ UNCHANGED <<holders, copies, reclist>>
  ELSE Insert(n, c) /\ UNCHANGED regVars

(* BundleReceivedFromConvergenceLayer: the bundle arrives, and if it is    *)
(* wanted the destination notes that it was delivered.                     *)
Receive(t) ==
  /\ ~t.arrived \/ (Again /\ extra = 0)
  /\ air' = (air \ {t}) \cup {[t EXCEPT !.arrived = TRUE]}
  /\ IF Wants(t.to, t.copies)
     THEN /\ BundleDispatching(t.to, t.copies)
          /\ extra' = IF t.arrived /\ t.to \in holders' THEN extra + t.copies ELSE extra
          /\ noted' = (noted \/ t.to = Dest)
          /\ ma' = ma \cup {t.to}
     ELSE UNCHANGED <<holders, copies, reclist, noted, ma, extra, regVars>>
  /\ UNCHANGED <<forwardLog, offers>>

(* The bundle is gone from n, with its copies and its list of receivers. *)
Deleted(n) ==
  /\ holders' = holders \ {n}
  /\ copies' = [copies EXCEPT ![n] = 0]
  /\ reclist' = [reclist EXCEPT ![n] = {}]

(* The acknowledgement arrives.  If it is the destination's the sender has *)
(* nothing more to do with the bundle.                                     *)
BundleSent(t) ==
  /\ t.arrived
  /\ air' = air \ {t}
  /\ IF t.to = Dest /\ t.from \in holders
     THEN /\ Deleted(t.from)
          /\ forwardLog' = [forwardLog EXCEPT ![t.from] = {}]
     ELSE /\ forwardLog' = [forwardLog EXCEPT ![t.from] =
                              @ \cup {p \in {t.to} : t.from \in holders}]
          /\ UNCHANGED <<holders, copies, reclist>>
  /\ UNCHANGED <<ma, noted, offers, extra, regVars>>

(* The agent gives up: nothing is made good. *)
BundleTransmissionFailed(t) ==
  /\ air' = air \ {t}
  /\ UNCHANGED <<holders, copies, reclist, forwardLog, ma, noted, offers, extra, regVars>>

(* The bundle goes for lack of room: the log still has it. *)
DeleteBundle(n) ==
  /\ n \in holders
  /\ Deleted(n)
  /\ UNCHANGED <<forwardLog, ma, air, noted, offers, extra, regVars>>

Next ==
  \/ RegNext /\ UNCHANGED netVars
  \/ \E r \in Registration : Send(r)
  \/ \E n, p \in Node : SendBundle(n, p)
  \/ \E t \in air : Receive(t) \/ BundleSent(t) \/ BundleTransmissionFailed(t)
  \/ \E n \in Node : DeleteBundle(n)

Spec == Init /\ [][Next]_vars

-----------------------------------------------------------------------------

CopiesUnderWay ==
  SumFunctionOnSet([t \in air |-> t.copies], {t \in air : ~t.arrived})

CopiesHeld == SumFunctionOnSet(copies, holders)

(* Halving before the transfer never makes copies: what all nodes hold and *)
(* what is under way is never more than the source started with, through   *)
(* failures and deletions at every point; but for a bundle that the agent  *)
(* hands up again after the node has lost the first, and as many copies as *)
(* that one brings.                                                        *)
CopiesBounded == CopiesHeld + CopiesUnderWay <= Initial + extra

(* No node is sprayed the bundle twice, whichever nodes have it: only the  *)
(* destination may be offered it more than once.                           *)
SprayedOnce == \A n \in Node \ {Dest} : offers[n] <= 1

(* No endpoint hands the bundle up twice, by however many ways it comes    *)
(* and in whatever order programs register, unregister and receive.        *)
HandedUpOnce == \A e \in DOMAIN handedUp : handedUp[e] <= 1

(* A registration that says it is registered points at an endpoint that    *)
(* its manager has, and one that is not points at none, through every      *)
(* order of registering, again too, and unregistering.                     *)
NoDanglingEndpoint ==
  \A r \in Registration :
    /\ registered[r] <=> regEndpoint[r] # None
    /\ registered[r] => \E e \in ToSet(endpoints) : IsOf(e, r)
=============================================================================
