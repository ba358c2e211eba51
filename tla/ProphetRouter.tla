--------------------------- MODULE ProphetRouter ---------------------------
(***************************************************************************)
(* RTProphet on top of CustodyRouter.  A node learns from hellos how       *)
(* likely its neighbours are to meet whom, and hands each bundle over,     *)
(* with custody, to the neighbour that is most likely to meet its          *)
(* destination.                                                            *)
(*                                                                         *)
(* A probability is a number of parts of One, and 0 where the table has no *)
(* entry.  The code has floating point, where what is positive stays so:   *)
(* quotients are rounded up.                                               *)
(***************************************************************************)
EXTENDS CustodyRouter

CONSTANTS
  One,         \* the parts of a probability of 1
  Ages,        \* bound: what GAMA to the time since a row was changed comes to
  Hellos       \* bound: the lists of probabilities that a hello may bring

(* Whom a hello may name *)
Eid == Mac \cup {Destination[g] : g \in Bundle} \cup {Node}

VARIABLES
  prob,        \* m_prob_table: for each neighbour, how likely it is to meet whom
  receivedFrom \* m_receivedFrom of the bundles held: the peers they came from

prophetVars == <<prob, receivedFrom>>

vars == <<routerVars, relayVars, local, custodyVars, prophetVars>>

TypeOK ==
  /\ CustodyTypeOK
  /\ prob \in [Mac -> [Eid -> 0..One]]
  /\ receivedFrom \in [Bundle -> SUBSET Mac]

Init ==
  /\ CustodyInit
  /\ prob = [p \in Mac |-> [d \in Eid |-> 0]]
  /\ receivedFrom = [g \in Bundle |-> {}]

(* What is deleted takes its list with it. *)
Came(list) == [g \in Bundle |-> IF g \in ToSet(bundleList') THEN list[g] ELSE {}]

-----------------------------------------------------------------------------
(* The table *)

Quotient(a, b) == (a + b - 1) \div b

(* p is raised by a part of what it lacks to 1; PINIT and BETA are a half  *)
(* and a quarter.                                                          *)
Raised(p, part, whole) == p + Quotient((One - p) * part, whole)

(* updateDeliveryPredFor: the neighbour was met. *)
DeliveryPred(p) == [prob[p] EXCEPT ![p] = Raised(@, 1, 2)]

(* updateTransitivePreds: it says whom it meets, and how likely. *)
TransitivePreds(p, row, list) ==
  [d \in Eid |->
     IF d = Node \/ d \notin DOMAIN list THEN row[d]
     ELSE Raised(row[d], row[p] * list[d], 4 * One * One)]

(* The hello is handled; if it opens the link, LinkManager has that done.  *)
DoHandleHello(p, list) ==
  /\ prob' = [prob EXCEPT ![p] = TransitivePreds(p, DeliveryPred(p), list)]
  /\ UNCHANGED <<routerVars, relayVars, custodyVars, receivedFrom>>

(* ProbabilityExpirationTimer runs once a link was discovered, for good.   *)
ProbabilityReduce ==
  /\ \E p \in Mac : state[p] # "unknown"
  /\ \E age \in [Mac -> Ages] :
       prob' = [p \in Mac |-> [d \in Eid |-> Quotient(prob[p][d] * age[p], One)]]
  /\ UNCHANGED <<routerVars, relayVars, custodyVars, receivedFrom>>

-----------------------------------------------------------------------------
(* What to send *)

(* GetAllBundlesToAllLinks: the bundles that did not come from p, and that *)
(* it has not acknowledged.                                                *)
AllBundlesForLink(p, list, log) ==
  {i \in DOMAIN list : p \notin receivedFrom[list[i]] /\ ~HasEntry(log, list[i], p)}

Listed(list, log) ==
  {p \in Mac : state[p] = "connected" /\ AllBundlesForLink(p, list, log) # {}}

(* The bundle that comes first, when p is the first link. *)
Foremost(p, list, log) == list[Min(AllBundlesForLink(p, list, log))]

(* GetBestLink: its destination, or the neighbour that is most likely to   *)
(* meet it, if any is.  Every link is looked at that is listed, be it for  *)
(* another bundle.                                                         *)
GetBestLink(g, links) ==
  LET d == Destination[g]
  IN  IF d \in links THEN {d}
      ELSE {p \in links : prob[p][d] > 0 /\ \A q \in links : prob[q][d] <= prob[p][d]}

(* What may be sent; and whether it may be that nothing is, because the    *)
(* bundle that comes first has nowhere to go.                              *)
Sendable(list, log) ==
  LET links == Listed(list, log)
  IN  UNION {LET g == Foremost(f, list, log) IN GetBestLink(g, links) \X {g} : f \in links}

NoneSendable(list, log) ==
  LET links == Listed(list, log)
  IN  links = {} \/ \E f \in links : GetBestLink(Foremost(f, list, log), links) = {}

(* Passing a bundle on is handing it over. *)
DoSendBundle(p, g) == SendBundle(p, g) /\ TransferCustody(g)

TryToStartSending ==
  /\ tries > 0
  /\ RemoveExpired
  /\ reclist' = reclist
  /\ \/ (NotNow \/ (NoneSendable(Fresh, FreshLog) /\ LookAgain)) /\ UNCHANGED custodyVars
     \/ \E c \in Sendable(Fresh, FreshLog) :
          /\ DoSendBundle(c[1], c[2])
          /\ tries' \in Fewer(More(Cardinality(StaleHits)))
  /\ receivedFrom' = Came(receivedFrom)
  /\ UNCHANGED <<state, expired, over, kdm, delivers, offered, prob>>

-----------------------------------------------------------------------------
(* The handlers. *)

DoBundleSent ==
  /\ Retired \/ PassedOn
  /\ receivedFrom' = Came(receivedFrom)
  /\ UNCHANGED <<custodyVars, prob>>

PauseLink == BundleTransmissionFailed /\ UNCHANGED <<relayVars, custodyVars, prophetVars>>

DoUnPauseLink(p) == UnPauseLink(p) /\ UNCHANGED <<relayVars, custodyVars, prophetVars>>

DoLinkClosed(p) == CloseLink(p) /\ UNCHANGED <<relayVars, custodyVars, prophetVars>>

(* A hello of the peer came before. *)
DoLinkDiscovered(p) ==
  /\ prob[p][p] > 0
  /\ DiscoveredLink(p)
  /\ UNCHANGED <<relayVars, custodyVars, prophetVars>>

(* DoAcceptBundle of a bundle of p that is held: it came from p, too.      *)
HeldAlready(p, g) ==
  /\ ComesIn(g) /\ g \in Held
  /\ receivedFrom' = [receivedFrom EXCEPT ![g] = @ \cup {p}]
  /\ UNCHANGED <<routerVars, relayVars, custodyVars, prob>>

DoAcceptBundle(p, g) ==
  /\ TakeCustody(p, g)
  /\ receivedFrom' = Came([receivedFrom EXCEPT ![g] = {p}])
  /\ UNCHANGED prob

DoBundleDelivered(p, g) ==
  /\ DeliverWithCustody(p, g)
  /\ receivedFrom' = Came(receivedFrom)
  /\ UNCHANGED prob

DoWipe ==
  /\ DoSendHello
  /\ receivedFrom' = Came(receivedFrom)
  /\ UNCHANGED <<relayVars, custodyVars, prob>>

-----------------------------------------------------------------------------

Next ==
  /\ \/ TryToStartSending \/ DoBundleSent \/ PauseLink \/ DoWipe
     \/ ProbabilityReduce
     \/ (TakenOver \/ (Discard /\ UNCHANGED relayVars)) /\ UNCHANGED <<custodyVars, prophetVars>>
     \/ \E p \in Mac : \/ DoUnPauseLink(p) \/ DoLinkDiscovered(p) \/ DoLinkClosed(p)
                       \/ \E list \in Hellos : DoHandleHello(p, list)
                       \/ \E g \in Bundle : \/ HeldAlready(p, g) \/ DoAcceptBundle(p, g)
                                            \/ DoBundleDelivered(p, g)
                                            \/ (AlreadyDelivered(p, g) /\ UNCHANGED prophetVars)
     \/ \E g \in Bundle : Expire(g) /\ UNCHANGED <<relayVars, custodyVars, prophetVars>>
     \/ /\ \/ CustodyExchange
           \/ \E g \in Bundle : BundleReceivedFromApplication(g) /\ BundleReceived(g, Size[g])
        /\ receivedFrom' = Came(receivedFrom) /\ UNCHANGED prob
  /\ UNCHANGED local

Spec == Init /\ [][Next]_vars

-----------------------------------------------------------------------------

(* Nothing that can be sent is left lying: while the router is not sending *)
(* and has a bundle for a connected peer, a look at it is due.             *)
LookIsDue ==
  ~isSending /\ Sendable(bundleList, forwardLog) # {} => tries > 0
=============================================================================
