---------------------------- MODULE TrendRouter ----------------------------
(***************************************************************************)
(* RTTrendOfDelivery on top of CustodyRouter.  A fuzzy inference over      *)
(* positions and speeds says how likely a node is to reach a destination;  *)
(* by it a bundle is kept, copied to a neighbour, or handed over with      *)
(* custody.  The router looks for work by a timer of its own.              *)
(*                                                                         *)
(* What the inference and the prediction of link life say depends on where *)
(* the nodes are at the time: here it may be anything.                     *)
(***************************************************************************)
EXTENDS CustodyRouter

VARIABLES
  ma,          \* the table that all nodes share: who was offered a bundle
  asks,        \* IsCustodyTransferRequested of the bundles held, as last left
  lasting      \* the neighbours of m_table that are in reach by the prediction

trendVars == <<ma, asks, lasting>>

vars == <<routerVars, relayVars, local, custodyVars, trendVars>>

TypeOK ==
  /\ CustodyTypeOK
  /\ ma \in SUBSET (Mac \X Bundle)
  /\ asks \in SUBSET Bundle
  /\ lasting \in SUBSET Mac

Init == CustodyInit /\ ma = {} /\ asks = {} /\ lasting = {}

(* The flags, once those given are set; they go with their bundle. *)
Asking(flags) == asks' = flags \cap ToSet(bundleList')

-----------------------------------------------------------------------------
(* What to send *)

(* The first bundle for p itself, unless it was copied to it.              *)
Direct(p, list) ==
  LET all == {i \in DOMAIN list : Destination[list[i]] = p /\ p \notin reclist[list[i]]}
  IN  {list[i] : i \in {j \in all : j = Min(all)}}

(* GetAllBundlesForLink: that one alone, else what p was not offered by    *)
(* anyone, has not acknowledged and is not being handed over.              *)
AllBundlesForLink(p, list, log) ==
  IF Direct(p, list) # {} THEN Direct(p, list)
  ELSE {g \in ToSet(list) : <<p, g>> \notin ma /\ ~HasEntry(log, g, p) /\ pending[g] = 0}

AllDeliverable(list, log) ==
  {e \in Mac \X ToSet(list) : state[e[1]] = "connected"
                              /\ e[2] \in AllBundlesForLink(e[1], list, log)}

IsDirect(e) == Destination[e[2]] = e[1]

(* GetBestLink, of entries none of which is direct: g may be the bundle    *)
(* whose neighbour is the likeliest to reach its destination.  tod is how  *)
(* likely each neighbour is to reach that of g: 0 stands for less than     *)
(* 0.333.                                                                  *)
IsChosen(g, entries, tod) ==
  LET same == {e \in entries : Destination[e[2]] = Destination[g]}
  IN  \E r \in same : r[2] = g /\ \A e \in same : tod[e[1]] <= tod[r[1]]

(* The best of the links that are listed, be it for another bundle.        *)
Best(entries, tod) ==
  LET listed == {e[1] : e \in entries} \cap lasting
  IN  {p \in listed : \A q \in listed : tod[q] <= tod[p]}

(* Mutant: it keeps the bundle and does not look again. *)
NoSecondLook == tries' = 0

(* Every way through TryToStartSending schedules the next look, at once or *)
(* in 0.1 or 0.3 seconds.                                                  *)
NextLook == tries' = tries

Nothing == NothingSent /\ Asking(asks) /\ UNCHANGED <<custodyVars, ma>>

(* The bundle is copied, and the peer noted before it has it. *)
CopyTo(p, g) ==
  /\ SendBundle(p, g)
  /\ Asking(asks \ {g})
  /\ ma' = ma \cup {<<p, g>>}
  /\ reclist' = [Without(Stale, reclist) EXCEPT ![g] = @ \cup {p}]
  /\ UNCHANGED custodyVars

(* The bundle is handed over. *)
ForwardTo(p, g) ==
  /\ SendBundle(p, g)
  /\ Asking(asks \cup {g})
  /\ TransferCustody(g)
  /\ reclist' = Without(Stale, reclist)
  /\ UNCHANGED ma

(* To its destination it goes with the flag as it was left. *)
SendDirect(p, g) == IF g \in asks THEN ForwardTo(p, g) ELSE CopyTo(p, g)

(* There are entries, and none is direct: own is how likely this node is   *)
(* to reach the destination of g.                                          *)
SendByTrend(entries) ==
  \E g \in Bundle, tod \in [{e[1] : e \in entries} -> 0..2], own \in 0..2 :
    /\ IsChosen(g, entries, tod)
    /\ LET keep(p) == own > tod[p] \/ tod[p] = 0
           best == Best(entries, tod)
       IN  \/ (best = {} \/ \E p \in best : keep(p)) /\ Nothing
           \/ \E p \in best : /\ ~keep(p)
                              /\ IF own > 0 THEN CopyTo(p, g) ELSE ForwardTo(p, g)

(* Once the agent of the hellos has stopped nothing is sent. *)
TryToStartSending ==
  /\ tries > 0
  /\ NextLook
  /\ RemoveExpired
  /\ LET entries == AllDeliverable(Fresh, FreshLog)
         direct == {e \in entries : IsDirect(e)}
     IN  \/ (~Idle \/ over \/ entries = {}) /\ Nothing
         \/ Idle /\ ~over /\ \E e \in direct : SendDirect(e[1], e[2])
         \/ Idle /\ ~over /\ direct = {} /\ SendByTrend(entries)
  /\ UNCHANGED <<state, expired, over, kdm, delivers, offered, lasting>>

-----------------------------------------------------------------------------
(* The handlers, most of them as in RTProphet without the look for work.   *)

DoBundleSent ==
  /\ Retired \/ PassedOn
  /\ Asking(asks)
  /\ UNCHANGED <<custodyVars, ma, lasting>>

PauseLink == BundleTransmissionFailed /\ UNCHANGED <<relayVars, custodyVars, trendVars>>

DoUnPauseLink(p) == UnPauseLink(p) /\ UNCHANGED <<relayVars, custodyVars, trendVars>>

DoLinkClosed(p) == CloseLink(p) /\ UNCHANGED <<relayVars, custodyVars, trendVars>>

DoLinkDiscovered(p) == DiscoveredLink(p) /\ UNCHANGED <<relayVars, custodyVars, trendVars>>

(* DoHandleHello and addNeigh compute anew how long the link lasts, in one *)
(* case leave it to an uninitialized variable; and the time passes.  So    *)
(* that a neighbour comes to be in reach, or no longer, at any time.       *)
AddNeigh(p) ==
  /\ lasting' = IF p \in lasting THEN lasting \ {p} ELSE lasting \cup {p}
  /\ UNCHANGED <<routerVars, relayVars, custodyVars, ma, asks>>

(* MakeRoomForBundle: one bundle goes if there is no room, the first or,   *)
(* when there is a connected link, the one that the inference says.        *)
RoomMade(size) ==
  IF HasRoom(FreshBytes, size) THEN {Fresh}
  ELSE {Left({Fresh[i]} \cup Stale) :
          i \in {j \in DOMAIN Fresh : j = 1 \/ \E p \in Mac : state[p] = "connected"}}

(* DoAcceptBundle and DoInsert of a copy, or of what the application hands *)
(* over.  With an empty list what MakeRoomForBundle deletes is undefined.  *)
InsertCopy(g, size) ==
  /\ \E rest \in RoomMade(size) : ReceivedWith(g, size, rest)
  /\ Asking(asks \ {g})
  /\ UNCHANGED <<custodyVars, ma, lasting>>

(* The destination of a copy, or of a bundle that p hands over.            *)
DoBundleDelivered(p, g) ==
  /\ (ComesIn(g) /\ LocalBundleDelivery(g) /\ UNCHANGED custodyVars) \/ DeliverWithCustody(p, g)
  /\ Asking(asks)
  /\ UNCHANGED <<ma, lasting>>

(* DoAcceptBundle of a bundle handed over by p that is held: the answer is *)
(* to delete it there.                                                     *)
HeldAlready(p, g) ==
  /\ ComesIn(g) /\ g \in Held
  /\ AnswerOnly(p, g)
  /\ UNCHANGED <<forwardLog, kdm, delivers, trendVars>>

DoAcceptBundle(p, g) ==
  /\ TakeCustody(p, g)
  /\ Asking(asks \cup {g})
  /\ UNCHANGED <<ma, lasting>>

DoWipe ==
  /\ DoSendHello
  /\ reclist' = Without(Bundle, reclist)
  /\ Asking(asks)
  /\ UNCHANGED <<forwardLog, kdm, delivers, offered, custodyVars, ma, lasting>>

(* Another node offers g to the peer, or the peer gets it, and notes it.   *)
AddToList(p, g) ==
  /\ <<p, g>> \notin ma
  /\ ma' = ma \cup {<<p, g>>}
  /\ UNCHANGED <<routerVars, relayVars, custodyVars, asks, lasting>>

-----------------------------------------------------------------------------

Next ==
  /\ \/ TryToStartSending \/ DoBundleSent \/ PauseLink \/ DoWipe
     \/ (TakenOver \/ (Discard /\ UNCHANGED relayVars)) /\ UNCHANGED <<custodyVars, trendVars>>
     \/ \E p \in Mac : \/ DoUnPauseLink(p) \/ DoLinkDiscovered(p) \/ DoLinkClosed(p)
                       \/ AddNeigh(p)
                       \/ \E g \in Bundle : \/ HeldAlready(p, g) \/ DoAcceptBundle(p, g)
                                            \/ DoBundleDelivered(p, g)
                                            \/ AddToList(p, g)
                                            \/ (AlreadyDelivered(p, g) /\ UNCHANGED trendVars)
     \/ \E g \in Bundle : \/ ComesIn(g) /\ \E size \in Comes[g] : InsertCopy(g, size)
                          \/ Expire(g) /\ UNCHANGED <<relayVars, custodyVars, trendVars>>
                          \/ BundleReceivedFromApplication(g) /\ InsertCopy(g, Size[g])
     \/ CustodyExchange /\ Asking(asks) /\ UNCHANGED <<ma, lasting>>
  /\ UNCHANGED local

Spec == Init /\ [][Next]_vars

-----------------------------------------------------------------------------

(* The timer never stops: whatever way TryToStartSending takes, one look   *)
(* is scheduled, and not two.                                              *)
LookIsDue == tries = 1
=============================================================================
