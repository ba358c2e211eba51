------------------------- MODULE SprayAndWaitRouter -------------------------
(***************************************************************************)
(* RTSprayAndWait on top of RelayRouter.  A bundle carries a number of     *)
(* copies.  Whoever passes it on keeps half of them and gives the peer as  *)
(* many; with one copy left it is passed on to its destination only.  A    *)
(* table that all nodes share notes who was offered what, by whomever.     *)
(***************************************************************************)
EXTENDS RelayRouter

CONSTANT
  Brought      \* bound: the numbers of copies that a bundle may come in with

VARIABLES
  copies,      \* GetReplicationFactor of the bundles held
  ma           \* the table: the peers that were offered a bundle, by any node

sprayVars == <<copies, ma>>

vars == <<routerVars, relayVars, sprayVars>>

TypeOK ==
  /\ RelayTypeOK
  /\ copies \in [Bundle -> Nat]
  /\ ma \in SUBSET (Mac \X Bundle)

Init ==
  /\ RelayInit
  /\ copies = [g \in Bundle |-> 0]
  /\ ma = {}

(* The copies go with the bundles that are deleted. *)
Kept(c) == [g \in Bundle |-> IF g \in ToSet(bundleList') THEN c[g] ELSE 0]

-----------------------------------------------------------------------------
(* What to send *)

(* The positions in a list of the bundles to spray to p: those of which    *)
(* there are copies left, and which nobody has offered it.                 *)
Sprayable(p, list, log) ==
  {i \in DOMAIN list : <<p, list[i]>> \notin ma /\ ~HasEntry(log, list[i], p)
                       /\ copies[list[i]] > 1}

(* Those that are for p itself, and that this node has not offered it. *)
Direct(p, list) ==
  {i \in DOMAIN list : Destination[list[i]] = p /\ p \notin reclist[list[i]]}

AllBundlesForLink(p, list, log) == Direct(p, list) \cup Sprayable(p, list, log)

(* The first that is for p itself, else the first. *)
FindNextToSend(p, list, log) ==
  list[Min(IF Direct(p, list) = {} THEN Sprayable(p, list, log) ELSE Direct(p, list))]

Ready(list, log) ==
  {p \in Mac : state[p] = "connected" /\ AllBundlesForLink(p, list, log) # {}}

(* DoSendBundle: what the sender keeps, and the peer gets.  The half that  *)
(* is left over when the number is odd is nobody's.                        *)
Half(n) == n \div 2

(* The head of what can be sent is passed on, if anything can. *)
TryToStartSending ==
  /\ tries > 0
  /\ RemoveExpired
  /\ \/ /\ NotNow \/ (Ready(Fresh, FreshLog) = {} /\ LookAgain)
        /\ copies' = Kept(copies)
        /\ UNCHANGED ma
     \/ \E p \in Ready(Fresh, FreshLog) :
          LET g == FindNextToSend(p, Fresh, FreshLog)
          IN  /\ PassOn(p, g)
              /\ copies' = [Kept(copies) EXCEPT ![g] = Half(@)]
              /\ ma' = ma \cup {<<p, g>>}
  /\ UNCHANGED <<state, expired, over, kdm, delivers, offered>>

-----------------------------------------------------------------------------
(* The handlers, most of them as in RTEpidemic. *)

(* DoAcceptBundle, MakeRoomForBundle and DoInsert of a bundle with n copies. *)
InsertCopies(g, n) ==
  /\ \E size \in Comes[g] : BundleReceived(g, size)
  /\ copies' = Kept([copies EXCEPT ![g] = n])
  /\ UNCHANGED ma

DoBundleDelivered(g) == LocalBundleDelivery(g) /\ copies' = Kept(copies) /\ UNCHANGED ma

DoBundleSent == (Retired \/ PassedOn) /\ copies' = Kept(copies) /\ UNCHANGED ma

PauseLink == BundleTransmissionFailed /\ UNCHANGED <<relayVars, sprayVars>>

DoLinkClosed(p) == CloseLink(p) /\ UNCHANGED <<relayVars, sprayVars>>

DoUnPauseLink(p) == UnPauseLink(p) /\ UNCHANGED <<relayVars, sprayVars>>

DoLinkDiscovered(p) == DiscoveredLink(p) /\ UNCHANGED <<relayVars, sprayVars>>

DoWipe ==
  /\ DoSendHello
  /\ reclist' = Without(Bundle, reclist)
  /\ copies' = Kept(copies)
  /\ UNCHANGED <<forwardLog, kdm, delivers, offered, ma>>

(* Another node offers g to the peer, and notes it. *)
AddToList(p, g) ==
  /\ <<p, g>> \notin ma
  /\ ma' = ma \cup {<<p, g>>}
  /\ UNCHANGED <<routerVars, relayVars, copies>>

-----------------------------------------------------------------------------

Next ==
  \/ TryToStartSending
  \/ TakenOver /\ UNCHANGED sprayVars
  \/ Discard /\ UNCHANGED <<relayVars, sprayVars>>
  \/ DoBundleSent \/ PauseLink \/ DoWipe
  \/ \E p \in Mac : DoUnPauseLink(p) \/ DoLinkDiscovered(p) \/ DoLinkClosed(p)
  \/ \E g \in Bundle : DoBundleDelivered(g) \/ \E n \in Brought : InsertCopies(g, n)
  \/ \E g \in Bundle, p \in Mac : AddToList(p, g)
  \/ \E g \in Bundle : Expire(g) /\ UNCHANGED <<relayVars, sprayVars>>

Spec == Init /\ [][Next]_vars

-----------------------------------------------------------------------------

(* Nothing that can be sent is left lying: while the router is not sending *)
(* and has a bundle for a connected peer, a look at it is due.             *)
LookIsDue ==
  ~isSending /\ Ready(bundleList, forwardLog) # {} => tries > 0
=============================================================================
