--------------------------- MODULE EpidemicRouter ---------------------------
(***************************************************************************)
(* RTEpidemic on top of RelayRouter.  A bundle held is offered once to     *)
(* every peer met, one bundle at a time, first to its destination.  What   *)
(* is known to have been delivered is deleted.                             *)
(***************************************************************************)
EXTENDS RelayRouter

vars == <<routerVars, relayVars>>

TypeOK == RelayTypeOK

Init == RelayInit

-----------------------------------------------------------------------------
(* What to send *)

(* The positions in a list of the bundles to offer to p. *)
AllBundlesForLink(p, list, log) ==
  {i \in DOMAIN list : /\ p \notin reclist[list[i]]
                       /\ Destination[list[i]] # p => ~HasEntry(log, list[i], p)}

(* The first that is for p itself, else the first. *)
FindNextToSend(p, list, log) ==
  LET all == AllBundlesForLink(p, list, log)
      direct == {i \in all : Destination[list[i]] = p}
  IN  list[Min(IF direct = {} THEN all ELSE direct)]

Ready(list, log) ==
  {p \in Mac : state[p] = "connected" /\ AllBundlesForLink(p, list, log) # {}}

(* The head of what can be sent is passed on, if anything can. *)
TryToStartSending ==
  /\ tries > 0
  /\ RemoveExpired
  /\ \/ NotNow
     \/ Ready(Fresh, FreshLog) = {} /\ LookAgain
     \/ \E p \in Ready(Fresh, FreshLog) : PassOn(p, FindNextToSend(p, Fresh, FreshLog))
  /\ UNCHANGED <<state, expired, over, kdm, delivers, offered>>

-----------------------------------------------------------------------------

(* What the router and the agent do by themselves. *)
Own ==
  \/ TryToStartSending
  \/ TakenOver \/ Retired
  \/ /\ Discard \/ BundleTransmissionFailed \/ \E p \in Mac : UnPauseLink(p)
     /\ UNCHANGED relayVars

(* What the application, the radio and the clock bring. *)
Environment ==
  \/ \E g \in Bundle : LocalBundleDelivery(g) \/ \E size \in Comes[g] : BundleReceived(g, size)
  \/ PassedOn
  \/ /\ \/ \E p \in Mac : DiscoveredLink(p) \/ CloseLink(p)
        \/ \E g \in Bundle : Expire(g)
     /\ UNCHANGED relayVars
  \/ /\ DoSendHello
     /\ reclist' = Without(Bundle, reclist)
     /\ UNCHANGED <<forwardLog, kdm, delivers, offered>>

Next == Own \/ Environment

Spec == Init /\ [][Next]_vars

(* The events scheduled are run; the agent, as AgentNeverStalls of its own *)
(* module has it, gets on with what it has; a pause ends.                  *)
Fairness ==
  /\ WF_vars(TryToStartSending)
  /\ WF_vars(TakenOver)
  /\ WF_vars(\/ Retired
             \/ (Discard \/ BundleTransmissionFailed) /\ UNCHANGED relayVars)
  /\ \A p \in Mac : WF_vars(UnPauseLink(p) /\ UNCHANGED relayVars)

FairSpec == Spec /\ Fairness

-----------------------------------------------------------------------------

(* Nothing that can be sent is left lying: while the router is not sending *)
(* and has a bundle for a connected peer, a look at it is due.  The        *)
(* handlers that end a transfer, or make one possible, each see to that.   *)
LookIsDue ==
  ~isSending /\ Ready(bundleList, forwardLog) # {} => tries > 0

(* Left to itself with the links it has, the router ends up having offered *)
(* every bundle it holds to every peer whose link stays open.              *)
AllIsOffered ==
  <>[][Own]_vars => <>[](Ready(bundleList, forwardLog) = {})

=============================================================================
