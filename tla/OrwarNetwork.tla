---------------------------- MODULE OrwarNetwork ----------------------------
(***************************************************************************)
(* Two nodes that run OrwarRouterChangedOrder, and one bundle.  When a     *)
(* node discovers the other it opens the link and starts to set up the     *)
(* contact: the two exchange their contact window information (CWI), from  *)
(* which each estimates how long they will hear each other, and then their *)
(* known delivered messages (KDM).  Bundles are passed on when that is     *)
(* done.  OrwarLinkManager closes the link if the set-up takes too long,   *)
(* and when the window is over.                                            *)
(*                                                                         *)
(*   initiator  S_CREATED - cwi* -> S_WAITING_FOR_CWI <- cwi -             *)
(*              S_RECEIVED_CWI - kdm* -> S_WAITING_FOR_KDM <- kdm - READY  *)
(*   other      <- cwi* - R_RECEIVED_CWI - cwi -> R_WAITING_FOR_KDM        *)
(*              <- kdm* - R_RECEIVED_KDM - kdm -> READY                    *)
(*                                                                         *)
(* The state of a node is a record, and a handler of the code an operator  *)
(* on it.  What a handler schedules for now runs within its step.          *)
(*                                                                         *)
(* A message that was sent may arrive more than once, out of order, after  *)
(* it was called off and after the link was closed, and so may the         *)
(* acknowledgement of it.  One of a message that is gone resets            *)
(* m_isSending while another is sent, so that does not keep the router     *)
(* from sending more: it may look for something to send at any time.       *)
(***************************************************************************)
EXTENDS Naturals, FiniteSets, SequencesExt

CONSTANTS
  Node,              \* the two nodes
  Dests,             \* where the bundle may be for: a node, or elsewhere
  Sources,           \* bound: the nodes with an application and a third node near
  MaxRetries,        \* m_maxRetries
  Brought,           \* bound: the replication factors that a bundle for each may
                     \* have where it is made, or given by a third node
  KdmTime,           \* how much of the window a KDM takes
  BundleTime,        \* how much of it the bundle takes
  WindowBound,       \* bound: the longest window of nodes that move
  ListBound,         \* bound: the length of m_routerSpecificList
  AirBound,          \* bound: what a node has under way
  Failing            \* bound: the nodes whose agent gives up, for each destination

ASSUME OrwarAssumption ==
  /\ \E x, y \in Node : x # y /\ Node = {x, y}
  /\ {MaxRetries, KdmTime, BundleTime, WindowBound, ListBound, AirBound} \subseteq Nat
  /\ Brought \in [Dests -> SUBSET Nat]
  /\ Failing \in [Dests -> SUBSET Node]

VARIABLES
  dest,      \* the node the bundle is for
  arrival,   \* what became of the bundle at the agent of that node
  node       \* the state of each node

vars == <<dest, arrival, node>>

Peer(n) == CHOOSE p \in Node : p # n

(* The window of two nodes that do not move from each other: m_cwMax.      *)
CwMax == WindowBound + 1

(* OrwarContactState *)
SettingUp == {"S_CREATED", "S_WAITING_FOR_CWI", "S_RECEIVED_CWI", "S_WAITING_FOR_KDM",
              "R_RECEIVED_CWI", "R_WAITING_FOR_KDM", "R_RECEIVED_KDM"}

(* The bundle has not come to the node it is for; it was taken for an      *)
(* answer or refused there; it was noted as delivered with no program to   *)
(* hand it up to; or it was handed up.                                     *)
Arrival == {"none", "ignored", "unclaimed", "handedUp"}

(* A message: a CWI, a KDM, that has the bundle or not, or the bundle. *)
Message == [what : {"cwi", "kdm", "data"}, initiator : BOOLEAN,
            known : BOOLEAN, copies : Nat]

(* A message of the router that is listed, one that was sent since, and    *)
(* one that arrived, so that its acknowledgement may come.                 *)
Item == [message : Message, stage : {"listed", "sent", "arrived"}]

(* What was sent; live while the agent waits to hear of it.                *)
Transmission == [message : Message, live : BOOLEAN]

NodeState == [
  link : {"unknown", "unavailable", "connected", "paused"},
  contact : SettingUp \cup {"UNKOWN_STATE", "READY"},
  window : 0..CwMax,    \* m_contactWindowTime
  armed : BOOLEAN,      \* the timer of the link runs
  retries : 0..MaxRetries,
  list : Seq(Item),     \* m_routerSpecificList
  air : SUBSET Transmission, \* what may arrive
  taken : BOOLEAN,      \* the bundle arrived: an acknowledgement may come
  holds : BOOLEAN,      \* the bundle is in m_bundleList
  factor : Nat,         \* its replication factor
  received : BOOLEAN,   \* it was received from the peer
  log : BOOLEAN,        \* m_forwardLog: the peer acknowledged it
  kdm : BOOLEAN]        \* m_kdm: it is known to be delivered

TypeOK == dest \in Dests /\ arrival \in Arrival /\ node \in [Node -> NodeState]

(* The constructors, of OrwarContact among them. *)
Fresh == [
  link |-> "unknown", contact |-> "UNKOWN_STATE", window |-> 0, armed |-> FALSE,
  retries |-> 0, list |-> <<>>, air |-> {}, taken |-> FALSE,
  holds |-> FALSE, factor |-> 0, received |-> FALSE, log |-> FALSE,
  kdm |-> FALSE]

Init ==
  /\ dest \in Dests
  /\ arrival = "none"
  /\ node = [n \in Node |-> Fresh]

Open(s) == s.link \in {"connected", "paused"}

-----------------------------------------------------------------------------
(* Messages of the router *)

GenerateCwi(initiator) ==
  [what |-> "cwi", initiator |-> initiator, known |-> FALSE, copies |-> 0]

GenerateKdm(s, initiator) ==
  [what |-> "kdm", initiator |-> initiator, known |-> s.kdm, copies |-> 0]

IsRouterSpecific(m) == m.what \in {"cwi", "kdm"}

(* Each message has an identifier of its own, so one goes, not its equals. *)
AddRouterSpecificBundle(s, m) ==
  [s EXCEPT !.list = Append(@, [message |-> m, stage |-> "listed"])]

RemoveRouterSpecificBundle(s, i) == [s EXCEPT !.list = RemoveAt(@, i)]

SendCwi(s, initiator) == AddRouterSpecificBundle(s, GenerateCwi(initiator))

SendKdm(s, initiator) == AddRouterSpecificBundle(s, GenerateKdm(s, initiator))

-----------------------------------------------------------------------------
(* The link and its contact *)

(* OrwarLink::Open *)
OpenLink(s) ==
  [s EXCEPT !.link = "connected", !.contact = "UNKOWN_STATE", !.window = 0,
            !.retries = 0]

(* RemoveRouterSpecificBundles: all are for the one peer. *)
RemoveRouterSpecificBundles(s) == [s EXCEPT !.list = <<>>]

(* The agent waits no more for messages of some kinds, or for m. *)
CancelTransmissions(s, kinds) ==
  [s EXCEPT !.air = {[t EXCEPT !.live = @ /\ t.message.what \notin kinds] : t \in @}]

Settle(s, m) ==
  [s EXCEPT !.air = {[t EXCEPT !.live = @ /\ t.message # m] : t \in @}]

(* What is queued for the contact is cancelled. *)
CancelQueued(s) == CancelTransmissions(s, {"cwi", "kdm", "data"})

DoLinkClosed(s) == RemoveRouterSpecificBundles(CancelQueued(s))

(* CloseLink: the timer stops, the router is told, the contact goes. *)
CloseLink(s) ==
  [DoLinkClosed(s) EXCEPT !.link = "unavailable", !.contact = "UNKOWN_STATE",
                          !.window = 0, !.armed = FALSE, !.retries = 0]

(* A failure pauses a link that is connected, and the last one closes it. *)
PauseLink(s) ==
  CASE s.link # "connected" -> s
    [] s.link = "connected" /\ s.retries >= MaxRetries -> CloseLink(s)
    [] OTHER -> [CancelQueued(s) EXCEPT !.link = "paused", !.retries = @ + 1]

(* HaveCw *)
HaveCw(s) == Open(s) /\ s.contact \notin {"UNKOWN_STATE", "S_CREATED", "S_WAITING_FOR_CWI"}

(* The node that begins sets the timer of the set-up. *)
ContactSetup(s, sender) == [s EXCEPT !.armed = @ \/ sender]

(* Mutant: the timer of the set-up is stopped, and none is set. *)
FinishedSetupOnly(s) == [s EXCEPT !.armed = FALSE]

(* The timer of the set-up gives way to that of the window. *)
FinishedSetup(s) == [s EXCEPT !.armed = TRUE]

(* A window w comes out of the positions and velocities; once m_cwMax is   *)
(* set it stays.                                                           *)
CalculateContactWindow(s, w) ==
  FinishedSetup([s EXCEPT !.window = IF @ = CwMax THEN @ ELSE w])

-----------------------------------------------------------------------------
(* Bundles known to be delivered *)

(* The bundle goes, and what the agent has of it is called off. *)
DeleteBundle(s) ==
  [CancelTransmissions(s, {"data"})
     EXCEPT !.holds = FALSE, !.factor = 0, !.received = FALSE]

RemoveDeliveredBundles(s, known) ==
  IF known /\ s.holds THEN [DeleteBundle(s) EXCEPT !.log = FALSE] ELSE s

(* m_kdm takes the bundle in. *)
DoBundleDelivered(s, fromAck) ==
  LET t == [s EXCEPT !.kdm = TRUE]
  IN  IF fromAck THEN RemoveDeliveredBundles(t, TRUE) ELSE t

-----------------------------------------------------------------------------
(* What comes in *)

(* A first message of the peer opens the link, with no timer set. *)
HeardCwi(s) ==
  IF Open(s) THEN s
  ELSE [OpenLink(ContactSetup(s, FALSE)) EXCEPT !.contact = "R_RECEIVED_CWI"]

(* HandleCwi.  One that is not expected is out of synch. *)
HandleCwi(s, initiator, w) ==
  LET t == HeardCwi(s)
  IN  CASE /\ t.link = "connected"
           /\ t.contact = "S_WAITING_FOR_CWI" /\ ~initiator ->
             [SendKdm(CalculateContactWindow(t, w), TRUE)
                EXCEPT !.contact = "S_RECEIVED_CWI"]
        [] /\ t.link = "connected"
           /\ t.contact = "R_RECEIVED_CWI" /\ initiator ->
             SendCwi(CalculateContactWindow(t, w), FALSE)
        [] OTHER -> t

(* RemoveDeliveredBundles, and the merge into m_kdm. *)
Learn(s, known) == [RemoveDeliveredBundles(s, known) EXCEPT !.kdm = @ \/ known]

(* HandleKdm.  Nothing is learned over a link that is not connected. *)
HandleKdm(s, initiator, known) ==
  LET t == Learn(s, known)
  IN  CASE s.link # "connected" -> s
        [] /\ s.link = "connected"
           /\ s.contact = "S_WAITING_FOR_KDM" /\ ~initiator ->
             [t EXCEPT !.contact = "READY"]
        [] /\ s.link = "connected"
           /\ s.contact = "R_WAITING_FOR_KDM" /\ initiator ->
             [SendKdm(t, FALSE) EXCEPT !.contact = "R_RECEIVED_KDM"]
        [] OTHER -> t

(* The bundle is put in the buffer, with k copies to make. *)
DoInsert(s, k, received) ==
  [s EXCEPT !.holds = TRUE, !.factor = k, !.received = received]

(* The number that marks an answer of the custody exchange. *)
CustodyResponse == 20

Outcome(s, a) == [state |-> s, arrival |-> a]

(* m_bundlesDelivers of the node it is for *)
IsBundleDelivery == arrival \in {"unclaimed", "handedUp"}

(* The bundle comes in at the node it is for, which has not noted it yet:  *)
(* it is too big for the buffer; a program has registered and it is handed *)
(* up; or none has, and it is put in the buffer if there is room.          *)
AtDestination(s, k, received) ==
  {Outcome(s, "ignored"), Outcome(DoBundleDelivered(s, FALSE), "handedUp"),
   Outcome(DoInsert(s, k, received), "unclaimed"), Outcome(s, "unclaimed")}

(* BundleReceivedFromConvergenceLayer, which the acknowledgement does not  *)
(* wait for.  A bundle of as many copies as mark an answer is none.  One   *)
(* held already has the peer noted; another is taken, or there is no room. *)
HandleBundle(n, s, k, received) ==
  CASE k = CustodyResponse ->
         {Outcome(s, IF dest = n /\ arrival = "none" THEN "ignored" ELSE arrival)}
    [] k # CustodyResponse /\ dest = n ->
         IF IsBundleDelivery THEN {Outcome(s, arrival)} ELSE AtDestination(s, k, received)
    [] OTHER ->
         IF s.holds THEN {Outcome([s EXCEPT !.received = @ \/ received], arrival)}
         ELSE {Outcome(DoInsert(s, k, received), arrival), Outcome(s, arrival)}

-----------------------------------------------------------------------------
(* What was sent *)

SentCwi(s) ==
  CASE s.link = "connected" /\ s.contact = "S_CREATED" ->
         [s EXCEPT !.contact = "S_WAITING_FOR_CWI"]
    [] s.link = "connected" /\ s.contact = "R_RECEIVED_CWI" ->
         [s EXCEPT !.contact = "R_WAITING_FOR_KDM"]
    [] OTHER -> s

SentKdm(s) ==
  CASE s.link = "connected" /\ s.contact = "S_RECEIVED_CWI" ->
         [s EXCEPT !.contact = "S_WAITING_FOR_KDM"]
    [] s.link = "connected" /\ s.contact = "R_RECEIVED_KDM" ->
         [s EXCEPT !.contact = "READY"]
    [] OTHER -> s

SentRouterSpecific(s, i) ==
  LET t == RemoveRouterSpecificBundle(s, i)
  IN  IF s.list[i].message.what = "cwi" THEN SentCwi(t) ELSE SentKdm(t)

(* Mutant: every acknowledgement counts for one of the destination. *)
SentBundleFinal(s, final) ==
  DoBundleDelivered([s EXCEPT !.log = @ \/ s.holds], TRUE)

(* The bundle has been sent: it is noted as delivered if the peer was its  *)
(* destination, and else half of the copies are left to make.              *)
SentBundle(s, final) ==
  CASE final -> DoBundleDelivered([s EXCEPT !.log = @ \/ s.holds], TRUE)
    [] ~final /\ s.holds -> [s EXCEPT !.log = TRUE, !.factor = @ \div 2]
    [] OTHER -> s

-----------------------------------------------------------------------------
(* What to send *)

(* A KDM waits until it fits in the window. *)
RouterSpecificToSend(s) ==
  {i \in DOMAIN s.list : s.list[i].message.what = "kdm" => KdmTime <= s.window}

(* The first of them. *)
NextRouterSpecific(s, i) ==
  /\ i \in RouterSpecificToSend(s)
  /\ \A j \in RouterSpecificToSend(s) : i <= j

(* What both searches ask of the bundle. *)
Forwardable(s) ==
  /\ s.link = "connected" /\ s.contact = "READY"
  /\ s.holds /\ BundleTime <= s.window /\ ~s.received /\ ~s.log

(* GetAllBundlesForLink: for the peer itself. *)
Deliverable(n, s) == Forwardable(s) /\ dest = Peer(n)

(* GetAllBundlesToAllLinks: there are copies to make. *)
Replicable(s) == Forwardable(s) /\ s.factor > 1

(* The copy takes the larger half of the replication factor. *)
DoSendBundle(s) ==
  [what |-> "data", initiator |-> FALSE, known |-> FALSE,
   copies |-> IF s.factor > 1 THEN (s.factor + 1) \div 2 ELSE s.factor]

SendBundle(s, m) ==
  [s EXCEPT !.air = @ \cup {[message |-> m, live |-> TRUE]}]

SendRouterSpecific(s, i) ==
  LET t == SendBundle(s, s.list[i].message)
  IN  [t EXCEPT !.list[i].stage = IF @ = "listed" THEN "sent" ELSE @]

(* FindNextToSend: the messages of the router go first. *)
TryToStartSending(n) ==
  LET s == node[n] IN
  /\ Cardinality(s.air) < AirBound
  /\ \/ \E i \in DOMAIN s.list :
           /\ NextRouterSpecific(s, i)
           /\ node' = [node EXCEPT ![n] = SendRouterSpecific(s, i)]
     \/ /\ RouterSpecificToSend(s) = {}
        /\ Deliverable(n, s) \/ Replicable(s)
        /\ node' = [node EXCEPT ![n] = SendBundle(s, DoSendBundle(s))]
  /\ UNCHANGED <<dest, arrival>>

-----------------------------------------------------------------------------
(* The steps of the transfers *)

(* A message m arrives: it is of the bundle, of a message that is listed,  *)
(* or of one that is gone.                                                 *)
Arrived(s, m) ==
  IF IsRouterSpecific(m)
  THEN {s} \cup
       {[s EXCEPT !.list[i].stage = "arrived"] :
          i \in {j \in DOMAIN s.list : s.list[j].message = m /\ s.list[j].stage # "listed"}}
  ELSE {[s EXCEPT !.taken = TRUE]}

(* What comes in at p; a window w is estimated. *)
Receive(p, s, m, w) ==
  CASE m.what = "cwi" -> {Outcome(HandleCwi(s, m.initiator, w), arrival)}
    [] m.what = "kdm" -> {Outcome(HandleKdm(s, m.initiator, m.known), arrival)}
    [] m.what = "data" -> HandleBundle(p, s, m.copies, TRUE)

ReceiveFrom(n) ==
  LET p == Peer(n) IN
  \E t \in node[n].air :
    \E r \in UNION {Receive(p, node[p], t.message, w) : w \in 0..CwMax} :
      /\ Len(r.state.list) <= ListBound
      /\ \E s \in Arrived(node[n], t.message) :
           node' = [node EXCEPT ![n] = s, ![p] = r.state]
      /\ arrival' = r.arrival
      /\ UNCHANGED dest

(* The link is heard of. *)
ResetRetransmissions(s) == IF Open(s) THEN [s EXCEPT !.retries = 0] ELSE s

(* The acknowledgement of a message of the router that is listed. *)
RouterSpecificSent(n) ==
  \E i \in DOMAIN node[n].list :
    /\ node[n].list[i].stage = "arrived"
    /\ node' = [node EXCEPT ![n] =
                   SentRouterSpecific(
                     ResetRetransmissions(Settle(@, @.list[i].message)), i)]
    /\ UNCHANGED <<dest, arrival>>

(* That of the bundle, which may be repeated, and come after it is gone. *)
BundleSent(n) ==
  LET s == node[n]
      t == CancelTransmissions(s, {"data"})
  IN  /\ s.taken
      /\ \E again \in BOOLEAN :
           node' = [node EXCEPT ![n] =
                      [SentBundle(IF s.holds THEN ResetRetransmissions(t) ELSE t,
                                  dest = Peer(n)) EXCEPT !.taken = again]]
      /\ UNCHANGED <<dest, arrival>>

(* The agent gives one up. *)
BundleTransmissionFailed(n) ==
  \E t \in node[n].air :
    /\ n \in Failing[dest] /\ t.live
    /\ node' = [node EXCEPT ![n] = PauseLink(Settle(@, t.message))]
    /\ UNCHANGED <<dest, arrival>>

(* In the end it does not arrive any more. *)
Vanish(n) ==
  \E t \in node[n].air :
    /\ ~t.live
    /\ node' = [node EXCEPT ![n].air = @ \ {t}]
    /\ UNCHANGED <<dest, arrival>>

-----------------------------------------------------------------------------
(* Links come and go *)

(* The link is opened, and the CWI is to be sent. *)
DoLinkDiscovered(s) ==
  SendCwi([OpenLink(s) EXCEPT !.contact = "S_CREATED"], TRUE)

(* A hello of the peer.  The link is new or lost, and its timer is set. *)
DiscoveredLink(n) ==
  /\ ~Open(node[n])
  /\ node' = [node EXCEPT ![n] = DoLinkDiscovered(ContactSetup(@, TRUE))]
  /\ UNCHANGED <<dest, arrival>>

UnPauseLink(n) ==
  /\ node[n].link = "paused"
  /\ node' = [node EXCEPT ![n].link = "connected"]
  /\ UNCHANGED <<dest, arrival>>

(* A window without end stays. *)
DecreaseContactWindowDuration(s) ==
  IF s.window \in 1..WindowBound THEN [s EXCEPT !.window = @ - 1] ELSE s

(* The windows get shorter as time goes by. *)
RecalculateContactWindows(n) ==
  /\ HaveCw(node[n])
  /\ node' = [node EXCEPT ![n] = DecreaseContactWindowDuration(@)]
  /\ UNCHANGED <<dest, arrival>>

(* The timer: the set-up or the window is over, or the peer has not been   *)
(* heard in a window without end.                                          *)
CheckIfExpired(n) ==
  /\ node[n].armed
  /\ ~HaveCw(node[n]) \/ node[n].window \in {0, CwMax}
  /\ node' = [node EXCEPT ![n] = CloseLink(@)]
  /\ UNCHANGED <<dest, arrival>>

-----------------------------------------------------------------------------
(* What goes on elsewhere *)

(* BundleReceivedFromApplication: a bundle for another node is made here,  *)
(* of however many copies.                                                 *)
Made(n, k) ==
  IF dest = n \/ node[n].holds THEN {}
  ELSE {Outcome(DoInsert(node[n], k, FALSE), arrival)}

(* The application hands the bundle over, or a third node passes it on.    *)
TakeBundle(n) ==
  /\ n \in Sources
  /\ \E k \in Brought[dest] : \E r \in Made(n, k) \cup HandleBundle(n, node[n], k, FALSE) :
       /\ node' = [node EXCEPT ![n] = r.state]
       /\ arrival' = r.arrival
  /\ UNCHANGED dest

(* The agent of the node that the bundle is for has had it. *)
HasArrived == arrival # "none"

(* It has it from a third node.  What it does with it is all the same to   *)
(* the two, which hear of the acknowledgement alone.                       *)
ArriveElsewhere ==
  /\ dest \notin Node /\ ~HasArrived
  /\ arrival' = "handedUp"
  /\ UNCHANGED <<dest, node>>

(* A third node knows that it is delivered, as it was acknowledged. *)
LearnElsewhere(n) ==
  /\ n \in Sources /\ ~node[n].kdm /\ HasArrived
  /\ node' = [node EXCEPT ![n] = Learn(@, TRUE)]
  /\ UNCHANGED <<dest, arrival>>

(* The bundle expires, or goes for lack of room. *)
DropBundle(n) ==
  /\ node[n].holds
  /\ node' = [node EXCEPT ![n] = DeleteBundle(@)]
  /\ UNCHANGED <<dest, arrival>>

-----------------------------------------------------------------------------

Next ==
  \/ \E n \in Node :
       \/ TryToStartSending(n) \/ ReceiveFrom(n)
       \/ RouterSpecificSent(n) \/ BundleSent(n)
       \/ BundleTransmissionFailed(n) \/ Vanish(n)
       \/ DiscoveredLink(n) \/ UnPauseLink(n)
       \/ RecalculateContactWindows(n) \/ CheckIfExpired(n)
       \/ TakeBundle(n) \/ LearnElsewhere(n) \/ DropBundle(n)
  \/ ArriveElsewhere

Spec == Init /\ [][Next]_vars

-----------------------------------------------------------------------------

(* A bundle is taken for delivered, and so deleted wherever it is held,    *)
(* only when the agent of the node it is for has had it: whatever the two  *)
(* tell each other, however late, and whatever is acknowledged.  It was    *)
(* handed up there, unless what came was taken for an answer or refused,   *)
(* or found no program: the acknowledgement is the same.                   *)
KnownHasArrived ==
  \A n \in Node : node[n].kdm => arrival \in {"handedUp", "ignored", "unclaimed"}

(* The timer of a link that is open runs, so that it is closed some time.  *)
(* The one exception is a link that an answer, or one more message, opened *)
(* after it was closed: it has no window and nothing to say, and waits for *)
(* the peer to begin anew.                                                 *)
OpenIsTimed ==
  \A n \in Node :
    LET s == node[n] IN
    Open(s) /\ ~s.armed => /\ s.contact = "R_RECEIVED_CWI"
                           /\ s.window = 0 /\ s.list = <<>>
=============================================================================
