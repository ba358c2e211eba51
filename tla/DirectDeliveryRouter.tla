------------------------ MODULE DirectDeliveryRouter ------------------------
(***************************************************************************)
(* DirectDeliveryRouter on top of BundleRouter.  A bundle is only ever     *)
(* sent to its destination, and kept until it expires or the buffer is     *)
(* full; then the newest go.  The node sends hellos only while it holds    *)
(* something, unless told otherwise.                                       *)
(*                                                                         *)
(* What a peer sends is for this node and never reaches the buffer, so all *)
(* bundles here come from the application, and have this node as custodian *)
(* when they do: the size counted is what they take.                       *)
(***************************************************************************)
EXTENDS BundleRouter, ForwardLog

CONSTANTS
  Destination,     \* the node each bundle is for: a peer, or another
  AlwaysSendHello  \* the attribute; FALSE by default

ASSUME DirectAssumption == AlwaysSendHello \in BOOLEAN

VARIABLES
  forwardLog,  \* m_forwardLog: who acknowledged which bundle
  offered,     \* the bundles the agent ever had, with the peer
  hello        \* m_started and m_helloTimer of the neighbourhood detection agent

directVars == <<forwardLog, offered, hello>>

vars == <<routerVars, directVars>>

TypeOK ==
  /\ RouterTypeOK
  /\ forwardLog \in SUBSET (Bundle \X Mac)
  /\ offered \in SUBSET (Mac \X Bundle)
  /\ hello \in [started : BOOLEAN, timer : {"off", "on"}]

-----------------------------------------------------------------------------
(* The hellos.  Each one schedules the next, which changes nothing here.   *)

(* A timer must not be scheduled while it runs: that ends the simulation.  *)
Scheduled(timer) == IF timer = "off" THEN "on" ELSE "scheduled twice"

Start(h) == IF h.started THEN h
            ELSE [started |-> TRUE, timer |-> Scheduled(h.timer)]

Stop(h) == IF h.started THEN [started |-> FALSE, timer |-> "off"] ELSE h

(* Mutant: the last one deleted does not stop the hellos, as in RTEpidemic. *)
HelloOnceAll(gone) == hello

(* DoDelete for each of the bundles given. *)
HelloOnceDeleted(gone) ==
  IF ~AlwaysSendHello /\ gone # {} /\ nBundles = Cardinality(gone)
  THEN Stop(hello) ELSE hello

(* DoInsert, in a list that holds n bundles then. *)
HelloOnceInserted(h, n) == IF n = 1 /\ ~AlwaysSendHello THEN Start(h) ELSE h

Init ==
  /\ RouterInit
  /\ forwardLog = {} /\ offered = {}
  /\ LET off == [started |-> FALSE, timer |-> "off"]
     IN  hello = IF AlwaysSendHello THEN Start(off) ELSE off

-----------------------------------------------------------------------------

(* The positions in a list of the bundles to send to p. *)
AllBundlesForLink(p, list, log) ==
  {i \in DOMAIN list : Destination[list[i]] = p /\ ~HasEntry(log, list[i], p)}

Ready(list, log) ==
  {p \in Mac : state[p] = "connected" /\ AllBundlesForLink(p, list, log) # {}}

(* DoTransmissionCancelled uses the contact of the link unasked: a bundle  *)
(* that was on its way to the agent when the link was closed is not called *)
(* off then, and when it is later there is no contact, and the program     *)
(* ends.                                                                   *)
HasContacts(hits) == \A i \in hits : Open(outbox[i].mac)

(* The first bundle that can be sent is passed on, if any; else nothing    *)
(* more is scheduled.                                                      *)
TryToStartSending ==
  /\ tries > 0
  /\ LET gone == Held \cap expired
         hits == Hits(outbox, gone, Mac)
         list == Left(gone)
         log == RemoveExpiredEntries(forwardLog, expired)
         idle == /\ ~StillSending(isSending, hits)
                 /\ nBundles > Cardinality(gone)
     IN  /\ HasContacts(hits)
         /\ bundleList' = list
         /\ nBytes' = nBytes - Bytes(gone)
         /\ nBundles' = nBundles - Cardinality(gone)
         /\ forwardLog' = log
         /\ hello' = HelloOnceDeleted(gone)
         /\ tries' \in Fewer(More(Cardinality(hits)))
         /\ \/ /\ idle => Ready(list, log) = {}
               /\ Forget(gone, outbox, queue)
               /\ isSending' = StillSending(isSending, hits)
            \/ /\ idle
               /\ \E p \in Ready(list, log) :
                    LET g == list[Min(AllBundlesForLink(p, list, log))]
                    IN  /\ queue' = [Dequeued(queue, outbox, hits) EXCEPT ![p] = Append(@, g)]
                        /\ handoff' = Append(Late(gone), [mac |-> p, gbid |-> g,
                                                          late |-> FALSE])
               /\ outbox' = Marked(outbox, hits)
               /\ isSending' = TRUE
  /\ UNCHANGED <<state, expired, over, offered>>

(* One held already is not taken again. *)
AcceptBundle(g) == g \notin Held /\ Size[g] < MaxBytes

(* Mutant: the oldest go, as in the other routers. *)
MakeRoomByOldest(g) ==
  LET enough == {k \in 0..Len(Fresh) :
                   HasRoom(FreshBytes - Bytes(ToSet(SubSeq(Fresh, 1, k))), Size[g])}
  IN  SubSeq(Fresh, (IF enough = {} THEN Len(Fresh) ELSE Min(enough)) + 1, Len(Fresh))

(* MakeRoomForBundle leaves the bundles before the newest, of which as     *)
(* many go as it takes to have room.                                       *)
MakeRoomForBundle(g) ==
  LET behind(k) == SubSeq(Fresh, k + 1, Len(Fresh))
      enough == {k \in 0..Len(Fresh) :
                   HasRoom(FreshBytes - Bytes(ToSet(behind(k))), Size[g])}
  IN  SubSeq(Fresh, 1, IF enough = {} THEN 0 ELSE Max(enough))

(* The application hands over a bundle, which is put in the buffer. *)
BundleReceivedFromApplication(g) ==
  /\ FewSent
  /\ AcceptBundle(g)
  /\ LET rest == MakeRoomForBundle(g)
         gone == Held \ ToSet(rest)
     IN  /\ HasContacts(Hits(outbox, gone, Mac))
         /\ InsertBundle(g, Size[g], rest)
         /\ hello' = IF g \in ToSet(bundleList')
                     THEN HelloOnceInserted(HelloOnceDeleted(gone), nBundles')
                     ELSE HelloOnceDeleted(gone)
  /\ forwardLog' = RemoveExpiredEntries(forwardLog, expired)
  /\ UNCHANGED <<state, expired, over, offered>>

(* Mutant: only the report of a bundle held is followed by a look. *)
LookIfHeld(g) == IF g \in Held THEN More(1) ELSE tries

(* GetBundle gives a blank bundle for one not held, so that a look follows *)
(* either way.                                                             *)
LookOnceSent(g) == More(1)

(* An acknowledgement of g comes from p; o is what the agent has left.     *)
(* The bundle stays.                                                       *)
BundleSent(p, g, o) ==
  /\ outbox' = o
  /\ queue' = IF Open(p) THEN [queue EXCEPT ![p] = RemoveFirst(@, g)] ELSE queue
  /\ forwardLog' = IF g \in Held THEN AddEntry(forwardLog, g, p) ELSE forwardLog
  /\ isSending' = FALSE
  /\ tries' = LookOnceSent(g)
  /\ UNCHANGED <<state, bundleList, nBytes, nBundles, expired, handoff, over, offered,
                 hello>>

(* The agent takes a bundle over. *)
TakenOver ==
  /\ BundleQueued
  /\ offered' = offered \cup {<<Head(handoff).mac, Head(handoff).gbid>>}
  /\ UNCHANGED <<forwardLog, hello>>

(* The agent retires its head, for whoever acknowledged the bundle. *)
Retired ==
  /\ outbox # <<>>
  /\ \E p \in Mac : /\ <<p, Head(outbox).gbid>> \in offered
                    /\ BundleSent(p, Head(outbox).gbid, Tail(outbox))

(* It passes on an acknowledgement that retires nothing. *)
PassedOn ==
  /\ FewSent
  /\ \E e \in offered : BundleSent(e[1], e[2], outbox)

-----------------------------------------------------------------------------

(* The handlers of the links leave the log and the hellos alone.           *)

PauseLink == BundleTransmissionFailed /\ UNCHANGED directVars

DoUnPauseLink(p) == UnPauseLink(p) /\ UNCHANGED directVars

DoLinkDiscovered(p) == DiscoveredLink(p) /\ UNCHANGED directVars

(* Bound: the agent has few bundles, since each may come back.             *)
DoLinkClosed(p) == FewSent /\ CloseLink(p) /\ UNCHANGED directVars

-----------------------------------------------------------------------------

(* What the router and the agent do by themselves. *)
Own ==
  \/ TryToStartSending
  \/ TakenOver \/ Retired \/ PauseLink
  \/ Discard /\ UNCHANGED directVars
  \/ \E p \in Mac : DoUnPauseLink(p)

(* What the application, the radio and the clock bring. *)
Environment ==
  \/ \E g \in Bundle : BundleReceivedFromApplication(g)
  \/ PassedOn
  \/ \E p \in Mac : DoLinkDiscovered(p) \/ DoLinkClosed(p)
  \/ \E g \in Bundle : Expire(g) /\ UNCHANGED directVars

Next == Own \/ Environment

Spec == Init /\ [][Next]_vars

-----------------------------------------------------------------------------

(* Hellos go out exactly while the node holds something to send, or always *)
(* if it is told so, through every insertion that deletes first and every  *)
(* deletion of the last; and the timer never runs when it is scheduled.    *)
HellosWhileHolding ==
  /\ hello.timer = "on" <=> AlwaysSendHello \/ bundleList # <<>>
  /\ hello.started <=> hello.timer = "on"

(* Nothing looks again by itself, so a handler that makes something        *)
(* sendable, or ends a transfer, must have scheduled a look.               *)
LookIsDue ==
  ~isSending /\ Ready(bundleList, forwardLog) # {} => tries > 0

(* Room is made at the expense of the newest: one stays as long as any     *)
(* that came after it, unless its lifetime is over.                        *)
OldestStay ==
  [][\A i, j \in DOMAIN bundleList :
       i < j /\ bundleList[j] \in ToSet(bundleList')
         => bundleList[i] \in ToSet(bundleList') \cup expired]_vars
=============================================================================
