--------------------------- MODULE CustodyRouter ---------------------------
(***************************************************************************)
(* What the routers that hand over custody add to RelayRouter: RTProphet   *)
(* and RTTrendOfDelivery.  With it, the part of the bundle protocol agent  *)
(* that answers a bundle with custody requested, and takes the answers.    *)
(*                                                                         *)
(* An answer is a copy of the bundle with a number of copies that marks    *)
(* it, and goes out as any bundle does, under the identifier of the        *)
(* bundle: the router has m_isSending set, and the acknowledgement of the  *)
(* answer is handled as one of the bundle.                                 *)
(***************************************************************************)
EXTENDS RelayRouter

CONSTANT
  PendingBound \* bound: the transfers of custody of a bundle in five seconds

VARIABLES
  local,       \* the bundles that this node generates; the others come in
  custodyList, \* m_custodyList: the bundles whose custody was ever handed over
  pending,     \* m_custodyListPending: how often it has each bundle
  erasures     \* the EraseCustodyHistoricalPending scheduled for each bundle

custodyVars == <<custodyList, pending, erasures>>

CustodyTypeOK ==
  /\ RelayTypeOK
  /\ local \in SUBSET Bundle /\ custodyList \in SUBSET Bundle
  /\ pending \in [Bundle -> 0..PendingBound]
  /\ erasures \in [Bundle -> 0..PendingBound]

CustodyInit ==
  /\ RelayInit
  /\ local \in SUBSET {g \in Bundle : Destination[g] # Node}
  /\ custodyList = {}
  /\ pending = [g \in Bundle |-> 0] /\ erasures = [g \in Bundle |-> 0]

-----------------------------------------------------------------------------
(* The lists. *)

(* InsertCustodyHistorical and -Pending: the second forgets in 5 seconds.  *)
(* Bound: a bundle that failed is tried again, and few are under way.      *)
TransferCustody(g) ==
  /\ erasures[g] < PendingBound /\ Len(outbox) + Len(handoff) <= SendBound
  /\ \A p \in Mac : Len(queue[p]) <= SendBound
  /\ custodyList' = custodyList \cup {g}
  /\ pending' = [pending EXCEPT ![g] = @ + 1]
  /\ erasures' = [erasures EXCEPT ![g] = @ + 1]

(* One entry goes, if there is any. *)
OneLess(g) == pending' = [pending EXCEPT ![g] = IF @ = 0 THEN 0 ELSE @ - 1]

(* The 5 seconds are over: whichever entry is there goes.                  *)
EraseCustodyHistoricalPending(g) ==
  /\ erasures[g] > 0
  /\ erasures' = [erasures EXCEPT ![g] = @ - 1]
  /\ OneLess(g)
  /\ UNCHANGED <<routerVars, relayVars, custodyList>>

-----------------------------------------------------------------------------
(* The answers that come in. *)

(* Mutant: the counters go down for a bundle that is gone already. *)
DeletedAnyway(g) == {g}

(* What the answer of a peer deletes. *)
DeletedByAnswer(g) == Held \cap {g}

(* A peer has taken custody: the bundle is deleted, if it is still held.   *)
CustodyAccepted(g) ==
  /\ g \in custodyList
  /\ LET gone == DeletedByAnswer(g)
         hits == Hits(outbox, gone, Mac)
     IN  /\ Forget(gone, outbox, queue)
         /\ bundleList' = Left(gone)
         /\ nBytes' = nBytes - Bytes(gone)
         /\ nBundles' = nBundles - Cardinality(gone)
         /\ isSending' = StillSending(isSending, hits)
         /\ tries' = More(Cardinality(hits))
         /\ reclist' = Without(gone, reclist)
  /\ UNCHANGED <<state, expired, over, forwardLog, kdm, delivers, offered, custodyVars>>

(* A peer has not: an entry goes, of whichever transfer. *)
CustodyRefused(g) ==
  /\ g \in custodyList
  /\ OneLess(g)
  /\ UNCHANGED <<routerVars, relayVars, custodyList, erasures>>

-----------------------------------------------------------------------------
(* The answers that go out, to p, whose bundle g has come in.  There is    *)
(* one if FindLink has a link to p, open or not.                           *)

Answer(p, g) ==
  IF state[p] = "unknown" THEN <<>> ELSE <<[mac |-> p, gbid |-> g, late |-> FALSE]>>

(* DoSendBundle puts the answer into the queue of the contact, if any.     *)
QueueWith(p, g) ==
  [queue EXCEPT ![p] = IF Open(p) THEN Append(@, g) ELSE @]

(* Mutant: the router takes an answer for sent that nobody gets. *)
AnswersAnyone(p) == TRUE

(* The router sends, if there is a link. *)
Answers(p) == state[p] # "unknown"

(* The answer goes out, and the bundles given are taken off after.         *)
SendAnswer(p, g, gone) ==
  LET hits == Hits(outbox, gone, Mac)
  IN  /\ outbox' = Marked(outbox, hits)
      /\ queue' = Dequeued(QueueWith(p, g), outbox, hits)
      /\ handoff' = Late(gone) \o Answer(p, g)
      /\ isSending' = StillSending(isSending \/ Answers(p), hits)
      /\ reclist' = Without(gone, reclist)
      /\ UNCHANGED <<state, expired, over, offered, custodyVars>>

(* It goes out, and that is all. *)
AnswerOnly(p, g) ==
  /\ SendAnswer(p, g, {})
  /\ UNCHANGED <<bundleList, nBytes, nBundles, tries>>

(* Bundles whose custody was ever handed over are ignored.  One of this    *)
(* node's own comes back if a peer ever had it.                            *)
ComesIn(g) ==
  /\ FewSent
  /\ g \notin custodyList
  /\ g \in local => \E p \in Mac : <<p, g>> \in offered

(* The bundle was delivered here before: the answer is to delete it.       *)
AlreadyDelivered(p, g) ==
  /\ FewSent
  /\ g \in delivers
  /\ AnswerOnly(p, g)
  /\ UNCHANGED <<forwardLog, kdm, delivers>>

(* GenerateCustodySignal: there is no room, and the bundle is dropped.  A  *)
(* destination has by then noted it as delivered.                          *)
Refuse(p, g) ==
  /\ ComesIn(g)
  /\ g \notin delivers
  /\ \E size \in Comes[g] : AcceptBundle(g, size) /\ ~HasRoom(nBytes, size)
  /\ AnswerOnly(p, g)
  /\ delivers' = delivers \cup {b \in {g} : Destination[g] = Node}
  /\ UNCHANGED <<forwardLog, kdm>>

(* There is room, and the answer is to delete the bundle.  Then            *)
(* BundleDispatching puts it into the buffer: what has expired goes, and   *)
(* MakeRoomForBundle has nothing to do.  As in InsertBundle, the size      *)
(* counted is what the bundle came with.                                   *)
TakeCustody(p, g) ==
  /\ ComesIn(g)
  /\ Destination[g] # Node
  /\ \E size \in Comes[g] : /\ FewDrift(g, size)
                            /\ AcceptBundle(g, size) /\ HasRoom(nBytes, size)
                            /\ nBytes' = FreshBytes + size
  /\ nBundles' = nBundles - Cardinality(Stale) + 1
  /\ bundleList' = Append(Fresh, g)
  /\ SendAnswer(p, g, Stale)
  /\ tries' = More(Cardinality(StaleHits) + 1)
  /\ forwardLog' = FreshLog
  /\ UNCHANGED <<kdm, delivers>>

(* The same at the destination, where it goes up to the application, and   *)
(* what is known to be delivered is deleted.                               *)
DeliverWithCustody(p, g) ==
  /\ ComesIn(g)
  /\ Destination[g] = Node /\ g \notin delivers
  /\ \E size \in Comes[g] : AcceptBundle(g, size) /\ HasRoom(nBytes, size)
  /\ delivers' = delivers \cup {g} /\ kdm' = kdm \cup {g}
  /\ LET gone == KnownDelivered(kdm')
     IN  /\ bundleList' = Left(gone)
         /\ nBytes' = nBytes - Bytes(gone)
         /\ nBundles' = nBundles - Cardinality(gone)
         /\ SendAnswer(p, g, gone)
         /\ tries' = More(Cardinality(Hits(outbox, gone, Mac)))
         /\ forwardLog' = RemoveEntriesFor(forwardLog, gone)

(* What the peers and their answers bring. *)
CustodyExchange ==
  \/ \E g \in Bundle : \/ CustodyAccepted(g) \/ CustodyRefused(g)
                       \/ EraseCustodyHistoricalPending(g)
  \/ \E p \in Mac, g \in Bundle : Refuse(p, g)

(* The application hands over a bundle that this node generates, once. *)
BundleReceivedFromApplication(g) ==
  /\ g \in local \ custodyList /\ \A p \in Mac : <<p, g>> \notin offered
  /\ UNCHANGED custodyVars
=============================================================================
