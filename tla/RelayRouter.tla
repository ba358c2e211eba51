---------------------------- MODULE RelayRouter ----------------------------
(***************************************************************************)
(* What the routers that relay have in common, on top of BundleRouter: the *)
(* epidemic, spray and wait, Prophet and trend of delivery routers repeat  *)
(* it word for word.  With it, the part of the bundle protocol agent that  *)
(* feeds the router.  Each router adds its own choice of what to send.     *)
(***************************************************************************)
EXTENDS BundleRouter, ForwardLog

CONSTANTS
  Node,        \* this node
  Destination, \* the node each bundle is for: a peer, this node or another
  Comes,       \* how many bytes a bundle may take as it comes in.  Its dictionary
               \* has 4 for each endpoint of three, so that they are 4 less than in
               \* the buffer when its custodian is its source, and 4 more when it
               \* comes back to its source
  DriftBound   \* bound: what the counter of bytes may be off the list

ASSUME RelayAssumption ==
  /\ Comes \in [Bundle -> SUBSET (Nat \ {0})]
  /\ DriftBound \in Nat

VARIABLES
  reclist,     \* reclist of the bundles held: the peers they were offered to
  forwardLog,  \* m_forwardLog: who acknowledged which bundle
  kdm,         \* m_kdm: the known delivered messages
  delivers,    \* m_bundlesDelivers: the bundles delivered at this node
  offered      \* the bundles the agent ever had, with the peer: a peer may
               \* acknowledge them, and more than once

relayVars == <<reclist, forwardLog, kdm, delivers, offered>>

RelayTypeOK ==
  /\ RouterTypeOK
  /\ reclist \in [Bundle -> SUBSET Mac]
  /\ forwardLog \in SUBSET (Bundle \X Mac)
  /\ kdm \in SUBSET Bundle
  /\ delivers \in SUBSET Bundle
  /\ offered \in SUBSET (Mac \X Bundle)

RelayInit ==
  /\ RouterInit
  /\ reclist = [g \in Bundle |-> {}]
  /\ forwardLog = {} /\ kdm = {} /\ delivers = {}
  /\ offered = {}

(* The bundles deleted take their reclist with them. *)
Without(gone, list) == [g \in Bundle |-> IF g \in gone THEN {} ELSE list[g]]

(* The log once what has expired is out of it. *)
FreshLog == RemoveExpiredEntries(forwardLog, expired)

-----------------------------------------------------------------------------
(* Looking for work.  What has expired goes first; then a bundle is passed *)
(* on, if the router is not sending and has any.                           *)

Stale == Held \cap expired

StaleHits == Hits(outbox, Stale, Mac)

RemoveExpired ==
  /\ outbox' = Marked(outbox, StaleHits)
  /\ bundleList' = Fresh
  /\ nBytes' = FreshBytes
  /\ nBundles' = nBundles - Cardinality(Stale)
  /\ forwardLog' = FreshLog

Idle == ~StillSending(isSending, StaleHits) /\ nBundles > Cardinality(Stale)

(* Nothing is passed on: what has expired is called off. *)
NothingSent ==
  /\ isSending' = StillSending(isSending, StaleHits)
  /\ queue' = Dequeued(queue, outbox, StaleHits)
  /\ handoff' = Late(Stale)
  /\ reclist' = Without(Stale, reclist)

(* The router has nothing to do until something happens. *)
NotNow ==
  /\ ~Idle
  /\ NothingSent
  /\ tries' \in Fewer(More(Cardinality(StaleHits)))

(* There is nothing to send: it looks again in a second. *)
LookAgain ==
  /\ Idle
  /\ NothingSent
  /\ tries' = More(Cardinality(StaleHits))

(* SendBundle of g for p *)
SendBundle(p, g) ==
  /\ Idle
  /\ isSending' = TRUE
  /\ queue' = [Dequeued(queue, outbox, StaleHits) EXCEPT ![p] = Append(@, g)]
  /\ handoff' = Append(Late(Stale), [mac |-> p, gbid |-> g, late |-> FALSE])

(* g is passed on, for p.  The peer is noted in reclist before, whatever   *)
(* comes of it.                                                            *)
PassOn(p, g) ==
  /\ SendBundle(p, g)
  /\ tries' \in Fewer(More(Cardinality(StaleHits)))
  /\ reclist' = [Without(Stale, reclist) EXCEPT ![g] = @ \cup {p}]

-----------------------------------------------------------------------------
(* What comes in and what is known of deliveries. *)

(* How many bytes more the list takes than the counter says.               *)
Drift == Bytes(Held) - nBytes

(* Bound: a bundle that grows or shrinks in the buffer comes in only while *)
(* the counter is not far off, and not in the last ten seconds.            *)
FewDrift(g, size) ==
  Size[g] # size => /\ ~over
                    /\ Drift + Size[g] - size \in (-DriftBound)..DriftBound

(* Mutant: one held already is taken again. *)
AcceptAgain(g, size) == size < MaxBytes

(* A bundle comes in, from the application or a peer, and is put in the    *)
(* buffer.  One held already is not taken again.                           *)
AcceptBundle(g, size) == g \notin Held /\ size < MaxBytes

(* MakeRoomForBundle leaves the bundles behind the oldest, of which as     *)
(* many go as it takes to have room.                                       *)
MakeRoomForBundle(size) ==
  LET without(k) == SubSeq(Fresh, k + 1, Len(Fresh))
      enough == {k \in 0..Len(Fresh) :
                   HasRoom(FreshBytes - Bytes(ToSet(SubSeq(Fresh, 1, k))), size)}
  IN  without(IF enough = {} THEN Len(Fresh) ELSE Min(enough))

(* A bundle is put in the buffer, with the rest, which is what             *)
(* MakeRoomForBundle leaves.                                               *)
ReceivedWith(g, size, rest) ==
  /\ FewSent /\ FewDrift(g, size)
  /\ Destination[g] # Node
  /\ AcceptBundle(g, size)
  /\ InsertBundle(g, size, rest)
  /\ reclist' = Without(Bundle \ ToSet(bundleList'), reclist)
  /\ forwardLog' = FreshLog
  /\ UNCHANGED <<state, expired, over, kdm, delivers, offered>>

BundleReceived(g, size) == ReceivedWith(g, size, MakeRoomForBundle(size))

(* DoBundleDelivered: the bundles held that are known to be delivered go,  *)
(* with their entries in the log.                                          *)
KnownDelivered(known) == Held \cap known

(* A bundle for this node comes in.  It goes up to the application, the    *)
(* first time.                                                             *)
LocalBundleDelivery(g) ==
  /\ Destination[g] = Node
  /\ g \notin delivers
  /\ \E size \in Comes[g] : AcceptBundle(g, size)
  /\ delivers' = delivers \cup {g}
  /\ kdm' = kdm \cup {g}
  /\ LET gone == KnownDelivered(kdm')
         hits == Hits(outbox, gone, Mac)
     IN  /\ Forget(gone, outbox, queue)
         /\ bundleList' = Left(gone)
         /\ nBytes' = nBytes - Bytes(gone)
         /\ nBundles' = nBundles - Cardinality(gone)
         /\ isSending' = StillSending(isSending, hits)
         /\ tries' = More(Cardinality(hits))
         /\ forwardLog' = RemoveEntriesFor(forwardLog, gone)
         /\ reclist' = Without(gone, reclist)
  /\ UNCHANGED <<state, expired, over, offered>>

(* Mutant: the end of a transfer is no occasion to look for work. *)
NoLookOnceSent(n) == More(n)

(* It is, after n reports. *)
LookOnceSent(n) == More(n + 1)

(* An acknowledgement of g comes from p; o is what the agent has left.     *)
(* GetBundle gives a blank bundle for one not held, so that the log and    *)
(* m_kdm get a blank entry then.                                           *)
BundleSent(p, g, o) ==
  LET final == Destination[g] = p
      known == kdm \cup {b \in {g} : final /\ g \in Held}
      gone == IF final THEN KnownDelivered(known) ELSE {}
      log == IF g \in Held THEN AddEntry(forwardLog, g, p) ELSE forwardLog
      q == IF Open(p) THEN [queue EXCEPT ![p] = RemoveFirst(@, g)] ELSE queue
  IN  /\ kdm' = known
      /\ forwardLog' = RemoveEntriesFor(log, gone)
      /\ Forget(gone, o, q)
      /\ bundleList' = Left(gone)
      /\ nBytes' = nBytes - Bytes(gone)
      /\ nBundles' = nBundles - Cardinality(gone)
      /\ isSending' = FALSE
      /\ tries' = LookOnceSent(Cardinality(Hits(o, gone, Mac)))
      /\ reclist' = Without(gone, reclist)
      /\ UNCHANGED <<state, expired, over, delivers, offered>>

(* The agent takes a bundle over. *)
TakenOver ==
  /\ BundleQueued
  /\ offered' = offered \cup {<<Head(handoff).mac, Head(handoff).gbid>>}
  /\ UNCHANGED <<reclist, forwardLog, kdm, delivers>>

(* The agent retires its head, for whoever acknowledged the bundle. *)
Retired ==
  /\ outbox # <<>>
  /\ \E p \in Mac : /\ <<p, Head(outbox).gbid>> \in offered
                    /\ BundleSent(p, Head(outbox).gbid, Tail(outbox))

(* It passes on an acknowledgement that retires nothing. *)
PassedOn ==
  /\ \E e \in offered : BundleSent(e[1], e[2], outbox)

-----------------------------------------------------------------------------

CountedRight ==
  /\ IsInjective(bundleList') /\ nBytes' <= MaxBytes
  /\ ~over' => /\ nBundles' = Len(bundleList')
               /\ \/ Drift' = Drift
                  \/ \E g \in Held' \ Held : \E size \in Comes[g] :
                       Drift' = Drift + Size[g] - size

(* Whatever is deleted, by whom and during which handler, the counter of   *)
(* bytes and the list move apart only by what a bundle that has just come  *)
(* in grew when this node became its custodian; the number of bundles is   *)
(* that of the list, in which none is twice, until it is emptied at the    *)
(* end; and the counter, read as a signed number, never passes the room.   *)
Accounted == [][CountedRight]_routerVars
=============================================================================
