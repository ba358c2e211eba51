---------------------------- MODULE BundleRouter ----------------------------
(***************************************************************************)
(* What the routers have in common: the buffer of bundles of BundleRouter, *)
(* the links with the queues of their contacts, the convergence layer      *)
(* agent below with the bundles handed to it, and the handlers that every  *)
(* router repeats word for word.  A router module extends this one with    *)
(* its own state and its choice of what to send.                           *)
(*                                                                         *)
(* A handler runs to its end in one step.  What it makes the agent cancel  *)
(* is reported back before it ends.  What it schedules comes later: the    *)
(* bundle on its way to the agent is in `handoff', and `tries' counts the  *)
(* events that will run TryToStartSending, now or after a second.  They    *)
(* add up without bound, so TryBound of them stands for any larger number. *)
(*                                                                         *)
(* The agent is what module Outbox promises.  Time is left out: LinkManager *)
(* has the timers of the links, here a link may be closed at any time.     *)
(***************************************************************************)
EXTENDS Integers, Sequences, FiniteSets, SequencesExt, FiniteSetsExt, Selection

CONSTANTS
  Mac,       \* the peers; a peer has one MAC address and one endpoint id
  Bundle,    \* the global bundle identifiers
  Size,      \* how many bytes a bundle takes in the buffer, where this node is its
             \* custodian
  MaxBytes,  \* m_maxBytes
  Mortal,    \* bound: the bundles whose lifetime may end
  Polling,   \* whether the router looks for work by a timer of its own, as the
             \* trend of delivery router does, and not after what happens
  Ends,      \* bound: whether the simulation reaches its last ten seconds
  TryBound,  \* bound: the events counted; this many are as many or more
  SendBound  \* bound: bundles handed to the agent, and queued for a contact but
             \* for one, when one comes in

ASSUME RouterAssumption ==
  /\ Size \in [Bundle -> Nat \ {0}]
  /\ MaxBytes \in Nat
  /\ Mortal \subseteq Bundle /\ Ends \in BOOLEAN /\ Polling \in BOOLEAN
  /\ TryBound \in Nat \ {0} /\ SendBound \in Nat

VARIABLES
  state,       \* m_state of the link to each peer; "unknown": there is none
  queue,       \* m_queue of the contact of each link; empty when there is none
  isSending,   \* m_isSending
  bundleList,  \* m_bundleList
  nBytes,      \* m_nBytes, which is what this is modulo 2^32
  nBundles,    \* m_nBundles
  expired,     \* the bundles whose lifetime is over
  handoff,     \* the bundles on their way to the agent: NotifySend, BundleQueued
  outbox,      \* the bundles the agent has; late: deleted before it had them
  tries,       \* events that will run TryToStartSending
  over         \* the last ten seconds of the simulation have begun

routerVars == <<state, queue, isSending, bundleList, nBytes, nBundles, expired,
                handoff, outbox, tries, over>>

-----------------------------------------------------------------------------

Passed == [mac : Mac, gbid : Bundle, late : BOOLEAN]

Entry == [mac : Mac, gbid : Bundle, late : BOOLEAN, cancelled : BOOLEAN]

RouterTypeOK ==
  /\ state \in [Mac -> {"unknown", "unavailable", "connected", "paused"}]
  /\ queue \in [Mac -> Seq(Bundle)]
  /\ isSending \in BOOLEAN
  /\ bundleList \in Seq(Bundle)
  /\ nBytes \in Int /\ nBundles \in Nat
  /\ expired \in SUBSET Bundle
  /\ handoff \in Seq(Passed)
  /\ outbox \in Seq(Entry)
  /\ tries \in 0..TryBound
  /\ over \in BOOLEAN

RouterInit ==
  /\ state = [p \in Mac |-> "unknown"]
  /\ queue = [p \in Mac |-> <<>>]
  /\ isSending = FALSE
  /\ bundleList = <<>> /\ nBytes = 0 /\ nBundles = 0
  /\ expired = {}
  /\ handoff = <<>> /\ outbox = <<>>
  /\ tries = IF Polling THEN 1 ELSE 0
  /\ over = FALSE

Held == ToSet(bundleList)

(* The events once k more are scheduled, and once one of n has run.  A     *)
(* router with a timer of its own schedules none.                          *)
More(k) == IF Polling THEN tries ELSE Min({tries + k, TryBound})

Fewer(n) == {n - 1} \cup {m \in {n} : n = TryBound}

Open(p) == state[p] \in {"connected", "paused"}

Bytes(bundles) == SumFunctionOnSet(Size, bundles)

(* The list without the bundles given. *)
Left(gone) == Selected(bundleList, Held \ gone)

-----------------------------------------------------------------------------
(* Cancelling.  The agent marks its entries of the bundles for the peers,  *)
(* and reports each one: TransmissionCancelled.  It has nothing to mark    *)
(* for a bundle still on its way to it.                                    *)

Hits(o, bundles, peers) ==
  {i \in DOMAIN o : o[i].gbid \in bundles /\ o[i].mac \in peers /\ ~o[i].cancelled}

Marked(o, hits) ==
  [i \in DOMAIN o |-> IF i \in hits THEN [o[i] EXCEPT !.cancelled = TRUE] ELSE o[i]]

(* Bound: few bundles are handed to the agent, or left in the queues. *)
FewSent ==
  /\ Len(outbox) + Len(handoff) < SendBound
  /\ \A p \in Mac : Len(queue[p]) <= SendBound

(* DequeueBundle, for the contact of each entry marked. *)
Dequeued(q, o, hits) ==
  FoldSet(LAMBDA i, r : [r EXCEPT ![o[i].mac] = RemoveFirst(@, o[i].gbid)], q, hits)

(* Mutant: the router goes on thinking that it sends. *)
StillSendingOn(sending, hits) == sending

(* A report of any bundle lets the router send again. *)
StillSending(sending, hits) == sending /\ hits = {}

(* What is on its way to the agent, once the bundles given are deleted. *)
Late(gone) ==
  [i \in DOMAIN handoff |->
     [handoff[i] EXCEPT !.late = @ \/ handoff[i].gbid \in gone]]

(* Mutant: the agent is not told. *)
ForgetQuietly(gone, o, q) ==
  /\ outbox' = o
  /\ queue' = q
  /\ handoff' = Late(gone)

(* DeleteBundle for each of the bundles, apart from what it does to the    *)
(* list, while the agent holds o and the contacts q.                       *)
Forget(gone, o, q) ==
  /\ outbox' = Marked(o, Hits(o, gone, Mac))
  /\ queue' = Dequeued(q, o, Hits(o, gone, Mac))
  /\ handoff' = Late(gone)

-----------------------------------------------------------------------------
(* The buffer. *)

(* GetFreeBytes, which is unsigned as the counter is: where the counter    *)
(* has gone below zero and wrapped, the difference wraps back.             *)
HasRoom(bytes, size) == size < MaxBytes - bytes

(* The bundles not expired, and the bytes they take by the counter. *)
Fresh == Left(Held \cap expired)

FreshBytes == nBytes - Bytes(Held \cap expired)

(* InsertBundle: what has expired goes, then what MakeRoomForBundle does   *)
(* not leave, and g is put last, if there is room then.  The size counted  *)
(* is what g came with; DoInsert makes this node its custodian after.      *)
InsertBundle(g, size, rest) ==
  LET gone == Held \ ToSet(rest)
      bytes == nBytes - Bytes(gone)
      hits == Hits(outbox, gone, Mac)
  IN  /\ Forget(gone, outbox, queue)
      /\ isSending' = StillSending(isSending, hits)
      /\ IF HasRoom(bytes, size)
         THEN /\ bundleList' = Append(rest, g)
              /\ nBytes' = bytes + size
              /\ nBundles' = nBundles - Cardinality(gone) + 1
              /\ tries' = More(Cardinality(hits) + 1)
         ELSE /\ bundleList' = rest
              /\ nBytes' = bytes
              /\ nBundles' = nBundles - Cardinality(gone)
              /\ tries' = More(Cardinality(hits))

-----------------------------------------------------------------------------
(* The links. *)

DiscoveredLink(p) ==
  /\ ~Open(p)
  /\ state' = [state EXCEPT ![p] = "connected"]
  /\ tries' = More(1)
  /\ UNCHANGED <<queue, isSending, bundleList, nBytes, nBundles, expired, handoff,
                 outbox, over>>

(* The bundles queued for the contact are called off; the agent holds o.   *)
CallOff(p, o) ==
  /\ outbox' = Marked(o, Hits(o, ToSet(queue[p]), {p}))
  /\ queue' = [queue EXCEPT ![p] = <<>>]

(* CheckIfExpired closes the link. *)
CloseLink(p) ==
  /\ Open(p)
  /\ CallOff(p, outbox)
  /\ state' = [state EXCEPT ![p] = "unavailable"]
  /\ LET hits == Hits(outbox, ToSet(queue[p]), {p})
     IN  /\ isSending' = StillSending(isSending, hits)
         /\ tries' = More(Cardinality(hits))
  /\ UNCHANGED <<bundleList, nBytes, nBundles, expired, handoff, over>>

UnPauseLink(p) ==
  /\ state[p] = "paused"
  /\ state' = [state EXCEPT ![p] = "connected"]
  /\ tries' = More(1)
  /\ UNCHANGED <<queue, isSending, bundleList, nBytes, nBundles, expired, handoff,
                 outbox, over>>

-----------------------------------------------------------------------------
(* The agent. *)

(* NotifySend and BundleQueued: the agent takes the bundle over. *)
BundleQueued ==
  /\ handoff # <<>>
  /\ LET h == Head(handoff)
     IN  outbox' = Append(outbox, [mac |-> h.mac, gbid |-> h.gbid, late |-> h.late,
                                   cancelled |-> FALSE])
  /\ handoff' = Tail(handoff)
  /\ UNCHANGED <<state, queue, isSending, bundleList, nBytes, nBundles, expired, tries,
                 over>>

(* The agent drops a bundle that was cancelled. *)
Discard ==
  /\ outbox # <<>>
  /\ Head(outbox).cancelled
  /\ outbox' = Tail(outbox)
  /\ UNCHANGED <<state, queue, isSending, bundleList, nBytes, nBundles, expired,
                 handoff, tries, over>>

(* The agent gives a bundle up.  The link is paused, after too many        *)
(* failures closed, and what is queued for its contact is called off.      *)
(* PauseLink looks for work whatever it did.                               *)
BundleTransmissionFailed ==
  /\ outbox # <<>>
  /\ ~Head(outbox).cancelled
  /\ LET p == Head(outbox).mac
         o == Tail(outbox)
         hits == Hits(o, ToSet(queue[p]), {p})
     IN  IF state[p] = "connected"
         THEN /\ CallOff(p, o)
              /\ \E s \in {"paused", "unavailable"} : state' = [state EXCEPT ![p] = s]
              /\ tries' = More(Cardinality(hits) + 1)
         ELSE /\ outbox' = o
              /\ tries' = More(1)
              /\ UNCHANGED <<state, queue>>
  /\ isSending' = FALSE
  /\ UNCHANGED <<bundleList, nBytes, nBundles, expired, handoff, over>>

(* The lifetime of a bundle ends. *)
Expire(g) ==
  /\ g \in Mortal \ expired
  /\ expired' = expired \cup {g}
  /\ UNCHANGED <<state, queue, isSending, bundleList, nBytes, nBundles, handoff,
                 outbox, tries, over>>

(* A hello due in the last ten seconds empties the list instead, and       *)
(* nothing else.  HelloTimerExpire schedules the next one all the same, so *)
(* that it is done again.                                                  *)
DoSendHello ==
  /\ Ends
  /\ over' = TRUE
  /\ bundleList' = <<>>
  /\ UNCHANGED <<state, queue, isSending, nBytes, nBundles, expired, handoff, outbox,
                 tries>>

-----------------------------------------------------------------------------

(* The router only thinks that it sends while a report is to come: of a    *)
(* bundle on its way to the agent, or of one that the agent has and that   *)
(* was not called off.  Else it would not send again for good.             *)
SendingEndsInReport ==
  isSending => handoff # <<>> \/ \E i \in DOMAIN outbox : ~outbox[i].cancelled

(* The agent sends only what the buffer holds: what is deleted is called   *)
(* off everywhere, but for a bundle that was on its way to the agent then. *)
SendsWhatIsHeld ==
  \A i \in DOMAIN outbox :
    ~over /\ ~outbox[i].cancelled /\ ~outbox[i].late => outbox[i].gbid \in Held
=============================================================================
