----------------------- MODULE ConvergenceLayerSender -----------------------
(***************************************************************************)
(* The sending half of ConvergenceLayerAgent of one node: the queue of     *)
(* bundles, the queue of acknowledgements that goes before it, the one     *)
(* segment the MAC holds at a time, the retransmissions, the wait for the  *)
(* acknowledgement of a whole bundle and its timer.                        *)
(*                                                                         *)
(* The node runs on a discrete event simulator.  A handler is one step.    *)
(* SendSegments never runs directly: each handler schedules it, now or     *)
(* after a back-off, and `pending' counts the events not yet run.  How     *)
(* long anything takes is left out, so any enabled handler may be next.    *)
(*                                                                         *)
(* The router, the MAC and the peers are the environment.  The router may  *)
(* queue or cancel anything, the MAC answers ok or failed, an              *)
(* acknowledgement of any bundle may come from any peer at any time: what  *)
(* holds here holds in whatever network the agent is put.                  *)
(***************************************************************************)
EXTENDS Naturals, Sequences, SequencesExt

CONSTANTS
  Mac,               \* the peers; a peer has one MAC address and one endpoint id
  Bundle,            \* the global bundle identifiers
  AnyEid,            \* the endpoint id that stands for all peers
  Null,              \* the SendQueueElement of type SQE_UNKOWN; no timer
  NumberOfSegments,  \* how many segments a bundle is cut into
  SequenceModulus,   \* how many sequence numbers there are: 2^16
  QueueBound,        \* bound: entries in the queue of bundles when one is added
  AckBound,          \* bound: entries in the queue of acknowledgements likewise
  EventBound         \* bound: events pending when the environment causes one

Key == [sqeType : {"bundle", "ack"}, mac : Mac, gbid : Bundle]

ASSUME SenderAssumption ==
  /\ AnyEid \notin Mac
  /\ Null \notin Key
  /\ NumberOfSegments \in [Bundle -> Nat \ {0}]
  /\ SequenceModulus \in Nat \ {0}
  /\ QueueBound \in Nat /\ AckBound \in Nat
  /\ EventBound \in Nat

VARIABLES
  sequenceNumber, \* m_sequenceNumber: what the next bundle gets
  sendQueue,      \* m_sendQueue
  ackQueue,       \* m_ackQueue
  current,        \* m_current: which entry the MAC holds a segment of
  waitingForAck,  \* m_waitingForAck: which entry awaits its acknowledgement
  ackTimer,       \* m_ackTimer: the arguments it was scheduled with
  isSending,      \* m_isSending
  pending,        \* events that will run SendSegments
  upcalls         \* the callbacks made to the router in the last step

vars == <<sequenceNumber, sendQueue, ackQueue, current, waitingForAck, ackTimer,
          isSending, pending, upcalls>>

-----------------------------------------------------------------------------

RetransmissionLimit == 3

SendQueueElement(type) ==
  [sqeType : {type}, mac : Mac, gbid : Bundle,
   sequenceNumber : 0..(SequenceModulus - 1), segments : Nat,
   retransmissions : 0..RetransmissionLimit, cancelled : BOOLEAN]

(* What operator== of SendQueueElement compares. *)
KeyOf(e) == [sqeType |-> e.sqeType, mac |-> e.mac, gbid |-> e.gbid]

(* std::find: the first entry equal to the one sought, 0 for end(). *)
Find(q, k) == SelectInSeq(q, LAMBDA e : KeyOf(e) = k)

Element(type, m, g, s, n) ==
  [sqeType |-> type, mac |-> m, gbid |-> g, sequenceNumber |-> s, segments |-> n,
   retransmissions |-> 0, cancelled |-> FALSE]

Upcall(kind, m, g) == [kind |-> kind, mac |-> m, gbid |-> g]

TypeOK ==
  /\ sequenceNumber \in 0..(SequenceModulus - 1)
  /\ sendQueue \in Seq(SendQueueElement("bundle"))
  /\ ackQueue \in Seq(SendQueueElement("ack"))
  /\ current \in Key \cup {Null}
  /\ waitingForAck \in Key \cup {Null}
  /\ ackTimer \in Key \cup {Null}
  /\ isSending \in BOOLEAN
  /\ pending \in Nat
  /\ upcalls \in SUBSET [kind : {"sent", "failed", "cancelled"},
                         mac : Mac, gbid : Bundle]

Init ==
  /\ sequenceNumber = 0
  /\ sendQueue = <<>> /\ ackQueue = <<>>
  /\ current = Null /\ waitingForAck = Null /\ ackTimer = Null
  /\ isSending = FALSE
  /\ pending = 0
  /\ upcalls = {}

-----------------------------------------------------------------------------
(* The router and the receiving half call in. *)

(* Mutant: what comes last goes first. *)
EnqueueFirst(q, e) == <<e>> \o q

Enqueue(q, e) == Append(q, e)

(* Mutant: every bundle gets the same number. *)
GetSameSequenceNumber(n) == n

(* The number after n; m_sequenceNumber is a uint16_t and wraps. *)
GetSequenceNumber(n) == (n + 1) % SequenceModulus

(* A bundle for peer m is cut into segments and queued. *)
SendBundle(m, g) ==
  /\ Len(sendQueue) < QueueBound /\ pending < EventBound
  /\ sendQueue' = Enqueue(sendQueue, Element("bundle", m, g, sequenceNumber,
                                             NumberOfSegments[g]))
  /\ sequenceNumber' = GetSequenceNumber(sequenceNumber)
  /\ pending' = pending + 1
  /\ upcalls' = {}
  /\ UNCHANGED <<ackQueue, current, waitingForAck, ackTimer, isSending>>

(* A bundle of peer m was put together: it is acknowledged. *)
SendAck(m, g) ==
  /\ Len(ackQueue) < AckBound /\ pending < EventBound
  /\ ackQueue' = Enqueue(ackQueue, Element("ack", m, g, 0, 1))
  /\ pending' = pending + 1
  /\ upcalls' = {}
  /\ UNCHANGED <<sequenceNumber, sendQueue, current, waitingForAck, ackTimer,
                 isSending>>

(* Cancelling marks the entries: SendSegments drops one when it is at the  *)
(* head.  An event to do so is not scheduled.                              *)
CancelTransmission(g, to) ==
  LET hit == {i \in 1..Len(sendQueue) : /\ sendQueue[i].gbid = g
                                        /\ to \in {AnyEid, sendQueue[i].mac}
                                        /\ ~sendQueue[i].cancelled}
  IN  /\ sendQueue' = [i \in 1..Len(sendQueue) |->
                         IF i \in hit THEN [sendQueue[i] EXCEPT !.cancelled = TRUE]
                                      ELSE sendQueue[i]]
      /\ upcalls' = {Upcall("cancelled", sendQueue[i].mac, g) : i \in hit}
      /\ UNCHANGED <<sequenceNumber, ackQueue, current, waitingForAck, ackTimer,
                     isSending, pending>>

-----------------------------------------------------------------------------
(* SendSegments, by the branch it takes. *)

(* An acknowledgement goes before any bundle, even while one is awaited. *)
SendAckSegment ==
  /\ ~isSending
  /\ ackQueue # <<>>
  /\ current' = KeyOf(Head(ackQueue))
  /\ isSending' = TRUE
  /\ pending' = pending - 1
  /\ UNCHANGED <<sendQueue, ackQueue, waitingForAck, ackTimer>>

(* Mutant: the queue does not wait for an acknowledgement. *)
MaySendEarly(e) == ~e.cancelled

MaySend(e) == ~e.cancelled /\ waitingForAck = Null

SendBundleSegment ==
  /\ ~isSending
  /\ ackQueue = <<>> /\ sendQueue # <<>>
  /\ MaySend(Head(sendQueue))
  /\ current' = KeyOf(Head(sendQueue))
  /\ isSending' = TRUE
  /\ pending' = pending - 1
  /\ UNCHANGED <<sendQueue, ackQueue, waitingForAck, ackTimer>>

(* Mutant: the wait and its timer outlive the entry. *)
KeepWaiting(k) == UNCHANGED <<waitingForAck, ackTimer>>

StopWaiting(k) ==
  IF waitingForAck = k
  THEN waitingForAck' = Null /\ ackTimer' = Null
  ELSE UNCHANGED <<waitingForAck, ackTimer>>

(* Mutant: nothing is scheduled for the entries behind the one dropped. *)
DropCancelledAndRest ==
  /\ ~isSending
  /\ ackQueue = <<>> /\ sendQueue # <<>>
  /\ Head(sendQueue).cancelled
  /\ current' = Null
  /\ StopWaiting(KeyOf(Head(sendQueue)))
  /\ sendQueue' = Tail(sendQueue)
  /\ pending' = pending - 1
  /\ UNCHANGED <<ackQueue, isSending>>

(* A cancelled head is dropped, and with it the wait for its               *)
(* acknowledgement.  One event is run and one is scheduled.                *)
DropCancelled ==
  /\ ~isSending
  /\ ackQueue = <<>> /\ sendQueue # <<>>
  /\ Head(sendQueue).cancelled
  /\ current' = Null
  /\ StopWaiting(KeyOf(Head(sendQueue)))
  /\ sendQueue' = Tail(sendQueue)
  /\ UNCHANGED <<ackQueue, isSending, pending>>

(* There is nothing to send, or its turn has not come. *)
SendNothing ==
  /\ \/ isSending
     \/ /\ ackQueue = <<>>
        /\ sendQueue # <<>> => /\ ~Head(sendQueue).cancelled
                               /\ ~MaySend(Head(sendQueue))
  /\ current' = IF isSending THEN current ELSE Null
  /\ pending' = pending - 1
  /\ UNCHANGED <<sendQueue, ackQueue, waitingForAck, ackTimer, isSending>>

SendSegments ==
  /\ pending > 0
  /\ upcalls' = {}
  /\ UNCHANGED sequenceNumber
  /\ SendAckSegment \/ SendBundleSegment \/ DropCancelled \/ SendNothing

-----------------------------------------------------------------------------
(* The MAC reports on the segment it holds. *)

AckSentOk ==
  /\ current.sqeType = "ack"
  /\ ackQueue' = RemoveAt(ackQueue, Find(ackQueue, current))
  /\ UNCHANGED <<sendQueue, waitingForAck, ackTimer>>

BundleSegmentSentOk ==
  /\ current.sqeType = "bundle"
  /\ LET i == Find(sendQueue, current)
     IN  /\ sendQueue' = [sendQueue EXCEPT ![i].segments = @ - 1,
                                           ![i].retransmissions = 0]
         /\ IF sendQueue[i].segments = 1
            THEN waitingForAck' = current /\ ackTimer' = current
            ELSE UNCHANGED <<waitingForAck, ackTimer>>
  /\ UNCHANGED ackQueue

SegmentSentOk ==
  /\ isSending
  /\ AckSentOk \/ BundleSegmentSentOk
  /\ isSending' = FALSE
  /\ pending' = pending + 1
  /\ upcalls' = {}
  /\ UNCHANGED <<sequenceNumber, current>>

(* Mutant: one try too many. *)
ExhaustedLate(e) == e.retransmissions > RetransmissionLimit

Exhausted(e) == e.retransmissions = RetransmissionLimit

(* Mutant: the tries are not counted. *)
RetransmitForever(q, i) == q

(* The segment is tried again, after a back-off. *)
Retransmit(q, i) == [q EXCEPT ![i].retransmissions = @ + 1]

AckSentFailed ==
  /\ current.sqeType = "ack"
  /\ LET i == Find(ackQueue, current)
     IN  ackQueue' = IF Exhausted(ackQueue[i]) THEN RemoveAt(ackQueue, i)
                                               ELSE Retransmit(ackQueue, i)
  /\ pending' = pending + 1
  /\ upcalls' = {}
  /\ UNCHANGED sendQueue

(* Mutant: a bundle cancelled meanwhile fails like any other. *)
BundleSentFailedAnyway(i, m, g) ==
  sendQueue' = RemoveAt(sendQueue, i) /\ upcalls' = {Upcall("failed", m, g)}

(* The entry at i fails, unless it was cancelled: then it stays, for       *)
(* SendSegments to drop.                                                   *)
BundleSentFailed(i, m, g) ==
  IF sendQueue[i].cancelled
  THEN UNCHANGED sendQueue /\ upcalls' = {}
  ELSE sendQueue' = RemoveAt(sendQueue, i) /\ upcalls' = {Upcall("failed", m, g)}

(* Out of tries, both BundleSentFailed and SegmentSentFailed schedule. *)
BundleSegmentSentFailed ==
  /\ current.sqeType = "bundle"
  /\ LET i == Find(sendQueue, current)
         e == sendQueue[i]
     IN  IF Exhausted(e)
         THEN BundleSentFailed(i, e.mac, e.gbid) /\ pending' = pending + 2
         ELSE /\ sendQueue' = Retransmit(sendQueue, i)
              /\ pending' = pending + 1
              /\ upcalls' = {}
  /\ UNCHANGED ackQueue

SegmentSentFailed ==
  /\ isSending
  /\ AckSentFailed \/ BundleSegmentSentFailed
  /\ isSending' = FALSE
  /\ UNCHANGED <<sequenceNumber, current, waitingForAck, ackTimer>>

-----------------------------------------------------------------------------
(* The wait for an acknowledgement ends. *)

Awaiting(g) ==
  /\ waitingForAck # Null
  /\ waitingForAck.gbid = g
  /\ Find(sendQueue, waitingForAck) # 0

(* An acknowledgement of g comes from peer p.  The entry awaited is retired *)
(* when it carries g, whoever p is; the router hears of it in any case.    *)
ReceiveAck(p, g) ==
  /\ pending < EventBound
  /\ IF Awaiting(g)
     THEN /\ sendQueue' = RemoveAt(sendQueue, Find(sendQueue, waitingForAck))
          /\ waitingForAck' = Null /\ ackTimer' = Null
     ELSE UNCHANGED <<sendQueue, waitingForAck, ackTimer>>
  /\ pending' = pending + 1
  /\ upcalls' = {Upcall("sent", p, g)}
  /\ UNCHANGED <<sequenceNumber, ackQueue, current, isSending>>

(* The timer fires: BundleSentFailed with the arguments it was given. *)
AckTimeout ==
  /\ ackTimer # Null
  /\ ackTimer' = Null
  /\ IF Awaiting(ackTimer.gbid)
     THEN /\ BundleSentFailed(Find(sendQueue, waitingForAck), ackTimer.mac, ackTimer.gbid)
          /\ waitingForAck' = Null
     ELSE UNCHANGED <<sendQueue, waitingForAck>> /\ upcalls' = {}
  /\ pending' = pending + 1
  /\ UNCHANGED <<sequenceNumber, ackQueue, current, isSending>>

-----------------------------------------------------------------------------

(* What the router and the receiving half ask for. *)
Request ==
  \/ \E m \in Mac, g \in Bundle : SendBundle(m, g) \/ SendAck(m, g)
  \/ \E g \in Bundle, to \in Mac \cup {AnyEid} : CancelTransmission(g, to)

MacReport == SegmentSentOk \/ SegmentSentFailed

Next ==
  \/ Request
  \/ SendSegments
  \/ MacReport
  \/ \E p \in Mac, g \in Bundle : ReceiveAck(p, g)
  \/ AckTimeout

(* Scheduled events are run, timers fire, and the MAC reports on every     *)
(* unicast frame.  Neither the router nor a peer owes a step.              *)
Fairness == WF_vars(SendSegments) /\ WF_vars(MacReport) /\ WF_vars(AckTimeout)

Spec == Init /\ [][Next]_vars

FairSpec == Spec /\ Fairness
-----------------------------------------------------------------------------

(* The segment the MAC holds belongs to the head of its queue, so that the *)
(* search in SegmentSentOk and SegmentSentFailed never yields end(), which *)
(* both dereference; a bundle's segment is only in the air while nothing   *)
(* is awaited, so the acknowledgement timer is never started twice.        *)
InFlightIsHead ==
  isSending =>
    \/ /\ current # Null /\ current.sqeType = "ack"
       /\ ackQueue # <<>> /\ current = KeyOf(Head(ackQueue))
    \/ /\ current # Null /\ current.sqeType = "bundle"
       /\ sendQueue # <<>> /\ current = KeyOf(Head(sendQueue))
       /\ Head(sendQueue).segments > 0
       /\ waitingForAck = Null

(* What is awaited is the head of the queue, sent to its last segment, and *)
(* the timer runs for exactly it: BundleSentOk, BundleSentFailed and       *)
(* SendSegments each find the entry they look for, and no stale timer      *)
(* fires for a bundle queued later.                                        *)
AwaitedIsHead ==
  /\ ackTimer = waitingForAck
  /\ waitingForAck # Null =>
       /\ sendQueue # <<>>
       /\ waitingForAck = KeyOf(Head(sendQueue))
       /\ Head(sendQueue).segments = 0

(* The agent never falls asleep over its queues: while either holds an     *)
(* entry, the MAC owes a report, an event is pending or the timer runs.    *)
(* CancelTransmission schedules nothing and relies on it.                  *)
NeverStalled ==
  sendQueue # <<>> \/ ackQueue # <<>> =>
    isSending \/ pending > 0 \/ ackTimer # Null

(* Transfers do not overlap: behind the head no bundle is begun, and a     *)
(* head with no segment left is awaited or waits to be dropped, so that    *)
(* SendSegments never takes the front of an empty list of segments.        *)
OneTransfer ==
  /\ \A i \in 2..Len(sendQueue) :
       /\ sendQueue[i].segments = NumberOfSegments[sendQueue[i].gbid]
       /\ sendQueue[i].retransmissions = 0
  /\ sendQueue # <<>> /\ Head(sendQueue).segments = 0 =>
       waitingForAck = KeyOf(Head(sendQueue)) \/ Head(sendQueue).cancelled

(* What the router sees of an entry, and of the queue. *)
Seen(e) == [mac |-> e.mac, gbid |-> e.gbid, cancelled |-> e.cancelled]

OutboxView == [i \in 1..Len(sendQueue) |-> Seen(sendQueue[i])]

Promise == INSTANCE Outbox WITH outbox <- OutboxView, reports <- upcalls

(* The agent does what an outbox promises its router: see Outbox. *)
ImplementsOutbox == Promise!Spec

(* Once the router asks for nothing more and no bundle comes in, both      *)
(* queues run empty: every bundle queued is retired, failed or dropped,    *)
(* whatever the MAC answers and whether or not a peer acknowledges.        *)
QueuesDrain ==
  <>[][~Request]_vars => <>[](sendQueue = <<>> /\ ackQueue = <<>>)
=============================================================================
