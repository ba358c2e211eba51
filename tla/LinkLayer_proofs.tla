-------------------------- MODULE LinkLayer_proofs --------------------------
(***************************************************************************)
(* The sending half, for any number of peers, bundles and segments, and    *)
(* any bounds: the safety invariants hold, and it implements Outbox.  And  *)
(* the sending half with its peers: what is reported sent was handed up,   *)
(* and what is handed up is one bundle, whole.  Beside them the link       *)
(* manager, for any peers, time to live, pause and number of failures.     *)
(***************************************************************************)
EXTENDS BundleTransfer, LinkManager, SequenceTheorems, FiniteSetTheorems, TLAPS

(* The invariants checked support each other: together they are inductive. *)
IInv == TypeOK /\ InFlightIsHead /\ AwaitedIsHead /\ NeverStalled /\ OneTransfer

-----------------------------------------------------------------------------
(* The head of a queue is what a search for it finds, and erasing it       *)
(* leaves the tail.                                                        *)

(* The head is what a search for its key finds.                            *)
LEMMA FindHead ==
  ASSUME NEW t, NEW q \in Seq(SendQueueElement(t)), q # <<>>
  PROVE  Find(q, KeyOf(Head(q))) = 1
<1> DEFINE k == KeyOf(Head(q))
           I == {i \in 1..Len(q) : KeyOf(q[i]) = k}
<1>1. 1 \in I /\ \A i \in I : i \in Nat /\ 1 <= i
  OBVIOUS
<1>2. Min(I) = 1
  BY <1>1 DEF Min
<1> QED BY <1>1, <1>2 DEF Find, SelectInSeq

(* To erase the head is to leave the tail.                                 *)
LEMMA RemoveHead ==
  ASSUME NEW t, NEW q \in Seq(SendQueueElement(t)), q # <<>>
  PROVE  RemoveAt(q, 1) = Tail(q)
BY DEF RemoveAt

(* What operator== compares is a key of the kind of its queue.             *)
LEMMA KeyOfIsKey ==
  ASSUME NEW t \in {"bundle", "ack"}, NEW e \in SendQueueElement(t)
  PROVE  KeyOf(e) \in Key /\ KeyOf(e).sqeType = t
BY DEF KeyOf, Key, SendQueueElement

(* What is left when the head leaves a queue with one transfer. *)
LEMMA TailUntouched ==
  ASSUME IInv, SenderAssumption, sendQueue # <<>>
  PROVE  /\ Tail(sendQueue) \in Seq(SendQueueElement("bundle"))
         /\ \A i \in 1..Len(Tail(sendQueue)) :
              /\ Tail(sendQueue)[i].segments
                   = NumberOfSegments[Tail(sendQueue)[i].gbid]
              /\ Tail(sendQueue)[i].segments > 0
              /\ Tail(sendQueue)[i].retransmissions = 0
<1>1. sendQueue \in Seq(SendQueueElement("bundle"))
  BY DEF IInv, TypeOK
<1>2. /\ Tail(sendQueue) \in Seq(SendQueueElement("bundle"))
      /\ Len(Tail(sendQueue)) = Len(sendQueue) - 1
      /\ \A i \in 1..Len(Tail(sendQueue)) : Tail(sendQueue)[i] = sendQueue[i + 1]
  BY <1>1, SMT
<1>3. ASSUME NEW i \in 1..Len(Tail(sendQueue))
      PROVE  /\ Tail(sendQueue)[i].segments
                  = NumberOfSegments[Tail(sendQueue)[i].gbid]
             /\ Tail(sendQueue)[i].segments > 0
             /\ Tail(sendQueue)[i].retransmissions = 0
  <2>1. i + 1 \in 2..Len(sendQueue) /\ i + 1 \in 1..Len(sendQueue)
    BY <1>1, <1>2
  <2>2. sendQueue[i + 1] \in SendQueueElement("bundle")
    BY <1>1, <2>1
  <2>3. sendQueue[i + 1].gbid \in Bundle
    BY <2>2 DEF SendQueueElement
  <2> QED BY <1>2, <2>1, <2>3 DEF IInv, OneTransfer, SenderAssumption
<1> QED BY <1>2, <1>3

(* A new entry is one.                                                     *)
LEMMA ElementIsElement ==
  ASSUME NEW m \in Mac, NEW g \in Bundle, NEW n \in Nat, NEW t \in {"bundle", "ack"},
         NEW s \in 0..(SequenceModulus - 1)
  PROVE  Element(t, m, g, s, n) \in SendQueueElement(t)
BY DEF Element, SendQueueElement, RetransmissionLimit

-----------------------------------------------------------------------------
(* One lemma for each action, or for each branch of it. *)

(* A bundle is queued: nothing of the head changes.                        *)
LEMMA SendBundleStep ==
  ASSUME IInv, SenderAssumption, NEW m \in Mac, NEW g \in Bundle, SendBundle(m, g)
  PROVE  IInv'
<1> DEFINE e == Element("bundle", m, g, sequenceNumber, NumberOfSegments[g])
<1>1. /\ e \in SendQueueElement("bundle")
      /\ e.segments = NumberOfSegments[e.gbid] /\ e.segments > 0
      /\ e.retransmissions = 0
  <2>1. /\ NumberOfSegments[g] \in Nat /\ NumberOfSegments[g] > 0
        /\ sequenceNumber \in 0..(SequenceModulus - 1)
    BY DEF SenderAssumption, IInv, TypeOK
  <2>2. e \in SendQueueElement("bundle")
    BY <2>1, ElementIsElement
  <2> QED BY <2>1, <2>2 DEF Element
<1>2. /\ sendQueue \in Seq(SendQueueElement("bundle"))
      /\ sendQueue' = Append(sendQueue, e)
  BY DEF IInv, TypeOK, SendBundle, Enqueue
<1>3. /\ sendQueue' \in Seq(SendQueueElement("bundle"))
      /\ sendQueue' # <<>>
      /\ Len(sendQueue') = Len(sendQueue) + 1
      /\ \A i \in 1..Len(sendQueue) : sendQueue'[i] = sendQueue[i]
      /\ sendQueue'[Len(sendQueue) + 1] = e
      /\ sendQueue # <<>> => Head(sendQueue') = Head(sendQueue)
      /\ sendQueue = <<>> => Head(sendQueue') = e
  BY <1>1, <1>2
<1> HIDE DEF e
<1>4. TypeOK'
  <2>1. sequenceNumber' \in 0..(SequenceModulus - 1)
    BY DEF SenderAssumption, IInv, TypeOK, SendBundle, GetSequenceNumber
  <2> QED BY <1>3, <2>1 DEF IInv, TypeOK, SendBundle
<1>5. InFlightIsHead'
  BY <1>3 DEF IInv, InFlightIsHead, SendBundle
<1>6. AwaitedIsHead'
  BY <1>3 DEF IInv, AwaitedIsHead, SendBundle
<1>7. NeverStalled'
  BY DEF IInv, TypeOK, NeverStalled, SendBundle
<1>8. OneTransfer'
  <2>1. ASSUME NEW i \in 2..Len(sendQueue')
        PROVE  /\ sendQueue'[i].segments = NumberOfSegments[sendQueue'[i].gbid]
               /\ sendQueue'[i].retransmissions = 0
    <3>1. CASE i = Len(sendQueue) + 1
      BY <1>1, <1>3, <3>1
    <3>2. CASE i \in 2..Len(sendQueue)
      BY <1>3, <3>2 DEF IInv, OneTransfer
    <3> QED BY <1>2, <1>3, <3>1, <3>2
  <2>2. ASSUME sendQueue' # <<>>, Head(sendQueue').segments = 0
        PROVE  waitingForAck' = KeyOf(Head(sendQueue')) \/ Head(sendQueue').cancelled
    BY <1>1, <1>3, <2>2 DEF IInv, OneTransfer, SendBundle
  <2> QED BY <2>1, <2>2 DEF OneTransfer
<1> QED BY <1>4, <1>5, <1>6, <1>7, <1>8 DEF IInv

(* So with an acknowledgement.                                             *)
LEMMA SendAckStep ==
  ASSUME IInv, SenderAssumption, NEW m \in Mac, NEW g \in Bundle, SendAck(m, g)
  PROVE  IInv'
<1> DEFINE e == Element("ack", m, g, 0, 1)
<1>1. e \in SendQueueElement("ack")
  <2>1. 0 \in 0..(SequenceModulus - 1)
    BY DEF SenderAssumption
  <2> QED BY <2>1, ElementIsElement
<1>2. ackQueue \in Seq(SendQueueElement("ack")) /\ ackQueue' = Append(ackQueue, e)
  BY DEF IInv, TypeOK, SendAck, Enqueue
<1>3. /\ ackQueue' \in Seq(SendQueueElement("ack"))
      /\ ackQueue' # <<>>
      /\ ackQueue # <<>> => Head(ackQueue') = Head(ackQueue)
  BY <1>1, <1>2
<1> HIDE DEF e
<1>4. TypeOK'
  BY <1>3 DEF IInv, TypeOK, SendAck
<1>5. InFlightIsHead' /\ AwaitedIsHead' /\ OneTransfer'
  BY <1>3 DEF IInv, InFlightIsHead, AwaitedIsHead, OneTransfer, SendAck
<1>6. NeverStalled'
  BY DEF IInv, TypeOK, NeverStalled, SendAck
<1> QED BY <1>4, <1>5, <1>6 DEF IInv

(* Marking entries changes no key and no counter.                          *)
LEMMA CancelTransmissionStep ==
  ASSUME IInv, SenderAssumption,
         NEW g \in Bundle, NEW to \in Mac \cup {AnyEid}, CancelTransmission(g, to)
  PROVE  IInv'
<1> DEFINE hit == {i \in 1..Len(sendQueue) : /\ sendQueue[i].gbid = g
                                             /\ to \in {AnyEid, sendQueue[i].mac}
                                             /\ ~sendQueue[i].cancelled}
           mark(i) == IF i \in hit THEN [sendQueue[i] EXCEPT !.cancelled = TRUE]
                                   ELSE sendQueue[i]
<1>1. sendQueue \in Seq(SendQueueElement("bundle"))
  BY DEF IInv, TypeOK
<1>2. \A i \in 1..Len(sendQueue) : sendQueue[i] \in SendQueueElement("bundle")
  BY <1>1
<1>3. ASSUME NEW i \in 1..Len(sendQueue)
      PROVE  /\ mark(i) \in SendQueueElement("bundle")
             /\ KeyOf(mark(i)) = KeyOf(sendQueue[i])
             /\ mark(i).gbid = sendQueue[i].gbid
             /\ mark(i).segments = sendQueue[i].segments
             /\ mark(i).retransmissions = sendQueue[i].retransmissions
             /\ sendQueue[i].cancelled => mark(i).cancelled
  <2> HIDE DEF hit
  <2> QED BY <1>2 DEF KeyOf, SendQueueElement
<1>4. sendQueue' = [i \in 1..Len(sendQueue) |-> mark(i)]
  BY DEF CancelTransmission
<1> HIDE DEF mark
<1>5. /\ sendQueue' \in Seq(SendQueueElement("bundle"))
      /\ Len(sendQueue') = Len(sendQueue)
      /\ \A i \in 1..Len(sendQueue) : sendQueue'[i] = mark(i)
  BY <1>1, <1>3, <1>4
<1>6. /\ sendQueue' # <<>> <=> sendQueue # <<>>
      /\ sendQueue # <<>> => /\ 1 \in 1..Len(sendQueue)
                             /\ Head(sendQueue') = mark(1)
                             /\ Head(sendQueue) = sendQueue[1]
  BY <1>1, <1>5
<1>7. TypeOK'
  <2>1. upcalls' = {Upcall("cancelled", sendQueue[i].mac, g) : i \in hit}
    BY DEF CancelTransmission
  <2>2. \A i \in hit : Upcall("cancelled", sendQueue[i].mac, g)
                         \in [kind : {"sent", "failed", "cancelled"},
                              mac : Mac, gbid : Bundle]
    BY <1>2 DEF Upcall, SendQueueElement
  <2> HIDE DEF hit
  <2>3. upcalls' \in SUBSET [kind : {"sent", "failed", "cancelled"},
                             mac : Mac, gbid : Bundle]
    BY <2>1, <2>2
  <2>4. UNCHANGED <<sequenceNumber, ackQueue, current, waitingForAck, ackTimer,
                    isSending, pending>>
    BY DEF CancelTransmission
  <2>5. TypeOK
    BY DEF IInv
  <2> QED BY <1>5, <2>3, <2>4, <2>5 DEF TypeOK
<1>8. InFlightIsHead' /\ AwaitedIsHead'
  BY <1>3, <1>6 DEF IInv, InFlightIsHead, AwaitedIsHead, CancelTransmission
<1>9. NeverStalled'
  BY <1>6 DEF IInv, NeverStalled, CancelTransmission
<1>10. OneTransfer'
  <2>1. ASSUME NEW i \in 2..Len(sendQueue')
        PROVE  /\ sendQueue'[i].segments = NumberOfSegments[sendQueue'[i].gbid]
               /\ sendQueue'[i].retransmissions = 0
    BY <1>1, <1>3, <1>5 DEF IInv, OneTransfer
  <2>2. ASSUME sendQueue' # <<>>, Head(sendQueue').segments = 0
        PROVE  waitingForAck' = KeyOf(Head(sendQueue')) \/ Head(sendQueue').cancelled
    BY <1>3, <1>6, <2>2 DEF IInv, OneTransfer, CancelTransmission
  <2> QED BY <2>1, <2>2 DEF OneTransfer
<1> QED BY <1>7, <1>8, <1>9, <1>10 DEF IInv

(* When the head has left and nothing is awaited, no transfer is begun. *)
LEMMA HeadLeaves ==
  ASSUME IInv, SenderAssumption, sendQueue # <<>>, sendQueue' = Tail(sendQueue)
  PROVE  sendQueue' \in Seq(SendQueueElement("bundle")) /\ OneTransfer'
<1>1. /\ sendQueue' \in Seq(SendQueueElement("bundle"))
      /\ \A i \in 1..Len(sendQueue') :
           /\ sendQueue'[i].segments = NumberOfSegments[sendQueue'[i].gbid]
           /\ sendQueue'[i].segments > 0
           /\ sendQueue'[i].retransmissions = 0
  BY TailUntouched
<1>2. sendQueue' # <<>> => 1 \in 1..Len(sendQueue') /\ Head(sendQueue') = sendQueue'[1]
  BY <1>1
<1>3. \A i \in 2..Len(sendQueue') : i \in 1..Len(sendQueue')
  BY <1>1
<1>4. \A i \in 2..Len(sendQueue') :
        /\ sendQueue'[i].segments = NumberOfSegments[sendQueue'[i].gbid]
        /\ sendQueue'[i].retransmissions = 0
  BY <1>1, <1>3
<1>5. sendQueue' # <<>> => Head(sendQueue').segments # 0
  BY <1>1, <1>2
<1> QED BY <1>1, <1>4, <1>5 DEF OneTransfer

(* One case for each branch of SendSegments.                               *)
LEMMA SendSegmentsStep ==
  ASSUME IInv, SenderAssumption, SendSegments
  PROVE  IInv'
<1>1. /\ pending \in Nat /\ pending > 0 /\ upcalls' = {}
      /\ pending - 1 \in Nat
      /\ UNCHANGED sequenceNumber
      /\ sendQueue \in Seq(SendQueueElement("bundle"))
      /\ ackQueue \in Seq(SendQueueElement("ack"))
  BY DEF IInv, TypeOK, SendSegments
<1>2. /\ sendQueue # <<>> => /\ KeyOf(Head(sendQueue)) \in Key
                           /\ KeyOf(Head(sendQueue)).sqeType = "bundle"
      /\ ackQueue # <<>> => /\ KeyOf(Head(ackQueue)) \in Key
                            /\ KeyOf(Head(ackQueue)).sqeType = "ack"
  BY <1>1, KeyOfIsKey
<1>3. CASE SendAckSegment
  <2>1. TypeOK'
    BY <1>1, <1>2, <1>3 DEF IInv, TypeOK, SendAckSegment
  <2>2. InFlightIsHead'
    BY <1>2, <1>3 DEF InFlightIsHead, SendAckSegment, SenderAssumption
  <2>3. AwaitedIsHead' /\ NeverStalled' /\ OneTransfer'
    BY <1>3 DEF IInv, AwaitedIsHead, NeverStalled, OneTransfer, SendAckSegment
  <2> QED BY <2>1, <2>2, <2>3 DEF IInv
<1>4. CASE SendBundleSegment
  <2>1. TypeOK'
    BY <1>1, <1>2, <1>4 DEF IInv, TypeOK, SendBundleSegment
  <2>2. Head(sendQueue).segments > 0
    <3>1. Head(sendQueue) \in SendQueueElement("bundle")
      BY <1>1, <1>4 DEF SendBundleSegment
    <3>2. Head(sendQueue).segments # 0
      BY <1>2, <1>4 DEF IInv, OneTransfer, SendBundleSegment, MaySend, SenderAssumption
    <3> QED BY <3>1, <3>2 DEF SendQueueElement
  <2>3. InFlightIsHead'
    BY <1>2, <1>4, <2>2 DEF InFlightIsHead, SendBundleSegment, MaySend, SenderAssumption
  <2>4. AwaitedIsHead' /\ NeverStalled' /\ OneTransfer'
    BY <1>4 DEF IInv, AwaitedIsHead, NeverStalled, OneTransfer, SendBundleSegment
  <2> QED BY <2>1, <2>3, <2>4 DEF IInv
<1>5. CASE DropCancelled
  <2>1. waitingForAck' = Null /\ ackTimer' = Null
    BY <1>5 DEF IInv, AwaitedIsHead, DropCancelled, StopWaiting
  <2>2. sendQueue' \in Seq(SendQueueElement("bundle")) /\ OneTransfer'
    BY <1>5, HeadLeaves DEF DropCancelled
  <2>3. TypeOK'
    BY <1>1, <1>5, <2>1, <2>2 DEF IInv, TypeOK, DropCancelled
  <2>4. InFlightIsHead' /\ AwaitedIsHead' /\ NeverStalled'
    BY <1>1, <1>5, <2>1 DEF InFlightIsHead, AwaitedIsHead, NeverStalled, DropCancelled
  <2> QED BY <2>2, <2>3, <2>4 DEF IInv
<1>6. CASE SendNothing
  <2>1. TypeOK'
    BY <1>1, <1>6 DEF IInv, TypeOK, SendNothing
  <2>2. InFlightIsHead' /\ AwaitedIsHead' /\ OneTransfer'
    BY <1>6 DEF IInv, InFlightIsHead, AwaitedIsHead, OneTransfer, SendNothing
  <2>3. NeverStalled'
    BY <1>6 DEF IInv, AwaitedIsHead, NeverStalled, SendNothing, MaySend
  <2> QED BY <2>1, <2>2, <2>3 DEF IInv
<1> QED BY <1>3, <1>4, <1>5, <1>6 DEF SendSegments

(* The entry the MAC reports on is the head of its queue. *)
LEMMA InFlightFound ==
  ASSUME IInv, SenderAssumption, isSending
  PROVE  /\ current.sqeType = "ack" =>
              /\ ackQueue # <<>>
              /\ Find(ackQueue, current) = 1
              /\ RemoveAt(ackQueue, 1) = Tail(ackQueue)
         /\ current.sqeType = "bundle" =>
              /\ sendQueue # <<>>
              /\ current = KeyOf(Head(sendQueue))
              /\ Find(sendQueue, current) = 1
              /\ RemoveAt(sendQueue, 1) = Tail(sendQueue)
              /\ Head(sendQueue).segments > 0
              /\ waitingForAck = Null
<1>1. /\ sendQueue \in Seq(SendQueueElement("bundle"))
      /\ ackQueue \in Seq(SendQueueElement("ack"))
  BY DEF IInv, TypeOK
<1> QED BY <1>1, FindHead, RemoveHead DEF IInv, InFlightIsHead

(* When only the head's counters change, it stays the only transfer. *)
LEMMA HeadCounters ==
  ASSUME IInv, SenderAssumption, sendQueue # <<>>,
         NEW h \in SendQueueElement("bundle"),
         KeyOf(h) = KeyOf(Head(sendQueue)),
         sendQueue' = [sendQueue EXCEPT ![1] = h],
         h.segments = 0 => waitingForAck' = KeyOf(h) \/ h.cancelled
  PROVE  /\ sendQueue' \in Seq(SendQueueElement("bundle"))
         /\ sendQueue' # <<>> /\ Head(sendQueue') = h
         /\ OneTransfer'
<1>1. sendQueue \in Seq(SendQueueElement("bundle"))
  BY DEF IInv, TypeOK
<1>2. /\ sendQueue' \in Seq(SendQueueElement("bundle"))
      /\ sendQueue' # <<>> /\ Head(sendQueue') = h
      /\ Len(sendQueue') = Len(sendQueue)
      /\ \A i \in 2..Len(sendQueue) : sendQueue'[i] = sendQueue[i]
  BY <1>1
<1>3. OneTransfer'
  BY <1>2 DEF IInv, OneTransfer
<1> QED BY <1>2, <1>3

(* A segment less is left of the head, or it is awaited.                   *)
LEMMA SegmentSentOkStep ==
  ASSUME IInv, SenderAssumption, SegmentSentOk
  PROVE  IInv'
<1>1. /\ isSending /\ isSending' = FALSE /\ current' = current
      /\ UNCHANGED sequenceNumber
      /\ pending' = pending + 1 /\ pending' \in Nat /\ pending' > 0
      /\ upcalls' = {}
      /\ sendQueue \in Seq(SendQueueElement("bundle"))
      /\ ackQueue \in Seq(SendQueueElement("ack"))
  BY DEF IInv, TypeOK, SegmentSentOk
<1>2. InFlightIsHead' /\ NeverStalled'
  BY <1>1 DEF InFlightIsHead, NeverStalled
<1>3. CASE AckSentOk
  <2>1. /\ ackQueue' = Tail(ackQueue) /\ ackQueue # <<>>
        /\ UNCHANGED <<sendQueue, waitingForAck, ackTimer>>
    BY <1>1, <1>3, InFlightFound DEF AckSentOk
  <2>2. ackQueue' \in Seq(SendQueueElement("ack"))
    BY <1>1, <2>1
  <2>3. TypeOK' /\ AwaitedIsHead' /\ OneTransfer'
    BY <1>1, <2>1, <2>2 DEF IInv, TypeOK, AwaitedIsHead, OneTransfer
  <2> QED BY <1>2, <2>3 DEF IInv
<1>4. CASE BundleSegmentSentOk
  <2> DEFINE h == [sendQueue[1] EXCEPT !.segments = @ - 1, !.retransmissions = 0]
  <2>1. /\ sendQueue # <<>> /\ Head(sendQueue) = sendQueue[1]
        /\ Find(sendQueue, current) = 1
        /\ current = KeyOf(Head(sendQueue))
        /\ waitingForAck = Null
        /\ sendQueue[1] \in SendQueueElement("bundle")
        /\ sendQueue[1].segments > 0
    BY <1>1, <1>4, InFlightFound DEF BundleSegmentSentOk
  <2>2. /\ h \in SendQueueElement("bundle")
        /\ h.segments = sendQueue[1].segments - 1
        /\ KeyOf(h) = KeyOf(Head(sendQueue))
    <3> DEFINE e == sendQueue[1]
    <3>1. e.segments - 1 \in Nat /\ 0 \in 0..RetransmissionLimit
      BY <2>1 DEF SendQueueElement, RetransmissionLimit
    <3>2. ASSUME NEW n \in Nat, NEW r \in 0..RetransmissionLimit
          PROVE  LET f == [e EXCEPT !.segments = n, !.retransmissions = r]
                 IN  /\ f \in SendQueueElement("bundle")
                     /\ f.segments = n
                     /\ KeyOf(f) = KeyOf(e)
      BY <2>1 DEF SendQueueElement, KeyOf
    <3> QED BY <2>1, <3>1, <3>2
  <2>3. sendQueue' = [sendQueue EXCEPT ![1] = h]
    BY <1>1, <1>4, <2>1 DEF BundleSegmentSentOk
  <2>4. /\ ackQueue' = ackQueue
        /\ IF sendQueue[1].segments = 1
           THEN waitingForAck' = current /\ ackTimer' = current
           ELSE UNCHANGED <<waitingForAck, ackTimer>>
    BY <1>4, <2>1 DEF BundleSegmentSentOk
  <2> HIDE DEF h
  <2>5. h.segments = 0 => waitingForAck' = KeyOf(h)
    BY <2>1, <2>2, <2>4 DEF SendQueueElement
  <2>6. /\ sendQueue' \in Seq(SendQueueElement("bundle"))
        /\ sendQueue' # <<>> /\ Head(sendQueue') = h
        /\ OneTransfer'
    BY <2>1, <2>2, <2>3, <2>5, HeadCounters
  <2>7. TypeOK'
    BY <1>1, <2>4, <2>6 DEF IInv, TypeOK
  <2>8. AwaitedIsHead'
    <3>1. CASE sendQueue[1].segments = 1
      BY <2>1, <2>2, <2>4, <2>6, <3>1 DEF AwaitedIsHead
    <3>2. CASE sendQueue[1].segments # 1
      BY <2>1, <2>4, <3>2 DEF IInv, AwaitedIsHead
    <3> QED BY <3>1, <3>2
  <2> QED BY <1>2, <2>6, <2>7, <2>8 DEF IInv
<1> QED BY <1>3, <1>4 DEF SegmentSentOk

(* The head is tried again, or leaves, or waits to be dropped.             *)
LEMMA SegmentSentFailedStep ==
  ASSUME IInv, SenderAssumption, SegmentSentFailed
  PROVE  IInv'
<1>1. /\ isSending /\ isSending' = FALSE
      /\ UNCHANGED <<sequenceNumber, current, waitingForAck, ackTimer>>
      /\ pending \in Nat
      /\ sendQueue \in Seq(SendQueueElement("bundle"))
      /\ ackQueue \in Seq(SendQueueElement("ack"))
  BY DEF IInv, TypeOK, SegmentSentFailed
<1>2. CASE AckSentFailed
  <2>1. /\ ackQueue # <<>> /\ Find(ackQueue, current) = 1
        /\ RemoveAt(ackQueue, 1) = Tail(ackQueue)
        /\ ackQueue[1] \in SendQueueElement("ack")
        /\ pending' = pending + 1 /\ pending' \in Nat /\ pending' > 0
        /\ upcalls' = {} /\ UNCHANGED sendQueue
    BY <1>1, <1>2, InFlightFound DEF AckSentFailed
  <2>2. ackQueue' \in Seq(SendQueueElement("ack"))
    <3>1. CASE Exhausted(ackQueue[1])
      <4>1. ackQueue' = Tail(ackQueue)
        BY <1>2, <2>1, <3>1 DEF AckSentFailed
      <4> QED BY <1>1, <2>1, <4>1
    <3>2. CASE ~Exhausted(ackQueue[1])
      <4> DEFINE f == [ackQueue[1] EXCEPT !.retransmissions = @ + 1]
      <4>1. ackQueue[1].retransmissions + 1 \in 0..RetransmissionLimit
        BY <2>1, <3>2 DEF SendQueueElement, RetransmissionLimit, Exhausted
      <4>2. f \in SendQueueElement("ack")
        BY <2>1, <4>1 DEF SendQueueElement
      <4>3. ackQueue' = [ackQueue EXCEPT ![1] = f]
        BY <1>1, <1>2, <2>1, <3>2 DEF AckSentFailed, Retransmit
      <4> QED BY <1>1, <2>1, <4>2, <4>3
    <3> QED BY <3>1, <3>2
  <2>3. TypeOK'
    BY <1>1, <2>1, <2>2 DEF IInv, TypeOK
  <2>4. InFlightIsHead' /\ AwaitedIsHead' /\ NeverStalled' /\ OneTransfer'
    BY <1>1, <2>1 DEF IInv, InFlightIsHead, AwaitedIsHead, NeverStalled, OneTransfer
  <2> QED BY <2>3, <2>4 DEF IInv
<1>3. CASE BundleSegmentSentFailed
  <2> DEFINE e == sendQueue[1]
  <2>1. /\ sendQueue # <<>> /\ Head(sendQueue) = e
        /\ Find(sendQueue, current) = 1
        /\ RemoveAt(sendQueue, 1) = Tail(sendQueue)
        /\ e \in SendQueueElement("bundle")
        /\ e.segments > 0
        /\ waitingForAck = Null /\ ackTimer = Null
        /\ UNCHANGED ackQueue
    BY <1>1, <1>3, InFlightFound DEF IInv, AwaitedIsHead, BundleSegmentSentFailed
  <2>2. InFlightIsHead' /\ AwaitedIsHead'
    BY <1>1, <2>1 DEF InFlightIsHead, AwaitedIsHead
  <2>3. CASE ~Exhausted(e)
    <3> DEFINE f == [e EXCEPT !.retransmissions = @ + 1]
    <3>1. e.retransmissions + 1 \in 0..RetransmissionLimit
      BY <2>1, <2>3 DEF SendQueueElement, RetransmissionLimit, Exhausted
    <3>2. /\ f \in SendQueueElement("bundle")
          /\ KeyOf(f) = KeyOf(Head(sendQueue)) /\ f.segments # 0
      <4>1. ASSUME NEW r \in 0..RetransmissionLimit
            PROVE  LET d == [e EXCEPT !.retransmissions = r]
                   IN  /\ d \in SendQueueElement("bundle")
                       /\ KeyOf(d) = KeyOf(e) /\ d.segments = e.segments
        BY <2>1 DEF SendQueueElement, KeyOf
      <4> QED BY <2>1, <3>1, <4>1
    <3>3. /\ sendQueue' = [sendQueue EXCEPT ![1] = f]
          /\ pending' = pending + 1 /\ pending' \in Nat /\ pending' > 0
          /\ upcalls' = {}
      BY <1>1, <1>3, <2>1, <2>3 DEF BundleSegmentSentFailed, Retransmit
    <3> HIDE DEF f, e
    <3>4. sendQueue' \in Seq(SendQueueElement("bundle")) /\ OneTransfer'
      BY <2>1, <3>2, <3>3, HeadCounters
    <3>5. TypeOK' /\ NeverStalled'
      BY <1>1, <2>1, <3>3, <3>4 DEF IInv, TypeOK, NeverStalled
    <3> QED BY <2>2, <3>4, <3>5 DEF IInv
  <2>4. CASE Exhausted(e)
    <3>1. /\ BundleSentFailed(1, e.mac, e.gbid)
          /\ pending' = pending + 2 /\ pending' \in Nat /\ pending' > 0
      BY <1>1, <1>3, <2>1, <2>4 DEF BundleSegmentSentFailed
    <3>2. /\ \/ sendQueue' = sendQueue
             \/ sendQueue' = Tail(sendQueue)
          /\ upcalls' \in SUBSET {Upcall("failed", e.mac, e.gbid)}
      BY <2>1, <3>1 DEF BundleSentFailed
    <3>3. sendQueue' \in Seq(SendQueueElement("bundle")) /\ OneTransfer'
      <4>1. CASE sendQueue' = sendQueue
        BY <1>1, <4>1 DEF IInv, OneTransfer
      <4>2. CASE sendQueue' = Tail(sendQueue)
        BY <2>1, <4>2, HeadLeaves
      <4> QED BY <3>2, <4>1, <4>2
    <3>4. Upcall("failed", e.mac, e.gbid)
            \in [kind : {"sent", "failed", "cancelled"}, mac : Mac, gbid : Bundle]
      BY <2>1 DEF Upcall, SendQueueElement
    <3> HIDE DEF e
    <3>5. TypeOK' /\ NeverStalled'
      BY <1>1, <2>1, <3>1, <3>2, <3>3, <3>4 DEF IInv, TypeOK, NeverStalled
    <3> QED BY <2>2, <3>3, <3>5 DEF IInv
  <2> QED BY <2>3, <2>4
<1> QED BY <1>2, <1>3 DEF SegmentSentFailed

(* The entry awaited is the head of the queue. *)
LEMMA AwaitedFound ==
  ASSUME IInv, SenderAssumption, waitingForAck # Null
  PROVE  /\ sendQueue # <<>>
         /\ Find(sendQueue, waitingForAck) = 1
         /\ RemoveAt(sendQueue, 1) = Tail(sendQueue)
         /\ Head(sendQueue) = sendQueue[1]
         /\ sendQueue[1] \in SendQueueElement("bundle")
         /\ waitingForAck.gbid = sendQueue[1].gbid
         /\ waitingForAck.mac = sendQueue[1].mac
         /\ isSending => current.sqeType = "ack"
<1>1. sendQueue \in Seq(SendQueueElement("bundle"))
  BY DEF IInv, TypeOK
<1> QED BY <1>1, FindHead, RemoveHead DEF IInv, AwaitedIsHead, InFlightIsHead, KeyOf

(* The entry awaited is the head, and leaves.                              *)
LEMMA ReceiveAckStep ==
  ASSUME IInv, SenderAssumption, NEW p \in Mac, NEW g \in Bundle, ReceiveAck(p, g)
  PROVE  IInv'
<1>1. /\ pending' = pending + 1 /\ pending' \in Nat /\ pending' > 0
      /\ upcalls' = {Upcall("sent", p, g)}
      /\ UNCHANGED <<sequenceNumber, ackQueue, current, isSending>>
      /\ sendQueue \in Seq(SendQueueElement("bundle"))
  BY DEF IInv, TypeOK, ReceiveAck
<1>2. upcalls' \in SUBSET [kind : {"sent", "failed", "cancelled"},
                           mac : Mac, gbid : Bundle]
  BY <1>1 DEF Upcall
<1>3. NeverStalled'
  BY <1>1 DEF NeverStalled
<1>4. CASE Awaiting(g)
  <2>1. /\ sendQueue # <<>> /\ sendQueue' = Tail(sendQueue)
        /\ waitingForAck' = Null /\ ackTimer' = Null
        /\ isSending => current.sqeType = "ack"
    BY <1>4, AwaitedFound DEF ReceiveAck, Awaiting
  <2>2. sendQueue' \in Seq(SendQueueElement("bundle")) /\ OneTransfer'
    BY <2>1, HeadLeaves
  <2>3. TypeOK' /\ InFlightIsHead' /\ AwaitedIsHead'
    BY <1>1, <1>2, <2>1, <2>2 DEF IInv, TypeOK, InFlightIsHead, AwaitedIsHead
  <2> QED BY <1>3, <2>2, <2>3 DEF IInv
<1>5. CASE ~Awaiting(g)
  <2>1. UNCHANGED <<sendQueue, waitingForAck, ackTimer>>
    BY <1>5 DEF ReceiveAck
  <2>2. TypeOK' /\ InFlightIsHead' /\ AwaitedIsHead' /\ OneTransfer'
    BY <1>1, <1>2, <2>1 DEF IInv, TypeOK, InFlightIsHead, AwaitedIsHead, OneTransfer
  <2> QED BY <1>3, <2>2 DEF IInv
<1> QED BY <1>4, <1>5

(* So with the entry whose timer fires, unless it was cancelled.           *)
LEMMA AckTimeoutStep ==
  ASSUME IInv, SenderAssumption, AckTimeout
  PROVE  IInv'
<1>1. /\ waitingForAck # Null /\ ackTimer = waitingForAck
      /\ ackTimer' = Null
      /\ pending' = pending + 1 /\ pending' \in Nat /\ pending' > 0
      /\ UNCHANGED <<sequenceNumber, ackQueue, current, isSending>>
      /\ sendQueue \in Seq(SendQueueElement("bundle"))
  BY DEF IInv, TypeOK, AwaitedIsHead, AckTimeout
<1>2. /\ sendQueue # <<>> /\ RemoveAt(sendQueue, 1) = Tail(sendQueue)
      /\ sendQueue[1] \in SendQueueElement("bundle")
      /\ Find(sendQueue, waitingForAck) = 1
      /\ Head(sendQueue) = sendQueue[1]
      /\ waitingForAck.gbid = sendQueue[1].gbid
      /\ waitingForAck.mac = sendQueue[1].mac
      /\ isSending => current.sqeType = "ack"
  BY <1>1, AwaitedFound
<1>3. /\ waitingForAck' = Null
      /\ BundleSentFailed(1, ackTimer.mac, ackTimer.gbid)
  BY <1>1, <1>2 DEF AckTimeout, Awaiting
<1>4. /\ \/ sendQueue' = sendQueue /\ Head(sendQueue).cancelled
         \/ sendQueue' = Tail(sendQueue)
      /\ upcalls' \in SUBSET {Upcall("failed", sendQueue[1].mac, sendQueue[1].gbid)}
  BY <1>1, <1>2, <1>3 DEF BundleSentFailed
<1>5. sendQueue' \in Seq(SendQueueElement("bundle")) /\ OneTransfer'
  <2>1. CASE sendQueue' = sendQueue /\ Head(sendQueue).cancelled
    BY <1>1, <2>1 DEF IInv, OneTransfer
  <2>2. CASE sendQueue' = Tail(sendQueue)
    BY <1>2, <2>2, HeadLeaves
  <2> QED BY <1>4, <2>1, <2>2
<1>6. Upcall("failed", sendQueue[1].mac, sendQueue[1].gbid)
        \in [kind : {"sent", "failed", "cancelled"}, mac : Mac, gbid : Bundle]
  BY <1>2 DEF Upcall, SendQueueElement
<1>7. TypeOK'
  BY <1>1, <1>3, <1>4, <1>5, <1>6 DEF IInv, TypeOK
<1>8. InFlightIsHead' /\ AwaitedIsHead' /\ NeverStalled'
  BY <1>1, <1>2, <1>3 DEF IInv, InFlightIsHead, AwaitedIsHead, NeverStalled
<1> QED BY <1>5, <1>7, <1>8 DEF IInv

-----------------------------------------------------------------------------

(* Every step keeps the invariant.                                         *)
LEMMA Inductive ==
  ASSUME SenderAssumption, IInv, [Next]_vars
  PROVE  IInv'
<1>1. CASE Request
  BY <1>1, SendBundleStep, SendAckStep, CancelTransmissionStep DEF Request
<1>2. CASE SendSegments
  BY <1>2, SendSegmentsStep
<1>3. CASE MacReport
  BY <1>3, SegmentSentOkStep, SegmentSentFailedStep DEF MacReport
<1>4. CASE \E p \in Mac, g \in Bundle : ReceiveAck(p, g)
  BY <1>4, ReceiveAckStep
<1>5. CASE AckTimeout
  BY <1>5, AckTimeoutStep
<1>6. CASE UNCHANGED vars
  BY <1>6 DEF IInv, TypeOK, InFlightIsHead, AwaitedIsHead, NeverStalled,
              OneTransfer, vars
<1> QED BY <1>1, <1>2, <1>3, <1>4, <1>5, <1>6 DEF Next

(* The invariant holds at first.                                           *)
LEMMA Initial ==
  ASSUME SenderAssumption, Init
  PROVE  IInv
<1>1. TypeOK
  <2>1. sequenceNumber \in 0..(SequenceModulus - 1)
    BY DEF Init, SenderAssumption
  <2> QED BY <2>1, EmptySeq DEF Init, TypeOK
<1>2. InFlightIsHead /\ AwaitedIsHead /\ NeverStalled
  BY DEF Init, InFlightIsHead, AwaitedIsHead, NeverStalled
<1>3. OneTransfer
  BY DEF Init, OneTransfer
<1> QED BY <1>1, <1>2, <1>3 DEF IInv

(* The inductive invariant holds in every reachable state. *)
THEOREM Invariance == Spec => []IInv
<1>1. Init => IInv
  BY Initial, SenderAssumption
<1>2. IInv /\ [Next]_vars => IInv'
  BY Inductive, SenderAssumption
<1> QED BY <1>1, <1>2, PTL DEF Spec

(* Every variable keeps its type. *)
THEOREM TypeCorrect == Spec => []TypeOK
<1>1. IInv => TypeOK
  BY DEF IInv
<1> QED BY <1>1, Invariance, PTL

(* SegmentSentOk, SegmentSentFailed, BundleSentOk and BundleSentFailed     *)
(* always find the entry they search their queue for, at its head, and the *)
(* acknowledgement timer runs for exactly the entry awaited.               *)
THEOREM SearchesFindTheHead == Spec => [](InFlightIsHead /\ AwaitedIsHead)
<1>1. IInv => InFlightIsHead /\ AwaitedIsHead
  BY DEF IInv
<1> QED BY <1>1, Invariance, PTL

(* At most one bundle is between its first segment and its acknowledgement. *)
THEOREM TransfersDoNotOverlap == Spec => []OneTransfer
<1>1. IInv => OneTransfer
  BY DEF IInv
<1> QED BY <1>1, Invariance, PTL

(* While an entry is queued, an event that will move it on is under way. *)
THEOREM AgentNeverStalls == Spec => []NeverStalled
<1>1. IInv => NeverStalled
  BY DEF IInv
<1> QED BY <1>1, Invariance, PTL

-----------------------------------------------------------------------------
(* Refinement: what each change of the queue looks like to the router. *)

(* What the router sees of a queue is a list of its entries.               *)
LEMMA ViewOfSeq ==
  ASSUME NEW q \in Seq(SendQueueElement("bundle"))
  PROVE  LET view == [i \in 1..Len(q) |-> Seen(q[i])]
         IN  /\ view \in Seq(Promise!Entry)
             /\ Len(view) = Len(q)
             /\ \A i \in 1..Len(q) : view[i] = Seen(q[i])
             /\ q # <<>> => view # <<>> /\ Head(view) = Seen(Head(q))
<1>1. \A i \in 1..Len(q) : Seen(q[i]) \in Promise!Entry
  <2> TAKE i \in 1..Len(q)
  <2>1. q[i] \in SendQueueElement("bundle")
    OBVIOUS
  <2> QED BY <2>1 DEF Seen, SendQueueElement, Promise!Entry
<1> QED BY <1>1

(* The router sees the head leave.                                         *)
LEMMA ViewOfTail ==
  ASSUME IInv, sendQueue # <<>>, sendQueue' = Tail(sendQueue)
  PROVE  /\ OutboxView # <<>>
         /\ OutboxView' = Tail(OutboxView)
         /\ Head(OutboxView) = Seen(Head(sendQueue))
<1>1. /\ sendQueue \in Seq(SendQueueElement("bundle"))
      /\ sendQueue' \in Seq(SendQueueElement("bundle"))
      /\ Len(sendQueue) \in Nat
      /\ Len(sendQueue') = Len(sendQueue) - 1
      /\ \A i \in 1..Len(sendQueue') :
           i + 1 \in 1..Len(sendQueue) /\ sendQueue'[i] = sendQueue[i + 1]
  BY DEF IInv, TypeOK
<1>2. /\ OutboxView \in Seq(Promise!Entry)
      /\ Len(OutboxView) = Len(sendQueue)
      /\ \A i \in 1..Len(sendQueue) : OutboxView[i] = Seen(sendQueue[i])
      /\ OutboxView # <<>> /\ Head(OutboxView) = Seen(Head(sendQueue))
  BY <1>1, ViewOfSeq DEF OutboxView
<1>3. /\ OutboxView' \in Seq(Promise!Entry)
      /\ Len(OutboxView') = Len(sendQueue')
      /\ \A i \in 1..Len(sendQueue') : OutboxView'[i] = Seen(sendQueue'[i])
  BY <1>1, ViewOfSeq DEF OutboxView
<1>4. /\ Tail(OutboxView) \in Seq(Promise!Entry)
      /\ Len(Tail(OutboxView)) = Len(OutboxView) - 1
      /\ \A i \in 1..Len(Tail(OutboxView)) : Tail(OutboxView)[i] = OutboxView[i + 1]
  BY <1>2, HeadTailProperties
<1>5. \A i \in 1..Len(OutboxView') : OutboxView'[i] = Tail(OutboxView)[i]
  BY <1>1, <1>2, <1>3, <1>4
<1>6. OutboxView' = Tail(OutboxView)
  BY <1>1, <1>2, <1>3, <1>4, <1>5, SeqEqual
<1> QED BY <1>2, <1>6

(* The router sees nothing of the counters of the entries,                 *)
LEMMA ViewOfSame ==
  ASSUME IInv,
         Len(sendQueue') = Len(sendQueue),
         \A i \in 1..Len(sendQueue) : Seen(sendQueue'[i]) = Seen(sendQueue[i])
  PROVE  OutboxView' = OutboxView
BY DEF OutboxView

(* nor of those of the head alone.                                         *)
LEMMA ViewOfCounters ==
  ASSUME IInv, sendQueue # <<>>, NEW h, Seen(h) = Seen(Head(sendQueue)),
         sendQueue' = [sendQueue EXCEPT ![1] = h]
  PROVE  OutboxView' = OutboxView
<1>1. sendQueue \in Seq(SendQueueElement("bundle"))
  BY DEF IInv, TypeOK
<1>2. /\ Len(sendQueue') = Len(sendQueue)
      /\ sendQueue'[1] = h
      /\ \A i \in 2..Len(sendQueue) : sendQueue'[i] = sendQueue[i]
      /\ Head(sendQueue) = sendQueue[1]
  BY <1>1
<1>3. \A i \in 1..Len(sendQueue) : Seen(sendQueue'[i]) = Seen(sendQueue[i])
  <2> TAKE i \in 1..Len(sendQueue)
  <2>1. i = 1 \/ i \in 2..Len(sendQueue)
    BY <1>1
  <2> QED BY <1>2, <2>1
<1> QED BY <1>2, <1>3, ViewOfSame

(* SendBundle is to accept a bundle.                                       *)
LEMMA AcceptRefined ==
  ASSUME IInv, SenderAssumption, NEW m \in Mac, NEW g \in Bundle, SendBundle(m, g)
  PROVE  Promise!Accept(m, g)
<1> DEFINE e == Element("bundle", m, g, sequenceNumber, NumberOfSegments[g])
           f == [mac |-> m, gbid |-> g, cancelled |-> FALSE]
<1>1. /\ sendQueue \in Seq(SendQueueElement("bundle"))
      /\ sendQueue' = Append(sendQueue, e)
      /\ upcalls' = {}
      /\ NumberOfSegments[g] \in Nat
      /\ sequenceNumber \in 0..(SequenceModulus - 1)
  BY DEF IInv, TypeOK, SendBundle, Enqueue, SenderAssumption
<1>2. Seen(e) = f /\ e \in SendQueueElement("bundle") /\ f \in Promise!Entry
  BY <1>1, ElementIsElement DEF Seen, Element, Promise!Entry
<1>3. OutboxView' = Append(OutboxView, f)
  <2> HIDE DEF e, f
  <2>1. /\ sendQueue' \in Seq(SendQueueElement("bundle"))
        /\ Len(sendQueue) \in Nat
        /\ Len(sendQueue') = Len(sendQueue) + 1
        /\ \A i \in 1..Len(sendQueue) : sendQueue'[i] = sendQueue[i]
        /\ sendQueue'[Len(sendQueue) + 1] = e
    BY <1>1, <1>2
  <2>2. /\ OutboxView \in Seq(Promise!Entry)
        /\ Len(OutboxView) = Len(sendQueue)
        /\ \A i \in 1..Len(sendQueue) : OutboxView[i] = Seen(sendQueue[i])
    BY <1>1, ViewOfSeq DEF OutboxView
  <2>3. /\ OutboxView' \in Seq(Promise!Entry)
        /\ Len(OutboxView') = Len(sendQueue')
        /\ \A i \in 1..Len(sendQueue') : OutboxView'[i] = Seen(sendQueue'[i])
    BY <2>1, ViewOfSeq DEF OutboxView
  <2>4. /\ Append(OutboxView, f) \in Seq(Promise!Entry)
        /\ Len(Append(OutboxView, f)) = Len(sendQueue) + 1
        /\ \A i \in 1..Len(sendQueue) : Append(OutboxView, f)[i] = OutboxView[i]
        /\ Append(OutboxView, f)[Len(sendQueue) + 1] = f
    BY <1>2, <2>2, AppendProperties
  <2>5. \A i \in 1..Len(OutboxView') : OutboxView'[i] = Append(OutboxView, f)[i]
    <3> TAKE i \in 1..Len(OutboxView')
    <3>1. i \in 1..Len(sendQueue) \/ i = Len(sendQueue) + 1
      BY <2>1, <2>3
    <3> QED BY <1>2, <2>1, <2>2, <2>3, <2>4, <3>1
  <2> QED BY <2>1, <2>3, <2>4, <2>5, SeqEqual
<1> QED BY <1>1, <1>3 DEF Promise!Accept

(* CancelTransmission is to cancel at one peer or at all.                  *)
LEMMA CancelRefined ==
  ASSUME IInv, SenderAssumption,
         NEW g \in Bundle, NEW to \in Mac \cup {AnyEid}, CancelTransmission(g, to)
  PROVE  \E peers \in SUBSET Mac : Promise!Cancel(g, peers)
<1> DEFINE peers == IF to = AnyEid THEN Mac ELSE {to}
           hit == {i \in 1..Len(sendQueue) : /\ sendQueue[i].gbid = g
                                             /\ to \in {AnyEid, sendQueue[i].mac}
                                             /\ ~sendQueue[i].cancelled}
           seenHit == {i \in 1..Len(OutboxView) : /\ OutboxView[i].gbid = g
                                                  /\ OutboxView[i].mac \in peers
                                                  /\ ~OutboxView[i].cancelled}
           mark(i) == IF i \in hit THEN [sendQueue[i] EXCEPT !.cancelled = TRUE]
                                   ELSE sendQueue[i]
<1>1. peers \in SUBSET Mac
  OBVIOUS
<1>2. /\ sendQueue \in Seq(SendQueueElement("bundle"))
      /\ Len(sendQueue) \in Nat
      /\ \A i \in 1..Len(sendQueue) : sendQueue[i] \in SendQueueElement("bundle")
  BY DEF IInv, TypeOK
<1>3. /\ Len(OutboxView) = Len(sendQueue)
      /\ \A i \in 1..Len(sendQueue) :
           /\ OutboxView[i] = Seen(sendQueue[i])
           /\ OutboxView[i].mac = sendQueue[i].mac
           /\ OutboxView[i].gbid = sendQueue[i].gbid
           /\ OutboxView[i].cancelled = sendQueue[i].cancelled
  BY <1>2, ViewOfSeq DEF OutboxView, Seen
<1>4. \A i \in 1..Len(sendQueue) :
        to \in {AnyEid, sendQueue[i].mac} <=> sendQueue[i].mac \in peers
  BY <1>2 DEF SendQueueElement, SenderAssumption
<1>5. hit = seenHit
  BY <1>3, <1>4
<1>6. upcalls' = {[kind |-> "cancelled", mac |-> OutboxView[i].mac, gbid |-> g] :
                    i \in seenHit}
  <2>1. upcalls' = {[kind |-> "cancelled", mac |-> sendQueue[i].mac, gbid |-> g] :
                      i \in hit}
    BY DEF CancelTransmission, Upcall
  <2>2. hit \subseteq 1..Len(sendQueue)
    OBVIOUS
  <2> HIDE DEF hit, seenHit
  <2> QED BY <1>3, <1>5, <2>1, <2>2
<1>7. sendQueue' = [i \in 1..Len(sendQueue) |-> mark(i)]
  BY DEF CancelTransmission
<1> DEFINE seenMark(i) == IF i \in seenHit
                        THEN [mac |-> OutboxView[i].mac, gbid |-> g, cancelled |-> TRUE]
                        ELSE OutboxView[i]
<1>8. \A i \in 1..Len(sendQueue) : Seen(mark(i)) = seenMark(i)
  <2> TAKE i \in 1..Len(sendQueue)
  <2>1. CASE i \in hit
    <3> DEFINE e == sendQueue[i]
               f == [e EXCEPT !.cancelled = TRUE]
    <3>1. f.mac = e.mac /\ f.gbid = g /\ f.cancelled = TRUE
      BY <1>2, <2>1 DEF SendQueueElement
    <3>2. mark(i) = f
      BY <2>1
    <3> HIDE DEF f, mark, hit
    <3>3. Seen(mark(i)) = [mac |-> e.mac, gbid |-> g, cancelled |-> TRUE]
      BY <3>1, <3>2, Zenon DEF Seen
    <3> HIDE DEF seenHit
    <3> QED BY <1>3, <1>5, <2>1, <3>3
  <2>2. CASE i \notin hit
    <3>1. mark(i) = sendQueue[i]
      BY <2>2
    <3> HIDE DEF mark, hit, seenHit
    <3> QED BY <1>3, <1>5, <2>2, <3>1
  <2> QED BY <2>1, <2>2
<1>9. /\ Len(sendQueue') = Len(sendQueue)
      /\ \A i \in 1..Len(sendQueue) : sendQueue'[i] = mark(i)
  <2> HIDE DEF mark
  <2> QED BY <1>2, <1>7
<1>10. OutboxView' = [i \in 1..Len(OutboxView) |-> seenMark(i)]
  <2> HIDE DEF mark, seenMark
  <2>1. OutboxView' = [i \in 1..Len(sendQueue) |-> Seen(sendQueue'[i])]
    BY <1>9 DEF OutboxView
  <2> QED BY <1>3, <1>8, <1>9, <2>1
<1>11. Promise!Cancel(g, peers)
  <2> HIDE DEF peers
  <2> QED BY <1>6, <1>10 DEF Promise!Cancel
<1> QED BY <1>1, <1>11

(* What changes no queue and reports nothing is quiet.                     *)
LEMMA QuietRefined ==
  ASSUME UNCHANGED sendQueue, upcalls' = {}
  PROVE  Promise!Quiet
BY DEF OutboxView, Promise!Quiet

(* The entry at the head fails, or stays because it was cancelled. *)
LEMMA FailRefined ==
  ASSUME IInv, sendQueue # <<>>, RemoveAt(sendQueue, 1) = Tail(sendQueue),
         Head(sendQueue) = sendQueue[1],
         BundleSentFailed(1, sendQueue[1].mac, sendQueue[1].gbid)
  PROVE  Promise!Fail \/ Promise!Quiet
<1>1. CASE sendQueue[1].cancelled
  BY <1>1, QuietRefined DEF BundleSentFailed
<1>2. CASE ~sendQueue[1].cancelled
  <2>1. /\ sendQueue' = Tail(sendQueue)
        /\ upcalls' = {[kind |-> "failed", mac |-> sendQueue[1].mac,
                        gbid |-> sendQueue[1].gbid]}
    BY <1>2 DEF BundleSentFailed, Upcall
  <2>2. /\ OutboxView # <<>> /\ OutboxView' = Tail(OutboxView)
        /\ Head(OutboxView) = Seen(sendQueue[1])
    BY <2>1, ViewOfTail
  <2>3. /\ Head(OutboxView).mac = sendQueue[1].mac
        /\ Head(OutboxView).gbid = sendQueue[1].gbid
        /\ ~Head(OutboxView).cancelled
    BY <1>2, <2>2 DEF Seen
  <2> QED BY <2>1, <2>2, <2>3 DEF Promise!Fail
<1> QED BY <1>1, <1>2

(* SendSegments drops a cancelled head or is quiet.                        *)
LEMMA SendSegmentsRefined ==
  ASSUME IInv, SendSegments
  PROVE  Promise!Discard \/ Promise!Quiet
<1>1. upcalls' = {}
  BY DEF SendSegments
<1>2. CASE UNCHANGED sendQueue
  BY <1>1, <1>2, QuietRefined
<1>3. CASE DropCancelled
  <2>1. /\ sendQueue # <<>> /\ sendQueue' = Tail(sendQueue)
        /\ Head(sendQueue).cancelled
    BY <1>3 DEF DropCancelled
  <2>2. /\ OutboxView # <<>> /\ OutboxView' = Tail(OutboxView)
        /\ Head(OutboxView) = Seen(Head(sendQueue))
    BY <2>1, ViewOfTail
  <2> QED BY <1>1, <2>1, <2>2 DEF Promise!Discard, Seen
<1> QED BY <1>2, <1>3 DEF SendSegments, SendAckSegment, SendBundleSegment, SendNothing

(* A segment sent is nothing to the router.                                *)
LEMMA SegmentSentOkRefined ==
  ASSUME IInv, SenderAssumption, SegmentSentOk
  PROVE  Promise!Quiet
<1>1. upcalls' = {} /\ isSending
  BY DEF SegmentSentOk
<1>2. CASE AckSentOk
  BY <1>1, <1>2, QuietRefined DEF AckSentOk
<1>3. CASE BundleSegmentSentOk
  <2> DEFINE h == [sendQueue[1] EXCEPT !.segments = @ - 1, !.retransmissions = 0]
  <2>1. sendQueue # <<>> /\ Find(sendQueue, current) = 1
    BY <1>1, <1>3, InFlightFound DEF BundleSegmentSentOk
  <2>2. /\ sendQueue \in Seq(SendQueueElement("bundle"))
        /\ sendQueue[1] \in SendQueueElement("bundle")
        /\ Head(sendQueue) = sendQueue[1]
    BY <2>1 DEF IInv, TypeOK
  <2>3. sendQueue' = [sendQueue EXCEPT ![1] = h]
    BY <1>3, <2>1, <2>2 DEF BundleSegmentSentOk
  <2>4. Seen(h) = Seen(Head(sendQueue))
    BY <2>2 DEF Seen, SendQueueElement
  <2> HIDE DEF h
  <2>5. OutboxView' = OutboxView
    BY <2>1, <2>3, <2>4, ViewOfCounters
  <2> QED BY <1>1, <2>5 DEF Promise!Quiet
<1> QED BY <1>2, <1>3 DEF SegmentSentOk

(* A segment that failed too often is.                                     *)
LEMMA SegmentSentFailedRefined ==
  ASSUME IInv, SenderAssumption, SegmentSentFailed
  PROVE  Promise!Fail \/ Promise!Quiet
<1>1. isSending
  BY DEF SegmentSentFailed
<1>2. CASE AckSentFailed
  BY <1>2, QuietRefined DEF AckSentFailed
<1>3. CASE BundleSegmentSentFailed
  <2>1. /\ sendQueue # <<>> /\ Find(sendQueue, current) = 1
        /\ RemoveAt(sendQueue, 1) = Tail(sendQueue)
    BY <1>1, <1>3, InFlightFound DEF BundleSegmentSentFailed
  <2>2. /\ sendQueue \in Seq(SendQueueElement("bundle"))
        /\ sendQueue[1] \in SendQueueElement("bundle")
        /\ Head(sendQueue) = sendQueue[1]
    BY <2>1 DEF IInv, TypeOK
  <2>3. CASE Exhausted(sendQueue[1])
    <3>1. BundleSentFailed(1, sendQueue[1].mac, sendQueue[1].gbid)
      BY <1>3, <2>1, <2>3 DEF BundleSegmentSentFailed
    <3> QED BY <2>1, <2>2, <3>1, FailRefined
  <2>4. CASE ~Exhausted(sendQueue[1])
    <3> DEFINE f == [sendQueue[1] EXCEPT !.retransmissions = @ + 1]
    <3>1. sendQueue' = [sendQueue EXCEPT ![1] = f] /\ upcalls' = {}
      BY <1>3, <2>1, <2>2, <2>4 DEF BundleSegmentSentFailed, Retransmit
    <3>2. Seen(f) = Seen(Head(sendQueue))
      BY <2>2 DEF Seen, SendQueueElement
    <3> HIDE DEF f
    <3>3. OutboxView' = OutboxView
      BY <2>1, <3>1, <3>2, ViewOfCounters
    <3> QED BY <3>1, <3>3 DEF Promise!Quiet
  <2> QED BY <2>3, <2>4
<1> QED BY <1>2, <1>3 DEF SegmentSentFailed

(* An acknowledgement retires the head or is passed on.                    *)
LEMMA ReceiveAckRefined ==
  ASSUME IInv, SenderAssumption, NEW p \in Mac, NEW g \in Bundle, ReceiveAck(p, g)
  PROVE  Promise!Retire(p) \/ Promise!PassOn(p, g)
<1>1. upcalls' = {[kind |-> "sent", mac |-> p, gbid |-> g]}
  BY DEF ReceiveAck, Upcall
<1>2. CASE Awaiting(g)
  <2>1. /\ sendQueue # <<>> /\ sendQueue' = Tail(sendQueue)
        /\ Head(sendQueue).gbid = g
    BY <1>2, AwaitedFound DEF ReceiveAck, Awaiting
  <2>2. /\ OutboxView # <<>> /\ OutboxView' = Tail(OutboxView)
        /\ Head(OutboxView).gbid = g
    BY <2>1, ViewOfTail DEF Seen
  <2> QED BY <1>1, <2>2 DEF Promise!Retire
<1>3. CASE ~Awaiting(g)
  BY <1>1, <1>3 DEF ReceiveAck, OutboxView, Promise!PassOn
<1> QED BY <1>2, <1>3

(* The time-out fails the head, if it was not cancelled.                   *)
LEMMA AckTimeoutRefined ==
  ASSUME IInv, SenderAssumption, AckTimeout
  PROVE  Promise!Fail \/ Promise!Quiet
<1>1. waitingForAck # Null /\ ackTimer = waitingForAck
  BY DEF IInv, AwaitedIsHead, AckTimeout
<1>2. /\ sendQueue # <<>> /\ RemoveAt(sendQueue, 1) = Tail(sendQueue)
      /\ Head(sendQueue) = sendQueue[1]
      /\ BundleSentFailed(1, sendQueue[1].mac, sendQueue[1].gbid)
  BY <1>1, AwaitedFound DEF AckTimeout, Awaiting
<1> QED BY <1>2, FailRefined

(* The agent implements the outbox it promises its router: bundles leave   *)
(* in the order they were queued, and each for a reason the router knows.  *)
THEOREM OutboxImplemented == Spec => ImplementsOutbox
<1>1. Init => Promise!Init
  BY DEF Init, OutboxView, Promise!Init
<1>2. IInv /\ [Next]_vars => [Promise!Next]_(Promise!vars)
  <2> SUFFICES ASSUME IInv, [Next]_vars PROVE [Promise!Next]_(Promise!vars)
    OBVIOUS
  <2> USE SenderAssumption
  <2>1. CASE Request
    <3>1. CASE \E m \in Mac, g \in Bundle : SendBundle(m, g)
      BY <3>1, AcceptRefined DEF Promise!Next
    <3>2. CASE \E m \in Mac, g \in Bundle : SendAck(m, g)
      BY <3>2, QuietRefined DEF SendAck, Promise!Next
    <3>3. CASE \E g \in Bundle, to \in Mac \cup {AnyEid} : CancelTransmission(g, to)
      BY <3>3, CancelRefined DEF Promise!Next
    <3> QED BY <2>1, <3>1, <3>2, <3>3 DEF Request
  <2>2. CASE SendSegments
    BY <2>2, SendSegmentsRefined DEF Promise!Next
  <2>3. CASE MacReport
    BY <2>3, SegmentSentOkRefined, SegmentSentFailedRefined DEF MacReport, Promise!Next
  <2>4. CASE \E p \in Mac, g \in Bundle : ReceiveAck(p, g)
    BY <2>4, ReceiveAckRefined DEF Promise!Next
  <2>5. CASE AckTimeout
    BY <2>5, AckTimeoutRefined DEF Promise!Next
  <2>6. CASE UNCHANGED vars
    BY <2>6 DEF vars, OutboxView, Promise!vars
  <2> QED BY <2>1, <2>2, <2>3, <2>4, <2>5, <2>6 DEF Next
<1> QED BY <1>1, <1>2, Invariance, PTL DEF Spec, ImplementsOutbox, Promise!Spec

-----------------------------------------------------------------------------
(* Transfers: what the queue, the peers and the acknowledgements agree on. *)

(* The bundles queued have numbers of their own, rising and all given out, *)
(* and no more segments than they were cut into.  No acknowledgements are  *)
(* among them, for the node receives no bundles here.                      *)
NumberedInv ==
  /\ ackQueue = <<>>
  /\ sequenceNumber <= SendBound
  /\ \A i \in 1..Len(sendQueue) :
       /\ sendQueue[i].sequenceNumber < sequenceNumber
       /\ sendQueue[i].segments <= NumberOfSegments[sendQueue[i].gbid]
       /\ \A j \in 1..Len(sendQueue) :
            sendQueue[i].sequenceNumber = sendQueue[j].sequenceNumber => i = j

(* Segments of one bundle, none twice. *)
Pieces(segments, g) ==
  /\ IsFiniteSet(segments) /\ segments # {}
  /\ \A s \in segments :
       /\ s.gbid = g /\ s.total = NumberOfSegments[g] /\ s.number \in 1..s.total
       /\ \A t \in segments : s.number = t.number => s = t

(* What a peer holds under a number is pieces of one bundle: the one that  *)
(* has this number in the queue, if there is one.                          *)
PiecesInv ==
  /\ DOMAIN recvQueue = Mac
  /\ \A p \in Mac : \A id \in DOMAIN recvQueue[p] :
       \E g \in Bundle :
         /\ Pieces(recvQueue[p][id], g)
         /\ id.source = Node
         /\ id.sequenceNumber \in Nat /\ id.sequenceNumber < sequenceNumber
         /\ \A i \in 1..Len(sendQueue) :
              sendQueue[i].sequenceNumber = id.sequenceNumber => sendQueue[i].gbid = g

(* What is to be put together is whole. *)
DueInv ==
  \A i \in due :
    /\ i[1] \in Mac
    /\ i[2] \in DOMAIN recvQueue[i[1]] => Intact(recvQueue[i[1]][i[2]])

(* What a peer acknowledges it was handed. *)
AcksInv ==
  /\ peerAcks \in [Mac -> Seq([gbid : Bundle, retransmissions : 0..RetransmissionLimit])]
  /\ \A p \in Mac : \A i \in 1..Len(peerAcks[p]) : Received(p, peerAcks[p][i].gbid)

(* Nothing is reported sent but what was handed up.                        *)
TransferInv ==
  /\ IInv /\ NumberedInv /\ PiecesInv /\ DueInv /\ AcksInv
  /\ AssembledIntact /\ SentMeansReceived

-----------------------------------------------------------------------------
(* Segments. *)

(* As many segments of a bundle as there are, none twice, are all of it. *)
LEMMA AllPieces ==
  ASSUME NEW g \in Bundle, NEW segments, Pieces(segments, g),
         Cardinality(segments) = NumberOfSegments[g]
  PROVE  Intact(segments)
<1> DEFINE n == NumberOfSegments[g]
           number == [s \in segments |-> s.number]
<1>1. n \in Nat /\ IsFiniteSet(1..n) /\ Cardinality(1..n) = n
  BY SenderAssumption, FS_Interval DEF SenderAssumption
<1>2. number \in Injection(segments, 1..n)
  BY DEF Pieces, Injection, IsInjective
<1>3. number \in Surjection(segments, 1..n)
  BY <1>1, <1>2, FS_Injection
<1>4. {s.number : s \in segments} = 1..n
  <2>1. {s.number : s \in segments} \subseteq 1..n
    BY DEF Pieces
  <2>2. ASSUME NEW i \in 1..n PROVE i \in {s.number : s \in segments}
    <3>1. PICK s \in segments : number[s] = i
      BY <1>3 DEF Surjection
    <3> QED BY <3>1
  <2> QED BY <2>1, <2>2
<1>5. PICK s \in segments : TRUE
  BY DEF Pieces
<1> QED BY <1>4, <1>5 DEF Intact, Pieces

(* The bundle that pieces claim to be is the one they are of. *)
LEMMA ClaimIsTrue ==
  ASSUME NEW g \in Bundle, NEW segments, Pieces(segments, g), Intact(segments)
  PROVE  ClaimedBundle(segments) = g
<1>1. PICK s \in segments : {t.number : t \in segments} = 1..s.total
  BY DEF Intact
<1>2. s.total \in Nat /\ s.number \in 1..s.total
  BY SenderAssumption DEF Pieces, SenderAssumption
<1>3. 1 \in {t.number : t \in segments}
  BY <1>1, <1>2
<1>4. PICK t \in segments : t.number = 1
  BY <1>3
<1>5. \A u \in segments : u.number \in Nat /\ t.number <= u.number
  BY <1>1, <1>2, <1>4
<1>6. \E u \in segments : \A v \in segments : u.number <= v.number
  BY <1>5
<1> QED BY <1>6 DEF ClaimedBundle, Pieces

-----------------------------------------------------------------------------
(* The queue. *)

(* Nothing is queued.  Perhaps the head has gone, or has fewer segments.   *)
Shrinks ==
  /\ UNCHANGED <<sequenceNumber, ackQueue>>
  /\ \E k \in {0, 1} :
       /\ k <= Len(sendQueue)
       /\ Len(sendQueue') = Len(sendQueue) - k
       /\ \A i \in 1..Len(sendQueue') :
            /\ sendQueue'[i].sequenceNumber = sendQueue[i + k].sequenceNumber
            /\ sendQueue'[i].gbid = sendQueue[i + k].gbid
            /\ sendQueue'[i].segments \in 0..sendQueue[i + k].segments

(* What the type invariant says of the queue and its entries.              *)
LEMMA QueueIsQueue ==
  ASSUME IInv
  PROVE  /\ sendQueue \in Seq(SendQueueElement("bundle")) /\ Len(sendQueue) \in Nat
         /\ \A i \in 1..Len(sendQueue) :
              /\ sendQueue[i].segments \in Nat /\ sendQueue[i].gbid \in Bundle
              /\ sendQueue[i].mac \in Mac /\ sendQueue[i].sequenceNumber \in Nat
<1>1. sendQueue \in Seq(SendQueueElement("bundle"))
  BY DEF IInv, TypeOK
<1>2. \A i \in 1..Len(sendQueue) : sendQueue[i] \in SendQueueElement("bundle")
  BY <1>1
<1>3. 0..(SequenceModulus - 1) \subseteq Nat
  BY SenderAssumption DEF SenderAssumption
<1> QED BY <1>1, <1>2, <1>3 DEF SendQueueElement

(* The head leaves.                                                        *)
LEMMA TailShrinks ==
  ASSUME IInv, sendQueue # <<>>, sendQueue' = Tail(sendQueue),
         UNCHANGED <<sequenceNumber, ackQueue>>
  PROVE  Shrinks
<1>1. /\ 1 <= Len(sendQueue) /\ Len(sendQueue') = Len(sendQueue) - 1
      /\ \A i \in 1..Len(sendQueue') :
           i + 1 \in 1..Len(sendQueue) /\ sendQueue'[i] = sendQueue[i + 1]
  BY QueueIsQueue
<1>2. \A i \in 1..Len(sendQueue') : sendQueue[i + 1].segments \in 0..sendQueue[i + 1].segments
  BY <1>1, QueueIsQueue
<1>3. 1 \in {0, 1}
  OBVIOUS
<1> QED BY <1>1, <1>2, <1>3 DEF Shrinks

(* The counters of the head change, or entries are marked. *)
LEMMA CountersShrink ==
  ASSUME IInv, UNCHANGED <<sequenceNumber, ackQueue>>,
         Len(sendQueue') = Len(sendQueue),
         \A i \in 1..Len(sendQueue) :
           /\ sendQueue'[i].sequenceNumber = sendQueue[i].sequenceNumber
           /\ sendQueue'[i].gbid = sendQueue[i].gbid
           /\ sendQueue'[i].segments \in 0..sendQueue[i].segments
  PROVE  Shrinks
<1>1. \A i \in 1..Len(sendQueue) : i + 0 = i
  BY QueueIsQueue
<1>2. 0 <= Len(sendQueue) /\ Len(sendQueue) - 0 = Len(sendQueue)
  BY QueueIsQueue
<1> QED BY <1>1, <1>2 DEF Shrinks

(* The queue stays as it is.                                               *)
LEMMA SameShrinks ==
  ASSUME IInv, UNCHANGED <<sendQueue, sequenceNumber, ackQueue>>
  PROVE  Shrinks
<1>1. \A i \in 1..Len(sendQueue) : sendQueue[i].segments \in 0..sendQueue[i].segments
  BY QueueIsQueue
<1> QED BY <1>1, CountersShrink

(* Entries are marked.                                                     *)
LEMMA CancelShrinks ==
  ASSUME IInv, NEW g \in Bundle, NEW to \in Mac \cup {AnyEid}, CancelTransmission(g, to)
  PROVE  Shrinks
<1>1. PICK hit : sendQueue' = [i \in 1..Len(sendQueue) |->
                                IF i \in hit THEN [sendQueue[i] EXCEPT !.cancelled = TRUE]
                                             ELSE sendQueue[i]]
  BY DEF CancelTransmission
<1>2. UNCHANGED <<sequenceNumber, ackQueue>>
  BY DEF CancelTransmission
<1>3. Len(sendQueue') = Len(sendQueue)
  BY <1>1, QueueIsQueue
<1>4. ASSUME NEW i \in 1..Len(sendQueue)
      PROVE  /\ sendQueue'[i].sequenceNumber = sendQueue[i].sequenceNumber
             /\ sendQueue'[i].gbid = sendQueue[i].gbid
             /\ sendQueue'[i].segments \in 0..sendQueue[i].segments
  <2>1. sendQueue[i] \in SendQueueElement("bundle") /\ sendQueue[i].segments \in Nat
    BY QueueIsQueue
  <2>2. \/ sendQueue'[i] = sendQueue[i]
        \/ sendQueue'[i] = [sendQueue[i] EXCEPT !.cancelled = TRUE]
    BY <1>1
  <2> QED BY <2>1, <2>2 DEF SendQueueElement
<1> QED BY <1>2, <1>3, <1>4, CountersShrink

(* The head alone changes. *)
LEMMA HeadShrinks ==
  ASSUME IInv, sendQueue # <<>>, UNCHANGED <<sequenceNumber, ackQueue>>,
         NEW h, sendQueue' = [sendQueue EXCEPT ![1] = h],
         h.sequenceNumber = sendQueue[1].sequenceNumber, h.gbid = sendQueue[1].gbid,
         h.segments \in 0..sendQueue[1].segments
  PROVE  Shrinks
<1>1. Len(sendQueue') = Len(sendQueue)
  BY QueueIsQueue
<1>2. ASSUME NEW i \in 1..Len(sendQueue)
      PROVE  /\ sendQueue'[i].sequenceNumber = sendQueue[i].sequenceNumber
             /\ sendQueue'[i].gbid = sendQueue[i].gbid
             /\ sendQueue'[i].segments \in 0..sendQueue[i].segments
  <2>1. sendQueue'[i] = IF i = 1 THEN h ELSE sendQueue[i]
    BY QueueIsQueue
  <2>2. sendQueue[i].segments \in Nat
    BY QueueIsQueue
  <2> QED BY <2>1, <2>2
<1> QED BY <1>1, <1>2, CountersShrink

(* The head fails, or stays to be dropped.                                 *)
LEMMA FailedShrinks ==
  ASSUME IInv, sendQueue # <<>>, UNCHANGED <<sequenceNumber, ackQueue>>,
         NEW m, NEW g, BundleSentFailed(1, m, g)
  PROVE  Shrinks
<1>1. RemoveAt(sendQueue, 1) = Tail(sendQueue)
  BY QueueIsQueue, RemoveHead
<1>2. sendQueue' = sendQueue \/ sendQueue' = Tail(sendQueue)
  BY <1>1 DEF BundleSentFailed
<1> QED BY <1>2, SameShrinks, TailShrinks

(* What the sending half does by itself, or for an acknowledgement. *)
LEMMA SegmentSentOkShrinks ==
  ASSUME IInv, ackQueue = <<>>, SegmentSentOk
  PROVE  Shrinks
<1>1. /\ isSending /\ UNCHANGED sequenceNumber
      /\ AckSentOk \/ BundleSegmentSentOk
  BY DEF SegmentSentOk
<1>2. current.sqeType # "ack"
  BY <1>1, SenderAssumption, InFlightFound
<1>3. BundleSegmentSentOk /\ current.sqeType = "bundle" /\ UNCHANGED ackQueue
  BY <1>1, <1>2 DEF AckSentOk, BundleSegmentSentOk
<1>4. sendQueue # <<>> /\ Find(sendQueue, current) = 1 /\ Head(sendQueue).segments > 0
  BY <1>1, <1>3, SenderAssumption, InFlightFound
<1> DEFINE h == [sendQueue[1] EXCEPT !.segments = @ - 1, !.retransmissions = 0]
<1>5. sendQueue' = [sendQueue EXCEPT ![1] = h]
  BY <1>3, <1>4, QueueIsQueue DEF BundleSegmentSentOk
<1>6. 1 \in 1..Len(sendQueue) /\ sendQueue[1] \in SendQueueElement("bundle")
      /\ sendQueue[1].segments \in Nat \ {0}
  BY <1>4, QueueIsQueue
<1>7. /\ h.sequenceNumber = sendQueue[1].sequenceNumber /\ h.gbid = sendQueue[1].gbid
      /\ h.segments \in 0..sendQueue[1].segments
  BY <1>6 DEF SendQueueElement
<1> QED BY <1>1, <1>3, <1>4, <1>5, <1>7, HeadShrinks

(* The head is tried again, or fails.                                      *)
LEMMA SegmentSentFailedShrinks ==
  ASSUME IInv, ackQueue = <<>>, SegmentSentFailed
  PROVE  Shrinks
<1>1. /\ isSending /\ UNCHANGED sequenceNumber
      /\ AckSentFailed \/ BundleSegmentSentFailed
  BY DEF SegmentSentFailed
<1>2. current.sqeType # "ack"
  BY <1>1, SenderAssumption, InFlightFound
<1>3. BundleSegmentSentFailed /\ current.sqeType = "bundle" /\ UNCHANGED ackQueue
  BY <1>1, <1>2 DEF AckSentFailed, BundleSegmentSentFailed
<1>4. sendQueue # <<>> /\ Find(sendQueue, current) = 1
  BY <1>1, <1>3, SenderAssumption, InFlightFound
<1>5. \/ \E m, g : BundleSentFailed(1, m, g)
      \/ sendQueue' = Retransmit(sendQueue, 1)
  BY <1>3, <1>4 DEF BundleSegmentSentFailed
<1> DEFINE h == [sendQueue[1] EXCEPT !.retransmissions = @ + 1]
<1>6. CASE sendQueue' = Retransmit(sendQueue, 1)
  <2>1. sendQueue' = [sendQueue EXCEPT ![1] = h]
    BY <1>6, QueueIsQueue DEF Retransmit
  <2>2. 1 \in 1..Len(sendQueue) /\ sendQueue[1] \in SendQueueElement("bundle")
        /\ sendQueue[1].segments \in Nat
    BY <1>4, QueueIsQueue
  <2>3. /\ h.sequenceNumber = sendQueue[1].sequenceNumber /\ h.gbid = sendQueue[1].gbid
        /\ h.segments \in 0..sendQueue[1].segments
    BY <2>2 DEF SendQueueElement
  <2> QED BY <1>1, <1>3, <1>4, <2>1, <2>3, HeadShrinks
<1> QED BY <1>1, <1>3, <1>4, <1>5, <1>6, FailedShrinks

(* A cancelled head is dropped, at most.                                   *)
LEMMA SendSegmentsShrinks ==
  ASSUME IInv, ackQueue = <<>>, SendSegments
  PROVE  Shrinks
<1>1. /\ UNCHANGED <<sequenceNumber, ackQueue>>
      /\ \/ UNCHANGED sendQueue
         \/ sendQueue # <<>> /\ sendQueue' = Tail(sendQueue)
  BY DEF SendSegments, SendAckSegment, SendBundleSegment, DropCancelled, SendNothing
<1> QED BY <1>1, SameShrinks, TailShrinks

(* The head is retired, at most.                                           *)
LEMMA ReceiveAckShrinks ==
  ASSUME IInv, NEW p, NEW g, ReceiveAck(p, g)
  PROVE  Shrinks
<1>1. UNCHANGED <<sequenceNumber, ackQueue>>
  BY DEF ReceiveAck
<1>2. \/ UNCHANGED sendQueue
      \/ sendQueue # <<>> /\ sendQueue' = Tail(sendQueue)
  BY SenderAssumption, AwaitedFound DEF ReceiveAck, Awaiting
<1> QED BY <1>1, <1>2, SameShrinks, TailShrinks

(* The head fails, at most.                                                *)
LEMMA AckTimeoutShrinks ==
  ASSUME IInv, AckTimeout
  PROVE  Shrinks
<1>1. UNCHANGED <<sequenceNumber, ackQueue>>
  BY DEF AckTimeout
<1>2. \/ UNCHANGED sendQueue
      \/ sendQueue # <<>> /\ \E m, g : BundleSentFailed(1, m, g)
  BY SenderAssumption, AwaitedFound DEF AckTimeout, Awaiting
<1> QED BY <1>1, <1>2, SameShrinks, FailedShrinks

-----------------------------------------------------------------------------
(* What each kind of step leaves of the invariant. *)

(* What is left of the queue has the numbers that it had.                  *)
LEMMA ShrinkingKeeps ==
  ASSUME IInv, NumberedInv, PiecesInv, Shrinks, UNCHANGED recvQueue
  PROVE  NumberedInv' /\ PiecesInv'
<1>1. PICK k \in {0, 1} :
        /\ k <= Len(sendQueue)
        /\ Len(sendQueue') = Len(sendQueue) - k
        /\ \A i \in 1..Len(sendQueue') :
             /\ sendQueue'[i].sequenceNumber = sendQueue[i + k].sequenceNumber
             /\ sendQueue'[i].gbid = sendQueue[i + k].gbid
             /\ sendQueue'[i].segments \in 0..sendQueue[i + k].segments
  BY DEF Shrinks
<1>2. sequenceNumber' = sequenceNumber /\ ackQueue' = ackQueue
  BY DEF Shrinks
<1>3. \A i \in 1..Len(sendQueue') : i + k \in 1..Len(sendQueue)
  BY <1>1, QueueIsQueue
<1>4. NumberedInv'
  <2>1. ASSUME NEW i \in 1..Len(sendQueue')
        PROVE  /\ sendQueue'[i].sequenceNumber < sequenceNumber
               /\ sendQueue'[i].segments <= NumberOfSegments[sendQueue'[i].gbid]
               /\ \A j \in 1..Len(sendQueue') :
                    sendQueue'[i].sequenceNumber = sendQueue'[j].sequenceNumber => i = j
    <3>1. /\ sendQueue[i + k].sequenceNumber < sequenceNumber
          /\ sendQueue[i + k].segments <= NumberOfSegments[sendQueue[i + k].gbid]
          /\ \A j \in 1..Len(sendQueue) :
               sendQueue[i + k].sequenceNumber = sendQueue[j].sequenceNumber => i + k = j
          /\ sendQueue[i + k].segments \in Nat
          /\ NumberOfSegments[sendQueue[i + k].gbid] \in Nat
      BY <1>3, QueueIsQueue, SenderAssumption DEF NumberedInv, SenderAssumption
    <3>2. \A j \in 1..Len(sendQueue') : i + k = j + k => i = j
      OBVIOUS
    <3>3. sendQueue'[i].segments \in 0..sendQueue[i + k].segments
          /\ sendQueue'[i].gbid = sendQueue[i + k].gbid
      BY <1>1
    <3>4. sendQueue'[i].segments <= NumberOfSegments[sendQueue'[i].gbid]
      BY <3>1, <3>3
    <3> QED BY <1>1, <1>3, <3>1, <3>2, <3>4
  <2> QED BY <1>2, <2>1 DEF NumberedInv
<1>5. PiecesInv'
  BY <1>1, <1>2, <1>3 DEF PiecesInv
<1> QED BY <1>4, <1>5

(* A new bundle has a number that no peer holds segments of.               *)
LEMMA QueueingKeeps ==
  ASSUME IInv, NumberedInv, PiecesInv, NEW m \in Mac, NEW g \in Bundle, SendBundle(m, g),
         sequenceNumber < SendBound, UNCHANGED recvQueue
  PROVE  NumberedInv' /\ PiecesInv'
<1> DEFINE e == Element("bundle", m, g, sequenceNumber, NumberOfSegments[g])
<1>1. /\ sendQueue' = Append(sendQueue, e) /\ ackQueue' = ackQueue
      /\ e.sequenceNumber = sequenceNumber /\ e.gbid = g /\ e.segments = NumberOfSegments[g]
  BY DEF SendBundle, Enqueue, Element
<1>2. sequenceNumber \in Nat /\ sequenceNumber' = sequenceNumber + 1
  <2>1. /\ sequenceNumber \in 0..(SequenceModulus - 1) /\ SequenceModulus \in Nat \ {0}
        /\ SendBound \in Nat /\ SendBound < SequenceModulus
        /\ sequenceNumber' = (sequenceNumber + 1) % SequenceModulus
    BY SenderAssumption, TransferAssumption
       DEF SenderAssumption, TransferAssumption, IInv, TypeOK, SendBundle, GetSequenceNumber
  <2>2. sequenceNumber + 1 \in 0..(SequenceModulus - 1)
    BY <2>1
  <2> QED BY <2>1, <2>2
<1> HIDE DEF e
<1>3. /\ Len(sendQueue') = Len(sendQueue) + 1
      /\ \A i \in 1..Len(sendQueue) : sendQueue'[i] = sendQueue[i]
      /\ sendQueue'[Len(sendQueue) + 1] = e
  BY <1>1, QueueIsQueue
<1>4. \A i \in 1..Len(sendQueue') : i \in 1..Len(sendQueue) \/ i = Len(sendQueue) + 1
  BY <1>3, QueueIsQueue
<1>5. NumberedInv'
  <2>1. sequenceNumber' <= SendBound
    BY <1>2, TransferAssumption DEF TransferAssumption
  <2>2. ASSUME NEW i \in 1..Len(sendQueue')
        PROVE  /\ sendQueue'[i].sequenceNumber < sequenceNumber'
               /\ sendQueue'[i].segments <= NumberOfSegments[sendQueue'[i].gbid]
    <3>1. NumberOfSegments[g] \in Nat
      BY SenderAssumption DEF SenderAssumption
    <3>2. CASE i \in 1..Len(sendQueue)
      <4>1. sendQueue[i].sequenceNumber < sequenceNumber
            /\ sendQueue[i].sequenceNumber \in Nat
        BY <3>2, QueueIsQueue DEF NumberedInv
      <4>2. sendQueue[i].sequenceNumber < sequenceNumber'
        BY <1>2, <4>1
      <4> QED BY <1>3, <3>2, <4>2 DEF NumberedInv
    <3>3. CASE i = Len(sendQueue) + 1
      BY <1>1, <1>2, <1>3, <3>1, <3>3
    <3> QED BY <1>4, <3>2, <3>3
  <2>3. ASSUME NEW i \in 1..Len(sendQueue'), NEW j \in 1..Len(sendQueue'),
               sendQueue'[i].sequenceNumber = sendQueue'[j].sequenceNumber
        PROVE  i = j
    <3>1. \A n \in 1..Len(sendQueue) : sendQueue[n].sequenceNumber # sequenceNumber
      BY <1>2, QueueIsQueue DEF NumberedInv
    <3> QED BY <1>1, <1>3, <1>4, <2>3, <3>1 DEF NumberedInv
  <2> QED BY <1>1, <2>1, <2>2, <2>3 DEF NumberedInv
<1>6. PiecesInv'
  <2>1. ASSUME NEW p \in Mac, NEW id \in DOMAIN recvQueue[p]
        PROVE  \E h \in Bundle :
                 /\ Pieces(recvQueue[p][id], h)
                 /\ id.source = Node
                 /\ id.sequenceNumber < sequenceNumber'
                 /\ \A i \in 1..Len(sendQueue') :
                      sendQueue'[i].sequenceNumber = id.sequenceNumber
                        => sendQueue'[i].gbid = h
    <3>1. PICK h \in Bundle :
            /\ Pieces(recvQueue[p][id], h)
            /\ id.source = Node
            /\ id.sequenceNumber \in Nat
            /\ id.sequenceNumber < sequenceNumber
            /\ \A i \in 1..Len(sendQueue) :
                 sendQueue[i].sequenceNumber = id.sequenceNumber => sendQueue[i].gbid = h
      BY DEF PiecesInv
    <3>2. id.sequenceNumber < sequenceNumber' /\ id.sequenceNumber # sequenceNumber
      BY <1>2, <3>1
    <3> QED BY <1>1, <1>3, <1>4, <3>1, <3>2
  <2> QED BY <2>1 DEF PiecesInv
<1> QED BY <1>5, <1>6

(* A peer has less, and has scheduled no more. *)
LEMMA LosingKeeps ==
  ASSUME NumberedInv, PiecesInv, DueInv, UNCHANGED vars, due' \subseteq due,
         DOMAIN recvQueue' = Mac,
         \A p \in Mac : \A id \in DOMAIN recvQueue'[p] :
           id \in DOMAIN recvQueue[p] /\ recvQueue'[p][id] = recvQueue[p][id]
  PROVE  NumberedInv' /\ PiecesInv' /\ DueInv'
<1>1. UNCHANGED <<ackQueue, sendQueue, sequenceNumber>>
  BY DEF vars
<1>2. NumberedInv'
  BY <1>1 DEF NumberedInv
<1>3. PiecesInv'
  BY <1>1 DEF PiecesInv, Pieces
<1>4. DueInv'
  BY DEF DueInv, Intact
<1> QED BY <1>2, <1>3, <1>4

(* A segment comes in: the next of the head of the queue. *)
LEMMA ReceivingKeeps ==
  ASSUME IInv, NumberedInv, PiecesInv, ReceiveSegment
  PROVE  NumberedInv' /\ PiecesInv' /\ DueInv'
<1> DEFINE p == current.mac
           e == sendQueue[1]
           g == e.gbid
           f == Frame
           id == SegmentsId(e.sequenceNumber)
           S == IF id \in DOMAIN recvQueue[p] THEN recvQueue[p][id] ELSE {}
<1>1. /\ UNCHANGED <<sequenceNumber, sendQueue, ackQueue>>
      /\ isSending
      /\ recvQueue' = [recvQueue EXCEPT
           ![p] = Store(@, SegmentsId(Head(sendQueue).sequenceNumber), f)]
      /\ due' = {i \in {<<p, SegmentsId(Head(sendQueue).sequenceNumber)>>} :
                   Completes(recvQueue[p], SegmentsId(Head(sendQueue).sequenceNumber), f)}
  BY DEF ReceiveSegment, vars
<1>2. /\ sendQueue # <<>> /\ current = KeyOf(Head(sendQueue)) /\ Head(sendQueue).segments > 0
  BY <1>1 DEF IInv, InFlightIsHead, NumberedInv
<1>3. /\ 1 \in 1..Len(sendQueue) /\ Head(sendQueue) = e
      /\ g \in Bundle /\ p \in Mac /\ e.segments \in Nat \ {0}
      /\ e.sequenceNumber \in Nat
  BY <1>2, QueueIsQueue DEF KeyOf
<1>4. /\ recvQueue' = [recvQueue EXCEPT ![p] = Store(@, id, f)]
      /\ due' = {i \in {<<p, id>>} : Completes(recvQueue[p], id, f)}
  BY <1>1, <1>3
<1>5. /\ f.gbid = g /\ f.total = NumberOfSegments[g] /\ f.number \in 1..f.total
      /\ NumberOfSegments[g] \in Nat \ {0}
  <2>1. /\ NumberOfSegments[g] \in Nat \ {0} /\ e.segments <= NumberOfSegments[g]
    BY <1>3, SenderAssumption DEF NumberedInv, SenderAssumption
  <2>2. /\ f.gbid = g /\ f.total = NumberOfSegments[g]
        /\ f.number = NumberOfSegments[g] - e.segments + 1
    BY <1>3 DEF Frame
  <2> QED BY <1>3, <2>1, <2>2
<1>6. /\ id.source = Node /\ id.sequenceNumber = e.sequenceNumber
      /\ id.sequenceNumber < sequenceNumber
      /\ \A i \in 1..Len(sendQueue) :
           sendQueue[i].sequenceNumber = id.sequenceNumber => sendQueue[i].gbid = g
  BY <1>3 DEF SegmentsId, NumberedInv
<1>7. S = {} \/ Pieces(S, g)
  BY <1>3, <1>6 DEF PiecesInv
<1> HIDE DEF f, id, S
<1>8. CASE Held(recvQueue[p], id, f)
  <2>1. \A q \in Mac : recvQueue'[q] = recvQueue[q]
    BY <1>3, <1>4, <1>8 DEF PiecesInv, Store
  <2>2. DOMAIN recvQueue' = Mac
    BY <1>4 DEF PiecesInv
  <2>3. due' = {}
    BY <1>4, <1>8 DEF Completes, Held
  <2>4. NumberedInv' /\ DueInv'
    BY <1>1, <2>3 DEF NumberedInv, DueInv
  <2>5. PiecesInv'
    BY <1>1, <2>1, <2>2 DEF PiecesInv
  <2> QED BY <2>4, <2>5
<1>9. CASE ~Held(recvQueue[p], id, f)
  <2> DEFINE new == {f} \cup S
  <2>1. \A s \in S : s.number # f.number
    BY <1>9 DEF Held, S
  <2>2. Pieces(new, g)
    <3>1. IsFiniteSet(new) /\ new # {}
      BY <1>7, FS_EmptySet, FS_Singleton, FS_AddElement DEF Pieces
    <3>2. \A s \in new : s.gbid = g /\ s.total = NumberOfSegments[g] /\ s.number \in 1..s.total
      BY <1>5, <1>7 DEF Pieces
    <3>3. \A s, t \in new : s.number = t.number => s = t
      BY <1>7, <2>1 DEF Pieces
    <3> QED BY <3>1, <3>2, <3>3 DEF Pieces
  <2>3. /\ DOMAIN recvQueue' = Mac
        /\ \A q \in Mac \ {p} : recvQueue'[q] = recvQueue[q]
        /\ recvQueue'[p] = Store(recvQueue[p], id, f)
    BY <1>3, <1>4 DEF PiecesInv
  <2>4. /\ DOMAIN recvQueue'[p] = DOMAIN recvQueue[p] \cup {id}
        /\ recvQueue'[p][id] = new
        /\ \A i \in DOMAIN recvQueue[p] : i # id => recvQueue'[p][i] = recvQueue[p][i]
    BY <1>9, <2>3 DEF Store, S
  <2> HIDE DEF new
  <2>5. NumberedInv'
    BY <1>1 DEF NumberedInv
  <2>6. PiecesInv'
    <3>1. ASSUME NEW q \in Mac, NEW i \in DOMAIN recvQueue'[q]
          PROVE  \E h \in Bundle :
                   /\ Pieces(recvQueue'[q][i], h)
                   /\ i.source = Node
                   /\ i.sequenceNumber \in Nat /\ i.sequenceNumber < sequenceNumber
                   /\ \A j \in 1..Len(sendQueue) :
                        sendQueue[j].sequenceNumber = i.sequenceNumber
                          => sendQueue[j].gbid = h
      <4>1. CASE q = p /\ i = id
        BY <1>3, <1>6, <2>2, <2>4, <4>1
      <4>2. CASE ~(q = p /\ i = id)
        <5>1. i \in DOMAIN recvQueue[q] /\ recvQueue'[q][i] = recvQueue[q][i]
          BY <2>3, <2>4, <4>2
        <5> QED BY <5>1 DEF PiecesInv
      <4> QED BY <4>1, <4>2
    <3> QED BY <1>1, <2>3, <3>1 DEF PiecesInv, Pieces
  <2>7. DueInv'
    <3>1. ASSUME Completes(recvQueue[p], id, f) PROVE Intact(new)
      <4>1. CASE S = {}
        <5>1. new = {f} /\ f.total = 1
          <6>1. id \notin DOMAIN recvQueue[p]
            BY <1>3, <1>7, <4>1 DEF S, PiecesInv, Pieces
          <6> QED BY <3>1, <4>1, <6>1 DEF new, Completes
        <5> QED BY <1>3, <1>5, <2>2, <5>1, AllPieces, FS_Singleton
      <4>2. CASE S # {}
        <5>1. id \in DOMAIN recvQueue[p] /\ S = recvQueue[p][id]
          BY <4>2 DEF S
        <5>2. Cardinality(S) + 1 = f.total
          BY <3>1, <5>1 DEF Completes
        <5>3. IsFiniteSet(S) /\ f \notin S
          BY <1>7, <2>1, <4>2 DEF Pieces
        <5>4. Cardinality(S \cup {f}) = Cardinality(S) + 1 /\ new = S \cup {f}
          BY <5>3, FS_AddElement DEF new
        <5> QED BY <1>3, <1>5, <2>2, <5>2, <5>4, AllPieces
      <4> QED BY <4>1, <4>2
    <3>2. \A i \in due' : i = <<p, id>> /\ Completes(recvQueue[p], id, f)
      BY <1>4
    <3> QED BY <1>3, <2>4, <3>1, <3>2 DEF DueInv
  <2> QED BY <2>5, <2>6, <2>7
<1> QED BY <1>8, <1>9

-----------------------------------------------------------------------------
(* What is handed up, acknowledged and reported. *)

(* More is handed up, and no other acknowledgements are sent. *)
LEMMA AcksStay ==
  ASSUME AcksInv, handedUp \subseteq handedUp', NEW p \in Mac,
         NEW acks \in Seq([gbid : Bundle, retransmissions : 0..RetransmissionLimit]),
         peerAcks' = [peerAcks EXCEPT ![p] = acks],
         \A i \in 1..Len(acks) :
           \E r \in handedUp' : r.mac = p /\ r.gbid = acks[i].gbid /\ r.intact
  PROVE  AcksInv'
<1>1. peerAcks' \in [Mac -> Seq([gbid : Bundle, retransmissions : 0..RetransmissionLimit])]
  BY DEF AcksInv
<1>2. ASSUME NEW q \in Mac, NEW i \in 1..Len(peerAcks'[q])
      PROVE  \E r \in handedUp' : r.mac = q /\ r.gbid = peerAcks'[q][i].gbid /\ r.intact
  <2>1. peerAcks'[q] = IF q = p THEN acks ELSE peerAcks[q]
    BY DEF AcksInv
  <2> QED BY <1>2, <2>1 DEF AcksInv, Received
<1> QED BY <1>1, <1>2 DEF AcksInv, Received

(* What is put together is whole, and acknowledged as what it is.          *)
LEMMA ReassembleBundleKeeps ==
  ASSUME TransferInv, NEW p, NEW id, ReassembleBundle(p, id)
  PROVE  TransferInv'
<1> DEFINE S == recvQueue[p][id]
           b == ClaimedBundle(S)
           ack == [gbid |-> b, retransmissions |-> 0]
           up == [mac |-> p, gbid |-> b, sequenceNumber |-> id.sequenceNumber,
                  intact |-> Intact(S)]
<1>1. /\ <<p, id>> \in due /\ id \in DOMAIN recvQueue[p] /\ due' = {}
      /\ peerAcks' = [peerAcks EXCEPT ![p] = Append(@, ack)]
      /\ handedUp' = handedUp \cup {up}
      /\ recvQueue' = [recvQueue EXCEPT ![p] = Without(@, id)]
      /\ UNCHANGED vars
  BY DEF ReassembleBundle
<1>2. p \in Mac /\ Intact(S)
  BY <1>1 DEF TransferInv, DueInv
<1>3. PICK g \in Bundle : Pieces(S, g)
  BY <1>1, <1>2 DEF TransferInv, PiecesInv
<1>4. b \in Bundle
  BY <1>2, <1>3, ClaimIsTrue
<1>5. NumberedInv' /\ PiecesInv' /\ DueInv'
  <2>1. DOMAIN recvQueue' = Mac
    BY <1>1 DEF TransferInv, PiecesInv
  <2>2. \A q \in Mac : \A i \in DOMAIN recvQueue'[q] :
           i \in DOMAIN recvQueue[q] /\ recvQueue'[q][i] = recvQueue[q][i]
    BY <1>1 DEF TransferInv, PiecesInv, Without
  <2> QED BY <1>1, <2>1, <2>2, LosingKeeps DEF TransferInv
<1>6. up.mac = p /\ up.gbid = b /\ up.intact
  BY <1>2
<1> HIDE DEF b, up
<1>7. /\ handedUp \subseteq handedUp'
      /\ up \in handedUp' /\ up.mac = p /\ up.gbid = b /\ up.intact
  BY <1>1, <1>6
<1>8. AcksInv'
  <2> DEFINE Ack == [gbid : Bundle, retransmissions : 0..RetransmissionLimit]
  <2>1. ack \in Ack /\ ack.gbid = b
    BY <1>4 DEF RetransmissionLimit
  <2>2. peerAcks[p] \in Seq(Ack) /\ peerAcks' = [peerAcks EXCEPT ![p] = Append(peerAcks[p], ack)]
    BY <1>1, <1>2 DEF TransferInv, AcksInv
  <2> HIDE DEF Ack, ack
  <2>3. /\ Append(peerAcks[p], ack) \in Seq(Ack)
        /\ \A i \in 1..Len(Append(peerAcks[p], ack)) :
             \/ i \in 1..Len(peerAcks[p]) /\ Append(peerAcks[p], ack)[i] = peerAcks[p][i]
             \/ Append(peerAcks[p], ack)[i] = ack
    BY <2>1, <2>2
  <2>4. PICK acks : acks = Append(peerAcks[p], ack)
    OBVIOUS
  <2>5. ASSUME NEW i \in 1..Len(acks)
        PROVE  \E r \in handedUp' : r.mac = p /\ r.gbid = acks[i].gbid /\ r.intact
    <3>1. CASE acks[i] = ack
      BY <1>7, <2>1, <3>1
    <3>2. CASE i \in 1..Len(peerAcks[p]) /\ acks[i] = peerAcks[p][i]
      BY <1>2, <1>7, <3>2 DEF TransferInv, AcksInv, Received
    <3> QED BY <2>3, <2>4, <3>1, <3>2
  <2> QED BY <1>2, <1>7, <2>2, <2>3, <2>4, <2>5, AcksStay DEF TransferInv, Ack
<1>9. AssembledIntact'
  BY <1>1, <1>6 DEF TransferInv, AssembledIntact
<1>10. SentMeansReceived'
  <2>1. upcalls' = upcalls
    BY <1>1 DEF vars
  <2> QED BY <1>7, <2>1 DEF TransferInv, SentMeansReceived, Received
<1>11. IInv'
  BY <1>1, Inductive, SenderAssumption DEF TransferInv
<1> QED BY <1>5, <1>8, <1>9, <1>10, <1>11 DEF TransferInv

(* A peer drops what it holds.                                             *)
LEMMA RemoveOrphanedSegmentsKeeps ==
  ASSUME TransferInv, NEW p \in Mac, RemoveOrphanedSegments(p)
  PROVE  TransferInv'
<1>1. /\ recvQueue' = [recvQueue EXCEPT ![p] = WithoutSource(@, Node)]
      /\ UNCHANGED <<vars, due, peerAcks, handedUp>>
  BY DEF RemoveOrphanedSegments
<1>2. NumberedInv' /\ PiecesInv' /\ DueInv'
  <2>1. DOMAIN recvQueue' = Mac
    BY <1>1 DEF TransferInv, PiecesInv
  <2>2. \A q \in Mac : \A i \in DOMAIN recvQueue'[q] :
           i \in DOMAIN recvQueue[q] /\ recvQueue'[q][i] = recvQueue[q][i]
    BY <1>1 DEF TransferInv, PiecesInv, WithoutSource
  <2> QED BY <1>1, <2>1, <2>2, LosingKeeps DEF TransferInv
<1>3. AcksInv' /\ AssembledIntact' /\ SentMeansReceived'
  BY <1>1 DEF TransferInv, AcksInv, AssembledIntact, SentMeansReceived, Received, vars
<1>4. IInv'
  BY <1>1, Inductive, SenderAssumption DEF TransferInv
<1> QED BY <1>2, <1>3, <1>4 DEF TransferInv

(* What is left of the acknowledgements of a peer when one was tried. *)
LEMMA AckTried ==
  ASSUME AcksInv, NEW p \in Mac, peerAcks[p] # <<>>,
         NEW acks, acks = Tail(peerAcks[p]) \/ acks = PeerAckSentFailed(peerAcks[p])
  PROVE  /\ acks \in Seq([gbid : Bundle, retransmissions : 0..RetransmissionLimit])
         /\ \A i \in 1..Len(acks) : Received(p, acks[i].gbid)
<1> DEFINE Ack == [gbid : Bundle, retransmissions : 0..RetransmissionLimit]
           old == peerAcks[p]
           again == [old[1] EXCEPT !.retransmissions = @ + 1]
<1>1. old \in Seq(Ack) /\ \A i \in 1..Len(old) : Received(p, old[i].gbid)
  BY DEF AcksInv
<1>2. old # <<>> /\ old[1] \in Ack /\ Head(old) = old[1] /\ 1 \in 1..Len(old)
  <2> HIDE DEF Ack, old
  <2>1. old # <<>>
    BY DEF old
  <2> QED BY <1>1, <2>1
<1>3. CASE acks = Tail(old)
  <2>1. /\ acks \in Seq(Ack)
        /\ \A i \in 1..Len(acks) : i + 1 \in 1..Len(old) /\ acks[i] = old[i + 1]
    BY <1>1, <1>2, <1>3
  <2> QED BY <1>1, <2>1
<1>4. CASE acks = PeerAckSentFailed(old) /\ acks # Tail(old)
  <2>1. old[1].retransmissions # RetransmissionLimit
    BY <1>2, <1>4 DEF PeerAckSentFailed
  <2>2. acks = [old EXCEPT ![1] = again]
    BY <1>2, <1>4, <2>1 DEF PeerAckSentFailed
  <2>3. again \in Ack /\ again.gbid = old[1].gbid
    BY <1>2, <2>1 DEF RetransmissionLimit
  <2> HIDE DEF again, Ack
  <2>4. /\ acks \in Seq(Ack) /\ Len(acks) = Len(old)
        /\ \A i \in 1..Len(old) : acks[i] = IF i = 1 THEN again ELSE old[i]
    BY <1>1, <1>2, <2>2, <2>3
  <2>5. \A i \in 1..Len(acks) : Received(p, acks[i].gbid)
    BY <1>1, <2>3, <2>4
  <2> QED BY <2>4, <2>5 DEF Ack
<1> QED BY <1>3, <1>4

(* What an acknowledgement reports was handed up.                          *)
LEMMA AckArrivesKeeps ==
  ASSUME TransferInv, due = {}, NEW p \in Mac, AckArrives(p)
  PROVE  TransferInv'
<1>1. /\ peerAcks[p] # <<>> /\ ReceiveAck(p, Head(peerAcks[p]).gbid)
      /\ UNCHANGED <<recvQueue, due, handedUp>>
  BY DEF AckArrives
<1>2. PICK acks : /\ peerAcks' = [peerAcks EXCEPT ![p] = acks]
                  /\ acks = Tail(peerAcks[p]) \/ acks = PeerAckSentFailed(peerAcks[p])
  BY DEF AckArrives, TransferInv, AcksInv
<1>3. /\ Head(peerAcks[p]).gbid \in Bundle /\ Received(p, Head(peerAcks[p]).gbid)
  <2> DEFINE Ack == [gbid : Bundle, retransmissions : 0..RetransmissionLimit]
             old == peerAcks[p]
  <2>1. old \in Seq(Ack) /\ \A i \in 1..Len(old) : Received(p, old[i].gbid)
    BY DEF TransferInv, AcksInv
  <2>2. old # <<>> /\ \A a \in Ack : a.gbid \in Bundle
    BY <1>1
  <2> HIDE DEF Ack, old
  <2>3. 1 \in 1..Len(old) /\ Head(old) = old[1] /\ old[1] \in Ack
    BY <2>1, <2>2
  <2>4. Head(old).gbid \in Bundle /\ Received(p, Head(old).gbid)
    BY <2>1, <2>2, <2>3
  <2> QED BY <2>4 DEF old
<1>4. Shrinks
  BY <1>1, ReceiveAckShrinks DEF TransferInv
<1>5. NumberedInv' /\ PiecesInv' /\ DueInv'
  BY <1>1, <1>4, ShrinkingKeeps DEF TransferInv, DueInv
<1>6. AcksInv'
  <2>1. /\ acks \in Seq([gbid : Bundle, retransmissions : 0..RetransmissionLimit])
        /\ \A i \in 1..Len(acks) : Received(p, acks[i].gbid)
    BY <1>1, <1>2, AckTried DEF TransferInv
  <2>2. \A i \in 1..Len(acks) :
          \E r \in handedUp' : r.mac = p /\ r.gbid = acks[i].gbid /\ r.intact
    BY <1>1, <2>1 DEF Received
  <2> QED BY <1>1, <1>2, <2>1, <2>2, AcksStay DEF TransferInv
<1>7. AssembledIntact'
  BY <1>1 DEF TransferInv, AssembledIntact
<1>8. SentMeansReceived'
  <2>1. upcalls' = {Upcall("sent", p, Head(peerAcks[p]).gbid)}
    BY <1>1 DEF ReceiveAck
  <2> QED BY <1>1, <1>3, <2>1 DEF SentMeansReceived, Received, Upcall
<1>9. IInv'
  BY <1>1, <1>3, ReceiveAckStep, SenderAssumption DEF TransferInv
<1> QED BY <1>5, <1>6, <1>7, <1>8, <1>9 DEF TransferInv

(* A lost acknowledgement leaves what is held and handed up as it was.     *)
LEMMA AckLostKeeps ==
  ASSUME TransferInv, NEW p \in Mac, AckLost(p)
  PROVE  TransferInv'
<1>1. /\ peerAcks[p] # <<>> /\ UNCHANGED <<vars, recvQueue, due, handedUp>>
      /\ peerAcks' = [peerAcks EXCEPT ![p] = PeerAckSentFailed(@)]
  BY DEF AckLost
<1>2. NumberedInv' /\ PiecesInv' /\ DueInv'
  BY <1>1 DEF TransferInv, NumberedInv, PiecesInv, Pieces, DueInv, Intact, vars
<1>3. AcksInv'
  <2> PICK acks : acks = PeerAckSentFailed(peerAcks[p])
    OBVIOUS
  <2>1. /\ acks \in Seq([gbid : Bundle, retransmissions : 0..RetransmissionLimit])
        /\ \A i \in 1..Len(acks) : Received(p, acks[i].gbid)
    BY <1>1, AckTried DEF TransferInv
  <2>2. \A i \in 1..Len(acks) :
          \E r \in handedUp' : r.mac = p /\ r.gbid = acks[i].gbid /\ r.intact
    BY <1>1, <2>1 DEF Received
  <2>3. peerAcks' = [peerAcks EXCEPT ![p] = acks]
    BY <1>1 DEF TransferInv, AcksInv
  <2> QED BY <1>1, <2>1, <2>2, <2>3, AcksStay DEF TransferInv
<1>4. AssembledIntact' /\ SentMeansReceived'
  BY <1>1 DEF TransferInv, AssembledIntact, SentMeansReceived, Received, vars
<1>5. IInv'
  BY <1>1, Inductive, SenderAssumption DEF TransferInv
<1> QED BY <1>2, <1>3, <1>4, <1>5 DEF TransferInv

(* The node's own steps report nothing sent. *)
LEMMA NodeStepKeeps ==
  ASSUME TransferInv, due = {},
         RouterStep \/ NodeSendSegments \/ NodeSegmentSentOk \/ NodeSegmentSentFailed
           \/ NodeAckTimeout
  PROVE  TransferInv'
<1>1. UNCHANGED <<recvQueue, due, peerAcks, handedUp>>
  BY DEF RouterStep, NodeSendSegments, NodeSegmentSentOk, NodeSegmentSentFailed,
         NodeAckTimeout, peerVars
<1>2. \/ /\ sequenceNumber < SendBound
         /\ \E p \in Mac, g \in Bundle : SendBundle(p, g)
      \/ \E g \in Bundle, to \in Mac \cup {AnyEid} : CancelTransmission(g, to)
      \/ SendSegments \/ SegmentSentOk \/ SegmentSentFailed \/ AckTimeout
  BY DEF RouterStep, NodeSendSegments, NodeSegmentSentOk, NodeSegmentSentFailed,
         NodeAckTimeout
<1>3. IInv'
  <2>1. Next
    BY <1>2 DEF Next, Request, MacReport
  <2> QED BY <2>1, Inductive, SenderAssumption DEF TransferInv
<1>4. NumberedInv' /\ PiecesInv'
  <2>1. \/ Shrinks
        \/ /\ sequenceNumber < SendBound
           /\ \E p \in Mac, g \in Bundle : SendBundle(p, g)
    BY <1>2, CancelShrinks, SendSegmentsShrinks, SegmentSentOkShrinks,
       SegmentSentFailedShrinks, AckTimeoutShrinks DEF TransferInv, NumberedInv
  <2> QED BY <1>1, <2>1, ShrinkingKeeps, QueueingKeeps DEF TransferInv
<1>5. DueInv' /\ AssembledIntact'
  BY <1>1 DEF TransferInv, DueInv, AssembledIntact
<1>6. AcksInv'
  BY <1>1 DEF TransferInv, AcksInv, Received
<1>7. \A u \in upcalls' : u.kind # "sent"
  <2>1. CASE \E p \in Mac, g \in Bundle : SendBundle(p, g)
    BY <2>1 DEF SendBundle
  <2>2. CASE \E g \in Bundle, to \in Mac \cup {AnyEid} : CancelTransmission(g, to)
    BY <2>2 DEF CancelTransmission, Upcall
  <2>3. CASE SendSegments \/ SegmentSentOk
    BY <2>3 DEF SendSegments, SegmentSentOk
  <2>4. ASSUME NEW i, NEW m, NEW g, BundleSentFailed(i, m, g)
        PROVE  \A u \in upcalls' : u.kind # "sent"
    BY <2>4 DEF BundleSentFailed, Upcall
  <2>5. CASE SegmentSentFailed
    <3>1. upcalls' = {} \/ \E i, m, g : BundleSentFailed(i, m, g)
      BY <2>5 DEF SegmentSentFailed, AckSentFailed, BundleSegmentSentFailed
    <3> QED BY <2>4, <3>1
  <2>6. CASE AckTimeout
    <3>1. upcalls' = {} \/ \E i, m, g : BundleSentFailed(i, m, g)
      BY <2>6 DEF AckTimeout
    <3> QED BY <2>4, <3>1
  <2> QED BY <1>2, <2>1, <2>2, <2>3, <2>5, <2>6
<1>8. SentMeansReceived'
  BY <1>7 DEF SentMeansReceived
<1> QED BY <1>3, <1>4, <1>5, <1>6, <1>8 DEF TransferInv

(* A segment that arrives joins the pieces of its own bundle.              *)
LEMMA ReceiveSegmentKeeps ==
  ASSUME TransferInv, ReceiveSegment
  PROVE  TransferInv'
<1>1. UNCHANGED <<vars, peerAcks, handedUp>>
  BY DEF ReceiveSegment
<1>2. NumberedInv' /\ PiecesInv' /\ DueInv'
  BY ReceivingKeeps DEF TransferInv
<1>3. AcksInv' /\ AssembledIntact' /\ SentMeansReceived'
  BY <1>1 DEF TransferInv, AcksInv, AssembledIntact, SentMeansReceived, Received, vars
<1>4. IInv'
  BY <1>1, Inductive, SenderAssumption DEF TransferInv
<1> QED BY <1>2, <1>3, <1>4 DEF TransferInv

(* Nothing is queued, held or handed up at the start.                      *)
LEMMA TransferInitial == TransferInit => TransferInv
<1> SUFFICES ASSUME TransferInit PROVE TransferInv
  OBVIOUS
<1>1. IInv
  BY Initial, SenderAssumption DEF TransferInit
<1>2. /\ sendQueue = <<>> /\ ackQueue = <<>> /\ sequenceNumber = 0 /\ upcalls = {}
      /\ recvQueue = [p \in Mac |-> NoSegments] /\ due = {} /\ handedUp = {}
      /\ peerAcks = [p \in Mac |-> <<>>]
  BY DEF TransferInit, Init
<1>3. NumberedInv
  BY <1>2, TransferAssumption DEF NumberedInv, TransferAssumption
<1>4. PiecesInv
  BY <1>2 DEF PiecesInv, NoSegments
<1>5. DueInv /\ AssembledIntact /\ SentMeansReceived
  BY <1>2 DEF DueInv, AssembledIntact, SentMeansReceived
<1>6. AcksInv
  BY <1>2, EmptySeq DEF AcksInv
<1> QED BY <1>1, <1>3, <1>4, <1>5, <1>6 DEF TransferInv

(* Each step of the sender, the radio and the peers keeps the invariant.   *)
LEMMA TransferInductive == TransferInv /\ [TransferNext]_transferVars => TransferInv'
<1> SUFFICES ASSUME TransferInv, [TransferNext]_transferVars PROVE TransferInv'
  OBVIOUS
<1>1. CASE \E i \in due : ReassembleBundle(i[1], i[2])
  BY <1>1, ReassembleBundleKeeps
<1>2. CASE \E p \in Mac : RemoveOrphanedSegments(p)
  BY <1>2, RemoveOrphanedSegmentsKeeps
<1>3. CASE /\ due = {}
           /\ RouterStep \/ NodeSendSegments \/ NodeSegmentSentOk \/ NodeSegmentSentFailed
                \/ NodeAckTimeout
  BY <1>3, NodeStepKeeps
<1>4. CASE ReceiveSegment
  BY <1>4, ReceiveSegmentKeeps
<1>5. CASE due = {} /\ \E p \in Mac : AckArrives(p) \/ AckLost(p)
  BY <1>5, AckArrivesKeeps, AckLostKeeps
<1>6. CASE UNCHANGED transferVars
  <2>1. IInv'
    BY <1>6, Inductive, SenderAssumption DEF TransferInv, transferVars
  <2>2. UNCHANGED <<sequenceNumber, sendQueue, ackQueue, upcalls, recvQueue, due, peerAcks,
                    handedUp>>
    BY <1>6 DEF transferVars, vars, peerVars
  <2>3. NumberedInv' /\ PiecesInv'
    BY <2>2, SameShrinks, ShrinkingKeeps DEF TransferInv
  <2>4. DueInv'
    BY <2>2 DEF TransferInv, DueInv
  <2>5. AcksInv' /\ AssembledIntact' /\ SentMeansReceived'
    BY <2>2 DEF TransferInv, AcksInv, AssembledIntact, SentMeansReceived, Received
  <2> QED BY <2>1, <2>3, <2>4, <2>5 DEF TransferInv
<1> QED BY <1>1, <1>2, <1>3, <1>4, <1>5, <1>6 DEF TransferNext

(* The invariant holds in every behaviour.                                 *)
LEMMA TransferInvariance == TransferSpec => []TransferInv
BY TransferInitial, TransferInductive, PTL DEF TransferSpec

(* What a peer hands up is one bundle and all of it, for any number of     *)
(* peers, bundles and segments, and however often links break, frames get  *)
(* lost and acknowledgements come late: as long as the number of a bundle  *)
(* is its own, which takes that fewer are queued than there are numbers.   *)
THEOREM BundlesAreWhole == TransferSpec => []AssembledIntact
<1>1. TransferInv => AssembledIntact
  BY DEF TransferInv
<1> QED BY <1>1, TransferInvariance, PTL

(* The router is told that a peer got a bundle only if it was handed up    *)
(* there, whole.                                                           *)
THEOREM ReportsAreTrue == TransferSpec => []SentMeansReceived
<1>1. TransferInv => SentMeansReceived
  BY DEF TransferInv
<1> QED BY <1>1, TransferInvariance, PTL
-----------------------------------------------------------------------------
(* The links, for every set of peers and every Ttl, PauseTime and          *)
(* MaxRetries.  The four invariants are inductive together, and the action *)
(* property follows from them.                                             *)

LinkInv == LinkTypeOK /\ OpenIsArmed /\ ClosedInTime /\ PausedIsDue

(* A link is closed in the one way: this keeps everything but the types of *)
(* what the caller changes besides.                                        *)
LEMMA CloseLinkInv ==
  ASSUME LinkInv, NEW p \in Remote, CloseLink(p), UNCHANGED <<silence, pauses>>
  PROVE  LinkInv'
<1>1. LinkTypeOK'
  BY LinkAssumption DEF LinkInv, LinkTypeOK, CloseLink
<1>2. OpenIsArmed'
  BY LinkAssumption DEF LinkInv, LinkTypeOK, CloseLink, OpenIsArmed, Open
<1>3. ClosedInTime' /\ PausedIsDue'
  BY LinkAssumption DEF LinkInv, LinkTypeOK, CloseLink, ClosedInTime, PausedIsDue, Open
<1> QED  BY <1>1, <1>2, <1>3 DEF LinkInv

LEMMA LinkInitInv == LinkInit => LinkInv
BY LinkAssumption
   DEF LinkInit, LinkInv, LinkTypeOK, OpenIsArmed, ClosedInTime, PausedIsDue, Open, SilenceBound

LEMMA LinkNextInv == LinkInv /\ [LinkNext]_linkVars => LinkInv'
<1> SUFFICES ASSUME LinkInv, [LinkNext]_linkVars PROVE LinkInv'
  OBVIOUS
<1>1. ASSUME NEW p \in Remote, DiscoveredLink(p) PROVE LinkInv'
  <2>1. CASE Open(p)
    <3>1. UNCHANGED <<state, expiry, retransmissions, pauses>>
      BY <1>1, <2>1 DEF DiscoveredLink
    <3> QED
      BY <1>1, <3>1, LinkAssumption
         DEF DiscoveredLink, LinkInv, LinkTypeOK, OpenIsArmed, ClosedInTime, PausedIsDue, Open,
             SilenceBound
  <2>2. CASE ~Open(p)
    <3>1. /\ state' = [state EXCEPT ![p] = "connected"]
          /\ expiry' = [expiry EXCEPT ![p] = Ttl]
          /\ retransmissions' = [retransmissions EXCEPT ![p] = 0]
          /\ silence' = [silence EXCEPT ![p] = 0]
          /\ pauses' = pauses
      BY <1>1, <2>2 DEF DiscoveredLink
    <3>2. LinkTypeOK'
      BY <3>1, LinkAssumption DEF LinkInv, LinkTypeOK, SilenceBound
    <3>3. OpenIsArmed' /\ ClosedInTime' /\ PausedIsDue'
      BY <3>1, LinkAssumption
         DEF LinkInv, LinkTypeOK, OpenIsArmed, ClosedInTime, PausedIsDue, Open
    <3> QED  BY <3>2, <3>3 DEF LinkInv
  <2> QED  BY <2>1, <2>2
<1>2. ASSUME NEW p \in Remote, BundleReceived(p) PROVE LinkInv'
  BY <1>2, LinkAssumption
     DEF BundleReceived, LinkInv, LinkTypeOK, OpenIsArmed, ClosedInTime, PausedIsDue, Open,
         SilenceBound
<1>3. ASSUME NEW p \in Remote, BundleSent(p) PROVE LinkInv'
  <2>1. LinkTypeOK'
    <3>1. silence' \in [Remote -> 0..SilenceBound]
      BY <1>3, LinkAssumption DEF BundleSent, LinkInv, LinkTypeOK, SilenceBound
    <3>2. retransmissions' \in [Remote -> (0..MaxRetries) \cup {None}]
      BY <1>3, LinkAssumption DEF BundleSent, LinkInv, LinkTypeOK
    <3> QED  BY <1>3, <3>1, <3>2 DEF BundleSent, LinkInv, LinkTypeOK
  <2>2. OpenIsArmed'
    <3>1. CASE Open(p)
      <4>1. retransmissions' = [retransmissions EXCEPT ![p] = 0]
        BY <1>3, <3>1 DEF BundleSent
      <4> QED
        BY <1>3, <3>1, <4>1, LinkAssumption
           DEF BundleSent, LinkInv, LinkTypeOK, OpenIsArmed, Open
    <3>2. CASE ~Open(p)
      BY <1>3, <3>2 DEF BundleSent, LinkInv, OpenIsArmed, Open
    <3> QED  BY <3>1, <3>2
  <2>3. ClosedInTime'
    <3>1. /\ UNCHANGED <<state, expiry>>
          /\ silence' = [silence EXCEPT ![p] = 0]
      BY <1>3 DEF BundleSent
    <3> QED
      BY <3>1, LinkAssumption DEF LinkInv, LinkTypeOK, OpenIsArmed, ClosedInTime, Open, SilenceBound
  <2>4. PausedIsDue'
    BY <1>3 DEF BundleSent, LinkInv, PausedIsDue
  <2> QED  BY <2>1, <2>2, <2>3, <2>4 DEF LinkInv
<1>4. ASSUME NEW p \in Remote, PauseLink(p) PROVE LinkInv'
  <2>1. CASE state[p] # "connected"
    BY <1>4, <2>1
       DEF PauseLink, LinkInv, LinkTypeOK, OpenIsArmed, ClosedInTime, PausedIsDue, Open
  <2>2. CASE state[p] = "connected" /\ retransmissions[p] >= MaxRetries
    BY <1>4, <2>2, CloseLinkInv DEF PauseLink
  <2>3. CASE state[p] = "connected" /\ ~(retransmissions[p] >= MaxRetries)
    <3>1. /\ state' = [state EXCEPT ![p] = "paused"]
          /\ retransmissions' = [retransmissions EXCEPT ![p] = @ + 1]
          /\ pauses' = [pauses EXCEPT ![p] = @ \cup {PauseTime}]
          /\ expiry' = expiry /\ silence' = silence
      BY <1>4, <2>3 DEF PauseLink
    <3>2. retransmissions[p] \in 0..MaxRetries
      BY <2>3, LinkAssumption DEF LinkInv, LinkTypeOK, OpenIsArmed, Open
    <3>3. retransmissions[p] + 1 \in 0..MaxRetries
      BY <2>3, <3>2, LinkAssumption
    <3>4. LinkTypeOK'
      BY <3>1, <3>3, LinkAssumption DEF LinkInv, LinkTypeOK
    <3>5. OpenIsArmed' /\ ClosedInTime' /\ PausedIsDue'
      BY <2>3, <3>1, <3>3, LinkAssumption
         DEF LinkInv, LinkTypeOK, OpenIsArmed, ClosedInTime, PausedIsDue, Open
    <3> QED  BY <3>4, <3>5 DEF LinkInv
  <2> QED  BY <2>1, <2>2, <2>3
<1>5. ASSUME NEW p \in Remote, UnPauseLink(p) PROVE LinkInv'
  <2>1. LinkTypeOK'
    BY <1>5 DEF UnPauseLink, LinkInv, LinkTypeOK
  <2>2. OpenIsArmed' /\ ClosedInTime'
    BY <1>5 DEF UnPauseLink, LinkInv, LinkTypeOK, OpenIsArmed, ClosedInTime, Open
  <2>3. PausedIsDue'
    BY <1>5 DEF UnPauseLink, LinkInv, LinkTypeOK, PausedIsDue
  <2> QED  BY <2>1, <2>2, <2>3 DEF LinkInv
<1>6. ASSUME NEW p \in Remote, CheckIfExpired(p) PROVE LinkInv'
  <2>1. CASE silence[p] >= Ttl
    BY <1>6, <2>1, CloseLinkInv DEF CheckIfExpired
  <2>2. CASE ~(silence[p] >= Ttl)
    <3>1. /\ expiry' = [expiry EXCEPT ![p] = Ttl - silence[p]]
          /\ UNCHANGED <<state, retransmissions, silence, pauses>>
          /\ expiry[p] = 0
      BY <1>6, <2>2 DEF CheckIfExpired
    <3>2. silence[p] \in Nat /\ Ttl - silence[p] \in 0..Ttl
      BY <2>2, LinkAssumption DEF LinkInv, LinkTypeOK, SilenceBound
    <3>3. LinkTypeOK'
      BY <3>1, <3>2, LinkAssumption DEF LinkInv, LinkTypeOK
    <3>4. OpenIsArmed' /\ ClosedInTime' /\ PausedIsDue'
      BY <3>1, <3>2, LinkAssumption
         DEF LinkInv, LinkTypeOK, OpenIsArmed, ClosedInTime, PausedIsDue, Open
    <3> QED  BY <3>3, <3>4 DEF LinkInv
  <2> QED  BY <2>1, <2>2
<1>7. ASSUME Tick PROVE LinkInv'
  <2>1. ASSUME NEW p \in Remote, Open(p)
        PROVE  /\ expiry[p] \in 1..Ttl
               /\ silence[p] \in 0..Ttl
               /\ silence[p] + expiry[p] <= Ttl
    BY <1>7, <2>1, LinkAssumption
       DEF Tick, LinkInv, LinkTypeOK, OpenIsArmed, ClosedInTime, SilenceBound
  <2>2. LinkTypeOK'
    <3>1. silence' \in [Remote -> 0..SilenceBound]
      BY <1>7, LinkAssumption DEF Tick, LinkInv, LinkTypeOK, SilenceBound
    <3>2. expiry' \in [Remote -> (0..Ttl) \cup {None}]
      BY <1>7, LinkAssumption DEF Tick, LinkInv, LinkTypeOK
    <3>3. \A p \in Remote : {t - 1 : t \in pauses[p]} \subseteq 0..PauseTime
      BY <1>7, LinkAssumption DEF Tick, LinkInv, LinkTypeOK
    <3>4. pauses' \in [Remote -> SUBSET (0..PauseTime)]
      BY <1>7, <3>3 DEF Tick
    <3> QED  BY <1>7, <3>1, <3>2, <3>4 DEF Tick, LinkInv, LinkTypeOK
  <2>3. OpenIsArmed'
    BY <1>7, LinkAssumption DEF Tick, LinkInv, LinkTypeOK, OpenIsArmed, Open
  <2>4. ClosedInTime'
    <3> SUFFICES ASSUME NEW p \in Remote, Open(p)'
                 PROVE  silence'[p] + expiry'[p] <= Ttl
      BY DEF ClosedInTime
    <3>1. Open(p)
      BY <1>7 DEF Tick, Open
    <3>2. silence'[p] = silence[p] + 1 /\ expiry'[p] = expiry[p] - 1
      BY <1>7, <2>1, <3>1, LinkAssumption DEF Tick, SilenceBound
    <3> QED  BY <2>1, <3>1, <3>2, LinkAssumption
  <2>5. PausedIsDue'
    <3> SUFFICES ASSUME NEW p \in Remote, state'[p] = "paused" PROVE pauses'[p] # {}
      BY DEF PausedIsDue
    <3>1. pauses[p] # {}
      BY <1>7 DEF Tick, LinkInv, PausedIsDue
    <3> QED  BY <1>7, <3>1 DEF Tick
  <2> QED  BY <2>2, <2>3, <2>4, <2>5 DEF LinkInv
<1>8. ASSUME UNCHANGED linkVars PROVE LinkInv'
  BY <1>8 DEF linkVars, LinkInv, LinkTypeOK, OpenIsArmed, ClosedInTime, PausedIsDue, Open
<1> QED
  BY <1>1, <1>2, <1>3, <1>4, <1>5, <1>6, <1>7, <1>8 DEF LinkNext

(* Every reachable state satisfies the four invariants. *)
THEOREM LinkInvariance == LinkSpec => []LinkInv
BY LinkInitInv, LinkNextInv, PTL DEF LinkSpec

(* The links, timers and contacts are of their types; retransmissions of a *)
(* contact never exceed MaxRetries and no timer is set beyond Ttl.         *)
THEOREM LinksTypeCorrect == LinkSpec => []LinkTypeOK
<1>1. LinkInv => LinkTypeOK
  BY DEF LinkInv
<1> QED  BY <1>1, LinkInvariance, PTL

(* A router that finds a link connected finds its contact, and no timer    *)
(* that runs is scheduled anew.                                            *)
THEOREM OpenLinksAreArmed == LinkSpec => []OpenIsArmed
<1>1. LinkInv => OpenIsArmed
  BY DEF LinkInv
<1> QED  BY <1>1, LinkInvariance, PTL

(* No link outlives a silence of Ttl. *)
THEOREM SilentLinksClose == LinkSpec => []ClosedInTime
<1>1. LinkInv => ClosedInTime
  BY DEF LinkInv
<1> QED  BY <1>1, LinkInvariance, PTL

(* A paused link always has the event to come that ends the pause. *)
THEOREM PausesAreDue == LinkSpec => []PausedIsDue
<1>1. LinkInv => PausedIsDue
  BY DEF LinkInv
<1> QED  BY <1>1, LinkInvariance, PTL

(* Only a silence of Ttl or MaxRetries failures close a link. *)
THEOREM LinksCloseForAReason == LinkSpec => NotClosedEarly
<1> DEFINE Early == \A p \in Remote : Open(p) /\ ~Open(p)' =>
                       silence[p] = Ttl \/ retransmissions[p] = MaxRetries
<1>1. LinkInv /\ [LinkNext]_linkVars => [Early]_linkVars
  <2> SUFFICES ASSUME LinkInv, LinkNext, NEW p \in Remote, Open(p), ~Open(p)'
               PROVE  silence[p] = Ttl \/ retransmissions[p] = MaxRetries
    OBVIOUS
  <2>1. /\ silence[p] \in Nat
        /\ expiry[p] \in 0..Ttl
        /\ silence[p] + expiry[p] <= Ttl
        /\ retransmissions[p] \in 0..MaxRetries
    BY LinkAssumption DEF LinkInv, LinkTypeOK, OpenIsArmed, ClosedInTime, SilenceBound
  <2>2. ASSUME NEW q \in Remote, DiscoveredLink(q) PROVE FALSE
    BY <2>2 DEF DiscoveredLink, Open, LinkInv, LinkTypeOK
  <2>3. ASSUME NEW q \in Remote, BundleReceived(q) \/ BundleSent(q) PROVE FALSE
    BY <2>3 DEF BundleReceived, BundleSent, Open
  <2>4. ASSUME NEW q \in Remote, PauseLink(q) PROVE retransmissions[p] = MaxRetries
    <3>1. state[q] = "connected" /\ retransmissions[q] >= MaxRetries /\ p = q
      BY <2>4 DEF PauseLink, CloseLink, Open, LinkInv, LinkTypeOK
    <3> QED  BY <2>1, <3>1, LinkAssumption
  <2>5. ASSUME NEW q \in Remote, UnPauseLink(q) PROVE FALSE
    BY <2>5 DEF UnPauseLink, Open, LinkInv, LinkTypeOK
  <2>6. ASSUME NEW q \in Remote, CheckIfExpired(q) PROVE silence[p] = Ttl
    <3>1. p = q /\ silence[q] >= Ttl /\ expiry[q] = 0
      BY <2>6 DEF CheckIfExpired, CloseLink, Open, LinkInv, LinkTypeOK
    <3> QED  BY <2>1, <3>1, LinkAssumption
  <2>7. ASSUME Tick PROVE FALSE
    BY <2>7 DEF Tick, Open
  <2> QED
    BY <2>2, <2>3, <2>4, <2>5, <2>6, <2>7 DEF LinkNext
<1> QED
  BY <1>1, LinkInvariance, PTL DEF LinkSpec, NotClosedEarly
=============================================================================
