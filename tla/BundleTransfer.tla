--------------------------- MODULE BundleTransfer ---------------------------
(***************************************************************************)
(* The convergence layer agent of one node sending bundles to its peers:   *)
(* ConvergenceLayerSender at the node, a receiving half at each peer, and  *)
(* between them a radio that loses frames.                                 *)
(*                                                                         *)
(* The MAC tries a unicast frame until it sees the peer's MAC-level        *)
(* acknowledgement.  The frame gets through at most once.  It reports ok   *)
(* only for a frame that got through, but failed also for one that did,    *)
(* when the MAC-level acknowledgements were lost.                          *)
(***************************************************************************)
EXTENDS ConvergenceLayerSender, ConvergenceLayerReceiver

CONSTANTS
  SendBound,  \* bound: bundles are queued while the sequence number is less
  Node        \* the MAC address of the sending node

(* The sequence number does not come round. *)
ASSUME TransferAssumption == SendBound \in Nat /\ SendBound < SequenceModulus

(* The peers, each indexed by MAC address *)
VARIABLES
  recvQueue,  \* m_recvQueue
  due,        \* the peer and the SegmentsId that ReassembleBundle is scheduled for
  peerAcks    \* m_ackQueue: the acknowledgements, with the retransmissions of each

(* The radio, and what has happened *)
VARIABLES
  through,    \* the frame the MAC holds has got through
  handedUp    \* the bundles ReassembleBundle passed to the peers' agents

peerVars == <<recvQueue, due, peerAcks, handedUp>>
transferVars == <<vars, peerVars, through>>

SegmentsId(n) == [sequenceNumber |-> n, source |-> Node]

TransferInit ==
  /\ Init
  /\ recvQueue = [p \in Mac |-> NoSegments]
  /\ due = {}
  /\ peerAcks = [p \in Mac |-> <<>>]
  /\ through = FALSE
  /\ handedUp = {}

-----------------------------------------------------------------------------
(* The sending node *)

RouterStep ==
  /\ \/ /\ sequenceNumber < SendBound
        /\ \E p \in Mac, g \in Bundle : SendBundle(p, g)
     \/ \E g \in Bundle, to \in Mac \cup {AnyEid} : CancelTransmission(g, to)
  /\ UNCHANGED <<peerVars, through>>

NodeSendSegments ==
  /\ SendSegments
  /\ through' = (through /\ isSending)
  /\ UNCHANGED peerVars

NodeSegmentSentOk ==
  /\ through
  /\ SegmentSentOk
  /\ UNCHANGED <<peerVars, through>>

NodeSegmentSentFailed ==
  /\ SegmentSentFailed
  /\ UNCHANGED <<peerVars, through>>

NodeAckTimeout ==
  /\ AckTimeout
  /\ UNCHANGED <<peerVars, through>>

-----------------------------------------------------------------------------
(* A peer *)

(* The segment the MAC holds: the next of the head of the queue. *)
Frame ==
  LET e == Head(sendQueue)
  IN  [number |-> NumberOfSegments[e.gbid] - e.segments + 1,
       total |-> NumberOfSegments[e.gbid],
       gbid |-> e.gbid]

ReceiveSegment ==
  /\ isSending /\ ~through
  /\ through' = TRUE
  /\ LET p == current.mac
         id == SegmentsId(Head(sendQueue).sequenceNumber)
     IN  /\ recvQueue' = [recvQueue EXCEPT ![p] = Store(@, id, Frame)]
         /\ due' = {i \in {<<p, id>>} : Completes(recvQueue[p], id, Frame)}
  /\ UNCHANGED <<vars, peerAcks, handedUp>>

(* The bundle is put together, acknowledged and passed up.  When the link  *)
(* was lost in the same instant, an entry that is gone is dereferenced:    *)
(* the program ends there.                                                 *)
ReassembleBundle(p, id) ==
  /\ <<p, id>> \in due
  /\ id \in DOMAIN recvQueue[p]
  /\ due' = {}
  /\ LET segments == recvQueue[p][id]
         g == ClaimedBundle(segments)
     IN  /\ peerAcks' = [peerAcks EXCEPT ![p] =
                           Append(@, [gbid |-> g, retransmissions |-> 0])]
         /\ handedUp' = handedUp \cup
              {[mac |-> p, gbid |-> g, sequenceNumber |-> id.sequenceNumber,
                intact |-> Intact(segments)]}
  /\ recvQueue' = [recvQueue EXCEPT ![p] = Without(@, id)]
  /\ UNCHANGED <<vars, through>>

(* LinkLost at the peer: what it holds of the node's bundles is dropped. *)
RemoveOrphanedSegments(p) ==
  /\ recvQueue[p] # NoSegments
  /\ recvQueue' = [recvQueue EXCEPT ![p] = WithoutSource(@, Node)]
  /\ UNCHANGED <<vars, due, peerAcks, handedUp, through>>

(* The acknowledgement tried last is tried again, or given up. *)
PeerAckSentFailed(acks) ==
  IF Head(acks).retransmissions = RetransmissionLimit
  THEN Tail(acks)
  ELSE [acks EXCEPT ![1].retransmissions = @ + 1]

(* The acknowledgement gets through, reported ok or failed. *)
AckArrives(p) ==
  /\ peerAcks[p] # <<>>
  /\ ReceiveAck(p, Head(peerAcks[p]).gbid)
  /\ \/ peerAcks' = [peerAcks EXCEPT ![p] = Tail(@)]
     \/ peerAcks' = [peerAcks EXCEPT ![p] = PeerAckSentFailed(@)]
  /\ UNCHANGED <<recvQueue, due, handedUp, through>>

AckLost(p) ==
  /\ peerAcks[p] # <<>>
  /\ peerAcks' = [peerAcks EXCEPT ![p] = PeerAckSentFailed(@)]
  /\ UNCHANGED <<vars, recvQueue, due, handedUp, through>>

-----------------------------------------------------------------------------

(* ReassembleBundle is scheduled for the very instant: it is done before   *)
(* anything else, but that the timer of the peer's link may be due, too.   *)
TransferNext ==
  \/ \E i \in due : ReassembleBundle(i[1], i[2])
  \/ \E p \in Mac : RemoveOrphanedSegments(p)
  \/ /\ due = {}
     /\ \/ RouterStep \/ NodeSendSegments \/ NodeSegmentSentOk
        \/ NodeSegmentSentFailed \/ NodeAckTimeout \/ ReceiveSegment
        \/ \E p \in Mac : AckArrives(p) \/ AckLost(p)

TransferSpec == TransferInit /\ [][TransferNext]_transferVars

-----------------------------------------------------------------------------

TransferTypeOK ==
  /\ TypeOK
  /\ \A p \in Mac : \A id \in DOMAIN recvQueue[p] :
       \A s \in recvQueue[p][id] : s.number \in 1..s.total /\ s.gbid \in Bundle
  /\ \A p \in Mac : \A i \in 1..Len(peerAcks[p]) :
       peerAcks[p][i] \in [gbid : Bundle, retransmissions : 0..RetransmissionLimit]
  /\ through \in BOOLEAN

Received(p, g) == \E r \in handedUp : r.mac = p /\ r.gbid = g /\ r.intact

(* The router is told that peer p got bundle g only when p's agent was     *)
(* handed all of g: however frames and acknowledgements were lost or late, *)
(* and whichever links broke meanwhile.                                    *)
SentMeansReceived ==
  \A u \in upcalls : u.kind = "sent" => Received(u.mac, u.gbid)

(* What a peer puts together is one bundle and all of it: the segments of  *)
(* an earlier transfer that stay behind never get into a later one.  The   *)
(* run keeps the sequence number from coming round.                        *)
AssembledIntact == \A r \in handedUp : r.intact

(* The acknowledgement that retires an entry comes from the peer the entry *)
(* was sent to: "Received a ACK from" a peer "and I was waiting for it!"   *)
(* is for those, and "but are no longer waiting for it" for the late ones. *)
AckedByItsPeer ==
  [][ \A u \in upcalls' :
        u.kind = "sent" /\ sendQueue # <<>> /\ sendQueue' = Tail(sendQueue)
          => u.mac = Head(sendQueue).mac ]_transferVars
=============================================================================
