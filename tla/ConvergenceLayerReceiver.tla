---------------------- MODULE ConvergenceLayerReceiver ----------------------
(***************************************************************************)
(* The receiving half of ConvergenceLayerAgent: m_recvQueue, the segments  *)
(* of bundles not yet whole.  It is a function from the SegmentsIds held   *)
(* to the segments held of each.  A SegmentsId is the sequence number the  *)
(* sender gave the bundle and the sender's MAC address.  These are the     *)
(* changes the handlers make to it; BundleTransfer has the handlers.       *)
(*                                                                         *)
(* A segment is its number, the number of segments of its bundle, and      *)
(* which bundle it is a piece of.                                          *)
(***************************************************************************)
EXTENDS Naturals, FiniteSets

NoSegments == [id \in {} |-> {}]

(* A segment with this number is held already. *)
Held(recvQueue, id, segment) ==
  /\ id \in DOMAIN recvQueue
  /\ \E s \in recvQueue[id] : s.number = segment.number

(* m_recvQueue once the segment has come in: a second copy is dropped. *)
Store(recvQueue, id, segment) ==
  IF Held(recvQueue, id, segment)
  THEN recvQueue
  ELSE [i \in DOMAIN recvQueue \cup {id} |->
          IF i # id THEN recvQueue[i]
          ELSE {segment} \cup (IF id \in DOMAIN recvQueue THEN recvQueue[id] ELSE {})]

(* Mutant: the segment with the end flag completes a bundle. *)
CompletesAtEnd(recvQueue, id, segment) ==
  ~Held(recvQueue, id, segment) /\ segment.number = segment.total

(* The segment makes its bundle whole: as many are held as its header says *)
(* there are, or it is the first held and carries the start and end flags. *)
Completes(recvQueue, id, segment) ==
  IF id \in DOMAIN recvQueue
  THEN /\ ~Held(recvQueue, id, segment)
       /\ Cardinality(recvQueue[id]) + 1 = segment.total
  ELSE segment.total = 1

(* ReassembleBundle takes the entry out. *)
Without(recvQueue, id) == [i \in DOMAIN recvQueue \ {id} |-> recvQueue[i]]

(* RemoveOrphanedSegments: the link to the peer is lost. *)
WithoutSource(recvQueue, mac) ==
  [i \in {j \in DOMAIN recvQueue : j.source # mac} |-> recvQueue[i]]

(* The bundle the segments claim to be: that of the first one's header. *)
ClaimedBundle(segments) ==
  (CHOOSE s \in segments : \A t \in segments : s.number <= t.number).gbid

(* The segments are one bundle's, and all of them. *)
Intact(segments) ==
  \E s \in segments :
    /\ \A t \in segments : t.gbid = s.gbid /\ t.total = s.total
    /\ {t.number : t \in segments} = 1..s.total
=============================================================================
