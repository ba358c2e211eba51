------------------------------- MODULE Outbox -------------------------------
(***************************************************************************)
(* What the sending half of a convergence layer agent promises its router. *)
(* Bundles handed over for a peer wait in the order they came in.  Only    *)
(* the bundle at the head ever leaves, and for one of three reasons: the   *)
(* router is told it was sent, the router is told it failed, or the router *)
(* had cancelled it.  Segments, retransmissions, acknowledgement timers,   *)
(* callbacks of the MAC and scheduled events do not show.                  *)
(***************************************************************************)
EXTENDS Naturals, Sequences

CONSTANTS Mac,     \* the peers, by MAC address
          Bundle   \* the bundles, by global bundle identifier

VARIABLES outbox,  \* the bundles handed over that have not left, in order
          reports  \* what the router was told in the last step

vars == <<outbox, reports>>

Entry == [mac : Mac, gbid : Bundle, cancelled : BOOLEAN]

Report == [kind : {"sent", "failed", "cancelled"}, mac : Mac, gbid : Bundle]

TypeOK == outbox \in Seq(Entry) /\ reports \in SUBSET Report

Init == outbox = <<>> /\ reports = {}

(* The router hands a bundle over. *)
Accept(m, g) ==
  /\ outbox' = Append(outbox, [mac |-> m, gbid |-> g, cancelled |-> FALSE])
  /\ reports' = {}

(* The router cancels bundle g: to the one peer it names, or to all.  Each *)
(* entry concerned is marked once, and reported.                           *)
Cancel(g, peers) ==
  LET hit == {i \in 1..Len(outbox) : /\ outbox[i].gbid = g
                                     /\ outbox[i].mac \in peers
                                     /\ ~outbox[i].cancelled}
  IN  /\ outbox' = [i \in 1..Len(outbox) |->
                      IF i \in hit
                      THEN [mac |-> outbox[i].mac, gbid |-> g, cancelled |-> TRUE]
                      ELSE outbox[i]]
      /\ reports' = {[kind |-> "cancelled", mac |-> outbox[i].mac, gbid |-> g] :
                       i \in hit}

(* An acknowledgement of the head's bundle retires the head. *)
Retire(p) ==
  /\ outbox # <<>>
  /\ outbox' = Tail(outbox)
  /\ reports' = {[kind |-> "sent", mac |-> p, gbid |-> Head(outbox).gbid]}

(* An acknowledgement that retires nothing is still passed on. *)
PassOn(p, g) ==
  /\ UNCHANGED outbox
  /\ reports' = {[kind |-> "sent", mac |-> p, gbid |-> g]}

(* Only a bundle that is still wanted fails. *)
Fail ==
  /\ outbox # <<>>
  /\ ~Head(outbox).cancelled
  /\ outbox' = Tail(outbox)
  /\ reports' = {[kind |-> "failed", mac |-> Head(outbox).mac,
                  gbid |-> Head(outbox).gbid]}

(* A cancelled bundle leaves without a word: it was reported when cancelled. *)
Discard ==
  /\ outbox # <<>>
  /\ Head(outbox).cancelled
  /\ outbox' = Tail(outbox)
  /\ reports' = {}

(* Work the router does not see. *)
Quiet == UNCHANGED outbox /\ reports' = {}

Next ==
  \/ \E m \in Mac, g \in Bundle : Accept(m, g) \/ PassOn(m, g)
  \/ \E g \in Bundle, peers \in SUBSET Mac : Cancel(g, peers)
  \/ \E p \in Mac : Retire(p)
  \/ Fail
  \/ Discard
  \/ Quiet

Spec == Init /\ [][Next]_vars
=============================================================================
