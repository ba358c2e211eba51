------------------------- MODULE OrwarNetwork_proofs -------------------------
(***************************************************************************)
(* Two nodes that run ORWAR, for every number of copies, of retries, every *)
(* window, and any messages under way: the types, that a bundle taken for  *)
(* delivered has come to the node it is for, and that a link that is open  *)
(* is timed.                                                               *)
(*                                                                         *)
(* What a node knows comes from what it is told, so everything that is     *)
(* listed or under way has to be true as well, and so has the              *)
(* acknowledgement of the node that the bundle is for.  A link is found    *)
(* open without its timer only as it was found closed, with nothing        *)
(* listed.                                                                 *)
(***************************************************************************)
EXTENDS OrwarNetwork, SequenceTheorems, TLAPS

(* The bundle is known here, or told to be delivered. *)
Tells(s) ==
  \/ s.kdm
  \/ \E t \in s.air : t.message.known
  \/ \E i \in DOMAIN s.list : s.list[i].message.known

(* A link open with no timer is as it was opened, one closed has no list. *)
Timed(s) ==
  /\ Open(s) /\ ~s.armed => s.contact = "R_RECEIVED_CWI" /\ s.window = 0 /\ s.list = <<>>
  /\ ~Open(s) => s.list = <<>>

(* What n says is so, and what an acknowledgement would have it believe. *)
Truthful(n) ==
  /\ Tells(node[n]) => HasArrived
  /\ node[n].taken /\ dest = Peer(n) => HasArrived

IInv ==
  /\ TypeOK
  /\ \A n \in Node : Timed(node[n]) /\ Truthful(n)

-----------------------------------------------------------------------------
(* Two nodes *)

LEMMA PeerIsOther ==
  ASSUME NEW n \in Node
  PROVE  /\ Peer(n) \in Node /\ Peer(n) # n
         /\ \A m \in Node : m = n \/ m = Peer(n)
<1>1. PICK x, y \in Node : x # y /\ Node = {x, y}
  BY OrwarAssumption
<1>2. \E p \in Node : p # n
  BY <1>1
<1>3. Peer(n) \in Node /\ Peer(n) # n
  BY <1>2 DEF Peer
<1> QED BY <1>1, <1>3

(* What the constants are. *)
LEMMA Numbers ==
  /\ {MaxRetries, KdmTime, BundleTime, WindowBound} \subseteq Nat
  /\ CwMax \in Nat /\ Brought \in [Dests -> SUBSET Nat]
BY OrwarAssumption DEF CwMax

LEMMA Nothing ==
  0 \in 0..CwMax /\ 0 \in 0..MaxRetries /\ <<>> \in Seq(Item)
<1>1. 0 \in 0..CwMax /\ 0 \in 0..MaxRetries
  BY Numbers
<1> QED BY <1>1, EmptySeq

-----------------------------------------------------------------------------
(* What a handler leaves as it was.  It may forget, and call things off:   *)
(* nothing new is said, and nothing more is to be acknowledged.            *)

Quiet(s, t) ==
  /\ t \in NodeState
  /\ s.kdm => t.kdm
  /\ Tells(t) => Tells(s)
  /\ t.taken => s.taken

LEMMA QuietThen ==
  ASSUME NEW s, NEW t, NEW u, Quiet(s, t), Quiet(t, u)
  PROVE  Quiet(s, u)
BY DEF Quiet

(* Nothing but these fields change. *)
LEMMA QuietFields ==
  ASSUME NEW s \in NodeState, NEW t \in NodeState,
         s.kdm => t.kdm, t.kdm => s.kdm, t.air = s.air,
         t.list = s.list \/ t.list = <<>>, t.taken = s.taken
  PROVE  Quiet(s, t)
BY DEF Quiet, Tells

(* The agent stops waiting; what it says is the same. *)
LEMMA Cancelled ==
  ASSUME NEW s \in NodeState, NEW air \in SUBSET Transmission,
         \A t \in air : \E u \in s.air : u.message = t.message
  PROVE  Quiet(s, [s EXCEPT !.air = air])
<1> DEFINE t == [s EXCEPT !.air = air]
<1>1. /\ t \in NodeState /\ t.kdm = s.kdm /\ t.taken = s.taken /\ t.list = s.list
      /\ t.air = air
  BY DEF NodeState
<1>2. Tells(t) => Tells(s)
  BY <1>1 DEF Tells
<1> QED BY <1>1, <1>2 DEF Quiet

LEMMA CancelTransmissionsQuiet ==
  ASSUME NEW s \in NodeState, NEW kinds
  PROVE  /\ Quiet(s, CancelTransmissions(s, kinds))
         /\ \E air \in SUBSET Transmission :
              CancelTransmissions(s, kinds) = [s EXCEPT !.air = air]
<1> DEFINE air == {[t EXCEPT !.live = @ /\ t.message.what \notin kinds] : t \in s.air}
<1>1. s.air \in SUBSET Transmission
  BY DEF NodeState
<1>2. ASSUME NEW t \in s.air
      PROVE  /\ [t EXCEPT !.live = @ /\ t.message.what \notin kinds] \in Transmission
             /\ [t EXCEPT !.live = @ /\ t.message.what \notin kinds].message = t.message
  BY <1>1 DEF Transmission
<1>3. air \in SUBSET Transmission /\ \A t \in air : \E u \in s.air : u.message = t.message
  BY <1>2
<1>4. CancelTransmissions(s, kinds) = [s EXCEPT !.air = air]
  BY DEF CancelTransmissions, NodeState
<1> QED BY <1>3, <1>4, Cancelled

LEMMA SettleQuiet ==
  ASSUME NEW s \in NodeState, NEW m
  PROVE  /\ Quiet(s, Settle(s, m))
         /\ \E air \in SUBSET Transmission : Settle(s, m) = [s EXCEPT !.air = air]
<1> DEFINE air == {[t EXCEPT !.live = @ /\ t.message # m] : t \in s.air}
<1>1. s.air \in SUBSET Transmission
  BY DEF NodeState
<1>2. ASSUME NEW t \in s.air
      PROVE  /\ [t EXCEPT !.live = @ /\ t.message # m] \in Transmission
             /\ [t EXCEPT !.live = @ /\ t.message # m].message = t.message
  BY <1>1 DEF Transmission
<1>3. air \in SUBSET Transmission /\ \A t \in air : \E u \in s.air : u.message = t.message
  BY <1>2
<1>4. Settle(s, m) = [s EXCEPT !.air = air]
  BY DEF Settle, NodeState
<1> QED BY <1>3, <1>4, Cancelled

LEMMA CancelQueuedQuiet ==
  ASSUME NEW s \in NodeState
  PROVE  /\ Quiet(s, CancelQueued(s))
         /\ \E air \in SUBSET Transmission : CancelQueued(s) = [s EXCEPT !.air = air]
BY CancelTransmissionsQuiet DEF CancelQueued

-----------------------------------------------------------------------------
(* The link *)

(* What says whether a link is timed. *)
LinkOf(s) == <<s.link, s.contact, s.window, s.armed, s.list>>

LEMMA TimedAsBefore ==
  ASSUME NEW s, NEW t, LinkOf(t) = LinkOf(s), Timed(s)
  PROVE  Timed(t)
BY DEF LinkOf, Timed, Open

LEMMA TimerRuns ==
  ASSUME NEW t, Open(t), t.armed
  PROVE  Timed(t)
BY DEF Timed

LEMMA CloseLinkKeeps ==
  ASSUME NEW s \in NodeState
  PROVE  Quiet(s, CloseLink(s)) /\ Timed(CloseLink(s))
<1>1. PICK air \in SUBSET Transmission : CancelQueued(s) = [s EXCEPT !.air = air]
  BY CancelQueuedQuiet
<1> DEFINE t == [s EXCEPT !.air = air]
           u == CloseLink(s)
<1>2. Quiet(s, t) /\ t \in NodeState
  BY <1>1, CancelQueuedQuiet DEF Quiet
<1>3. u = [[t EXCEPT !.list = <<>>] EXCEPT
             !.link = "unavailable", !.contact = "UNKOWN_STATE", !.window = 0,
             !.armed = FALSE, !.retries = 0]
  BY <1>1 DEF CloseLink, DoLinkClosed, RemoveRouterSpecificBundles
<1> HIDE DEF t, u
<1>4. u \in NodeState
  BY <1>2, <1>3, Nothing DEF NodeState
<1>5. /\ u.kdm = t.kdm /\ u.air = t.air /\ u.list = <<>> /\ u.taken = t.taken
      /\ u.link = "unavailable"
  BY <1>2, <1>3 DEF NodeState
<1>6. Quiet(t, u)
  BY <1>2, <1>4, <1>5, QuietFields
<1>7. Quiet(s, u)
  BY <1>2, <1>6, QuietThen
<1>8. Timed(u)
  BY <1>5 DEF Timed, Open
<1> QED BY <1>7, <1>8 DEF u

LEMMA PauseLinkKeeps ==
  ASSUME NEW s \in NodeState, Timed(s)
  PROVE  Quiet(s, PauseLink(s)) /\ Timed(PauseLink(s))
<1>1. CASE s.link # "connected"
  <2>1. PauseLink(s) = s
    BY <1>1 DEF PauseLink
  <2> QED BY <2>1, QuietFields
<1>2. CASE s.link = "connected" /\ s.retries >= MaxRetries
  <2>1. PauseLink(s) = CloseLink(s)
    BY <1>2 DEF PauseLink
  <2> QED BY <2>1, CloseLinkKeeps
<1>3. CASE s.link = "connected" /\ ~(s.retries >= MaxRetries)
  <2>1. PICK air \in SUBSET Transmission : CancelQueued(s) = [s EXCEPT !.air = air]
    BY CancelQueuedQuiet
  <2> DEFINE t == [s EXCEPT !.air = air]
             u == PauseLink(s)
  <2>2. Quiet(s, t) /\ t \in NodeState
    BY <2>1, CancelQueuedQuiet DEF Quiet
  <2>3. u = [t EXCEPT !.link = "paused", !.retries = @ + 1]
    BY <1>3, <2>1 DEF PauseLink
  <2>4. t.retries = s.retries /\ s.retries \in 0..MaxRetries
    BY DEF NodeState
  <2>5. /\ t.link = s.link /\ t.contact = s.contact /\ t.window = s.window
        /\ t.armed = s.armed /\ t.list = s.list
    BY DEF NodeState
  <2> HIDE DEF t, u
  <2>6. t.retries + 1 \in 0..MaxRetries
    BY <1>3, <2>4, Numbers
  <2>7. u \in NodeState
    BY <2>2, <2>3, <2>6 DEF NodeState
  <2>8. /\ u.kdm = t.kdm /\ u.air = t.air /\ u.list = t.list /\ u.taken = t.taken
        /\ u.contact = t.contact /\ u.window = t.window /\ u.armed = t.armed
        /\ u.link = "paused"
    BY <2>2, <2>3 DEF NodeState
  <2>9. Quiet(s, u)
    BY <2>2, <2>7, <2>8, QuietFields, QuietThen
  <2>10. Timed(u)
    BY <1>3, <2>5, <2>8 DEF Timed, Open
  <2> QED BY <2>9, <2>10 DEF u
<1> QED BY <1>1, <1>2, <1>3

-----------------------------------------------------------------------------
(* A handler that may also learn, if k, that the bundle is delivered. *)

Learned(s, t, k) ==
  /\ t \in NodeState
  /\ s.kdm => t.kdm
  /\ Tells(t) => Tells(s) \/ k
  /\ t.taken => s.taken

LEMMA LearnedThen ==
  ASSUME NEW s, NEW t, NEW u, NEW k \in BOOLEAN
  PROVE  /\ Quiet(s, t) => Learned(s, t, k)
         /\ Learned(s, t, k) /\ Quiet(t, u) => Learned(s, u, k)
         /\ Quiet(s, t) /\ Learned(t, u, k) => Learned(s, u, k)
BY DEF Quiet, Learned

-----------------------------------------------------------------------------
(* The messages of the router *)

LEMMA AddKeeps ==
  ASSUME NEW s \in NodeState, NEW m \in Message, m.known => Tells(s)
  PROVE  LET t == AddRouterSpecificBundle(s, m)
         IN  /\ Quiet(s, t)
             /\ t.link = s.link /\ t.contact = s.contact /\ t.armed = s.armed
<1> DEFINE i == [message |-> m, stage |-> "listed"]
           l == Append(s.list, i)
           t == [s EXCEPT !.list = l]
<1>1. i \in Item /\ s.list \in Seq(Item)
  BY DEF Item, NodeState
<1>2. l \in Seq(Item) /\ DOMAIN l = 1..(Len(s.list) + 1)
  BY <1>1
<1>3. \A j \in DOMAIN l : (j \in DOMAIN s.list /\ l[j] = s.list[j]) \/ l[j] = i
  BY <1>1, <1>2
<1> HIDE DEF l, i
<1>4. t \in NodeState
  BY <1>2 DEF NodeState
<1>5. /\ t.kdm = s.kdm /\ t.air = s.air /\ t.list = l /\ t.taken = s.taken
      /\ t.link = s.link /\ t.contact = s.contact /\ t.armed = s.armed
  BY DEF NodeState
<1>6. i.message = m
  BY DEF i
<1>7. Tells(t) => Tells(s)
  BY <1>3, <1>5, <1>6 DEF Tells
<1>8. AddRouterSpecificBundle(s, m) = t
  BY DEF AddRouterSpecificBundle, l, i
<1> HIDE DEF t
<1> QED BY <1>4, <1>5, <1>7, <1>8 DEF Quiet

LEMMA SendCwiKeeps ==
  ASSUME NEW s \in NodeState, NEW initiator \in BOOLEAN
  PROVE  LET t == SendCwi(s, initiator)
         IN  /\ Quiet(s, t)
             /\ t.link = s.link /\ t.contact = s.contact /\ t.armed = s.armed
<1>1. GenerateCwi(initiator) \in Message /\ ~GenerateCwi(initiator).known
  BY Nothing DEF GenerateCwi, Message
<1> QED BY <1>1, AddKeeps DEF SendCwi

LEMMA SendKdmKeeps ==
  ASSUME NEW s \in NodeState, NEW initiator \in BOOLEAN
  PROVE  LET t == SendKdm(s, initiator)
         IN  /\ Quiet(s, t)
             /\ t.link = s.link /\ t.contact = s.contact /\ t.armed = s.armed
<1>1. s.kdm \in BOOLEAN
  BY DEF NodeState
<1>2. GenerateKdm(s, initiator) \in Message
  BY <1>1, Nothing DEF GenerateKdm, Message
<1>3. GenerateKdm(s, initiator).known => Tells(s)
  BY DEF GenerateKdm, Tells
<1> QED BY <1>2, <1>3, AddKeeps DEF SendKdm

(* Item i goes, and those after it move up. *)
LEMMA RemovedAt ==
  ASSUME NEW l \in Seq(Item), NEW i \in DOMAIN l
  PROVE  /\ RemoveAt(l, i) \in Seq(Item)
         /\ \A j \in DOMAIN RemoveAt(l, i) : \E k \in DOMAIN l : RemoveAt(l, i)[j] = l[k]
<1> DEFINE n == Len(l)
           a == SubSeq(l, 1, i - 1)
           b == SubSeq(l, i + 1, n)
           c == a \o b
<1>1. i \in 1..n /\ n \in Nat /\ DOMAIN l = 1..n
  OBVIOUS
<1>2. a \in Seq(Item) /\ Len(a) = i - 1 /\ \A j \in 1..(i - 1) : a[j] = l[j]
  BY <1>1
<1>3. b \in Seq(Item) /\ Len(b) = n - i /\ \A j \in 1..(n - i) : b[j] = l[i + j]
  <2>1. i + 1 \in Int /\ n \in Int /\ \A j \in (i + 1)..n : l[j] \in Item
    BY <1>1
  <2>2. /\ b \in Seq(Item)
        /\ Len(b) = IF i + 1 <= n THEN n - (i + 1) + 1 ELSE 0
        /\ \A j \in 1..(n - (i + 1) + 1) : b[j] = l[(i + 1) + j - 1]
    BY <2>1, SubSeqProperties
  <2> HIDE DEF b, n
  <2>3. Len(b) = n - i
    BY <1>1, <2>2
  <2>4. ASSUME NEW j \in 1..(n - i) PROVE b[j] = l[i + j]
    <3>1. j \in 1..(n - (i + 1) + 1) /\ (i + 1) + j - 1 = i + j
      BY <1>1
    <3> QED BY <2>2, <3>1
  <2> QED BY <2>2, <2>3, <2>4
<1>4. RemoveAt(l, i) = c
  BY DEF RemoveAt
<1> HIDE DEF a, b, n
<1>5. /\ c \in Seq(Item) /\ Len(c) = Len(a) + Len(b)
      /\ \A j \in 1..(Len(a) + Len(b)) :
           c[j] = IF j <= Len(a) THEN a[j] ELSE b[j - Len(a)]
  BY <1>2, <1>3, ConcatProperties
<1> HIDE DEF c
<1>6. Len(a) = i - 1 /\ Len(a) + Len(b) = n - 1 /\ DOMAIN c = 1..Len(c)
  BY <1>1, <1>2, <1>3, <1>5
<1>7. /\ DOMAIN c = 1..(n - 1)
      /\ \A j \in 1..(n - 1) : c[j] = IF j <= i - 1 THEN a[j] ELSE b[j - (i - 1)]
  BY <1>5, <1>6
<1>8. ASSUME NEW j \in 1..(n - 1)
      PROVE  \E k \in DOMAIN l : c[j] = l[k]
  <2>1. CASE j <= i - 1
    <3>1. j \in 1..(i - 1) /\ j \in DOMAIN l
      BY <1>1, <2>1
    <3> QED BY <1>2, <1>7, <2>1, <3>1
  <2>2. CASE ~(j <= i - 1)
    <3>1. j - (i - 1) \in 1..(n - i) /\ i + (j - (i - 1)) = j + 1 /\ j + 1 \in DOMAIN l
      BY <1>1, <2>2
    <3>2. c[j] = l[i + (j - (i - 1))]
      BY <1>3, <1>7, <2>2, <3>1
    <3> QED BY <3>1, <3>2
  <2> QED BY <2>1, <2>2
<1> QED BY <1>4, <1>5, <1>7, <1>8

LEMMA RemoveRouterSpecificBundleKeeps ==
  ASSUME NEW s \in NodeState, NEW i \in DOMAIN s.list
  PROVE  LET t == RemoveRouterSpecificBundle(s, i)
         IN  /\ Quiet(s, t)
             /\ t.link = s.link /\ t.contact = s.contact /\ t.armed = s.armed
<1> DEFINE l == RemoveAt(s.list, i)
           t == [s EXCEPT !.list = l]
<1>1. s.list \in Seq(Item)
  BY DEF NodeState
<1>2. l \in Seq(Item) /\ \A j \in DOMAIN l : \E k \in DOMAIN s.list : l[j] = s.list[k]
  BY <1>1, RemovedAt
<1> HIDE DEF l
<1>3. t \in NodeState
  BY <1>2 DEF NodeState
<1>4. /\ t.kdm = s.kdm /\ t.air = s.air /\ t.list = l /\ t.taken = s.taken
      /\ t.link = s.link /\ t.contact = s.contact /\ t.armed = s.armed
  BY DEF NodeState
<1>5. Tells(t) => Tells(s)
  BY <1>2, <1>4 DEF Tells
<1>6. RemoveRouterSpecificBundle(s, i) = t
  BY DEF RemoveRouterSpecificBundle, l
<1> HIDE DEF t
<1> QED BY <1>3, <1>4, <1>5, <1>6 DEF Quiet

-----------------------------------------------------------------------------
(* The bundle, and what is known of it: the link is left alone *)

LEMMA DeleteBundleKeeps ==
  ASSUME NEW s \in NodeState
  PROVE  Quiet(s, DeleteBundle(s)) /\ LinkOf(DeleteBundle(s)) = LinkOf(s)
<1>1. PICK air \in SUBSET Transmission :
        CancelTransmissions(s, {"data"}) = [s EXCEPT !.air = air]
  BY CancelTransmissionsQuiet
<1> DEFINE t == [s EXCEPT !.air = air]
           u == DeleteBundle(s)
<1>2. Quiet(s, t) /\ t \in NodeState
  BY <1>1, CancelTransmissionsQuiet DEF Quiet
<1>3. LinkOf(t) = LinkOf(s)
  BY DEF LinkOf, NodeState
<1>4. u = [t EXCEPT !.holds = FALSE, !.factor = 0, !.received = FALSE]
  BY <1>1 DEF DeleteBundle
<1> HIDE DEF t, u
<1>5. u \in NodeState
  BY <1>2, <1>4, Nothing DEF NodeState
<1>6. /\ u.kdm = t.kdm /\ u.air = t.air /\ u.list = t.list /\ u.taken = t.taken
      /\ u.link = t.link /\ u.contact = t.contact /\ u.window = t.window
      /\ u.armed = t.armed
  BY <1>2, <1>4 DEF NodeState
<1>7. Quiet(s, u)
  BY <1>2, <1>5, <1>6, QuietFields, QuietThen
<1> QED BY <1>3, <1>6, <1>7 DEF LinkOf, u

LEMMA RemoveDeliveredBundlesKeeps ==
  ASSUME NEW s \in NodeState, NEW known \in BOOLEAN
  PROVE  LET t == RemoveDeliveredBundles(s, known)
         IN  Quiet(s, t) /\ LinkOf(t) = LinkOf(s)
<1>1. CASE known /\ s.holds
  <2> DEFINE t == DeleteBundle(s)
             u == [t EXCEPT !.log = FALSE]
  <2>1. RemoveDeliveredBundles(s, known) = u
    BY <1>1 DEF RemoveDeliveredBundles
  <2>2. Quiet(s, t) /\ LinkOf(t) = LinkOf(s) /\ t \in NodeState
    BY DeleteBundleKeeps DEF Quiet
  <2> HIDE DEF t
  <2>3. /\ u \in NodeState /\ u.kdm = t.kdm /\ u.air = t.air /\ u.list = t.list
        /\ u.taken = t.taken /\ u.link = t.link /\ u.contact = t.contact
        /\ u.window = t.window /\ u.armed = t.armed
    BY <2>2 DEF NodeState
  <2> HIDE DEF u
  <2>4. Quiet(t, u) /\ LinkOf(u) = LinkOf(t)
    BY <2>2, <2>3, QuietFields DEF LinkOf
  <2> QED BY <2>1, <2>2, <2>4, QuietThen
<1>2. CASE ~(known /\ s.holds)
  <2>1. RemoveDeliveredBundles(s, known) = s
    BY <1>2 DEF RemoveDeliveredBundles
  <2> QED BY <2>1, QuietFields
<1> QED BY <1>1, <1>2

(* The bundle is known from here on, if k. *)
LEMMA NowKnown ==
  ASSUME NEW s \in NodeState, NEW k \in BOOLEAN
  PROVE  LET t == [s EXCEPT !.kdm = @ \/ k]
         IN  Learned(s, t, k) /\ LinkOf(t) = LinkOf(s) /\ t.kdm = (s.kdm \/ k)
<1> DEFINE t == [s EXCEPT !.kdm = @ \/ k]
<1>1. /\ t \in NodeState /\ t.kdm = (s.kdm \/ k) /\ t.air = s.air /\ t.list = s.list
      /\ t.taken = s.taken /\ LinkOf(t) = LinkOf(s)
  BY DEF NodeState, LinkOf
<1> HIDE DEF t
<1>2. Learned(s, t, k)
  BY <1>1 DEF Learned, Tells
<1> QED BY <1>1, <1>2 DEF t

LEMMA LearnKeeps ==
  ASSUME NEW s \in NodeState, NEW known \in BOOLEAN
  PROVE  LET t == Learn(s, known)
         IN  /\ Learned(s, t, known) /\ LinkOf(t) = LinkOf(s)
             /\ known => t.kdm
<1> DEFINE t == RemoveDeliveredBundles(s, known)
<1>1. Quiet(s, t) /\ LinkOf(t) = LinkOf(s) /\ t \in NodeState
  BY RemoveDeliveredBundlesKeeps DEF Quiet
<1> DEFINE u == [t EXCEPT !.kdm = @ \/ known]
<1>2. Learn(s, known) = u
  BY DEF Learn
<1> HIDE DEF t
<1>3. Learned(t, u, known) /\ LinkOf(u) = LinkOf(t) /\ u.kdm = (t.kdm \/ known)
  BY <1>1, NowKnown
<1> HIDE DEF u
<1>4. Learned(s, u, known)
  BY <1>1, <1>3, LearnedThen
<1> QED BY <1>1, <1>2, <1>3, <1>4

LEMMA DoBundleDeliveredKeeps ==
  ASSUME NEW s \in NodeState, NEW fromAck \in BOOLEAN
  PROVE  LET t == DoBundleDelivered(s, fromAck)
         IN  Learned(s, t, TRUE) /\ LinkOf(t) = LinkOf(s) /\ t.kdm
<1> DEFINE t == [s EXCEPT !.kdm = TRUE]
           u == DoBundleDelivered(s, fromAck)
<1>1. t = [s EXCEPT !.kdm = @ \/ TRUE]
  OBVIOUS
<1>2. Learned(s, t, TRUE) /\ LinkOf(t) = LinkOf(s) /\ t.kdm /\ t \in NodeState
  BY <1>1, NowKnown DEF Learned
<1> HIDE DEF t
<1>3. u = RemoveDeliveredBundles(t, TRUE) \/ u = t
  BY DEF DoBundleDelivered, t
<1> HIDE DEF u
<1>4. Quiet(t, u) /\ LinkOf(u) = LinkOf(t)
  BY <1>2, <1>3, RemoveDeliveredBundlesKeeps, QuietFields
<1>5. u.kdm
  BY <1>2, <1>4 DEF Quiet
<1> QED BY <1>2, <1>4, <1>5, LearnedThen DEF u

-----------------------------------------------------------------------------
(* What comes in *)

(* A link that is opened anew by the peer has nothing listed. *)
LEMMA HeardCwiKeeps ==
  ASSUME NEW s \in NodeState, Timed(s)
  PROVE  LET t == HeardCwi(s) IN Quiet(s, t) /\ Timed(t)
<1>1. CASE Open(s)
  <2>1. HeardCwi(s) = s
    BY <1>1 DEF HeardCwi
  <2> QED BY <2>1, QuietFields
<1>2. CASE ~Open(s)
  <2> DEFINE t == HeardCwi(s)
  <2>1. s.armed \in BOOLEAN /\ ContactSetup(s, FALSE) = s
    BY DEF ContactSetup, NodeState
  <2>2. t = [s EXCEPT !.link = "connected", !.contact = "R_RECEIVED_CWI", !.window = 0,
                      !.retries = 0]
    BY <1>2, <2>1 DEF HeardCwi, OpenLink, NodeState
  <2> HIDE DEF t
  <2>3. t \in NodeState
    BY <2>2, Nothing DEF NodeState, SettingUp
  <2>4. /\ t.kdm = s.kdm /\ t.air = s.air /\ t.list = s.list /\ t.taken = s.taken
        /\ t.contact = "R_RECEIVED_CWI" /\ t.window = 0 /\ t.link = "connected"
    BY <2>2 DEF NodeState
  <2>5. Quiet(s, t)
    BY <2>3, <2>4, QuietFields
  <2>6. Timed(t)
    BY <1>2, <2>4 DEF Timed, Open
  <2> QED BY <2>5, <2>6 DEF t
<1> QED BY <1>1, <1>2

LEMMA CalculateContactWindowKeeps ==
  ASSUME NEW s \in NodeState, NEW w \in 0..CwMax
  PROVE  LET t == CalculateContactWindow(s, w)
         IN  Quiet(s, t) /\ t.link = s.link /\ t.armed
<1> DEFINE v == IF s.window = CwMax THEN s.window ELSE w
           t == CalculateContactWindow(s, w)
<1>1. t = [s EXCEPT !.window = v, !.armed = TRUE]
  BY DEF CalculateContactWindow, FinishedSetup
<1>2. v \in 0..CwMax
  BY DEF NodeState
<1> HIDE DEF v
<1>3. /\ t \in NodeState /\ t.kdm = s.kdm /\ t.air = s.air /\ t.list = s.list
      /\ t.taken = s.taken /\ t.link = s.link /\ t.armed
  BY <1>1, <1>2 DEF NodeState
<1> HIDE DEF t
<1>4. Quiet(s, t)
  BY <1>3, QuietFields
<1> QED BY <1>3, <1>4 DEF t

(* A state of the contact, in a link that is timed. *)
LEMMA ContactChanges ==
  ASSUME NEW s \in NodeState, NEW c \in SettingUp \cup {"READY"}, Open(s), s.armed
  PROVE  LET t == [s EXCEPT !.contact = c]
         IN  Quiet(s, t) /\ Timed(t)
<1> DEFINE t == [s EXCEPT !.contact = c]
<1>1. /\ t \in NodeState /\ t.kdm = s.kdm /\ t.air = s.air /\ t.list = s.list
      /\ t.taken = s.taken /\ t.link = s.link /\ t.armed
  BY DEF NodeState
<1> HIDE DEF t
<1>2. Quiet(s, t)
  BY <1>1, QuietFields
<1>3. Timed(t)
  BY <1>1 DEF Timed, Open
<1> QED BY <1>2, <1>3 DEF t

LEMMA HandleCwiKeeps ==
  ASSUME NEW s \in NodeState, Timed(s), NEW initiator \in BOOLEAN, NEW w \in 0..CwMax
  PROVE  LET t == HandleCwi(s, initiator, w) IN Quiet(s, t) /\ Timed(t)
<1> DEFINE h == HeardCwi(s)
           c == CalculateContactWindow(h, w)
<1>1. Quiet(s, h) /\ Timed(h) /\ h \in NodeState
  BY HeardCwiKeeps DEF Quiet
<1> HIDE DEF h
<1>2. Quiet(h, c) /\ c.link = h.link /\ c.armed /\ c \in NodeState
  BY <1>1, CalculateContactWindowKeeps DEF Quiet
<1> HIDE DEF c
<1>3. Quiet(s, c)
  BY <1>1, <1>2, QuietThen
<1>4. CASE h.link = "connected" /\ h.contact = "S_WAITING_FOR_CWI" /\ ~initiator
  <2> DEFINE k == SendKdm(c, TRUE)
             t == [k EXCEPT !.contact = "S_RECEIVED_CWI"]
  <2>1. HandleCwi(s, initiator, w) = t
    BY <1>4 DEF HandleCwi, h, c
  <2>2. Quiet(c, k) /\ k.link = c.link /\ k.armed = c.armed /\ k \in NodeState
    BY <1>2, SendKdmKeeps DEF Quiet
  <2> HIDE DEF k
  <2>3. Open(k) /\ k.armed
    BY <1>2, <1>4, <2>2 DEF Open
  <2>4. Quiet(k, t) /\ Timed(t)
    BY <2>2, <2>3, ContactChanges DEF SettingUp
  <2> HIDE DEF t
  <2>5. Quiet(s, t)
    BY <1>3, <2>2, <2>4, QuietThen
  <2> QED BY <2>1, <2>4, <2>5
<1>5. CASE h.link = "connected" /\ h.contact = "R_RECEIVED_CWI" /\ initiator
  <2> DEFINE t == SendCwi(c, FALSE)
  <2>1. HandleCwi(s, initiator, w) = t
    BY <1>5 DEF HandleCwi, h, c
  <2>2. Quiet(c, t) /\ t.link = c.link /\ t.armed = c.armed
    BY <1>2, SendCwiKeeps
  <2> HIDE DEF t
  <2>3. Open(t) /\ t.armed
    BY <1>2, <1>5, <2>2 DEF Open
  <2>4. Timed(t)
    BY <2>3, TimerRuns
  <2> QED BY <1>3, <2>1, <2>2, <2>4, QuietThen
<1>6. CASE /\ ~(h.link = "connected" /\ h.contact = "S_WAITING_FOR_CWI" /\ ~initiator)
           /\ ~(h.link = "connected" /\ h.contact = "R_RECEIVED_CWI" /\ initiator)
  <2>1. HandleCwi(s, initiator, w) = h
    BY <1>6 DEF HandleCwi, h
  <2> QED BY <1>1, <2>1
<1> QED BY <1>4, <1>5, <1>6

LEMMA HandleKdmKeeps ==
  ASSUME NEW s \in NodeState, Timed(s), NEW initiator \in BOOLEAN, NEW known \in BOOLEAN
  PROVE  LET t == HandleKdm(s, initiator, known) IN Learned(s, t, known) /\ Timed(t)
<1> DEFINE l == Learn(s, known)
<1>1. Learned(s, l, known) /\ LinkOf(l) = LinkOf(s) /\ l \in NodeState
  BY LearnKeeps DEF Learned
<1>2. Timed(l) /\ l.link = s.link /\ l.contact = s.contact /\ l.armed = s.armed
  BY <1>1, TimedAsBefore DEF LinkOf
<1> HIDE DEF l
<1>3. CASE s.link # "connected"
  <2>1. HandleKdm(s, initiator, known) = s
    BY <1>3 DEF HandleKdm
  <2> QED BY <2>1, QuietFields, LearnedThen
<1>4. CASE s.link = "connected" /\ s.contact = "S_WAITING_FOR_KDM" /\ ~initiator
  <2> DEFINE t == [l EXCEPT !.contact = "READY"]
  <2>1. HandleKdm(s, initiator, known) = t
    BY <1>4 DEF HandleKdm, l
  <2>2. Open(l) /\ l.armed
    BY <1>2, <1>4 DEF Open, Timed
  <2>3. Quiet(l, t) /\ Timed(t)
    BY <1>1, <2>2, ContactChanges
  <2> HIDE DEF t
  <2> QED BY <1>1, <2>1, <2>3, LearnedThen
<1>5. CASE s.link = "connected" /\ s.contact = "R_WAITING_FOR_KDM" /\ initiator
  <2> DEFINE k == SendKdm(l, FALSE)
             t == [k EXCEPT !.contact = "R_RECEIVED_KDM"]
  <2>1. HandleKdm(s, initiator, known) = t
    BY <1>5 DEF HandleKdm, l
  <2>2. Quiet(l, k) /\ k.link = l.link /\ k.armed = l.armed /\ k \in NodeState
    BY <1>1, SendKdmKeeps DEF Quiet
  <2> HIDE DEF k
  <2>3. Open(k) /\ k.armed
    BY <1>2, <1>5, <2>2 DEF Open, Timed
  <2>4. Quiet(k, t) /\ Timed(t)
    BY <2>2, <2>3, ContactChanges DEF SettingUp
  <2> HIDE DEF t
  <2>5. Learned(s, k, known)
    BY <1>1, <2>2, LearnedThen
  <2>6. Learned(s, t, known)
    BY <2>4, <2>5, LearnedThen
  <2> QED BY <2>1, <2>4, <2>6
<1>6. CASE /\ s.link = "connected"
           /\ ~(s.contact = "S_WAITING_FOR_KDM" /\ ~initiator)
           /\ ~(s.contact = "R_WAITING_FOR_KDM" /\ initiator)
  <2>1. HandleKdm(s, initiator, known) = l
    BY <1>6 DEF HandleKdm, l
  <2> QED BY <1>1, <1>2, <2>1
<1> QED BY <1>3, <1>4, <1>5, <1>6

LEMMA DoInsertKeeps ==
  ASSUME NEW s \in NodeState, NEW k \in Nat, NEW received \in BOOLEAN
  PROVE  LET t == DoInsert(s, k, received) IN Quiet(s, t) /\ LinkOf(t) = LinkOf(s)
<1> DEFINE t == DoInsert(s, k, received)
<1>1. /\ t \in NodeState /\ t.kdm = s.kdm /\ t.air = s.air /\ t.list = s.list
      /\ t.taken = s.taken /\ LinkOf(t) = LinkOf(s)
  BY DEF DoInsert, NodeState, LinkOf
<1> HIDE DEF t
<1>2. Quiet(s, t)
  BY <1>1, QuietFields
<1> QED BY <1>1, <1>2 DEF t

(* The bundle stays where it has arrived. *)
Moves(a) == a = arrival \/ a \in Arrival \ {"none"}

(* What of it, r, comes of a handler that leaves the node alone but for    *)
(* the bundle.                                                             *)
Handled(n, s, r) ==
  /\ Learned(s, r.state, r.arrival # "none") /\ LinkOf(r.state) = LinkOf(s)
  /\ Moves(r.arrival)
  /\ dest = n => r.arrival # "none"

LEMMA QuietOutcome ==
  ASSUME NEW n, NEW s, NEW t, Quiet(s, t), LinkOf(t) = LinkOf(s), NEW a, Moves(a),
         dest = n => a # "none"
  PROVE  Handled(n, s, Outcome(t, a))
<1>1. Outcome(t, a).state = t /\ Outcome(t, a).arrival = a
  BY DEF Outcome
<1>2. Learned(s, t, a # "none")
  BY LearnedThen
<1> QED BY <1>1, <1>2 DEF Handled

LEMMA AtDestinationKeeps ==
  ASSUME NEW n \in Node, NEW s \in NodeState, NEW k \in Nat, NEW received \in BOOLEAN,
         NEW r \in AtDestination(s, k, received)
  PROVE  Handled(n, s, r)
<1> DEFINE d == DoBundleDelivered(s, FALSE)
           i == DoInsert(s, k, received)
<1>1. /\ Moves("ignored") /\ Moves("handedUp") /\ Moves("unclaimed")
      /\ "ignored" # "none" /\ "handedUp" # "none" /\ "unclaimed" # "none"
  BY DEF Moves, Arrival
<1>2. Quiet(s, s)
  BY QuietFields
<1>3. Quiet(s, i) /\ LinkOf(i) = LinkOf(s)
  BY DoInsertKeeps
<1>4. Learned(s, d, TRUE) /\ LinkOf(d) = LinkOf(s)
  BY DoBundleDeliveredKeeps
<1>5. \/ r = Outcome(s, "ignored") \/ r = Outcome(d, "handedUp")
      \/ r = Outcome(i, "unclaimed") \/ r = Outcome(s, "unclaimed")
  BY DEF AtDestination
<1> HIDE DEF d, i
<1>6. CASE r = Outcome(d, "handedUp")
  <2>1. r.state = d /\ r.arrival = "handedUp"
    BY <1>6 DEF Outcome
  <2> QED BY <1>1, <1>4, <2>1 DEF Handled, Learned
<1>7. CASE r # Outcome(d, "handedUp")
  BY <1>1, <1>2, <1>3, <1>5, <1>7, QuietOutcome
<1> QED BY <1>6, <1>7

(* Whatever the agent does with it, the bundle has arrived at the node     *)
(* that it is for; and nobody takes it for delivered before.               *)
LEMMA HandleBundleKeeps ==
  ASSUME NEW n \in Node, NEW s \in NodeState, NEW k \in Nat, NEW received \in BOOLEAN,
         NEW r \in HandleBundle(n, s, k, received)
  PROVE  Handled(n, s, r)
<1>1. Quiet(s, s) /\ Moves(arrival) /\ Moves("ignored")
  BY QuietFields DEF Moves, Arrival
<1>2. CASE k = CustodyResponse
  <2> DEFINE a == IF dest = n /\ arrival = "none" THEN "ignored" ELSE arrival
  <2>1. r = Outcome(s, a)
    BY <1>2 DEF HandleBundle
  <2>2. Moves(a) /\ (dest = n => a # "none")
    BY <1>1
  <2> HIDE DEF a
  <2> QED BY <1>1, <2>1, <2>2, QuietOutcome
<1>3. CASE k # CustodyResponse /\ dest = n
  <2>1. CASE IsBundleDelivery
    <3>1. r = Outcome(s, arrival) /\ arrival # "none"
      BY <1>3, <2>1 DEF HandleBundle, IsBundleDelivery
    <3> QED BY <1>1, <3>1, QuietOutcome
  <2>2. CASE ~IsBundleDelivery
    <3>1. r \in AtDestination(s, k, received)
      BY <1>3, <2>2 DEF HandleBundle
    <3> QED BY <3>1, AtDestinationKeeps
  <2> QED BY <2>1, <2>2
<1>4. CASE k # CustodyResponse /\ dest # n
  <2> DEFINE t == [s EXCEPT !.received = @ \/ received]
             i == DoInsert(s, k, received)
  <2>1. r = Outcome(t, arrival) \/ r = Outcome(i, arrival) \/ r = Outcome(s, arrival)
    BY <1>4 DEF HandleBundle
  <2>2. /\ t \in NodeState /\ t.kdm = s.kdm /\ t.air = s.air /\ t.list = s.list
        /\ t.taken = s.taken /\ LinkOf(t) = LinkOf(s)
    BY DEF NodeState, LinkOf
  <2>3. Quiet(s, i) /\ LinkOf(i) = LinkOf(s)
    BY DoInsertKeeps
  <2> HIDE DEF t, i
  <2>4. Quiet(s, t)
    BY <2>2, QuietFields
  <2> QED BY <1>1, <1>4, <2>1, <2>2, <2>3, <2>4, QuietOutcome
<1> QED BY <1>2, <1>3, <1>4

-----------------------------------------------------------------------------
(* What was sent *)

(* A contact goes on only where there was something listed, so the link is *)
(* timed.                                                                  *)
LEMMA SentRouterSpecificKeeps ==
  ASSUME NEW s \in NodeState, Timed(s), NEW i \in DOMAIN s.list
  PROVE  LET t == SentRouterSpecific(s, i) IN Quiet(s, t) /\ Timed(t)
<1> DEFINE r == RemoveRouterSpecificBundle(s, i)
           t == SentRouterSpecific(s, i)
<1>1. /\ Quiet(s, r) /\ r \in NodeState
      /\ r.link = s.link /\ r.contact = s.contact /\ r.armed = s.armed
  BY RemoveRouterSpecificBundleKeeps DEF Quiet
<1>2. s.list # <<>>
  <2>1. s.list \in Seq(Item) /\ DOMAIN s.list # {}
    BY DEF NodeState
  <2> QED BY <2>1
<1>3. Open(s) /\ s.armed
  BY <1>2 DEF Timed
<1> HIDE DEF r
<1>4. Open(r) /\ r.armed
  BY <1>1, <1>3 DEF Open
<1>5. \/ t = r
      \/ \E c \in SettingUp \cup {"READY"} : t = [r EXCEPT !.contact = c]
  <2>1. t = SentCwi(r) \/ t = SentKdm(r)
    BY DEF SentRouterSpecific, r
  <2>2. \/ SentCwi(r) = r
        \/ SentCwi(r) = [r EXCEPT !.contact = "S_WAITING_FOR_CWI"]
        \/ SentCwi(r) = [r EXCEPT !.contact = "R_WAITING_FOR_KDM"]
    BY DEF SentCwi
  <2>3. \/ SentKdm(r) = r
        \/ SentKdm(r) = [r EXCEPT !.contact = "S_WAITING_FOR_KDM"]
        \/ SentKdm(r) = [r EXCEPT !.contact = "READY"]
    BY DEF SentKdm
  <2> HIDE DEF t
  <2>4. {"S_WAITING_FOR_CWI", "R_WAITING_FOR_KDM", "S_WAITING_FOR_KDM", "READY"}
          \subseteq SettingUp \cup {"READY"}
    BY DEF SettingUp
  <2> QED BY <2>1, <2>2, <2>3, <2>4
<1> HIDE DEF t
<1>6. Quiet(r, t) /\ Timed(t)
  <2>1. CASE t = r
    BY <1>1, <1>4, <2>1, QuietFields, TimerRuns
  <2>2. CASE \E c \in SettingUp \cup {"READY"} : t = [r EXCEPT !.contact = c]
    BY <1>1, <1>4, <2>2, ContactChanges
  <2> QED BY <1>5, <2>1, <2>2
<1> QED BY <1>1, <1>6, QuietThen DEF t

(* A half of the copies is a number of copies. *)
LEMMA HalfOfCopies ==
  ASSUME NEW k \in Nat
  PROVE  k \div 2 \in Nat /\ (k + 1) \div 2 \in Nat
OBVIOUS

LEMMA SentBundleKeeps ==
  ASSUME NEW s \in NodeState, NEW final \in BOOLEAN
  PROVE  LET t == SentBundle(s, final)
         IN  Learned(s, t, final) /\ LinkOf(t) = LinkOf(s)
<1>1. CASE final
  <2> DEFINE t == [s EXCEPT !.log = @ \/ s.holds]
  <2>1. SentBundle(s, final) = DoBundleDelivered(t, TRUE)
    BY <1>1 DEF SentBundle
  <2>2. /\ t \in NodeState /\ t.kdm = s.kdm /\ t.air = s.air /\ t.list = s.list
        /\ t.taken = s.taken /\ LinkOf(t) = LinkOf(s)
    BY DEF NodeState, LinkOf
  <2> DEFINE u == DoBundleDelivered(t, TRUE)
  <2> HIDE DEF t
  <2>3. Quiet(s, t)
    BY <2>2, QuietFields
  <2>4. Learned(t, u, TRUE) /\ LinkOf(u) = LinkOf(t)
    BY <2>2, DoBundleDeliveredKeeps
  <2> HIDE DEF u
  <2>5. Learned(s, u, TRUE)
    BY <2>3, <2>4, LearnedThen
  <2>6. Learned(s, u, final)
    BY <1>1, <2>5 DEF Learned
  <2> QED BY <2>1, <2>2, <2>4, <2>6 DEF u
<1>2. CASE ~final /\ s.holds
  <2> DEFINE t == [s EXCEPT !.log = TRUE, !.factor = @ \div 2]
  <2>1. SentBundle(s, final) = t
    BY <1>2 DEF SentBundle
  <2>2. s.factor \in Nat /\ s.factor \div 2 \in Nat
    BY HalfOfCopies DEF NodeState
  <2>3. /\ t \in NodeState /\ t.kdm = s.kdm /\ t.air = s.air /\ t.list = s.list
        /\ t.taken = s.taken /\ LinkOf(t) = LinkOf(s)
    BY <2>2 DEF NodeState, LinkOf
  <2> HIDE DEF t
  <2>4. Quiet(s, t)
    BY <2>3, QuietFields
  <2> QED BY <2>1, <2>3, <2>4, LearnedThen
<1>3. CASE ~final /\ ~s.holds
  <2>1. SentBundle(s, final) = s
    BY <1>3 DEF SentBundle
  <2> QED BY <2>1, QuietFields, LearnedThen
<1> QED BY <1>1, <1>2, <1>3

LEMMA ResetRetransmissionsKeeps ==
  ASSUME NEW s \in NodeState
  PROVE  LET t == ResetRetransmissions(s) IN Quiet(s, t) /\ LinkOf(t) = LinkOf(s)
<1> DEFINE t == ResetRetransmissions(s)
<1>1. t = s \/ t = [s EXCEPT !.retries = 0]
  BY DEF ResetRetransmissions
<1> HIDE DEF t
<1>2. /\ t \in NodeState /\ t.kdm = s.kdm /\ t.air = s.air /\ t.list = s.list
      /\ t.taken = s.taken /\ LinkOf(t) = LinkOf(s)
  BY <1>1, Nothing DEF NodeState, LinkOf
<1>3. Quiet(s, t)
  BY <1>2, QuietFields
<1> QED BY <1>2, <1>3 DEF t

-----------------------------------------------------------------------------
(* What is sent *)

LEMMA SendBundleKeeps ==
  ASSUME NEW s \in NodeState, NEW m \in Message, m.known => Tells(s)
  PROVE  LET t == SendBundle(s, m) IN Quiet(s, t) /\ LinkOf(t) = LinkOf(s)
<1> DEFINE x == [message |-> m, live |-> TRUE]
           air == s.air \cup {x}
           t == [s EXCEPT !.air = air]
<1>1. x \in Transmission /\ s.air \in SUBSET Transmission /\ x.message = m
  BY DEF Transmission, NodeState
<1>2. air \in SUBSET Transmission /\ \A y \in air : y \in s.air \/ y = x
  BY <1>1
<1> HIDE DEF air, x
<1>3. /\ t \in NodeState /\ t.kdm = s.kdm /\ t.air = air /\ t.list = s.list
      /\ t.taken = s.taken /\ LinkOf(t) = LinkOf(s)
  BY <1>2 DEF NodeState, LinkOf
<1>4. SendBundle(s, m) = t
  BY DEF SendBundle, air, x
<1> HIDE DEF t
<1>5. Tells(t) => Tells(s)
  BY <1>1, <1>2, <1>3 DEF Tells
<1> QED BY <1>3, <1>4, <1>5 DEF Quiet

(* A stage of one message of the list: there it stays. *)
LEMMA StageKeeps ==
  ASSUME NEW s \in NodeState, Timed(s), NEW i \in DOMAIN s.list,
         NEW stage \in {"listed", "sent", "arrived"}
  PROVE  LET t == [s EXCEPT !.list[i].stage = stage] IN Quiet(s, t) /\ Timed(t)
<1> DEFINE l == [s.list EXCEPT ![i] = [@ EXCEPT !.stage = stage]]
           t == [s EXCEPT !.list = l]
<1>1. s.list \in Seq(Item) /\ i \in 1..Len(s.list) /\ s.list[i] \in Item
  BY DEF NodeState
<1>2. [s.list[i] EXCEPT !.stage = stage] \in Item
  BY <1>1 DEF Item
<1>3. l \in Seq(Item) /\ DOMAIN l = DOMAIN s.list /\ s.list # <<>>
  BY <1>1, <1>2
<1>4. \A j \in DOMAIN l : l[j].message = s.list[j].message
  BY <1>1 DEF Item
<1>5. [s EXCEPT !.list[i].stage = stage] = t
  OBVIOUS
<1> HIDE DEF l
<1>6. /\ t \in NodeState /\ t.kdm = s.kdm /\ t.air = s.air /\ t.list = l
      /\ t.taken = s.taken /\ t.link = s.link /\ t.armed = s.armed
  BY <1>3 DEF NodeState
<1> HIDE DEF t
<1>7. Tells(t) => Tells(s)
  BY <1>3, <1>4, <1>6 DEF Tells
<1>8. Quiet(s, t)
  BY <1>6, <1>7 DEF Quiet
<1>9. Open(t) /\ t.armed
  BY <1>3, <1>6 DEF Timed, Open
<1> QED BY <1>5, <1>8, <1>9, TimerRuns

(* What is listed is a message of the router. *)
LEMMA ItemAt ==
  ASSUME NEW s \in NodeState, NEW i \in DOMAIN s.list
  PROVE  /\ s.list[i].message \in Message
         /\ s.list[i].stage \in {"listed", "sent", "arrived"}
<1>1. s.list \in Seq(Item)
  BY DEF NodeState
<1>2. s.list[i] \in Item
  BY <1>1
<1> QED BY <1>2 DEF Item

LEMMA SendRouterSpecificKeeps ==
  ASSUME NEW s \in NodeState, Timed(s), NEW i \in DOMAIN s.list
  PROVE  LET t == SendRouterSpecific(s, i) IN Quiet(s, t) /\ Timed(t)
<1> DEFINE m == s.list[i].message
           t == SendBundle(s, m)
           stage == IF t.list[i].stage = "listed" THEN "sent" ELSE t.list[i].stage
           u == [t EXCEPT !.list[i].stage = stage]
<1>1. m \in Message /\ (m.known => Tells(s))
  BY ItemAt DEF Tells
<1>2. Quiet(s, t) /\ LinkOf(t) = LinkOf(s)
  BY <1>1, SendBundleKeeps
<1>3. SendRouterSpecific(s, i) = u
  BY DEF SendRouterSpecific
<1> HIDE DEF m, t
<1>4. t \in NodeState /\ Timed(t) /\ i \in DOMAIN t.list
  BY <1>2, TimedAsBefore DEF Quiet, LinkOf
<1>5. stage \in {"listed", "sent", "arrived"}
  BY <1>4, ItemAt
<1> HIDE DEF stage
<1>6. Quiet(t, u) /\ Timed(u)
  BY <1>4, <1>5, StageKeeps
<1> HIDE DEF u
<1> QED BY <1>2, <1>3, <1>6, QuietThen

LEMMA CopyIsMessage ==
  ASSUME NEW s \in NodeState
  PROVE  DoSendBundle(s) \in Message /\ ~DoSendBundle(s).known
<1>1. s.factor \in Nat /\ (s.factor + 1) \div 2 \in Nat
  BY HalfOfCopies DEF NodeState
<1> QED BY <1>1 DEF DoSendBundle, Message

-----------------------------------------------------------------------------
(* Links come and go *)

LEMMA DiscoveredKeeps ==
  ASSUME NEW s \in NodeState
  PROVE  LET t == DoLinkDiscovered(ContactSetup(s, TRUE)) IN Quiet(s, t) /\ Timed(t)
<1> DEFINE o == [s EXCEPT !.armed = TRUE, !.link = "connected", !.contact = "S_CREATED",
                          !.window = 0, !.retries = 0]
           t == SendCwi(o, TRUE)
<1>1. DoLinkDiscovered(ContactSetup(s, TRUE)) = t
  BY DEF DoLinkDiscovered, ContactSetup, OpenLink, NodeState
<1>2. o \in NodeState
  BY Nothing DEF NodeState, SettingUp
<1>3. /\ o.kdm = s.kdm /\ o.air = s.air /\ o.list = s.list /\ o.taken = s.taken
      /\ o.link = "connected" /\ o.armed
  BY DEF NodeState
<1> HIDE DEF o
<1>4. Quiet(s, o)
  BY <1>2, <1>3, QuietFields
<1>5. Quiet(o, t) /\ t.link = o.link /\ t.armed = o.armed
  BY <1>2, SendCwiKeeps
<1> HIDE DEF t
<1>6. Open(t) /\ t.armed
  BY <1>3, <1>5 DEF Open
<1> QED BY <1>1, <1>4, <1>5, <1>6, QuietThen, TimerRuns

LEMMA DecreaseKeeps ==
  ASSUME NEW s \in NodeState, Timed(s)
  PROVE  LET t == DecreaseContactWindowDuration(s) IN Quiet(s, t) /\ Timed(t)
<1>1. CASE s.window \in 1..WindowBound
  <2> DEFINE t == [s EXCEPT !.window = @ - 1]
  <2>1. DecreaseContactWindowDuration(s) = t
    BY <1>1 DEF DecreaseContactWindowDuration
  <2>2. s.window - 1 \in 0..CwMax /\ s.window # 0
    BY <1>1, Numbers DEF CwMax
  <2>3. /\ t \in NodeState /\ t.kdm = s.kdm /\ t.air = s.air /\ t.list = s.list
        /\ t.taken = s.taken /\ t.link = s.link /\ t.armed = s.armed
    BY <2>2 DEF NodeState
  <2> HIDE DEF t
  <2>4. Quiet(s, t)
    BY <2>3, QuietFields
  <2>5. Timed(t)
    BY <2>2, <2>3 DEF Timed, Open
  <2> QED BY <2>1, <2>4, <2>5
<1>2. CASE s.window \notin 1..WindowBound
  <2>1. DecreaseContactWindowDuration(s) = s
    BY <1>2 DEF DecreaseContactWindowDuration
  <2> QED BY <2>1, QuietFields
<1> QED BY <1>1, <1>2

-----------------------------------------------------------------------------
(* The steps *)

(* Whatever the states of the nodes become, when each says what it said,   *)
(* or what is so, the invariant holds on.                                  *)
LEMMA Carry ==
  ASSUME IInv, dest' = dest, Moves(arrival'), node' \in [Node -> NodeState],
         \A n \in Node :
           /\ Timed(node'[n])
           /\ node[n].kdm => node'[n].kdm
           /\ Tells(node'[n]) => Tells(node[n]) \/ HasArrived'
           /\ node'[n].taken => node[n].taken \/ dest # Peer(n) \/ HasArrived'
  PROVE  IInv'
<1>1. HasArrived => HasArrived'
  BY DEF HasArrived, Moves
<1>2. TypeOK'
  BY DEF IInv, TypeOK, Moves
<1>3. ASSUME NEW n \in Node PROVE Timed(node[n])' /\ Truthful(n)'
  <2>1. Tells(node[n]) => HasArrived
    BY DEF IInv, Truthful
  <2>2. node[n].taken /\ dest = Peer(n) => HasArrived
    BY DEF IInv, Truthful
  <2>3. Timed(node[n])'
    OBVIOUS
  <2>4. (Tells(node[n]) => HasArrived)'
    BY <1>1, <2>1
  <2>5. (node[n].taken /\ dest = Peer(n) => HasArrived)'
    BY <1>1, <2>2
  <2> QED BY <2>3, <2>4, <2>5 DEF Truthful
<1> QED BY <1>2, <1>3 DEF IInv

(* One node takes a step, and learns no more than is so. *)
LEMMA OneNode ==
  ASSUME IInv, dest' = dest, Moves(arrival'),
         NEW n \in Node, NEW t, Timed(t),
         \/ Quiet(node[n], t)
         \/ \E k \in BOOLEAN : Learned(node[n], t, k) /\ (k => HasArrived'),
         node' = [node EXCEPT ![n] = t]
  PROVE  IInv'
<1>1. PICK k \in BOOLEAN : Learned(node[n], t, k) /\ (k => HasArrived')
  BY LearnedThen
<1>2. t \in NodeState /\ (node[n].kdm => t.kdm)
  BY <1>1 DEF Learned
<1>3. node \in [Node -> NodeState]
  BY DEF IInv, TypeOK
<1>4. node' \in [Node -> NodeState] /\ node'[n] = t
  BY <1>2, <1>3
<1>5. \A m \in Node : m # n => node'[m] = node[m]
  BY <1>3
<1>6. ASSUME NEW m \in Node
      PROVE  /\ Timed(node'[m])
             /\ node[m].kdm => node'[m].kdm
             /\ Tells(node'[m]) => Tells(node[m]) \/ HasArrived'
             /\ node'[m].taken => node[m].taken
  <2>1. CASE m = n
    BY <1>1, <1>4, <2>1 DEF Learned
  <2>2. CASE m # n
    BY <1>5, <2>2 DEF IInv
  <2> QED BY <2>1, <2>2
<1> QED BY <1>4, <1>6, Carry

(* Nothing new arrives. *)
LEMMA ArrivalStays == arrival' = arrival => Moves(arrival') /\ (HasArrived => HasArrived')
BY DEF Moves, HasArrived

(* The states of the nodes, before a step. *)
LEMMA States ==
  ASSUME IInv, NEW n \in Node
  PROVE  /\ node \in [Node -> NodeState] /\ node[n] \in NodeState /\ Timed(node[n])
         /\ Tells(node[n]) => HasArrived
         /\ node[n].taken /\ dest = Peer(n) => HasArrived
BY DEF IInv, TypeOK, Truthful

LEMMA TryToStartSendingStep ==
  ASSUME IInv, NEW n \in Node, TryToStartSending(n)
  PROVE  IInv'
<1> DEFINE s == node[n]
<1>1. s \in NodeState /\ Timed(s) /\ dest' = dest /\ arrival' = arrival
  BY States DEF TryToStartSending
<1>2. CASE \E i \in DOMAIN s.list :
             node' = [node EXCEPT ![n] = SendRouterSpecific(s, i)]
  <2>1. PICK i \in DOMAIN s.list : node' = [node EXCEPT ![n] = SendRouterSpecific(s, i)]
    BY <1>2
  <2>2. Quiet(s, SendRouterSpecific(s, i)) /\ Timed(SendRouterSpecific(s, i))
    BY <1>1, SendRouterSpecificKeeps
  <2> QED BY <1>1, <2>1, <2>2, OneNode, ArrivalStays
<1>3. CASE node' = [node EXCEPT ![n] = SendBundle(s, DoSendBundle(s))]
  <2> DEFINE t == SendBundle(s, DoSendBundle(s))
  <2>1. DoSendBundle(s) \in Message /\ ~DoSendBundle(s).known
    BY <1>1, CopyIsMessage
  <2>2. Quiet(s, t) /\ LinkOf(t) = LinkOf(s)
    BY <1>1, <2>1, SendBundleKeeps
  <2> HIDE DEF t
  <2>3. Timed(t)
    BY <1>1, <2>2, TimedAsBefore
  <2>4. node' = [node EXCEPT ![n] = t]
    BY <1>3 DEF t
  <2> QED BY <1>1, <2>2, <2>3, <2>4, OneNode, ArrivalStays
<1> QED BY <1>2, <1>3 DEF TryToStartSending

(* The acknowledgement is to come: of the bundle, or of a message listed. *)
LEMMA ArrivedKeeps ==
  ASSUME NEW s \in NodeState, Timed(s), NEW m \in Message, NEW t \in Arrived(s, m)
  PROVE  /\ t \in NodeState /\ Timed(t) /\ t.kdm = s.kdm
         /\ Tells(t) => Tells(s)
         /\ t.taken => s.taken \/ m.what = "data"
<1>1. CASE IsRouterSpecific(m)
  <2>1. t = s \/ \E i \in DOMAIN s.list : t = [s EXCEPT !.list[i].stage = "arrived"]
    BY <1>1 DEF Arrived
  <2>2. CASE t = s
    BY <2>2
  <2>3. CASE \E i \in DOMAIN s.list : t = [s EXCEPT !.list[i].stage = "arrived"]
    <3>1. PICK i \in DOMAIN s.list : t = [s EXCEPT !.list[i].stage = "arrived"]
      BY <2>3
    <3>2. Quiet(s, t) /\ Timed(t)
      BY <3>1, StageKeeps
    <3>3. t.kdm = s.kdm
      BY <3>1 DEF NodeState
    <3> QED BY <3>2, <3>3 DEF Quiet
  <2> QED BY <2>1, <2>2, <2>3
<1>2. CASE ~IsRouterSpecific(m)
  <2>1. t = [s EXCEPT !.taken = TRUE]
    BY <1>2 DEF Arrived
  <2>2. /\ t \in NodeState /\ t.kdm = s.kdm /\ t.air = s.air /\ t.list = s.list
        /\ LinkOf(t) = LinkOf(s)
    BY <2>1 DEF NodeState, LinkOf
  <2>3. m.what = "data"
    BY <1>2 DEF IsRouterSpecific, Message
  <2>4. Timed(t) /\ (Tells(t) => Tells(s))
    BY <2>2, TimedAsBefore DEF Tells
  <2> QED BY <2>2, <2>3, <2>4
<1> QED BY <1>1, <1>2

(* What comes in at p makes nothing known that the message does not say,   *)
(* before the bundle has arrived.                                          *)
LEMMA ReceiveKeeps ==
  ASSUME NEW p \in Node, NEW s \in NodeState, Timed(s), NEW m \in Message,
         NEW w \in 0..CwMax, NEW r \in Receive(p, s, m, w)
  PROVE  /\ Learned(s, r.state, m.known \/ r.arrival # "none") /\ Timed(r.state)
         /\ Moves(r.arrival)
         /\ m.what = "data" /\ dest = p => r.arrival # "none"
<1> DEFINE k == m.known \/ r.arrival # "none"
<1>1. /\ m.what \in {"cwi", "kdm", "data"} /\ m.initiator \in BOOLEAN
      /\ m.known \in BOOLEAN /\ m.copies \in Nat
  BY DEF Message
<1>2. k \in BOOLEAN
  OBVIOUS
<1>3. CASE m.what = "cwi"
  <2> DEFINE t == HandleCwi(s, m.initiator, w)
  <2>1. r = Outcome(t, arrival)
    BY <1>3 DEF Receive
  <2> HIDE DEF k
  <2>2. Quiet(s, t) /\ Timed(t)
    BY <1>1, HandleCwiKeeps
  <2> HIDE DEF t
  <2>3. r.state = t /\ r.arrival = arrival
    BY <2>1 DEF Outcome
  <2>4. Learned(s, t, k)
    BY <1>2, <2>2, LearnedThen
  <2> QED BY <1>3, <2>2, <2>3, <2>4 DEF k, Moves
<1>4. CASE m.what = "kdm"
  <2> DEFINE t == HandleKdm(s, m.initiator, m.known)
  <2>1. r = Outcome(t, arrival)
    BY <1>4 DEF Receive
  <2>2. Learned(s, t, m.known) /\ Timed(t)
    BY <1>1, HandleKdmKeeps
  <2> HIDE DEF t
  <2>3. r.state = t /\ r.arrival = arrival
    BY <2>1 DEF Outcome
  <2>4. Learned(s, t, k)
    BY <2>2 DEF Learned
  <2> QED BY <1>4, <2>2, <2>3, <2>4 DEF Moves
<1>5. CASE m.what = "data"
  <2>1. r \in HandleBundle(p, s, m.copies, TRUE)
    BY <1>5 DEF Receive
  <2>2. Handled(p, s, r)
    BY <1>1, <2>1, HandleBundleKeeps
  <2>3. Learned(s, r.state, k)
    BY <2>2 DEF Handled, Learned
  <2>4. Timed(r.state)
    BY <2>2, TimedAsBefore DEF Handled
  <2> QED BY <2>2, <2>3, <2>4 DEF Handled
<1> QED BY <1>1, <1>3, <1>4, <1>5

(* What was under way is true, and a bundle that comes in at the node it   *)
(* is for has arrived before it is acknowledged.                           *)
LEMMA ReceiveFromStep ==
  ASSUME IInv, NEW n \in Node, ReceiveFrom(n)
  PROVE  IInv'
<1> DEFINE p == Peer(n)
<1>1. p \in Node /\ p # n /\ \A m \in Node : m = n \/ m = p
  BY PeerIsOther
<1> HIDE DEF p
<1>2. PICK x \in node[n].air :
        \E w \in 0..CwMax :
          \E r \in Receive(p, node[p], x.message, w), t \in Arrived(node[n], x.message) :
            /\ node' = [node EXCEPT ![n] = t, ![p] = r.state]
            /\ arrival' = r.arrival /\ dest' = dest
  BY DEF ReceiveFrom, p
<1>2a. PICK w \in 0..CwMax :
         \E r \in Receive(p, node[p], x.message, w), t \in Arrived(node[n], x.message) :
           /\ node' = [node EXCEPT ![n] = t, ![p] = r.state]
           /\ arrival' = r.arrival /\ dest' = dest
  BY <1>2
<1>3. PICK r \in Receive(p, node[p], x.message, w), t \in Arrived(node[n], x.message) :
        /\ node' = [node EXCEPT ![n] = t, ![p] = r.state]
        /\ arrival' = r.arrival /\ dest' = dest
  BY <1>2a
<1> DEFINE m == x.message
           k == m.known \/ r.arrival # "none"
<1>4. /\ node \in [Node -> NodeState] /\ node[n] \in NodeState /\ node[p] \in NodeState
      /\ Timed(node[n]) /\ Timed(node[p])
  BY <1>1, States
<1>5. x \in Transmission
  BY <1>4 DEF NodeState
<1>6. m \in Message /\ (m.known => Tells(node[n]))
  BY <1>5 DEF Transmission, Tells
<1>7. m.known => HasArrived
  BY <1>6, States
<1>8. /\ t \in NodeState /\ Timed(t) /\ t.kdm = node[n].kdm
      /\ Tells(t) => Tells(node[n])
      /\ t.taken => node[n].taken \/ m.what = "data"
  BY <1>4, <1>6, <1>3, ArrivedKeeps
<1>9. /\ Learned(node[p], r.state, k) /\ Timed(r.state) /\ Moves(r.arrival)
      /\ m.what = "data" /\ dest = p => r.arrival # "none"
  BY <1>1, <1>3, <1>4, <1>6, ReceiveKeeps
<1> DEFINE u == r.state
<1>10. node' = [node EXCEPT ![n] = t, ![p] = u]
  BY <1>3
<1> HIDE DEF m, u
<1>11. u \in NodeState /\ (node[p].kdm => u.kdm) /\ (Tells(u) => Tells(node[p]) \/ k)
       /\ (u.taken => node[p].taken)
  BY <1>9 DEF Learned, u
<1>12. node' \in [Node -> NodeState] /\ node'[n] = t /\ node'[p] = u
  BY <1>1, <1>4, <1>8, <1>10, <1>11
<1>13. Moves(arrival') /\ (HasArrived => HasArrived') /\ (k => HasArrived')
  BY <1>3, <1>7, <1>9 DEF Moves, HasArrived
<1>14. m.what = "data" /\ dest = p => HasArrived'
  BY <1>3, <1>9 DEF HasArrived
<1> HIDE DEF k
<1>15. /\ Timed(node'[n]) /\ (node[n].kdm => node'[n].kdm)
       /\ Tells(node'[n]) => Tells(node[n]) \/ HasArrived'
       /\ node'[n].taken => node[n].taken \/ dest # Peer(n) \/ HasArrived'
  BY <1>8, <1>12, <1>14 DEF p
<1>16. /\ Timed(node'[p]) /\ (node[p].kdm => node'[p].kdm)
       /\ Tells(node'[p]) => Tells(node[p]) \/ HasArrived'
       /\ node'[p].taken => node[p].taken \/ dest # Peer(p) \/ HasArrived'
  BY <1>9, <1>11, <1>12, <1>13 DEF u
<1>17. \A i \in Node :
         /\ Timed(node'[i]) /\ (node[i].kdm => node'[i].kdm)
         /\ Tells(node'[i]) => Tells(node[i]) \/ HasArrived'
         /\ node'[i].taken => node[i].taken \/ dest # Peer(i) \/ HasArrived'
  BY <1>1, <1>15, <1>16
<1> QED BY <1>3, <1>12, <1>13, <1>17, Carry

LEMMA RouterSpecificSentStep ==
  ASSUME IInv, NEW n \in Node, RouterSpecificSent(n)
  PROVE  IInv'
<1> DEFINE s == node[n]
<1>1. s \in NodeState /\ Timed(s) /\ dest' = dest /\ arrival' = arrival
  BY States DEF RouterSpecificSent
<1>2. PICK i \in DOMAIN s.list :
        node' = [node EXCEPT ![n] =
                   SentRouterSpecific(ResetRetransmissions(Settle(s, s.list[i].message)), i)]
  BY DEF RouterSpecificSent
<1> HIDE DEF s
<1> DEFINE a == Settle(s, s.list[i].message)
           r == ResetRetransmissions(a)
           t == SentRouterSpecific(r, i)
<1>3. Quiet(s, a) /\ a \in NodeState /\ LinkOf(a) = LinkOf(s)
  BY <1>1, SettleQuiet DEF Quiet, LinkOf, NodeState
<1>4. node' = [node EXCEPT ![n] = t]
  BY <1>2
<1> HIDE DEF a
<1>5. Quiet(a, r) /\ r \in NodeState /\ LinkOf(r) = LinkOf(a)
  BY <1>3, ResetRetransmissionsKeeps DEF Quiet
<1> HIDE DEF r
<1>6. Timed(r) /\ i \in DOMAIN r.list
  BY <1>1, <1>3, <1>5, TimedAsBefore DEF LinkOf
<1>7. Quiet(r, t) /\ Timed(t)
  BY <1>5, <1>6, SentRouterSpecificKeeps
<1> HIDE DEF t
<1>8. Quiet(node[n], t)
  BY <1>3, <1>5, <1>7, QuietThen DEF s
<1> QED BY <1>1, <1>4, <1>7, <1>8, OneNode, ArrivalStays

(* The acknowledgement of the node that the bundle is for says that it has *)
(* the bundle, whatever became of the copy here.                           *)
LEMMA BundleSentStep ==
  ASSUME IInv, NEW n \in Node, BundleSent(n)
  PROVE  IInv'
<1> DEFINE s == node[n]
           c == CancelTransmissions(s, {"data"})
           r == IF s.holds THEN ResetRetransmissions(c) ELSE c
           f == (dest = Peer(n))
           u == SentBundle(r, f)
<1>1. /\ s \in NodeState /\ Timed(s) /\ dest' = dest /\ arrival' = arrival
      /\ s.taken
  BY States DEF BundleSent
<1>2. f => HasArrived
  BY <1>1, States
<1>3. PICK again \in BOOLEAN : node' = [node EXCEPT ![n] = [u EXCEPT !.taken = again]]
  BY DEF BundleSent
<1> DEFINE t == [u EXCEPT !.taken = again]
<1>4. node' = [node EXCEPT ![n] = t]
  BY <1>3
<1>5. f \in BOOLEAN
  OBVIOUS
<1> HIDE DEF s, f
<1>6. Quiet(s, c) /\ c \in NodeState /\ LinkOf(c) = LinkOf(s)
  BY <1>1, CancelTransmissionsQuiet DEF Quiet, LinkOf, NodeState
<1> HIDE DEF c
<1>7. Quiet(s, r) /\ r \in NodeState /\ LinkOf(r) = LinkOf(s)
  BY <1>6, ResetRetransmissionsKeeps, QuietThen DEF Quiet
<1> HIDE DEF r
<1>8. Learned(r, u, f) /\ u \in NodeState /\ LinkOf(u) = LinkOf(r)
  BY <1>5, <1>7, SentBundleKeeps DEF Learned
<1> HIDE DEF u
<1>9. Learned(s, u, f)
  BY <1>5, <1>7, <1>8, LearnedThen
<1>10. /\ t \in NodeState /\ t.kdm = u.kdm /\ t.air = u.air /\ t.list = u.list
       /\ LinkOf(t) = LinkOf(u)
  BY <1>8 DEF NodeState, LinkOf
<1> HIDE DEF t
<1>11. Learned(s, t, f)
  BY <1>1, <1>9, <1>10 DEF Learned, Tells
<1>12. Timed(t)
  BY <1>1, <1>7, <1>8, <1>10, TimedAsBefore
<1>13. \E k \in BOOLEAN : Learned(node[n], t, k) /\ (k => HasArrived')
  BY <1>1, <1>2, <1>5, <1>11, ArrivalStays DEF s
<1> QED BY <1>1, <1>4, <1>12, <1>13, OneNode, ArrivalStays

LEMMA BundleTransmissionFailedStep ==
  ASSUME IInv, NEW n \in Node, BundleTransmissionFailed(n)
  PROVE  IInv'
<1> DEFINE s == node[n]
<1>1. s \in NodeState /\ Timed(s) /\ dest' = dest /\ arrival' = arrival
  BY States DEF BundleTransmissionFailed
<1>2. PICK x \in s.air : node' = [node EXCEPT ![n] = PauseLink(Settle(s, x.message))]
  BY DEF BundleTransmissionFailed
<1> DEFINE a == Settle(s, x.message)
           t == PauseLink(a)
<1>3. node' = [node EXCEPT ![n] = t]
  BY <1>2
<1> HIDE DEF s
<1>4. Quiet(s, a) /\ a \in NodeState /\ LinkOf(a) = LinkOf(s)
  BY <1>1, SettleQuiet DEF Quiet, LinkOf, NodeState
<1> HIDE DEF a
<1>5. Quiet(a, t) /\ Timed(t)
  BY <1>1, <1>4, TimedAsBefore, PauseLinkKeeps
<1> HIDE DEF t
<1>6. Quiet(node[n], t)
  BY <1>4, <1>5, QuietThen DEF s
<1> QED BY <1>1, <1>3, <1>5, <1>6, OneNode, ArrivalStays

LEMMA VanishStep ==
  ASSUME IInv, NEW n \in Node, Vanish(n)
  PROVE  IInv'
<1> DEFINE s == node[n]
<1>1. s \in NodeState /\ Timed(s) /\ dest' = dest /\ arrival' = arrival
  BY States DEF Vanish
<1>2. PICK x \in s.air : node' = [node EXCEPT ![n].air = @ \ {x}]
  BY DEF Vanish
<1> DEFINE air == s.air \ {x}
           t == [s EXCEPT !.air = air]
<1>3. node' = [node EXCEPT ![n] = t]
  BY <1>2
<1>4. air \in SUBSET Transmission /\ \A y \in air : \E z \in s.air : z.message = y.message
  BY <1>1 DEF NodeState
<1> HIDE DEF s, air
<1>5. Quiet(s, t) /\ LinkOf(t) = LinkOf(s)
  BY <1>1, <1>4, Cancelled DEF LinkOf, NodeState
<1> HIDE DEF t
<1>6. Timed(t) /\ Quiet(node[n], t)
  BY <1>1, <1>5, TimedAsBefore DEF s
<1> QED BY <1>1, <1>3, <1>6, OneNode, ArrivalStays

LEMMA LinkSteps ==
  ASSUME IInv, NEW n \in Node,
         \/ DiscoveredLink(n) \/ UnPauseLink(n)
         \/ RecalculateContactWindows(n) \/ CheckIfExpired(n)
  PROVE  IInv'
<1> DEFINE s == node[n]
<1>1. s \in NodeState /\ Timed(s)
  BY States
<1>2. CASE DiscoveredLink(n)
  <2> DEFINE t == DoLinkDiscovered(ContactSetup(s, TRUE))
  <2>1. node' = [node EXCEPT ![n] = t] /\ dest' = dest /\ arrival' = arrival
    BY <1>2 DEF DiscoveredLink
  <2>2. Quiet(s, t) /\ Timed(t)
    BY <1>1, DiscoveredKeeps
  <2> HIDE DEF t
  <2> QED BY <2>1, <2>2, OneNode, ArrivalStays
<1>3. CASE UnPauseLink(n)
  <2> DEFINE t == [s EXCEPT !.link = "connected"]
  <2>1. /\ node' = [node EXCEPT ![n] = t] /\ dest' = dest /\ arrival' = arrival
        /\ s.link = "paused"
    BY <1>3 DEF UnPauseLink
  <2>2. /\ t \in NodeState /\ t.kdm = s.kdm /\ t.air = s.air /\ t.list = s.list
        /\ t.taken = s.taken /\ t.link = "connected" /\ t.contact = s.contact
        /\ t.window = s.window /\ t.armed = s.armed
    BY <1>1 DEF NodeState
  <2> HIDE DEF t
  <2>3. Quiet(s, t)
    BY <1>1, <2>2, QuietFields
  <2>4. Timed(t)
    BY <1>1, <2>1, <2>2 DEF Timed, Open
  <2> QED BY <2>1, <2>3, <2>4, OneNode, ArrivalStays
<1>4. CASE RecalculateContactWindows(n)
  <2> DEFINE t == DecreaseContactWindowDuration(s)
  <2>1. node' = [node EXCEPT ![n] = t] /\ dest' = dest /\ arrival' = arrival
    BY <1>4 DEF RecalculateContactWindows
  <2>2. Quiet(s, t) /\ Timed(t)
    BY <1>1, DecreaseKeeps
  <2> HIDE DEF t
  <2> QED BY <2>1, <2>2, OneNode, ArrivalStays
<1>5. CASE CheckIfExpired(n)
  <2> DEFINE t == CloseLink(s)
  <2>1. node' = [node EXCEPT ![n] = t] /\ dest' = dest /\ arrival' = arrival
    BY <1>5 DEF CheckIfExpired
  <2>2. Quiet(s, t) /\ Timed(t)
    BY <1>1, CloseLinkKeeps
  <2> HIDE DEF t
  <2> QED BY <2>1, <2>2, OneNode, ArrivalStays
<1> QED BY <1>2, <1>3, <1>4, <1>5

LEMMA BundleSteps ==
  ASSUME IInv, NEW n \in Node, TakeBundle(n) \/ LearnElsewhere(n) \/ DropBundle(n)
  PROVE  IInv'
<1> DEFINE s == node[n]
<1>1. s \in NodeState /\ Timed(s)
  BY States
<1>2. CASE TakeBundle(n)
  <2>0. PICK k \in Brought[dest] :
          \E r \in Made(n, k) \cup HandleBundle(n, s, k, FALSE) :
            node' = [node EXCEPT ![n] = r.state] /\ arrival' = r.arrival /\ dest' = dest
    BY <1>2 DEF TakeBundle
  <2>1. PICK r \in Made(n, k) \cup HandleBundle(n, s, k, FALSE) :
          node' = [node EXCEPT ![n] = r.state] /\ arrival' = r.arrival /\ dest' = dest
    BY <2>0
  <2>2. k \in Nat
    BY Numbers DEF IInv, TypeOK
  <2>3. Handled(n, s, r)
    <3>1. CASE r \in Made(n, k)
      <4>1. r = Outcome(DoInsert(s, k, FALSE), arrival) /\ dest # n
        BY <3>1 DEF Made
      <4>2. Quiet(s, DoInsert(s, k, FALSE)) /\ LinkOf(DoInsert(s, k, FALSE)) = LinkOf(s)
        BY <1>1, <2>2, DoInsertKeeps
      <4> QED BY <4>1, <4>2, QuietOutcome DEF Moves
    <3>2. CASE r \in HandleBundle(n, s, k, FALSE)
      BY <1>1, <2>2, <3>2, HandleBundleKeeps
    <3> QED BY <3>1, <3>2
  <2> DEFINE t == r.state
             h == r.arrival # "none"
  <2>4. Learned(s, t, h) /\ LinkOf(t) = LinkOf(s) /\ Moves(arrival') /\ (h => HasArrived')
    BY <2>1, <2>3 DEF Handled, HasArrived
  <2>5. node' = [node EXCEPT ![n] = t] /\ h \in BOOLEAN
    BY <2>1
  <2> HIDE DEF t, h
  <2>6. Timed(t)
    BY <1>1, <2>4, TimedAsBefore
  <2> QED BY <2>1, <2>4, <2>5, <2>6, OneNode, ArrivalStays
<1>3. CASE LearnElsewhere(n)
  <2> DEFINE t == Learn(s, TRUE)
  <2>1. /\ node' = [node EXCEPT ![n] = t] /\ dest' = dest /\ arrival' = arrival
        /\ HasArrived
    BY <1>3 DEF LearnElsewhere
  <2>2. Learned(s, t, TRUE) /\ LinkOf(t) = LinkOf(s)
    BY <1>1, LearnKeeps
  <2> HIDE DEF t
  <2>3. Timed(t)
    BY <1>1, <2>2, TimedAsBefore
  <2> QED BY <2>1, <2>2, <2>3, OneNode, ArrivalStays
<1>4. CASE DropBundle(n)
  <2> DEFINE t == DeleteBundle(s)
  <2>1. node' = [node EXCEPT ![n] = t] /\ dest' = dest /\ arrival' = arrival
    BY <1>4 DEF DropBundle
  <2>2. Quiet(s, t) /\ LinkOf(t) = LinkOf(s)
    BY <1>1, DeleteBundleKeeps
  <2> HIDE DEF t
  <2>3. Timed(t)
    BY <1>1, <2>2, TimedAsBefore
  <2> QED BY <2>1, <2>2, <2>3, OneNode, ArrivalStays
<1> QED BY <1>2, <1>3, <1>4

LEMMA ArriveElsewhereStep ==
  ASSUME IInv, ArriveElsewhere
  PROVE  IInv'
<1>1. HasArrived' /\ arrival' \in Arrival
  BY DEF ArriveElsewhere, HasArrived, Arrival
<1>2. UNCHANGED <<dest, node>>
  BY DEF ArriveElsewhere
<1>3. TypeOK'
  BY <1>1, <1>2 DEF IInv, TypeOK
<1>4. ASSUME NEW n \in Node PROVE (Timed(node[n]) /\ Truthful(n))'
  <2>1. Timed(node[n])'
    BY <1>2 DEF IInv
  <2> QED BY <1>1, <2>1 DEF Truthful
<1> QED BY <1>3, <1>4 DEF IInv

-----------------------------------------------------------------------------
(* The invariant *)

LEMMA InitIInv == Init => IInv
<1> SUFFICES ASSUME Init PROVE IInv
  OBVIOUS
<1>1. Fresh \in NodeState
  BY Nothing DEF Fresh, NodeState
<1>2. Timed(Fresh) /\ ~Tells(Fresh) /\ ~Fresh.taken
  BY DEF Fresh, Timed, Open, Tells
<1>3. TypeOK
  BY <1>1 DEF Init, TypeOK, Arrival
<1>4. \A n \in Node : Timed(node[n]) /\ Truthful(n)
  BY <1>2 DEF Init, Truthful
<1> QED BY <1>3, <1>4 DEF IInv

LEMMA NextIInv == IInv /\ [Next]_vars => IInv'
<1> SUFFICES ASSUME IInv, [Next]_vars PROVE IInv'
  OBVIOUS
<1>1. CASE ArriveElsewhere
  BY <1>1, ArriveElsewhereStep
<1>2. ASSUME NEW n \in Node,
             \/ TryToStartSending(n) \/ ReceiveFrom(n)
             \/ RouterSpecificSent(n) \/ BundleSent(n)
             \/ BundleTransmissionFailed(n) \/ Vanish(n)
      PROVE  IInv'
  BY <1>2, TryToStartSendingStep, ReceiveFromStep, RouterSpecificSentStep, BundleSentStep,
     BundleTransmissionFailedStep, VanishStep
<1>3. ASSUME NEW n \in Node,
             \/ DiscoveredLink(n) \/ UnPauseLink(n)
             \/ RecalculateContactWindows(n) \/ CheckIfExpired(n)
      PROVE  IInv'
  BY <1>3, LinkSteps
<1>4. ASSUME NEW n \in Node, TakeBundle(n) \/ LearnElsewhere(n) \/ DropBundle(n)
      PROVE  IInv'
  BY <1>4, BundleSteps
<1>5. CASE UNCHANGED vars
  BY <1>5 DEF vars, IInv, TypeOK, Truthful, HasArrived
<1> QED BY <1>1, <1>2, <1>3, <1>4, <1>5 DEF Next

LEMMA Invariance == Spec => []IInv
BY InitIInv, NextIInv, PTL DEF Spec

(* The nodes stay within their types: the contact in its states, the       *)
(* window and the retries within their limits.                             *)
THEOREM TypeCorrect == Spec => []TypeOK
<1>1. IInv => TypeOK
  BY DEF IInv
<1> QED BY <1>1, Invariance, PTL

(* A node takes a bundle for delivered, which deletes it there and with it *)
(* at whoever is told, only when the agent of the node it is for has had   *)
(* it, whatever that did with it.                                          *)
THEOREM DeletedOnlyIfArrived == Spec => []KnownHasArrived
<1>1. IInv => KnownHasArrived
  BY DEF IInv, TypeOK, Arrival, Truthful, Tells, HasArrived, KnownHasArrived
<1> QED BY <1>1, Invariance, PTL

(* A link is never left open without its timer, but for one that was       *)
(* opened by a message that came too late, which has nothing to send.      *)
THEOREM OpenLinksAreTimed == Spec => []OpenIsTimed
<1>1. IInv => OpenIsTimed
  BY DEF IInv, Timed, OpenIsTimed
<1> QED BY <1>1, Invariance, PTL
==============================================================================
