--------------------------- MODULE Bundles_proofs ---------------------------
(***************************************************************************)
(* A bundle on its way.                                                    *)
(*                                                                         *)
(* For any network, any destination and any number of messages under way:  *)
(* the bundle is handed up once at most, and the exchange of custody never *)
(* loses it, unless it has the number that makes it look like an answer.   *)
(* The nodes that asked for custody can be numbered in the order in which  *)
(* they first did, and no node takes the bundle once it has a number.  So  *)
(* whoever answers that it took custody comes later than the node that is  *)
(* answered, and a node that was made to delete the bundle always has a    *)
(* holder that comes later.                                                *)
(*                                                                         *)
(* For any time and any number of bundles: two are told apart by their     *)
(* timestamps unless these ran ahead of the clock.  The timestamps made at *)
(* one instant count on from its nanoseconds, in the order in which they   *)
(* were made, whoever made them.                                           *)
(*                                                                         *)
(* For any endpoints, payload, lifetime, flags and number of hops: what is *)
(* sent of a bundle is read back, its packet is as long as its size says,  *)
(* and it keeps its identity.  The lemmas go up from the digits of a       *)
(* number to the fields of a list, the headers and the bundle.  That a     *)
(* recursive function is defined is shown by building it; what it is, by   *)
(* induction over the set of numbers at which it is that.                  *)
(***************************************************************************)
EXTENDS CustodyNetwork, Wire, DataLemmas

-----------------------------------------------------------------------------
(* What has arrived, and who may be in the exchange. *)

TypeInv ==
  /\ holders \in SUBSET (Node \ {Dest}) /\ custodyList \in SUBSET (Node \ {Dest})
  /\ air \in SUBSET Message
  /\ delivers \in BOOLEAN /\ dropped \in BOOLEAN

MessageInv ==
  \A m \in air :
    /\ m.what = "custody" => m.from \in custodyList
    /\ m.what \in {"yes", "no"} => m.to \in custodyList
    /\ m.arrived /\ m.to = Dest => delivers \/ factor = AnswerFactor

CountInv == handedUp = 0 \/ (handedUp = 1 /\ delivers)

BaseInv == TypeInv /\ MessageInv /\ CountInv

LEMMA ArrivedMessages ==
  ASSUME TypeInv, NEW m \in air, NEW x \in Arrived(m)
  PROVE  /\ x \in Message
         /\ x \in air \/ (/\ x.from = m.from /\ x.to = m.to /\ x.what = m.what
                          /\ x.arrived)
BY DEF TypeInv, Arrived, Message

LEMMA AnsweredMessages ==
  ASSUME TypeInv, NEW m \in air, NEW what \in {"yes", "no"}, AnsweredIfAsked(m, what),
         NEW x \in air'
  PROVE  \/ x \in Arrived(m)
         \/ m.what = "custody" /\ x = Sent(m.to, m.from, what) /\ x \in Message
<1>1. Sent(m.to, m.from, what) \in Message
  BY DEF TypeInv, Message, Sent
<1>2. \/ air' = Arrived(m)
      \/ m.what = "custody" /\ air' = Arrived(m) \cup {Sent(m.to, m.from, what)}
  BY DEF AnsweredIfAsked, Answered
<1> QED BY <1>1, <1>2

(* What comes in makes messages only of those kinds. *)
LEMMA ReceiveMessages ==
  ASSUME TypeInv, NEW m \in air, Receive(m), NEW x \in air'
  PROVE  \/ x \in Arrived(m)
         \/ /\ m.what = "custody" /\ x \in Message
            /\ x.from = m.to /\ x.to = m.from /\ x.what \in {"yes", "no"} /\ ~x.arrived
<1>1. CASE \E what \in {"yes", "no"} : AnsweredIfAsked(m, what)
  BY <1>1, AnsweredMessages DEF Sent
<1>2. CASE air' = Arrived(m)
  BY <1>2
<1> QED BY <1>1, <1>2 DEF Receive, TakenForAnswer, AnswerDelivered, AnswerHeld, Refuse, Take,
       Ignore

(* What receiving does to the state around the messages. *)
LEMMA ReceiveEffect ==
  ASSUME BaseInv, NEW m \in air, Receive(m)
  PROVE  /\ UNCHANGED <<factor, custodyList, dropped>>
         /\ holders' = holders \/ (holders' = holders \cup {m.to} /\ m.to # Dest)
         /\ delivers' \in BOOLEAN /\ (delivers => delivers')
         /\ m.to = Dest => delivers' \/ factor = AnswerFactor
         /\ CountInv'
<1> USE DEF BaseInv
<1>1. m.to \in Node
  BY DEF TypeInv, Message
<1>2. CASE AnswerDelivered(m)
  BY <1>2 DEF Receive, AnswerDelivered, IsDelivered, TypeInv, CountInv
<1>3. CASE AnswerHeld(m)
  BY <1>3 DEF Receive, AnswerHeld, TypeInv, CountInv
<1>4. CASE Refuse(m)
  <2>1. delivers' = (delivers \/ m.to = Dest) /\ UNCHANGED <<holders, handedUp>>
    BY <1>4 DEF Refuse
  <2>2. delivers' \in BOOLEAN /\ (delivers => delivers') /\ (m.to = Dest => delivers')
    BY <2>1
  <2> QED BY <2>1, <2>2 DEF Receive, CountInv
<1>5. CASE Take(m)
  <2>1. UNCHANGED <<factor, custodyList, dropped>>
    BY DEF Receive
  <2>2. CASE m.to = Dest
    <3>1. ~delivers /\ delivers' = TRUE /\ handedUp' = handedUp + 1 /\ holders' = holders
      BY <1>5, <2>2 DEF Take, IsDelivered
    <3>2. handedUp = 0
      BY <3>1 DEF CountInv
    <3> QED BY <2>1, <3>1, <3>2 DEF CountInv
  <2>3. CASE m.to # Dest
    <3>1. holders' = holders \cup {m.to} /\ UNCHANGED <<delivers, handedUp>>
      BY <1>5, <2>3 DEF Take
    <3> QED BY <2>1, <2>3, <3>1 DEF TypeInv, CountInv
  <2> QED BY <2>2, <2>3
<1>6. CASE Ignore(m)
  BY <1>6 DEF Receive, Ignore, Ignores, TypeInv, CountInv
<1>7. CASE TakenForAnswer(m)
  BY <1>7 DEF Receive, TakenForAnswer, TypeInv, CountInv
<1> QED BY <1>2, <1>3, <1>4, <1>5, <1>6, <1>7 DEF Receive

LEMMA BaseReceive ==
  ASSUME BaseInv, NEW m \in air, Receive(m)
  PROVE  BaseInv'
<1> USE DEF BaseInv
<1>1. TypeInv'
  <2>1. m.to \in Node
    BY DEF TypeInv, Message
  <2>2. air' \subseteq Message
    BY ArrivedMessages, ReceiveMessages
  <2> QED BY <2>1, <2>2, ReceiveEffect DEF TypeInv
<1>2. ASSUME NEW x \in air'
      PROVE  /\ x.what = "custody" => x.from \in custodyList'
             /\ x.what \in {"yes", "no"} => x.to \in custodyList'
             /\ x.arrived /\ x.to = Dest => delivers' \/ factor' = AnswerFactor
  <2>1. CASE x \in Arrived(m)
    <3>1. CASE x \in air
      BY <3>1, ReceiveEffect DEF MessageInv
    <3>2. CASE x.from = m.from /\ x.to = m.to /\ x.what = m.what
      BY <3>2, ReceiveEffect DEF MessageInv
    <3> QED BY <2>1, <3>1, <3>2, ArrivedMessages
  <2>2. CASE /\ m.what = "custody" /\ x.from = m.to /\ x.to = m.from
             /\ x.what \in {"yes", "no"} /\ ~x.arrived
    BY <2>2, ReceiveEffect DEF MessageInv
  <2> QED BY <2>1, <2>2, ReceiveMessages
<1> QED BY <1>1, <1>2, ReceiveEffect DEF MessageInv

LEMMA BaseStep ==
  ASSUME BaseInv, [Next]_vars
  PROVE  BaseInv'
<1> USE DEF BaseInv
<1>1. ASSUME NEW n \in Node, NEW p \in Node, SendBundle(n, p) PROVE BaseInv'
  <2>1. PICK what \in {"copy", "custody"} :
          /\ air' = air \cup {Sent(n, p, what)}
          /\ custodyList \subseteq custodyList' /\ custodyList' \subseteq custodyList \cup {n}
          /\ what = "custody" => n \in custodyList'
    BY <1>1 DEF SendBundle, CopyTo, HandOver
  <2>2. Sent(n, p, what) \in Message
    BY DEF Sent, Message
  <2>3. n \in holders /\ UNCHANGED <<factor, holders, delivers, handedUp, dropped>>
    BY <1>1 DEF SendBundle
  <2>4. TypeInv'
    BY <2>1, <2>2, <2>3 DEF TypeInv
  <2>5. MessageInv'
    BY <2>1, <2>3 DEF MessageInv, Sent
  <2> QED BY <2>3, <2>4, <2>5 DEF CountInv
<1>2. ASSUME NEW m \in air, Receive(m) PROVE BaseInv'
  BY <1>2, BaseReceive
<1>3. ASSUME NEW m \in air, ReceiveAnswer(m) PROVE BaseInv'
  <2>1. /\ air' = Arrived(m) /\ holders' \subseteq holders
        /\ UNCHANGED <<factor, custodyList, delivers, handedUp, dropped>>
    BY <1>3 DEF ReceiveAnswer, Deleted
  <2>2. m.what \in {"yes", "no"} /\ m.to # Dest
    BY <1>3 DEF ReceiveAnswer, MessageInv, TypeInv
  <2>3. TypeInv'
    BY <2>1, ArrivedMessages DEF TypeInv
  <2>4. MessageInv'
    BY <2>1, <2>2, ArrivedMessages DEF MessageInv
  <2> QED BY <2>1, <2>3, <2>4 DEF CountInv
<1>4. ASSUME NEW m \in air, BundleSent(m) \/ BundleTransmissionFailed(m) PROVE BaseInv'
  BY <1>4 DEF BundleSent, BundleTransmissionFailed, Deleted, TypeInv, MessageInv, CountInv
<1>5. ASSUME NEW n \in Node, DeleteBundle(n) PROVE BaseInv'
  BY <1>5 DEF DeleteBundle, Deleted, TypeInv, MessageInv, CountInv
<1>6. CASE UNCHANGED vars
  BY <1>6 DEF vars, TypeInv, MessageInv, CountInv
<1> QED BY <1>1, <1>2, <1>3, <1>4, <1>5, <1>6 DEF Next

LEMMA BaseHolds ==
  ASSUME CustodyNetworkAssumption
  PROVE  Spec => []BaseInv
<1>1. Init => BaseInv
  BY DEF CustodyNetworkAssumption, Init, BaseInv, TypeInv, MessageInv, CountInv
<1> QED BY <1>1, BaseStep, PTL DEF Spec

(* The application gets the bundle once, by however many ways it comes.    *)
THEOREM DeliveredOnce ==
  ASSUME CustodyNetworkAssumption
  PROVE  Spec => []HandedUpOnce
<1>1. BaseInv => HandedUpOnce
  BY DEF BaseInv, CountInv, HandedUpOnce
<1> QED BY <1>1, BaseHolds, PTL

-----------------------------------------------------------------------------
(* The order of the nodes that asked for custody. *)

(* z comes after n, which has a number. *)
Later(f, n, z) == z \notin custodyList \/ f[z] > f[n]

(* f numbers the nodes of custodyList, each below k; whoever answers comes *)
(* later than the node that asked; and whoever asked and holds the bundle  *)
(* no more has a holder that comes later.                                  *)
Ordered(f, k) ==
  /\ \A n \in custodyList : f[n] < k
  /\ \A m \in air : m.what = "yes" =>
       m.from \in holders \cup custodyList /\ Later(f, m.to, m.from)
  /\ \A n \in custodyList \ holders : \E z \in holders : Later(f, n, z)
  /\ holders # {}

LossInv ==
  factor = AnswerFactor \/ dropped \/ delivers \/ \E f \in [Node -> Nat], k \in Nat : Ordered(f, k)

(* One more node asks for custody: it gets the next number. *)
LEMMA OrderedHandOver ==
  ASSUME BaseInv, NEW f \in [Node -> Nat], NEW k \in Nat, Ordered(f, k),
         NEW n \in Node, NEW p \in Node, SendBundle(n, p)
  PROVE  LossInv'
<1>1. n \in holders /\ UNCHANGED <<holders, delivers, dropped>>
  BY DEF SendBundle
<1>2. CASE custodyList' = custodyList
  <2>1. \A m \in air' : m.what = "yes" => m \in air
    BY DEF SendBundle, CopyTo, HandOver, Sent
  <2>2. Ordered(f, k)'
    BY <1>1, <1>2, <2>1 DEF Ordered, Later
  <2> QED BY <2>2 DEF LossInv
<1>3. CASE custodyList' = custodyList \cup {n} /\ n \notin custodyList
  <2> DEFINE g == [f EXCEPT ![n] = k]
  <2>1. g \in [Node -> Nat] /\ k + 1 \in Nat
    OBVIOUS
  <2>2. \A m \in air' : m.what = "yes" => m \in air
    BY DEF SendBundle, CopyTo, HandOver, Sent
  <2>3. custodyList \subseteq Node /\ holders \subseteq Node
    BY DEF BaseInv, TypeInv
  <2>4. \A x \in custodyList : g[x] = f[x] /\ f[x] \in Nat /\ f[x] < k
    BY <1>3, <2>3 DEF Ordered
  <2>5. g[n] = k
    OBVIOUS
  <2>6. ASSUME NEW x \in custodyList, NEW z \in Node, Later(f, x, z)
        PROVE  z \notin custodyList' \/ g[z] > g[x]
    BY <1>3, <2>4, <2>5, <2>6 DEF Later
  <2>7. \A x \in custodyList' : g[x] < k + 1
    BY <1>3, <2>3, <2>4, <2>5
  <2>8. \A m \in air' : m.what = "yes" =>
          /\ m.from \in holders' \cup custodyList'
          /\ m.from \notin custodyList' \/ g[m.from] > g[m.to]
    BY <1>1, <1>3, <2>2, <2>3, <2>6 DEF Ordered, BaseInv, MessageInv
  <2>9. \A x \in custodyList' \ holders' : \E z \in holders' :
          z \notin custodyList' \/ g[z] > g[x]
    BY <1>1, <1>3, <2>3, <2>6 DEF Ordered
  <2> HIDE DEF g
  <2>10. Ordered(g, k + 1)'
    BY <1>1, <2>7, <2>8, <2>9 DEF Ordered, Later
  <2> QED BY <2>1, <2>10 DEF LossInv
<1> QED BY <1>2, <1>3 DEF SendBundle, CopyTo, HandOver

LEMMA OrderedReceive ==
  ASSUME BaseInv, NEW f \in [Node -> Nat], NEW k \in Nat, Ordered(f, k),
         NEW m \in air, Receive(m), ~delivers', factor # AnswerFactor
  PROVE  Ordered(f, k)'
<1>1. custodyList' = custodyList /\ holders \subseteq holders' /\ UNCHANGED dropped
  BY ReceiveEffect
<1>2. ASSUME NEW x \in air', x.what = "yes"
      PROVE  x.from \in holders' \cup custodyList' /\ Later(f, x.to, x.from)'
  <2>1. CASE x \in Arrived(m)
    <3>1. CASE x \in air
      BY <1>1, <1>2, <3>1 DEF Ordered, Later
    <3>2. CASE x.from = m.from /\ x.to = m.to /\ x.what = m.what
      BY <1>1, <1>2, <3>2 DEF Ordered, Later
    <3> QED BY <2>1, <3>1, <3>2, ArrivedMessages DEF BaseInv
  <2>2. CASE /\ m.what = "custody" /\ x.from = m.to /\ x \notin Arrived(m)
    <3>1. m.to \notin custodyList /\ m.to \in holders'
      <4>1. ~IsDelivered(m.to)
        BY ReceiveEffect DEF IsDelivered
      <4>2. CASE AnswerHeld(m)
        BY <4>2 DEF AnswerHeld, Ignores
      <4>3. CASE Take(m)
        BY <4>3, ReceiveEffect DEF Take, Ignores
      <4>4. CASE Refuse(m)
        BY <1>2, <2>2, <4>4 DEF Refuse, AnsweredIfAsked, Answered, Sent
      <4>5. CASE Ignore(m)
        BY <2>2, <4>5 DEF Ignore
      <4> QED BY <4>1, <4>2, <4>3, <4>4, <4>5 DEF Receive, TakenForAnswer, AnswerDelivered
    <3> QED BY <1>1, <2>2, <3>1 DEF Later
  <2> QED BY <2>1, <2>2, ReceiveMessages DEF BaseInv
<1> QED BY <1>1, <1>2 DEF Ordered, Later

(* A node deletes the bundle because of an answer: whoever answered, or a  *)
(* holder later still, stands in for it.                                   *)
LEMMA OrderedReceiveAnswer ==
  ASSUME BaseInv, NEW f \in [Node -> Nat], NEW k \in Nat, Ordered(f, k),
         NEW m \in air, ReceiveAnswer(m)
  PROVE  Ordered(f, k)'
<1>1. air' = Arrived(m) /\ UNCHANGED custodyList
  BY DEF ReceiveAnswer
<1>2. custodyList \subseteq Node /\ holders \subseteq Node
  BY DEF BaseInv, TypeInv
<1>3. ASSUME NEW x \in air', x.what = "yes"
      PROVE  x.from \in holders \cup custodyList /\ Later(f, x.to, x.from)
  <2>1. CASE x \in air
    BY <1>3, <2>1 DEF Ordered
  <2>2. CASE x.from = m.from /\ x.to = m.to /\ x.what = m.what
    BY <1>3, <2>2 DEF Ordered
  <2> QED BY <1>1, <2>1, <2>2, ArrivedMessages DEF BaseInv
<1>4. CASE UNCHANGED holders
  BY <1>1, <1>3, <1>4 DEF Ordered, Later
<1>5. CASE m.what = "yes" /\ holders' = holders \ {m.to}
  <2>1. m.to \in custodyList /\ Later(f, m.to, m.from) /\ m.from \in holders \cup custodyList
    BY <1>5 DEF BaseInv, MessageInv, Ordered
  <2>2. PICK z \in holders : Later(f, m.to, z)
    <3>1. CASE m.from \in holders
      BY <2>1, <3>1
    <3>2. CASE m.from \in custodyList \ holders
      <4>1. PICK z \in holders : Later(f, m.from, z)
        BY <3>2 DEF Ordered
      <4>2. Later(f, m.to, z)
        BY <1>2, <2>1, <3>2, <4>1 DEF Later
      <4> QED BY <4>2
    <3> QED BY <2>1, <3>1, <3>2
  <2>3. z # m.to
    BY <1>2, <2>1, <2>2 DEF Later
  <2>4. z \in holders'
    BY <1>5, <2>3
  <2>5. ASSUME NEW n \in custodyList, n \notin holders'
        PROVE  \E y \in holders' : Later(f, n, y)
    <3>1. CASE n = m.to
      BY <2>2, <2>4, <3>1
    <3>2. CASE n \notin holders
      <4>1. PICK y \in holders : Later(f, n, y)
        BY <3>2 DEF Ordered
      <4>2. CASE y = m.to
        <5>1. Later(f, n, z)
          BY <1>2, <2>1, <2>2, <4>1, <4>2 DEF Later
        <5> QED BY <2>4, <5>1
      <4> QED BY <1>5, <4>1, <4>2
    <3> QED BY <1>5, <2>5, <3>1, <3>2
  <2>6. \A n \in Node, y \in Node : Later(f, n, y) => Later(f, n, y)'
    BY <1>1 DEF Later
  <2>7. \A x \in air' : x.what = "yes" =>
          x.from \in holders' \cup custodyList' /\ Later(f, x.to, x.from)'
    BY <1>1, <1>3, <1>5, <2>1 DEF Later
  <2>8. \A n \in custodyList' \ holders' : \E y \in holders' : Later(f, n, y)'
    BY <1>1, <2>5 DEF Later
  <2> QED BY <1>1, <2>4, <2>7, <2>8 DEF Ordered
<1> QED BY <1>4, <1>5 DEF ReceiveAnswer, Deleted

LEMMA LossStep ==
  ASSUME BaseInv, LossInv, [Next]_vars
  PROVE  LossInv'
<1>1. (dropped => dropped') /\ (delivers => delivers') /\ factor' = factor
  BY ReceiveEffect DEF Next, SendBundle, Receive, ReceiveAnswer, BundleSent,
     BundleTransmissionFailed, DeleteBundle, vars
<1>2. CASE factor = AnswerFactor \/ dropped \/ delivers
  BY <1>1, <1>2 DEF LossInv
<1>3. CASE factor # AnswerFactor /\ ~dropped /\ ~delivers
  <2>1. PICK f \in [Node -> Nat], k \in Nat : Ordered(f, k)
    BY <1>3 DEF LossInv
  <2>2. ASSUME NEW n \in Node, NEW p \in Node, SendBundle(n, p) PROVE LossInv'
    BY <2>1, <2>2, OrderedHandOver
  <2>3. ASSUME NEW m \in air, Receive(m) PROVE LossInv'
    <3>1. CASE delivers'
      BY <3>1 DEF LossInv
    <3>2. CASE ~delivers'
      <4>1. Ordered(f, k)'
        BY <1>3, <2>1, <2>3, <3>2, OrderedReceive
      <4> QED BY <4>1 DEF LossInv
    <3> QED BY <3>1, <3>2
  <2>4. ASSUME NEW m \in air, ReceiveAnswer(m) PROVE LossInv'
    <3>1. Ordered(f, k)'
      BY <2>1, <2>4, OrderedReceiveAnswer
    <3> QED BY <3>1 DEF LossInv
  <2>5. ASSUME NEW m \in air, BundleSent(m) \/ BundleTransmissionFailed(m) PROVE LossInv'
    <3>1. UNCHANGED <<holders, custodyList>> /\ air' \subseteq air
      BY <1>3, <2>5 DEF BundleSent, BundleTransmissionFailed, BaseInv, MessageInv
    <3>2. Ordered(f, k)'
      BY <2>1, <3>1 DEF Ordered, Later
    <3> QED BY <3>2 DEF LossInv
  <2>6. ASSUME NEW n \in Node, DeleteBundle(n) PROVE LossInv'
    BY <2>6 DEF DeleteBundle, LossInv
  <2>7. CASE UNCHANGED vars
    <3>1. Ordered(f, k)'
      BY <2>1, <2>7 DEF Ordered, Later, vars
    <3> QED BY <3>1 DEF LossInv
  <2> QED BY <2>2, <2>3, <2>4, <2>5, <2>6, <2>7 DEF Next
<1> QED BY <1>2, <1>3 DEF LossInv

(* The exchange of custody never loses the bundle: for any network and any *)
(* number of messages under way, somebody holds it until it is dropped or  *)
(* the destination has noted it as delivered.  A bundle that has the       *)
(* number of an answer is excepted, as all are where 190 to 199 nodes are: *)
(* the destination takes it for an answer, the acknowledgement is of the   *)
(* transfer, and the last holder deletes it.                               *)
THEOREM CustodyNeverLoses ==
  ASSUME CustodyNetworkAssumption
  PROVE  Spec => []NeverLost
<1>1. Init => LossInv
  <2>1. ASSUME Init PROVE LossInv
    <3>1. Ordered([n \in Node |-> 0], 0)
      BY <2>1 DEF Init, Ordered
    <3>2. [n \in Node |-> 0] \in [Node -> Nat] /\ 0 \in Nat
      OBVIOUS
    <3> QED BY <3>1, <3>2 DEF LossInv
  <2> QED BY <2>1
<1>2. LossInv => NeverLost
  BY DEF LossInv, Ordered, NeverLost
<1> QED BY <1>1, <1>2, LossStep, BaseHolds, PTL DEF Spec

-----------------------------------------------------------------------------
(* Timestamps *)

(* The time of an instant. *)
SecondsAt(t) == (Begin[2] + t) \div Second + Begin[1]

NanosecondsAt(t) == (Begin[2] + t) % Second

(* The beginning of time, when one timestamp counts as made. *)
Zero(t) == IF t = 0 /\ Begin = <<0, 0>> THEN 1 ELSE 0

(* Those made at instant t before the one of number k. *)
Sooner(s, k, t) == {j \in 1..(k - 1) : s[j].at = t}

(* Their number.                                                           *)
Rank(s, k, t) == Cardinality(Sooner(s, k, t))

(* Number k of s is of its instant, at the place it has among those.       *)
Placed(s, k) ==
  /\ \A j \in 1..k : s[j].at <= s[k].at
  /\ s[k].stamp.time = SecondsAt(s[k].at)
  /\ s[k].stamp.sequence = NanosecondsAt(s[k].at) + Zero(s[k].at) + Rank(s, k, s[k].at)

(* What holds of all timestamps made, and of the last, which is kept.      *)
StampsInv ==
  /\ StampsTypeOK
  /\ \A k \in DOMAIN made :
       /\ made[k].at <= now
       /\ Placed(made, k)
  /\ made = <<>> =>
       previous = [at |-> IF Begin = <<0, 0>> THEN 0 ELSE -1, sequence |-> 0]
  /\ made # <<>> =>
       /\ previous.at = made[Len(made)].at
       /\ previous.sequence = made[Len(made)].stamp.sequence

(* A term that is added on both sides can be dropped.                      *)
LEMMA Cancelled ==
  ASSUME NEW x \in Nat, NEW y \in Nat, NEW z \in Nat, x + z = y + z
  PROVE  x = y
OBVIOUS

(* The instants at which timestamps were made are natural numbers.         *)
LEMMA MadeInTime ==
  ASSUME StampsTypeOK, NEW k \in DOMAIN made
  PROVE  made[k].at \in Nat
<1>1. made \in Seq([at : 0..TickBound, stamp : Stamp])
  BY DEF StampsTypeOK
<1>2. made[k] \in [at : 0..TickBound, stamp : Stamp]
  <2> DEFINE S == [at : 0..TickBound, stamp : Stamp]
  <2>1. made \in Seq(S) /\ k \in 1..Len(made)
    BY <1>1
  <2> HIDE DEF S
  <2>2. made[k] \in S
    BY <2>1, ElementOfSeq
  <2> QED BY <2>2 DEF S
<1>3. made[k].at \in 0..TickBound
  BY <1>2
<1> QED BY <1>3, TimestampsAssumption

(* Whole seconds and what is left of one.                                  *)
LEMMA Division ==
  ASSUME NEW x \in Nat
  PROVE  x \div Second \in Nat /\ x % Second \in Nat /\ 0 % Second = 0
BY SMT DEF Second

(* Seconds and nanoseconds of an instant are natural numbers.              *)
LEMMA Clock ==
  /\ Begin[1] \in Nat /\ Begin[2] \in Nat
  /\ Begin = <<0, 0>> => Begin[2] = 0
  /\ \A t \in Nat : SecondsAt(t) \in Nat /\ NanosecondsAt(t) \in Nat /\ Zero(t) \in {0, 1}
<1>1. Begin[1] \in Nat /\ Begin[2] \in Nat
  BY TimestampsAssumption
<1>2. Begin = <<0, 0>> => Begin[2] = 0
  OBVIOUS
<1>3. \A x \in Nat : x \div Second \in Nat /\ x % Second \in Nat
  BY Division
<1>4. ASSUME NEW t \in Nat
      PROVE  SecondsAt(t) \in Nat /\ NanosecondsAt(t) \in Nat /\ Zero(t) \in {0, 1}
  <2>1. Begin[2] + t \in Nat
    BY <1>1
  <2> QED BY <1>1, <1>3, <2>1 DEF SecondsAt, NanosecondsAt, Zero
<1> QED BY <1>1, <1>2, <1>4

(* Within a second the nanoseconds are as far apart as the instants.       *)
LEMMA SameSecond ==
  ASSUME NEW t \in Nat, NEW u \in Nat, SecondsAt(t) = SecondsAt(u)
  PROVE  u - t = NanosecondsAt(u) - NanosecondsAt(t)
<1>1. Begin[1] \in Nat /\ Begin[2] \in Nat
  BY Clock
<1> DEFINE a == Begin[2] + t
           b == Begin[2] + u
<1>2. a \in Nat /\ b \in Nat /\ b - a = u - t
  BY <1>1
<1>3. /\ SecondsAt(t) = a \div Second + Begin[1] /\ NanosecondsAt(t) = a % Second
      /\ SecondsAt(u) = b \div Second + Begin[1] /\ NanosecondsAt(u) = b % Second
  BY DEF SecondsAt, NanosecondsAt
<1> HIDE DEF a, b
<1>4. \A x \in Nat : x \div Second \in Nat /\ x % Second \in Nat
  BY Division
<1>5. a \div Second = b \div Second
  <2>2. a \div Second \in Nat /\ b \div Second \in Nat
    BY <1>2, <1>4
  <2>3. a \div Second + Begin[1] = b \div Second + Begin[1]
    BY <1>3
  <2> QED BY <1>1, <2>2, <2>3, Cancelled
<1>6. b - a = (b % Second) - (a % Second)
  BY <1>2, <1>5, SMT DEF Second
<1> QED BY <1>2, <1>3, <1>6

(* Fewer came before a timestamp than are in any set that has these and it. *)
LEMMA Counted ==
  ASSUME NEW s, NEW k \in Nat, NEW t
  PROVE  /\ IsFiniteSet(Sooner(s, k, t)) /\ Rank(s, k, t) \in Nat
         /\ \A S : IsFiniteSet(S) /\ Sooner(s, k, t) \subseteq S /\ k \in S =>
              Rank(s, k, t) < Cardinality(S)
<1>1. IsFiniteSet(1..(k - 1))
  BY FS_Interval
<1>2. IsFiniteSet(Sooner(s, k, t))
  BY <1>1, FS_Subset DEF Sooner
<1>3. Rank(s, k, t) \in Nat
  BY <1>2, FS_CardinalityType DEF Rank
<1>4. ASSUME NEW S, IsFiniteSet(S), Sooner(s, k, t) \subseteq S, k \in S
      PROVE  Rank(s, k, t) < Cardinality(S)
  <2>1. k \notin Sooner(s, k, t)
    BY DEF Sooner
  <2>2. Cardinality(Sooner(s, k, t) \cup {k}) = Rank(s, k, t) + 1
    BY <1>2, <2>1, FS_AddElement DEF Rank
  <2>3. Cardinality(Sooner(s, k, t) \cup {k}) <= Cardinality(S)
    BY <1>4, FS_Subset
  <2>4. Cardinality(S) \in Nat
    BY <1>4, FS_CardinalityType
  <2> QED BY <1>3, <2>2, <2>3, <2>4
<1> QED BY <1>2, <1>3, <1>4

(* At first nothing was made.                                              *)
LEMMA StampsInitInv == StampsInit => StampsInv
<1> SUFFICES ASSUME StampsInit PROVE StampsInv
  OBVIOUS
<1>1. made = <<>> /\ DOMAIN made = {}
  BY DEF StampsInit
<1>2. StampsTypeOK
  BY <1>1, TimestampsAssumption DEF StampsInit, StampsTypeOK
<1> QED BY <1>1, <1>2 DEF StampsInit, StampsInv

(* When a nanosecond passes, what was made stays as it is.                 *)
LEMMA StampsTick == StampsInv /\ Tick => StampsInv'
<1> SUFFICES ASSUME StampsInv, Tick PROVE StampsInv'
  OBVIOUS
<1>1. /\ now \in 0..TickBound /\ now' \in 0..TickBound /\ now' = now + 1
      /\ previous' = previous /\ made' = made
  BY TimestampsAssumption DEF StampsInv, StampsTypeOK, Tick
<1>2. StampsTypeOK'
  BY <1>1 DEF StampsInv, StampsTypeOK
<1>3. ASSUME NEW k \in DOMAIN made PROVE made[k].at <= now'
  <2>1. made[k].at <= now
    BY DEF StampsInv
  <2>2. made[k].at \in Nat
    BY MadeInTime DEF StampsInv
  <2> QED BY <1>1, <2>1, <2>2
<1> QED BY <1>1, <1>2, <1>3 DEF StampsInv

(* The next timestamp counts on from those made at its instant: the one    *)
(* kept is of this instant exactly if one was made at it, or if it is the  *)
(* beginning of time.                                                      *)
LEMMA NextInInstant ==
  ASSUME StampsInv
  PROVE  Sequence = NanosecondsAt(now) + Zero(now) + Rank(made, Len(made) + 1, now)
<1> DEFINE n == Len(made)
<1>1. /\ now \in Nat /\ previous.at \in Int /\ previous.sequence \in Nat
      /\ made \in Seq([at : 0..TickBound, stamp : Stamp])
  BY DEF StampsInv, StampsTypeOK
<1>2. n \in Nat /\ DOMAIN made = 1..n /\ (n = 0 <=> made = <<>>)
  BY <1>1
<1>3. /\ NanosecondsAt(now) \in Nat /\ Zero(now) \in {0, 1}
      /\ Nanoseconds = NanosecondsAt(now)
  BY <1>1, Clock DEF Nanoseconds, NanosecondsAt
<1>4. CASE made = <<>>
  <2>1. Sooner(made, n + 1, now) = {}
    BY <1>2, <1>4 DEF Sooner
  <2>2. Rank(made, n + 1, now) = 0
    BY <2>1, FS_EmptySet DEF Rank
  <2>3. /\ previous.at = IF Begin = <<0, 0>> THEN 0 ELSE -1
        /\ previous.sequence = 0
    BY <1>4 DEF StampsInv
  <2>4. CASE previous.at = now
    <3>1. Begin = <<0, 0>> /\ now = 0
      BY <1>1, <2>3, <2>4
    <3>2. Begin[2] + now = 0
      BY <3>1, Clock
    <3>3. NanosecondsAt(now) = 0
      BY <3>2, Division DEF NanosecondsAt
    <3>4. Zero(now) = 1
      BY <3>1 DEF Zero
    <3>5. Sequence = previous.sequence + 1
      BY <1>3, <2>3, <2>4, <3>3 DEF Sequence
    <3> QED BY <2>2, <2>3, <3>3, <3>4, <3>5
  <2>5. CASE previous.at # now
    <3>1. Zero(now) = 0
      BY <2>3, <2>5 DEF Zero
    <3> QED BY <1>3, <2>2, <2>5, <3>1 DEF Sequence
  <2> QED BY <2>4, <2>5
<1>5. CASE made # <<>>
  <2>1. n \in DOMAIN made /\ n >= 1
    BY <1>2, <1>5
  <2> DEFINE t == made[n].at
  <2>5. \A j \in 1..n : made[j].at \in Nat
    BY <1>2, MadeInTime DEF StampsInv
  <2>6. previous.at = t /\ previous.sequence = made[n].stamp.sequence
    BY <1>5 DEF StampsInv
  <2>2. /\ t \in Nat /\ t <= now
        /\ \A j \in 1..n : made[j].at \in Nat /\ made[j].at <= t
        /\ previous.at = t
        /\ previous.sequence = NanosecondsAt(t) + Zero(t) + Rank(made, n, t)
    BY <1>2, <2>1, <2>5, <2>6 DEF StampsInv, Placed
  <2> HIDE DEF t, n
  <2>3. CASE t = now
    <3>1. /\ Sooner(made, n + 1, now) = Sooner(made, n, now) \cup {n}
          /\ n \notin Sooner(made, n, now)
      BY <1>2, <2>1, <2>3 DEF Sooner, t
    <3>2. Rank(made, n + 1, now) = Rank(made, n, now) + 1 /\ Rank(made, n, now) \in Nat
      BY <1>2, <3>1, Counted, FS_AddElement DEF Rank
    <3>3. Nanoseconds <= previous.sequence
      BY <1>3, <2>2, <2>3, <3>2
    <3>4. Sequence = previous.sequence + 1
      BY <2>2, <2>3, <3>3 DEF Sequence
    <3>5. previous.sequence = NanosecondsAt(now) + Zero(now) + Rank(made, n, now)
      BY <2>2, <2>3
    <3>6. Sequence = NanosecondsAt(now) + Zero(now) + Rank(made, n + 1, now)
      BY <1>3, <3>2, <3>4, <3>5
    <3> QED BY <3>6 DEF n
  <2>4. CASE t # now
    <3>1. Sooner(made, n + 1, now) = {}
      BY <1>1, <1>2, <2>2, <2>4 DEF Sooner
    <3>2. Rank(made, n + 1, now) = 0
      BY <3>1, FS_EmptySet DEF Rank
    <3>3. Zero(now) = 0
      BY <1>1, <2>2, <2>4 DEF Zero
    <3> QED BY <1>3, <2>2, <2>4, <3>2, <3>3 DEF Sequence, n
  <2> QED BY <2>3, <2>4
<1> QED BY <1>4, <1>5

(* The new timestamp takes its place.                                      *)
LEMMA StampsMade == StampsInv /\ CreationTimestamp => StampsInv'
<1> SUFFICES ASSUME StampsInv, CreationTimestamp PROVE StampsInv'
  OBVIOUS
<1> DEFINE n == Len(made)
           x == [at |-> now, stamp |-> [time |-> Seconds, sequence |-> Sequence]]
<1>1. /\ now \in 0..TickBound /\ now' = now
      /\ previous' = [at |-> now, sequence |-> Sequence]
      /\ made' = Append(made, x)
      /\ made \in Seq([at : 0..TickBound, stamp : Stamp])
  BY DEF CreationTimestamp, StampsInv, StampsTypeOK
<1>2. now \in Nat /\ n \in Nat /\ DOMAIN made = 1..n
  BY <1>1
<1>3. /\ Seconds = SecondsAt(now) /\ Seconds \in Nat
      /\ NanosecondsAt(now) \in Nat /\ Zero(now) \in Nat
  <2>1. Seconds = SecondsAt(now)
    BY DEF Seconds, SecondsAt
  <2>2. SecondsAt(now) \in Nat /\ NanosecondsAt(now) \in Nat /\ Zero(now) \in {0, 1}
    BY <1>2, Clock
  <2> QED BY <2>1, <2>2
<1>4. Rank(made, n + 1, now) \in Nat
  BY <1>2, Counted
<1>5. Sequence = NanosecondsAt(now) + Zero(now) + Rank(made, n + 1, now) /\ Sequence \in Nat
  BY <1>3, <1>4, NextInInstant
<1>6. x \in [at : 0..TickBound, stamp : Stamp]
  BY <1>1, <1>3, <1>5 DEF Stamp
<1>7. x.at = now /\ x.stamp.time = Seconds /\ x.stamp.sequence = Sequence
  OBVIOUS
<1> HIDE DEF x
<1>8. /\ made' \in Seq([at : 0..TickBound, stamp : Stamp]) /\ Len(made') = n + 1
      /\ DOMAIN made' = 1..(n + 1) /\ made'[n + 1] = x
      /\ \A k \in 1..n : made'[k] = made[k]
      /\ made' # <<>>
  BY <1>1, <1>2, <1>6
<1>9. StampsTypeOK'
  BY <1>1, <1>5, <1>8 DEF StampsTypeOK
<1>10. \A k \in 1..(n + 1) : \A t : Rank(made', k, t) = Rank(made, k, t)
  <2>1. ASSUME NEW k \in 1..(n + 1), NEW t
        PROVE  Sooner(made', k, t) = Sooner(made, k, t)
    BY <1>2, <1>8 DEF Sooner
  <2> QED BY <2>1 DEF Rank
<1>11. ASSUME NEW k \in 1..n
       PROVE  made'[k].at \in Nat /\ made'[k].at <= now /\ Placed(made', k)
  <2>1. made[k].at \in Nat /\ made[k].at <= now /\ Placed(made, k)
    <3>1. k \in DOMAIN made
      BY <1>2
    <3> QED BY <3>1, MadeInTime DEF StampsInv
  <2>2. \A j \in 1..k : made'[j] = made[j]
    BY <1>2, <1>8
  <2>3. made'[k] = made[k] /\ Rank(made', k, made[k].at) = Rank(made, k, made[k].at)
    BY <1>2, <1>8, <1>10
  <2>4. \A j \in 1..k : made'[j].at <= made[k].at
    BY <2>1, <2>2 DEF Placed
  <2> QED BY <2>1, <2>3, <2>4 DEF Placed
<1>12. made'[n + 1].at = now /\ Placed(made', n + 1)
  <2>1. made'[n + 1].at = now /\ made'[n + 1].stamp.time = SecondsAt(now)
    BY <1>3, <1>7, <1>8
  <2>2. \A j \in 1..(n + 1) : made'[j].at <= now
    <3>1. \A j \in 1..(n + 1) : j \in 1..n \/ j = n + 1
      BY <1>2
    <3> QED BY <1>2, <1>11, <2>1, <3>1
  <2>3. Rank(made', n + 1, now) = Rank(made, n + 1, now)
    <3>1. n + 1 \in 1..(n + 1)
      BY <1>2
    <3> QED BY <1>10, <3>1
  <2>4. made'[n + 1].stamp.sequence = NanosecondsAt(now) + Zero(now) + Rank(made, n + 1, now)
    BY <1>5, <1>7, <1>8
  <2> QED BY <2>1, <2>2, <2>3, <2>4 DEF Placed
<1>13. \A k \in DOMAIN made' : made'[k].at <= now' /\ Placed(made', k)
  <2>1. \A k \in DOMAIN made' : k \in 1..n \/ k = n + 1
    BY <1>2, <1>8
  <2>2. now <= now
    BY <1>2
  <2> QED BY <1>1, <1>11, <1>12, <2>1, <2>2
<1>14. /\ previous'.at = made'[Len(made')].at
       /\ previous'.sequence = made'[Len(made')].stamp.sequence
  <2>1. previous'.at = now /\ previous'.sequence = Sequence
    BY <1>1
  <2>2. made'[Len(made')] = x
    BY <1>8
  <2> QED BY <1>7, <2>1, <2>2
<1> QED BY <1>8, <1>9, <1>13, <1>14 DEF StampsInv

(* So it is in every state.                                                *)
LEMMA StampsInvariance == StampsSpec => []StampsInv
<1>1. StampsInv /\ UNCHANGED stampVars => StampsInv'
  BY DEF StampsInv, StampsTypeOK, stampVars
<1>2. StampsInv /\ [Tick \/ CreationTimestamp]_stampVars => StampsInv'
  BY <1>1, StampsTick, StampsMade
<1> QED BY <1>2, StampsInitInv, PTL DEF StampsSpec

(* Of two with the same timestamp the later was made when the clock had    *)
(* not yet passed what those of the earlier instant used up.               *)
LEMMA Apart ==
  ASSUME StampsInv, NEW i \in DOMAIN made, NEW j \in DOMAIN made, i < j,
         made[i].stamp = made[j].stamp
  PROVE  /\ made[i].at < made[j].at
         /\ made[j].at - made[i].at < MadeAt(made[i].at)
<1> DEFINE t == made[i].at
           u == made[j].at
           ri == Rank(made, i, t)
           rj == Rank(made, j, u)
<1>1. i \in Nat /\ j \in Nat /\ i \in 1..j /\ t \in Nat /\ u \in Nat
  <2>1. made \in Seq([at : 0..TickBound, stamp : Stamp])
    BY DEF StampsInv, StampsTypeOK
  <2>2. i \in 1..Len(made) /\ j \in 1..Len(made) /\ Len(made) \in Nat
    BY <2>1
  <2> QED BY <2>2, MadeInTime DEF StampsInv
<1>2. t <= u
  BY <1>1 DEF StampsInv, Placed
<1>3. /\ SecondsAt(t) = SecondsAt(u)
      /\ NanosecondsAt(t) + Zero(t) + ri = NanosecondsAt(u) + Zero(u) + rj
  BY DEF StampsInv, Placed
<1>4. ri \in Nat /\ rj \in Nat
  BY <1>1, Counted
<1>5. /\ NanosecondsAt(t) \in Nat /\ NanosecondsAt(u) \in Nat
      /\ Zero(t) \in {0, 1} /\ Zero(u) \in {0, 1}
  BY <1>1, Clock
<1>6. t # u
  <2> SUFFICES ASSUME t = u PROVE FALSE
    OBVIOUS
  <2>1. ri < rj
    <3>4. IsFiniteSet(Sooner(made, j, t))
      BY <1>1, Counted
    <3>1. IsFiniteSet(Sooner(made, j, t)) /\ i \in Sooner(made, j, t)
      BY <1>1, <3>4 DEF Sooner
    <3>2. Sooner(made, i, t) \subseteq Sooner(made, j, t)
      BY <1>1 DEF Sooner
    <3>3. Rank(made, i, t) < Cardinality(Sooner(made, j, t))
      BY <1>1, <3>1, <3>2, Counted
    <3> QED BY <3>3 DEF Rank
  <2> HIDE DEF t, u, ri, rj
  <2> QED BY <1>3, <1>4, <1>5, <2>1
<1>7. u - t = NanosecondsAt(u) - NanosecondsAt(t)
  BY <1>1, <1>3, SameSecond
<1>8. /\ Cardinality({k \in DOMAIN made : made[k].at = t}) \in Nat
      /\ ri < Cardinality({k \in DOMAIN made : made[k].at = t})
  <2> DEFINE S == {k \in DOMAIN made : made[k].at = t}
  <2>1. DOMAIN made = 1..Len(made) /\ Len(made) \in Nat
    BY DEF StampsInv, StampsTypeOK
  <2>2. IsFiniteSet(S)
    <3>1. IsFiniteSet(DOMAIN made)
      BY <2>1, FS_Interval
    <3>2. S \in SUBSET (DOMAIN made)
      OBVIOUS
    <3> HIDE DEF S
    <3> QED BY <3>1, <3>2, FS_Subset
  <2>3. Sooner(made, i, t) \subseteq S /\ i \in S
    BY <1>1, <2>1 DEF Sooner
  <2> QED BY <1>1, <2>2, <2>3, Counted, FS_CardinalityType
<1>9. MadeAt(t) = Cardinality({k \in DOMAIN made : made[k].at = t}) + Zero(t)
  BY DEF MadeAt, Zero
<1> HIDE DEF t, u, ri, rj
<1>10. t < u
  BY <1>1, <1>2, <1>6
<1>11. u - t <= Zero(t) + ri
  BY <1>1, <1>3, <1>4, <1>5, <1>7
<1>12. u - t < MadeAt(t)
  BY <1>1, <1>4, <1>5, <1>8, <1>9, <1>11
<1> QED BY <1>10, <1>12 DEF t, u

(* Two bundles of a node are told apart, whenever they are made, unless    *)
(* the timestamps ran ahead of the clock.                                  *)
THEOREM TimestampsTellApart == StampsSpec => []StampsRunAhead
<1>1. StampsInv => StampsRunAhead
  BY Apart DEF StampsRunAhead
<1> QED BY <1>1, StampsInvariance, PTL

-----------------------------------------------------------------------------
(* Recursion. *)

(* A function that is computed from each value to the next one is found.   *)
Steps(n, base, step, f) == f[0] = base /\ \A i \in 1..n : f[i] = step[<<i, f[i - 1]>>]

LEMMA RecursionExists ==
  ASSUME NEW n \in Nat, NEW S, NEW base \in S, NEW step \in [(1..n) \X S -> S]
  PROVE  \E f \in [0..n -> S] : Steps(n, base, step, f)
<1> DEFINE Is(m, f) == f[0] = base /\ \A i \in 1..m : f[i] = step[<<i, f[i - 1]>>]
           K == {m \in Nat : m <= n => \E f \in [0..m -> S] : Is(m, f)}
<1>1. 0 \in K
  <2>1. [i \in 0..0 |-> base] \in [0..0 -> S] /\ Is(0, [i \in 0..0 |-> base])
    OBVIOUS
  <2> QED BY <2>1
<1>2. ASSUME NEW m \in Nat, m \in K PROVE m + 1 \in K
  <2> SUFFICES ASSUME m + 1 <= n PROVE \E f \in [0..(m + 1) -> S] : Is(m + 1, f)
    OBVIOUS
  <2>1. PICK g \in [0..m -> S] : Is(m, g)
    BY <1>2
  <2> DEFINE last == step[<<m + 1, g[m]>>]
             f == [i \in 0..(m + 1) |-> IF i <= m THEN g[i] ELSE last]
  <2>2. m \in 0..m /\ m + 1 \in 1..n /\ g[m] \in S /\ 0 \in 0..m
    OBVIOUS
  <2>3. last \in S
    BY <2>2
  <2> HIDE DEF last
  <2>4. \A i \in 0..(m + 1) : i \in 0..m \/ i = m + 1
    OBVIOUS
  <2>5. f \in [0..(m + 1) -> S]
    BY <2>3, <2>4
  <2>6. \A i \in 0..m : f[i] = g[i]
    OBVIOUS
  <2>7. f[m + 1] = last
    OBVIOUS
  <2> HIDE DEF f
  <2>8. ASSUME NEW i \in 1..m PROVE f[i] = step[<<i, f[i - 1]>>]
    <3>1. i \in 0..m /\ i - 1 \in 0..m
      OBVIOUS
    <3> QED BY <2>1, <2>6, <3>1
  <2>9. f[m + 1] = step[<<m + 1, f[(m + 1) - 1]>>]
    <3>1. (m + 1) - 1 = m
      OBVIOUS
    <3> QED BY <2>2, <2>6, <2>7, <3>1 DEF last
  <2>10. \A i \in 1..(m + 1) : i \in 1..m \/ i = m + 1
    OBVIOUS
  <2>11. f[0] = base
    BY <2>1, <2>2, <2>6
  <2>12. Is(m + 1, f)
    BY <2>8, <2>9, <2>10, <2>11
  <2> QED BY <2>5, <2>12
<1> HIDE DEF K
<1>3. n \in K
  BY <1>1, <1>2, NatInduct
<1> QED BY <1>3 DEF K, Steps

(* There is only one such function.                                        *)
SameRecursion(n, f, g) ==
  f[0] = g[0] /\ \A i \in 1..n : f[i - 1] = g[i - 1] => f[i] = g[i]

LEMMA RecursionAgrees ==
  ASSUME NEW n \in Nat, NEW f, NEW g, SameRecursion(n, f, g)
  PROVE  \A i \in 0..n : f[i] = g[i]
<1> DEFINE K == {i \in Nat : i \in 0..n => f[i] = g[i]}
<1>1. 0 \in K
  BY DEF SameRecursion
<1>2. ASSUME NEW i \in Nat, i \in K PROVE i + 1 \in K
  <2> SUFFICES ASSUME i + 1 \in 0..n PROVE f[i + 1] = g[i + 1]
    OBVIOUS
  <2>1. i + 1 \in 1..n /\ i \in 0..n /\ (i + 1) - 1 = i
    OBVIOUS
  <2> QED BY <1>2, <2>1 DEF SameRecursion
<1> HIDE DEF K
<1>3. Nat \subseteq K
  BY <1>1, <1>2, NatInduct
<1>4. 0..n \subseteq Nat
  OBVIOUS
<1> QED BY <1>3, <1>4 DEF K

-----------------------------------------------------------------------------
(* Self-delimiting numbers: the groups of seven bits. *)

Halved(n) == n \div 128

(* The groups of n, from those of Halved(n). *)
GroupsFrom(n, g) == IF n < 128 THEN <<n>> ELSE Append(g, n % 128)

Sevens == Seq(0..127)

LEMMA HalvedIsLess ==
  ASSUME NEW n \in Nat
  PROVE  /\ Halved(n) \in 0..n /\ n % 128 \in 0..127 /\ n = Halved(n) * 128 + (n % 128)
         /\ n # 0 => Halved(n) < n
BY SMT DEF Halved

LEMMA GroupsFromType ==
  ASSUME NEW n \in Nat, NEW g \in Sevens
  PROVE  GroupsFrom(n, g) \in Sevens
<1>1. CASE n < 128
  BY <1>1 DEF Sevens, GroupsFrom
<1>2. CASE ~(n < 128)
  <2>1. n % 128 \in 0..127
    BY HalvedIsLess
  <2>2. Append(g, n % 128) \in Seq(0..127)
    BY <2>1, AppendProperties DEF Sevens
  <2> QED BY <1>2, <2>2 DEF Sevens, GroupsFrom
<1> QED BY <1>1, <1>2

LEMMA GroupsFromZero == \A g, h : GroupsFrom(0, g) = GroupsFrom(0, h)
BY DEF GroupsFrom

(* The groups of the numbers up to n. *)
GroupsUpTo(n, f) ==
  /\ f \in [0..n -> Sevens]
  /\ \A i \in 0..n : f[i] = GroupsFrom(i, f[Halved(i)])

(* The groups of some numbers, and of all that are less. *)
GroupsOf(D, f) ==
  /\ D \subseteq Nat /\ \A i \in D : 0..i \subseteq D
  /\ \A i \in D : f[i] = GroupsFrom(i, f[Halved(i)])

LEMMA GroupsAgree ==
  ASSUME NEW D, NEW f, NEW g, GroupsOf(D, f), GroupsOf(D, g)
  PROVE  \A i \in D : f[i] = g[i]
<1> DEFINE T == {i \in D : f[i] # g[i]}
<1> SUFFICES ASSUME T # {} PROVE FALSE
  OBVIOUS
<1>1. T \subseteq Nat /\ \A i \in T : i \in D /\ f[i] # g[i]
  BY DEF GroupsOf
<1>2. \A i \in D : i \notin T => f[i] = g[i]
  OBVIOUS
<1> HIDE DEF T
<1>3. PICK i \in T : \A j \in T : i <= j
  BY <1>1, LeastNatural
<1>4. /\ i \in D /\ i \in Nat /\ f[i] # g[i]
      /\ f[i] = GroupsFrom(i, f[Halved(i)]) /\ g[i] = GroupsFrom(i, g[Halved(i)])
      /\ 0..i \subseteq D
  BY <1>1 DEF GroupsOf
<1>5. i # 0
  BY <1>4, GroupsFromZero
<1>6. Halved(i) \in D /\ Halved(i) \in Nat /\ Halved(i) < i
  BY <1>4, <1>5, HalvedIsLess
<1>7. Halved(i) \notin T
  BY <1>3, <1>4, <1>6
<1>8. f[Halved(i)] = g[Halved(i)]
  BY <1>2, <1>6, <1>7
<1> QED BY <1>4, <1>8

LEMMA GroupsExist == \A n \in Nat : \E f : GroupsUpTo(n, f)
<1> DEFINE K == {n \in Nat : \E f : GroupsUpTo(n, f)}
<1>1. 0 \in K
  <2> DEFINE f == [i \in 0..0 |-> GroupsFrom(0, <<>>)]
  <2>1. <<>> \in Sevens
    BY DEF Sevens
  <2>2. GroupsFrom(0, <<>>) \in Sevens
    BY <2>1, GroupsFromType
  <2>3. \A i \in 0..0 : i = 0 /\ f[i] = GroupsFrom(0, <<>>)
    OBVIOUS
  <2>4. f \in [0..0 -> Sevens]
    BY <2>2
  <2> HIDE DEF f
  <2>5. GroupsUpTo(0, f)
    BY <2>3, <2>4, GroupsFromZero DEF GroupsUpTo
  <2> QED BY <2>5
<1>2. ASSUME NEW n \in Nat, n \in K PROVE n + 1 \in K
  <2>1. PICK g : GroupsUpTo(n, g)
    BY <1>2
  <2> DEFINE k == n + 1
             last == GroupsFrom(k, g[Halved(k)])
             f == [i \in 0..k |-> IF i <= n THEN g[i] ELSE last]
  <2>2. k \in Nat /\ k # 0 /\ \A i \in 0..k : i \in 0..n \/ i = k
    OBVIOUS
  <2>3. \A i \in 0..n : f[i] = g[i]
    OBVIOUS
  <2>4. f[k] = last
    OBVIOUS
  <2>5. Halved(k) \in 0..n
    <3>1. Halved(k) \in 0..k /\ Halved(k) < k
      BY <2>2, HalvedIsLess
    <3> QED BY <3>1
  <2>6. last \in Sevens
    <3>1. g[Halved(k)] \in Sevens
      BY <2>1, <2>5 DEF GroupsUpTo
    <3> QED BY <2>2, <3>1, GroupsFromType
  <2>7. \A i \in 0..n : g[i] \in Sevens
    BY <2>1 DEF GroupsUpTo
  <2> HIDE DEF last
  <2>8. f \in [0..k -> Sevens]
    BY <2>2, <2>6, <2>7
  <2> HIDE DEF f
  <2>9. ASSUME NEW i \in 0..n PROVE f[i] = GroupsFrom(i, f[Halved(i)])
    <3>1. Halved(i) \in 0..n
      <4>1. i \in Nat
        OBVIOUS
      <4>2. Halved(i) \in 0..i
        BY <4>1, HalvedIsLess
      <4> QED BY <4>2
    <3> QED BY <2>1, <2>3, <3>1 DEF GroupsUpTo
  <2>10. f[k] = GroupsFrom(k, f[Halved(k)])
    BY <2>3, <2>4, <2>5 DEF last
  <2> HIDE DEF k
  <2>11. GroupsUpTo(k, f)
    BY <2>2, <2>8, <2>9, <2>10 DEF GroupsUpTo
  <2>12. k \in K
    BY <2>2, <2>11
  <2> QED BY <2>12 DEF k
<1> HIDE DEF K
<1>3. Nat \subseteq K
  BY <1>1, <1>2, NatInduct
<1> QED BY <1>3 DEF K

(* Groups is what its definition says. *)
LEMMA GroupsAre ==
  /\ Groups = [n \in Nat |-> GroupsFrom(n, Groups[Halved(n)])]
  /\ \A n \in Nat : Groups[n] \in Sevens /\ Groups[n] = GroupsFrom(n, Groups[Halved(n)])
<1> DEFINE Up(m) == CHOOSE f : GroupsUpTo(m, f)
           g == [m \in Nat |-> Up(m)[m]]
<1>1. \A m \in Nat : GroupsUpTo(m, Up(m))
  BY GroupsExist
<1> HIDE DEF Up
<1>2. \A m \in Nat : g[m] = Up(m)[m]
  OBVIOUS
<1>3. g = [m \in Nat |-> g[m]]
  OBVIOUS
<1> HIDE DEF g
<1>4. ASSUME NEW m \in Nat, NEW i \in 0..m PROVE Up(m)[i] = g[i]
  <2>1. i \in Nat /\ 0..i \subseteq Nat /\ 0..i \subseteq 0..m /\ i \in 0..i
    OBVIOUS
  <2>2. \A j \in 0..i : 0..j \subseteq 0..i
    OBVIOUS
  <2> DEFINE a == Up(m)
             b == Up(i)
             D == 0..i
  <2>3. GroupsOf(D, a) /\ GroupsOf(D, b)
    BY <1>1, <2>1, <2>2 DEF GroupsUpTo, GroupsOf
  <2>4. \A j \in D : a[j] = b[j]
    <3> HIDE DEF a, b, D
    <3> QED BY ONLY <2>3, GroupsAgree
  <2> QED BY <1>2, <2>1, <2>4
<1>5. ASSUME NEW m \in Nat
      PROVE  g[m] \in Sevens /\ g[m] = GroupsFrom(m, g[Halved(m)])
  <2>1. m \in 0..m /\ Halved(m) \in 0..m
    BY HalvedIsLess
  <2>2. Up(m)[m] \in Sevens /\ Up(m)[m] = GroupsFrom(m, Up(m)[Halved(m)])
    BY <1>1, <2>1 DEF GroupsUpTo
  <2> QED BY <1>4, <2>1, <2>2
<1>6. g = [m \in Nat |-> GroupsFrom(m, g[Halved(m)])]
  BY <1>3, <1>5
<1>7. Groups = [n \in Nat |-> GroupsFrom(n, Groups[Halved(n)])]
  <2>1. g = [n \in Nat |-> IF n < 128 THEN <<n>> ELSE Append(g[n \div 128], n % 128)]
    BY <1>6 DEF GroupsFrom, Halved
  <2>2. Groups = [n \in Nat |-> IF n < 128 THEN <<n>> ELSE Append(Groups[n \div 128], n % 128)]
    <3> DEFINE Is(h) ==
                 h = [n \in Nat |-> IF n < 128 THEN <<n>> ELSE Append(h[n \div 128], n % 128)]
               c == CHOOSE h : Is(h)
    <3>1. Is(g)
      BY <2>1
    <3>2. Groups = c
      BY DEF Groups
    <3>3. Is(c)
      <4> HIDE DEF Is
      <4> QED BY ONLY <3>1
    <3>4. Is(Groups)
      <4> HIDE DEF Is, c
      <4> QED BY ONLY <3>2, <3>3
    <3> QED BY ONLY <3>4
  <2> QED BY <2>2 DEF GroupsFrom, Halved
<1>8. \A n \in Nat : Groups[n] = GroupsFrom(n, Groups[Halved(n)])
  BY <1>7
<1>9. \A n \in Nat : Groups[n] = g[n]
  <2> DEFINE a == Groups
  <2>1. GroupsOf(Nat, g) /\ GroupsOf(Nat, a)
    <3>1. \A n \in Nat : 0..n \subseteq Nat
      OBVIOUS
    <3> QED BY <1>5, <1>8, <3>1 DEF GroupsOf
  <2> HIDE DEF a
  <2>2. \A n \in Nat : a[n] = g[n]
    BY <2>1, GroupsAgree
  <2> QED BY <2>2 DEF a
<1> QED BY <1>5, <1>7, <1>8, <1>9

(* What it is to be a sequence. *)
LEMMA SequenceHas ==
  ASSUME NEW S, NEW s \in Seq(S)
  PROVE  /\ Len(s) \in Nat /\ DOMAIN s = 1..Len(s)
         /\ \A i \in 1..Len(s) : s[i] \in S
         /\ s # <<>> => Len(s) # 0
OBVIOUS

(* The groups are the digits of n, to the base of 128. *)
DigitsOf(n, g, f) ==
  /\ f[0] = 0 /\ f[Len(g)] = n
  /\ \A i \in 1..Len(g) : f[i] = f[i - 1] * 128 + g[i]

LEMMA OneDigit ==
  ASSUME NEW n \in Nat, n < 128
  PROVE  Groups[n] = <<n>> /\ \E f : DigitsOf(n, Groups[n], f)
<1>1. Groups[n] = <<n>>
  BY GroupsAre DEF GroupsFrom
<1> DEFINE f == [i \in 0..1 |-> IF i = 0 THEN 0 ELSE n]
<1>2. f[0] = 0 /\ f[1] = n
  OBVIOUS
<1> HIDE DEF f
<1>3. DigitsOf(n, <<n>>, f)
  <2>1. Len(<<n>>) = 1 /\ <<n>>[1] = n /\ \A i \in 1..1 : i = 1 /\ i - 1 = 0
    OBVIOUS
  <2> QED BY <1>2, <2>1 DEF DigitsOf
<1> QED BY <1>1, <1>3

LEMMA OneDigitMore ==
  ASSUME NEW n \in Nat, ~(n < 128), NEW f, DigitsOf(Halved(n), Groups[Halved(n)], f)
  PROVE  Groups[n] # <<>> /\ \E h : DigitsOf(n, Groups[n], h)
<1> DEFINE m == Halved(n)
           g == Groups[m]
           k == Len(g) + 1
<1>1. m \in Nat /\ n % 128 \in 0..127 /\ n = m * 128 + (n % 128)
  BY HalvedIsLess
<1>2. g \in Seq(0..127) /\ Len(g) \in Nat
  <2>1. g \in Seq(0..127)
    BY <1>1, GroupsAre DEF Sevens
  <2> QED BY <2>1
<1>3. Groups[n] = Append(g, n % 128)
  BY GroupsAre DEF GroupsFrom
<1>4. /\ Groups[n] # <<>> /\ Len(Groups[n]) = k
      /\ \A i \in 1..Len(g) : Groups[n][i] = g[i]
      /\ Groups[n][k] = n % 128
  <2> DEFINE S == 0..127
             d == n % 128
  <2>1. g \in Seq(S) /\ d \in S
    BY <1>1, <1>2
  <2> HIDE DEF S, d, g
  <2>2. /\ Append(g, d) # <<>> /\ Len(Append(g, d)) = Len(g) + 1
        /\ \A i \in 1..Len(g) : Append(g, d)[i] = g[i]
        /\ Append(g, d)[Len(g) + 1] = d
    BY <2>1, AppendProperties
  <2> QED BY <1>3, <2>2 DEF d
<1> DEFINE h == [i \in 0..k |-> IF i < k THEN f[i] ELSE n]
<1>5. \A i \in 0..Len(g) : h[i] = f[i]
  BY <1>2
<1>6. h[k] = n
  BY <1>2
<1> HIDE DEF h
<1>7. f[0] = 0 /\ f[Len(g)] = m /\ \A i \in 1..Len(g) : f[i] = f[i - 1] * 128 + g[i]
  BY DEF DigitsOf
<1> HIDE DEF m, g
<1>8. /\ k - 1 = Len(g) /\ \A i \in 1..k : i \in 1..Len(g) \/ i = k
      /\ \A i \in 1..Len(g) : i \in 0..Len(g) /\ i - 1 \in 0..Len(g)
      /\ 0 \in 0..Len(g) /\ Len(g) \in 0..Len(g)
  BY <1>2
<1> HIDE DEF k
<1>9. h[0] = 0
  BY <1>5, <1>7, <1>8
<1>10. ASSUME NEW i \in 1..Len(g) PROVE h[i] = h[i - 1] * 128 + Groups[n][i]
  <2>1. h[i] = f[i] /\ h[i - 1] = f[i - 1]
    BY ONLY <1>5, <1>8
  <2>2. f[i] = f[i - 1] * 128 + g[i] /\ Groups[n][i] = g[i]
    BY ONLY <1>4, <1>7
  <2> QED BY ONLY <2>1, <2>2
<1>11. h[k] = h[k - 1] * 128 + Groups[n][k]
  <2>1. h[k - 1] = m
    BY ONLY <1>5, <1>7, <1>8
  <2>2. Groups[n][k] = n % 128 /\ h[k] = n /\ n = m * 128 + (n % 128)
    BY ONLY <1>1, <1>4, <1>6
  <2> QED BY ONLY <2>1, <2>2
<1>12. DigitsOf(n, Groups[n], h)
  BY <1>4, <1>6, <1>8, <1>9, <1>10, <1>11 DEF DigitsOf
<1> QED BY <1>4, <1>12

LEMMA GroupsAreDigits ==
  \A n \in Nat : Groups[n] # <<>> /\ \E f : DigitsOf(n, Groups[n], f)
<1> DEFINE Good(n) == Groups[n] # <<>> /\ \E f : DigitsOf(n, Groups[n], f)
           T == {n \in Nat : ~Good(n)}
<1> SUFFICES ASSUME T # {} PROVE FALSE
  OBVIOUS
<1>1. T \subseteq Nat /\ (\A n \in T : ~Good(n)) /\ \A n \in Nat : n \notin T => Good(n)
  OBVIOUS
<1> HIDE DEF T, Good
<1>2. PICK n \in T : \A m \in T : n <= m
  BY <1>1, LeastNatural
<1>3. n \in Nat
  BY <1>1
<1>4. ~(n < 128)
  <2>1. ASSUME n < 128 PROVE Good(n)
    <3>1. Groups[n] = <<n>> /\ \E f : DigitsOf(n, Groups[n], f)
      BY <1>3, <2>1, OneDigit
    <3> QED BY <3>1 DEF Good
  <2> QED BY <1>1, <2>1
<1>5. Halved(n) \in Nat /\ Halved(n) < n
  BY <1>3, <1>4, HalvedIsLess
<1>6. Good(Halved(n))
  BY <1>1, <1>2, <1>3, <1>5
<1>7. PICK f : DigitsOf(Halved(n), Groups[Halved(n)], f)
  BY <1>6 DEF Good
<1>8. Good(n)
  BY <1>3, <1>4, <1>7, OneDigitMore DEF Good
<1> QED BY <1>1, <1>8

(* What is encoded: as many octets as there are groups, and only the last  *)
(* without the highest bit.                                                *)
LEMMA EncodeIs ==
  ASSUME NEW n \in Nat
  PROVE  /\ Encode(n) \in Seq(Octet) /\ EncodingLength(n) \in Nat \ {0}
         /\ Len(Encode(n)) = EncodingLength(n) /\ Len(Groups[n]) = EncodingLength(n)
         /\ \A i \in 1..EncodingLength(n) :
              /\ Encode(n)[i] < 128 <=> i = EncodingLength(n)
              /\ Encode(n)[i] % 128 = Groups[n][i]
<1> DEFINE g == Groups[n]
           e == Encode(n)
<1>1. g \in Seq(0..127) /\ g # <<>>
  BY GroupsAre, GroupsAreDigits DEF Sevens
<1>2. e = [i \in DOMAIN g |-> IF i < Len(g) THEN g[i] + 128 ELSE g[i]]
  BY DEF Encode
<1>3. EncodingLength(n) = Len(g)
  BY DEF EncodingLength
<1> HIDE DEF g, e
<1>4. Len(g) \in Nat \ {0} /\ DOMAIN g = 1..Len(g) /\ \A i \in 1..Len(g) : g[i] \in 0..127
  BY <1>1, SequenceHas
<1>5. e = [i \in 1..Len(g) |-> IF i < Len(g) THEN g[i] + 128 ELSE g[i]]
  BY <1>2, <1>4
<1>6. ASSUME NEW i \in 1..Len(g)
      PROVE  /\ e[i] \in Octet /\ e[i] % 128 = g[i]
             /\ e[i] < 128 <=> i = Len(g)
  <2>1. e[i] = IF i < Len(g) THEN g[i] + 128 ELSE g[i]
    BY <1>5
  <2> DEFINE k == Len(g)
             x == g[i]
             y == e[i]
  <2>2. k \in Nat /\ i \in 1..k /\ x \in 0..127 /\ y = IF i < k THEN x + 128 ELSE x
    BY <1>4, <2>1
  <2> HIDE DEF k, x, y
  <2>3. x \in 0..127
    BY ONLY <2>2
  <2>4. ASSUME i < k PROVE y \in Octet /\ y % 128 = x /\ (y < 128 <=> i = k)
    <3>1. y = x + 128 /\ i # k
      BY ONLY <2>2, <2>4
    <3>2. x + 128 \in Octet /\ (x + 128) % 128 = x /\ ~(x + 128 < 128)
      BY ONLY <2>3 DEF Octet
    <3> QED BY ONLY <3>1, <3>2
  <2>5. ASSUME i = k PROVE y \in Octet /\ y % 128 = x /\ (y < 128 <=> i = k)
    <3>1. y = x
      BY ONLY <2>2, <2>5
    <3>2. x \in Octet /\ x % 128 = x /\ x < 128
      BY ONLY <2>3 DEF Octet
    <3> QED BY ONLY <2>5, <3>1, <3>2
  <2>6. i < k \/ i = k
    BY ONLY <2>2
  <2>7. y \in Octet /\ y % 128 = x /\ (y < 128 <=> i = k)
    BY ONLY <2>4, <2>5, <2>6
  <2> QED BY <2>7 DEF k, x, y
<1>7. e \in [1..Len(g) -> Octet]
  BY <1>5, <1>6
<1>8. e \in Seq(Octet) /\ Len(e) = Len(g)
  BY <1>4, <1>7
<1> QED BY <1>3, <1>4, <1>6, <1>8 DEF g, e

(* Decode adds up the digits.                                              *)
LEMMA DecodeIs ==
  ASSUME NEW bytes, Span(bytes) \in Nat, NEW f, f[0] = 0,
         \A i \in 1..Span(bytes) : f[i] = f[i - 1] * 128 + (bytes[i] % 128)
  PROVE  Decode(bytes) = f[Span(bytes)]
<1> DEFINE n == Span(bytes)
           Is(h) == h = [i \in 0..n |-> IF i = 0 THEN 0 ELSE h[i - 1] * 128 + (bytes[i] % 128)]
           w == [i \in 0..n |-> f[i]]
           c == CHOOSE h : Is(h)
<1>1. Is(w)
  <2>1. \A i \in 0..n : w[i] = f[i]
    OBVIOUS
  <2>2. \A i \in 0..n : f[i] = IF i = 0 THEN 0 ELSE w[i - 1] * 128 + (bytes[i] % 128)
    <3>1. \A i \in 0..n : i = 0 \/ (i # 0 /\ i \in 1..n /\ i - 1 \in 0..n)
      OBVIOUS
    <3> HIDE DEF w, n
    <3> QED BY <2>1, <3>1 DEF n
  <2> QED BY <2>2
<1>2. Is(c)
  <2> HIDE DEF w, n, Is
  <2> QED BY ONLY <1>1
<1>3. Decode(bytes) = c[n]
  BY DEF Decode
<1> HIDE DEF c
<1>4. SameRecursion(n, f, c)
  <2>1. 0 \in 0..n /\ \A i \in 1..n : i \in 0..n /\ i # 0
    OBVIOUS
  <2>2. \A i \in 0..n : c[i] = IF i = 0 THEN 0 ELSE c[i - 1] * 128 + (bytes[i] % 128)
    BY <1>2
  <2> QED BY <2>1, <2>2 DEF SameRecursion
<1>5. n \in 0..n
  OBVIOUS
<1> HIDE DEF n
<1> QED BY <1>3, <1>4, <1>5, RecursionAgrees DEF n

(* A number is decoded from what it was encoded to, whatever is behind.    *)
LEMMA SdnvIsRead ==
  ASSUME NEW n \in Nat, NEW behind \in Seq(Octet)
  PROVE  /\ Span(Encode(n) \o behind) = EncodingLength(n)
         /\ Decode(Encode(n) \o behind) = n
<1> DEFINE bytes == Encode(n) \o behind
           k == EncodingLength(n)
<1>1. /\ Encode(n) \in Seq(Octet) /\ k \in Nat \ {0}
      /\ Len(Encode(n)) = k /\ Len(Groups[n]) = k
  BY EncodeIs
<1>2. /\ Len(bytes) \in Nat /\ k <= Len(bytes)
      /\ \A i \in 1..k : bytes[i] = Encode(n)[i]
  <2> HIDE DEF k
  <2> QED BY <1>1, ConcatProperties
<1>3. \A i \in 1..k : /\ bytes[i] < 128 <=> i = k
                      /\ bytes[i] % 128 = Groups[n][i]
  <2>1. \A i \in 1..k : /\ Encode(n)[i] < 128 <=> i = k
                        /\ Encode(n)[i] % 128 = Groups[n][i]
    BY EncodeIs
  <2> HIDE DEF bytes, k
  <2> QED BY ONLY <1>2, <2>1
<1> HIDE DEF bytes, k
<1>4. Span(bytes) = k
  <2> DEFINE I == {i \in 1..Len(bytes) : bytes[i] < 128}
  <2>1. k \in I /\ I \subseteq Nat /\ \A i \in I : i \in 1..k => i = k
    BY <1>1, <1>2, <1>3
  <2>2. Span(bytes) = IF I # {} THEN Min(I) ELSE 0
    BY DEF Span, SelectInSeq
  <2> HIDE DEF I
  <2>3. Min(I) \in I /\ \A i \in I : Min(I) <= i
    BY <2>1, MinIsLeast
  <2>4. Min(I) \in Nat /\ Min(I) # 0
    <3>1. 0 \notin I
      BY DEF I
    <3> QED BY <2>1, <2>3, <3>1
  <2> QED BY <1>1, <2>1, <2>2, <2>3, <2>4
<1>5. PICK f : DigitsOf(n, Groups[n], f)
  BY GroupsAreDigits
<1>6. f[0] = 0 /\ f[k] = n /\ \A i \in 1..k : f[i] = f[i - 1] * 128 + (bytes[i] % 128)
  BY <1>1, <1>3, <1>5 DEF DigitsOf
<1>7. Decode(bytes) = f[k]
  <2>1. /\ Span(bytes) \in Nat
        /\ \A i \in 1..Span(bytes) : f[i] = f[i - 1] * 128 + (bytes[i] % 128)
    BY <1>1, <1>4, <1>6
  <2> QED BY <1>4, <1>6, <2>1, DecodeIs
<1> QED BY <1>4, <1>6, <1>7 DEF bytes, k

-----------------------------------------------------------------------------
(* Numbers of a fixed number of octets. *)

(* What is in front of something is taken off.                             *)
LEMMA FrontAndRest ==
  ASSUME NEW S, NEW s \in Seq(S), NEW t \in Seq(S)
  PROVE  /\ SubSeq(s \o t, 1, Len(s)) = s
         /\ SubSeq(s \o t, Len(s) + 1, Len(s \o t)) = t
<1>1. Len(s) \in Nat /\ Len(t) \in Nat /\ Len(s \o t) = Len(s) + Len(t) /\ s \o t \in Seq(S)
  BY ConcatProperties
<1>2. SubSeq(s \o t, 1, Len(s)) = s
  <2>1. CASE Len(s) = 0
    <3>1. SubSeq(s \o t, 1, Len(s)) = <<>>
      BY <2>1, SubSeqEmpty
    <3> QED BY <2>1, <3>1
  <2>2. CASE Len(s) # 0
    <3>1. 1 \in 1..Len(s) /\ Len(s) \in 1..Len(s)
      BY <1>1, <2>2
    <3> QED BY <3>1, SubSeqOfConcat1, SubSeqFull
  <2> QED BY <2>1, <2>2
<1>3. SubSeq(s \o t, Len(s) + 1, Len(s \o t)) = t
  <2>1. CASE Len(t) = 0
    <3>1. SubSeq(s \o t, Len(s) + 1, Len(s \o t)) = <<>>
      BY <1>1, <2>1, SubSeqEmpty
    <3> QED BY <2>1, <3>1
  <2>2. CASE Len(t) # 0
    <3>1. /\ Len(s) + 1 \in Len(s) + 1 .. Len(s) + Len(t)
          /\ Len(s) + Len(t) \in Len(s) + 1 .. Len(s) + Len(t)
          /\ (Len(s) + 1) - Len(s) = 1 /\ (Len(s) + Len(t)) - Len(s) = Len(t)
      BY <1>1, <2>2
    <3>2. SubSeq(s \o t, Len(s) + 1, Len(s) + Len(t)) = SubSeq(t, 1, Len(t))
      BY <3>1, SubSeqOfConcat2
    <3> QED BY <1>1, <3>2, SubSeqFull
  <2> QED BY <2>1, <2>2
<1> QED BY <1>2, <1>3

(* Three sequences of octets one behind the other.                         *)
Together(s, t, u) == (s \o t) \o u = s \o (t \o u)

LEMMA OctetsTogether ==
  ASSUME NEW s \in Seq(Octet), NEW t \in Seq(Octet), NEW u \in Seq(Octet)
  PROVE  Together(s, t, u)
BY ConcatAssociative DEF Together

(* What begins with at least one octet begins with it.                     *)
LEMMA FirstOf ==
  ASSUME NEW s \in Seq(Octet), NEW t \in Seq(Octet), Len(s) >= 1
  PROVE  (s \o t)[1] = s[1]
<1>1. /\ Len(s) \in Nat /\ Len(t) \in Nat
      /\ \A i \in 1..(Len(s) + Len(t)) :
           (s \o t)[i] = IF i <= Len(s) THEN s[i] ELSE t[i - Len(s)]
  BY ConcatProperties, LenProperties
<1>2. 1 \in 1..(Len(s) + Len(t)) /\ 1 <= Len(s)
  BY <1>1
<1> QED BY <1>1, <1>2

LEMMA FunctionIsSequence ==
  ASSUME NEW S, NEW k \in Nat, NEW s \in [1..k -> S]
  PROVE  s \in Seq(S) /\ Len(s) = k
OBVIOUS

LEMMA Digit256 ==
  ASSUME NEW n \in Nat
  PROVE  /\ n \div 256 \in Nat /\ n % 256 \in Octet
         /\ n = (n \div 256) * 256 + (n % 256)
BY SMT DEF Octet

(* The octets are what is left of each division.                           *)
DividedUp(n, k, f) == f[0] = n /\ \A i \in 1..k : f[i] = f[i - 1] \div 256

LEMMA LittleEndianIs ==
  ASSUME NEW n, NEW k \in Nat, NEW f, DividedUp(n, k, f), \A i \in 0..k : f[i] \in Nat
  PROVE  /\ LittleEndian(n, k) \in [1..k -> Octet]
         /\ \A i \in 1..k : LittleEndian(n, k)[i] = f[i - 1] % 256
<1> DEFINE Is(h) == h = [i \in 0..k |-> IF i = 0 THEN n ELSE h[i - 1] \div 256]
           w == [i \in 0..k |-> f[i]]
           c == CHOOSE h : Is(h)
<1>1. Is(w)
  <2>1. \A i \in 0..k : w[i] = f[i]
    OBVIOUS
  <2>2. \A i \in 0..k : f[i] = IF i = 0 THEN n ELSE w[i - 1] \div 256
    <3>1. \A i \in 0..k : i = 0 \/ (i # 0 /\ i \in 1..k /\ i - 1 \in 0..k)
      OBVIOUS
    <3> HIDE DEF w
    <3> QED BY <2>1, <3>1 DEF DividedUp
  <2> QED BY <2>2
<1>2. Is(c)
  <2> HIDE DEF w, Is
  <2> QED BY <1>1
<1>3. LittleEndian(n, k) = [i \in 1..k |-> c[i - 1] % 256]
  BY DEF LittleEndian
<1> HIDE DEF c
<1>4. SameRecursion(k, f, c)
  <2>1. 0 \in 0..k /\ \A i \in 1..k : i \in 0..k /\ i # 0
    OBVIOUS
  <2>2. \A i \in 0..k : c[i] = IF i = 0 THEN n ELSE c[i - 1] \div 256
    BY <1>2
  <2> QED BY <2>1, <2>2 DEF SameRecursion, DividedUp
<1>5. \A i \in 0..k : f[i] = c[i]
  BY <1>4, RecursionAgrees
<1>6. \A i \in 1..k : f[i - 1] = c[i - 1]
  <2>1. \A i \in 1..k : i - 1 \in 0..k
    OBVIOUS
  <2> QED BY <1>5, <2>1
<1>7. \A i \in 1..k : f[i - 1] % 256 \in Octet
  <2>1. \A i \in 1..k : i - 1 \in 0..k
    OBVIOUS
  <2> QED BY <2>1, Digit256
<1> QED BY <1>3, <1>6, <1>7

(* The octets are added up, from the last.                                 *)
AddedUp(bytes, k, f) ==
  f[0] = 0 /\ \A i \in 1..k : f[i] = f[i - 1] * 256 + bytes[k + 1 - i]

LEMMA FromLittleEndianIs ==
  ASSUME NEW bytes, Len(bytes) \in Nat, NEW f, AddedUp(bytes, Len(bytes), f)
  PROVE  FromLittleEndian(bytes) = f[Len(bytes)]
<1> DEFINE n == Len(bytes)
           Is(h) == h = [i \in 0..n |-> IF i = 0 THEN 0 ELSE h[i - 1] * 256 + bytes[n + 1 - i]]
           w == [i \in 0..n |-> f[i]]
           c == CHOOSE h : Is(h)
<1>1. Is(w)
  <2>1. \A i \in 0..n : w[i] = f[i]
    OBVIOUS
  <2>2. \A i \in 0..n : f[i] = IF i = 0 THEN 0 ELSE w[i - 1] * 256 + bytes[n + 1 - i]
    <3>1. \A i \in 0..n : i = 0 \/ (i # 0 /\ i \in 1..n /\ i - 1 \in 0..n)
      OBVIOUS
    <3> HIDE DEF w, n
    <3> QED BY <2>1, <3>1 DEF n, AddedUp
  <2> QED BY <2>2
<1>2. Is(c)
  <2> HIDE DEF w, n, Is
  <2> QED BY <1>1
<1>3. FromLittleEndian(bytes) = c[n]
  BY DEF FromLittleEndian
<1> HIDE DEF c
<1>4. SameRecursion(n, f, c)
  <2>1. 0 \in 0..n /\ \A i \in 1..n : i \in 0..n /\ i # 0
    OBVIOUS
  <2>2. \A i \in 0..n : c[i] = IF i = 0 THEN 0 ELSE c[i - 1] * 256 + bytes[n + 1 - i]
    BY <1>2
  <2> QED BY <2>1, <2>2 DEF SameRecursion, AddedUp
<1>5. n \in 0..n
  OBVIOUS
<1> HIDE DEF n
<1> QED BY <1>3, <1>4, <1>5, RecursionAgrees DEF n

LEMMA OneOctetWritten ==
  ASSUME NEW n \in Octet
  PROVE  LittleEndian(n, 1) = <<n>> /\ FromLittleEndian(<<n>>) = n
<1>1. n \in Int /\ n % 256 = n
  BY SMT DEF Octet
<1>2. LittleEndian(n, 1) = <<n>>
  <2> DEFINE f == [i \in 0..1 |-> IF i = 0 THEN n ELSE n \div 256]
  <2>1. f[0] = n /\ \A i \in 1..1 : i = 1 /\ f[i] = f[i - 1] \div 256
    OBVIOUS
  <2> HIDE DEF f
  <2>2. DividedUp(n, 1, f)
    BY <2>1 DEF DividedUp
  <2>3. \A i \in 0..1 : f[i] \in Nat
    <3>1. n \in Nat /\ n \div 256 \in Nat
      BY Digit256 DEF Octet
    <3> QED BY <2>1, <3>1
  <2> DEFINE k == 1
             e == LittleEndian(n, k)
  <2>4. k \in Nat /\ DividedUp(n, k, f) /\ \A i \in 0..k : f[i] \in Nat
    BY <2>2, <2>3
  <2> HIDE DEF k
  <2>5. e \in [1..k -> Octet] /\ \A i \in 1..k : e[i] = f[i - 1] % 256
    BY <2>4, LittleEndianIs
  <2> HIDE DEF e
  <2>6. e \in Seq(Octet) /\ Len(e) = 1 /\ e[1] = n
    <3>1. e \in Seq(Octet) /\ Len(e) = k
      BY <2>4, <2>5, FunctionIsSequence
    <3> QED BY <1>1, <2>1, <2>5, <3>1 DEF k
  <2>7. e = <<n>>
    BY <2>6
  <2> QED BY <2>7 DEF e, k
<1>3. FromLittleEndian(<<n>>) = n
  <2> DEFINE f == [i \in 0..1 |-> IF i = 0 THEN 0 ELSE n]
             b == <<n>>
  <2>1. Len(b) = 1 /\ b[1] = n
    OBVIOUS
  <2>2. f[0] = 0 /\ f[1] = n
    OBVIOUS
  <2> HIDE DEF b, f
  <2>3. \A i \in 1..Len(b) : i = 1 /\ i - 1 = 0 /\ Len(b) + 1 - i = 1
    BY <2>1
  <2>4. \A i \in 1..Len(b) : f[i] = f[i - 1] * 256 + b[Len(b) + 1 - i]
    BY <1>1, <2>1, <2>2, <2>3
  <2>5. FromLittleEndian(b) = f[Len(b)]
    <3>1. AddedUp(b, Len(b), f)
      BY <2>2, <2>4 DEF AddedUp
    <3>2. Len(b) \in Nat
      BY <2>1
    <3> QED BY ONLY <3>1, <3>2, FromLittleEndianIs
  <2> QED BY <2>1, <2>2, <2>5 DEF b
<1> QED BY <1>2, <1>3

(* The numbers of 32 bits. *)
Word32 == {n \in Nat : n \div 65536 < 65536}

LEMMA FourDigits ==
  ASSUME NEW n \in Word32
  PROVE  ((n \div 256) \div 256) \div 256 \in Octet
<1>1. n \in Nat /\ n \div 65536 < 65536
  BY DEF Word32
<1>2. (((n \div 256) \div 256) \div 256) < 256 /\ (((n \div 256) \div 256) \div 256) \in Nat
  BY <1>1, SMT
<1> QED BY <1>2 DEF Octet

LEMMA FourOctetsWritten ==
  ASSUME NEW n \in Word32
  PROVE  /\ LittleEndian(n, 4) \in Seq(Octet) /\ Len(LittleEndian(n, 4)) = 4
         /\ FromLittleEndian(LittleEndian(n, 4)) = n
<1> DEFINE n1 == n \div 256
           n2 == n1 \div 256
           n3 == n2 \div 256
           e == LittleEndian(n, 4)
<1>1. n \in Nat
  BY DEF Word32
<1>2. /\ n1 \in Nat /\ n2 \in Nat /\ n3 \in Octet
      /\ n % 256 \in Octet /\ n1 % 256 \in Octet /\ n2 % 256 \in Octet
      /\ n = n1 * 256 + (n % 256) /\ n1 = n2 * 256 + (n1 % 256) /\ n2 = n3 * 256 + (n2 % 256)
  BY <1>1, Digit256, FourDigits
<1>3. n3 % 256 = n3 /\ n3 \in Nat
  <2>1. \A x \in Octet : x % 256 = x /\ x \in Nat
    BY SMT DEF Octet
  <2> QED BY <1>2, <2>1
<1>4. /\ e \in [1..4 -> Octet]
      /\ e[1] = n % 256 /\ e[2] = n1 % 256 /\ e[3] = n2 % 256 /\ e[4] = n3
  <2> DEFINE f == [i \in 0..4 |-> IF i = 0 THEN n ELSE IF i = 1 THEN n1 ELSE IF i = 2 THEN n2
                                  ELSE IF i = 3 THEN n3 ELSE n3 \div 256]
  <2>1. f[0] = n /\ f[1] = n1 /\ f[2] = n2 /\ f[3] = n3 /\ f[4] = n3 \div 256
    OBVIOUS
  <2> HIDE DEF f
  <2>2. \A i \in 1..4 : \/ i = 1 /\ i - 1 = 0
                        \/ i = 2 /\ i - 1 = 1
                        \/ i = 3 /\ i - 1 = 2
                        \/ i = 4 /\ i - 1 = 3
    OBVIOUS
  <2>3. \A i \in 1..4 : f[i] = f[i - 1] \div 256
    BY <2>1, <2>2
  <2>4. DividedUp(n, 4, f)
    BY <2>1, <2>3 DEF DividedUp
  <2>5. \A i \in 0..4 : f[i] \in Nat
    <3>1. n3 \div 256 \in Nat
      BY <1>3, Digit256
    <3>2. \A i \in 0..4 : i = 0 \/ i = 1 \/ i = 2 \/ i = 3 \/ i = 4
      OBVIOUS
    <3> HIDE DEF n1, n2, n3
    <3> QED BY <1>1, <1>2, <1>3, <2>1, <3>1, <3>2
  <2> DEFINE k == 4
  <2>6. /\ k \in Nat /\ DividedUp(n, k, f) /\ \A i \in 0..k : f[i] \in Nat
        /\ e = LittleEndian(n, k)
    BY <2>4, <2>5
  <2> HIDE DEF k, n1, n2, n3, e
  <2>7. e \in [1..k -> Octet] /\ \A i \in 1..k : e[i] = f[i - 1] % 256
    BY <2>6, LittleEndianIs
  <2>8. e[1] = n % 256 /\ e[2] = n1 % 256 /\ e[3] = n2 % 256 /\ e[4] = n3
    BY <1>3, <2>1, <2>2, <2>7 DEF k
  <2> QED BY <2>7, <2>8 DEF k
<1> HIDE DEF e, n1, n2, n3
<1>5. e \in Seq(Octet) /\ Len(e) = 4
  <2> DEFINE k == 4
  <2>1. k \in Nat /\ e \in [1..k -> Octet]
    BY <1>4
  <2> HIDE DEF k
  <2>2. e \in Seq(Octet) /\ Len(e) = k
    BY <2>1, FunctionIsSequence
  <2> QED BY <2>2 DEF k
<1>6. FromLittleEndian(e) = n
  <2> DEFINE f == [i \in 0..4 |-> IF i = 0 THEN 0 ELSE IF i = 1 THEN n3 ELSE IF i = 2 THEN n2
                                  ELSE IF i = 3 THEN n1 ELSE n]
  <2>1. f[0] = 0 /\ f[1] = n3 /\ f[2] = n2 /\ f[3] = n1 /\ f[4] = n
    OBVIOUS
  <2> HIDE DEF f
  <2>2. \A i \in 1..4 : \/ i = 1 /\ i - 1 = 0 /\ 4 + 1 - i = 4
                        \/ i = 2 /\ i - 1 = 1 /\ 4 + 1 - i = 3
                        \/ i = 3 /\ i - 1 = 2 /\ 4 + 1 - i = 2
                        \/ i = 4 /\ i - 1 = 3 /\ 4 + 1 - i = 1
    OBVIOUS
  <2>3. n3 = 0 * 256 + n3
    BY <1>3
  <2>4. \A i \in 1..4 : f[i] = f[i - 1] * 256 + e[4 + 1 - i]
    BY <1>2, <1>4, <2>1, <2>2, <2>3
  <2>5. FromLittleEndian(e) = f[Len(e)]
    <3>1. AddedUp(e, Len(e), f)
      BY <1>5, <2>1, <2>4 DEF AddedUp
    <3>2. Len(e) \in Nat
      BY <1>5
    <3> QED BY ONLY <3>1, <3>2, FromLittleEndianIs
  <2> QED BY <1>5, <2>1, <2>5
<1> QED BY <1>5, <1>6 DEF e

-----------------------------------------------------------------------------
(* Fields: those that the headers of a bundle are made of. *)

Field == ({"sdnv"} \X Nat) \cup ({"u8"} \X Octet) \cup ({"u32"} \X Word32)

FieldSize(f) ==
  IF f[1] = "sdnv" THEN EncodingLength(f[2]) ELSE IF f[1] = "u8" THEN 1 ELSE 4

(* A field is read back, whatever is behind it.                            *)
FieldRead(f, behind) ==
  /\ Write(f) \in Seq(Octet) /\ Len(Write(f)) = FieldSize(f) /\ f[2] \in Nat
  /\ Takes(f[1], Write(f) \o behind) = FieldSize(f)
  /\ ValueOf(f[1], Write(f) \o behind) = f[2]

LEMMA SdnvFieldIsRead ==
  ASSUME NEW n \in Nat, NEW behind \in Seq(Octet)
  PROVE  FieldRead(<<"sdnv", n>>, behind)
<1> DEFINE f == <<"sdnv", n>>
<1>1. f[1] = "sdnv" /\ f[2] = n
  OBVIOUS
<1> HIDE DEF f
<1>2. Write(f) = Encode(n)
  BY <1>1 DEF Write
<1>3. /\ Encode(n) \in Seq(Octet) /\ Len(Encode(n)) = EncodingLength(n)
      /\ Span(Encode(n) \o behind) = EncodingLength(n) /\ Decode(Encode(n) \o behind) = n
  BY EncodeIs, SdnvIsRead
<1>4. /\ Takes(f[1], Encode(n) \o behind) = Span(Encode(n) \o behind)
      /\ ValueOf(f[1], Encode(n) \o behind) = Decode(Encode(n) \o behind)
      /\ FieldSize(f) = EncodingLength(n)
  BY <1>1 DEF Takes, ValueOf, FieldSize
<1> QED BY <1>1, <1>2, <1>3, <1>4 DEF FieldRead, f

LEMMA OctetFieldIsRead ==
  ASSUME NEW n \in Octet, NEW behind \in Seq(Octet)
  PROVE  FieldRead(<<"u8", n>>, behind)
<1> DEFINE f == <<"u8", n>>
           e == <<n>>
<1>1. f[1] = "u8" /\ f[2] = n
  OBVIOUS
<1> HIDE DEF f
<1>2. LittleEndian(n, 1) = e /\ FromLittleEndian(e) = n
  BY OneOctetWritten
<1>3. Write(f) = LittleEndian(n, 1)
  BY <1>1 DEF Write, Wide
<1>4. e \in Seq(Octet) /\ Len(e) = 1
  OBVIOUS
<1> HIDE DEF e
<1>5. SubSeq(e \o behind, 1, 1) = e
  BY <1>4, FrontAndRest
<1>6. /\ Takes(f[1], e \o behind) = 1 /\ FieldSize(f) = 1
      /\ ValueOf(f[1], e \o behind) = FromLittleEndian(SubSeq(e \o behind, 1, 1))
  BY <1>1 DEF Takes, ValueOf, FieldSize, Wide
<1>7. n \in Nat
  BY DEF Octet
<1> QED BY <1>1, <1>2, <1>3, <1>4, <1>5, <1>6, <1>7 DEF FieldRead, f

LEMMA WordFieldIsRead ==
  ASSUME NEW n \in Word32, NEW behind \in Seq(Octet)
  PROVE  FieldRead(<<"u32", n>>, behind)
<1> DEFINE f == <<"u32", n>>
           e == LittleEndian(n, 4)
<1>1. f[1] = "u32" /\ f[2] = n
  OBVIOUS
<1> HIDE DEF f
<1>2. e \in Seq(Octet) /\ Len(e) = 4 /\ FromLittleEndian(e) = n
  BY FourOctetsWritten
<1>3. Write(f) = e
  BY <1>1 DEF Write, Wide
<1> HIDE DEF e
<1>4. SubSeq(e \o behind, 1, 4) = e
  BY <1>2, FrontAndRest
<1>5. /\ Takes(f[1], e \o behind) = 4 /\ FieldSize(f) = 4
      /\ ValueOf(f[1], e \o behind) = FromLittleEndian(SubSeq(e \o behind, 1, 4))
  BY <1>1 DEF Takes, ValueOf, FieldSize, Wide
<1>6. n \in Nat
  BY DEF Word32
<1> QED BY <1>1, <1>2, <1>3, <1>4, <1>5, <1>6 DEF FieldRead, f

LEMMA FieldIsRead ==
  ASSUME NEW f \in Field, NEW behind \in Seq(Octet)
  PROVE  FieldRead(f, behind)
<1>1. \/ \E n \in Nat : f = <<"sdnv", n>>
      \/ \E n \in Octet : f = <<"u8", n>>
      \/ \E n \in Word32 : f = <<"u32", n>>
  BY DEF Field
<1> QED BY <1>1, SdnvFieldIsRead, OctetFieldIsRead, WordFieldIsRead

LEMMA FieldWritten ==
  ASSUME NEW f \in Field
  PROVE  Write(f) \in Seq(Octet) /\ Len(Write(f)) = FieldSize(f) /\ f[2] \in Nat
<1>1. <<>> \in Seq(Octet)
  OBVIOUS
<1> QED BY <1>1, FieldIsRead DEF FieldRead

(* A reader, and what it has and has left behind the next field.           *)
ReaderWith(got, left) == [got |-> got, left |-> left]

LEMMA NextIsRead ==
  ASSUME NEW f \in Field, NEW behind \in Seq(Octet), NEW got
  PROVE  Next1(ReaderWith(got, Write(f) \o behind), f[1])
           = ReaderWith(Append(got, f[2]), behind)
<1> DEFINE bytes == Write(f) \o behind
           r == ReaderWith(got, bytes)
           k == Takes(f[1], bytes)
           v == ValueOf(f[1], bytes)
<1>1. Write(f) \in Seq(Octet) /\ k = Len(Write(f)) /\ v = f[2]
  BY FieldIsRead DEF FieldRead
<1>2. SubSeq(bytes, k + 1, Len(bytes)) = behind
  BY <1>1, FrontAndRest
<1>3. r.got = got /\ r.left = bytes
  BY DEF ReaderWith
<1>4. Next1(r, f[1]) = [Skip(r, k) EXCEPT !.got = Append(got, v)]
  BY <1>3 DEF Next1
<1>5. Skip(r, k) = [r EXCEPT !.left = SubSeq(bytes, k + 1, Len(bytes))]
  BY <1>3 DEF Skip
<1> HIDE DEF bytes, k, v
<1>6. Skip(r, k) = ReaderWith(got, behind)
  BY <1>2, <1>5 DEF ReaderWith
<1>7. Next1(r, f[1]) = ReaderWith(Append(got, v), behind)
  <2> DEFINE skipped == Skip(r, k)
             more == Append(got, v)
             next == Next1(r, f[1])
  <2>1. skipped = ReaderWith(got, behind) /\ next = [skipped EXCEPT !.got = more]
    BY <1>4, <1>6
  <2> HIDE DEF skipped, more, next
  <2>2. next = ReaderWith(more, behind)
    BY ONLY <2>1 DEF ReaderWith
  <2> QED BY <2>2 DEF next, more
<1> QED BY <1>1, <1>7 DEF bytes

-----------------------------------------------------------------------------
(* Lists of fields. *)

WrittenUp(fields, n, f) ==
  f[0] = <<>> /\ \A i \in 1..n : f[i] = f[i - 1] \o Write(fields[i])

LEMMA WriteAllIs ==
  ASSUME NEW fields, Len(fields) \in Nat, NEW f, WrittenUp(fields, Len(fields), f)
  PROVE  WriteAll(fields) = f[Len(fields)]
<1> DEFINE n == Len(fields)
           Is(h) == h = [i \in 0..n |-> IF i = 0 THEN <<>> ELSE h[i - 1] \o Write(fields[i])]
           w == [i \in 0..n |-> f[i]]
           c == CHOOSE h : Is(h)
<1>1. Is(w)
  <2>1. \A i \in 0..n : w[i] = f[i]
    OBVIOUS
  <2>2. \A i \in 0..n : f[i] = IF i = 0 THEN <<>> ELSE w[i - 1] \o Write(fields[i])
    <3>1. \A i \in 0..n : i = 0 \/ (i # 0 /\ i \in 1..n /\ i - 1 \in 0..n)
      OBVIOUS
    <3> HIDE DEF w, n
    <3> QED BY <2>1, <3>1 DEF n, WrittenUp
  <2> QED BY <2>2
<1>2. Is(c)
  <2> HIDE DEF w, n, Is
  <2> QED BY <1>1
<1>3. WriteAll(fields) = c[n]
  BY DEF WriteAll
<1> HIDE DEF c
<1>4. SameRecursion(n, f, c)
  <2>1. 0 \in 0..n /\ \A i \in 1..n : i \in 0..n /\ i # 0
    OBVIOUS
  <2>2. \A i \in 0..n : c[i] = IF i = 0 THEN <<>> ELSE c[i - 1] \o Write(fields[i])
    BY <1>2
  <2> HIDE DEF n
  <2>3. WrittenUp(fields, n, f)
    BY DEF n
  <2> QED BY <2>1, <2>2, <2>3 DEF SameRecursion, WrittenUp
<1>5. n \in 0..n
  OBVIOUS
<1> HIDE DEF n
<1> QED BY <1>3, <1>4, <1>5, RecursionAgrees DEF n

LEMMA WrittenExists ==
  ASSUME NEW fields \in Seq(Field)
  PROVE  \E f \in [0..Len(fields) -> Seq(Octet)] : WrittenUp(fields, Len(fields), f)
<1> DEFINE n == Len(fields)
           S == Seq(Octet)
           step == [x \in (1..n) \X S |-> x[2] \o Write(fields[x[1]])]
<1>1. n \in Nat /\ <<>> \in S
  OBVIOUS
<1>2. \A i \in 1..n : fields[i] \in Field
  OBVIOUS
<1>3. \A i \in 1..n : \A s \in S : s \o Write(fields[i]) \in S
  BY <1>2, FieldWritten, ConcatProperties
<1> HIDE DEF n, S
<1>4. step \in [(1..n) \X S -> S]
  BY <1>3
<1>5. \A i \in 1..n : \A s \in S : step[<<i, s>>] = s \o Write(fields[i])
  OBVIOUS
<1> HIDE DEF step
<1> DEFINE base == <<>>
<1>6. PICK f \in [0..n -> S] : Steps(n, base, step, f)
  <2>1. base \in S
    BY <1>1
  <2> HIDE DEF base
  <2> QED BY <1>1, <1>4, <2>1, RecursionExists
<1>7. ASSUME NEW i \in 1..n PROVE f[i] = f[i - 1] \o Write(fields[i])
  <2>1. i - 1 \in 0..n
    BY <1>1
  <2> QED BY <1>5, <1>6, <2>1 DEF Steps
<1> QED BY <1>6, <1>7 DEF Steps, WrittenUp, n, S

LEMMA WriteAllType ==
  ASSUME NEW fields \in Seq(Field)
  PROVE  WriteAll(fields) \in Seq(Octet)
<1>1. PICK f \in [0..Len(fields) -> Seq(Octet)] : WrittenUp(fields, Len(fields), f)
  BY WrittenExists
<1>2. Len(fields) \in Nat /\ Len(fields) \in 0..Len(fields)
  OBVIOUS
<1> QED BY <1>1, <1>2, WriteAllIs

LEMMA WriteAllOne ==
  ASSUME NEW x \in Field
  PROVE  WriteAll(<<>>) = <<>> /\ WriteAll(<<x>>) = Write(x)
<1>1. WriteAll(<<>>) = <<>>
  <2> DEFINE fs == <<>>
             f == [i \in 0..0 |-> <<>>]
  <2>1. Len(fs) = 0 /\ f[0] = <<>>
    OBVIOUS
  <2> HIDE DEF fs, f
  <2>2. Len(fs) \in Nat /\ WrittenUp(fs, Len(fs), f)
    BY <2>1 DEF WrittenUp
  <2>3. WriteAll(fs) = f[Len(fs)]
    BY <2>2, WriteAllIs
  <2> QED BY <2>1, <2>3 DEF fs
<1>2. WriteAll(<<x>>) = Write(x)
  <2> DEFINE fs == <<x>>
             f == [i \in 0..1 |-> IF i = 0 THEN <<>> ELSE Write(x)]
  <2>1. Len(fs) = 1 /\ fs[1] = x /\ f[0] = <<>> /\ f[1] = Write(x)
    OBVIOUS
  <2> HIDE DEF fs, f
  <2>2. <<>> \o Write(x) = Write(x)
    BY FieldWritten, ConcatEmptySeq
  <2>3. \A i \in 1..1 : i = 1 /\ i - 1 = 0
    OBVIOUS
  <2>4. f[1] = f[0] \o Write(fs[1])
    BY <2>1, <2>2
  <2>5. WrittenUp(fs, 1, f)
    BY <2>1, <2>3, <2>4 DEF WrittenUp
  <2>6. WriteAll(fs) = f[Len(fs)]
    <3>1. Len(fs) \in Nat /\ WrittenUp(fs, Len(fs), f)
      BY <2>1, <2>5
    <3> QED BY ONLY <3>1, WriteAllIs
  <2> QED BY <2>1, <2>6 DEF fs
<1> QED BY <1>1, <1>2

(* One list behind another.                                                *)
LEMMA WriteAllConcat ==
  ASSUME NEW fs \in Seq(Field), NEW gs \in Seq(Field)
  PROVE  WriteAll(fs \o gs) = WriteAll(fs) \o WriteAll(gs)
<1> DEFINE m == Len(fs)
           n == Len(gs)
           all == fs \o gs
           w == WriteAll(fs)
<1>1. /\ m \in Nat /\ n \in Nat /\ Len(all) = m + n
      /\ \A i \in 1..m : all[i] = fs[i]
      /\ \A i \in 1..n : all[m + i] = gs[i] /\ gs[i] \in Field
  <2>1. /\ Len(all) = m + n /\ m \in Nat /\ n \in Nat
        /\ \A i \in 1..(m + n) : all[i] = IF i <= m THEN fs[i] ELSE gs[i - m]
    BY ConcatProperties
  <2>2. \A i \in 1..n : gs[i] \in Field
    OBVIOUS
  <2> HIDE DEF all, m, n
  <2>3. \A i \in 1..m : i \in 1..(m + n) /\ i <= m
    BY <2>1
  <2>4. \A i \in 1..n : m + i \in 1..(m + n) /\ ~(m + i <= m) /\ (m + i) - m = i
    BY <2>1
  <2> QED BY <2>1, <2>2, <2>3, <2>4
<1>2. PICK f \in [0..m -> Seq(Octet)] : WrittenUp(fs, m, f)
  BY WrittenExists
<1>3. PICK g \in [0..n -> Seq(Octet)] : WrittenUp(gs, n, g)
  BY WrittenExists
<1>4. w = f[m] /\ w \in Seq(Octet) /\ WriteAll(gs) = g[n]
  BY <1>1, <1>2, <1>3, WriteAllIs, WriteAllType
<1> HIDE DEF m, n, all, w
<1> DEFINE h == [i \in 0..(m + n) |-> IF i <= m THEN f[i] ELSE w \o g[i - m]]
<1>5. \A i \in 0..m : h[i] = f[i]
  BY <1>1
<1>6. \A i \in 0..n : h[m + i] = w \o g[i]
  <2>1. ASSUME NEW i \in 1..n PROVE h[m + i] = w \o g[i]
    <3>1. m + i \in 0..(m + n) /\ ~(m + i <= m) /\ (m + i) - m = i
      BY <1>1
    <3> QED BY <3>1
  <2>2. h[m + 0] = w \o g[0]
    <3>1. w \o <<>> = w
      BY <1>4, ConcatEmptySeq
    <3>2. m + 0 = m /\ m \in 0..m
      BY <1>1
    <3>3. g[0] = <<>>
      BY <1>3 DEF WrittenUp
    <3> HIDE DEF h
    <3> QED BY <1>4, <1>5, <3>1, <3>2, <3>3
  <2>3. \A i \in 0..n : i = 0 \/ i \in 1..n
    BY <1>1
  <2> HIDE DEF h
  <2> QED BY <2>1, <2>2, <2>3
<1> HIDE DEF h
<1>7. h[0] = <<>>
  <2>1. 0 \in 0..m
    BY <1>1
  <2> QED BY <1>2, <1>5, <2>1 DEF WrittenUp
<1>8. ASSUME NEW i \in 1..m PROVE h[i] = h[i - 1] \o Write(all[i])
  <2>1. i \in 0..m /\ i - 1 \in 0..m
    BY <1>1
  <2> QED BY <1>1, <1>2, <1>5, <2>1 DEF WrittenUp
<1>9. ASSUME NEW i \in 1..n PROVE h[m + i] = h[(m + i) - 1] \o Write(all[m + i])
  <2>1. i \in 0..n /\ i - 1 \in 0..n /\ (m + i) - 1 = m + (i - 1)
    BY <1>1
  <2>2. g[i] = g[i - 1] \o Write(gs[i])
    BY <1>3 DEF WrittenUp
  <2>3. g[i - 1] \in Seq(Octet) /\ Write(gs[i]) \in Seq(Octet)
    BY <1>1, <1>3, <2>1, FieldWritten
  <2>4. w \o g[i] = (w \o g[i - 1]) \o Write(gs[i])
    <3> DEFINE a == g[i - 1]
               b == Write(gs[i])
    <3>1. a \in Seq(Octet) /\ b \in Seq(Octet) /\ w \in Seq(Octet)
      BY <1>4, <2>3
    <3>2. g[i] = a \o b
      BY <2>2
    <3> HIDE DEF a, b
    <3>3. Together(w, a, b)
      BY ONLY <3>1, OctetsTogether
    <3> QED BY <3>2, <3>3 DEF a, b, Together
  <2>5. h[m + i] = w \o g[i] /\ h[m + (i - 1)] = w \o g[i - 1]
    BY <1>6, <2>1
  <2> QED BY <1>1, <2>1, <2>4, <2>5
<1>10. \A i \in 1..(m + n) : i \in 1..m \/ (i - m \in 1..n /\ i = m + (i - m))
  BY <1>1
<1>11. WrittenUp(all, Len(all), h)
  <2>1. ASSUME NEW i \in 1..(m + n) PROVE h[i] = h[i - 1] \o Write(all[i])
    <3>1. CASE i \in 1..m
      BY <1>8, <3>1
    <3>2. ASSUME i - m \in 1..n, i = m + (i - m) PROVE h[i] = h[i - 1] \o Write(all[i])
      <4> DEFINE j == i - m
      <4>1. j \in 1..n /\ i = m + j
        BY <3>2
      <4> HIDE DEF j
      <4> QED BY <1>9, <4>1
    <3> QED BY <1>10, <3>1, <3>2
  <2> QED BY <1>1, <1>7, <2>1 DEF WrittenUp
<1>12. WriteAll(all) = h[m + n]
  <2>1. Len(all) \in Nat
    BY <1>1
  <2> QED BY <1>1, <1>11, <2>1, WriteAllIs
<1>13. n \in 0..n
  BY <1>1
<1> QED BY <1>4, <1>6, <1>12, <1>13 DEF all, w

ReadUp(r, types, n, f) ==
  f[0] = r /\ \A i \in 1..n : f[i] = Next1(f[i - 1], types[i])

LEMMA ReadAllIs ==
  ASSUME NEW r, NEW types, Len(types) \in Nat, NEW f, ReadUp(r, types, Len(types), f)
  PROVE  ReadAll(r, types) = f[Len(types)]
<1> DEFINE n == Len(types)
           Is(h) == h = [i \in 0..n |-> IF i = 0 THEN r ELSE Next1(h[i - 1], types[i])]
           w == [i \in 0..n |-> f[i]]
           c == CHOOSE h : Is(h)
<1>1. Is(w)
  <2>1. \A i \in 0..n : w[i] = f[i]
    OBVIOUS
  <2>2. \A i \in 0..n : f[i] = IF i = 0 THEN r ELSE Next1(w[i - 1], types[i])
    <3>1. \A i \in 0..n : i = 0 \/ (i # 0 /\ i \in 1..n /\ i - 1 \in 0..n)
      OBVIOUS
    <3> HIDE DEF w, n
    <3> QED BY <2>1, <3>1 DEF n, ReadUp
  <2> QED BY <2>2
<1>2. Is(c)
  <2> HIDE DEF w, n, Is
  <2> QED BY <1>1
<1>3. ReadAll(r, types) = c[n]
  BY DEF ReadAll
<1> HIDE DEF c
<1>4. SameRecursion(n, f, c)
  <2>1. 0 \in 0..n /\ \A i \in 1..n : i \in 0..n /\ i # 0
    OBVIOUS
  <2>2. \A i \in 0..n : c[i] = IF i = 0 THEN r ELSE Next1(c[i - 1], types[i])
    BY <1>2
  <2> HIDE DEF n
  <2>3. ReadUp(r, types, n, f)
    BY DEF n
  <2> QED BY <2>1, <2>2, <2>3 DEF SameRecursion, ReadUp
<1>5. n \in 0..n
  OBVIOUS
<1> HIDE DEF n
<1> QED BY <1>3, <1>4, <1>5, RecursionAgrees DEF n

TypesOf(fields) == [i \in 1..Len(fields) |-> fields[i][1]]

ValuesOf(fields) == [i \in 1..Len(fields) |-> fields[i][2]]

LEMMA ValuesAreNumbers ==
  ASSUME NEW fields \in Seq(Field)
  PROVE  ValuesOf(fields) \in Seq(Nat) /\ Len(ValuesOf(fields)) = Len(fields)
<1>1. Len(fields) \in Nat /\ \A i \in 1..Len(fields) : fields[i] \in Field
  BY SequenceHas
<1>2. ValuesOf(fields) \in [1..Len(fields) -> Nat]
  BY <1>1, FieldWritten DEF ValuesOf
<1> QED BY <1>1, <1>2, FunctionIsSequence

(* A list of fields is read back, whatever is behind it.                   *)
LEMMA ReadAllReads ==
  ASSUME NEW fs \in Seq(Field), NEW behind \in Seq(Octet), NEW got \in Seq(Nat)
  PROVE  ReadAll(ReaderWith(got, WriteAll(fs) \o behind), TypesOf(fs))
           = ReaderWith(got \o ValuesOf(fs), behind)
<1> DEFINE n == Len(fs)
           v == ValuesOf(fs)
           t == TypesOf(fs)
           begin == ReaderWith(got, WriteAll(fs) \o behind)
           have(i) == got \o SubSeq(v, 1, i)
           left(i) == WriteAll(SubSeq(fs, i + 1, n)) \o behind
           f == [i \in 0..n |-> ReaderWith(have(i), left(i))]
<1>1. n \in Nat /\ \A i \in 1..n : fs[i] \in Field
  BY SequenceHas
<1>2. v \in Seq(Nat) /\ Len(v) = n /\ \A i \in 1..n : v[i] = fs[i][2]
  <2>1. \A i \in 1..n : v[i] = fs[i][2]
    BY DEF ValuesOf
  <2> QED BY <2>1, ValuesAreNumbers
<1>3. t = [i \in 1..n |-> fs[i][1]] /\ Len(t) = n /\ \A i \in 1..n : t[i] = fs[i][1]
  <2>1. t = [i \in 1..n |-> fs[i][1]]
    BY DEF TypesOf
  <2> HIDE DEF n, t
  <2> QED BY <1>1, <2>1
<1>4. \A i \in 0..n : f[i] = ReaderWith(have(i), left(i))
  OBVIOUS
<1> HIDE DEF n, v, t, f
<1>5. f[0] = begin
  <2>1. SubSeq(v, 1, 0) = <<>> /\ SubSeq(fs, 0 + 1, n) = fs
    BY SubSeqEmpty, SubSeqFull DEF n
  <2>2. have(0) = got
    BY <2>1, ConcatEmptySeq
  <2>3. left(0) = WriteAll(fs) \o behind
    BY <2>1
  <2>4. 0 \in 0..n
    BY <1>1
  <2> HIDE DEF have, left
  <2> QED BY <1>4, <2>2, <2>3, <2>4
<1>6. ASSUME NEW i \in 1..n PROVE f[i] = Next1(f[i - 1], t[i])
  <2>1. i \in 0..n /\ i - 1 \in 0..n /\ (i - 1) + 1 = i /\ i \in i..n /\ i \in Int
    BY <1>1
  <2> DEFINE rest == SubSeq(fs, i + 1, n)
             x == fs[i]
  <2>2. x \in Field /\ rest \in Seq(Field) /\ SubSeq(fs, i, n) = <<x>> \o rest
    <3>1. n \in i..n /\ i \in 1..Len(fs) /\ n \in i..Len(fs)
      BY <1>1 DEF n
    <3>2. \A j \in i + 1 .. n : fs[j] \in Field
      BY <1>1, <2>1
    <3>3. i + 1 \in Int /\ n \in Int
      BY <1>1, <2>1
    <3>4. rest \in Seq(Field)
      BY <3>2, <3>3, SubSeqProperties
    <3>5. SubSeq(fs, i, n) = <<x>> \o rest
      BY <3>1, SubSeqRecursiveFirst
    <3> QED BY <1>1, <3>4, <3>5
  <2> HIDE DEF rest, x
  <2>3. left(i - 1) = Write(x) \o left(i)
    <3>1. WriteAll(<<x>> \o rest) = Write(x) \o WriteAll(rest)
      <4>1. <<x>> \in Seq(Field) /\ WriteAll(<<x>>) = Write(x)
        BY <2>2, WriteAllOne
      <4> QED BY <2>2, <4>1, WriteAllConcat
    <3> DEFINE a == Write(x)
               b == WriteAll(rest)
    <3>2. a \in Seq(Octet) /\ b \in Seq(Octet)
      BY <2>2, FieldWritten, WriteAllType
    <3>3. left(i - 1) = (a \o b) \o behind
      BY <2>1, <2>2, <3>1
    <3>4. left(i) = b \o behind
      BY DEF rest
    <3> HIDE DEF a, b, left
    <3>5. Together(a, b, behind)
      BY ONLY <3>2, behind \in Seq(Octet), OctetsTogether
    <3> QED BY <3>3, <3>4, <3>5 DEF a, Together
  <2>4. have(i) = Append(have(i - 1), x[2])
    <3> DEFINE a == SubSeq(v, 1, i - 1)
               b == x[2]
    <3>1. b = v[i] /\ b \in Nat
      BY <1>2, <2>2, FieldWritten DEF x
    <3>2. SubSeq(v, 1, i) = a \o <<b>>
      <4>1. 1 \in 1..Len(v) /\ i \in 1..Len(v)
        BY <1>1, <1>2
      <4> HIDE DEF b
      <4> QED BY <1>2, <3>1, <4>1, SubSeqRecursiveSecond
    <3>3. a \in Seq(Nat)
      <4>1. \A j \in 1 .. i - 1 : v[j] \in Nat
        BY <1>1, <1>2
      <4>2. 1 \in Int /\ i - 1 \in Int
        BY <2>1
      <4> QED BY <4>1, <4>2, SubSeqProperties
    <3> HIDE DEF a, b
    <3>4. got \o a \in Seq(Nat) /\ <<b>> \in Seq(Nat)
      BY <3>1, <3>3, ConcatProperties
    <3>5. Append(got \o a, b) = (got \o a) \o <<b>>
      BY <3>1, <3>4, AppendIsConcat
    <3>6. (got \o a) \o <<b>> = got \o (a \o <<b>>)
      BY ONLY <3>3, <3>4, got \in Seq(Nat), ConcatAssociative
    <3> QED BY <3>2, <3>5, <3>6 DEF a, b
  <2>5. left(i) \in Seq(Octet)
    <3>1. WriteAll(rest) \in Seq(Octet)
      BY <2>2, WriteAllType
    <3> QED BY <3>1, ConcatProperties DEF rest
  <2> HIDE DEF left, have
  <2>6. Next1(ReaderWith(have(i - 1), Write(x) \o left(i)), x[1])
          = ReaderWith(Append(have(i - 1), x[2]), left(i))
    BY <2>2, <2>5, NextIsRead
  <2>7. t[i] = x[1]
    BY <1>3 DEF x
  <2> QED BY <1>4, <2>1, <2>3, <2>4, <2>6, <2>7
<1>7. Len(t) \in Nat /\ ReadUp(begin, t, Len(t), f)
  <2> HIDE DEF begin
  <2> QED BY <1>1, <1>3, <1>5, <1>6 DEF ReadUp
<1>8. ReadAll(begin, t) = f[n]
  <2> HIDE DEF begin
  <2>1. ReadAll(begin, t) = f[Len(t)]
    BY ONLY <1>7, ReadAllIs
  <2> QED BY <1>3, <2>1
<1>9. have(n) = got \o v /\ left(n) = behind
  <2>1. SubSeq(v, 1, n) = v
    BY <1>2, SubSeqFull
  <2>2. SubSeq(fs, n + 1, n) = <<>>
    BY <1>1, SubSeqEmpty
  <2>3. WriteAll(<<>>) = <<>>
    <3>1. <<"u8", 0>> \in Field
      BY DEF Field, Octet
    <3> QED BY <3>1, WriteAllOne
  <2> QED BY <2>1, <2>2, <2>3, ConcatEmptySeq
<1>10. n \in 0..n
  BY <1>1
<1> HIDE DEF begin, have, left
<1> QED BY <1>4, <1>8, <1>9, <1>10 DEF begin, v, t

-----------------------------------------------------------------------------
(* Flags. *)

BitOf(flags, bit) == IF bit \in flags THEN 1 ELSE 0

(* The bits above one make a number, and each bit doubles it. *)
BitsUp(flags, f) ==
  f[0] = 0 /\ \A k \in 1..21 : f[k] = 2 * f[k - 1] + BitOf(flags, 21 - k)

LEMMA WordIs ==
  ASSUME NEW flags, NEW f, BitsUp(flags, f)
  PROVE  Word(flags) = f[21]
<1> DEFINE Is(h) == h = [k \in 0..21 |-> IF k = 0 THEN 0
                           ELSE 2 * h[k - 1] + (IF 21 - k \in flags THEN 1 ELSE 0)]
           w == [k \in 0..21 |-> f[k]]
           c == CHOOSE h : Is(h)
<1>1. Is(w)
  <2>1. \A k \in 0..21 : w[k] = f[k]
    OBVIOUS
  <2>2. \A k \in 0..21 : f[k] = IF k = 0 THEN 0
                           ELSE 2 * w[k - 1] + (IF 21 - k \in flags THEN 1 ELSE 0)
    <3>1. \A k \in 0..21 : k = 0 \/ (k # 0 /\ k \in 1..21 /\ k - 1 \in 0..21)
      OBVIOUS
    <3> HIDE DEF w
    <3> QED BY <2>1, <3>1 DEF BitsUp, BitOf
  <2> QED BY <2>2
<1>2. Is(c)
  <2> HIDE DEF w, Is
  <2> QED BY <1>1
<1>3. Word(flags) = c[21]
  BY DEF Word
<1> HIDE DEF c
<1>4. SameRecursion(21, f, c)
  <2>1. 0 \in 0..21 /\ \A k \in 1..21 : k \in 0..21 /\ k # 0
    OBVIOUS
  <2>2. \A k \in 0..21 : c[k] = IF k = 0 THEN 0 ELSE 2 * c[k - 1] + BitOf(flags, 21 - k)
    BY <1>2 DEF BitOf
  <2> QED BY <2>1, <2>2 DEF SameRecursion, BitsUp
<1>5. 21 \in Nat /\ 21 \in 0..21
  OBVIOUS
<1>6. \A k \in 0..21 : f[k] = c[k]
  BY ONLY <1>4, <1>5, RecursionAgrees
<1> QED BY <1>3, <1>5, <1>6

(* The bits of a number, from the lowest. *)
HalvedUp(n, f) == f[0] = n /\ \A bit \in 1..21 : f[bit] = f[bit - 1] \div 2

LEMMA FlagsOfIs ==
  ASSUME NEW n, NEW f, HalvedUp(n, f)
  PROVE  FlagsOf(n) = {bit \in 0..20 : f[bit] % 2 = 1}
<1> DEFINE Is(h) == h = [bit \in 0..21 |-> IF bit = 0 THEN n ELSE h[bit - 1] \div 2]
           w == [bit \in 0..21 |-> f[bit]]
           c == CHOOSE h : Is(h)
<1>1. Is(w)
  <2>1. \A bit \in 0..21 : w[bit] = f[bit]
    OBVIOUS
  <2>2. \A bit \in 0..21 : f[bit] = IF bit = 0 THEN n ELSE w[bit - 1] \div 2
    <3>1. \A bit \in 0..21 : bit = 0 \/ (bit # 0 /\ bit \in 1..21 /\ bit - 1 \in 0..21)
      OBVIOUS
    <3> HIDE DEF w
    <3> QED BY <2>1, <3>1 DEF HalvedUp
  <2> QED BY <2>2
<1>2. Is(c)
  <2> HIDE DEF w, Is
  <2> QED BY <1>1
<1>3. FlagsOf(n) = {bit \in 0..20 : c[bit] % 2 = 1}
  BY DEF FlagsOf
<1> HIDE DEF c
<1>4. SameRecursion(21, f, c)
  <2>1. 0 \in 0..21 /\ \A bit \in 1..21 : bit \in 0..21 /\ bit # 0
    OBVIOUS
  <2>2. \A bit \in 0..21 : c[bit] = IF bit = 0 THEN n ELSE c[bit - 1] \div 2
    BY <1>2
  <2> QED BY <2>1, <2>2 DEF SameRecursion, HalvedUp
<1>5. 21 \in Nat /\ 0..20 \subseteq 0..21
  OBVIOUS
<1>6. \A bit \in 0..21 : f[bit] = c[bit]
  BY ONLY <1>4, <1>5, RecursionAgrees
<1> QED BY <1>3, <1>5, <1>6

LEMMA LastBit ==
  ASSUME NEW x \in Nat, NEW b \in {0, 1}
  PROVE  2 * x + b \in Nat /\ (2 * x + b) \div 2 = x /\ (2 * x + b) % 2 = b
<1>1. CASE b = 0
  BY <1>1, SMT
<1>2. CASE b = 1
  BY <1>2, SMT
<1> QED BY <1>1, <1>2

(* A word of flags is read back.                                           *)
LEMMA FlagsAreRead ==
  ASSUME NEW flags \in SUBSET (0..20)
  PROVE  Word(flags) \in Nat /\ FlagsOf(Word(flags)) = flags
<1> DEFINE step == [x \in (1..21) \X Nat |-> 2 * x[2] + BitOf(flags, 21 - x[1])]
           n == 21
           base == 0
<1>1. \A bit : BitOf(flags, bit) \in {0, 1}
  BY DEF BitOf
<1>2. step \in [(1..n) \X Nat -> Nat]
  BY <1>1, LastBit
<1>3. \A k \in 1..21 : \A x \in Nat : step[<<k, x>>] = 2 * x + BitOf(flags, 21 - k)
  OBVIOUS
<1>4. n \in Nat /\ base \in Nat
  OBVIOUS
<1> HIDE DEF step
<1>5. PICK f \in [0..21 -> Nat] : BitsUp(flags, f)
  <2>1. \E f \in [0..n -> Nat] : Steps(n, base, step, f)
    <3> HIDE DEF n, base
    <3> QED BY ONLY <1>2, <1>4, RecursionExists
  <2>2. PICK f \in [0..21 -> Nat] : Steps(21, 0, step, f)
    BY <2>1
  <2>3. \A k \in 1..21 : k - 1 \in 0..21
    OBVIOUS
  <2>4. BitsUp(flags, f)
    BY <1>3, <2>2, <2>3 DEF Steps, BitsUp
  <2> QED BY <2>4
<1>6. Word(flags) = f[21]
  BY <1>5, WordIs
<1> DEFINE g == [bit \in 0..21 |-> f[21 - bit]]
<1>7. \A bit \in 0..21 : g[bit] = f[21 - bit] /\ 21 - bit \in 0..21
  OBVIOUS
<1> HIDE DEF g
<1>8. ASSUME NEW bit \in 0..20
      PROVE  g[bit] = 2 * g[bit + 1] + BitOf(flags, bit) /\ g[bit + 1] \in Nat
  <2>1. /\ 21 - bit \in 1..21 /\ (21 - bit) - 1 = 21 - (bit + 1) /\ 21 - (21 - bit) = bit
        /\ bit \in 0..21 /\ bit + 1 \in 0..21
    OBVIOUS
  <2>2. f[21 - bit] = 2 * f[(21 - bit) - 1] + BitOf(flags, 21 - (21 - bit))
    BY <1>5, <2>1 DEF BitsUp
  <2>3. f[21 - (bit + 1)] \in Nat
    BY <1>7, <2>1
  <2> QED BY <1>7, <2>1, <2>2, <2>3
<1>9. ASSUME NEW bit \in 0..20
      PROVE  g[bit] \div 2 = g[bit + 1] /\ g[bit] % 2 = BitOf(flags, bit)
  BY <1>1, <1>8, LastBit
<1>10. HalvedUp(f[21], g)
  <2>1. \A bit \in 1..21 : bit - 1 \in 0..20 /\ (bit - 1) + 1 = bit
    OBVIOUS
  <2>2. \A bit \in 1..21 : g[bit] = g[bit - 1] \div 2
    BY <1>9, <2>1
  <2>3. g[0] = f[21]
    BY <1>7
  <2> QED BY <2>2, <2>3 DEF HalvedUp
<1>11. FlagsOf(f[21]) = {bit \in 0..20 : g[bit] % 2 = 1}
  BY <1>10, FlagsOfIs
<1>12. {bit \in 0..20 : g[bit] % 2 = 1} = flags
  <2>1. \A bit \in 0..20 : g[bit] % 2 = 1 <=> bit \in flags
    BY <1>9 DEF BitOf
  <2> QED BY <2>1
<1> QED BY <1>6, <1>11, <1>12

-----------------------------------------------------------------------------
(* Lists of fields. *)

LEMMA ConcatIs ==
  ASSUME NEW S, NEW p \in Seq(S), NEW q \in Seq(S), NEW r \in Seq(S),
         Len(r) = Len(p) + Len(q),
         \A i \in 1..Len(p) : r[i] = p[i],
         \A i \in 1..Len(q) : r[Len(p) + i] = q[i]
  PROVE  p \o q = r
<1>1. /\ p \o q \in Seq(S) /\ Len(p \o q) = Len(p) + Len(q)
      /\ \A i \in 1..Len(p) + Len(q) :
           (p \o q)[i] = IF i <= Len(p) THEN p[i] ELSE q[i - Len(p)]
  BY ConcatProperties
<1>2. Len(p) \in Nat /\ Len(q) \in Nat
  OBVIOUS
<1>3. ASSUME NEW i \in 1..Len(p \o q) PROVE (p \o q)[i] = r[i]
  <2>1. CASE i <= Len(p)
    <3>1. i \in 1..Len(p) /\ i \in 1..Len(p) + Len(q)
      BY <1>1, <1>2, <2>1
    <3> QED BY <1>1, <2>1, <3>1
  <2>2. CASE ~(i <= Len(p))
    <3>1. i - Len(p) \in 1..Len(q) /\ i \in 1..Len(p) + Len(q) /\ Len(p) + (i - Len(p)) = i
      BY <1>1, <1>2, <2>2
    <3>2. r[Len(p) + (i - Len(p))] = q[i - Len(p)]
      BY ONLY <3>1, \A j \in 1..Len(q) : r[Len(p) + j] = q[j]
    <3> QED BY <1>1, <2>2, <3>1, <3>2
  <2> QED BY <2>1, <2>2
<1> QED BY <1>1, <1>3, SeqEqual

LEMMA OneAndOne ==
  ASSUME NEW S, NEW a \in S, NEW b \in S
  PROVE  <<a>> \o <<b>> = <<a, b>> /\ <<a, b>> \in Seq(S) /\ <<a>> \in Seq(S)
<1> DEFINE p == <<a>>
           q == <<b>>
           r == <<a, b>>
<1>1. /\ Len(p) = 1 /\ Len(q) = 1 /\ Len(r) = 2 /\ p[1] = a /\ q[1] = b
      /\ r[1] = a /\ r[2] = b /\ p \in Seq(S) /\ q \in Seq(S) /\ r \in Seq(S)
  OBVIOUS
<1> HIDE DEF p, q, r
<1>2. Len(r) = Len(p) + Len(q) /\ \A i \in 1..Len(p) : r[i] = p[i]
  BY <1>1
<1>3. \A i \in 1..Len(q) : r[Len(p) + i] = q[i]
  BY <1>1
<1>4. p \o q = r
  BY ONLY <1>1, <1>2, <1>3, ConcatIs
<1> QED BY <1>1, <1>4 DEF p, q, r

LEMMA TwoAndOne ==
  ASSUME NEW S, NEW a \in S, NEW b \in S, NEW c \in S
  PROVE  <<a, b>> \o <<c>> = <<a, b, c>> /\ <<a, b, c>> \in Seq(S)
<1> DEFINE p == <<a, b>>
           q == <<c>>
           r == <<a, b, c>>
<1>1. /\ Len(p) = 2 /\ Len(q) = 1 /\ Len(r) = 3 /\ p[1] = a /\ p[2] = b /\ q[1] = c
      /\ r[1] = a /\ r[2] = b /\ r[3] = c
      /\ p \in Seq(S) /\ q \in Seq(S) /\ r \in Seq(S)
  OBVIOUS
<1> HIDE DEF p, q, r
<1>2. Len(r) = Len(p) + Len(q) /\ \A i \in 1..Len(p) : r[i] = p[i]
  BY <1>1
<1>3. \A i \in 1..Len(q) : r[Len(p) + i] = q[i]
  BY <1>1
<1>4. p \o q = r
  BY ONLY <1>1, <1>2, <1>3, ConcatIs
<1> QED BY <1>1, <1>4 DEF p, q, r

LEMMA OneAndTwo ==
  ASSUME NEW S, NEW a \in S, NEW b \in S, NEW c \in S
  PROVE  <<a>> \o <<b, c>> = <<a, b, c>>
<1> DEFINE p == <<a>>
           q == <<b, c>>
           r == <<a, b, c>>
<1>1. /\ Len(p) = 1 /\ Len(q) = 2 /\ Len(r) = 3 /\ p[1] = a /\ q[1] = b /\ q[2] = c
      /\ r[1] = a /\ r[2] = b /\ r[3] = c
      /\ p \in Seq(S) /\ q \in Seq(S) /\ r \in Seq(S)
  OBVIOUS
<1> HIDE DEF p, q, r
<1>2. Len(r) = Len(p) + Len(q) /\ \A i \in 1..Len(p) : r[i] = p[i]
  BY <1>1
<1>3. \A i \in 1..Len(q) : r[Len(p) + i] = q[i]
  BY <1>1
<1>4. p \o q = r
  BY ONLY <1>1, <1>2, <1>3, ConcatIs
<1> QED BY <1>4 DEF p, q, r

LEMMA ThreeAndOne ==
  ASSUME NEW S, NEW a \in S, NEW b \in S, NEW c \in S, NEW d \in S
  PROVE  <<a, b, c>> \o <<d>> = <<a, b, c, d>> /\ <<a, b, c, d>> \in Seq(S)
<1> DEFINE p == <<a, b, c>>
           q == <<d>>
           r == <<a, b, c, d>>
<1>1. /\ Len(p) = 3 /\ Len(q) = 1 /\ Len(r) = 4
      /\ p[1] = a /\ p[2] = b /\ p[3] = c /\ q[1] = d
      /\ r[1] = a /\ r[2] = b /\ r[3] = c /\ r[4] = d
      /\ p \in Seq(S) /\ q \in Seq(S) /\ r \in Seq(S)
  OBVIOUS
<1> HIDE DEF p, q, r
<1>2. Len(r) = Len(p) + Len(q) /\ \A i \in 1..Len(p) : r[i] = p[i]
  BY <1>1
<1>3. \A i \in 1..Len(q) : r[Len(p) + i] = q[i]
  BY <1>1
<1>4. p \o q = r
  BY ONLY <1>1, <1>2, <1>3, ConcatIs
<1> QED BY <1>1, <1>4 DEF p, q, r

(* A list of fields that takes k octets.                                   *)
Sized(fs, k) == fs \in Seq(Field) /\ Len(WriteAll(fs)) = k /\ k \in Nat

LEMMA TakesOne ==
  ASSUME NEW f \in Field
  PROVE  Sized(<<f>>, FieldSize(f))
<1> DEFINE l == <<f>>
<1>1. l \in Seq(Field)
  OBVIOUS
<1>2. WriteAll(l) = Write(f)
  BY WriteAllOne
<1> HIDE DEF l
<1>3. Len(Write(f)) = FieldSize(f) /\ Len(Write(f)) \in Nat
  <2>1. Write(f) \in Seq(Octet) /\ Len(Write(f)) = FieldSize(f)
    BY FieldWritten
  <2>2. Len(Write(f)) \in Nat
    BY ONLY <2>1, LenProperties
  <2> QED BY ONLY <2>1, <2>2
<1>4. Sized(l, FieldSize(f))
  BY <1>1, <1>2, <1>3 DEF Sized
<1> QED BY <1>4 DEF l

LEMMA TakesConcat ==
  ASSUME NEW fs, NEW gs, NEW k, NEW l, Sized(fs, k), Sized(gs, l)
  PROVE  Sized(fs \o gs, k + l) /\ WriteAll(fs \o gs) = WriteAll(fs) \o WriteAll(gs)
<1>1. fs \in Seq(Field) /\ gs \in Seq(Field) /\ k \in Nat /\ l \in Nat
  BY DEF Sized
<1>2. fs \o gs \in Seq(Field) /\ WriteAll(fs \o gs) = WriteAll(fs) \o WriteAll(gs)
  BY ONLY <1>1, WriteAllConcat, ConcatProperties
<1>3. WriteAll(fs) \in Seq(Octet) /\ WriteAll(gs) \in Seq(Octet)
  BY ONLY <1>1, WriteAllType
<1>4. Len(WriteAll(fs) \o WriteAll(gs)) = Len(WriteAll(fs)) + Len(WriteAll(gs))
  BY ONLY <1>3, ConcatProperties
<1> QED BY <1>1, <1>2, <1>4 DEF Sized

LEMMA TakesTwo ==
  ASSUME NEW a \in Field, NEW b \in Field
  PROVE  Sized(<<a, b>>, FieldSize(a) + FieldSize(b))
<1>1. Sized(<<a>> \o <<b>>, FieldSize(a) + FieldSize(b))
  BY TakesOne, TakesConcat
<1> QED BY <1>1, OneAndOne

LEMMA TakesThree ==
  ASSUME NEW a \in Field, NEW b \in Field, NEW c \in Field
  PROVE  Sized(<<a, b, c>>, FieldSize(a) + FieldSize(b) + FieldSize(c))
<1>1. Sized(<<a, b>> \o <<c>>, (FieldSize(a) + FieldSize(b)) + FieldSize(c))
  BY TakesOne, TakesTwo, TakesConcat
<1> QED BY <1>1, TwoAndOne

LEMMA TakesFour ==
  ASSUME NEW a \in Field, NEW b \in Field, NEW c \in Field, NEW d \in Field
  PROVE  Sized(<<a, b, c, d>>, FieldSize(a) + FieldSize(b) + FieldSize(c) + FieldSize(d))
<1>1. Sized(<<a, b, c>> \o <<d>>, (FieldSize(a) + FieldSize(b) + FieldSize(c)) + FieldSize(d))
  BY TakesOne, TakesThree, TakesConcat
<1>2. <<a, b, c>> \o <<d>> = <<a, b, c, d>>
  BY ThreeAndOne
<1> QED BY ONLY <1>1, <1>2

(* A list of fields is read back from the front.                           *)
LEMMA ListIsRead ==
  ASSUME NEW fs \in Seq(Field), NEW behind \in Seq(Octet)
  PROVE  ReadAll(Reader(WriteAll(fs) \o behind), TypesOf(fs))
           = ReaderWith(ValuesOf(fs), behind)
<1> DEFINE none == <<>>
           v == ValuesOf(fs)
           bytes == WriteAll(fs) \o behind
<1>1. none \in Seq(Nat)
  OBVIOUS
<1>2. v \in Seq(Nat)
  BY ValuesAreNumbers
<1>3. none \o v = v
  <2> HIDE DEF v
  <2> QED BY <1>2, ConcatEmptySeq
<1>4. Reader(bytes) = ReaderWith(none, bytes)
  <2> HIDE DEF bytes
  <2> QED BY DEF Reader, ReaderWith
<1> HIDE DEF none
<1>5. ReadAll(ReaderWith(none, bytes), TypesOf(fs)) = ReaderWith(none \o v, behind)
  BY ONLY <1>1, ReadAllReads, fs \in Seq(Field), behind \in Seq(Octet)
<1> QED BY <1>3, <1>4, <1>5

-----------------------------------------------------------------------------
(* Identifiers. *)

(* The endpoint ids that have a number of 32 bits.                         *)
Eids == {e \in Int : e + 1 \in Word32}

Times == [time : Nat, sequence : Nat]

Gbids == [source : Eids, timestamp : Times]

LEMMA SdnvField ==
  ASSUME NEW n \in Nat
  PROVE  /\ <<"sdnv", n>> \in Field /\ FieldSize(<<"sdnv", n>>) = EncodingLength(n)
         /\ <<"sdnv", n>>[1] = "sdnv" /\ <<"sdnv", n>>[2] = n
         /\ EncodingLength(n) \in Nat
<1>1. EncodingLength(n) \in Nat
  BY EncodeIs
<1> QED BY <1>1 DEF Field, FieldSize

LEMMA EidField ==
  ASSUME NEW e \in Eids
  PROVE  /\ <<"u32", e + 1>> \in Field /\ FieldSize(<<"u32", e + 1>>) = 4
         /\ <<"u32", e + 1>>[1] = "u32" /\ <<"u32", e + 1>>[2] = e + 1
BY DEF Field, FieldSize, Eids

(* The fields of a timestamp and of a global bundle identifier.            *)
LEMMA TimestampFieldsAre ==
  ASSUME NEW t \in Times
  PROVE  Sized(TimestampFields(t), TimestampSize(t))
<1>1. t.time \in Nat /\ t.sequence \in Nat
  BY DEF Times
<1> DEFINE a == <<"sdnv", t.time>>
           b == <<"sdnv", t.sequence>>
<1>2. /\ a \in Field /\ b \in Field /\ FieldSize(a) = EncodingLength(t.time)
      /\ FieldSize(b) = EncodingLength(t.sequence)
  BY <1>1, SdnvField
<1>3. TimestampFields(t) = <<a, b>> /\ TimestampSize(t) = FieldSize(a) + FieldSize(b)
  BY <1>2 DEF TimestampFields, TimestampSize
<1> HIDE DEF a, b
<1> QED BY <1>2, <1>3, TakesTwo

(* A global bundle identifier is read back.                                *)
LEMMA GbidIsRead ==
  ASSUME NEW g \in Gbids
  PROVE  /\ Sized(GbidFields(g), GbidSize(g))
         /\ GbidRead(ReadAll(Reader(WriteAll(GbidFields(g))), GbidTypes).got) = g
<1> DEFINE a == <<"u32", g.source + 1>>
           b == <<"sdnv", g.timestamp.time>>
           c == <<"sdnv", g.timestamp.sequence>>
           fs == <<a, b, c>>
           x == g.source + 1
           y == g.timestamp.time
           z == g.timestamp.sequence
<1>1. g.source \in Eids /\ y \in Nat /\ z \in Nat /\ x \in Nat /\ x - 1 = g.source
  BY DEF Gbids, Times, Eids, Word32
<1>2. /\ a \in Field /\ b \in Field /\ c \in Field
      /\ FieldSize(a) = 4 /\ FieldSize(b) = EncodingLength(y) /\ FieldSize(c) = EncodingLength(z)
      /\ a[1] = "u32" /\ b[1] = "sdnv" /\ c[1] = "sdnv"
      /\ a[2] = x /\ b[2] = y /\ c[2] = z
      /\ EncodingLength(y) \in Nat /\ EncodingLength(z) \in Nat
  BY <1>1, SdnvField, EidField
<1>3. GbidFields(g) = <<a>> \o <<b, c>>
  BY DEF GbidFields, EidFields, TimestampFields
<1> HIDE DEF a, b, c
<1>4. GbidFields(g) = fs
  BY <1>2, <1>3, OneAndTwo
<1>5. Sized(fs, GbidSize(g))
  <2>1. GbidSize(g) = FieldSize(a) + FieldSize(b) + FieldSize(c)
    BY <1>2 DEF GbidSize, TimestampSize
  <2> QED BY <1>2, <2>1, TakesThree
<1>6. TypesOf(fs) = GbidTypes /\ ValuesOf(fs) = <<x, y, z>>
  BY <1>2 DEF TypesOf, ValuesOf, GbidTypes
<1> DEFINE bytes == WriteAll(fs)
           none == <<>>
<1>7. fs \in Seq(Field)
  BY <1>5 DEF Sized
<1> HIDE DEF fs
<1>8. bytes \in Seq(Octet)
  BY <1>7, WriteAllType
<1>9. none \in Seq(Octet) /\ bytes \o none = bytes
  <2> HIDE DEF bytes
  <2> QED BY <1>8, ConcatEmptySeq
<1> HIDE DEF none
<1>10. ReadAll(Reader(bytes \o none), TypesOf(fs)) = ReaderWith(ValuesOf(fs), none)
  BY ONLY <1>7, <1>9, ListIsRead
<1>11. ReadAll(Reader(bytes), GbidTypes).got = <<x, y, z>>
  <2> DEFINE v == <<x, y, z>>
  <2>1. ReadAll(Reader(bytes), GbidTypes) = ReaderWith(v, none)
    BY <1>6, <1>9, <1>10
  <2> HIDE DEF v
  <2>2. ReaderWith(v, none).got = v
    BY DEF ReaderWith
  <2> QED BY <2>1, <2>2 DEF v
<1>12. GbidRead(<<x, y, z>>) = g
  <2> DEFINE got == <<x, y, z>>
  <2>1. SubSeq(got, Len(got) - 2, Len(got)) = got
    <3>1. got \in Seq(Nat) /\ Len(got) = 3 /\ Len(got) - 2 = 1
      BY <1>1
    <3> HIDE DEF got
    <3> QED BY <3>1, SubSeqFull
  <2>2. got[1] = x /\ got[2] = y /\ got[3] = z
    OBVIOUS
  <2> HIDE DEF got
  <2>3. GbidRead(got) = [source |-> x - 1, timestamp |-> [time |-> y, sequence |-> z]]
    BY <2>1, <2>2 DEF GbidRead, EidRead
  <2>4. g = [source |-> g.source, timestamp |-> [time |-> y, sequence |-> z]]
    BY DEF Gbids, Times
  <2> QED BY <1>1, <2>3, <2>4 DEF got
<1> QED BY <1>4, <1>5, <1>11, <1>12

-----------------------------------------------------------------------------
(* The dictionary. *)

Dictionaries == [destination : Eids, source : Eids, custodian : Eids]

LEMMA EidFieldsAre ==
  ASSUME NEW e \in Eids
  PROVE  /\ Sized(EidFields(e), 4) /\ WriteAll(EidFields(e)) = Write(<<"u32", e + 1>>)
         /\ Write(<<"u32", e + 1>>) \in Seq(Octet) /\ Len(Write(<<"u32", e + 1>>)) = 4
<1> DEFINE f == <<"u32", e + 1>>
<1>1. f \in Field /\ FieldSize(f) = 4
  BY EidField
<1>2. EidFields(e) = <<f>>
  BY DEF EidFields
<1> HIDE DEF f
<1>3. Sized(<<f>>, 4)
  BY <1>1, TakesOne
<1>4. WriteAll(<<f>>) = Write(f)
  BY <1>1, WriteAllOne
<1>5. Write(f) \in Seq(Octet) /\ Len(Write(f)) = 4
  BY <1>1, FieldWritten
<1> QED BY <1>2, <1>3, <1>4, <1>5 DEF f

(* The k-th endpoint id of a dictionary. *)
EidAt(bytes, k) == EidRead(ValueOf("u32", SubSeq(bytes, 4 * k - 2, Len(bytes))))

(* An endpoint id is found where it was written.                           *)
LEMMA EidIsFound ==
  ASSUME NEW e \in Eids, NEW pre \in Seq(Octet), NEW behind \in Seq(Octet),
         NEW k \in Nat, Len(pre) + 1 = 4 * k - 2
  PROVE  EidAt((pre \o WriteAll(EidFields(e))) \o behind, k) = e
<1> DEFINE bytes == (pre \o WriteAll(EidFields(e))) \o behind
           f == <<"u32", e + 1>>
           w == Write(f)
<1>1. f \in Field /\ f[1] = "u32" /\ f[2] = e + 1
  BY EidField
<1>2. WriteAll(EidFields(e)) = w /\ w \in Seq(Octet)
  BY EidFieldsAre
<1> HIDE DEF f
<1>3. ValueOf(f[1], w \o behind) = f[2]
  BY <1>1, FieldIsRead DEF FieldRead
<1> HIDE DEF w
<1> DEFINE rest == w \o behind
<1>4. rest \in Seq(Octet)
  BY <1>2, ConcatProperties
<1>5. bytes = pre \o rest
  <2>1. Together(pre, w, behind)
    BY ONLY <1>2, pre \in Seq(Octet), behind \in Seq(Octet), OctetsTogether
  <2> QED BY <1>2, <2>1 DEF Together
<1>6. ValueOf("u32", rest) = e + 1
  BY <1>1, <1>3
<1> HIDE DEF rest, bytes
<1>7. SubSeq(pre \o rest, Len(pre) + 1, Len(pre \o rest)) = rest
  BY ONLY <1>4, FrontAndRest, pre \in Seq(Octet)
<1>8. SubSeq(bytes, 4 * k - 2, Len(bytes)) = rest
  BY ONLY <1>5, <1>7, Len(pre) + 1 = 4 * k - 2
<1>9. e \in Int
  BY DEF Eids
<1>10. EidAt(bytes, k) = EidRead(ValueOf("u32", rest))
  BY ONLY <1>8 DEF EidAt
<1>11. EidRead(ValueOf("u32", rest)) = e
  <2> DEFINE v == ValueOf("u32", rest)
  <2>1. v = e + 1
    BY <1>6
  <2> HIDE DEF v
  <2>2. v - 1 = e
    BY ONLY <1>9, <2>1
  <2> QED BY <2>2 DEF EidRead, v
<1> QED BY <1>10, <1>11 DEF bytes

(* So many octets. *)
Octets(s, k) == s \in Seq(Octet) /\ Len(s) = k

LEMMA OctetsJoined ==
  ASSUME NEW s, NEW t, NEW k, NEW l, Octets(s, k), Octets(t, l)
  PROVE  Octets(s \o t, k + l)
<1>1. s \in Seq(Octet) /\ t \in Seq(Octet) /\ Len(s) = k /\ Len(t) = l
  BY DEF Octets
<1>2. s \o t \in Seq(Octet) /\ Len(s \o t) = Len(s) + Len(t)
  BY ONLY <1>1, ConcatProperties
<1> QED BY <1>1, <1>2 DEF Octets

LEMMA SizedOctets ==
  ASSUME NEW fs, NEW k, Sized(fs, k)
  PROVE  Octets(WriteAll(fs), k)
<1>1. fs \in Seq(Field) /\ Len(WriteAll(fs)) = k
  BY DEF Sized
<1>2. WriteAll(fs) \in Seq(Octet)
  BY <1>1, WriteAllType
<1> QED BY <1>1, <1>2 DEF Octets

LEMMA SpecialIs ==
  ASSUME NEW d \in Dictionaries
  PROVE  /\ Special(d) \in 0..4
         /\ Special(d) = 0 => d.custodian = d.source /\ d.destination = d.source
         /\ Special(d) = 1 => d.custodian = d.source /\ d.destination # d.source
         /\ Special(d) = 2 => d.custodian # d.source /\ d.destination = d.custodian
         /\ Special(d) = 3 => d.custodian # d.source /\ d.destination = d.source
         /\ Special(d) = 4 => /\ d.custodian # d.source /\ d.destination # d.custodian
                              /\ d.destination # d.source
BY DEF Special

LEMMA OneOf == \A a : Cardinality({a}) = 1
BY FS_Singleton

LEMMA TwoOf ==
  ASSUME NEW a, NEW b, a # b
  PROVE  IsFiniteSet({a, b}) /\ Cardinality({a, b}) = 2
<1>1. IsFiniteSet({a}) /\ Cardinality({a}) = 1
  BY FS_Singleton
<1>2. IsFiniteSet({a} \cup {b}) /\ Cardinality({a} \cup {b}) = 2
  BY <1>1, FS_AddElement
<1>3. {a} \cup {b} = {a, b}
  OBVIOUS
<1> QED BY <1>2, <1>3

LEMMA ThreeOf ==
  ASSUME NEW a, NEW b, NEW c, a # b, a # c, b # c
  PROVE  Cardinality({a, b, c}) = 3
<1>1. IsFiniteSet({a, b}) /\ Cardinality({a, b}) = 2 /\ c \notin {a, b}
  BY TwoOf
<1>2. Cardinality({a, b} \cup {c}) = 3
  BY <1>1, FS_AddElement
<1>3. {a, b} \cup {c} = {a, b, c}
  OBVIOUS
<1> QED BY <1>2, <1>3

LEMMA DictionarySizeIs ==
  ASSUME NEW d \in Dictionaries
  PROVE  DictionarySize(d) = ((1 + 4) + (IF Special(d) > 1 THEN 4 ELSE 0))
                             + (IF Special(d) \in {1, 4} THEN 4 ELSE 0)
<1> DEFINE n == Cardinality({d.destination, d.source, d.custodian})
<1>1. /\ Special(d) = 0 => n = 1
      /\ Special(d) \in {1, 2, 3} => n = 2
      /\ Special(d) = 4 => n = 3
  <2>1. CASE Special(d) = 0
    <3>1. {d.destination, d.source, d.custodian} = {d.source}
      BY <2>1, SpecialIs
    <3>2. n = 1
      BY <3>1, OneOf
    <3> HIDE DEF n
    <3> QED BY ONLY <2>1, <3>2
  <2>2. CASE Special(d) = 1
    <3>1. {d.destination, d.source, d.custodian} = {d.source, d.destination}
      BY <2>2, SpecialIs
    <3>2. d.source # d.destination
      BY <2>2, SpecialIs
    <3>3. Cardinality({d.source, d.destination}) = 2
      BY ONLY <3>2, TwoOf
    <3>4. n = 2
      BY ONLY <3>1, <3>3
    <3> HIDE DEF n
    <3> QED BY ONLY <2>2, <3>4
  <2>3. CASE Special(d) \in {2, 3}
    <3>1. {d.destination, d.source, d.custodian} = {d.source, d.custodian}
      BY <2>3, SpecialIs
    <3>2. d.source # d.custodian
      BY <2>3, SpecialIs
    <3>3. Cardinality({d.source, d.custodian}) = 2
      BY ONLY <3>2, TwoOf
    <3>4. n = 2
      BY ONLY <3>1, <3>3
    <3> HIDE DEF n
    <3> QED BY ONLY <2>3, <3>4
  <2>4. CASE Special(d) = 4
    <3>1. d.destination # d.source /\ d.destination # d.custodian /\ d.source # d.custodian
      BY <2>4, SpecialIs
    <3>2. n = 3
      BY <3>1, ThreeOf
    <3> HIDE DEF n
    <3> QED BY ONLY <2>4, <3>2
  <2> QED BY <2>1, <2>2, <2>3, <2>4, SpecialIs
<1>2. DictionarySize(d) = 4 * n + 1
  BY DEF DictionarySize
<1> HIDE DEF n
<1>3. Special(d) = 0 \/ Special(d) = 1 \/ Special(d) = 2 \/ Special(d) = 3 \/ Special(d) = 4
  BY SpecialIs
<1> QED BY <1>1, <1>2, <1>3

(* A dictionary is read back.                                              *)
LEMMA DictionaryIsRead ==
  ASSUME NEW d \in Dictionaries
  PROVE  /\ Sized(DictionaryFields(d), DictionarySize(d))
         /\ DictionaryRead(WriteAll(DictionaryFields(d))) = d
<1> DEFINE f == <<"u8", Special(d)>>
           F1 == <<f>>
           F2 == EidFields(d.source)
           F3 == IF Special(d) > 1 THEN EidFields(d.custodian) ELSE <<>>
           F4 == IF Special(d) \in {1, 4} THEN EidFields(d.destination) ELSE <<>>
           none == <<>>
<1>1. d.source \in Eids /\ d.custodian \in Eids /\ d.destination \in Eids
  BY DEF Dictionaries
<1>2. f \in Field /\ FieldSize(f) = 1 /\ Special(d) \in Octet
  BY SpecialIs DEF Field, FieldSize, Octet
<1>3. DictionaryFields(d) = ((F1 \o F2) \o F3) \o F4
  BY DEF DictionaryFields
<1>4. Write(f) = <<Special(d)>>
  BY <1>2, OneOctetWritten DEF Write, Wide
<1> HIDE DEF f
<1>5. Sized(none, 0) /\ WriteAll(none) = <<>>
  <2>1. none \in Seq(Field) /\ Len(none) = 0
    OBVIOUS
  <2>2. WriteAll(none) = none
    BY <1>2, WriteAllOne
  <2> QED BY <2>1, <2>2 DEF Sized
<1> HIDE DEF none
<1>6. Sized(F1, 1) /\ WriteAll(F1) = <<Special(d)>>
  BY <1>2, <1>4, TakesOne, WriteAllOne
<1>7. Sized(F2, 4)
  BY <1>1, EidFieldsAre
<1>8. Sized(F3, IF Special(d) > 1 THEN 4 ELSE 0)
  BY <1>1, <1>5, EidFieldsAre DEF none
<1>9. Sized(F4, IF Special(d) \in {1, 4} THEN 4 ELSE 0)
  BY <1>1, <1>5, EidFieldsAre DEF none
<1> HIDE DEF F1, F2, F3, F4
<1> DEFINE w1 == WriteAll(F1)
           w2 == WriteAll(F2)
           w3 == WriteAll(F3)
           w4 == WriteAll(F4)
           bytes == ((w1 \o w2) \o w3) \o w4
<1>10. Sized(F1 \o F2, 1 + 4) /\ WriteAll(F1 \o F2) = w1 \o w2
  BY <1>6, <1>7, TakesConcat
<1> DEFINE k3 == IF Special(d) > 1 THEN 4 ELSE 0
           k4 == IF Special(d) \in {1, 4} THEN 4 ELSE 0
           all == ((F1 \o F2) \o F3) \o F4
<1>11. /\ Sized((F1 \o F2) \o F3, (1 + 4) + k3)
       /\ WriteAll((F1 \o F2) \o F3) = (w1 \o w2) \o w3
  <2> DEFINE front == F1 \o F2
             five == 1 + 4
  <2>1. Sized(front, five) /\ WriteAll(front) = w1 \o w2 /\ Sized(F3, k3)
    BY <1>8, <1>10
  <2> HIDE DEF front, five, k3
  <2>2. Sized(front \o F3, five + k3) /\ WriteAll(front \o F3) = WriteAll(front) \o WriteAll(F3)
    BY ONLY <2>1, TakesConcat
  <2> QED BY <2>1, <2>2 DEF front, five
<1>12. /\ Sized(all, ((1 + 4) + k3) + k4) /\ WriteAll(all) = bytes
  <2>1. Sized(F4, k4)
    BY <1>9
  <2> DEFINE front == (F1 \o F2) \o F3
             length == (1 + 4) + k3
  <2>2. Sized(front, length) /\ WriteAll(front) = (w1 \o w2) \o w3
    BY <1>11
  <2> HIDE DEF front, length, k3, k4
  <2>3. Sized(front \o F4, length + k4) /\ WriteAll(front \o F4) = WriteAll(front) \o WriteAll(F4)
    BY ONLY <2>1, <2>2, TakesConcat
  <2> QED BY <2>2, <2>3 DEF front, length
<1>13. /\ Sized(DictionaryFields(d), DictionarySize(d))
       /\ WriteAll(DictionaryFields(d)) = bytes
  <2>1. DictionarySize(d) = ((1 + 4) + k3) + k4
    BY DictionarySizeIs
  <2> HIDE DEF k3, k4, all, bytes
  <2> QED BY ONLY <1>3, <1>12, <2>1 DEF all
<1>14. Octets(w1, 1) /\ Octets(w2, 4) /\ Octets(w3, k3) /\ Octets(w4, k4) /\ w1[1] = Special(d)
  <2>1. w1[1] = Special(d)
    BY <1>6
  <2> QED BY <1>6, <1>7, <1>8, <1>9, <2>1, SizedOctets
<1>15. /\ F2 = EidFields(d.source)
       /\ Special(d) > 1 => F3 = EidFields(d.custodian) /\ Octets(w3, 4)
       /\ ~(Special(d) > 1) => w3 = <<>>
       /\ Special(d) \in {1, 4} => F4 = EidFields(d.destination)
       /\ ~(Special(d) \in {1, 4}) => w4 = <<>>
  <2>1. F2 = EidFields(d.source)
    BY DEF F2
  <2>2. Special(d) > 1 => F3 = EidFields(d.custodian) /\ k3 = 4
    BY DEF F3
  <2>3. ~(Special(d) > 1) => F3 = none
    BY DEF F3, none
  <2>4. Special(d) \in {1, 4} => F4 = EidFields(d.destination)
    BY DEF F4
  <2>5. ~(Special(d) \in {1, 4}) => F4 = none
    BY DEF F4, none
  <2> HIDE DEF k3, k4
  <2> QED BY <1>5, <1>14, <2>1, <2>2, <2>3, <2>4, <2>5
<1>16. /\ w1 \in Seq(Octet) /\ w2 \in Seq(Octet) /\ w3 \in Seq(Octet) /\ w4 \in Seq(Octet)
       /\ w1 = WriteAll(F1) /\ w2 = WriteAll(F2) /\ w3 = WriteAll(F3) /\ w4 = WriteAll(F4)
       /\ bytes = ((w1 \o w2) \o w3) \o w4
  BY <1>14 DEF Octets
<1> HIDE DEF w1, w2, w3, w4, k3, k4, bytes
<1>17. Octets(w1 \o w2, 5) /\ w3 \o w4 \in Seq(Octet) /\ w1 \o w2 \in Seq(Octet)
  <2>1. Octets(w1 \o w2, 1 + 4)
    BY ONLY <1>14, OctetsJoined
  <2>2. w3 \o w4 \in Seq(Octet) /\ w1 \o w2 \in Seq(Octet)
    BY ONLY <1>16, ConcatProperties
  <2> QED BY <2>1, <2>2
<1>18. bytes = (w1 \o w2) \o (w3 \o w4) /\ bytes = w1 \o (w2 \o (w3 \o w4))
  <2>1. Together(w1 \o w2, w3, w4) /\ Together(w1, w2, w3 \o w4)
    BY ONLY <1>16, <1>17, OctetsTogether
  <2> QED BY <1>16, <2>1 DEF Together
<1>19. bytes[1] = Special(d)
  <2> DEFINE rest == w2 \o (w3 \o w4)
  <2>1. rest \in Seq(Octet) /\ Len(w1) = 1
    BY <1>14, <1>16, <1>17, ConcatProperties DEF Octets
  <2> HIDE DEF rest
  <2>2. (w1 \o rest)[1] = w1[1]
    <3>1. w1 \in Seq(Octet) /\ Len(w1) >= 1
      BY <1>16, <2>1
    <3> QED BY ONLY <2>1, <3>1, FirstOf
  <2> QED BY <1>14, <1>18, <2>2 DEF rest
<1> DEFINE pre == w1 \o w2
<1>20. Octets(pre, 5) /\ pre \in Seq(Octet) /\ Len(pre) = 5 /\ <<>> \in Seq(Octet)
  BY <1>17 DEF Octets
<1>21. EidAt(bytes, 1) = d.source
  <2> DEFINE rest == w3 \o w4
             k == 1
  <2>1. /\ rest \in Seq(Octet) /\ bytes = (w1 \o WriteAll(EidFields(d.source))) \o rest
        /\ k \in Nat /\ Len(w1) + 1 = 4 * k - 2
    BY <1>14, <1>15, <1>16, <1>17, <1>18 DEF Octets
  <2> HIDE DEF rest, k
  <2>2. EidAt((w1 \o WriteAll(EidFields(d.source))) \o rest, k) = d.source
    <3>1. rest \in Seq(Octet) /\ k \in Nat /\ Len(w1) + 1 = 4 * k - 2 /\ w1 \in Seq(Octet)
      BY <1>16, <2>1
    <3> QED BY ONLY <1>1, <3>1, EidIsFound
  <2> QED BY <2>1, <2>2 DEF k
<1>22. Special(d) > 1 => EidAt(bytes, 2) = d.custodian
  <2> SUFFICES ASSUME Special(d) > 1 PROVE EidAt(bytes, 2) = d.custodian
    OBVIOUS
  <2> DEFINE k == 2
  <2>1. /\ bytes = (pre \o WriteAll(EidFields(d.custodian))) \o w4
        /\ k \in Nat /\ Len(pre) + 1 = 4 * k - 2
    <3>1. w3 = WriteAll(EidFields(d.custodian))
      BY <1>15, <1>16
    <3>2. bytes = (pre \o w3) \o w4
      BY <1>16
    <3> HIDE DEF pre
    <3> QED BY <1>20, <3>1, <3>2
  <2> HIDE DEF pre, k
  <2>2. EidAt((pre \o WriteAll(EidFields(d.custodian))) \o w4, k) = d.custodian
    <3>1. w4 \in Seq(Octet) /\ k \in Nat /\ Len(pre) + 1 = 4 * k - 2 /\ pre \in Seq(Octet)
      BY <1>16, <1>20, <2>1
    <3> QED BY ONLY <1>1, <3>1, EidIsFound
  <2> QED BY <2>1, <2>2 DEF k
<1>23. Special(d) = 1 => EidAt(bytes, 2) = d.destination
  <2> SUFFICES ASSUME Special(d) = 1 PROVE EidAt(bytes, 2) = d.destination
    OBVIOUS
  <2> DEFINE k == 2
             end == <<>>
  <2>1. w3 = end /\ w4 = WriteAll(EidFields(d.destination)) /\ end \in Seq(Octet)
    BY <1>15, <1>16
  <2>2. bytes = (pre \o end) \o w4
    BY <1>16, <2>1
  <2> HIDE DEF pre
  <2>3. pre \o end = pre
    BY <1>20, ConcatEmptySeq
  <2>4. pre \o w4 \in Seq(Octet)
    BY ONLY <1>16, <1>20, ConcatProperties
  <2>5. bytes = (pre \o w4) \o end
    <3> DEFINE all2 == pre \o w4
    <3>1. all2 \in Seq(Octet) /\ bytes = all2
      BY <2>2, <2>3, <2>4
    <3> HIDE DEF all2
    <3>2. all2 \o end = all2
      BY <3>1, ConcatEmptySeq
    <3> QED BY <3>1, <3>2 DEF all2
  <2>6. k \in Nat /\ Len(pre) + 1 = 4 * k - 2
    BY <1>20
  <2> HIDE DEF k, end
  <2>7. EidAt((pre \o WriteAll(EidFields(d.destination))) \o end, k) = d.destination
    BY ONLY <1>1, <1>20, <2>1, <2>6, EidIsFound
  <2> QED BY <2>1, <2>5, <2>7 DEF k
<1>24. Special(d) = 4 => EidAt(bytes, 3) = d.destination
  <2> SUFFICES ASSUME Special(d) = 4 PROVE EidAt(bytes, 3) = d.destination
    OBVIOUS
  <2> DEFINE k == 3
             end == <<>>
             pre2 == pre \o w3
  <2>1. Octets(w3, 4) /\ w4 = WriteAll(EidFields(d.destination))
    BY <1>15, <1>16
  <2>2. bytes = pre2 \o w4 /\ end \in Seq(Octet)
    BY <1>16
  <2> HIDE DEF pre
  <2>3. Octets(pre2, 5 + 4)
    BY ONLY <1>20, <2>1, OctetsJoined
  <2>4. pre2 \in Seq(Octet) /\ Len(pre2) + 1 = 4 * k - 2 /\ k \in Nat
    BY <2>3 DEF Octets
  <2> HIDE DEF pre2, k
  <2>5. bytes \in Seq(Octet)
    BY ONLY <1>16, <2>2, <2>4, ConcatProperties
  <2>6. bytes \o end = bytes
    BY <2>5, ConcatEmptySeq
  <2> HIDE DEF end
  <2>7. bytes = (pre2 \o WriteAll(EidFields(d.destination))) \o end
    BY ONLY <2>1, <2>2, <2>6
  <2>8. EidAt((pre2 \o WriteAll(EidFields(d.destination))) \o end, k) = d.destination
    BY ONLY <1>1, <2>2, <2>4, EidIsFound
  <2> QED BY <2>7, <2>8 DEF k
<1>25. DictionaryRead(bytes) =
         [source |-> EidAt(bytes, 1),
          custodian |-> EidAt(bytes, IF Special(d) < 2 THEN 1 ELSE 2),
          destination |-> EidAt(bytes, CASE Special(d) \in {0, 3} -> 1
                                         [] Special(d) \in {1, 2} -> 2
                                         [] OTHER -> 3)]
  BY <1>19 DEF DictionaryRead, EidAt
<1>26. Special(d) = 0 \/ Special(d) = 1 \/ Special(d) = 2 \/ Special(d) = 3 \/ Special(d) = 4
  BY SpecialIs
<1>27. EidAt(bytes, IF Special(d) < 2 THEN 1 ELSE 2) = d.custodian
  BY <1>21, <1>22, <1>26, SpecialIs
<1>28. EidAt(bytes, CASE Special(d) \in {0, 3} -> 1 [] Special(d) \in {1, 2} -> 2 [] OTHER -> 3)
         = d.destination
  <2>1. CASE Special(d) = 0
    BY <2>1, <1>21, SpecialIs
  <2>2. CASE Special(d) = 1
    BY <2>2, <1>23
  <2>3. CASE Special(d) = 2
    BY <2>3, <1>22, SpecialIs
  <2>4. CASE Special(d) = 3
    BY <2>4, <1>21, SpecialIs
  <2>5. CASE Special(d) = 4
    BY <2>5, <1>24
  <2> QED BY <1>26, <2>1, <2>2, <2>3, <2>4, <2>5
<1>29. d = [source |-> d.source, custodian |-> d.custodian, destination |-> d.destination]
  BY DEF Dictionaries
<1>30. DictionaryRead(bytes) = d
  BY <1>21, <1>25, <1>27, <1>28, <1>29
<1> QED BY <1>13, <1>30

-----------------------------------------------------------------------------
(* The primary header. *)

(* A header that is no fragment's. *)
Headers ==
  [version : Octet, flags : SUBSET (1..20), blockLength : Nat, replicationFactor : Nat,
   timestamp : Times, lifetime : Nat, globalId : Nat, custody : Gbids,
   dictionary : Dictionaries, fragmentOffset : {0}, totalLength : {0}]

LEMMA FourAndTwo ==
  ASSUME NEW S, NEW a \in S, NEW b \in S, NEW c \in S, NEW d \in S, NEW e \in S, NEW f \in S
  PROVE  /\ <<a, b, c, d>> \o <<e, f>> = <<a, b, c, d, e, f>>
         /\ <<a, b, c, d, e, f>> \in Seq(S)
<1> DEFINE p == <<a, b, c, d>>
           q == <<e, f>>
           r == <<a, b, c, d, e, f>>
<1>1. Len(p) = 4 /\ Len(q) = 2 /\ Len(r) = 6 /\ p \in Seq(S) /\ q \in Seq(S) /\ r \in Seq(S)
  OBVIOUS
<1>2. /\ p[1] = a /\ p[2] = b /\ p[3] = c /\ p[4] = d /\ q[1] = e /\ q[2] = f
      /\ r[1] = a /\ r[2] = b /\ r[3] = c /\ r[4] = d /\ r[5] = e /\ r[6] = f
  OBVIOUS
<1> HIDE DEF p, q, r
<1>3. Len(r) = Len(p) + Len(q) /\ \A i \in 1..Len(p) : r[i] = p[i]
  BY <1>1, <1>2
<1>4. \A i \in 1..Len(q) : r[Len(p) + i] = q[i]
  BY <1>1, <1>2
<1>5. p \o q = r
  BY ONLY <1>1, <1>3, <1>4, ConcatIs
<1> QED BY <1>1, <1>5 DEF p, q, r

(* The first nine fields. *)
Nine(h) ==
  <<<<"u8", h.version>>, <<"sdnv", Word(h.flags)>>, <<"sdnv", h.blockLength>>,
    <<"sdnv", h.replicationFactor>>, <<"sdnv", h.timestamp.time>>,
    <<"sdnv", h.timestamp.sequence>>, <<"sdnv", h.lifetime>>, <<"sdnv", h.globalId>>,
    <<"sdnv", GbidSize(h.custody)>>>>

NineSize(h) ==
  (1 + EncodingLength(Word(h.flags)) + EncodingLength(h.blockLength)
     + EncodingLength(h.replicationFactor)) + TimestampSize(h.timestamp)
  + (EncodingLength(h.lifetime) + EncodingLength(h.globalId)
     + EncodingLength(GbidSize(h.custody)))

LEMMA NumbersOf ==
  ASSUME NEW h \in Headers
  PROVE  /\ h.version \in Octet /\ h.flags \in SUBSET (0..20) /\ Word(h.flags) \in Nat
         /\ FlagsOf(Word(h.flags)) = h.flags /\ 0 \notin h.flags
         /\ h.blockLength \in Nat /\ h.replicationFactor \in Nat
         /\ h.timestamp \in Times /\ h.timestamp.time \in Nat /\ h.timestamp.sequence \in Nat
         /\ h.lifetime \in Nat /\ h.globalId \in Nat /\ h.custody \in Gbids
         /\ GbidSize(h.custody) \in Nat
         /\ h.dictionary \in Dictionaries /\ DictionarySize(h.dictionary) \in Nat
<1>1. /\ h.version \in Octet /\ h.flags \in SUBSET (1..20)
      /\ h.blockLength \in Nat /\ h.replicationFactor \in Nat
      /\ h.timestamp \in Times
      /\ h.lifetime \in Nat /\ h.globalId \in Nat /\ h.custody \in Gbids
      /\ h.dictionary \in Dictionaries
  BY DEF Headers
<1>2. h.flags \in SUBSET (0..20) /\ 0 \notin h.flags
  BY <1>1
<1>3. Word(h.flags) \in Nat /\ FlagsOf(Word(h.flags)) = h.flags
  BY <1>2, FlagsAreRead
<1>4. h.timestamp.time \in Nat /\ h.timestamp.sequence \in Nat
  BY <1>1 DEF Times
<1>5. GbidSize(h.custody) \in Nat
  BY <1>1, GbidIsRead DEF Sized
<1>6. DictionarySize(h.dictionary) \in Nat
  BY <1>1, DictionaryIsRead DEF Sized
<1> QED BY <1>1, <1>2, <1>3, <1>4, <1>5, <1>6

LEMMA NineAre ==
  ASSUME NEW h \in Headers
  PROVE  /\ Sized(Nine(h), NineSize(h))
         /\ Nine(h) =
              (<<<<"u8", h.version>>, <<"sdnv", Word(h.flags)>>, <<"sdnv", h.blockLength>>,
                 <<"sdnv", h.replicationFactor>>>> \o TimestampFields(h.timestamp))
              \o <<<<"sdnv", h.lifetime>>, <<"sdnv", h.globalId>>,
                   <<"sdnv", GbidSize(h.custody)>>>>
         /\ TypesOf(Nine(h)) = <<"u8", "sdnv", "sdnv", "sdnv", "sdnv", "sdnv",
                                 "sdnv", "sdnv", "sdnv">>
         /\ ValuesOf(Nine(h)) =
              <<h.version, Word(h.flags), h.blockLength, h.replicationFactor,
                h.timestamp.time, h.timestamp.sequence, h.lifetime, h.globalId,
                GbidSize(h.custody)>>
<1> DEFINE a == <<"u8", h.version>>
           b == <<"sdnv", Word(h.flags)>>
           c == <<"sdnv", h.blockLength>>
           d == <<"sdnv", h.replicationFactor>>
           e == <<"sdnv", h.timestamp.time>>
           f == <<"sdnv", h.timestamp.sequence>>
           g == <<"sdnv", h.lifetime>>
           i == <<"sdnv", h.globalId>>
           j == <<"sdnv", GbidSize(h.custody)>>
<1>1. /\ h.version \in Octet /\ Word(h.flags) \in Nat
      /\ h.blockLength \in Nat /\ h.replicationFactor \in Nat
      /\ h.timestamp \in Times /\ h.timestamp.time \in Nat /\ h.timestamp.sequence \in Nat
      /\ h.lifetime \in Nat /\ h.globalId \in Nat /\ GbidSize(h.custody) \in Nat
  BY NumbersOf
<1>2. a \in Field /\ FieldSize(a) = 1 /\ a[1] = "u8" /\ a[2] = h.version
  BY <1>1 DEF Field, FieldSize
<1>3. /\ b \in Field /\ c \in Field /\ d \in Field
      /\ FieldSize(b) = EncodingLength(Word(h.flags))
      /\ FieldSize(c) = EncodingLength(h.blockLength)
      /\ FieldSize(d) = EncodingLength(h.replicationFactor)
      /\ b[1] = "sdnv" /\ c[1] = "sdnv" /\ d[1] = "sdnv"
      /\ b[2] = Word(h.flags) /\ c[2] = h.blockLength /\ d[2] = h.replicationFactor
  BY <1>1, SdnvField
<1>4. /\ e \in Field /\ f \in Field
      /\ e[1] = "sdnv" /\ f[1] = "sdnv"
      /\ e[2] = h.timestamp.time /\ f[2] = h.timestamp.sequence
  BY <1>1, SdnvField
<1>5. /\ g \in Field /\ i \in Field /\ j \in Field
      /\ FieldSize(g) = EncodingLength(h.lifetime)
      /\ FieldSize(i) = EncodingLength(h.globalId)
      /\ FieldSize(j) = EncodingLength(GbidSize(h.custody))
      /\ g[1] = "sdnv" /\ i[1] = "sdnv" /\ j[1] = "sdnv"
      /\ g[2] = h.lifetime /\ i[2] = h.globalId /\ j[2] = GbidSize(h.custody)
  BY <1>1, SdnvField
<1>6. TimestampFields(h.timestamp) = <<e, f>>
  BY DEF TimestampFields
<1>7. Nine(h) = <<a, b, c, d, e, f, g, i, j>>
  BY DEF Nine
<1> HIDE DEF a, b, c, d, e, f, g, i, j
<1>8. Nine(h) = (<<a, b, c, d>> \o TimestampFields(h.timestamp)) \o <<g, i, j>>
  <2>1. <<a, b, c, d>> \o <<e, f>> = <<a, b, c, d, e, f>>
    BY <1>2, <1>3, <1>4, FourAndTwo
  <2>2. <<a, b, c, d, e, f>> \o <<g, i, j>> = <<a, b, c, d, e, f, g, i, j>>
    <3> DEFINE p == <<a, b, c, d, e, f>>
               q == <<g, i, j>>
               r == <<a, b, c, d, e, f, g, i, j>>
    <3>1. /\ Len(p) = 6 /\ Len(q) = 3 /\ Len(r) = 9
          /\ p \in Seq(Field) /\ q \in Seq(Field) /\ r \in Seq(Field)
      BY <1>2, <1>3, <1>4, <1>5
    <3>2. /\ p[1] = a /\ p[2] = b /\ p[3] = c /\ p[4] = d /\ p[5] = e /\ p[6] = f
          /\ q[1] = g /\ q[2] = i /\ q[3] = j
          /\ r[1] = a /\ r[2] = b /\ r[3] = c /\ r[4] = d /\ r[5] = e /\ r[6] = f
          /\ r[7] = g /\ r[8] = i /\ r[9] = j
      OBVIOUS
    <3> HIDE DEF p, q, r
    <3>3. Len(r) = Len(p) + Len(q) /\ \A x \in 1..Len(p) : r[x] = p[x]
      BY ONLY <3>1, <3>2
    <3>4. \A x \in 1..Len(q) : r[Len(p) + x] = q[x]
      BY ONLY <3>1, <3>2
    <3>5. p \o q = r
      BY ONLY <3>1, <3>3, <3>4, ConcatIs
    <3> QED BY <3>5 DEF p, q, r
  <2> QED BY ONLY <1>6, <1>7, <2>1, <2>2
<1>9. Sized(Nine(h), NineSize(h))
  <2> DEFINE k1 == FieldSize(a) + FieldSize(b) + FieldSize(c) + FieldSize(d)
             k2 == TimestampSize(h.timestamp)
             k3 == FieldSize(g) + FieldSize(i) + FieldSize(j)
             f1 == <<a, b, c, d>>
             f2 == TimestampFields(h.timestamp)
             f3 == <<g, i, j>>
  <2>1. Sized(f1, k1) /\ Sized(f2, k2) /\ Sized(f3, k3)
    BY <1>1, <1>2, <1>3, <1>5, TakesFour, TakesThree, TimestampFieldsAre
  <2>2. NineSize(h) = (k1 + k2) + k3
    BY <1>2, <1>3, <1>5 DEF NineSize
  <2> HIDE DEF k1, k2, k3, f1, f2, f3
  <2>3. Sized(f1 \o f2, k1 + k2)
    BY ONLY <2>1, TakesConcat
  <2>4. Sized((f1 \o f2) \o f3, (k1 + k2) + k3)
    BY ONLY <2>1, <2>3, TakesConcat
  <2> QED BY <1>8, <2>2, <2>4 DEF f1, f2, f3
<1> DEFINE all == <<a, b, c, d, e, f, g, i, j>>
<1>10. /\ Len(all) = 9 /\ all[1] = a /\ all[2] = b /\ all[3] = c /\ all[4] = d /\ all[5] = e
       /\ all[6] = f /\ all[7] = g /\ all[8] = i /\ all[9] = j
  OBVIOUS
<1>11. TypesOf(all) = <<"u8", "sdnv", "sdnv", "sdnv", "sdnv", "sdnv", "sdnv", "sdnv", "sdnv">>
  <2> HIDE DEF all
  <2> QED BY <1>2, <1>3, <1>4, <1>5, <1>10 DEF TypesOf
<1>12. ValuesOf(all) = <<h.version, Word(h.flags), h.blockLength, h.replicationFactor,
                         h.timestamp.time, h.timestamp.sequence, h.lifetime, h.globalId,
                         GbidSize(h.custody)>>
  <2> HIDE DEF all
  <2> QED BY <1>2, <1>3, <1>4, <1>5, <1>10 DEF ValuesOf
<1> QED BY <1>7, <1>8, <1>9, <1>11, <1>12 DEF a, b, c, d, e, f, g, i, j

LEMMA OctetsOneMore ==
  ASSUME NEW s \in Seq(Octet), NEW t \in Seq(Octet)
  PROVE  s \o t \in Seq(Octet)
BY ConcatProperties

LEMMA LastOf ==
  ASSUME NEW S, NEW s \in Seq(S), NEW x \in S
  PROVE  Last(Append(s, x)) = x
<1>1. Len(Append(s, x)) = Len(s) + 1 /\ Append(s, x)[Len(s) + 1] = x
  BY AppendProperties
<1> QED BY <1>1 DEF Last

(* A primary header takes as many octets as its size says, and is read     *)
(* back, whatever is behind it.                                            *)
LEMMA PrimaryFieldsAre ==
  ASSUME NEW h \in Headers
  PROVE  /\ Sized(PrimaryFields(h), PrimarySize(h))
         /\ WriteAll(PrimaryFields(h)) =
              ((WriteAll(Nine(h)) \o WriteAll(GbidFields(h.custody)))
               \o Write(<<"sdnv", DictionarySize(h.dictionary)>>))
              \o WriteAll(DictionaryFields(h.dictionary))
<1> DEFINE f1 == Nine(h)
           f2 == GbidFields(h.custody)
           n == DictionarySize(h.dictionary)
           f == <<"sdnv", n>>
           f3 == <<f>>
           f4 == DictionaryFields(h.dictionary)
           none == <<>>
           k1 == NineSize(h)
           k2 == GbidSize(h.custody)
           k3 == EncodingLength(n)
           all == ((f1 \o f2) \o f3) \o f4
<1>1. /\ h.custody \in Gbids /\ n \in Nat /\ h.dictionary \in Dictionaries
      /\ 0 \notin h.flags
  BY NumbersOf
<1>2. Sized(f1, k1) /\ Sized(f2, k2) /\ Sized(f4, n)
  BY <1>1, NineAre, GbidIsRead, DictionaryIsRead
<1>3. Sized(f3, k3) /\ WriteAll(f3) = Write(f)
  <2>1. f \in Field /\ FieldSize(f) = k3
    BY <1>1, SdnvField
  <2> HIDE DEF f, k3
  <2> QED BY <2>1, TakesOne, WriteAllOne
<1>4. PrimaryFields(h) = all \o none
  <2>1. ~IsFragment(h)
    BY <1>1 DEF IsFragment, GetBit, Flag
  <2> DEFINE four == <<<<"u8", h.version>>, <<"sdnv", Word(h.flags)>>,
                       <<"sdnv", h.blockLength>>, <<"sdnv", h.replicationFactor>>>>
             three == <<<<"sdnv", h.lifetime>>, <<"sdnv", h.globalId>>,
                        <<"sdnv", GbidSize(h.custody)>>>>
  <2>2. f1 = (four \o TimestampFields(h.timestamp)) \o three
    BY NineAre
  <2>3. PrimaryFields(h) =
          (((((four \o TimestampFields(h.timestamp)) \o three) \o f2) \o f3) \o f4) \o none
    BY <2>1 DEF PrimaryFields
  <2> HIDE DEF four, three, f1, f2, f3, f4, none
  <2> QED BY <2>2, <2>3
<1>5. PrimarySize(h) = ((k1 + k2) + k3) + n
  <2>1. ~IsFragment(h)
    BY <1>1 DEF IsFragment, GetBit, Flag
  <2>2. /\ EncodingLength(Word(h.flags)) \in Nat /\ EncodingLength(h.blockLength) \in Nat
        /\ EncodingLength(h.replicationFactor) \in Nat /\ EncodingLength(h.lifetime) \in Nat
        /\ EncodingLength(h.globalId) \in Nat /\ EncodingLength(GbidSize(h.custody)) \in Nat
        /\ EncodingLength(n) \in Nat
    BY <1>1, NumbersOf, EncodeIs
  <2>3. TimestampSize(h.timestamp) \in Nat /\ k2 \in Nat
    BY NumbersOf, TimestampFieldsAre DEF Sized
  <2> HIDE DEF n, k2
  <2> QED BY <1>1, <2>1, <2>2, <2>3 DEF PrimarySize, NineSize, n, k2
<1> HIDE DEF f1, f2, f3, f4, k1, k2, k3, n, none
<1>6. Sized(f1 \o f2, k1 + k2) /\ WriteAll(f1 \o f2) = WriteAll(f1) \o WriteAll(f2)
  BY ONLY <1>2, TakesConcat
<1>7. /\ Sized((f1 \o f2) \o f3, (k1 + k2) + k3)
      /\ WriteAll((f1 \o f2) \o f3) = (WriteAll(f1) \o WriteAll(f2)) \o WriteAll(f3)
  BY ONLY <1>3, <1>6, TakesConcat
<1>8. /\ Sized(all, ((k1 + k2) + k3) + n)
      /\ WriteAll(all) = ((WriteAll(f1) \o WriteAll(f2)) \o WriteAll(f3)) \o WriteAll(f4)
  BY ONLY <1>2, <1>7, TakesConcat
<1>9. all \o none = all
  <2>1. all \in Seq(Field)
    BY <1>8 DEF Sized
  <2> HIDE DEF all
  <2> QED BY <2>1, ConcatEmptySeq DEF none
<1>10. Sized(PrimaryFields(h), PrimarySize(h)) /\ PrimaryFields(h) = all
  BY ONLY <1>4, <1>5, <1>8, <1>9
<1>11. WriteAll(PrimaryFields(h)) =
         ((WriteAll(f1) \o WriteAll(f2)) \o Write(f)) \o WriteAll(f4)
  BY ONLY <1>3, <1>8, <1>10
<1> QED BY <1>10, <1>11 DEF f1, f2, f4, n

LEMMA PrimaryIsRead ==
  ASSUME NEW h \in Headers, NEW behind \in Seq(Octet)
  PROVE  PrimaryRead(WriteAll(PrimaryFields(h)) \o behind) = h
<1> DEFINE n == DictionarySize(h.dictionary)
           g == GbidSize(h.custody)
           f == <<"sdnv", n>>
           w1 == WriteAll(Nine(h))
           w2 == WriteAll(GbidFields(h.custody))
           w3 == Write(f)
           w4 == WriteAll(DictionaryFields(h.dictionary))
           types == <<"u8", "sdnv", "sdnv", "sdnv", "sdnv", "sdnv", "sdnv", "sdnv", "sdnv">>
           v == <<h.version, Word(h.flags), h.blockLength, h.replicationFactor,
                  h.timestamp.time, h.timestamp.sequence, h.lifetime, h.globalId, g>>
           bytes == WriteAll(PrimaryFields(h)) \o behind
           left3 == w4 \o behind
           left2 == w3 \o left3
           left1 == w2 \o left2
<1>1. /\ h.custody \in Gbids /\ n \in Nat /\ h.dictionary \in Dictionaries /\ g \in Nat
      /\ 0 \notin h.flags /\ FlagsOf(Word(h.flags)) = h.flags
  BY NumbersOf
<1>2. Octets(w1, NineSize(h)) /\ Octets(w2, g) /\ Octets(w4, n) /\ Nine(h) \in Seq(Field)
  <2>1. /\ Sized(Nine(h), NineSize(h)) /\ Sized(GbidFields(h.custody), g)
        /\ Sized(DictionaryFields(h.dictionary), n)
    BY <1>1, NineAre, GbidIsRead, DictionaryIsRead
  <2>2. Octets(w1, NineSize(h)) /\ Octets(w2, g) /\ Octets(w4, n)
    BY <2>1, SizedOctets
  <2> QED BY <2>1, <2>2 DEF Sized
<1>3. f \in Field /\ f[1] = "sdnv" /\ f[2] = n /\ w3 \in Seq(Octet)
  BY <1>1, SdnvField, FieldWritten
<1>4. WriteAll(PrimaryFields(h)) = ((w1 \o w2) \o w3) \o w4
  BY PrimaryFieldsAre
<1>5. /\ w1 \in Seq(Octet) /\ w2 \in Seq(Octet) /\ w4 \in Seq(Octet)
      /\ Len(w2) = g /\ Len(w4) = n
  BY <1>2 DEF Octets
<1>6. TypesOf(Nine(h)) = types /\ ValuesOf(Nine(h)) = v
  BY NineAre
<1>7. GbidRead(ReadAll(Reader(w2), GbidTypes).got) = h.custody /\ DictionaryRead(w4) = h.dictionary
  BY <1>1, GbidIsRead, DictionaryIsRead
<1>8. v \in Seq(Nat) /\ v[9] = g
  <2>1. v[9] = g
    OBVIOUS
  <2>2. v \in Seq(Nat)
    BY <1>2, <1>6, ValuesAreNumbers
  <2> QED BY <2>1, <2>2
<1> HIDE DEF f, w1, w2, w3, w4, types, v, n, g
<1>9. left3 \in Seq(Octet)
  BY ONLY <1>5, OctetsOneMore, behind \in Seq(Octet)
<1>10. left2 \in Seq(Octet)
  <2> HIDE DEF left3
  <2> QED BY ONLY <1>3, <1>9, OctetsOneMore DEF left2
<1>11. left1 \in Seq(Octet)
  <2> HIDE DEF left2
  <2> QED BY ONLY <1>5, <1>10, OctetsOneMore DEF left1
<1>12. bytes = w1 \o left1
  <2>1. w1 \o w2 \in Seq(Octet)
    BY ONLY <1>5, OctetsOneMore
  <2>2. (w1 \o w2) \o w3 \in Seq(Octet)
    BY ONLY <1>3, <2>1, OctetsOneMore
  <2>3. Together((w1 \o w2) \o w3, w4, behind)
    BY ONLY <1>5, <2>2, OctetsTogether, behind \in Seq(Octet)
  <2> HIDE DEF left3
  <2>4. Together(w1 \o w2, w3, left3)
    BY ONLY <1>3, <1>9, <2>1, OctetsTogether
  <2> HIDE DEF left2
  <2>5. Together(w1, w2, left2)
    BY ONLY <1>5, <1>10, OctetsTogether
  <2> HIDE DEF bytes
  <2>6. bytes = (((w1 \o w2) \o w3) \o w4) \o behind
    BY ONLY <1>4 DEF bytes
  <2>7. bytes = ((w1 \o w2) \o w3) \o left3
    BY ONLY <2>3, <2>6 DEF Together, left3
  <2>8. bytes = (w1 \o w2) \o left2
    BY ONLY <2>4, <2>7 DEF Together, left2
  <2>9. bytes = w1 \o left1
    BY ONLY <2>5, <2>8 DEF Together, left1
  <2> QED BY <2>9
<1> HIDE DEF bytes, left1, left2, left3
<1>13. ReadAll(Reader(bytes), types) = ReaderWith(v, left1)
  BY <1>2, <1>6, <1>11, <1>12, ListIsRead DEF w1
<1>14. /\ SubSeq(left1, 1, g) = w2
       /\ SubSeq(left1, g + 1, Len(left1)) = left2
  <2>1. /\ SubSeq(w2 \o left2, 1, Len(w2)) = w2
        /\ SubSeq(w2 \o left2, Len(w2) + 1, Len(w2 \o left2)) = left2
    BY ONLY <1>5, <1>10, FrontAndRest
  <2> QED BY ONLY <1>5, <2>1 DEF left1
<1>15. Next1(ReaderWith(v, left2), "sdnv") = ReaderWith(Append(v, n), left3)
  <2>1. Next1(ReaderWith(v, w3 \o left3), f[1]) = ReaderWith(Append(v, f[2]), left3)
    BY ONLY <1>3, <1>9, NextIsRead DEF w3
  <2> QED BY ONLY <1>3, <2>1 DEF left2
<1>16. SubSeq(left3, 1, n) = w4
  <2>1. SubSeq(w4 \o behind, 1, Len(w4)) = w4
    BY ONLY <1>5, FrontAndRest, behind \in Seq(Octet)
  <2> QED BY ONLY <1>5, <2>1 DEF left3
<1>17. Last(Append(v, n)) = n
  BY ONLY <1>1, <1>8, LastOf
<1> DEFINE r1 == ReaderWith(v, left1)
           r2 == ReaderWith(Append(v, n), left3)
<1>18. /\ r1.got = v /\ r1.left = left1 /\ r2.got = Append(v, n) /\ r2.left = left3
       /\ Skip(r1, g) = ReaderWith(v, left2)
  <2>1. /\ r1.got = v /\ r1.left = left1 /\ r2.got = Append(v, n) /\ r2.left = left3
        /\ r1 = [got |-> v, left |-> left1]
    BY DEF ReaderWith
  <2> HIDE DEF r1, r2
  <2>2. Skip(r1, g) = [r1 EXCEPT !.left = left2]
    BY <1>14, <2>1 DEF Skip
  <2>3. [r1 EXCEPT !.left = left2] = [got |-> v, left |-> left2]
    BY ONLY <2>1
  <2> QED BY <2>1, <2>2, <2>3 DEF ReaderWith
<1> HIDE DEF r1, r2
<1>19. /\ ReadAll(Reader(bytes), types) = r1
       /\ Next1(Skip(r1, v[9]), "sdnv") = r2
       /\ SubSeq(r1.left, 1, v[9]) = w2 /\ SubSeq(r2.left, 1, Last(r2.got)) = w4
  BY <1>8, <1>13, <1>14, <1>15, <1>16, <1>17, <1>18 DEF r1, r2
<1>20. /\ v[1] = h.version /\ v[2] = Word(h.flags) /\ v[3] = h.blockLength
       /\ v[4] = h.replicationFactor /\ v[5] = h.timestamp.time
       /\ v[6] = h.timestamp.sequence /\ v[7] = h.lifetime /\ v[8] = h.globalId
  BY DEF v
<1>21. ~GetBit(FlagsOf(v[2]), Flag.fragment)
  BY <1>1, <1>20 DEF GetBit, Flag
<1> DEFINE r3 == [got |-> <<0, 0>>]
<1>22. r3.got[Len(r3.got) - 1] = 0 /\ Last(r3.got) = 0
  BY DEF Last
<1> HIDE DEF r3
<1>23. PrimaryRead(bytes) =
         [version |-> v[1], flags |-> FlagsOf(v[2]), blockLength |-> v[3],
          replicationFactor |-> v[4],
          timestamp |-> [time |-> v[5], sequence |-> v[6]], lifetime |-> v[7],
          globalId |-> v[8], custody |-> GbidRead(ReadAll(Reader(w2), GbidTypes).got),
          dictionary |-> DictionaryRead(w4), fragmentOffset |-> 0, totalLength |-> 0]
  BY <1>18, <1>19, <1>21, <1>22 DEF PrimaryRead, types, r3
<1>24. h = [version |-> h.version, flags |-> h.flags, blockLength |-> h.blockLength,
            replicationFactor |-> h.replicationFactor,
            timestamp |-> [time |-> h.timestamp.time, sequence |-> h.timestamp.sequence],
            lifetime |-> h.lifetime, globalId |-> h.globalId, custody |-> h.custody,
            dictionary |-> h.dictionary, fragmentOffset |-> 0, totalLength |-> 0]
  BY DEF Headers, Times
<1>25. PrimaryRead(bytes) = h
  BY <1>1, <1>7, <1>20, <1>23, <1>24
<1> QED BY <1>25 DEF bytes

-----------------------------------------------------------------------------
(* The canonical header, and the bundle. *)

(* The header of a payload, which is the last block. *)
PayloadHeaders ==
  [blockType : {PayloadBlock}, flags : {{CanonicalFlag.lastBlock, CanonicalFlag.discardBlock}},
   blockLength : Nat, eids : {0}]

LEMMA CanonicalIsRead ==
  ASSUME NEW c \in PayloadHeaders, NEW behind \in Seq(Octet)
  PROVE  /\ Sized(CanonicalFields(c), CanonicalSize(c)) /\ CanonicalSize(c) > 0
         /\ CanonicalRead(WriteAll(CanonicalFields(c)) \o behind, NoCanonicalHeader) = c
         /\ IsLastBlock(c)
<1> DEFINE word == Word(c.flags)
           a == <<"u8", c.blockType>>
           b == <<"sdnv", word>>
           d == <<"sdnv", c.blockLength>>
           fs == <<a, b, d>>
           none == <<>>
           v == <<c.blockType, word, c.blockLength>>
           types == <<"u8", "sdnv", "sdnv">>
<1>1. /\ c.blockType = 1 /\ c.flags = {3, 4} /\ c.blockLength \in Nat /\ c.eids = 0
      /\ c.flags \in SUBSET (0..20)
      /\ c = [blockType |-> c.blockType, flags |-> c.flags, blockLength |-> c.blockLength,
              eids |-> c.eids]
  BY DEF PayloadHeaders, PayloadBlock, CanonicalFlag
<1>2. word \in Nat /\ FlagsOf(word) = c.flags
  BY <1>1, FlagsAreRead
<1>3. ~IsContainsEid(c) /\ IsLastBlock(c)
  BY <1>1 DEF IsContainsEid, IsLastBlock, GetBit, CanonicalFlag
<1>4. a \in Field /\ FieldSize(a) = 1 /\ a[1] = "u8" /\ a[2] = c.blockType
  BY <1>1 DEF Field, FieldSize, Octet
<1> HIDE DEF word
<1>5. /\ b \in Field /\ FieldSize(b) = EncodingLength(word) /\ b[1] = "sdnv" /\ b[2] = word
      /\ d \in Field /\ FieldSize(d) = EncodingLength(c.blockLength) /\ d[1] = "sdnv"
      /\ d[2] = c.blockLength
      /\ EncodingLength(word) \in Nat /\ EncodingLength(c.blockLength) \in Nat
  BY <1>1, <1>2, SdnvField
<1>6. CanonicalFields(c) = fs \o none
  BY <1>3 DEF CanonicalFields, word
<1> HIDE DEF a, b, d
<1>7. Sized(fs, CanonicalSize(c)) /\ CanonicalSize(c) > 0
  <2>1. CanonicalSize(c) = FieldSize(a) + FieldSize(b) + FieldSize(d) /\ CanonicalSize(c) > 0
    BY <1>3, <1>4, <1>5 DEF CanonicalSize, word
  <2> QED BY <1>4, <1>5, <2>1, TakesThree
<1>8. TypesOf(fs) = types /\ ValuesOf(fs) = v
  BY <1>4, <1>5 DEF TypesOf, ValuesOf
<1>9. fs \in Seq(Field)
  BY <1>7 DEF Sized
<1> HIDE DEF fs
<1>10. fs \o none = fs
  BY <1>9, ConcatEmptySeq
<1> HIDE DEF none
<1>11. CanonicalFields(c) = fs
  BY ONLY <1>6, <1>10
<1> DEFINE bytes == WriteAll(CanonicalFields(c)) \o behind
           r == ReaderWith(v, behind)
           u == [blockType |-> v[1], flags |-> FlagsOf(v[2]), blockLength |-> v[3], eids |-> 0]
<1>12. ReadAll(Reader(bytes), types) = r
  <2> HIDE DEF v, types
  <2> QED BY <1>8, <1>9, <1>11, ListIsRead
<1>13. u = c
  <2>1. v[1] = c.blockType /\ v[2] = word /\ v[3] = c.blockLength
    OBVIOUS
  <2> HIDE DEF v
  <2> QED BY <1>1, <1>2, <2>1
<1>14. r.got = v
  BY DEF ReaderWith
<1> HIDE DEF r, bytes, v
<1>15. CanonicalRead(bytes, NoCanonicalHeader) = c
  <2>1. NoCanonicalHeader.eids = 0
    BY DEF NoCanonicalHeader
  <2>2. CanonicalRead(bytes, NoCanonicalHeader) =
          IF IsContainsEid(u) THEN [u EXCEPT !.eids = Decode(r.left)] ELSE u
    BY <1>12, <1>14, <2>1 DEF CanonicalRead, types
  <2> QED BY <1>3, <1>13, <2>2
<1> QED BY <1>3, <1>7, <1>11, <1>15 DEF bytes

(* The blocks of a bundle of one header: the rest is payload.              *)
BlocksUp(bytes, n, f) ==
  /\ f[0] = [header |-> NoCanonicalHeader, blocks |-> <<>>, payload |-> bytes]
  /\ \A i \in 1..n : f[i] = IF IsLastBlock(f[i - 1].header) THEN f[i - 1] ELSE NextBlock(f[i - 1])

LEMMA BlocksIs ==
  ASSUME NEW bytes, Len(bytes) \in Nat, NEW f, BlocksUp(bytes, Len(bytes), f)
  PROVE  Blocks(bytes) = f[Len(bytes)]
<1> DEFINE n == Len(bytes)
           first == [header |-> NoCanonicalHeader, blocks |-> <<>>, payload |-> bytes]
           then(r) == IF IsLastBlock(r.header) THEN r ELSE NextBlock(r)
           Is(h) == h = [i \in 0..n |-> IF i = 0 THEN first ELSE then(h[i - 1])]
           w == [i \in 0..n |-> f[i]]
           c == CHOOSE h : Is(h)
<1>1. \A i \in 0..n : i = 0 \/ (i # 0 /\ i \in 1..n /\ i - 1 \in 0..n)
  OBVIOUS
<1>2. f[0] = first /\ \A i \in 1..n : f[i] = then(f[i - 1])
  BY DEF BlocksUp
<1>3. Blocks(bytes) = c[n]
  BY DEF Blocks
<1> HIDE DEF first, then
<1>4. Is(w)
  <2>1. \A i \in 0..n : w[i] = f[i]
    OBVIOUS
  <2>2. \A i \in 0..n : f[i] = IF i = 0 THEN first ELSE then(w[i - 1])
    <3> HIDE DEF w, n
    <3> QED BY <1>1, <1>2, <2>1
  <2> QED BY <2>2
<1>5. Is(c)
  <2> HIDE DEF w, n, Is
  <2> QED BY <1>4
<1> HIDE DEF c
<1>6. SameRecursion(n, f, c)
  <2>1. 0 \in 0..n /\ \A i \in 1..n : i \in 0..n /\ i # 0
    OBVIOUS
  <2>2. \A i \in 0..n : c[i] = IF i = 0 THEN first ELSE then(c[i - 1])
    BY <1>5
  <2> HIDE DEF n
  <2> QED BY <1>2, <2>1, <2>2 DEF SameRecursion
<1>7. n \in 0..n
  OBVIOUS
<1> HIDE DEF n
<1> QED BY <1>3, <1>6, <1>7, RecursionAgrees DEF n

LEMMA OneBlock ==
  ASSUME NEW c \in PayloadHeaders, NEW payload \in Seq(Octet)
  PROVE  Blocks(WriteAll(CanonicalFields(c)) \o payload)
           = [header |-> c, blocks |-> <<c>>, payload |-> payload]
<1> DEFINE w == WriteAll(CanonicalFields(c))
           k == CanonicalSize(c)
           bytes == w \o payload
           n == Len(bytes)
           first == [header |-> NoCanonicalHeader, blocks |-> <<>>, payload |-> bytes]
           end == [header |-> c, blocks |-> <<c>>, payload |-> payload]
           f == [i \in 0..n |-> IF i = 0 THEN first ELSE end]
<1>1. /\ Octets(w, k) /\ k > 0 /\ CanonicalRead(bytes, NoCanonicalHeader) = c /\ IsLastBlock(c)
  BY CanonicalIsRead, SizedOctets
<1>2. /\ w \in Seq(Octet) /\ Len(w) = k
  BY <1>1 DEF Octets
<1> HIDE DEF w, k
<1>3. SubSeq(w \o payload, Len(w) + 1, Len(w \o payload)) = payload
  BY ONLY <1>2, FrontAndRest, payload \in Seq(Octet)
<1>4. SubSeq(bytes, k + 1, Len(bytes)) = payload /\ n \in Nat /\ n > 0
  <2>1. Len(w \o payload) = Len(w) + Len(payload)
    BY ONLY <1>2, ConcatProperties, payload \in Seq(Octet)
  <2>2. Len(w) \in Nat /\ Len(payload) \in Nat
    BY ONLY <1>2, LenProperties, payload \in Seq(Octet)
  <2>3. n = k + Len(payload)
    BY ONLY <1>2, <2>1
  <2>4. n \in Nat /\ n > 0
    <3> HIDE DEF n
    <3> QED BY ONLY <1>1, <1>2, <2>2, <2>3
  <2>5. SubSeq(bytes, k + 1, Len(bytes)) = payload
    BY ONLY <1>2, <1>3
  <2> QED BY ONLY <2>4, <2>5
<1> HIDE DEF bytes, n
<1>5. f[0] = first /\ \A i \in 1..n : f[i] = end
  BY <1>4
<1>6. ~IsLastBlock(first.header)
  BY DEF IsLastBlock, NoCanonicalHeader, GetBit, CanonicalFlag
<1>7. NextBlock(first) = end
  <2>1. first.header = NoCanonicalHeader /\ first.payload = bytes /\ first.blocks = <<>>
    OBVIOUS
  <2>2. Append(<<>>, c) = <<c>>
    OBVIOUS
  <2> HIDE DEF first
  <2> QED BY <1>1, <1>4, <2>1, <2>2 DEF NextBlock, k
<1>8. IsLastBlock(end.header)
  BY <1>1
<1> HIDE DEF f, end
<1>9. ASSUME NEW i \in 1..n
      PROVE  f[i] = IF IsLastBlock(f[i - 1].header) THEN f[i - 1] ELSE NextBlock(f[i - 1])
  <2>1. CASE i = 1
    <3>1. f[i - 1] = first
      BY <1>5, <2>1
    <3> HIDE DEF first
    <3> QED BY <1>5, <1>6, <1>7, <3>1
  <2>2. CASE i # 1
    <3>1. i - 1 \in 1..n
      BY <1>4, <2>2
    <3>2. f[i - 1] = end /\ f[i] = end
      BY <1>5, <3>1
    <3> QED BY <1>8, <3>2
  <2> QED BY <2>1, <2>2
<1>10. BlocksUp(bytes, n, f)
  BY <1>5, <1>9 DEF BlocksUp
<1>11. Blocks(bytes) = f[n]
  BY ONLY <1>4, <1>10, BlocksIs DEF n
<1>12. n \in 1..n
  BY <1>4
<1> QED BY <1>5, <1>11, <1>12 DEF end, bytes, w

(* A bundle of one header, made by a node or from a packet.                *)
Constraints == {"RC_CUSTODY_ACCEPTED", "RC_FORWARDING_PENDING"}

Carried ==
  [primary : Headers, canonical : {<<c>> : c \in PayloadHeaders}, payload : Seq(Octet),
   gbid : Gbids, rcs : SUBSET Constraints, receivedFrom : SUBSET Eids, reclist : SUBSET Eids]

LEMMA CarriedHas ==
  ASSUME NEW b \in Carried
  PROVE  /\ b.primary \in Headers /\ b.payload \in Seq(Octet) /\ b.gbid \in Gbids
         /\ \E c \in PayloadHeaders :
              b.canonical = <<c>> /\ Len(b.canonical) = 1 /\ b.canonical[1] = c
         /\ b = [primary |-> b.primary, canonical |-> b.canonical, payload |-> b.payload,
                 gbid |-> b.gbid, rcs |-> b.rcs, receivedFrom |-> b.receivedFrom,
                 reclist |-> b.reclist]
<1>1. b.primary \in Headers /\ b.payload \in Seq(Octet) /\ b.gbid \in Gbids
  BY DEF Carried
<1>2. PICK c \in PayloadHeaders : b.canonical = <<c>>
  BY DEF Carried
<1>3. Len(b.canonical) = 1 /\ b.canonical[1] = c
  BY <1>2
<1>4. b = [primary |-> b.primary, canonical |-> b.canonical, payload |-> b.payload,
           gbid |-> b.gbid, rcs |-> b.rcs, receivedFrom |-> b.receivedFrom,
           reclist |-> b.reclist]
  BY DEF Carried
<1> QED BY <1>1, <1>2, <1>3, <1>4

LEMMA PacketIs ==
  ASSUME NEW b \in Carried
  PROVE  ToPacket(b) = (WriteAll(PrimaryFields(b.primary))
                        \o WriteAll(CanonicalFields(b.canonical[1]))) \o b.payload
<1> DEFINE n == Len(b.canonical)
           p == WriteAll(PrimaryFields(b.primary))
           q(i) == WriteAll(CanonicalFields(b.canonical[i]))
           Is(h) == h = [i \in 0..n |-> IF i = 0 THEN p ELSE h[i - 1] \o q(i)]
           w == [i \in 0..n |-> IF i = 0 THEN p ELSE p \o q(i)]
           c == CHOOSE h : Is(h)
<1>1. n = 1
  BY CarriedHas
<1>2. ToPacket(b) = c[n] \o b.payload
  BY DEF ToPacket
<1> HIDE DEF p, q
<1>3. Is(w)
  <2>1. \A i \in 0..n : i = 0 \/ i = 1
    BY <1>1
  <2>2. w[0] = p
    BY <1>1
  <2>3. w = [i \in 0..n |-> IF i = 0 THEN p ELSE w[i - 1] \o q(i)]
    <3> HIDE DEF n
    <3>1. \A i \in 0..n : (IF i = 0 THEN p ELSE p \o q(i))
                            = (IF i = 0 THEN p ELSE w[i - 1] \o q(i))
      <4> HIDE DEF w
      <4> QED BY <2>1, <2>2
    <3> QED BY <3>1
  <2> QED BY <2>3
<1>4. Is(c)
  <2> HIDE DEF w, n, Is
  <2> QED BY <1>3
<1> HIDE DEF c, n
<1>5. c[0] = p /\ c[1] = c[0] \o q(1)
  BY <1>1, <1>4
<1> QED BY <1>1, <1>2, <1>5 DEF p, q

LEMMA BundleSizeIs ==
  ASSUME NEW b \in Carried
  PROVE  BundleSize(b) = PrimarySize(b.primary) + Len(b.payload)
                         + (0 + CanonicalSize(b.canonical[1]))
<1> DEFINE n == Len(b.canonical)
           q(i) == CanonicalSize(b.canonical[i])
           Is(h) == h = [i \in 0..n |-> IF i = 0 THEN 0 ELSE h[i - 1] + q(i)]
           w == [i \in 0..n |-> IF i = 0 THEN 0 ELSE 0 + q(i)]
           c == CHOOSE h : Is(h)
<1>1. n = 1
  BY CarriedHas
<1>2. BundleSize(b) = PrimarySize(b.primary) + Len(b.payload) + c[n]
  BY DEF BundleSize
<1> HIDE DEF q
<1>3. Is(w)
  <2>1. \A i \in 0..n : i = 0 \/ i = 1
    BY <1>1
  <2>2. w[0] = 0
    BY <1>1
  <2>3. w = [i \in 0..n |-> IF i = 0 THEN 0 ELSE w[i - 1] + q(i)]
    <3> HIDE DEF n
    <3>1. \A i \in 0..n : (IF i = 0 THEN 0 ELSE 0 + q(i))
                            = (IF i = 0 THEN 0 ELSE w[i - 1] + q(i))
      <4> HIDE DEF w
      <4> QED BY <2>1, <2>2
    <3> QED BY <3>1
  <2> QED BY <2>3
<1>4. Is(c)
  <2> HIDE DEF w, n, Is
  <2> QED BY <1>3
<1> HIDE DEF c, n
<1>5. c[0] = 0 /\ c[1] = c[0] + q(1)
  BY <1>1, <1>4
<1> QED BY <1>1, <1>2, <1>5 DEF q

(* What a bundle is made of. *)
BundleOf(primary, canonical, payload, gbid, rcs, receivedFrom, reclist) ==
  [primary |-> primary, canonical |-> canonical, payload |-> payload, gbid |-> gbid,
   rcs |-> rcs, receivedFrom |-> receivedFrom, reclist |-> reclist]

(* A bundle that is made, or read: all is put in its place but what only   *)
(* its node knows.                                                         *)
ReadOf(h, cs, p, g) ==
  [NoBundle EXCEPT !.primary = h, !.canonical = cs, !.payload = p, !.gbid = g]

MadeOf(h, cs, p, g, list) ==
  [NoBundle EXCEPT !.primary = h, !.canonical = cs, !.payload = p, !.gbid = g,
                   !.reclist = list]

LEMMA BundleMade ==
  ASSUME NEW h, NEW cs, NEW p, NEW g, NEW list
  PROVE  /\ MadeOf(h, cs, p, g, list) = BundleOf(h, cs, p, g, {}, {}, list)
         /\ ReadOf(h, cs, p, g) = BundleOf(h, cs, p, g, {}, {}, {})
<1> DEFINE h0 == NoPrimaryHeader
           g0 == Identifier(h0)
           none == <<>>
           nobody == {}
           N0 == NoBundle
           N1 == [N0 EXCEPT !.primary = h]
           N2 == [N1 EXCEPT !.canonical = cs]
           N3 == [N2 EXCEPT !.payload = p]
           N4 == [N3 EXCEPT !.gbid = g]
           N5 == [N4 EXCEPT !.reclist = list]
<1>1. ReadOf(h, cs, p, g) = N4 /\ MadeOf(h, cs, p, g, list) = N5
  BY DEF ReadOf, MadeOf
<1>2. N0 = BundleOf(h0, none, none, g0, nobody, nobody, nobody)
  BY DEF NoBundle, BundleOf
<1> HIDE DEF N0, h0, g0, none, nobody
<1>3. N1 = BundleOf(h, none, none, g0, nobody, nobody, nobody)
  BY ONLY <1>2 DEF BundleOf
<1> HIDE DEF N1
<1>4. N2 = BundleOf(h, cs, none, g0, nobody, nobody, nobody)
  BY ONLY <1>3 DEF BundleOf
<1> HIDE DEF N2
<1>5. N3 = BundleOf(h, cs, p, g0, nobody, nobody, nobody)
  BY ONLY <1>4 DEF BundleOf
<1> HIDE DEF N3
<1>6. N4 = BundleOf(h, cs, p, g, nobody, nobody, nobody)
  BY ONLY <1>5 DEF BundleOf
<1> HIDE DEF N4
<1>7. N5 = BundleOf(h, cs, p, g, nobody, nobody, list)
  BY ONLY <1>6 DEF BundleOf
<1> HIDE DEF N5
<1> QED BY ONLY <1>1, <1>6, <1>7 DEF nobody

(* What a bundle is on the wire: as long as its size says, and read back.  *)
LEMMA BundleIsRead ==
  ASSUME NEW b \in Carried
  PROVE  /\ BundleSize(b) = Len(ToPacket(b)) /\ ToPacket(b) \in Seq(Octet)
         /\ FromPacket(ToPacket(b)) =
              ReadOf(b.primary, b.canonical, b.payload, Identifier(b.primary))
<1> DEFINE h == b.primary
           p == WriteAll(PrimaryFields(h))
           payload == b.payload
<1>1. PICK c \in PayloadHeaders : b.canonical = <<c>> /\ b.canonical[1] = c
  BY CarriedHas
<1>2. h \in Headers /\ payload \in Seq(Octet)
  BY CarriedHas
<1> DEFINE q == WriteAll(CanonicalFields(c))
           m == PrimarySize(h)
           n == CanonicalSize(c)
           bytes == ToPacket(b)
<1>3. Octets(p, m) /\ Octets(q, n)
  BY <1>2, PrimaryFieldsAre, CanonicalIsRead, SizedOctets
<1>4. bytes = (p \o q) \o payload
  BY <1>1, PacketIs
<1>5. BundleSize(b) = m + Len(payload) + (0 + n)
  BY <1>1, BundleSizeIs
<1>6. Blocks(q \o payload) = [header |-> c, blocks |-> <<c>>, payload |-> payload]
  BY <1>2, OneBlock
<1>7. \A behind \in Seq(Octet) : PrimaryRead(p \o behind) = h
  BY <1>2, PrimaryIsRead
<1> HIDE DEF p, q, m, n, h, payload, bytes
<1>8. /\ p \in Seq(Octet) /\ q \in Seq(Octet) /\ Len(p) = m /\ Len(q) = n
      /\ m \in Nat /\ n \in Nat /\ Len(payload) \in Nat
  <2>1. p \in Seq(Octet) /\ q \in Seq(Octet) /\ Len(p) = m /\ Len(q) = n
    BY <1>3 DEF Octets
  <2>2. Len(p) \in Nat /\ Len(q) \in Nat /\ Len(payload) \in Nat
    BY ONLY <1>2, <2>1, LenProperties
  <2> QED BY ONLY <2>1, <2>2
<1>9. BundleSize(b) = Len(bytes) /\ bytes \in Seq(Octet)
  <2>1. p \o q \in Seq(Octet) /\ Len(p \o q) = Len(p) + Len(q)
    BY ONLY <1>8, ConcatProperties
  <2>2. /\ (p \o q) \o payload \in Seq(Octet)
        /\ Len((p \o q) \o payload) = Len(p \o q) + Len(payload)
    BY ONLY <1>2, <2>1, ConcatProperties
  <2> QED BY ONLY <1>4, <1>5, <1>8, <2>1, <2>2
<1> DEFINE rest == q \o payload
<1>10. rest \in Seq(Octet) /\ bytes = p \o rest
  <2>1. rest \in Seq(Octet)
    BY ONLY <1>2, <1>8, OctetsOneMore
  <2>2. Together(p, q, payload)
    BY ONLY <1>2, <1>8, OctetsTogether
  <2> QED BY <1>4, <2>1, <2>2 DEF Together
<1> HIDE DEF rest
<1>11. PrimaryRead(bytes) = h
  BY ONLY <1>7, <1>10
<1>12. SubSeq(bytes, m + 1, Len(bytes)) = rest
  <2>1. SubSeq(p \o rest, Len(p) + 1, Len(p \o rest)) = rest
    BY ONLY <1>8, <1>10, FrontAndRest
  <2> QED BY ONLY <1>8, <1>10, <2>1
<1> DEFINE r == [header |-> c, blocks |-> <<c>>, payload |-> payload]
<1>13. r.blocks = <<c>> /\ r.payload = payload /\ Blocks(rest) = r
  BY <1>6 DEF rest
<1> HIDE DEF r
<1>14. FromPacket(bytes) = ReadOf(h, <<c>>, payload, Identifier(h))
  BY <1>11, <1>12, <1>13 DEF FromPacket, ReadOf, m
<1> QED BY <1>1, <1>9, <1>14 DEF bytes, h, payload

-----------------------------------------------------------------------------
(* The setters. *)

(* A header that is as good as another one to tell the bundle by.          *)
SameHeader(g, h) ==
  /\ g \in Headers
  /\ g.dictionary.source = h.dictionary.source
  /\ g.dictionary.destination = h.dictionary.destination
  /\ g.timestamp = h.timestamp /\ g.lifetime = h.lifetime /\ g.globalId = h.globalId
  /\ GetPriority(g.flags) = GetPriority(h.flags)

LEMMA FirstHeader == NoPrimaryHeader \in Headers
<1>1. AnyEid \in Eids
  BY DEF AnyEid, Eids, Word32
<1>2. [time |-> 0, sequence |-> 0] \in Times
  BY DEF Times
<1>3. [source |-> AnyEid, timestamp |-> [time |-> 0, sequence |-> 0]] \in Gbids
  BY <1>1, <1>2 DEF Gbids
<1>4. [destination |-> AnyEid, source |-> AnyEid, custodian |-> AnyEid] \in Dictionaries
  BY <1>1 DEF Dictionaries
<1> QED BY <1>2, <1>3, <1>4 DEF NoPrimaryHeader, Headers, Octet

(* The block length that is worked out is a number.                        *)
LEMMA BlockLengthIs ==
  ASSUME NEW h \in Headers
  PROVE  CalcBlockLength(h) \in Headers /\ SameHeader(CalcBlockLength(h), h)
<1> DEFINE n == PrimarySize(h) - EncodingLength(Word(h.flags)) - EncodingLength(h.blockLength)
<1>1. n \in Nat
  <2>1. ~IsFragment(h)
    BY NumbersOf DEF IsFragment, GetBit, Flag
  <2>2. /\ EncodingLength(Word(h.flags)) \in Nat /\ EncodingLength(h.blockLength) \in Nat
        /\ EncodingLength(h.replicationFactor) \in Nat /\ EncodingLength(h.lifetime) \in Nat
        /\ EncodingLength(h.globalId) \in Nat /\ EncodingLength(GbidSize(h.custody)) \in Nat
        /\ EncodingLength(DictionarySize(h.dictionary)) \in Nat
    BY NumbersOf, EncodeIs
  <2>3. /\ TimestampSize(h.timestamp) \in Nat /\ GbidSize(h.custody) \in Nat
        /\ DictionarySize(h.dictionary) \in Nat
    BY NumbersOf, TimestampFieldsAre DEF Sized
  <2> QED BY <2>1, <2>2, <2>3 DEF PrimarySize
<1>2. CalcBlockLength(h) = [h EXCEPT !.blockLength = n]
  BY DEF CalcBlockLength
<1> HIDE DEF n
<1>3. [h EXCEPT !.blockLength = n] \in Headers
  BY <1>1 DEF Headers
<1>4. SameHeader([h EXCEPT !.blockLength = n], h)
  BY <1>3 DEF SameHeader, Headers
<1> QED BY <1>2, <1>3, <1>4

(* A flag other than that of a fragment and those of the priority is set.  *)
LEMMA FlagIsSet ==
  ASSUME NEW h \in Headers, NEW value \in BOOLEAN,
         NEW flag \in {"custodyTransferRequested", "reportCustodyAcceptance"}
  PROVE  SameHeader(SetFlag(h, flag, value), h)
<1> DEFINE flags == SetBit(h.flags, Flag[flag], value)
<1>1. h.flags \in SUBSET (1..20) /\ Flag[flag] \in {3, 15}
  BY DEF Headers, Flag
<1>2. flags \in SUBSET (1..20) /\ (7 \in flags <=> 7 \in h.flags) /\ (8 \in flags <=> 8 \in h.flags)
  BY <1>1 DEF SetBit
<1>3. SetFlag(h, flag, value) = [h EXCEPT !.flags = flags]
  BY DEF SetFlag
<1>4. GetPriority(flags) = GetPriority(h.flags)
  BY <1>2 DEF GetPriority, GetBit
<1> HIDE DEF flags
<1>5. [h EXCEPT !.flags = flags] \in Headers
  BY <1>2 DEF Headers
<1> QED BY <1>3, <1>4, <1>5 DEF SameHeader, Headers

LEMMA PriorityIsSet ==
  ASSUME NEW flags \in SUBSET (1..20), NEW priority \in Priority
  PROVE  SetPriority(flags, priority) \in SUBSET (1..20)
<1>1. ASSUME NEW fs \in SUBSET (1..20), NEW bit \in {7, 8}, NEW value
      PROVE  SetBit(fs, bit, value) \in SUBSET (1..20)
  BY DEF SetBit
<1> QED BY <1>1 DEF SetPriority

LEMMA CustodianIsSet ==
  ASSUME NEW h \in Headers, NEW n \in Eids
  PROVE  SameHeader(SetCustodianEndpoint(h, n), h)
<1> DEFINE d == [h.dictionary EXCEPT !.custodian = n]
           g == [h EXCEPT !.dictionary = d]
<1>1. h.dictionary \in Dictionaries
  BY DEF Headers
<1>2. /\ d \in Dictionaries /\ d.source = h.dictionary.source
      /\ d.destination = h.dictionary.destination
  BY <1>1 DEF Dictionaries
<1>3. SetCustodianEndpoint(h, n) = CalcBlockLength(g)
  BY DEF SetCustodianEndpoint
<1> HIDE DEF d
<1>4. g \in Headers
  BY <1>2 DEF Headers
<1>5. SameHeader(g, h)
  BY <1>2, <1>4 DEF SameHeader, Headers
<1>6. SameHeader(CalcBlockLength(g), g)
  <2> HIDE DEF g
  <2> QED BY <1>4, BlockLengthIs
<1> HIDE DEF g
<1> QED BY <1>3, <1>5, <1>6 DEF SameHeader

WithCopies(h, k) == [h EXCEPT !.replicationFactor = k]

AsAnswer(h, g) == [h EXCEPT !.replicationFactor = 20, !.custody = g]

LEMMA CopiesAreSet ==
  ASSUME NEW h \in Headers, NEW k \in Nat, NEW g \in Gbids
  PROVE  SameHeader(WithCopies(h, k), h) /\ SameHeader(AsAnswer(h, g), h)
<1>1. WithCopies(h, k) \in Headers /\ AsAnswer(h, g) \in Headers
  BY DEF Headers, WithCopies, AsAnswer
<1>2. SameHeader(WithCopies(h, k), h)
  BY <1>1 DEF SameHeader, Headers, WithCopies
<1>3. SameHeader(AsAnswer(h, g), h)
  BY <1>1 DEF SameHeader, Headers, AsAnswer
<1> QED BY <1>2, <1>3

LEMMA SameAgain ==
  ASSUME NEW f, NEW g, NEW h, SameHeader(f, g), SameHeader(g, h)
  PROVE  SameHeader(f, h)
BY DEF SameHeader

-----------------------------------------------------------------------------
(* The bundle that is generated. *)

LEMMA GeneratedHeader ==
  ASSUME NEW h \in Headers, NEW n \in Eids, NEW destination \in Eids, NEW t \in Times,
         NEW seconds \in Nat
  PROVE  /\ SetCustodianEndpoint(SetSourceEndpoint(SetDestinationEndpoint(h, destination), n), n)
              \in Headers
         /\ SetLifetime(SetCreationTimestamp(h, t), seconds) \in Headers
<1>1. ASSUME NEW g \in Headers
      PROVE  /\ SetDestinationEndpoint(g, destination) \in Headers
             /\ SetSourceEndpoint(g, n) \in Headers
  <2>1. g.dictionary \in Dictionaries
    BY DEF Headers
  <2>2. /\ [g.dictionary EXCEPT !.destination = destination] \in Dictionaries
        /\ [g.dictionary EXCEPT !.source = n] \in Dictionaries
    BY <2>1 DEF Dictionaries
  <2>3. [g EXCEPT !.dictionary.destination = destination] \in Headers
    BY <2>2 DEF Headers
  <2>4. [g EXCEPT !.dictionary.source = n] \in Headers
    BY <2>2 DEF Headers
  <2> QED BY <2>3, <2>4, BlockLengthIs DEF SetDestinationEndpoint, SetSourceEndpoint
<1>2. ASSUME NEW g \in Headers PROVE SetCustodianEndpoint(g, n) \in Headers
  BY CustodianIsSet DEF SameHeader
<1>3. SetCreationTimestamp(h, t) \in Headers
  <2>1. [h EXCEPT !.timestamp = t] \in Headers
    BY DEF Headers
  <2> QED BY <2>1, BlockLengthIs DEF SetCreationTimestamp
<1>4. ASSUME NEW g \in Headers PROVE SetLifetime(g, seconds) \in Headers
  <2>1. [g EXCEPT !.lifetime = seconds] \in Headers
    BY DEF Headers
  <2> QED BY <2>1, BlockLengthIs DEF SetLifetime
<1> QED BY <1>1, <1>2, <1>3, <1>4

(* The bundle has the identifier of its header.                            *)
LEMMA GeneratedBundle ==
  ASSUME NEW n \in Eids, NEW destination \in Eids, NEW request \in Request,
         NEW t \in Times, t = [time |-> Seconds, sequence |-> Sequence], now \in Nat
  PROVE  LET b == GenerateBundle(n, destination, request)
         IN  b \in Carried /\ b.gbid = Identifier(b.primary)
<1>1. /\ request.priority \in Priority /\ request.lifetime \in Nat
      /\ request.payload \in Seq(Octet) /\ request.asked \subseteq 1..20 /\ FirstId \in Nat
  <2>1. /\ Request \subseteq [priority : Priority, lifetime : Nat, payload : Seq(Octet),
                            asked : SUBSET (1..20)]
        /\ FirstId \in Nat
    BY WireAssumption
  <2>2. request \in [priority : Priority, lifetime : Nat, payload : Seq(Octet),
                     asked : SUBSET (1..20)]
    BY ONLY <2>1, request \in Request
  <2> QED BY ONLY <2>1, <2>2
<1> DEFINE flags == SetPriority(request.asked, request.priority)
           h0 == [NoPrimaryHeader EXCEPT !.flags = flags]
           h1 == SetCustodianEndpoint(
                   SetSourceEndpoint(SetDestinationEndpoint(h0, destination), n), n)
           h2 == SetLifetime(SetCreationTimestamp(h1, t), request.lifetime)
           h3 == SetFlag(SetFlag(h2, "custodyTransferRequested", FALSE),
                         "reportCustodyAcceptance", FALSE)
           c == [NoCanonicalHeader EXCEPT
                   !.flags = {CanonicalFlag.lastBlock, CanonicalFlag.discardBlock},
                   !.blockLength = Len(request.payload)]
           id == FirstId + now
           h == [h3 EXCEPT !.globalId = id]
           b == [NoBundle EXCEPT !.primary = h, !.canonical = <<c>>, !.payload = request.payload,
                                 !.gbid = Identifier(h3), !.reclist = {n}]
<1>2. GenerateBundle(n, destination, request) = b
  BY DEF GenerateBundle
<1>3. flags \in SUBSET (1..20)
  BY ONLY <1>1, PriorityIsSet
<1>4. c \in PayloadHeaders
  <2>1. Len(request.payload) \in Nat
    BY <1>1, LenProperties
  <2> DEFINE k == Len(request.payload)
  <2> HIDE DEF k
  <2> QED BY <2>1 DEF PayloadHeaders, NoCanonicalHeader, k
<1>5. id \in Nat
  BY <1>1
<1> HIDE DEF flags, c, id
<1>6. h0 \in Headers
  BY <1>3, FirstHeader DEF Headers
<1> HIDE DEF h0
<1>7. h1 \in Headers
  BY <1>6, GeneratedHeader
<1> HIDE DEF h1
<1>8. h2 \in Headers
  BY <1>1, <1>7, GeneratedHeader
<1> HIDE DEF h2
<1>9. h3 \in Headers
  BY <1>8, FlagIsSet DEF SameHeader
<1> HIDE DEF h3
<1>10. h \in Headers /\ Identifier(h) = Identifier(h3)
  BY <1>5, <1>9 DEF Headers, Identifier
<1>11. Identifier(h3) \in Gbids
  <2>1. h3.dictionary \in Dictionaries /\ h3.timestamp \in Times
    BY <1>9 DEF Headers
  <2>2. h3.dictionary.source \in Eids
    BY <2>1 DEF Dictionaries
  <2> QED BY <2>1, <2>2 DEF Identifier, Gbids
<1>12. <<c>> \in {<<x>> : x \in PayloadHeaders}
  BY <1>4
<1> DEFINE g == Identifier(h3)
           cs == <<c>>
<1> HIDE DEF h, g, cs
<1>13. b \in Carried /\ b.gbid = g /\ b.primary = h
  <2> DEFINE list == {n}
             payload == request.payload
  <2>2. b = MadeOf(h, cs, payload, g, list)
    BY DEF MadeOf, g, cs
  <2> HIDE DEF b, list, payload
  <2>3. b = BundleOf(h, cs, payload, g, {}, {}, list)
    BY ONLY <2>2, BundleMade
  <2>4. cs \in {<<x>> : x \in PayloadHeaders} /\ g \in Gbids
    BY <1>11, <1>12 DEF g, cs
  <2>5. list \in SUBSET Eids /\ payload \in Seq(Octet)
    BY <1>1 DEF list, payload
  <2> QED BY ONLY <1>10, <2>3, <2>4, <2>5 DEF Carried, BundleOf
<1> HIDE DEF b
<1> QED BY <1>2, <1>10, <1>13 DEF g

-----------------------------------------------------------------------------
(* The bundle on its way. *)

(* What KeepsIdentity says of b, made as o.                                *)
Same(b, o) ==
  /\ b.gbid = o.gbid /\ Identifier(b.primary) = b.gbid
  /\ b.primary.dictionary.destination = o.primary.dictionary.destination
  /\ b.primary.lifetime = o.primary.lifetime
  /\ GetPriority(b.primary.flags) = GetPriority(o.primary.flags)
  /\ b.primary.globalId = o.primary.globalId
  /\ b.canonical = o.canonical /\ b.payload = o.payload

(* The bundle is as it was made, and what is on the air is its packet.     *)
FollowedInv ==
  /\ packet \in Seq(Octet) /\ hops \in 0..HopBound
  /\ origin = NoBundle => bundle = NoBundle /\ packet = <<>>
  /\ origin # NoBundle =>
       /\ bundle \in Carried /\ Same(bundle, origin)
       /\ packet # <<>> => packet = ToPacket(bundle)

WireInv == StampsInv /\ FollowedInv

LEMMA EndpointsAreEids == Endpoint \subseteq Eids
BY WireAssumption DEF Eids, Word32

LEMMA BundleIs ==
  ASSUME NEW b \in Carried
  PROVE  /\ b = BundleOf(b.primary, b.canonical, b.payload, b.gbid, b.rcs, b.receivedFrom,
                         b.reclist)
         /\ b.primary \in Headers /\ b.canonical \in {<<c>> : c \in PayloadHeaders}
         /\ b.payload \in Seq(Octet) /\ b.gbid \in Gbids /\ b.rcs \subseteq Constraints
         /\ b.receivedFrom \subseteq Eids /\ b.reclist \subseteq Eids
<1>1. b = BundleOf(b.primary, b.canonical, b.payload, b.gbid, b.rcs, b.receivedFrom, b.reclist)
  BY CarriedHas DEF BundleOf
<1> QED BY <1>1 DEF Carried

(* A bundle whose header tells as much as that of b, and which is of the   *)
(* same payload and identifier.                                            *)
LEMMA SameBundle ==
  ASSUME NEW b \in Carried, NEW o, Same(b, o), NEW h, SameHeader(h, b.primary),
         NEW rcs \in SUBSET Constraints, NEW from \in SUBSET Eids, NEW list \in SUBSET Eids
  PROVE  LET x == BundleOf(h, b.canonical, b.payload, b.gbid, rcs, from, list)
         IN  x \in Carried /\ Same(x, o)
<1> DEFINE x == BundleOf(h, b.canonical, b.payload, b.gbid, rcs, from, list)
<1>1. /\ x.primary = h /\ x.canonical = b.canonical /\ x.payload = b.payload
      /\ x.gbid = b.gbid
  BY DEF BundleOf
<1>2. x \in Carried
  <2>1. h \in Headers
    BY DEF SameHeader
  <2> QED BY <2>1, BundleIs DEF Carried, BundleOf
<1> HIDE DEF x
<1>3. Same(x, o)
  <2>1. Identifier(h) = Identifier(b.primary)
    BY DEF SameHeader, Identifier
  <2> QED BY <1>1, <2>1 DEF Same, SameHeader
<1> QED BY <1>2, <1>3 DEF x

(* What the setters make of a bundle.                                      *)
WithHeader(b, h) == [b EXCEPT !.primary = h]

AsAccepted(b, rcs, h) == [b EXCEPT !.rcs = rcs, !.primary = h]

AsNoted(b, from, list, rcs) == [b EXCEPT !.receivedFrom = from, !.reclist = list, !.rcs = rcs]

AsRead(b) == [b EXCEPT !.rcs = {}, !.receivedFrom = {}, !.reclist = {}]

LEMMA BundleIsSet ==
  ASSUME NEW b \in Carried, NEW h, NEW rcs, NEW from, NEW list
  PROVE  /\ WithHeader(b, h)
              = BundleOf(h, b.canonical, b.payload, b.gbid, b.rcs, b.receivedFrom, b.reclist)
         /\ AsAccepted(b, rcs, h)
              = BundleOf(h, b.canonical, b.payload, b.gbid, rcs, b.receivedFrom, b.reclist)
         /\ AsNoted(b, from, list, rcs)
              = BundleOf(b.primary, b.canonical, b.payload, b.gbid, rcs, from, list)
         /\ AsRead(b) = BundleOf(b.primary, b.canonical, b.payload, b.gbid, {}, {}, {})
<1> DEFINE h0 == b.primary
           cs == b.canonical
           p == b.payload
           g == b.gbid
           rcs0 == b.rcs
           from0 == b.receivedFrom
           list0 == b.reclist
           nobody == {}
           N1 == [b EXCEPT !.primary = h]
           N2 == [b EXCEPT !.rcs = rcs]
           N3 == [N2 EXCEPT !.primary = h]
           N4 == [b EXCEPT !.receivedFrom = from]
           N5 == [N4 EXCEPT !.reclist = list]
           N6 == [N5 EXCEPT !.rcs = rcs]
           N7 == [b EXCEPT !.rcs = nobody]
           N8 == [N7 EXCEPT !.receivedFrom = nobody]
           N9 == [N8 EXCEPT !.reclist = nobody]
<1>1. /\ WithHeader(b, h) = N1 /\ AsAccepted(b, rcs, h) = N3
      /\ AsNoted(b, from, list, rcs) = N6 /\ AsRead(b) = N9
  BY DEF WithHeader, AsAccepted, AsNoted, AsRead
<1>2. b = BundleOf(h0, cs, p, g, rcs0, from0, list0)
  BY BundleIs
<1> HIDE DEF h0, cs, p, g, rcs0, from0, list0, nobody
<1>3. N1 = BundleOf(h, cs, p, g, rcs0, from0, list0)
  BY ONLY <1>2 DEF BundleOf
<1>4. N2 = BundleOf(h0, cs, p, g, rcs, from0, list0)
  BY ONLY <1>2 DEF BundleOf
<1>5. N4 = BundleOf(h0, cs, p, g, rcs0, from, list0)
  BY ONLY <1>2 DEF BundleOf
<1>6. N7 = BundleOf(h0, cs, p, g, nobody, from0, list0)
  BY ONLY <1>2 DEF BundleOf
<1> HIDE DEF N1, N2, N4, N7
<1>7. N3 = BundleOf(h, cs, p, g, rcs, from0, list0)
  BY ONLY <1>4 DEF BundleOf
<1>8. N5 = BundleOf(h0, cs, p, g, rcs0, from, list)
  BY ONLY <1>5 DEF BundleOf
<1>9. N8 = BundleOf(h0, cs, p, g, nobody, nobody, list0)
  BY ONLY <1>6 DEF BundleOf
<1> HIDE DEF N3, N5, N8
<1>10. N6 = BundleOf(h0, cs, p, g, rcs, from, list)
  BY ONLY <1>8 DEF BundleOf
<1>11. N9 = BundleOf(h0, cs, p, g, nobody, nobody, nobody)
  BY ONLY <1>9 DEF BundleOf
<1> HIDE DEF N6, N9
<1> QED BY <1>1, <1>3, <1>7, <1>10, <1>11
        DEF h0, cs, p, g, rcs0, from0, list0, nobody

-----------------------------------------------------------------------------
(* The steps *)

LEMMA FollowedInit == WireInit => FollowedInv
<1>1. WireAssumption => 0 \in 0..HopBound
  BY DEF WireAssumption
<1>2. <<>> \in Seq(Octet)
  OBVIOUS
<1> QED BY <1>1, <1>2, WireAssumption DEF WireInit, FollowedInv

(* The bundle that is made is followed.                                    *)
LEMMA FollowedMade == StampsInv /\ FollowedInv /\ Follow => FollowedInv'
<1> SUFFICES ASSUME StampsInv, FollowedInv, Follow PROVE FollowedInv'
  OBVIOUS
<1>1. PICK n \in Endpoint, d \in Endpoint, request \in Request :
        origin' = GenerateBundle(n, d, request)
  BY DEF Follow
<1>2. /\ origin = NoBundle /\ packet' = packet /\ hops' = hops /\ bundle' = origin'
      /\ bundle = NoBundle /\ packet = <<>>
  BY DEF Follow, Before, FollowedInv
<1> DEFINE t == [time |-> Seconds, sequence |-> Sequence]
<1>3. now \in Nat /\ t \in Times
  <2>1. now \in Nat /\ previous.sequence \in Nat
    BY DEF StampsInv, StampsTypeOK
  <2>2. Seconds = SecondsAt(now) /\ Nanoseconds = NanosecondsAt(now)
    BY DEF Seconds, Nanoseconds, SecondsAt, NanosecondsAt
  <2>3. Seconds \in Nat /\ Nanoseconds \in Nat
    BY <2>1, <2>2, Clock
  <2>4. Sequence \in Nat
    BY <2>1, <2>3 DEF Sequence
  <2> QED BY <2>1, <2>3, <2>4 DEF Times
<1>4. n \in Eids /\ d \in Eids
  BY EndpointsAreEids
<1>5. origin' \in Carried /\ origin'.gbid = Identifier(origin'.primary)
  <2>1. t = [time |-> Seconds, sequence |-> Sequence]
    OBVIOUS
  <2> HIDE DEF t
  <2> QED BY <1>1, <1>3, <1>4, <2>1, GeneratedBundle
<1>6. Same(bundle', origin')
  BY <1>2, <1>5 DEF Same
<1> QED BY <1>2, <1>5, <1>6 DEF FollowedInv

(* A setter changes the header, or what only the node knows.               *)
LEMMA FollowedChanged ==
  ASSUME FollowedInv, NEW h, SameHeader(h, bundle.primary), NEW rcs \in SUBSET Constraints,
         NEW from \in SUBSET Eids, NEW list \in SUBSET Eids,
         Changed(BundleOf(h, bundle.canonical, bundle.payload, bundle.gbid, rcs, from, list))
  PROVE  FollowedInv'
<1> DEFINE x == BundleOf(h, bundle.canonical, bundle.payload, bundle.gbid, rcs, from, list)
<1>1. /\ origin # NoBundle /\ packet = <<>> /\ bundle' = x
      /\ UNCHANGED <<origin, packet, hops>>
  BY DEF Changed, Have
<1>2. bundle \in Carried /\ Same(bundle, origin)
  BY <1>1 DEF FollowedInv
<1>3. x \in Carried /\ Same(x, origin)
  BY <1>2, SameBundle
<1> HIDE DEF x
<1> QED BY <1>1, <1>3 DEF FollowedInv

LEMMA HaveCarried ==
  ASSUME FollowedInv, NEW b, Changed(b)
  PROVE  /\ bundle \in Carried /\ bundle.primary \in Headers /\ bundle.gbid \in Gbids
         /\ bundle.rcs \in SUBSET Constraints /\ bundle.receivedFrom \in SUBSET Eids
         /\ bundle.reclist \in SUBSET Eids
         /\ SameHeader(bundle.primary, bundle.primary)
<1>1. bundle \in Carried
  BY DEF Changed, Have, FollowedInv
<1>2. bundle.primary \in Headers
  BY <1>1, BundleIs
<1> QED BY <1>1, <1>2, BundleIs DEF SameHeader

(* A setter that changes the header only. *)
LEMMA FollowedHeader ==
  ASSUME FollowedInv, NEW h, SameHeader(h, bundle.primary), Changed(WithHeader(bundle, h))
  PROVE  FollowedInv'
<1> DEFINE rcs == bundle.rcs
           from == bundle.receivedFrom
           list == bundle.reclist
<1>1. bundle \in Carried
  BY HaveCarried
<1>2. rcs \in SUBSET Constraints /\ from \in SUBSET Eids /\ list \in SUBSET Eids
  BY HaveCarried
<1>3. WithHeader(bundle, h)
        = BundleOf(h, bundle.canonical, bundle.payload, bundle.gbid, rcs, from, list)
  BY <1>1, BundleIsSet
<1>4. Changed(BundleOf(h, bundle.canonical, bundle.payload, bundle.gbid, rcs, from, list))
  BY ONLY <1>3, Changed(WithHeader(bundle, h))
<1> HIDE DEF rcs, from, list
<1> QED BY <1>2, <1>4, FollowedChanged

LEMMA FollowedCopies == FollowedInv /\ SetReplicationFactor => FollowedInv'
<1> SUFFICES ASSUME FollowedInv, NEW k \in Copies,
                    Changed([bundle EXCEPT !.primary.replicationFactor = k])
             PROVE  FollowedInv'
  BY DEF SetReplicationFactor
<1> DEFINE h == WithCopies(bundle.primary, k)
<1>1. [bundle EXCEPT !.primary.replicationFactor = k] = WithHeader(bundle, h)
  BY DEF WithHeader, WithCopies
<1>2. Changed(WithHeader(bundle, h))
  BY <1>1
<1>3. bundle.primary \in Headers /\ bundle.gbid \in Gbids
  BY ONLY FollowedInv, <1>2, HaveCarried
<1>4. k \in Nat
  BY WireAssumption
<1>5. SameHeader(h, bundle.primary)
  BY ONLY <1>3, <1>4, CopiesAreSet
<1> HIDE DEF h
<1> QED BY ONLY FollowedInv, <1>2, <1>5, FollowedHeader

LEMMA FollowedAsked == FollowedInv /\ SetCustodyTransferRequested => FollowedInv'
<1> SUFFICES ASSUME FollowedInv, SetCustodyTransferRequested PROVE FollowedInv'
  OBVIOUS
<1> DEFINE flag == "custodyTransferRequested"
           value == TRUE
           h == SetFlag(bundle.primary, flag, value)
<1>1. Changed(WithHeader(bundle, h))
  BY DEF SetCustodyTransferRequested, WithHeader
<1>2. bundle.primary \in Headers
  BY ONLY FollowedInv, <1>1, HaveCarried
<1>3. flag \in {"custodyTransferRequested", "reportCustodyAcceptance"} /\ value \in BOOLEAN
  OBVIOUS
<1> HIDE DEF flag, value
<1>4. SameHeader(h, bundle.primary)
  BY ONLY <1>2, <1>3, FlagIsSet
<1> HIDE DEF h
<1> QED BY ONLY FollowedInv, <1>1, <1>4, FollowedHeader

LEMMA FollowedAccepted ==
  ASSUME FollowedInv, NEW n \in Endpoint, CustodyAcceptance(n)
  PROVE  FollowedInv'
<1> DEFINE h == SetCustodianEndpoint(bundle.primary, n)
           rcs == bundle.rcs \cup {"RC_CUSTODY_ACCEPTED"}
           from == bundle.receivedFrom
           list == bundle.reclist
<1>1. Changed(AsAccepted(bundle, rcs, h))
  BY DEF CustodyAcceptance, AsAccepted
<1>2. /\ bundle \in Carried /\ bundle.primary \in Headers /\ bundle.rcs \in SUBSET Constraints
      /\ from \in SUBSET Eids /\ list \in SUBSET Eids
  BY ONLY FollowedInv, <1>1, HaveCarried
<1>3. rcs \in SUBSET Constraints
  BY <1>2 DEF Constraints
<1>4. n \in Eids
  BY EndpointsAreEids
<1>5. SameHeader(h, bundle.primary)
  BY ONLY <1>2, <1>4, CustodianIsSet
<1> HIDE DEF h, rcs
<1>6. AsAccepted(bundle, rcs, h)
        = BundleOf(h, bundle.canonical, bundle.payload, bundle.gbid, rcs, from, list)
  BY ONLY <1>2, BundleIsSet
<1> HIDE DEF from, list
<1>7. Changed(BundleOf(h, bundle.canonical, bundle.payload, bundle.gbid, rcs, from, list))
  BY ONLY <1>1, <1>6
<1> QED BY ONLY FollowedInv, <1>2, <1>3, <1>5, <1>7, FollowedChanged

LEMMA FollowedAnswered ==
  ASSUME FollowedInv, NEW accepted \in BOOLEAN, CustodyResponse(accepted)
  PROVE  FollowedInv'
<1> DEFINE flag == "reportCustodyAcceptance"
           f == SetFlag(bundle.primary, flag, accepted)
           h == AsAnswer(f, bundle.gbid)
<1>1. Changed(WithHeader(bundle, h))
  BY DEF CustodyResponse, WithHeader, AsAnswer
<1>2. bundle.primary \in Headers /\ bundle.gbid \in Gbids
  BY ONLY FollowedInv, <1>1, HaveCarried
<1>3. flag \in {"custodyTransferRequested", "reportCustodyAcceptance"}
  OBVIOUS
<1> HIDE DEF flag
<1>4. SameHeader(f, bundle.primary)
  BY ONLY <1>2, <1>3, accepted \in BOOLEAN, FlagIsSet
<1> HIDE DEF f
<1>5. f \in Headers
  BY <1>4 DEF SameHeader
<1>6. SameHeader(h, f)
  BY ONLY <1>2, <1>5, 1 \in Nat, CopiesAreSet
<1> HIDE DEF h
<1>7. SameHeader(h, bundle.primary)
  BY ONLY <1>4, <1>6, SameAgain
<1> QED BY ONLY FollowedInv, <1>1, <1>7, FollowedHeader

LEMMA FollowedNoted ==
  ASSUME FollowedInv, NEW n \in Endpoint, AddReceivedFrom(n)
  PROVE  FollowedInv'
<1> DEFINE from == bundle.receivedFrom \cup {n}
           list == bundle.reclist \cup {n}
           rcs == bundle.rcs \cup {"RC_FORWARDING_PENDING"}
           h == bundle.primary
<1>1. Changed(AsNoted(bundle, from, list, rcs))
  BY DEF AddReceivedFrom, AsNoted
<1>2. /\ bundle \in Carried /\ bundle.rcs \in SUBSET Constraints
      /\ bundle.receivedFrom \in SUBSET Eids /\ bundle.reclist \in SUBSET Eids
      /\ SameHeader(h, bundle.primary)
  BY ONLY FollowedInv, <1>1, HaveCarried
<1>3. /\ from \in SUBSET Eids /\ list \in SUBSET Eids /\ rcs \in SUBSET Constraints
  BY <1>2, EndpointsAreEids DEF Constraints
<1> HIDE DEF from, list, rcs
<1>4. AsNoted(bundle, from, list, rcs)
        = BundleOf(h, bundle.canonical, bundle.payload, bundle.gbid, rcs, from, list)
  BY ONLY <1>2, BundleIsSet
<1>5. Changed(BundleOf(h, bundle.canonical, bundle.payload, bundle.gbid, rcs, from, list))
  BY ONLY <1>1, <1>4
<1> HIDE DEF h
<1> QED BY ONLY FollowedInv, <1>2, <1>3, <1>5, FollowedChanged

LEMMA FollowedSent == FollowedInv /\ Send => FollowedInv'
<1> SUFFICES ASSUME FollowedInv, Send PROVE FollowedInv'
  OBVIOUS
<1>1. origin # NoBundle /\ bundle \in Carried /\ packet' = ToPacket(bundle)
  BY DEF Send, Have, FollowedInv
<1>2. hops' \in 0..HopBound
  BY WireAssumption DEF Send, FollowedInv
<1>3. packet' \in Seq(Octet)
  BY ONLY <1>1, BundleIsRead
<1> QED BY <1>1, <1>2, <1>3 DEF Send, FollowedInv

(* What is read is the bundle, but for what only the node knew.            *)
LEMMA ReadAgain ==
  ASSUME NEW b \in Carried, b.gbid = Identifier(b.primary)
  PROVE  FromPacket(ToPacket(b)) = AsRead(b)
<1>1. FromPacket(ToPacket(b)) = ReadOf(b.primary, b.canonical, b.payload, b.gbid)
  BY ONLY BundleIsRead, b \in Carried, b.gbid = Identifier(b.primary)
<1>2. ReadOf(b.primary, b.canonical, b.payload, b.gbid)
        = BundleOf(b.primary, b.canonical, b.payload, b.gbid, {}, {}, {})
  BY ONLY BundleMade
<1>3. AsRead(b) = BundleOf(b.primary, b.canonical, b.payload, b.gbid, {}, {}, {})
  BY ONLY BundleIsSet, b \in Carried
<1> QED BY ONLY <1>1, <1>2, <1>3

LEMMA FollowedReceived == FollowedInv /\ ReceivePacket => FollowedInv'
<1> SUFFICES ASSUME FollowedInv, ReceivePacket PROVE FollowedInv'
  OBVIOUS
<1>1. /\ origin # NoBundle /\ bundle \in Carried /\ Same(bundle, origin)
      /\ packet = ToPacket(bundle)
  BY DEF ReceivePacket, FollowedInv
<1>2. bundle.gbid = Identifier(bundle.primary)
  BY <1>1 DEF Same
<1>3. bundle' = FromPacket(packet)
  BY DEF ReceivePacket
<1>4. bundle' = AsRead(bundle)
  BY ONLY <1>1, <1>2, <1>3, ReadAgain
<1> DEFINE nobody == {}
           h == bundle.primary
           x == BundleOf(h, bundle.canonical, bundle.payload, bundle.gbid, nobody, nobody, nobody)
<1>5. bundle' = x
  BY ONLY <1>1, <1>4, BundleIsSet
<1>6. x \in Carried /\ Same(x, origin)
  <2>1. h \in Headers
    BY ONLY <1>1, BundleIs
  <2>2. SameHeader(h, bundle.primary)
    BY <2>1 DEF SameHeader
  <2>3. nobody \in SUBSET Constraints /\ nobody \in SUBSET Eids
    OBVIOUS
  <2> HIDE DEF nobody, h
  <2> QED BY ONLY <1>1, <2>2, <2>3, SameBundle
<1> HIDE DEF x
<1> QED BY <1>1, <1>5, <1>6 DEF ReceivePacket, FollowedInv

LEMMA WireInitInv == WireInit => WireInv
BY StampsInitInv, FollowedInit DEF WireInit, WireInv

LEMMA WireStep == WireInv /\ [WireNext]_wireVars => WireInv'
<1> SUFFICES ASSUME StampsInv, FollowedInv, [WireNext]_wireVars
             PROVE  StampsInv' /\ FollowedInv'
  BY DEF WireInv
<1>1. ASSUME UNCHANGED stampVars PROVE StampsInv'
  BY <1>1 DEF StampsInv, StampsTypeOK, stampVars
<1>2. ASSUME Before, UNCHANGED <<origin, bundle, packet, hops>> PROVE FollowedInv'
  BY <1>2 DEF Before, FollowedInv
<1>3. CASE Wait
  BY <1>2, <1>3, StampsTick DEF Wait
<1>4. CASE AnotherTimestamp
  BY <1>2, <1>4, StampsMade DEF AnotherTimestamp
<1>5. CASE Follow
  <2>1. CreationTimestamp
    BY <1>5 DEF Follow
  <2> QED BY <1>5, <2>1, StampsMade, FollowedMade
<1>6. CASE Look
  BY <1>1, <1>2, <1>6 DEF Look
<1>7. ASSUME NEW b, Changed(b) PROVE StampsInv'
  BY <1>1, <1>7 DEF Changed, stampVars
<1>8. ASSUME NEW n \in Endpoint, CustodyAcceptance(n) \/ AddReceivedFrom(n)
      PROVE  StampsInv' /\ FollowedInv'
  <2>1. FollowedInv'
    BY <1>8, FollowedAccepted, FollowedNoted
  <2>2. \E b : Changed(b)
    BY <1>8 DEF CustodyAcceptance, AddReceivedFrom
  <2> QED BY <1>7, <2>1, <2>2
<1>9. CASE SetReplicationFactor
  <2>1. \E b : Changed(b)
    BY <1>9 DEF SetReplicationFactor
  <2> QED BY <1>7, <1>9, <2>1, FollowedCopies
<1>10. CASE SetCustodyTransferRequested
  <2>1. \E b : Changed(b)
    BY <1>10 DEF SetCustodyTransferRequested
  <2> QED BY <1>7, <1>10, <2>1, FollowedAsked
<1>11. ASSUME NEW accepted \in BOOLEAN, CustodyResponse(accepted)
       PROVE  StampsInv' /\ FollowedInv'
  <2>1. \E b : Changed(b)
    BY <1>11 DEF CustodyResponse
  <2> QED BY <1>7, <1>11, <2>1, FollowedAnswered
<1>12. CASE Send
  <2>1. UNCHANGED stampVars
    BY <1>12 DEF Send, stampVars
  <2> QED BY <1>1, <1>12, <2>1, FollowedSent
<1>13. CASE ReceivePacket
  <2>1. UNCHANGED stampVars
    BY <1>13 DEF ReceivePacket, stampVars
  <2> QED BY <1>1, <1>13, <2>1, FollowedReceived
<1>14. CASE UNCHANGED wireVars
  <2>1. UNCHANGED stampVars /\ UNCHANGED <<origin, bundle, packet, hops>>
    BY <1>14 DEF wireVars, stampVars
  <2> QED BY <1>1, <2>1 DEF FollowedInv
<1> QED BY <1>3, <1>4, <1>5, <1>6, <1>8, <1>9, <1>10, <1>11, <1>12, <1>13, <1>14 DEF WireNext

LEMMA WireHolds == WireSpec => []WireInv
BY WireInitInv, WireStep, PTL DEF WireSpec

(* However far a bundle goes, and whatever the nodes set in its header on  *)
(* the way: its identifier, destination, lifetime, priority, global id and *)
(* payload are those it was made with.                                     *)
THEOREM BundleKeepsIdentity == WireSpec => []KeepsIdentity
<1>1. WireInv => KeepsIdentity
  BY DEF WireInv, FollowedInv, Same, KeepsIdentity
<1> QED BY <1>1, WireHolds, PTL

(* The next node reads what was sent to it, for every header and payload   *)
(* that a bundle can have: only what is never sent is lost.                *)
THEOREM BundleReadBack == WireSpec => []SentIsRead
<1>1. WireInv => SentIsRead
  <2> SUFFICES ASSUME FollowedInv, packet # <<>>
               PROVE  FromPacket(packet) = AsRead(bundle)
    BY DEF WireInv, SentIsRead, AsRead
  <2>1. bundle \in Carried /\ Same(bundle, origin) /\ packet = ToPacket(bundle)
    BY DEF FollowedInv
  <2>2. bundle.gbid = Identifier(bundle.primary)
    BY <2>1 DEF Same
  <2> QED BY ONLY <2>1, <2>2, ReadAgain
<1> QED BY <1>1, WireHolds, PTL

(* The size that the buffers and the links count with is the length of the *)
(* packet, whatever is set in the header.                                  *)
THEOREM SizeOfPacket == WireSpec => []SizeIsOctets
<1>1. WireInv => SizeIsOctets
  <2> SUFFICES ASSUME FollowedInv, origin # NoBundle
               PROVE  BundleSize(bundle) = Len(ToPacket(bundle))
    BY DEF WireInv, SizeIsOctets
  <2>1. bundle \in Carried
    BY DEF FollowedInv
  <2> QED BY ONLY <2>1, BundleIsRead
<1> QED BY <1>1, WireHolds, PTL

(* The state has its type, and two timestamps are the same only if these   *)
(* ran ahead of the clock, whatever else becomes of the bundles.           *)
THEOREM WireTyped == WireSpec => [](WireTypeOK /\ StampsRunAhead)
<1>1. WireInv => WireTypeOK
  BY DEF WireInv, StampsInv, FollowedInv, WireTypeOK
<1>2. WireInv => StampsRunAhead
  BY Apart DEF WireInv, StampsRunAhead
<1> QED BY <1>1, <1>2, WireHolds, PTL
=============================================================================
