------------------------ MODULE SprayNetwork_proofs ------------------------
(***************************************************************************)
(* For any network, any destination, any number of copies and of transfers *)
(* under way, and whatever programs register: no node but the destination  *)
(* is offered the bundle twice, copies are never made, no endpoint hands   *)
(* the bundle up twice and no registration points at an endpoint that its  *)
(* manager does not have.                                                  *)
(*                                                                         *)
(* The table never forgets, except that the source begins it anew when its *)
(* program sends the bundle.  So nothing may be known of the bundle before *)
(* that.                                                                   *)
(***************************************************************************)
EXTENDS SprayNetwork, DataLemmas

TypeInv ==
  /\ copies \in [Node -> Nat] /\ air \in SUBSET Transfer
  /\ ma \in SUBSET Node
  /\ offers \in [Node -> Nat]

(* Before the source is in the table nobody has the bundle. *)
Unknown == Source \notin ma => holders = {} /\ air = {} /\ \A n \in Node : offers[n] = 0

(* Who was offered the bundle is in the table. *)
Noted == \A n \in Node \ {Dest} : offers[n] <= 1 /\ (offers[n] = 1 => n \in ma)

IInv == TypeInv /\ Unknown /\ Noted

LEMMA InitHolds == Init => IInv
BY SprayNetworkAssumption DEF Init, IInv, TypeInv, Unknown, Noted

(* What leaves the table and the offers alone, and makes no copies. *)
LEMMA QuietStep ==
  ASSUME IInv, copies' \in [Node -> Nat], air' \in SUBSET Transfer,
         Source \notin ma => holders' = {} /\ air' = {},
         ma' = ma, offers' = offers
  PROVE  IInv'
BY DEF IInv, TypeInv, Unknown, Noted

(* The program at the source sends the bundle: the table begins anew. *)
LEMMA SendStep ==
  ASSUME IInv, NEW r \in Registration, Send(r)
  PROVE  IInv'
<1>1. ma' = {Source} /\ offers' = offers /\ air' = air /\ \A n \in Node : offers[n] = 0
  BY DEF IInv, Unknown, Send, netVars
<1>2. copies' \in [Node -> Nat]
  BY SprayNetworkAssumption DEF IInv, TypeInv, Send
<1> QED BY <1>1, <1>2, SprayNetworkAssumption DEF IInv, TypeInv, Unknown, Noted

(* Only who is not in the table is offered the bundle, but the destination. *)
LEMMA SendBundleStep ==
  ASSUME IInv, NEW n \in Node, NEW p \in Node, SendBundle(n, p)
  PROVE  IInv'
<1>1. /\ ma' = ma \cup {p} /\ offers' = [offers EXCEPT ![p] = @ + 1]
      /\ p = Dest \/ p \notin ma
  BY DEF SendBundle, Offerable
<1>2. Source \in ma
  BY DEF IInv, Unknown, SendBundle
<1>3. TypeInv'
  <2>1. Half(copies[n]) \in Nat
    BY DEF IInv, TypeInv, Half
  <2>2. copies' \in [Node -> Nat]
    BY <2>1 DEF IInv, TypeInv, SendBundle
  <2>3. air' \in SUBSET Transfer
    <3>1. [from |-> n, to |-> p, copies |-> Half(copies[n]), arrived |-> FALSE] \in Transfer
      BY <2>1 DEF Transfer
    <3>2. air' = air \cup {[from |-> n, to |-> p, copies |-> Half(copies[n]),
                            arrived |-> FALSE]}
      BY DEF SendBundle
    <3> QED BY <3>1, <3>2 DEF IInv, TypeInv
  <2>4. offers' \in [Node -> Nat]
    BY <1>1 DEF IInv, TypeInv
  <2> QED BY <1>1, <2>2, <2>3, <2>4 DEF IInv, TypeInv
<1>4. ASSUME NEW q \in Node \ {Dest}
      PROVE  offers'[q] <= 1 /\ (offers'[q] = 1 => q \in ma')
  <2>1. CASE q = p
    <3>1. offers[q] = 0
      BY <1>1, <2>1 DEF IInv, TypeInv, Noted
    <3> QED BY <1>1, <2>1, <3>1 DEF IInv, TypeInv
  <2>2. CASE q # p
    BY <1>1, <2>2 DEF IInv, TypeInv, Noted
  <2> QED BY <2>1, <2>2
<1> QED BY <1>1, <1>2, <1>3, <1>4 DEF IInv, Unknown, Noted

(* What comes in notes the node, and takes nobody off the table. *)
LEMMA ReceiveStep ==
  ASSUME IInv, NEW t \in air, Receive(t)
  PROVE  IInv'
<1>1. t \in Transfer
  BY DEF IInv, TypeInv
<1>2. offers' = offers /\ (ma' = ma \/ ma' = ma \cup {t.to})
  BY DEF Receive
<1>3. Source \in ma
  BY DEF IInv, Unknown
<1>4. air' \in SUBSET Transfer
  BY <1>1 DEF IInv, TypeInv, Receive, Transfer
<1>5. copies' \in [Node -> Nat]
  BY <1>1 DEF IInv, TypeInv, Receive, Transfer, BundleDispatching, Insert
<1> QED BY <1>1, <1>2, <1>3, <1>4, <1>5 DEF IInv, TypeInv, Unknown, Noted, Transfer

(* A bundle that is lost, reported or given up leaves the table alone. *)
LEMMA BundleSentStep ==
  ASSUME IInv, NEW t \in air, BundleSent(t) \/ BundleTransmissionFailed(t)
  PROVE  IInv'
<1>1. /\ ma' = ma /\ offers' = offers /\ air' \in SUBSET Transfer
      /\ copies' = copies \/ copies' = [copies EXCEPT ![t.from] = 0]
  BY DEF IInv, TypeInv, BundleSent, BundleTransmissionFailed, Deleted
<1>2. copies' \in [Node -> Nat]
  BY <1>1 DEF IInv, TypeInv
<1>3. Source \in ma
  BY DEF IInv, Unknown
<1> QED BY <1>1, <1>2, <1>3, QuietStep

LEMMA DeleteBundleStep ==
  ASSUME IInv, NEW n \in Node, DeleteBundle(n)
  PROVE  IInv'
<1>1. copies' \in [Node -> Nat]
  BY DEF IInv, TypeInv, DeleteBundle, Deleted
<1>2. Source \in ma
  BY DEF IInv, Unknown, DeleteBundle
<1> QED BY <1>1, <1>2, QuietStep DEF DeleteBundle, IInv, TypeInv

LEMMA Inductive == IInv /\ [Next]_vars => IInv'
<1> SUFFICES ASSUME IInv, [Next]_vars PROVE IInv'
  OBVIOUS
<1>1. CASE RegNext /\ UNCHANGED netVars
  BY <1>1 DEF netVars, IInv, TypeInv, Unknown, Noted
<1>2. CASE \E r \in Registration : Send(r)
  BY <1>2, SendStep
<1>3. CASE \E n, p \in Node : SendBundle(n, p)
  BY <1>3, SendBundleStep
<1>4. CASE \E t \in air : Receive(t) \/ BundleSent(t) \/ BundleTransmissionFailed(t)
  BY <1>4, ReceiveStep, BundleSentStep
<1>5. CASE \E n \in Node : DeleteBundle(n)
  BY <1>5, DeleteBundleStep
<1>6. CASE UNCHANGED vars
  BY <1>6 DEF vars, netVars, IInv, TypeInv, Unknown, Noted
<1> QED BY <1>1, <1>2, <1>3, <1>4, <1>5, <1>6 DEF Next

(* No node but the destination is offered the bundle twice, whoever has it *)
(* and whatever is lost: GetAllBundlesForLink asks the table that all      *)
(* nodes share, and SendBundle notes the peer there before the transfer.   *)
THEOREM NobodyIsSprayedTwice == Spec => []SprayedOnce
<1>1. IInv => SprayedOnce
  BY DEF IInv, Noted, SprayedOnce
<1> QED BY <1>1, InitHolds, Inductive, PTL DEF Spec

-----------------------------------------------------------------------------
(* The copies. *)

Live == {t \in air : ~t.arrived}

CopiesOf == [t \in air |-> t.copies]

(* Only finitely many nodes hold the bundle or pass it on, and they have   *)
(* no more copies than there may be.                                       *)
CopiesInv ==
  /\ IsFiniteSet(holders) /\ IsFiniteSet(air)
  /\ holders \in SUBSET Node /\ extra \in Nat
  /\ CopiesBounded

(* What the sums need to know of what they are over. *)
LEMMA CopiesAreNumbers ==
  ASSUME IInv, CopiesInv
  PROVE  /\ \A n \in holders : copies[n] \in Nat
         /\ Live \in SUBSET air /\ IsFiniteSet(Live)
         /\ \A t \in Live : CopiesOf[t] = t.copies /\ CopiesOf[t] \in Nat
         /\ CopiesHeld = SumFunctionOnSet(copies, holders)
         /\ CopiesUnderWay = SumFunctionOnSet(CopiesOf, Live)
         /\ CopiesHeld \in Nat /\ CopiesUnderWay \in Nat
         /\ CopiesHeld + CopiesUnderWay <= Initial + extra
<1>1. \A n \in holders : copies[n] \in Nat
  BY DEF IInv, TypeInv, CopiesInv
<1>2. Live \in SUBSET air /\ IsFiniteSet(Live)
  BY FS_Subset DEF Live, CopiesInv
<1>3. \A t \in Live : CopiesOf[t] = t.copies /\ CopiesOf[t] \in Nat
  BY <1>2 DEF IInv, TypeInv, CopiesOf, Transfer
<1>4. /\ CopiesHeld = SumFunctionOnSet(copies, holders)
      /\ CopiesUnderWay = SumFunctionOnSet(CopiesOf, Live)
  BY DEF CopiesHeld, CopiesUnderWay, Live, CopiesOf
<1>5. CopiesHeld \in Nat
  BY <1>1, <1>4, TotalType DEF CopiesInv
<1>6. CopiesUnderWay \in Nat
  BY <1>2, <1>3, <1>4, TotalType
<1> QED BY <1>1, <1>2, <1>3, <1>4, <1>5, <1>6 DEF CopiesInv, CopiesBounded

(* A transfer that ends, however it does, takes its copies off those under *)
(* way if it had not arrived.                                              *)
LEMMA TransferEnds ==
  ASSUME IInv, CopiesInv, NEW t \in air,
         \/ air' = air \ {t}
         \/ air' = (air \ {t}) \cup {[t EXCEPT !.arrived = TRUE]}
  PROVE  /\ IsFiniteSet(air') /\ CopiesUnderWay' \in Nat /\ t.copies \in Nat
         /\ t.arrived => CopiesUnderWay' = CopiesUnderWay
         /\ ~t.arrived => CopiesUnderWay' + t.copies = CopiesUnderWay
<1>1. t \in Transfer /\ t.arrived \in BOOLEAN /\ t.copies \in Nat
  BY DEF IInv, TypeInv, Transfer
<1>2. IsFiniteSet(air')
  <2>1. IsFiniteSet(air \ {t})
    BY FS_Subset DEF CopiesInv
  <2>2. IsFiniteSet((air \ {t}) \cup {[t EXCEPT !.arrived = TRUE]})
    BY <2>1, FS_AddElement
  <2> QED BY <2>1, <2>2
<1>3. Live' = Live \ {t}
  <2>1. [t EXCEPT !.arrived = TRUE].arrived = TRUE
    BY <1>1 DEF Transfer
  <2> QED BY <2>1 DEF Live
<1>4. \A u \in Live' : CopiesOf'[u] = CopiesOf[u] /\ CopiesOf[u] \in Nat
  <2>1. ASSUME NEW u \in Live' PROVE CopiesOf'[u] = CopiesOf[u] /\ CopiesOf[u] \in Nat
    <3>1. u \in Live /\ u \in air' /\ u \in air
      BY <1>3 DEF Live
    <3> QED BY <3>1, CopiesAreNumbers DEF CopiesOf
  <2> QED BY <2>1
<1>5. CopiesUnderWay' = SumFunctionOnSet(CopiesOf', Live')
  BY DEF CopiesUnderWay, Live, CopiesOf
<1>6. /\ Live \in SUBSET air /\ IsFiniteSet(Live)
      /\ \A u \in Live : CopiesOf[u] = u.copies /\ CopiesOf[u] \in Nat
      /\ CopiesUnderWay = SumFunctionOnSet(CopiesOf, Live)
  BY CopiesAreNumbers
<1>7. IsFiniteSet(Live')
  BY <1>3, <1>6, FS_Subset
<1>8. SumFunctionOnSet(CopiesOf, Live') = CopiesUnderWay'
  BY <1>4, <1>5, <1>7, TotalSame
<1>9. SumFunctionOnSet(CopiesOf, Live') \in Nat
  BY <1>4, <1>7, TotalType
<1>10. CASE t.arrived
  BY <1>1, <1>2, <1>3, <1>6, <1>8, <1>9, <1>10 DEF Live
<1>11. CASE ~t.arrived
  <2>1. t \in Live
    BY <1>11 DEF Live
  <2>2. SumFunctionOnSet(CopiesOf, Live) = t.copies + SumFunctionOnSet(CopiesOf, Live \ {t})
    BY <1>6, <2>1, TotalWithout
  <2> QED BY <1>1, <1>2, <1>3, <1>6, <1>8, <1>9, <1>11, <2>2
<1> QED BY <1>10, <1>11

(* Who loses the bundle has no copies left. *)
LEMMA DeletedCopies ==
  ASSUME IInv, CopiesInv, NEW n, Deleted(n)
  PROVE  /\ holders' \in SUBSET holders /\ IsFiniteSet(holders')
         /\ CopiesHeld' \in Nat /\ CopiesHeld' <= CopiesHeld
<1>1. holders' = holders \ {n} /\ copies' = [copies EXCEPT ![n] = 0]
  BY DEF Deleted
<1>2. IsFiniteSet(holders) /\ IsFiniteSet(holders')
  BY <1>1, FS_Subset DEF CopiesInv
<1>3. /\ \A m \in holders : copies[m] \in Nat
      /\ \A m \in holders' : copies'[m] = copies[m]
  BY <1>1 DEF IInv, TypeInv, CopiesInv
<1>4. holders' \in SUBSET holders
  BY <1>1
<1>5. /\ SumFunctionOnSet(copies', holders') \in Nat
      /\ SumFunctionOnSet(copies', holders') <= SumFunctionOnSet(copies, holders)
  BY <1>2, <1>3, <1>4, TotalOfPart
<1> QED BY <1>2, <1>4, <1>5 DEF CopiesHeld

(* Who comes to hold it has as many as it came with. *)
LEMMA InsertedCopies ==
  ASSUME IInv, CopiesInv, NEW n \in Node, n \notin holders, NEW c \in Nat, Insert(n, c)
  PROVE  /\ holders' \in SUBSET Node /\ IsFiniteSet(holders')
         /\ CopiesHeld' = CopiesHeld + c
<1>1. holders' = holders \cup {n} /\ copies' = [copies EXCEPT ![n] = c]
  BY DEF Insert
<1>2. copies \in [Node -> Nat] /\ holders \in SUBSET Node /\ IsFiniteSet(holders)
  BY DEF IInv, TypeInv, CopiesInv
<1>3. copies'[n] = c /\ \A m \in holders : copies'[m] = copies[m] /\ copies[m] \in Nat
  BY <1>1, <1>2
<1>4. SumFunctionOnSet(copies', holders \cup {n}) = SumFunctionOnSet(copies, holders) + c
  BY <1>2, <1>3, TotalWith
<1>5. IsFiniteSet(holders')
  BY <1>1, <1>2, FS_AddElement
<1> QED BY <1>1, <1>2, <1>4, <1>5 DEF CopiesHeld

LEMMA SendCopies ==
  ASSUME IInv, CopiesInv, NEW r \in Registration, Send(r)
  PROVE  CopiesInv'
<1>1. /\ holders = {} /\ air = {} /\ air' = {} /\ extra' = extra
      /\ holders' = {Source} /\ copies' = [copies EXCEPT ![Source] = Initial]
  BY DEF IInv, Unknown, Send
<1>2. copies'[Source] = Initial /\ Initial \in Nat /\ Source \in Node
  BY <1>1, SprayNetworkAssumption DEF IInv, TypeInv
<1>3. IsFiniteSet({}) /\ IsFiniteSet({Source})
  BY FS_EmptySet, FS_Singleton
<1>4. CopiesHeld' = Initial
  <2>1. SumFunctionOnSet(copies', {} \cup {Source}) = SumFunctionOnSet(copies, {}) + copies'[Source]
    BY <1>2, <1>3, TotalWith
  <2>2. SumFunctionOnSet(copies, {}) = 0
    BY TotalStep
  <2>3. {} \cup {Source} = {Source}
    OBVIOUS
  <2> QED BY <1>1, <1>2, <2>1, <2>2, <2>3 DEF CopiesHeld
<1>5. CopiesUnderWay' = 0
  <2>1. Live' = {}
    BY <1>1 DEF Live
  <2>2. CopiesUnderWay' = SumFunctionOnSet(CopiesOf', Live')
    BY DEF CopiesUnderWay, Live, CopiesOf
  <2> QED BY <2>1, <2>2, TotalStep
<1> QED BY <1>1, <1>2, <1>3, <1>4, <1>5 DEF CopiesInv, CopiesBounded

(* Half of the copies stay, half are under way. *)
LEMMA SendBundleCopies ==
  ASSUME IInv, CopiesInv, NEW n \in Node, NEW p \in Node, SendBundle(n, p)
  PROVE  CopiesInv'
<1> DEFINE c == copies[n]
           t == [from |-> n, to |-> p, copies |-> Half(c), arrived |-> FALSE]
<1>1. /\ n \in holders /\ \A u \in air : u.from # n
      /\ copies' = [copies EXCEPT ![n] = Half(c)] /\ air' = air \cup {t}
      /\ holders' = holders /\ extra' = extra
  BY DEF SendBundle
<1>2. c \in Nat /\ Half(c) \in Nat /\ Half(c) + Half(c) <= c
  BY DEF IInv, TypeInv, Half
<1>3. t.from = n /\ t.copies = Half(c) /\ ~t.arrived /\ t \notin air
  BY <1>1
<1> HIDE DEF t
<1>4. /\ CopiesHeld' \in Nat /\ CopiesHeld \in Nat
      /\ CopiesHeld' + c = CopiesHeld + Half(c)
  <2>1. IsFiniteSet(holders) /\ copies \in [Node -> Nat] /\ holders \in SUBSET Node
    BY DEF CopiesInv, IInv, TypeInv
  <2>2. /\ copies'[n] = Half(c)
        /\ \A m \in holders \ {n} : copies'[m] = copies[m]
        /\ \A m \in holders : copies[m] \in Nat /\ copies'[m] \in Nat
    BY <1>1, <1>2, <2>1
  <2>3. /\ SumFunctionOnSet(copies, holders) \in Nat /\ SumFunctionOnSet(copies', holders) \in Nat
        /\ SumFunctionOnSet(copies', holders) + copies[n]
             = SumFunctionOnSet(copies, holders) + copies'[n]
    <3>1. n \in holders /\ holders \in SUBSET holders
      BY <1>1
    <3>2. SumFunctionOnSet(copies', holders) + copies[n]
            = SumFunctionOnSet(copies, holders) + copies'[n]
      BY <2>1, <2>2, <3>1, TotalChanged
    <3>3. SumFunctionOnSet(copies, holders) \in Nat
      BY <2>1, <2>2, TotalType
    <3>4. SumFunctionOnSet(copies', holders) \in Nat
      BY <2>1, <2>2, TotalType
    <3> QED BY <3>2, <3>3, <3>4
  <2> QED BY <1>1, <2>2, <2>3 DEF CopiesHeld
<1>5. CopiesUnderWay \in Nat /\ CopiesUnderWay' = CopiesUnderWay + Half(c)
  <2>1. /\ Live \in SUBSET air /\ IsFiniteSet(Live)
        /\ \A u \in Live : CopiesOf[u] = u.copies /\ CopiesOf[u] \in Nat
        /\ CopiesUnderWay = SumFunctionOnSet(CopiesOf, Live)
    BY CopiesAreNumbers
  <2>2. Live' = Live \cup {t} /\ t \notin Live
    BY <1>1, <1>3 DEF Live
  <2>3. /\ \A u \in Live : CopiesOf'[u] = CopiesOf[u] /\ CopiesOf[u] \in Nat
        /\ CopiesOf'[t] = Half(c)
    BY <1>1, <1>3, <2>1 DEF CopiesOf
  <2>4. /\ SumFunctionOnSet(CopiesOf, Live) \in Nat
        /\ SumFunctionOnSet(CopiesOf', Live \cup {t})
             = SumFunctionOnSet(CopiesOf, Live) + CopiesOf'[t]
    <3>1. CopiesOf'[t] \in Nat
      BY <1>2, <2>3
    <3>2. SumFunctionOnSet(CopiesOf', Live \cup {t})
            = SumFunctionOnSet(CopiesOf, Live) + CopiesOf'[t]
      BY <2>1, <2>2, <2>3, <3>1, TotalWith
    <3>3. SumFunctionOnSet(CopiesOf, Live) \in Nat
      BY <2>1, TotalType
    <3> QED BY <3>2, <3>3
  <2>5. CopiesUnderWay' = SumFunctionOnSet(CopiesOf', Live')
    BY DEF CopiesUnderWay, Live, CopiesOf
  <2> QED BY <2>1, <2>2, <2>3, <2>4, <2>5
<1>6. IsFiniteSet(air')
  BY <1>1, FS_AddElement DEF CopiesInv
<1>7. CopiesHeld' + CopiesUnderWay' <= CopiesHeld + CopiesUnderWay
  BY <1>2, <1>4, <1>5
<1>8. /\ CopiesHeld + CopiesUnderWay <= Initial + extra
      /\ IsFiniteSet(holders) /\ holders \in SUBSET Node /\ extra \in Nat
  BY DEF CopiesInv, CopiesBounded
<1>9. CopiesHeld' + CopiesUnderWay' <= Initial + extra'
  BY <1>1, <1>2, <1>4, <1>5, <1>7, <1>8, SprayNetworkAssumption
<1> QED BY <1>1, <1>6, <1>8, <1>9 DEF CopiesInv, CopiesBounded

LEMMA NoMoreThanBefore ==
  ASSUME NEW held \in Nat, NEW way \in Nat, NEW held2 \in Nat, NEW way2 \in Nat,
         NEW most \in Nat, held + way <= most, held2 <= held, way2 <= way
  PROVE  held2 + way2 <= most
OBVIOUS

(* What arrives is held, handed up or not wanted; what arrives again and   *)
(* is held is noted as extra.                                              *)
LEMMA ReceiveCopies ==
  ASSUME IInv, CopiesInv, NEW t \in air, Receive(t)
  PROVE  CopiesInv'
<1>1. /\ air' = (air \ {t}) \cup {[t EXCEPT !.arrived = TRUE]}
      /\ IF Wants(t.to, t.copies)
         THEN /\ BundleDispatching(t.to, t.copies)
              /\ extra' = IF t.arrived /\ t.to \in holders' THEN extra + t.copies ELSE extra
         ELSE UNCHANGED <<holders, copies, extra>>
  BY DEF Receive
<1>2. t.to \in Node /\ t.copies \in Nat
  BY DEF IInv, TypeInv, Transfer
<1>3. /\ IsFiniteSet(air') /\ CopiesUnderWay' \in Nat
      /\ t.arrived => CopiesUnderWay' = CopiesUnderWay
      /\ ~t.arrived => CopiesUnderWay' + t.copies = CopiesUnderWay
  BY <1>1, TransferEnds
<1>4. /\ CopiesHeld \in Nat /\ CopiesUnderWay \in Nat
      /\ CopiesHeld + CopiesUnderWay <= Initial + extra
      /\ extra \in Nat /\ Initial \in Nat /\ IsFiniteSet(holders) /\ holders \in SUBSET Node
  BY CopiesAreNumbers, SprayNetworkAssumption DEF CopiesInv
<1>5. ASSUME UNCHANGED <<holders, copies, extra>> PROVE CopiesInv'
  <2>1. CopiesHeld' = CopiesHeld
    BY <1>5 DEF CopiesHeld
  <2>2. CopiesUnderWay' <= CopiesUnderWay
    <3>1. CASE t.arrived
      BY <1>3, <1>4, <3>1
    <3>2. CASE ~t.arrived
      BY <1>2, <1>3, <1>4, <3>2
    <3> QED BY <3>1, <3>2
  <2>3. Initial + extra \in Nat /\ CopiesHeld <= CopiesHeld
    BY <1>4
  <2>4. CopiesHeld' + CopiesUnderWay' <= Initial + extra'
    BY <1>3, <1>4, <1>5, <2>1, <2>2, <2>3, NoMoreThanBefore
  <2> QED BY <1>3, <1>4, <1>5, <2>4 DEF CopiesInv, CopiesBounded
<1>6. ASSUME Insert(t.to, t.copies), t.to \notin holders,
             extra' = IF t.arrived /\ t.to \in holders' THEN extra + t.copies ELSE extra
      PROVE  CopiesInv'
  <2>1. /\ holders' \in SUBSET Node /\ IsFiniteSet(holders')
        /\ CopiesHeld' = CopiesHeld + t.copies
    BY <1>2, <1>6, InsertedCopies
  <2>2. t.to \in holders'
    BY <1>6 DEF Insert
  <2>3. extra' \in Nat /\ CopiesHeld' + CopiesUnderWay' <= Initial + extra'
    BY <1>2, <1>3, <1>4, <1>6, <2>1, <2>2
  <2> QED BY <1>3, <2>1, <2>3 DEF CopiesInv, CopiesBounded
<1>7. CASE Wants(t.to, t.copies)
  <2>1. t.to \notin holders
    BY <1>7 DEF Wants
  <2>2. CASE LookupLocal(t.to, Dest)
    <3>1. UNCHANGED <<holders, copies>>
      BY <1>1, <1>7, <2>2 DEF BundleDispatching
    <3> QED BY <1>1, <1>5, <1>7, <2>1, <3>1
  <2>3. CASE ~LookupLocal(t.to, Dest)
    BY <1>1, <1>6, <1>7, <2>1, <2>3 DEF BundleDispatching
  <2> QED BY <2>2, <2>3
<1> QED BY <1>1, <1>5, <1>7

(* A transfer that is acknowledged or given up leaves no more than there   *)
(* was; and so does a bundle that goes.                                    *)
LEMMA FewerCopies ==
  ASSUME IInv, CopiesInv, IsFiniteSet(air'), CopiesUnderWay' \in Nat,
         CopiesUnderWay' <= CopiesUnderWay, extra' = extra,
         (\E n \in Node : Deleted(n)) \/ UNCHANGED <<holders, copies>>
  PROVE  CopiesInv'
<1>1. /\ CopiesHeld \in Nat /\ CopiesUnderWay \in Nat
      /\ CopiesHeld + CopiesUnderWay <= Initial + extra
      /\ extra \in Nat /\ Initial \in Nat /\ IsFiniteSet(holders) /\ holders \in SUBSET Node
  BY CopiesAreNumbers, SprayNetworkAssumption DEF CopiesInv
<1>2. /\ holders' \in SUBSET Node /\ IsFiniteSet(holders')
      /\ CopiesHeld' \in Nat /\ CopiesHeld' <= CopiesHeld
  <2>1. CASE \E n \in Node : Deleted(n)
    BY <1>1, <2>1, DeletedCopies
  <2>2. CASE UNCHANGED <<holders, copies>>
    BY <1>1, <2>2 DEF CopiesHeld
  <2> QED BY <2>1, <2>2
<1>3. Initial + extra \in Nat
  BY <1>1
<1>4. CopiesHeld' + CopiesUnderWay' <= Initial + extra'
  BY <1>1, <1>2, <1>3, NoMoreThanBefore
<1> QED BY <1>1, <1>2, <1>4 DEF CopiesInv, CopiesBounded

LEMMA BundleSentCopies ==
  ASSUME IInv, CopiesInv, NEW t \in air, BundleSent(t) \/ BundleTransmissionFailed(t)
  PROVE  CopiesInv'
<1>1. /\ air' = air \ {t} /\ extra' = extra
      /\ Deleted(t.from) \/ UNCHANGED <<holders, copies>>
  BY DEF BundleSent, BundleTransmissionFailed
<1>2. t.from \in Node
  BY DEF IInv, TypeInv, Transfer
<1>3. /\ IsFiniteSet(air') /\ CopiesUnderWay' \in Nat /\ t.copies \in Nat
      /\ CopiesUnderWay' = CopiesUnderWay \/ CopiesUnderWay' + t.copies = CopiesUnderWay
  BY <1>1, TransferEnds
<1>4. CopiesUnderWay' <= CopiesUnderWay
  BY <1>3
<1> QED BY <1>1, <1>2, <1>3, <1>4, FewerCopies

LEMMA QuietAirCopies ==
  ASSUME IInv, CopiesInv, UNCHANGED <<air, extra>>,
         (\E n \in Node : Deleted(n)) \/ UNCHANGED <<holders, copies>>
  PROVE  CopiesInv'
<1>1. CopiesUnderWay \in Nat
  BY CopiesAreNumbers
<1>2. CopiesUnderWay' = CopiesUnderWay
  BY DEF CopiesUnderWay
<1>3. CopiesUnderWay' <= CopiesUnderWay /\ CopiesUnderWay' \in Nat
  BY <1>1, <1>2
<1>4. IsFiniteSet(air')
  BY DEF CopiesInv
<1> QED BY <1>3, <1>4, FewerCopies

LEMMA InitCopies == Init => CopiesInv
<1> SUFFICES ASSUME Init PROVE CopiesInv
  OBVIOUS
<1>1. holders = {} /\ air = {} /\ extra = 0 /\ IsFiniteSet({})
  BY FS_EmptySet DEF Init
<1>2. CopiesHeld = 0
  BY <1>1, TotalStep DEF CopiesHeld
<1>3. CopiesUnderWay = 0
  <2>1. {t \in air : ~t.arrived} = {}
    BY <1>1
  <2> QED BY <2>1, TotalStep DEF CopiesUnderWay
<1> QED BY <1>1, <1>2, <1>3, SprayNetworkAssumption DEF CopiesInv, CopiesBounded

LEMMA CopiesInductive == IInv /\ CopiesInv /\ [Next]_vars => CopiesInv'
<1> SUFFICES ASSUME IInv, CopiesInv, [Next]_vars PROVE CopiesInv'
  OBVIOUS
<1>1. CASE RegNext /\ UNCHANGED netVars
  BY <1>1, QuietAirCopies DEF netVars
<1>2. CASE \E r \in Registration : Send(r)
  BY <1>2, SendCopies
<1>3. CASE \E n, p \in Node : SendBundle(n, p)
  BY <1>3, SendBundleCopies
<1>4. CASE \E t \in air : Receive(t) \/ BundleSent(t) \/ BundleTransmissionFailed(t)
  BY <1>4, ReceiveCopies, BundleSentCopies
<1>5. CASE \E n \in Node : DeleteBundle(n)
  BY <1>5, QuietAirCopies DEF DeleteBundle
<1>6. CASE UNCHANGED vars
  BY <1>6, QuietAirCopies DEF vars, netVars
<1> QED BY <1>1, <1>2, <1>3, <1>4, <1>5, <1>6 DEF Next

(* Copies are never made, through transfers that fail before or after the  *)
(* bundle arrived and nodes that lose it at any time, for any number of    *)
(* nodes: SendBundle halves the copies before the transfer.                *)
THEOREM CopiesAreNeverMade == Spec => []CopiesBounded
<1>1. CopiesInv => CopiesBounded
  BY DEF CopiesInv
<1> QED BY <1>1, InitHolds, Inductive, InitCopies, CopiesInductive, PTL DEF Spec

-----------------------------------------------------------------------------
(* The endpoints. *)

Slot == [reg : Registration, number : Nat, eid : UNION {Name[r] : r \in Registration}]

SameSlot(e, f) == e.reg = f.reg /\ e.number = f.number

(* A registration is given each number once, and with the number a name of *)
(* its own, so that no two endpoints are taken for one another.            *)
EndpointInv ==
  /\ endpoints \in Seq(Slot) /\ IsInjective(endpoints)
  /\ regEndpoint \in [Registration -> Nat] /\ allocated \in [Registration -> Nat]
  /\ registered \in [Registration -> BOOLEAN]
  /\ \A e \in ToSet(endpoints) : e.eid \in Name[e.reg] /\ e.number <= allocated[e.reg]
  /\ \A e, f \in ToSet(endpoints) : SameSlot(e, f) => e = f
  /\ NoDanglingEndpoint

(* A new endpoint has a number that none has. *)
LEMMA RegisterStep ==
  ASSUME EndpointInv, NEW r \in Registration, NEW eid \in Name[r], Register(r, eid)
  PROVE  EndpointInv'
<1> DEFINE n == allocated[r] + 1
           e == [reg |-> r, number |-> n, eid |-> eid]
<1>1. /\ endpoints' = Append(endpoints, e)
      /\ regEndpoint' = [regEndpoint EXCEPT ![r] = n]
      /\ registered' = [registered EXCEPT ![r] = TRUE]
      /\ allocated' = [allocated EXCEPT ![r] = n]
  BY DEF Register, Allocate
<1>2. allocated[r] \in Nat /\ n \in Nat /\ allocated[r] < n /\ n # None
  BY DEF EndpointInv, None
<1>3. e \in Slot /\ e.reg = r /\ e.number = n /\ e.eid = eid
  BY <1>2 DEF Slot
<1> HIDE DEF n, e
<1>4. \A f \in ToSet(endpoints) : f \in Slot /\ ~SameSlot(e, f)
  <2>1. \A f \in ToSet(endpoints) : f \in Slot /\ f.number <= allocated[f.reg]
    BY DEF EndpointInv, ToSet
  <2> QED BY <1>2, <1>3, <2>1 DEF SameSlot, Slot
<1>5. e \notin ToSet(endpoints)
  BY <1>4 DEF SameSlot
<1>6. /\ endpoints' \in Seq(Slot) /\ IsInjective(endpoints')
      /\ ToSet(endpoints') = ToSet(endpoints) \cup {e}
  BY <1>1, <1>3, <1>5, AppendIsInjective DEF EndpointInv
<1>7. /\ regEndpoint' \in [Registration -> Nat] /\ allocated' \in [Registration -> Nat]
      /\ registered' \in [Registration -> BOOLEAN]
  BY <1>1, <1>2 DEF EndpointInv
<1>8. ASSUME NEW f \in ToSet(endpoints')
      PROVE  f.eid \in Name[f.reg] /\ f.number <= allocated'[f.reg]
  <2>1. CASE f = e
    BY <1>1, <1>2, <1>3, <2>1 DEF EndpointInv
  <2>2. CASE f \in ToSet(endpoints)
    <3>1. /\ f.reg \in Registration /\ f.number \in Nat /\ f.number <= allocated[f.reg]
          /\ f.eid \in Name[f.reg]
      BY <1>4, <2>2 DEF EndpointInv, Slot
    <3> QED BY <1>1, <1>2, <3>1 DEF EndpointInv
  <2> QED BY <1>6, <2>1, <2>2
<1>9. \A f, g \in ToSet(endpoints') : SameSlot(f, g) => f = g
  BY <1>4, <1>6 DEF EndpointInv, SameSlot
<1>10. ASSUME NEW q \in Registration
       PROVE  /\ registered'[q] <=> regEndpoint'[q] # None
              /\ registered'[q] => \E f \in ToSet(endpoints') :
                                     f.reg = q /\ f.number = regEndpoint'[q]
  <2>1. CASE q = r
    <3>1. registered'[r] = TRUE /\ regEndpoint'[r] = n
      BY <1>1 DEF EndpointInv
    <3> QED BY <1>2, <1>3, <1>6, <2>1, <3>1
  <2>2. CASE q # r
    <3>1. registered'[q] = registered[q] /\ regEndpoint'[q] = regEndpoint[q]
      BY <1>1, <2>2 DEF EndpointInv
    <3> QED BY <1>6, <3>1 DEF EndpointInv, NoDanglingEndpoint, IsOf
  <2> QED BY <2>1, <2>2
<1> QED BY <1>6, <1>7, <1>8, <1>9, <1>10 DEF EndpointInv, NoDanglingEndpoint, IsOf

(* The endpoint that goes is that of one registration, which has none then. *)
LEMMA UnregisterStep ==
  ASSUME EndpointInv, NEW r \in Registration, Unregister(r)
  PROVE  EndpointInv'
<1> DEFINE kept == {e \in ToSet(endpoints) : ~IsOf(e, r)}
<1>1. /\ endpoints' = Selected(endpoints, kept)
      /\ regEndpoint' = [regEndpoint EXCEPT ![r] = None]
      /\ registered' = [registered EXCEPT ![r] = FALSE]
      /\ allocated' = allocated
  BY DEF Unregister, DeAllocate, Destroy
<1>2. /\ endpoints' \in Seq(Slot) /\ IsInjective(endpoints')
      /\ ToSet(endpoints') = ToSet(endpoints) \cap kept
  <2>1. endpoints \in Seq(Slot) /\ IsInjective(endpoints)
    BY DEF EndpointInv
  <2> HIDE DEF kept
  <2> QED BY <1>1, <2>1, SelectedHasWhatIsKept
<1>3. ToSet(endpoints') = kept
  BY <1>2
<1>4. ASSUME NEW q \in Registration
      PROVE  /\ registered'[q] <=> regEndpoint'[q] # None
             /\ registered'[q] => \E f \in ToSet(endpoints') :
                                    f.reg = q /\ f.number = regEndpoint'[q]
  <2>1. CASE q = r
    <3>1. registered'[r] = FALSE /\ regEndpoint'[r] = None
      BY <1>1 DEF EndpointInv
    <3> QED BY <2>1, <3>1
  <2>2. CASE q # r
    <3>1. registered'[q] = registered[q] /\ regEndpoint'[q] = regEndpoint[q]
      BY <1>1, <2>2 DEF EndpointInv
    <3>2. \A f \in ToSet(endpoints) : f.reg = q => f \in kept
      BY <2>2 DEF IsOf
    <3> HIDE DEF kept
    <3> QED BY <1>3, <3>1, <3>2 DEF EndpointInv, NoDanglingEndpoint, IsOf
  <2> QED BY <2>1, <2>2
<1>5. /\ regEndpoint' \in [Registration -> Nat] /\ registered' \in [Registration -> BOOLEAN]
  BY <1>1 DEF EndpointInv, None
<1> QED BY <1>1, <1>2, <1>3, <1>4, <1>5 DEF EndpointInv, NoDanglingEndpoint, IsOf

LEMMA QuietEndpoints ==
  ASSUME EndpointInv, UNCHANGED <<endpoints, regEndpoint, registered, allocated>>
  PROVE  EndpointInv'
BY DEF EndpointInv, NoDanglingEndpoint, IsOf

LEMMA InitEndpoints == Init => EndpointInv
<1> SUFFICES ASSUME Init PROVE EndpointInv
  OBVIOUS
<1>1. /\ endpoints = <<>> /\ regEndpoint = [r \in Registration |-> None]
      /\ registered = [r \in Registration |-> FALSE] /\ allocated = [r \in Registration |-> 0]
  BY DEF Init, RegInit
<1>2. endpoints \in Seq(Slot) /\ IsInjective(endpoints) /\ ToSet(endpoints) = {}
  BY <1>1 DEF IsInjective, ToSet
<1> QED BY <1>1, <1>2 DEF EndpointInv, NoDanglingEndpoint, None

LEMMA EndpointsInductive == EndpointInv /\ [Next]_vars => EndpointInv'
<1> SUFFICES ASSUME EndpointInv, [Next]_vars PROVE EndpointInv'
  OBVIOUS
<1>1. CASE RegNext
  <2>1. CASE \E r \in Registration : \E eid \in Name[r] : Register(r, eid)
    BY <2>1, RegisterStep
  <2>2. CASE \E r \in Registration : Unregister(r)
    BY <2>2, UnregisterStep
  <2>3. CASE DoForwardUp
    BY <2>3, QuietEndpoints DEF DoForwardUp
  <2>4. CASE \E r \in Registration : Recv(r)
    BY <2>4, QuietEndpoints DEF Recv
  <2> QED BY <1>1, <2>1, <2>2, <2>3, <2>4 DEF RegNext
<1>2. CASE \E t \in air : Receive(t)
  BY <1>2, QuietEndpoints DEF Receive, BundleDispatching, ForwardUp, regVars
<1>3. CASE UNCHANGED regVars
  BY <1>3, QuietEndpoints DEF regVars
<1>4. \/ RegNext \/ \E t \in air : Receive(t)
      \/ UNCHANGED regVars
  BY DEF Next, vars, Send, SendBundle, BundleSent, BundleTransmissionFailed, DeleteBundle
<1> QED BY <1>1, <1>2, <1>3, <1>4

(* Each registration has its endpoint while it is registered, and none     *)
(* else, in whatever order programs register, again too, and unregister.   *)
THEOREM RegistrationsPointAtEndpoints == Spec => []NoDanglingEndpoint
<1>1. EndpointInv => NoDanglingEndpoint
  BY DEF EndpointInv
<1> QED BY <1>1, InitEndpoints, EndpointsInductive, PTL DEF Spec

-----------------------------------------------------------------------------
(* What is handed up. *)

Key(e) == <<e.reg, e.number>>

(* Until the destination notes the bundle nothing is to be handed up; from *)
(* then on each endpoint has handed it up, or is to do so once, or never.  *)
UpInv ==
  /\ scheduled \in Seq(Slot) /\ handedUp \in [Registration \X Number -> Nat]
  /\ ~noted => scheduled = <<>> /\ \A k \in Registration \X Number : handedUp[k] = 0
  /\ \A i, j \in DOMAIN scheduled : SameSlot(scheduled[i], scheduled[j]) => i = j
  /\ \A i \in DOMAIN scheduled : \A k \in Registration \X Number :
       k = Key(scheduled[i]) => handedUp[k] = 0
  /\ \A k \in Registration \X Number : handedUp[k] <= 1

LEMMA DoForwardUpStep ==
  ASSUME UpInv, DoForwardUp, noted' = noted
  PROVE  UpInv'
<1> DEFINE e == Head(scheduled)
<1>1. /\ scheduled # <<>> /\ scheduled' = Tail(scheduled)
      /\ handedUp' = [handedUp EXCEPT ![Key(e)] = @ + 1]
  BY DEF DoForwardUp, Key
<1>2. /\ Len(scheduled) \in Nat /\ Len(scheduled) > 0 /\ DOMAIN scheduled = 1..Len(scheduled)
      /\ Tail(scheduled) \in Seq(Slot) /\ DOMAIN Tail(scheduled) = 1..(Len(scheduled) - 1)
      /\ \A i \in 1..(Len(scheduled) - 1) : Tail(scheduled)[i] = scheduled[i + 1]
      /\ e = scheduled[1] /\ e \in Slot
  BY <1>1 DEF UpInv
<1> HIDE DEF e
<1>3. noted'
  BY <1>1 DEF UpInv
<1>4. \A k \in Registration \X Number : k = Key(e) => handedUp[k] = 0
  BY <1>2 DEF UpInv
<1>5. /\ handedUp' \in [Registration \X Number -> Nat]
      /\ \A k \in Registration \X Number :
           handedUp'[k] = IF k = Key(e) THEN 1 ELSE handedUp[k]
  <2> DEFINE D == Registration \X Number
             key == Key(e)
  <2>1. /\ handedUp \in [D -> Nat] /\ handedUp' = [handedUp EXCEPT ![key] = @ + 1]
        /\ \A k \in D : k = key => handedUp[k] = 0
    BY <1>1, <1>4 DEF UpInv
  <2> HIDE DEF D, key
  <2>2. /\ handedUp' \in [D -> Nat]
        /\ \A k \in D : handedUp'[k] = IF k = key THEN 1 ELSE handedUp[k]
    <3>1. /\ DOMAIN handedUp = D
          /\ handedUp' = [k \in D |-> IF k = key THEN handedUp[key] + 1 ELSE handedUp[k]]
      BY <2>1
    <3>2. \A k \in D : handedUp'[k] = IF k = key THEN handedUp[k] + 1 ELSE handedUp[k]
      BY <3>1
    <3>3. \A k \in D : handedUp[k] \in Nat
      BY <2>1
    <3>4. \A k \in D : handedUp'[k] = IF k = key THEN 1 ELSE handedUp[k]
      BY <2>1, <3>2
    <3>5. \A k \in D : handedUp'[k] \in Nat
      BY <3>3, <3>4
    <3> QED BY <3>1, <3>4, <3>5
  <2> QED BY <2>2 DEF D, key
<1>6. \A i \in 1..(Len(scheduled) - 1) :
        i + 1 \in DOMAIN scheduled /\ ~SameSlot(scheduled[i + 1], e)
  BY <1>2 DEF UpInv
<1>7. ASSUME NEW i \in 1..(Len(scheduled) - 1), NEW k \in Registration \X Number,
             k = Key(Tail(scheduled)[i])
      PROVE  handedUp'[k] = 0
  <2>1. k = Key(scheduled[i + 1]) /\ i + 1 \in DOMAIN scheduled
    BY <1>2, <1>6, <1>7
  <2>2. k # Key(e)
    BY <1>6, <2>1 DEF Key, SameSlot
  <2> QED BY <1>5, <2>1, <2>2 DEF UpInv
<1>8. ASSUME NEW i \in 1..(Len(scheduled) - 1), NEW j \in 1..(Len(scheduled) - 1),
             SameSlot(Tail(scheduled)[i], Tail(scheduled)[j])
      PROVE  i = j
  <2>1. i + 1 = j + 1
    BY <1>2, <1>6, <1>8 DEF UpInv
  <2> QED BY <2>1
<1>9. \A k \in Registration \X Number : handedUp'[k] <= 1
  BY <1>5 DEF UpInv
<1> QED BY <1>1, <1>2, <1>3, <1>5, <1>7, <1>8, <1>9 DEF UpInv

(* The destination hands the bundle up through each of the endpoints that  *)
(* have its name, when it has not noted it before.                         *)
LEMMA ForwardUpStep ==
  ASSUME UpInv, EndpointInv, NEW n, ForwardUp(n, Dest), ~noted, noted'
  PROVE  UpInv'
<1> DEFINE up == Lookup(n, Dest)
           kept == {e \in ToSet(endpoints) : Home[e.reg] = n /\ e.eid = Dest}
<1>1. scheduled' = <<>> \o up /\ handedUp' = handedUp
  BY DEF ForwardUp, UpInv
<1>2. up \in Seq(Slot) /\ IsInjective(up) /\ ToSet(up) = ToSet(endpoints) \cap kept
  <2>1. up = Selected(endpoints, kept)
    BY DEF Lookup
  <2>2. endpoints \in Seq(Slot) /\ IsInjective(endpoints)
    BY DEF EndpointInv
  <2> HIDE DEF up, kept
  <2> QED BY <2>1, <2>2, SelectedHasWhatIsKept
<1> HIDE DEF up
<1>3. scheduled' = up
  BY <1>1, <1>2
<1>4. ASSUME NEW i \in DOMAIN up, NEW j \in DOMAIN up, SameSlot(up[i], up[j])
      PROVE  i = j
  <2>1. up[i] \in ToSet(endpoints) /\ up[j] \in ToSet(endpoints)
    BY <1>2 DEF ToSet
  <2>2. up[i] = up[j]
    BY <1>4, <2>1 DEF EndpointInv
  <2> QED BY <1>2, <2>2 DEF IsInjective
<1>5. \A k \in Registration \X Number : handedUp[k] = 0
  BY DEF UpInv
<1> QED BY <1>1, <1>2, <1>3, <1>4, <1>5 DEF UpInv

LEMMA QuietUp ==
  ASSUME UpInv, UNCHANGED <<scheduled, handedUp>>, noted => noted'
  PROVE  UpInv'
BY DEF UpInv

(* Nobody but the destination hands it up, and that once. *)
LEMMA ReceiveUp ==
  ASSUME UpInv, EndpointInv, NEW t \in air, Receive(t)
  PROVE  UpInv'
<1>1. CASE Wants(t.to, t.copies)
  <2>1. BundleDispatching(t.to, t.copies) /\ noted' = (noted \/ t.to = Dest)
    BY <1>1 DEF Receive
  <2>2. CASE LookupLocal(t.to, Dest)
    <3>1. PICK e \in ToSet(endpoints) : Home[e.reg] = t.to /\ e.eid = Dest
      BY <2>2 DEF LookupLocal
    <3>2. e.reg \in Registration /\ Dest \in Name[e.reg]
      <4>1. e \in Slot
        BY DEF EndpointInv, ToSet
      <4>2. e.eid \in Name[e.reg]
        BY DEF EndpointInv
      <4> QED BY <3>1, <4>1, <4>2 DEF Slot
    <3>3. t.to = Dest /\ ~noted /\ noted'
      BY <1>1, <2>1, <3>1, <3>2, SprayNetworkAssumption DEF Wants
    <3> QED BY <2>1, <2>2, <3>3, ForwardUpStep DEF BundleDispatching
  <2>3. CASE ~LookupLocal(t.to, Dest)
    BY <2>1, <2>3, QuietUp DEF BundleDispatching, regVars
  <2> QED BY <2>2, <2>3
<1>2. CASE ~Wants(t.to, t.copies)
  BY <1>2, QuietUp DEF Receive, regVars
<1> QED BY <1>1, <1>2

LEMMA InitUp == Init => UpInv
<1> SUFFICES ASSUME Init PROVE UpInv
  OBVIOUS
<1>1. scheduled = <<>> /\ handedUp = [e \in Registration \X Number |-> 0]
  BY DEF Init, RegInit
<1> QED BY <1>1 DEF UpInv

LEMMA UpInductive == UpInv /\ EndpointInv /\ [Next]_vars => UpInv'
<1> SUFFICES ASSUME UpInv, EndpointInv, [Next]_vars PROVE UpInv'
  OBVIOUS
<1>1. CASE RegNext /\ UNCHANGED netVars
  <2>1. CASE DoForwardUp
    BY <1>1, <2>1, DoForwardUpStep DEF netVars
  <2>2. ASSUME NEW r \in Registration,
               Unregister(r) \/ Recv(r) \/ \E eid \in Name[r] : Register(r, eid)
        PROVE  UpInv'
    BY <1>1, <2>2, QuietUp DEF netVars, Unregister, Recv, Register
  <2> QED BY <1>1, <2>1, <2>2 DEF RegNext
<1>2. CASE \E t \in air : Receive(t)
  BY <1>2, ReceiveUp
<1>3. CASE UNCHANGED <<scheduled, handedUp, noted>>
  BY <1>3, QuietUp
<1>4. \/ RegNext /\ UNCHANGED netVars
      \/ \E t \in air : Receive(t)
      \/ UNCHANGED <<scheduled, handedUp, noted>>
  BY DEF Next, vars, netVars, regVars, Send, SendBundle, BundleSent, BundleTransmissionFailed,
         DeleteBundle
<1> QED BY <1>1, <1>2, <1>3, <1>4

(* No endpoint hands the bundle up twice, by however many ways it comes:   *)
(* the destination notes it before it hands it up, and takes none then.    *)
THEOREM EndpointsHandUpOnce == Spec => []HandedUpOnce
<1>1. UpInv => HandedUpOnce
  BY DEF UpInv, HandedUpOnce
<1> QED BY <1>1, InitEndpoints, EndpointsInductive, InitUp, UpInductive, PTL DEF Spec
=============================================================================
