----------------------- MODULE EpidemicRouter_proofs -----------------------
(***************************************************************************)
(* What the epidemic router promises, for any peers, bundles, sizes and    *)
(* bounds: it never waits for a report that does not come, its buffer's    *)
(* counters follow its list, but for what a bundle grew as it was put in,  *)
(* a look is due while there is something to send, and the agent sends     *)
(* only what is held.                                                      *)
(*                                                                         *)
(* There is an invariant for each, and for each action of BundleRouter and *)
(* RelayRouter the lemmas that say that it keeps them.  The other routers  *)
(* that relay take the same steps.                                         *)
(***************************************************************************)
EXTENDS EpidemicRouter, DataLemmas

(* A router that sends has a report coming. *)
WaitInv == Reported(isSending, handoff, outbox)

(* The bundles counted are those of the list, until it is emptied at the   *)
(* end, and the bytes counted are within the room.                         *)
BufferInv == Booked(Bundle, MaxBytes, bundleList, nBytes, nBundles, ~over)

(* A router that holds anything either sends or looks again.               *)
DueInv ==
  /\ tries \in 0..TryBound
  /\ ~isSending /\ bundleList # <<>> => tries > 0

-----------------------------------------------------------------------------
(* The helpers. *)

LEMMA SizeType == Size \in [Bundle -> Nat] /\ MaxBytes \in Nat /\ TryBound \in Nat \ {0}
BY RouterAssumption DEF RouterAssumption

(* What a bundle is counted as, however it came. *)
LEMMA ComesType ==
  ASSUME NEW g \in Bundle, NEW size \in Comes[g] \cup {Size[g]}
  PROVE  size \in Nat
<1>1. Comes[g] \in SUBSET (Nat \ {0})
  BY RelayAssumption DEF RelayAssumption
<1> QED BY <1>1, SizeType

(* What is cancelled is some of the entries. *)
LEMMA HitsAreCounted ==
  ASSUME NEW o, IsSeq(o), NEW bundles, NEW peers
  PROVE  /\ Cardinality(Hits(o, bundles, peers)) \in Nat
         /\ Hits(o, bundles, peers) # {} => Cardinality(Hits(o, bundles, peers)) > 0
<1> DEFINE hits == Hits(o, bundles, peers)
<1>1. hits \in SUBSET (1..Len(o)) /\ Len(o) \in Nat
  BY DEF Hits, IsSeq
<1>2. IsFiniteSet(1..Len(o))
  BY <1>1, FS_Interval
<1>3. IsFiniteSet(hits)
  BY <1>1, <1>2, FS_Subset
<1> HIDE DEF hits
<1>4. Cardinality(hits) \in Nat /\ (hits # {} => Cardinality(hits) # 0)
  BY <1>3, FS_CardinalityType, FS_EmptySet
<1> QED BY <1>4 DEF hits

(* A router that does not poll counts what is scheduled. *)
LEMMA MoreAreDue ==
  ASSUME ~Polling, tries \in 0..TryBound, NEW k \in Nat
  PROVE  /\ More(k) \in 0..TryBound
         /\ tries > 0 \/ k > 0 => More(k) > 0
<1> DEFINE T == {tries + k, TryBound}
<1>1. T \in SUBSET Nat /\ T # {}
  BY SizeType
<1>2. Min(T) \in T /\ \A n \in T : Min(T) <= n
  BY <1>1, MinIsLeast
<1>3. Min(T) \in 0..TryBound /\ (tries > 0 \/ k > 0 => Min(T) > 0)
  BY <1>1, <1>2, SizeType
<1> QED BY <1>3 DEF More

(* What is left once some of what is held is deleted. *)
LEMMA WhatIsLeft ==
  ASSUME BufferInv, NEW gone
  PROVE  /\ Left(gone) \in Seq(Bundle) /\ IsInjective(Left(gone))
         /\ ToSet(Left(gone)) = Held \ gone
         /\ bundleList = <<>> => Left(gone) = <<>>
<1>1. /\ Left(gone) \in Seq(Bundle) /\ IsInjective(Left(gone))
      /\ ToSet(Left(gone)) = Held \ (Held \cap gone)
  <2>1. Left(gone) = Selected(bundleList, ToSet(bundleList) \ gone)
    BY DEF Left, Held
  <2>2. ToSet(bundleList) \ gone = ToSet(bundleList) \ (Held \cap gone)
    BY DEF Held
  <2> DEFINE exact == ~over
  <2>3. Booked(Bundle, MaxBytes, bundleList, nBytes, nBundles, exact)
    BY DEF BufferInv
  <2>4. Left(gone) = Selected(bundleList, ToSet(bundleList) \ (Held \cap gone))
    BY <2>1, <2>2
  <2> HIDE DEF Left, exact
  <2> QED BY <2>3, <2>4, BookedLeft DEF Held
<1>2. ASSUME bundleList = <<>> PROVE Left(gone) = <<>>
  <2>1. ToSet(Left(gone)) = {}
    BY <1>1, <1>2 DEF Held, ToSet
  <2>2. DOMAIN Left(gone) = {}
    BY <2>1 DEF ToSet
  <2> HIDE DEF Left
  <2> QED BY <1>1, <2>2
<1> QED BY <1>1, <1>2

-----------------------------------------------------------------------------
(* Waiting for reports. *)

(* DeleteBundle, with what is reported of it, while the agent has o: the   *)
(* router goes on sending only if it did and nothing was cancelled.        *)
LEMMA ForgetWaits ==
  ASSUME NEW gone, NEW o, NEW q, NEW sending, Forget(gone, o, q),
         Reported(sending, handoff, o),
         isSending' => StillSending(sending, Hits(o, gone, Mac))
  PROVE  WaitInv'
<1> DEFINE hits == Hits(o, gone, Mac)
<1>1. /\ handoff' = [i \in DOMAIN handoff |-> handoff'[i]]
      /\ outbox' = [i \in DOMAIN o |-> IF i \in hits
                                        THEN [o[i] EXCEPT !.cancelled = TRUE] ELSE o[i]]
  BY DEF Forget, Late, Marked
<1>2. isSending' => sending /\ hits = {}
  BY DEF StillSending
<1> HIDE DEF hits
<1>3. ASSUME NEW way2, way2 = [i \in DOMAIN handoff |-> way2[i]],
             NEW out2, out2 = [i \in DOMAIN o |-> IF i \in hits
                                        THEN [o[i] EXCEPT !.cancelled = TRUE] ELSE o[i]]
      PROVE  Reported(isSending', way2, out2)
  BY ONLY <1>2, <1>3, ReportedCancelled, Reported(sending, handoff, o)
<1>4. Reported(isSending', handoff', outbox')
  BY <1>1, <1>3
<1> QED BY <1>4 DEF WaitInv

(* What is queued for a contact is called off. *)
LEMMA CallOffWaits ==
  ASSUME NEW p, NEW o, NEW sending, CallOff(p, o), Reported(sending, handoff, o),
         handoff' = handoff,
         isSending' => StillSending(sending, Hits(o, ToSet(queue[p]), {p}))
  PROVE  WaitInv'
<1> DEFINE hits == Hits(o, ToSet(queue[p]), {p})
<1>1. outbox' = [i \in DOMAIN o |-> IF i \in hits
                                     THEN [o[i] EXCEPT !.cancelled = TRUE] ELSE o[i]]
  BY DEF CallOff, Marked
<1>2. isSending' => sending /\ hits = {}
  BY DEF StillSending
<1>3. handoff = [i \in DOMAIN handoff |-> handoff[i]]
  <2>1. IsSeq(handoff)
    BY DEF Reported
  <2> QED BY <2>1 DEF IsSeq
<1> HIDE DEF hits
<1>4. ASSUME NEW way2, way2 = [i \in DOMAIN handoff |-> way2[i]],
             NEW out2, out2 = [i \in DOMAIN o |-> IF i \in hits
                                        THEN [o[i] EXCEPT !.cancelled = TRUE] ELSE o[i]]
      PROVE  Reported(isSending', way2, out2)
  BY ONLY <1>2, <1>4, ReportedCancelled, Reported(sending, handoff, o)
<1>5. Reported(isSending', handoff, outbox')
  BY <1>1, <1>3, <1>4
<1> QED BY <1>5 DEF WaitInv

LEMMA BundleQueuedWaits ==
  ASSUME WaitInv, BundleQueued
  PROVE  WaitInv'
<1>1. PICK e : e.cancelled = FALSE /\ outbox' = Append(outbox, e)
  BY DEF BundleQueued
<1>2. handoff # <<>> /\ handoff' = Tail(handoff) /\ isSending' = isSending
  BY DEF BundleQueued
<1> QED BY <1>1, <1>2, ReportedTaken DEF WaitInv

LEMMA DiscardWaits ==
  ASSUME WaitInv, Discard
  PROVE  WaitInv'
BY ReportedDropped DEF WaitInv, Discard

LEMMA BundleTransmissionFailedWaits ==
  ASSUME WaitInv, BundleTransmissionFailed
  PROVE  WaitInv'
<1>1. /\ outbox # <<>> /\ isSending' = FALSE /\ handoff' = handoff
      /\ \/ outbox' = Tail(outbox)
         \/ CallOff(Head(outbox).mac, Tail(outbox))
  BY DEF BundleTransmissionFailed
<1>2. Reported(FALSE, handoff, Tail(outbox))
  BY <1>1, TailIsSeq DEF WaitInv, Reported
<1>3. CASE outbox' = Tail(outbox)
  BY <1>1, <1>2, <1>3 DEF WaitInv
<1>4. CASE CallOff(Head(outbox).mac, Tail(outbox))
  BY <1>1, <1>2, <1>4, CallOffWaits
<1> QED BY <1>1, <1>3, <1>4

LEMMA CloseLinkWaits ==
  ASSUME WaitInv, NEW p, CloseLink(p)
  PROVE  WaitInv'
BY CallOffWaits DEF WaitInv, CloseLink

LEMMA QuietWaits ==
  ASSUME WaitInv, UNCHANGED <<handoff, outbox, isSending>>
  PROVE  WaitInv'
BY DEF WaitInv

(* A bundle that comes in. *)
LEMMA InsertBundleWaits ==
  ASSUME WaitInv, NEW g, NEW size, NEW rest, InsertBundle(g, size, rest)
  PROVE  WaitInv'
<1>1. \E gone : /\ Forget(gone, outbox, queue)
                /\ isSending' = StillSending(isSending, Hits(outbox, gone, Mac))
  BY DEF InsertBundle
<1> QED BY <1>1, ForgetWaits DEF WaitInv

(* Looking for work: whatever is passed on, it is on its way then. *)
LEMMA LookWaits ==
  ASSUME WaitInv, RemoveExpired,
         NothingSent \/ \E p, g : SendBundle(p, g)
  PROVE  WaitInv'
<1>1. /\ outbox' = Marked(outbox, StaleHits)
      /\ \/ handoff' = Late(Stale) /\ isSending' = StillSending(isSending, StaleHits)
         \/ \E p, g : handoff' = Append(Late(Stale), [mac |-> p, gbid |-> g, late |-> FALSE])
  BY DEF RemoveExpired, NothingSent, SendBundle
<1>2. /\ Late(Stale) = [i \in DOMAIN handoff |-> Late(Stale)[i]]
      /\ outbox' = [i \in DOMAIN outbox |-> IF i \in StaleHits
                                              THEN [outbox[i] EXCEPT !.cancelled = TRUE]
                                              ELSE outbox[i]]
  BY <1>1 DEF Late, Marked
<1>3. Reported(StillSending(isSending, StaleHits), Late(Stale), outbox')
  <2>1. StillSending(isSending, StaleHits) => isSending /\ StaleHits = {}
    BY DEF StillSending
  <2>2. Reported(isSending, handoff, outbox)
    BY DEF WaitInv
  <2> QED BY ONLY <1>2, <2>1, <2>2, ReportedCancelled
<1>4. CASE handoff' = Late(Stale) /\ isSending' = StillSending(isSending, StaleHits)
  BY <1>3, <1>4 DEF WaitInv
<1>5. ASSUME NEW e, handoff' = Append(Late(Stale), e) PROVE WaitInv'
  <2>1. IsSeq(Late(Stale)) /\ IsSeq(outbox')
    BY <1>3 DEF Reported
  <2> QED BY <1>5, <2>1, ReportedPassedOn DEF WaitInv
<1> QED BY <1>1, <1>4, <1>5

(* An acknowledgement ends the sending, whatever it retires. *)
LEMMA BundleSentWaits ==
  ASSUME WaitInv, NEW p, NEW g, NEW o, IsSeq(o), BundleSent(p, g, o)
  PROVE  WaitInv'
<1>1. isSending' = FALSE /\ \E gone, q : Forget(gone, o, q)
  BY DEF BundleSent
<1>2. PICK gone, q : Forget(gone, o, q)
  BY <1>1
<1>3. Reported(FALSE, handoff, o)
  BY DEF WaitInv, Reported
<1> QED BY <1>1, <1>2, <1>3, ForgetWaits

LEMMA LocalBundleDeliveryWaits ==
  ASSUME WaitInv, NEW g, LocalBundleDelivery(g)
  PROVE  WaitInv'
<1>1. \E gone : /\ Forget(gone, outbox, queue)
                /\ isSending' = StillSending(isSending, Hits(outbox, gone, Mac))
  BY DEF LocalBundleDelivery
<1> QED BY <1>1, ForgetWaits DEF WaitInv

-----------------------------------------------------------------------------
(* The books of the buffer. *)

(* What a part of what is held takes, and the rest. *)
LEMMA BytesOfParts ==
  ASSUME BufferInv, NEW some, some \subseteq Held
  PROVE  /\ Bytes(some) \in Nat /\ Bytes(Held \ some) \in Nat
         /\ Bytes(Held) = Bytes(some) + Bytes(Held \ some)
BY SizeType, TotalOfParts DEF BufferInv, Booked, Held, Bytes

(* What is left is a part of the list, and the rest is taken off the       *)
(* counters.                                                               *)
LEMMA RestIsBooked ==
  ASSUME BufferInv, NEW rest \in Seq(Bundle), IsInjective(rest), ToSet(rest) \subseteq Held
  PROVE  /\ Booked(Bundle, MaxBytes, rest, nBytes - Bytes(Held \ ToSet(rest)),
                   nBundles - Cardinality(Held \ ToSet(rest)), ~over)
         /\ Bytes(Held) = Bytes(ToSet(rest)) + Bytes(Held \ ToSet(rest))
         /\ Bytes(ToSet(rest)) \in Nat /\ Bytes(Held \ ToSet(rest)) \in Nat
<1> DEFINE gone == Held \ ToSet(rest)
<1>1. /\ Bytes(Held) = Bytes(ToSet(rest)) + Bytes(gone)
      /\ Bytes(ToSet(rest)) \in Nat /\ Bytes(gone) \in Nat
  BY BytesOfParts
<1>2. gone = ToSet(bundleList) \ ToSet(rest) /\ ToSet(rest) \subseteq ToSet(bundleList)
  BY DEF Held
<1> HIDE DEF gone
<1>3. Booked(Bundle, MaxBytes, rest, nBytes - Bytes(gone), nBundles - Cardinality(gone), ~over)
  BY <1>1, <1>2, SizeType, BookedShrinks DEF BufferInv
<1> QED BY <1>1, <1>3 DEF gone

(* Some of what is held is deleted. *)
LEMMA LeftIsBooked ==
  ASSUME BufferInv, NEW gone \in SUBSET Held
  PROVE  /\ Booked(Bundle, MaxBytes, Left(gone), nBytes - Bytes(gone),
                   nBundles - Cardinality(gone), ~over)
         /\ Bytes(Held) = Bytes(ToSet(Left(gone))) + Bytes(gone)
         /\ Bytes(ToSet(Left(gone))) \in Nat /\ Bytes(gone) \in Nat
<1>1. /\ Left(gone) \in Seq(Bundle) /\ IsInjective(Left(gone))
      /\ ToSet(Left(gone)) = Held \ gone
  BY WhatIsLeft
<1>2. Held \ ToSet(Left(gone)) = gone
  BY <1>1
<1> QED BY <1>1, <1>2, RestIsBooked

(* The counters of an empty list go nowhere that matters, and those of one *)
(* that is kept move with it, or by what a bundle put in grows.            *)
LEMMA BooksAreCounted ==
  ASSUME BufferInv',
         ~over' => \/ Drift' = Drift
                   \/ \E g \in Held' \ Held : \E size \in Comes[g] :
                        Drift' = Drift + Size[g] - size
  PROVE  CountedRight
BY DEF BufferInv, Booked, CountedRight

LEMMA QuietBooks ==
  ASSUME BufferInv, UNCHANGED <<bundleList, nBytes, nBundles, over>>
  PROVE  BufferInv' /\ CountedRight
<1>1. BufferInv'
  BY DEF BufferInv
<1>2. Drift' = Drift
  BY DEF Drift, Held, Bytes
<1> QED BY <1>1, <1>2, BooksAreCounted

(* Bundles held are deleted, and nothing else comes or goes. *)
LEMMA DeletedBooks ==
  ASSUME BufferInv, NEW gone \in SUBSET Held, bundleList' = Left(gone),
         nBytes' = nBytes - Bytes(gone), nBundles' = nBundles - Cardinality(gone),
         over' = over
  PROVE  BufferInv' /\ CountedRight
<1>1. BufferInv'
  BY LeftIsBooked DEF BufferInv
<1>2. Bytes(Held)' = Bytes(ToSet(Left(gone))) /\ Drift' = Bytes(Held)' - nBytes'
  BY DEF Held, Bytes, Drift
<1>3. /\ Bytes(Held) = Bytes(ToSet(Left(gone))) + Bytes(gone)
      /\ Bytes(ToSet(Left(gone))) \in Nat /\ Bytes(gone) \in Nat /\ nBytes \in Int
  BY LeftIsBooked DEF BufferInv, Booked
<1>4. Drift' = Drift
  BY <1>2, <1>3 DEF Drift
<1> QED BY <1>1, <1>4, BooksAreCounted

(* A bundle is put behind the rest of the list, counted as the size that   *)
(* it came with.                                                           *)
LEMMA PutInBooks ==
  ASSUME BufferInv, NEW g \in Bundle, g \notin Held, NEW size \in Comes[g] \cup {Size[g]},
         NEW rest \in Seq(Bundle), IsInjective(rest), ToSet(rest) \subseteq Held,
         bundleList' = Append(rest, g), over' = over,
         nBytes' = nBytes - Bytes(Held \ ToSet(rest)) + size, nBytes' <= MaxBytes,
         nBundles' = nBundles - Cardinality(Held \ ToSet(rest)) + 1
  PROVE  BufferInv' /\ CountedRight /\ Held' = ToSet(rest) \cup {g}
<1> DEFINE gone == Held \ ToSet(rest)
           bytes == nBytes - Bytes(gone)
           count == nBundles - Cardinality(gone)
<1>1. /\ Booked(Bundle, MaxBytes, rest, bytes, count, ~over)
      /\ Bytes(Held) = Bytes(ToSet(rest)) + Bytes(gone)
      /\ Bytes(ToSet(rest)) \in Nat /\ Bytes(gone) \in Nat
  BY RestIsBooked
<1>2. g \notin ToSet(rest) /\ size \in Nat /\ Size[g] \in Nat /\ nBytes \in Int
  BY ComesType, SizeType DEF BufferInv, Booked
<1>3. nBytes' = bytes + size /\ nBundles' = count + 1
  OBVIOUS
<1> HIDE DEF bytes, count
<1>4. /\ Booked(Bundle, MaxBytes, Append(rest, g), bytes + size, count + 1, ~over)
      /\ ToSet(Append(rest, g)) = ToSet(rest) \cup {g}
  <2> DEFINE after == bytes + size
             exact == ~over
  <2>1. after \in Int /\ after <= MaxBytes /\ MaxBytes \in Nat
    BY <1>1, <1>2, <1>3, SizeType DEF bytes
  <2>2. Booked(Bundle, MaxBytes, rest, bytes, count, exact)
    BY <1>1
  <2> HIDE DEF after, exact
  <2>3. /\ Booked(Bundle, MaxBytes, Append(rest, g), after, count + 1, exact)
        /\ ToSet(Append(rest, g)) = ToSet(rest) \cup {g}
    BY <1>2, <2>1, <2>2, BookedGrows
  <2> QED BY <2>3 DEF after, exact
<1>5. BufferInv' /\ Held' = ToSet(rest) \cup {g}
  BY <1>3, <1>4 DEF BufferInv, Held
<1>6. Bytes(Held)' = Bytes(ToSet(rest)) + Size[g]
  <2>1. IsFiniteSet(Held') /\ Held' \subseteq Bundle
    BY <1>5, InjectiveList DEF BufferInv, Booked, Held
  <2>2. Held' \ {g} = ToSet(rest)
    BY <1>2, <1>5
  <2>3. SumFunctionOnSet(Size, Held') = Size[g] + SumFunctionOnSet(Size, Held' \ {g})
    <3> DEFINE S == Held'
    <3>1. IsFiniteSet(S) /\ g \in S /\ \A x \in S : Size[x] \in Nat
      BY <1>5, <2>1, SizeType
    <3> HIDE DEF S
    <3>2. SumFunctionOnSet(Size, S) = Size[g] + SumFunctionOnSet(Size, S \ {g})
      BY <3>1, TotalWithout
    <3> QED BY <3>2 DEF S
  <2>4. Bytes(Held)' = Size[g] + Bytes(ToSet(rest))
    BY <2>2, <2>3 DEF Bytes
  <2> QED BY <1>1, <1>2, <2>4
<1>7. Drift' = Drift + Size[g] - size
  BY <1>1, <1>2, <1>3, <1>6 DEF Drift, bytes
<1>8. size = Size[g] => Drift' = Drift
  <2>1. Drift \in Int
    BY <1>1, <1>2 DEF Drift
  <2> QED BY <1>2, <1>7, <2>1
<1>9. g \in Held' \ Held
  BY <1>5
<1>10. CountedRight
  BY <1>5, <1>7, <1>8, <1>9, BooksAreCounted
<1> QED BY <1>5, <1>10

(* Room is made, and the bundle put last if there is any then. *)
LEMMA InsertBundleBooks ==
  ASSUME BufferInv, NEW g \in Bundle, g \notin Held, NEW size \in Comes[g] \cup {Size[g]},
         NEW rest \in Seq(Bundle), IsInjective(rest), ToSet(rest) \subseteq Held,
         InsertBundle(g, size, rest), over' = over
  PROVE  /\ BufferInv' /\ CountedRight
         /\ ToSet(rest) \subseteq Held' /\ Held' \subseteq ToSet(rest) \cup {g}
<1> DEFINE gone == Held \ ToSet(rest)
           bytes == nBytes - Bytes(gone)
           count == nBundles - Cardinality(gone)
<1>1. \/ /\ HasRoom(bytes, size) /\ bundleList' = Append(rest, g)
         /\ nBytes' = bytes + size /\ nBundles' = count + 1
      \/ bundleList' = rest /\ nBytes' = bytes /\ nBundles' = count
  BY DEF InsertBundle
<1>2. CASE bundleList' = rest /\ nBytes' = bytes /\ nBundles' = count
  <2>1. /\ Booked(Bundle, MaxBytes, rest, bytes, count, ~over)
        /\ Bytes(Held) = Bytes(ToSet(rest)) + Bytes(gone)
        /\ Bytes(ToSet(rest)) \in Nat /\ Bytes(gone) \in Nat /\ nBytes \in Int
    BY RestIsBooked DEF BufferInv, Booked
  <2> HIDE DEF gone
  <2>2. BufferInv' /\ Held' = ToSet(rest)
    BY <1>2, <2>1 DEF BufferInv, Held
  <2>3. Drift' = Drift
    <3>1. Drift' = Bytes(ToSet(rest)) - nBytes'
      BY <2>2 DEF Drift, Bytes
    <3> QED BY <1>2, <2>1, <3>1 DEF Drift
  <2> QED BY <2>2, <2>3, BooksAreCounted
<1>3. CASE /\ HasRoom(bytes, size) /\ bundleList' = Append(rest, g)
           /\ nBytes' = bytes + size /\ nBundles' = count + 1
  <2>1. nBytes' <= MaxBytes
    <3>1. Bytes(gone) \in Nat /\ nBytes \in Int /\ size \in Nat
      BY RestIsBooked, ComesType DEF BufferInv, Booked
    <3> HIDE DEF gone
    <3> QED BY <1>3, <3>1, SizeType DEF HasRoom
  <2>2. nBytes' = nBytes - Bytes(Held \ ToSet(rest)) + size
    BY <1>3
  <2>3. nBundles' = nBundles - Cardinality(Held \ ToSet(rest)) + 1
    BY <1>3
  <2>4. BufferInv' /\ CountedRight /\ Held' = ToSet(rest) \cup {g}
    BY <1>3, <2>1, <2>2, <2>3, PutInBooks
  <2> QED BY <2>4
<1> QED BY <1>1, <1>2, <1>3

(* What has expired is out of the list. *)
LEMMA FreshIsBooked ==
  ASSUME BufferInv
  PROVE  /\ Booked(Bundle, MaxBytes, Fresh, FreshBytes, nBundles - Cardinality(Stale), ~over)
         /\ ToSet(Fresh) = Held \ Stale
         /\ Len(Fresh) = Len(bundleList) - Cardinality(Stale) /\ Cardinality(Stale) \in Nat
         /\ bundleList = <<>> => Fresh = <<>>
<1>1. Booked(Bundle, MaxBytes, Fresh, FreshBytes, nBundles - Cardinality(Stale), ~over)
  <2>1. Held \cap expired \in SUBSET Held
    OBVIOUS
  <2> QED BY <2>1, LeftIsBooked DEF Fresh, FreshBytes, Stale
<1>2. ToSet(Fresh) = Held \ Stale /\ (bundleList = <<>> => Fresh = <<>>)
  BY WhatIsLeft DEF Fresh, Stale
<1>3. /\ Cardinality(Held) = Len(bundleList) /\ IsFiniteSet(Held) /\ Len(bundleList) \in Nat
      /\ Cardinality(ToSet(Fresh)) = Len(Fresh) /\ Len(Fresh) \in Nat
  BY <1>1, InjectiveList DEF Booked, BufferInv, Held
<1>4. Cardinality(Held \ Stale) = Cardinality(Held) - Cardinality(Stale)
  <2>1. Held \cap Stale = Stale
    BY DEF Stale
  <2>2. Cardinality(Held \ Stale) = Cardinality(Held) - Cardinality(Held \cap Stale)
    BY <1>3, FS_Difference
  <2> QED BY <2>1, <2>2
<1>5. Cardinality(Stale) \in Nat
  <2>1. Stale \in SUBSET Held
    BY DEF Stale
  <2> QED BY <1>3, <2>1, FS_Subset, FS_CardinalityType
<1> QED BY <1>1, <1>2, <1>3, <1>4, <1>5

(* MakeRoomForBundle leaves the end of what has not expired. *)
LEMMA RoomIsMade ==
  ASSUME BufferInv, NEW size
  PROVE  /\ MakeRoomForBundle(size) \in Seq(Bundle) /\ IsInjective(MakeRoomForBundle(size))
         /\ ToSet(MakeRoomForBundle(size)) \subseteq Held
<1>1. Fresh \in Seq(Bundle) /\ IsInjective(Fresh) /\ ToSet(Fresh) \subseteq Held
  BY FreshIsBooked DEF Booked
<1>2. Len(Fresh) \in Nat
  BY <1>1
<1>3. PICK k \in 0..Len(Fresh) : MakeRoomForBundle(size) = SubSeq(Fresh, k + 1, Len(Fresh))
  <2> DEFINE enough == {k \in 0..Len(Fresh) :
                          HasRoom(FreshBytes - Bytes(ToSet(SubSeq(Fresh, 1, k))), size)}
             k == IF enough = {} THEN Len(Fresh) ELSE Min(enough)
  <2>1. MakeRoomForBundle(size) = SubSeq(Fresh, k + 1, Len(Fresh))
    BY DEF MakeRoomForBundle
  <2>2. enough \in SUBSET Nat /\ enough \subseteq 0..Len(Fresh)
    OBVIOUS
  <2> HIDE DEF enough
  <2>3. enough # {} => Min(enough) \in 0..Len(Fresh)
    BY <2>2, MinIsLeast
  <2>4. k \in 0..Len(Fresh)
    BY <1>2, <2>3
  <2> HIDE DEF k
  <2> QED BY <2>1, <2>4
<1>4. k + 1 \in 1..(Len(Fresh) + 1) /\ Len(Fresh) \in 0..Len(Fresh)
  BY <1>2
<1>5. /\ SubSeq(Fresh, k + 1, Len(Fresh)) \in Seq(Bundle)
      /\ IsInjective(SubSeq(Fresh, k + 1, Len(Fresh)))
      /\ ToSet(SubSeq(Fresh, k + 1, Len(Fresh))) \subseteq ToSet(Fresh)
  BY <1>1, <1>4, PartOfList
<1> QED BY <1>1, <1>3, <1>5

LEMMA LookBooks ==
  ASSUME BufferInv, RemoveExpired, over' = over
  PROVE  BufferInv' /\ CountedRight
<1>1. /\ bundleList' = Left(Stale) /\ nBytes' = nBytes - Bytes(Stale)
      /\ nBundles' = nBundles - Cardinality(Stale) /\ Stale \in SUBSET Held
  BY DEF RemoveExpired, Fresh, FreshBytes, Stale
<1> QED BY <1>1, DeletedBooks

LEMMA BundleReceivedBooks ==
  ASSUME BufferInv, NEW g \in Bundle, NEW size \in Comes[g] \cup {Size[g]},
         BundleReceived(g, size)
  PROVE  BufferInv' /\ CountedRight
<1>1. /\ g \notin Held /\ InsertBundle(g, size, MakeRoomForBundle(size)) /\ over' = over
  BY DEF BundleReceived, ReceivedWith, AcceptBundle
<1> QED BY <1>1, RoomIsMade, InsertBundleBooks

LEMMA LocalBundleDeliveryBooks ==
  ASSUME BufferInv, NEW g, LocalBundleDelivery(g)
  PROVE  BufferInv' /\ CountedRight
<1>1. \E gone \in SUBSET Held :
        /\ bundleList' = Left(gone) /\ nBytes' = nBytes - Bytes(gone)
        /\ nBundles' = nBundles - Cardinality(gone) /\ over' = over
  BY DEF LocalBundleDelivery, KnownDelivered
<1> QED BY <1>1, DeletedBooks

LEMMA BundleSentBooks ==
  ASSUME BufferInv, NEW p, NEW g, NEW o, BundleSent(p, g, o)
  PROVE  BufferInv' /\ CountedRight
<1>1. \E gone \in SUBSET Held :
        /\ bundleList' = Left(gone) /\ nBytes' = nBytes - Bytes(gone)
        /\ nBundles' = nBundles - Cardinality(gone) /\ over' = over
  BY DEF BundleSent, KnownDelivered
<1> QED BY <1>1, DeletedBooks

(* The last hello empties the list and leaves the counters. *)
LEMMA DoSendHelloBooks ==
  ASSUME BufferInv, DoSendHello
  PROVE  BufferInv' /\ CountedRight
<1>1. nBytes \in Int /\ nBundles \in Nat /\ nBytes <= MaxBytes
  BY DEF BufferInv, Booked
<1>2. bundleList' = <<>> /\ nBytes' = nBytes /\ nBundles' = nBundles /\ over'
  BY DEF DoSendHello
<1>3. Booked(Bundle, MaxBytes, <<>>, nBytes, nBundles, ~over')
  BY <1>1, <1>2, SizeType, BookedEmpty
<1>4. BufferInv'
  BY <1>2, <1>3 DEF BufferInv
<1> QED BY <1>2, <1>4, BooksAreCounted

-----------------------------------------------------------------------------
(* A look that is due. *)

(* After what schedules one of itself there is one. *)
LEMMA OnceMoreDue ==
  ASSUME ~Polling, DueInv, NEW k \in Nat, tries' = More(k + 1)
  PROVE  DueInv'
<1>1. More(k + 1) \in 0..TryBound /\ More(k + 1) > 0
  BY MoreAreDue DEF DueInv
<1> QED BY <1>1 DEF DueInv

(* Each report schedules one, and without any nothing has changed. *)
LEMMA ReportsDue ==
  ASSUME ~Polling, DueInv, NEW o, IsSeq(o), NEW bundles, NEW peers,
         tries' = More(Cardinality(Hits(o, bundles, peers))),
         isSending' = StillSending(isSending, Hits(o, bundles, peers)),
         bundleList' # <<>> => bundleList # <<>>
  PROVE  DueInv'
<1> DEFINE hits == Hits(o, bundles, peers)
           k == Cardinality(hits)
<1>1. k \in Nat /\ (hits # {} => k > 0)
  BY HitsAreCounted
<1>2. tries' = More(k) /\ (isSending' <=> isSending /\ hits = {})
  BY DEF StillSending
<1>3. More(k) \in 0..TryBound /\ (tries > 0 \/ k > 0 => More(k) > 0)
  BY <1>1, MoreAreDue DEF DueInv
<1> HIDE DEF hits, k
<1>4. ~isSending' /\ bundleList' # <<>> => tries > 0 \/ k > 0
  BY <1>1, <1>2 DEF DueInv
<1> QED BY <1>2, <1>3, <1>4 DEF DueInv

LEMMA QuietDue ==
  ASSUME DueInv, UNCHANGED <<tries, isSending, bundleList>>
  PROVE  DueInv'
BY DEF DueInv

LEMMA InsertBundleDue ==
  ASSUME ~Polling, DueInv, WaitInv, BufferInv, NEW g, NEW size, NEW rest \in Seq(Bundle),
         ToSet(rest) \subseteq Held, InsertBundle(g, size, rest)
  PROVE  DueInv'
<1> DEFINE gone == Held \ ToSet(rest)
           hits == Hits(outbox, gone, Mac)
<1>1. /\ isSending' = StillSending(isSending, hits)
      /\ \/ tries' = More(Cardinality(hits) + 1)
         \/ bundleList' = rest /\ tries' = More(Cardinality(hits))
  BY DEF InsertBundle
<1>2. IsSeq(outbox) /\ Cardinality(hits) \in Nat
  BY HitsAreCounted DEF WaitInv, Reported
<1>3. rest # <<>> => bundleList # <<>>
  <2>1. ASSUME rest # <<>> PROVE ToSet(rest) # {}
    <3>1. 1 \in DOMAIN rest
      BY <2>1
    <3> QED BY <3>1 DEF ToSet
  <2>2. bundleList = <<>> => Held = {}
    BY DEF Held, ToSet
  <2> QED BY <2>1, <2>2
<1>4. CASE tries' = More(Cardinality(hits) + 1)
  BY <1>2, <1>4, OnceMoreDue
<1>5. CASE bundleList' = rest /\ tries' = More(Cardinality(hits))
  BY <1>1, <1>2, <1>3, <1>5, ReportsDue
<1> QED BY <1>1, <1>4, <1>5

LEMMA BundleReceivedDue ==
  ASSUME ~Polling, DueInv, WaitInv, BufferInv, NEW g, NEW size, BundleReceived(g, size)
  PROVE  DueInv'
BY RoomIsMade, InsertBundleDue DEF BundleReceived, ReceivedWith

LEMMA LocalBundleDeliveryDue ==
  ASSUME ~Polling, DueInv, WaitInv, BufferInv, NEW g, LocalBundleDelivery(g)
  PROVE  DueInv'
<1>1. PICK gone : /\ bundleList' = Left(gone)
                  /\ isSending' = StillSending(isSending, Hits(outbox, gone, Mac))
                  /\ tries' = More(Cardinality(Hits(outbox, gone, Mac)))
  BY DEF LocalBundleDelivery
<1>2. bundleList' # <<>> => bundleList # <<>>
  BY <1>1, WhatIsLeft
<1>3. IsSeq(outbox)
  BY DEF WaitInv, Reported
<1> QED BY <1>1, <1>2, <1>3, ReportsDue

LEMMA BundleSentDue ==
  ASSUME ~Polling, DueInv, NEW p, NEW g, NEW o, IsSeq(o), BundleSent(p, g, o)
  PROVE  DueInv'
<1>1. PICK gone : tries' = More(Cardinality(Hits(o, gone, Mac)) + 1)
  BY DEF BundleSent, LookOnceSent
<1>2. Cardinality(Hits(o, gone, Mac)) \in Nat
  BY HitsAreCounted
<1> QED BY <1>1, <1>2, OnceMoreDue

LEMMA CloseLinkDue ==
  ASSUME ~Polling, DueInv, WaitInv, NEW p, CloseLink(p)
  PROVE  DueInv'
<1>1. /\ tries' = More(Cardinality(Hits(outbox, ToSet(queue[p]), {p})))
      /\ isSending' = StillSending(isSending, Hits(outbox, ToSet(queue[p]), {p}))
      /\ bundleList' = bundleList
  BY DEF CloseLink
<1>2. IsSeq(outbox)
  BY DEF WaitInv, Reported
<1> QED BY <1>1, <1>2, ReportsDue

LEMMA BundleTransmissionFailedDue ==
  ASSUME ~Polling, DueInv, WaitInv, BundleTransmissionFailed
  PROVE  DueInv'
<1> DEFINE p == Head(outbox).mac
           hits == Hits(Tail(outbox), ToSet(queue[p]), {p})
<1>1. outbox # <<>> /\ (tries' = More(Cardinality(hits) + 1) \/ tries' = More(1))
  BY DEF BundleTransmissionFailed
<1>2. IsSeq(Tail(outbox))
  BY <1>1, TailIsSeq DEF WaitInv, Reported
<1>3. Cardinality(hits) \in Nat
  BY <1>2, HitsAreCounted
<1>4. CASE tries' = More(Cardinality(hits) + 1)
  BY <1>3, <1>4, OnceMoreDue
<1>5. CASE tries' = More(1)
  <2>1. tries' = More(0 + 1)
    BY <1>5
  <2> QED BY <2>1, OnceMoreDue
<1> QED BY <1>1, <1>4, <1>5

LEMMA LinkComesUpDue ==
  ASSUME ~Polling, DueInv, NEW p, DiscoveredLink(p) \/ UnPauseLink(p)
  PROVE  DueInv'
<1>1. tries' = More(0 + 1)
  BY DEF DiscoveredLink, UnPauseLink
<1> QED BY <1>1, OnceMoreDue

(* A bundle is passed on, as one of the looks.                             *)
Passes(p, g) == SendBundle(p, g) /\ tries' \in Fewer(More(Cardinality(StaleHits)))

(* A look that finds nothing to do is the last, unless the router sends or *)
(* holds nothing; one that finds nothing to send looks again.              *)
LEMMA LookDue ==
  ASSUME ~Polling, DueInv, WaitInv, BufferInv, tries > 0, RemoveExpired,
         NotNow \/ LookAgain \/ \E p, g : Passes(p, g)
  PROVE  DueInv'
<1> DEFINE k == Cardinality(StaleHits)
<1>1. k \in Nat
  BY HitsAreCounted DEF WaitInv, Reported, StaleHits
<1>2. More(k) \in 1..TryBound
  BY <1>1, MoreAreDue DEF DueInv
<1>3. Fewer(More(k)) \subseteq 0..TryBound
  BY <1>2, SizeType DEF Fewer
<1> HIDE DEF k
<1>4. CASE NotNow
  <2>1. /\ tries' \in Fewer(More(k)) /\ isSending' = StillSending(isSending, StaleHits)
        /\ ~StillSending(isSending, StaleHits) => ~(nBundles > Cardinality(Stale))
        /\ bundleList' = Fresh
    BY <1>4 DEF k, NotNow, NothingSent, Idle, RemoveExpired
  <2>2. ~(nBundles > Cardinality(Stale)) => Fresh = <<>>
    <3>1. /\ Len(Fresh) = Len(bundleList) - Cardinality(Stale)
          /\ nBundles - Cardinality(Stale) \in Nat /\ Len(Fresh) <= nBundles - Cardinality(Stale)
          /\ Fresh \in Seq(Bundle) /\ nBundles \in Nat
      BY FreshIsBooked DEF Booked, BufferInv
    <3>2. Cardinality(Stale) \in Nat
      BY FreshIsBooked
    <3> HIDE DEF Fresh
    <3>3. ~(nBundles > Cardinality(Stale)) => Len(Fresh) = 0
      BY <3>1, <3>2
    <3> QED BY <3>1, <3>3
  <2> QED BY <1>3, <2>1, <2>2 DEF DueInv
<1>5. CASE LookAgain
  BY <1>2, <1>5, SizeType DEF k, LookAgain, DueInv
<1>6. CASE \E p, g : Passes(p, g)
  <2>1. isSending' = TRUE /\ tries' \in Fewer(More(k))
    BY <1>6 DEF k, Passes, SendBundle
  <2> QED BY <1>3, <2>1 DEF DueInv
<1> QED BY <1>4, <1>5, <1>6

(* The last hello empties the list. *)
LEMMA DoSendHelloDue ==
  ASSUME DueInv, DoSendHello
  PROVE  DueInv'
BY DEF DueInv, DoSendHello

-----------------------------------------------------------------------------
(* What is common to the steps of all routers that relay.                  *)

(* Bundles held are deleted, and no others. *)
Deletes(gone) ==
  /\ gone \subseteq Held
  /\ Forget(gone, outbox, queue)
  /\ bundleList' = Left(gone)
  /\ nBytes' = nBytes - Bytes(gone)
  /\ nBundles' = nBundles - Cardinality(gone)
  /\ isSending' = StillSending(isSending, Hits(outbox, gone, Mac))
  /\ tries' = More(Cardinality(Hits(outbox, gone, Mac)))
  /\ over' = over

(* A bundle is put in, with some of those held, and counted as it came, or *)
(* as it is held if this node generates it.                                *)
Inserts(g, size, rest) ==
  /\ g \in Bundle \ Held /\ size \in Comes[g] \cup {Size[g]}
  /\ rest \in Seq(Bundle) /\ IsInjective(rest) /\ ToSet(rest) \subseteq Held
  /\ InsertBundle(g, size, rest)
  /\ over' = over

(* What the handlers do, but for the look for work. *)
Handles ==
  \/ BundleQueued \/ Discard \/ BundleTransmissionFailed \/ DoSendHello
  \/ \E p : CloseLink(p) \/ DiscoveredLink(p) \/ UnPauseLink(p)
  \/ \E g : Expire(g)
  \/ \E g, size, rest : Inserts(g, size, rest)
  \/ \E gone : Deletes(gone)
  \/ \E p, g : outbox # <<>> /\ BundleSent(p, g, Tail(outbox))
  \/ \E p, g : BundleSent(p, g, outbox)

(* A look for work: by a timer of the router's own, or for what happened. *)
Looks ==
  /\ tries > 0 /\ RemoveExpired /\ over' = over
  /\ \/ Polling /\ tries' = tries /\ (NothingSent \/ \E p, g : SendBundle(p, g))
     \/ ~Polling /\ (NotNow \/ LookAgain \/ \E p, g : Passes(p, g))

(* An answer of the custody exchange goes out, if there is one, and some   *)
(* of what is held is deleted.  Perhaps a bundle comes in that there is    *)
(* room for.                                                               *)
Exchanges(ans, gone) ==
  LET hits == Hits(outbox, gone, Mac)
  IN  /\ gone \subseteq Held
      /\ ans = <<>> \/ \E e : ans = <<e>>
      /\ outbox' = Marked(outbox, hits)
      /\ handoff' = Late(gone) \o ans
      /\ isSending' = StillSending(isSending \/ ans # <<>>, hits)
      /\ over' = over
      /\ \/ gone = {} /\ UNCHANGED <<bundleList, nBytes, nBundles, tries>>
         \/ /\ bundleList' = Left(gone) /\ nBytes' = nBytes - Bytes(gone)
            /\ nBundles' = nBundles - Cardinality(gone)
            /\ tries' = More(Cardinality(hits))
         \/ /\ \E g \in Bundle \ Held : \E size \in Comes[g] :
                 /\ HasRoom(nBytes, size) /\ bundleList' = Append(Left(gone), g)
                 /\ nBytes' = nBytes - Bytes(gone) + size
            /\ nBundles' = nBundles - Cardinality(gone) + 1
            /\ tries' = More(Cardinality(hits) + 1)

(* The handlers of bundles are such. *)
LEMMA BundlesAreHandled ==
  ASSUME BufferInv
  PROVE  /\ \A g \in Bundle : \A size \in Comes[g] \cup {Size[g]} :
              BundleReceived(g, size) => Handles
         /\ \A g : LocalBundleDelivery(g) => Handles
         /\ Retired \/ PassedOn => Handles
<1>1. ASSUME NEW g \in Bundle, NEW size \in Comes[g] \cup {Size[g]}, BundleReceived(g, size)
      PROVE  Handles
  <2>1. Inserts(g, size, MakeRoomForBundle(size))
    BY <1>1, RoomIsMade DEF BundleReceived, ReceivedWith, AcceptBundle, Inserts
  <2> QED BY <2>1 DEF Handles
<1>2. ASSUME NEW g, LocalBundleDelivery(g) PROVE Handles
  <2>1. Deletes(KnownDelivered(kdm'))
    BY <1>2 DEF LocalBundleDelivery, KnownDelivered, Deletes
  <2> QED BY <2>1 DEF Handles
<1>3. ASSUME Retired \/ PassedOn PROVE Handles
  BY <1>3 DEF Retired, PassedOn, Handles
<1> QED BY <1>1, <1>2, <1>3

LEMMA HandlesKeeps ==
  ASSUME WaitInv, BufferInv, Handles
  PROVE  /\ WaitInv' /\ BufferInv' /\ CountedRight
         /\ ~Polling /\ DueInv => DueInv'
         /\ Polling => tries' = tries
<1> DEFINE Keeps == /\ WaitInv' /\ BufferInv' /\ CountedRight
                    /\ ~Polling /\ DueInv => DueInv'
                    /\ Polling => tries' = tries
<1>1. CASE BundleQueued \/ Discard
  <2>1. UNCHANGED <<isSending, bundleList, nBytes, nBundles, tries, over>>
    BY <1>1 DEF BundleQueued, Discard
  <2> QED BY <1>1, <2>1, BundleQueuedWaits, DiscardWaits, QuietBooks, QuietDue
<1>2. CASE BundleTransmissionFailed
  <2>1. UNCHANGED <<bundleList, nBytes, nBundles, over>> /\ (Polling => tries' = tries)
    BY <1>2 DEF BundleTransmissionFailed, More
  <2> QED BY <1>2, <2>1, BundleTransmissionFailedWaits, QuietBooks, BundleTransmissionFailedDue
<1>3. CASE DoSendHello
  <2>1. UNCHANGED <<handoff, outbox, isSending, tries>>
    BY <1>3 DEF DoSendHello
  <2> QED BY <1>3, <2>1, QuietWaits, DoSendHelloBooks, DoSendHelloDue
<1>4. ASSUME NEW p, CloseLink(p) PROVE Keeps
  <2>1. UNCHANGED <<bundleList, nBytes, nBundles, over>> /\ (Polling => tries' = tries)
    BY <1>4 DEF CloseLink, More
  <2> QED BY <1>4, <2>1, CloseLinkWaits, QuietBooks, CloseLinkDue
<1>5. ASSUME NEW p, DiscoveredLink(p) \/ UnPauseLink(p) PROVE Keeps
  <2>1. /\ UNCHANGED <<handoff, outbox, isSending, bundleList, nBytes, nBundles, over>>
        /\ Polling => tries' = tries
    BY <1>5 DEF DiscoveredLink, UnPauseLink, More
  <2> QED BY <1>5, <2>1, QuietWaits, QuietBooks, LinkComesUpDue
<1>6. ASSUME NEW g, Expire(g) PROVE Keeps
  <2>1. UNCHANGED <<handoff, outbox, isSending, bundleList, nBytes, nBundles, tries, over>>
    BY <1>6 DEF Expire
  <2> QED BY <2>1, QuietWaits, QuietBooks, QuietDue
<1>7. ASSUME NEW g, NEW size, NEW rest, Inserts(g, size, rest) PROVE Keeps
  <2>1. /\ g \in Bundle /\ g \notin Held /\ size \in Comes[g] \cup {Size[g]}
        /\ InsertBundle(g, size, rest) /\ over' = over
        /\ rest \in Seq(Bundle) /\ IsInjective(rest) /\ ToSet(rest) \subseteq Held
    BY <1>7 DEF Inserts
  <2>2. Polling => tries' = tries
    BY <2>1 DEF InsertBundle, More
  <2> QED BY <2>1, <2>2, InsertBundleWaits, InsertBundleBooks, InsertBundleDue
<1>8. ASSUME NEW gone, Deletes(gone) PROVE Keeps
  <2>1. WaitInv'
    BY <1>8, ForgetWaits DEF Deletes, WaitInv
  <2>2. BufferInv' /\ CountedRight
    BY <1>8, DeletedBooks DEF Deletes
  <2>3. bundleList' # <<>> => bundleList # <<>>
    BY <1>8, WhatIsLeft DEF Deletes
  <2>4. ~Polling /\ DueInv => DueInv'
    BY <1>8, <2>3, ReportsDue DEF Deletes, WaitInv, Reported
  <2> QED BY <1>8, <2>1, <2>2, <2>4 DEF Deletes, More
<1>9. ASSUME NEW p, NEW g, NEW o, IsSeq(o), BundleSent(p, g, o) PROVE Keeps
  <2>1. Polling => tries' = tries
    BY <1>9 DEF BundleSent, LookOnceSent, More
  <2> QED BY <1>9, <2>1, BundleSentWaits, BundleSentBooks, BundleSentDue
<1>10. IsSeq(outbox) /\ (outbox # <<>> => IsSeq(Tail(outbox)))
  BY TailIsSeq DEF WaitInv, Reported
<1> QED BY <1>1, <1>2, <1>3, <1>4, <1>5, <1>6, <1>7, <1>8, <1>9, <1>10 DEF Handles

LEMMA LooksKeeps ==
  ASSUME WaitInv, BufferInv, Looks
  PROVE  /\ WaitInv' /\ BufferInv' /\ CountedRight
         /\ ~Polling /\ DueInv => DueInv'
         /\ Polling => tries' = tries
<1>1. NothingSent \/ \E p, g : SendBundle(p, g)
  BY DEF Looks, NotNow, LookAgain, Passes
<1>2. Polling => tries' = tries
  BY DEF Looks
<1>3. ~Polling => NotNow \/ LookAgain \/ \E p, g : Passes(p, g)
  BY DEF Looks
<1> QED BY <1>1, <1>2, <1>3, LookWaits, LookBooks, LookDue DEF Looks

(* What goes out is reported, and sending ends if anything is cancelled.   *)
LEMMA ExchangesWaits ==
  ASSUME WaitInv, NEW ans, NEW gone, Exchanges(ans, gone)
  PROVE  WaitInv'
<1> DEFINE hits == Hits(outbox, gone, Mac)
           way == Late(gone)
<1>1. way = [i \in DOMAIN handoff |-> way[i]] /\ outbox' = [i \in DOMAIN outbox |-> outbox'[i]]
  BY DEF Late, Marked, Exchanges
<1>2. hits = {} => outbox' = outbox
  <2>1. outbox = [i \in DOMAIN outbox |-> outbox[i]]
    BY DEF WaitInv, Reported, IsSeq
  <2>2. outbox' = Marked(outbox, hits)
    BY DEF Exchanges
  <2> HIDE DEF hits
  <2> QED BY <2>1, <2>2 DEF Marked
<1>3. /\ ans = <<>> \/ \E e : ans = <<e>>
      /\ handoff' = way \o ans
      /\ isSending' => (isSending \/ ans # <<>>) /\ outbox' = outbox
  BY <1>2 DEF Exchanges, StillSending
<1> HIDE DEF hits, way
<1>4. Reported(isSending', way \o ans, outbox')
  BY <1>1, <1>3, ReportedAnswered DEF WaitInv
<1> QED BY <1>3, <1>4 DEF WaitInv

LEMMA ExchangesBooks ==
  ASSUME BufferInv, NEW ans, NEW gone, Exchanges(ans, gone)
  PROVE  BufferInv' /\ CountedRight
<1>1. /\ gone \in SUBSET Held /\ over' = over
      /\ \/ UNCHANGED <<bundleList, nBytes, nBundles>>
         \/ /\ bundleList' = Left(gone) /\ nBytes' = nBytes - Bytes(gone)
            /\ nBundles' = nBundles - Cardinality(gone)
         \/ /\ \E g \in Bundle \ Held : \E size \in Comes[g] :
                 /\ HasRoom(nBytes, size) /\ bundleList' = Append(Left(gone), g)
                 /\ nBytes' = nBytes - Bytes(gone) + size
            /\ nBundles' = nBundles - Cardinality(gone) + 1
  BY DEF Exchanges
<1>2. CASE UNCHANGED <<bundleList, nBytes, nBundles>>
  BY <1>1, <1>2, QuietBooks
<1>3. CASE /\ bundleList' = Left(gone) /\ nBytes' = nBytes - Bytes(gone)
           /\ nBundles' = nBundles - Cardinality(gone)
  BY <1>1, <1>3, DeletedBooks
<1>4. ASSUME NEW g \in Bundle \ Held, NEW size \in Comes[g],
             HasRoom(nBytes, size), bundleList' = Append(Left(gone), g),
             nBytes' = nBytes - Bytes(gone) + size,
             nBundles' = nBundles - Cardinality(gone) + 1
      PROVE  BufferInv' /\ CountedRight
  <2>1. /\ Left(gone) \in Seq(Bundle) /\ IsInjective(Left(gone))
        /\ ToSet(Left(gone)) \subseteq Held /\ Held \ ToSet(Left(gone)) = gone
    BY <1>1, WhatIsLeft
  <2>2. nBytes' <= MaxBytes
    <3>1. nBytes \in Int /\ Bytes(gone) \in Nat /\ size \in Nat
      BY <1>1, LeftIsBooked, ComesType DEF BufferInv, Booked
    <3> QED BY <1>4, <3>1, SizeType DEF HasRoom
  <2> QED BY <1>1, <1>4, <2>1, <2>2, PutInBooks
<1> QED BY <1>1, <1>2, <1>3, <1>4

LEMMA ExchangesDue ==
  ASSUME ~Polling, DueInv, WaitInv, BufferInv, NEW ans, NEW gone, Exchanges(ans, gone)
  PROVE  DueInv'
<1> DEFINE hits == Hits(outbox, gone, Mac)
<1>1. /\ isSending' = StillSending(isSending \/ ans # <<>>, hits)
      /\ \/ gone = {} /\ bundleList' = bundleList /\ tries' = tries
         \/ bundleList' = Left(gone) /\ tries' = More(Cardinality(hits))
         \/ tries' = More(Cardinality(hits) + 1)
  BY DEF Exchanges
<1>2. Cardinality(hits) \in Nat /\ (hits # {} => Cardinality(hits) > 0)
  BY HitsAreCounted DEF WaitInv, Reported
<1>3. CASE gone = {} /\ bundleList' = bundleList /\ tries' = tries
  <2>1. hits = {}
    BY <1>3 DEF Hits
  <2>2. ~isSending' => ~isSending
    BY <1>1, <2>1 DEF StillSending
  <2> QED BY <1>3, <2>2 DEF DueInv
<1>4. CASE bundleList' = Left(gone) /\ tries' = More(Cardinality(hits))
  <2>1. bundleList' # <<>> => bundleList # <<>>
    BY <1>4, WhatIsLeft
  <2>2. ~isSending' => ~isSending \/ hits # {}
    BY <1>1 DEF StillSending
  <2> HIDE DEF hits
  <2>3. /\ More(Cardinality(hits)) \in 0..TryBound
        /\ tries > 0 \/ Cardinality(hits) > 0 => More(Cardinality(hits)) > 0
    BY <1>2, MoreAreDue DEF DueInv
  <2> QED BY <1>2, <1>4, <2>1, <2>2, <2>3 DEF DueInv
<1>5. CASE tries' = More(Cardinality(hits) + 1)
  BY <1>2, <1>5, OnceMoreDue
<1> QED BY <1>1, <1>3, <1>4, <1>5

(* All that a router that relays does, as far as these are concerned. *)
Relaying ==
  \/ Handles \/ Looks
  \/ \E ans, gone : Exchanges(ans, gone)
  \/ UNCHANGED <<handoff, outbox, isSending, bundleList, nBytes, nBundles, tries, over>>

LEMMA RelayingKeeps ==
  ASSUME WaitInv, BufferInv, Relaying
  PROVE  /\ WaitInv' /\ BufferInv' /\ CountedRight
         /\ ~Polling /\ DueInv => DueInv'
         /\ Polling => tries' = tries
<1>1. ASSUME NEW ans, NEW gone, Exchanges(ans, gone)
      PROVE  /\ WaitInv' /\ BufferInv' /\ CountedRight
             /\ ~Polling /\ DueInv => DueInv'
             /\ Polling => tries' = tries
  <2>1. Polling => tries' = tries
    BY <1>1 DEF Exchanges, More
  <2> QED BY <1>1, <2>1, ExchangesWaits, ExchangesBooks, ExchangesDue
<1>2. CASE UNCHANGED <<handoff, outbox, isSending, bundleList, nBytes, nBundles, tries, over>>
  BY <1>2, QuietWaits, QuietBooks, QuietDue
<1> QED BY <1>1, <1>2, HandlesKeeps, LooksKeeps DEF Relaying

-----------------------------------------------------------------------------
(* What the agent sends. *)

(* All that the agent has, or is to have, is held, unless it was deleted   *)
(* before the agent had it or was called off.                              *)
Vouched(way, out, held) ==
  /\ \A i \in DOMAIN out : ~out[i].cancelled /\ ~out[i].late => out[i].gbid \in held
  /\ \A i \in DOMAIN way : ~way[i].late => way[i].gbid \in held

HeldInv ==
  /\ handoff \in Seq(Passed) /\ outbox \in Seq(Entry)
  /\ ~over => Vouched(handoff, outbox, Held)

(* Marking entries changes nothing but that they are cancelled. *)
LEMMA MarkedIsVouched ==
  ASSUME NEW o \in Seq(Entry), NEW hits
  PROVE  /\ Marked(o, hits) \in Seq(Entry) /\ DOMAIN Marked(o, hits) = DOMAIN o
         /\ \A i \in DOMAIN o :
              /\ Marked(o, hits)[i].gbid = o[i].gbid /\ Marked(o, hits)[i].late = o[i].late
              /\ ~Marked(o, hits)[i].cancelled => ~o[i].cancelled /\ i \notin hits
<1> DEFINE s == Marked(o, hits)
<1>1. DOMAIN o = 1..Len(o) /\ Len(o) \in Nat
  OBVIOUS
<1>2. \A i \in 1..Len(o) : o[i] \in Entry
  OBVIOUS
<1>3. \A i \in 1..Len(o) : s[i] = IF i \in hits THEN [o[i] EXCEPT !.cancelled = TRUE] ELSE o[i]
  BY <1>1 DEF Marked
<1>4. ASSUME NEW i \in 1..Len(o)
      PROVE  /\ s[i] \in Entry /\ s[i].gbid = o[i].gbid /\ s[i].late = o[i].late
             /\ ~s[i].cancelled => ~o[i].cancelled /\ i \notin hits
  <2>1. o[i] \in Entry /\ s[i] = IF i \in hits THEN [o[i] EXCEPT !.cancelled = TRUE] ELSE o[i]
    BY <1>2, <1>3
  <2> HIDE DEF s
  <2> QED BY <2>1 DEF Entry
<1>5. s = [i \in 1..Len(o) |-> s[i]]
  BY <1>1 DEF Marked
<1> HIDE DEF s
<1>6. s \in [1..Len(o) -> Entry]
  BY <1>4, <1>5
<1>7. s \in Seq(Entry) /\ DOMAIN s = DOMAIN o
  BY <1>1, <1>6, <1>5
<1> QED BY <1>1, <1>4, <1>7 DEF s

(* So does a deletion with what is on its way. *)
LEMMA LateIsVouched ==
  ASSUME handoff \in Seq(Passed), NEW gone
  PROVE  /\ Late(gone) \in Seq(Passed) /\ DOMAIN Late(gone) = DOMAIN handoff
         /\ \A i \in DOMAIN handoff :
              /\ Late(gone)[i].gbid = handoff[i].gbid
              /\ ~Late(gone)[i].late => ~handoff[i].late /\ handoff[i].gbid \notin gone
<1> DEFINE s == Late(gone)
<1>1. DOMAIN handoff = 1..Len(handoff) /\ Len(handoff) \in Nat
  OBVIOUS
<1>2. \A i \in 1..Len(handoff) : handoff[i] \in Passed
  OBVIOUS
<1>3. /\ \A i \in 1..Len(handoff) :
           s[i] = [handoff[i] EXCEPT !.late = @ \/ handoff[i].gbid \in gone]
      /\ s = [i \in 1..Len(handoff) |-> s[i]]
  BY <1>1 DEF Late
<1> HIDE DEF s
<1>4. ASSUME NEW i \in 1..Len(handoff)
      PROVE  /\ s[i] \in Passed /\ s[i].gbid = handoff[i].gbid
             /\ ~s[i].late => ~handoff[i].late /\ handoff[i].gbid \notin gone
  <2>1. handoff[i] \in Passed
    BY <1>2
  <2>2. s[i] = [handoff[i] EXCEPT !.late = handoff[i].late \/ handoff[i].gbid \in gone]
    BY <1>3
  <2> QED BY <2>1, <2>2 DEF Passed
<1>5. s \in [1..Len(handoff) -> Passed]
  BY <1>3, <1>4
<1>6. s \in Seq(Passed) /\ DOMAIN s = DOMAIN handoff
  BY <1>1, <1>3, <1>5
<1> QED BY <1>1, <1>4, <1>6 DEF s

(* DeleteBundle calls off what it deletes, wherever it is. *)
LEMMA ForgetVouches ==
  ASSUME HeldInv, NEW gone, NEW o \in Seq(Entry), NEW held, ~over => Vouched(handoff, o, Held),
         Held \ gone \subseteq held
  PROVE  /\ Late(gone) \in Seq(Passed) /\ Marked(o, Hits(o, gone, Mac)) \in Seq(Entry)
         /\ ~over => Vouched(Late(gone), Marked(o, Hits(o, gone, Mac)), held)
<1> DEFINE hits == Hits(o, gone, Mac)
           out == Marked(o, hits)
           way == Late(gone)
<1>1. \A i \in DOMAIN o : i \in hits \/ o[i].cancelled \/ o[i].gbid \notin gone
  <2>1. \A i \in DOMAIN o : o[i] \in Entry
    OBVIOUS
  <2> QED BY <2>1 DEF Hits, Entry
<1> HIDE DEF hits
<1>2. /\ out \in Seq(Entry) /\ DOMAIN out = DOMAIN o
      /\ \A i \in DOMAIN o :
           /\ out[i].gbid = o[i].gbid /\ out[i].late = o[i].late
           /\ ~out[i].cancelled => ~o[i].cancelled /\ i \notin hits
  BY MarkedIsVouched
<1>3. /\ way \in Seq(Passed) /\ DOMAIN way = DOMAIN handoff
      /\ \A i \in DOMAIN handoff :
           /\ way[i].gbid = handoff[i].gbid
           /\ ~way[i].late => ~handoff[i].late /\ handoff[i].gbid \notin gone
  BY LateIsVouched DEF HeldInv
<1> HIDE DEF out, way
<1>4. ASSUME ~over PROVE Vouched(way, out, held)
  <2>1. ASSUME NEW i \in DOMAIN o, ~out[i].cancelled /\ ~out[i].late
        PROVE  out[i].gbid \in held
    <3>1. o[i].gbid \in Held /\ o[i].gbid \notin gone
      BY <1>1, <1>2, <1>4, <2>1 DEF Vouched
    <3> QED BY <1>2, <3>1
  <2>2. ASSUME NEW i \in DOMAIN handoff, ~way[i].late
        PROVE  way[i].gbid \in held
    <3>1. handoff[i].gbid \in Held /\ handoff[i].gbid \notin gone
      BY <1>3, <1>4, <2>2 DEF Vouched
    <3> QED BY <1>3, <3>1
  <2> QED BY <1>2, <1>3, <2>1, <2>2 DEF Vouched
<1> QED BY <1>2, <1>3, <1>4 DEF hits, out, way

LEMMA ForgetHolds ==
  ASSUME HeldInv, NEW gone, NEW o \in Seq(Entry), NEW q, Forget(gone, o, q),
         ~over => Vouched(handoff, o, Held), Held \ gone \subseteq Held', over' = over
  PROVE  HeldInv'
<1>1. outbox' = Marked(o, Hits(o, gone, Mac)) /\ handoff' = Late(gone)
  BY DEF Forget
<1>2. /\ Late(gone) \in Seq(Passed) /\ Marked(o, Hits(o, gone, Mac)) \in Seq(Entry)
      /\ ~over => Vouched(Late(gone), Marked(o, Hits(o, gone, Mac)), Held')
  BY ForgetVouches
<1> QED BY <1>1, <1>2 DEF HeldInv

(* What is called off for a contact is held still. *)
LEMMA CallOffHolds ==
  ASSUME HeldInv, NEW p, NEW o \in Seq(Entry), CallOff(p, o),
         ~over => Vouched(handoff, o, Held),
         UNCHANGED <<handoff, bundleList, over>>
  PROVE  HeldInv'
<1> DEFINE hits == Hits(o, ToSet(queue[p]), {p})
<1>1. outbox' = Marked(o, hits) /\ Held' = Held
  BY DEF CallOff, Held
<1> HIDE DEF hits
<1>2. /\ outbox' \in Seq(Entry) /\ DOMAIN outbox' = DOMAIN o
      /\ \A i \in DOMAIN o :
           /\ outbox'[i].gbid = o[i].gbid /\ outbox'[i].late = o[i].late
           /\ ~outbox'[i].cancelled => ~o[i].cancelled
  BY <1>1, MarkedIsVouched
<1>3. ASSUME ~over PROVE Vouched(handoff, outbox', Held)
  BY <1>2, <1>3 DEF Vouched
<1> QED BY <1>1, <1>2, <1>3 DEF HeldInv

(* What the agent has left when it is done with its head. *)
LEMMA TailHolds ==
  ASSUME HeldInv, outbox # <<>>
  PROVE  Tail(outbox) \in Seq(Entry) /\ (~over => Vouched(handoff, Tail(outbox), Held))
<1>1. /\ Tail(outbox) \in Seq(Entry) /\ Len(outbox) \in Nat /\ DOMAIN outbox = 1..Len(outbox)
      /\ DOMAIN Tail(outbox) = 1..(Len(outbox) - 1)
      /\ \A i \in 1..(Len(outbox) - 1) : Tail(outbox)[i] = outbox[i + 1]
  BY DEF HeldInv
<1>2. \A i \in 1..(Len(outbox) - 1) : i + 1 \in 1..Len(outbox)
  BY <1>1
<1> QED BY <1>1, <1>2 DEF HeldInv, Vouched

LEMMA BundleQueuedHolds ==
  ASSUME HeldInv, BundleQueued
  PROVE  HeldInv'
<1> DEFINE h == Head(handoff)
           e == [mac |-> h.mac, gbid |-> h.gbid, late |-> h.late, cancelled |-> FALSE]
<1>1. /\ handoff # <<>> /\ handoff' = Tail(handoff) /\ outbox' = Append(outbox, e)
      /\ Held' = Held /\ over' = over
  BY DEF BundleQueued, Held
<1>2. /\ Len(handoff) \in Nat /\ DOMAIN handoff = 1..Len(handoff) /\ Len(handoff) > 0
      /\ h = handoff[1] /\ h \in Passed
      /\ Tail(handoff) \in Seq(Passed) /\ DOMAIN Tail(handoff) = 1..(Len(handoff) - 1)
      /\ \A i \in 1..(Len(handoff) - 1) : Tail(handoff)[i] = handoff[i + 1]
  BY <1>1 DEF HeldInv
<1> HIDE DEF h
<1>3. e \in Entry /\ e.gbid = h.gbid /\ e.late = h.late
  BY <1>2 DEF Entry, Passed
<1> HIDE DEF e
<1>4. /\ Append(outbox, e) \in Seq(Entry) /\ Len(outbox) \in Nat
      /\ DOMAIN outbox = 1..Len(outbox) /\ DOMAIN Append(outbox, e) = 1..(Len(outbox) + 1)
      /\ \A i \in 1..(Len(outbox) + 1) :
           Append(outbox, e)[i] = IF i = Len(outbox) + 1 THEN e ELSE outbox[i]
  BY <1>3 DEF HeldInv
<1>5. ASSUME ~over PROVE Vouched(Tail(handoff), Append(outbox, e), Held)
  <2>1. ASSUME NEW i \in 1..(Len(outbox) + 1),
               ~Append(outbox, e)[i].cancelled, ~Append(outbox, e)[i].late
        PROVE  Append(outbox, e)[i].gbid \in Held
    <3>1. CASE i = Len(outbox) + 1
      <4>1. Append(outbox, e)[i] = e
        BY <1>4, <3>1
      <4>2. 1 \in DOMAIN handoff
        BY <1>2
      <4> QED BY <1>2, <1>3, <1>5, <2>1, <4>1, <4>2 DEF HeldInv, Vouched
    <3>2. CASE i # Len(outbox) + 1
      <4>1. Append(outbox, e)[i] = outbox[i] /\ i \in DOMAIN outbox
        BY <1>4, <3>2
      <4> QED BY <1>5, <2>1, <4>1 DEF HeldInv, Vouched
    <3> QED BY <3>1, <3>2
  <2>2. ASSUME NEW i \in 1..(Len(handoff) - 1), ~Tail(handoff)[i].late
        PROVE  Tail(handoff)[i].gbid \in Held
    <3>1. Tail(handoff)[i] = handoff[i + 1] /\ i + 1 \in DOMAIN handoff
      BY <1>2
    <3> QED BY <1>5, <2>2, <3>1 DEF HeldInv, Vouched
  <2> QED BY <1>2, <1>4, <2>1, <2>2 DEF Vouched
<1> QED BY <1>1, <1>2, <1>4, <1>5 DEF HeldInv

LEMMA DiscardHolds ==
  ASSUME HeldInv, Discard
  PROVE  HeldInv'
<1>1. /\ outbox # <<>> /\ outbox' = Tail(outbox) /\ handoff' = handoff
      /\ Held' = Held /\ over' = over
  BY DEF Discard, Held
<1>2. Tail(outbox) \in Seq(Entry) /\ (~over => Vouched(handoff, Tail(outbox), Held))
  BY <1>1, TailHolds
<1> QED BY <1>1, <1>2 DEF HeldInv

LEMMA BundleTransmissionFailedHolds ==
  ASSUME HeldInv, BundleTransmissionFailed
  PROVE  HeldInv'
<1>1. /\ outbox # <<>> /\ UNCHANGED <<handoff, bundleList, over>>
      /\ \/ outbox' = Tail(outbox)
         \/ CallOff(Head(outbox).mac, Tail(outbox))
  BY DEF BundleTransmissionFailed
<1>2. Tail(outbox) \in Seq(Entry) /\ (~over => Vouched(handoff, Tail(outbox), Held))
  BY <1>1, TailHolds
<1>3. CASE outbox' = Tail(outbox)
  <2>1. Held' = Held
    BY <1>1 DEF Held
  <2> QED BY <1>1, <1>2, <1>3, <2>1 DEF HeldInv
<1>4. CASE CallOff(Head(outbox).mac, Tail(outbox))
  BY <1>1, <1>2, <1>4, CallOffHolds
<1> QED BY <1>1, <1>3, <1>4

LEMMA CloseLinkHolds ==
  ASSUME HeldInv, NEW p, CloseLink(p)
  PROVE  HeldInv'
<1>1. CallOff(p, outbox) /\ UNCHANGED <<handoff, bundleList, over>>
  BY DEF CloseLink
<1> QED BY <1>1, CallOffHolds DEF HeldInv

LEMMA QuietHolds ==
  ASSUME HeldInv, UNCHANGED <<handoff, outbox, bundleList, over>>
  PROVE  HeldInv'
BY DEF HeldInv, Held

(* Once the simulation ends nothing is said of what is held. *)
LEMMA DoSendHelloHolds ==
  ASSUME HeldInv, DoSendHello
  PROVE  HeldInv'
BY DEF HeldInv, DoSendHello

LEMMA BundleReceivedHolds ==
  ASSUME HeldInv, BufferInv, NEW g \in Bundle, NEW size \in Comes[g] \cup {Size[g]},
         BundleReceived(g, size)
  PROVE  HeldInv'
<1> DEFINE rest == MakeRoomForBundle(size)
           gone == Held \ ToSet(rest)
<1>1. g \notin Held /\ InsertBundle(g, size, rest) /\ over' = over
  BY DEF BundleReceived, ReceivedWith, AcceptBundle
<1>2. rest \in Seq(Bundle) /\ IsInjective(rest) /\ ToSet(rest) \subseteq Held
  BY RoomIsMade
<1> HIDE DEF rest
<1>3. ToSet(rest) \subseteq Held'
  BY <1>1, <1>2, InsertBundleBooks
<1>4. Forget(gone, outbox, queue) /\ Held \ gone \subseteq Held'
  BY <1>1, <1>2, <1>3 DEF InsertBundle
<1> HIDE DEF gone
<1> QED BY <1>1, <1>4, ForgetHolds DEF HeldInv

LEMMA LocalBundleDeliveryHolds ==
  ASSUME HeldInv, BufferInv, NEW g, LocalBundleDelivery(g)
  PROVE  HeldInv'
<1>1. PICK gone : bundleList' = Left(gone) /\ Forget(gone, outbox, queue) /\ over' = over
  BY DEF LocalBundleDelivery
<1>2. Held' = Held \ gone
  <2>1. Held' = ToSet(Left(gone))
    BY <1>1 DEF Held
  <2> QED BY <2>1, WhatIsLeft
<1> QED BY <1>1, <1>2, ForgetHolds DEF HeldInv

LEMMA BundleSentHolds ==
  ASSUME HeldInv, BufferInv, NEW p, NEW g, NEW o \in Seq(Entry), BundleSent(p, g, o),
         ~over => Vouched(handoff, o, Held)
  PROVE  HeldInv'
<1>1. \E gone, q : bundleList' = Left(gone) /\ Forget(gone, o, q) /\ over' = over
  BY DEF BundleSent
<1>2. PICK gone, q : bundleList' = Left(gone) /\ Forget(gone, o, q) /\ over' = over
  BY <1>1
<1>3. Held' = Held \ gone
  <2>1. Held' = ToSet(Left(gone))
    BY <1>2 DEF Held
  <2> QED BY <2>1, WhatIsLeft
<1> QED BY <1>2, <1>3, ForgetHolds

(* What is passed on is in the list that is left. *)
LEMMA LookHolds ==
  ASSUME HeldInv, BufferInv, RemoveExpired, over' = over,
         NothingSent \/ \E p \in Mac, g \in ToSet(Fresh) : SendBundle(p, g)
  PROVE  HeldInv'
<1>1. outbox' = Marked(outbox, StaleHits) /\ Held' = Held \ Stale
  <2>1. bundleList' = Fresh /\ outbox' = Marked(outbox, StaleHits)
    BY DEF RemoveExpired
  <2>2. Held' = ToSet(Fresh)
    BY <2>1 DEF Held
  <2> QED BY <2>1, <2>2, FreshIsBooked
<1>2. /\ Late(Stale) \in Seq(Passed) /\ Marked(outbox, StaleHits) \in Seq(Entry)
      /\ ~over => Vouched(Late(Stale), Marked(outbox, StaleHits), Held \ Stale)
  BY ForgetVouches DEF HeldInv, StaleHits
<1>3. CASE NothingSent
  <2>1. handoff' = Late(Stale)
    BY <1>3 DEF NothingSent
  <2> QED BY <1>1, <1>2, <2>1 DEF HeldInv
<1>4. ASSUME NEW p \in Mac, NEW g \in ToSet(Fresh), SendBundle(p, g)
      PROVE  HeldInv'
  <2> DEFINE way == Late(Stale)
             e == [mac |-> p, gbid |-> g, late |-> FALSE]
  <2>1. handoff' = Append(way, e) /\ outbox' = Marked(outbox, StaleHits)
    BY <1>1, <1>4 DEF SendBundle
  <2>2. e \in Passed /\ e.gbid \in Held \ Stale
    BY <1>4, FreshIsBooked DEF Passed, Booked, ToSet
  <2> HIDE DEF e, way
  <2>3. /\ Append(way, e) \in Seq(Passed) /\ Len(way) \in Nat /\ DOMAIN way = 1..Len(way)
        /\ DOMAIN Append(way, e) = 1..(Len(way) + 1)
        /\ \A i \in 1..(Len(way) + 1) : Append(way, e)[i] = IF i = Len(way) + 1 THEN e ELSE way[i]
    BY <1>2, <2>2 DEF way
  <2>4. ASSUME ~over PROVE Vouched(Append(way, e), Marked(outbox, StaleHits), Held \ Stale)
    BY <1>2, <2>2, <2>3, <2>4 DEF Vouched, way
  <2> QED BY <1>1, <1>2, <2>1, <2>3, <2>4 DEF HeldInv
<1> QED BY <1>3, <1>4

(* There is something for a peer that is ready, and it is in the list. *)
LEMMA FindNextToSendFinds ==
  ASSUME NEW list \in Seq(Bundle), NEW log, NEW p, AllBundlesForLink(p, list, log) # {}
  PROVE  FindNextToSend(p, list, log) \in ToSet(list)
<1> DEFINE all == AllBundlesForLink(p, list, log)
           direct == {i \in all : Destination[list[i]] = p}
           T == IF direct = {} THEN all ELSE direct
<1>1. DOMAIN list \subseteq Nat /\ T \subseteq DOMAIN list /\ T # {}
  BY DEF AllBundlesForLink
<1>2. FindNextToSend(p, list, log) = list[Min(T)]
  BY DEF FindNextToSend
<1> HIDE DEF T
<1>3. Min(T) \in DOMAIN list
  BY <1>1, MinIsLeast
<1> QED BY <1>2, <1>3 DEF ToSet

LEMMA TryToStartSendingHolds ==
  ASSUME HeldInv, BufferInv, TryToStartSending
  PROVE  HeldInv'
<1>1. RemoveExpired /\ over' = over
  BY DEF TryToStartSending
<1>2. \/ NothingSent
      \/ \E p \in Ready(Fresh, FreshLog) : SendBundle(p, FindNextToSend(p, Fresh, FreshLog))
  BY DEF TryToStartSending, NotNow, LookAgain, PassOn
<1>3. \A p \in Ready(Fresh, FreshLog) :
        p \in Mac /\ FindNextToSend(p, Fresh, FreshLog) \in ToSet(Fresh)
  <2>1. Fresh \in Seq(Bundle)
    BY FreshIsBooked DEF Booked
  <2> HIDE DEF Fresh
  <2> QED BY <2>1, FindNextToSendFinds DEF Ready
<1> QED BY <1>1, <1>2, <1>3, LookHolds

-----------------------------------------------------------------------------
(* Every action. *)

IInv == WaitInv /\ BufferInv /\ HeldInv

LEMMA InitHolds == Init => IInv /\ (~Polling => DueInv)
<1> SUFFICES ASSUME Init PROVE IInv /\ (~Polling => DueInv)
  OBVIOUS
<1>1. /\ handoff = <<>> /\ outbox = <<>> /\ isSending = FALSE
      /\ bundleList = <<>> /\ nBytes = 0 /\ nBundles = 0 /\ over = FALSE
      /\ ~Polling => tries = 0
  BY DEF Init, RelayInit, RouterInit
<1>2. WaitInv
  <2>1. <<>> \in Seq({})
    OBVIOUS
  <2>2. IsSeq(<<>>)
    BY <2>1, SeqIsSeq
  <2> QED BY <1>1, <2>2 DEF WaitInv, Reported
<1>3. BufferInv
  <2>1. Booked(Bundle, MaxBytes, <<>>, 0, 0, TRUE)
    <3>1. MaxBytes \in Nat /\ 0 <= MaxBytes /\ 0 \in Int /\ 0 \in Nat
      BY SizeType
    <3> QED BY <3>1, BookedEmpty
  <2>2. ~over = TRUE
    BY <1>1
  <2> QED BY <1>1, <2>1, <2>2 DEF BufferInv
<1>4. HeldInv
  BY <1>1 DEF HeldInv, Vouched
<1>5. ~Polling => DueInv
  BY <1>1, SizeType DEF DueInv
<1> QED BY <1>2, <1>3, <1>4, <1>5 DEF IInv

(* Each action keeps the three, and the fourth of a router that does not   *)
(* poll, and counts right.                                                 *)
Kept == IInv' /\ CountedRight /\ (~Polling /\ DueInv => DueInv')

LEMMA TryToStartSendingStep ==
  ASSUME IInv, TryToStartSending
  PROVE  Kept
<1>1. /\ tries > 0 /\ RemoveExpired /\ over' = over
      /\ NotNow \/ LookAgain \/ \E p, g : Passes(p, g)
  BY DEF TryToStartSending, PassOn, Passes
<1>2. NothingSent \/ \E p, g : SendBundle(p, g)
  BY <1>1 DEF NotNow, LookAgain, Passes
<1>3. WaitInv' /\ BufferInv' /\ CountedRight
  BY <1>1, <1>2, LookWaits, LookBooks DEF IInv
<1>4. HeldInv'
  BY TryToStartSendingHolds DEF IInv
<1>5. ~Polling /\ DueInv => DueInv'
  BY <1>1, LookDue DEF IInv
<1> QED BY <1>3, <1>4, <1>5 DEF IInv, Kept

LEMMA TakenOverStep ==
  ASSUME IInv, TakenOver
  PROVE  Kept
<1>1. BundleQueued /\ UNCHANGED <<isSending, bundleList, nBytes, nBundles, tries, over>>
  BY DEF TakenOver, BundleQueued
<1> QED BY <1>1, BundleQueuedWaits, QuietBooks, BundleQueuedHolds, QuietDue DEF IInv, Kept

LEMMA DiscardStep ==
  ASSUME IInv, Discard
  PROVE  Kept
<1>1. UNCHANGED <<isSending, bundleList, nBytes, nBundles, tries, over>>
  BY DEF Discard
<1> QED BY <1>1, DiscardWaits, QuietBooks, DiscardHolds, QuietDue DEF IInv, Kept

LEMMA BundleTransmissionFailedStep ==
  ASSUME IInv, BundleTransmissionFailed
  PROVE  Kept
<1>1. UNCHANGED <<bundleList, nBytes, nBundles, over>>
  BY DEF BundleTransmissionFailed
<1> QED BY <1>1, BundleTransmissionFailedWaits, QuietBooks, BundleTransmissionFailedHolds,
           BundleTransmissionFailedDue DEF IInv, Kept

LEMMA CloseLinkStep ==
  ASSUME IInv, NEW p, CloseLink(p)
  PROVE  Kept
<1>1. UNCHANGED <<bundleList, nBytes, nBundles, over>>
  BY DEF CloseLink
<1> QED BY <1>1, CloseLinkWaits, QuietBooks, CloseLinkHolds, CloseLinkDue DEF IInv, Kept

(* A link that comes up. *)
LEMMA LinkComesUpStep ==
  ASSUME IInv, NEW p, DiscoveredLink(p) \/ UnPauseLink(p)
  PROVE  Kept
<1>1. UNCHANGED <<handoff, outbox, isSending, bundleList, nBytes, nBundles, over>>
  BY DEF DiscoveredLink, UnPauseLink
<1> QED BY <1>1, QuietWaits, QuietBooks, QuietHolds, LinkComesUpDue DEF IInv, Kept

(* A lifetime that ends changes nothing yet. *)
LEMMA QuietStep ==
  ASSUME IInv,
         UNCHANGED <<handoff, outbox, isSending, bundleList, nBytes, nBundles, tries, over>>
  PROVE  Kept
BY QuietWaits, QuietBooks, QuietHolds, QuietDue DEF IInv, Kept

LEMMA BundleReceivedStep ==
  ASSUME IInv, NEW g \in Bundle, NEW size \in Comes[g] \cup {Size[g]}, BundleReceived(g, size)
  PROVE  Kept
<1>1. InsertBundle(g, size, MakeRoomForBundle(size))
  BY DEF BundleReceived, ReceivedWith
<1> QED BY <1>1, InsertBundleWaits, BundleReceivedBooks, BundleReceivedHolds, BundleReceivedDue
        DEF IInv, Kept

LEMMA LocalBundleDeliveryStep ==
  ASSUME IInv, NEW g, LocalBundleDelivery(g)
  PROVE  Kept
BY LocalBundleDeliveryWaits, LocalBundleDeliveryBooks, LocalBundleDeliveryHolds,
   LocalBundleDeliveryDue DEF IInv, Kept

(* An acknowledgement, of the agent's head or of something it had before. *)
LEMMA BundleSentStep ==
  ASSUME IInv, NEW p, NEW g, NEW o \in Seq(Entry), BundleSent(p, g, o),
         ~over => Vouched(handoff, o, Held)
  PROVE  Kept
<1>1. IsSeq(o)
  BY SeqIsSeq
<1> QED BY <1>1, BundleSentWaits, BundleSentBooks, BundleSentHolds, BundleSentDue
        DEF IInv, Kept

LEMMA RetiredStep ==
  ASSUME IInv, Retired
  PROVE  Kept
<1>1. outbox # <<>> /\ \E p, g : BundleSent(p, g, Tail(outbox))
  BY DEF Retired
<1>2. Tail(outbox) \in Seq(Entry) /\ (~over => Vouched(handoff, Tail(outbox), Held))
  BY <1>1, TailHolds DEF IInv
<1> QED BY <1>1, <1>2, BundleSentStep

LEMMA PassedOnStep ==
  ASSUME IInv, PassedOn
  PROVE  Kept
<1>1. \E p, g : BundleSent(p, g, outbox)
  BY DEF PassedOn
<1>2. outbox \in Seq(Entry) /\ (~over => Vouched(handoff, outbox, Held))
  BY DEF IInv, HeldInv
<1> QED BY <1>1, <1>2, BundleSentStep

LEMMA DoSendHelloStep ==
  ASSUME IInv, DoSendHello
  PROVE  Kept
<1>1. UNCHANGED <<handoff, outbox, isSending>>
  BY DEF DoSendHello
<1> QED BY <1>1, QuietWaits, DoSendHelloBooks, DoSendHelloHolds, DoSendHelloDue DEF IInv, Kept

LEMMA Inductive == IInv /\ [Next]_vars => Kept
<1> SUFFICES ASSUME IInv, [Next]_vars PROVE Kept
  OBVIOUS
<1>1. CASE TryToStartSending
  BY <1>1, TryToStartSendingStep
<1>2. CASE TakenOver \/ Retired
  BY <1>2, TakenOverStep, RetiredStep
<1>3. CASE Discard \/ BundleTransmissionFailed \/ \E p \in Mac : UnPauseLink(p)
  BY <1>3, DiscardStep, BundleTransmissionFailedStep, LinkComesUpStep
<1>4. CASE \E g \in Bundle : \/ \E size \in Comes[g] : BundleReceived(g, size)
                            \/ LocalBundleDelivery(g)
  BY <1>4, BundleReceivedStep, LocalBundleDeliveryStep
<1>5. CASE PassedOn
  BY <1>5, PassedOnStep
<1>6. CASE \E p \in Mac : DiscoveredLink(p) \/ CloseLink(p)
  BY <1>6, LinkComesUpStep, CloseLinkStep
<1>7. CASE \E g \in Bundle : Expire(g)
  BY <1>7, QuietStep DEF Expire
<1>8. CASE DoSendHello
  BY <1>8, DoSendHelloStep
<1>9. CASE UNCHANGED vars
  BY <1>9, QuietStep DEF vars, routerVars
<1> QED BY <1>1, <1>2, <1>3, <1>4, <1>5, <1>6, <1>7, <1>8, <1>9 DEF Next, Own, Environment

LEMMA Invariance == Spec => []IInv
BY InitHolds, Inductive, PTL DEF Kept, Spec

-----------------------------------------------------------------------------

(* The router never waits for a report that will not come: every deletion, *)
(* cancelled transfer, closed link and failure that takes a report away    *)
(* lets it send again.                                                     *)
THEOREM NeverWaitsInVain == Spec => []SendingEndsInReport
<1>1. IInv => SendingEndsInReport
  BY DEF IInv, WaitInv, Reported, Awaited, SendingEndsInReport
<1> QED BY <1>1, Invariance, PTL

(* The number of bundles is that of the list, and the counter of bytes     *)
(* moves with it and never passes the maximum, through every insertion     *)
(* that deletes first, every expiry and every acknowledgement of a         *)
(* delivery, until the last hello.  Counter and list move apart only when  *)
(* a bundle comes in, by what it grew after it was counted.                *)
THEOREM BooksAreKept == Spec => Accounted
<1>1. IInv /\ [Next]_vars => [CountedRight]_routerVars
  BY Inductive DEF Kept
<1> QED BY <1>1, Invariance, PTL DEF Spec, Accounted

(* The agent never starts to send what the buffer no longer holds, but for *)
(* a bundle that was deleted on its way to the agent.                      *)
THEOREM DeletedIsCalledOff == Spec => []SendsWhatIsHeld
<1>1. IInv => SendsWhatIsHeld
  BY DEF IInv, HeldInv, Vouched, SendsWhatIsHeld
<1> QED BY <1>1, Invariance, PTL

(* Every handler of a router that does not poll leaves a look due if it    *)
(* leaves anything that could be sent: NotNow is the only step that uses   *)
(* up the last one, and it finds the router sending or with nothing.       *)
THEOREM LooksAreDue == ASSUME ~Polling PROVE Spec => []LookIsDue
<1>1. Init => IInv /\ DueInv
  BY InitHolds
<1>2. IInv /\ DueInv /\ [Next]_vars => IInv' /\ DueInv'
  BY Inductive DEF Kept
<1>3. DueInv => LookIsDue
  <2>1. bundleList = <<>> => Ready(bundleList, forwardLog) = {}
    BY DEF Ready, AllBundlesForLink
  <2> QED BY <2>1 DEF DueInv, LookIsDue
<1> QED BY <1>1, <1>2, <1>3, PTL DEF Spec
=============================================================================
