-------------------- MODULE DirectDeliveryRouter_proofs --------------------
(***************************************************************************)
(* The direct delivery router never waits in vain either, sends hellos     *)
(* exactly while it holds something, has a look due while there is         *)
(* something to send, and makes room at the expense of the newest.         *)
(*                                                                         *)
(* Its handlers are those of BundleRouter, as are the epidemic router's,   *)
(* whose lemmas are taken here as those of a router without a reclist, and *)
(* without what it knows of deliveries.  Bundles come from the application *)
(* alone, and so as they are held.                                         *)
(***************************************************************************)
EXTENDS DirectDeliveryRouter, DataLemmas

R == INSTANCE EpidemicRouter_proofs
       WITH Node <- Mac, reclist <- [g \in Bundle |-> {}], kdm <- {}, delivers <- {},
            Comes <- [g \in Bundle |-> {}], DriftBound <- 0

-----------------------------------------------------------------------------
(* What the two have in common. *)

(* What is assumed of the constants. *)
LEMMA SameAssumption == R!RouterAssumption /\ R!RelayAssumption
BY RouterAssumption DEF RouterAssumption, R!RouterAssumption, R!RelayAssumption

(* The operators on sequences and sets. *)
LEMMA SameLibrary ==
  /\ \A s : R!ToSet(s) = ToSet(s) /\ R!Cardinality(s) = Cardinality(s)
  /\ \A s : R!IsInjective(s) <=> IsInjective(s)
<1>1. \A s : R!ToSet(s) = ToSet(s)
  BY DEF ToSet, R!ToSet
<1>2. \A s : R!Cardinality(s) = Cardinality(s)
  BY DEF Cardinality, R!Cardinality
<1>3. \A s : R!IsInjective(s) <=> IsInjective(s)
  BY DEF IsInjective, R!IsInjective
<1> QED BY <1>1, <1>2, <1>3

(* The buffer. *)
LEMMA SameBuffer ==
  /\ R!Held = Held /\ R!Fresh = Fresh /\ R!FreshBytes = FreshBytes
  /\ R!Stale = Held \cap expired
  /\ \A s : R!Bytes(s) = Bytes(s) /\ R!Left(s) = Left(s)
<1>1. R!Held = Held
  BY SameLibrary DEF Held, R!Held
<1>2. \A s : R!Left(s) = Left(s)
  BY <1>1 DEF Left, R!Left, Selected, R!Selected
<1>3. \A s : R!Bytes(s) = Bytes(s)
  BY DEF Bytes, SumFunctionOnSet, FoldFunctionOnSet, MapThenFoldSet,
         R!Bytes, R!SumFunctionOnSet, R!FoldFunctionOnSet, R!MapThenFoldSet
<1>4. R!Fresh = Fresh /\ R!FreshBytes = FreshBytes /\ R!Stale = Held \cap expired
  BY <1>1, <1>2, <1>3 DEF Fresh, FreshBytes, R!Fresh, R!FreshBytes, R!Stale
<1> QED BY <1>1, <1>2, <1>3, <1>4

(* What is cancelled, and what it is to the router. *)
LEMMA SameReports ==
  /\ \A o, b, p : R!Hits(o, b, p) = Hits(o, b, p)
  /\ \A o, hits : R!Marked(o, hits) = Marked(o, hits)
  /\ \A sending, hits : R!StillSending(sending, hits) = StillSending(sending, hits)
  /\ \A b : R!Late(b) = Late(b)
  /\ \A k : R!More(k) = More(k)
<1>1. \A o, b, p : R!Hits(o, b, p) = Hits(o, b, p)
  BY DEF Hits, R!Hits
<1>2. \A o, hits : R!Marked(o, hits) = Marked(o, hits)
  BY DEF Marked, R!Marked
<1>3. \A sending, hits : R!StillSending(sending, hits) = StillSending(sending, hits)
  BY DEF StillSending, R!StillSending
<1>4. \A b : R!Late(b) = Late(b)
  BY DEF Late, R!Late
<1>5. \A k : R!More(k) = More(k)
  BY DEF More, R!More, Min, R!Min
<1> QED BY <1>1, <1>2, <1>3, <1>4, <1>5

(* What is taken out of the queues of the contacts. *)
LEMMA SameDequeued == \A q, o, hits : R!Dequeued(q, o, hits) = Dequeued(q, o, hits)
BY DEF Dequeued, FoldSet, MapThenFoldSet, RemoveFirst, RemoveAt, SelectInSeq, Min,
       R!Dequeued, R!FoldSet, R!MapThenFoldSet, R!RemoveFirst, R!RemoveAt, R!SelectInSeq, R!Min

(* What a deletion tells the agent. *)
LEMMA SameForget ==
  ASSUME NEW gone, NEW o, NEW q, Forget(gone, o, q)
  PROVE  R!Forget(gone, o, q)
BY SameReports, SameDequeued DEF Forget, R!Forget

(* What a bundle that comes in does. *)
LEMMA SameInsertBundle ==
  ASSUME NEW g, NEW size, NEW rest, InsertBundle(g, size, rest)
  PROVE  R!InsertBundle(g, size, rest)
BY SameLibrary, SameBuffer, SameReports, SameForget
   DEF InsertBundle, R!InsertBundle, HasRoom, R!HasRoom

(* What the agent and the links do. *)
LEMMA SameLinks ==
  /\ Discard => R!Discard
  /\ BundleQueued => R!BundleQueued
  /\ BundleTransmissionFailed => R!BundleTransmissionFailed
  /\ \A p : CloseLink(p) => R!CloseLink(p)
<1>1. \A p, o : CallOff(p, o) <=> R!CallOff(p, o)
  BY SameLibrary, SameReports DEF CallOff, R!CallOff
<1>2. Discard => R!Discard
  BY DEF Discard, R!Discard
<1>3. BundleQueued => R!BundleQueued
  BY DEF BundleQueued, R!BundleQueued
<1>4. BundleTransmissionFailed => R!BundleTransmissionFailed
  BY <1>1, SameLibrary, SameReports DEF BundleTransmissionFailed, R!BundleTransmissionFailed
<1>5. \A p : CloseLink(p) => R!CloseLink(p)
  BY <1>1, SameLibrary, SameReports DEF CloseLink, R!CloseLink, Open, R!Open
<1> QED BY <1>2, <1>3, <1>4, <1>5

(* What looks for work does with what has expired as the epidemic router,  *)
(* and passes a bundle on or none.                                         *)
LEMMA SameLook ==
  ASSUME TryToStartSending
  PROVE  R!RemoveExpired /\ (R!NothingSent \/ \E p, g : R!SendBundle(p, g))
<1> DEFINE gone == Held \cap expired
           hits == Hits(outbox, gone, Mac)
<1>1. /\ bundleList' = Left(gone) /\ nBytes' = nBytes - Bytes(gone)
      /\ nBundles' = nBundles - Cardinality(gone)
      /\ forwardLog' = RemoveExpiredEntries(forwardLog, expired)
      /\ \/ /\ Forget(gone, outbox, queue)
            /\ isSending' = StillSending(isSending, hits)
         \/ /\ ~StillSending(isSending, hits) /\ nBundles > Cardinality(gone)
            /\ \E p, g : 
                 /\ queue' = [Dequeued(queue, outbox, hits) EXCEPT ![p] = Append(@, g)]
                 /\ handoff' = Append(Late(gone), [mac |-> p, gbid |-> g, late |-> FALSE])
            /\ outbox' = Marked(outbox, hits)
            /\ isSending' = TRUE
  BY DEF TryToStartSending
<1>2. R!Stale = gone /\ R!StaleHits = hits
  BY SameBuffer, SameReports DEF R!StaleHits
<1>3. R!FreshLog = RemoveExpiredEntries(forwardLog, expired)
  BY DEF R!FreshLog, RemoveExpiredEntries, R!RemoveExpiredEntries
<1>4. Fresh = Left(gone) /\ FreshBytes = nBytes - Bytes(gone)
  BY DEF Fresh, FreshBytes
<1>5. R!Without(gone, [g \in Bundle |-> {}]) = [g \in Bundle |-> {}]
  BY DEF R!Without
<1> HIDE DEF gone, hits
<1>6. outbox' = Marked(outbox, hits)
  BY <1>1 DEF Forget, hits
<1>7. R!RemoveExpired
  BY <1>1, <1>2, <1>3, <1>4, <1>6, SameBuffer, SameReports, SameLibrary DEF R!RemoveExpired
<1>8. ASSUME Forget(gone, outbox, queue), isSending' = StillSending(isSending, hits)
      PROVE  R!NothingSent
  <2>1. /\ isSending' = R!StillSending(isSending, R!StaleHits)
        /\ queue' = R!Dequeued(queue, outbox, R!StaleHits)
        /\ handoff' = R!Late(R!Stale)
    BY <1>2, <1>8, SameReports, SameDequeued DEF Forget, hits
  <2>2. [g \in Bundle |-> {}]' = R!Without(R!Stale, [g \in Bundle |-> {}])
    BY <1>2, <1>5
  <2> QED BY <2>1, <2>2 DEF R!NothingSent
<1>9. ASSUME NEW p, NEW g, 
             ~StillSending(isSending, hits), nBundles > Cardinality(gone), isSending' = TRUE,
             queue' = [Dequeued(queue, outbox, hits) EXCEPT ![p] = Append(@, g)],
             handoff' = Append(Late(gone), [mac |-> p, gbid |-> g, late |-> FALSE])
      PROVE  R!SendBundle(p, g)
  BY <1>2, <1>9, SameReports, SameDequeued, SameLibrary DEF R!SendBundle, R!Idle
<1> QED BY <1>1, <1>7, <1>8, <1>9

-----------------------------------------------------------------------------
(* The buffer. *)

(* What expired goes, and what is left is booked; the last hello is never  *)
(* sent, so that the counters are exact.                                   *)
LEMMA FreshIsBooked ==
  ASSUME R!BufferInv
  PROVE  /\ Fresh \in Seq(Bundle) /\ IsInjective(Fresh)
         /\ ToSet(Fresh) = Held \ (Held \cap expired)
         /\ Len(Fresh) = Len(bundleList) - Cardinality(Held \cap expired)
         /\ Cardinality(Held \cap expired) \in Nat
<1>1. R!BufferInv
  OBVIOUS
<1>2. /\ R!Booked(Bundle, MaxBytes, Fresh, FreshBytes,
                  nBundles - Cardinality(Held \cap expired), ~over)
      /\ ToSet(Fresh) = Held \ (Held \cap expired)
      /\ Len(Fresh) = Len(bundleList) - Cardinality(Held \cap expired)
      /\ Cardinality(Held \cap expired) \in Nat
  BY <1>1, SameAssumption, SameLibrary, SameBuffer, R!FreshIsBooked
<1>3. Fresh \in Seq(Bundle) /\ IsInjective(Fresh)
  BY <1>2, SameLibrary DEF R!Booked
<1> QED BY <1>2, <1>3

(* MakeRoomForBundle leaves the beginning of what has not expired.         *)
LEMMA RoomIsMade ==
  ASSUME R!BufferInv, NEW g
  PROVE  \E k \in 0..Len(Fresh) : MakeRoomForBundle(g) = SubSeq(Fresh, 1, k)
<1> DEFINE enough == {k \in 0..Len(Fresh) :
                        HasRoom(FreshBytes - Bytes(ToSet(SubSeq(Fresh, k + 1, Len(Fresh)))),
                                Size[g])}
           k == IF enough = {} THEN 0 ELSE Max(enough)
<1>1. MakeRoomForBundle(g) = SubSeq(Fresh, 1, k)
  BY DEF MakeRoomForBundle
<1>2. Len(Fresh) \in Nat
  BY FreshIsBooked
<1>3. enough \in SUBSET (0..Len(Fresh))
  OBVIOUS
<1> HIDE DEF enough
<1>4. ASSUME enough # {} PROVE Max(enough) \in enough
  <2>1. enough \in SUBSET Nat /\ \A n \in enough : n <= Len(Fresh)
    BY <1>2, <1>3
  <2> QED BY <1>2, <1>4, <2>1, MaxIsGreatest
<1>5. k \in 0..Len(Fresh)
  <2>1. 0 \in 0..Len(Fresh)
    BY <1>2
  <2> QED BY <1>3, <1>4, <2>1
<1> HIDE DEF k
<1> QED BY <1>1, <1>5

LEMMA RoomIsBooked ==
  ASSUME R!BufferInv, NEW g
  PROVE  /\ MakeRoomForBundle(g) \in Seq(Bundle) /\ IsInjective(MakeRoomForBundle(g))
         /\ ToSet(MakeRoomForBundle(g)) \subseteq ToSet(Fresh)
<1>1. Fresh \in Seq(Bundle) /\ IsInjective(Fresh) /\ Len(Fresh) \in Nat
  BY FreshIsBooked
<1>2. PICK k \in 0..Len(Fresh) : MakeRoomForBundle(g) = SubSeq(Fresh, 1, k)
  BY RoomIsMade
<1>3. 1 \in 1..(Len(Fresh) + 1)
  BY <1>1
<1> QED BY <1>1, <1>2, <1>3, PartOfList

(* A bundle of the application. *)
LEMMA AddedBooks ==
  ASSUME R!BufferInv, NEW g \in Bundle, BundleReceivedFromApplication(g)
  PROVE  /\ R!BufferInv' /\ InsertBundle(g, Size[g], MakeRoomForBundle(g))
         /\ g \notin Held /\ ToSet(MakeRoomForBundle(g)) \subseteq ToSet(Fresh)
<1> DEFINE rest == MakeRoomForBundle(g)
<1>1. g \notin Held /\ InsertBundle(g, Size[g], rest) /\ over' = over
  BY DEF BundleReceivedFromApplication, AcceptBundle
<1>2. rest \in Seq(Bundle) /\ IsInjective(rest) /\ ToSet(rest) \subseteq ToSet(Fresh)
  BY RoomIsBooked
<1>3. R!IsInjective(rest) /\ R!ToSet(rest) \subseteq R!Held /\ R!InsertBundle(g, Size[g], rest)
  BY <1>1, <1>2, FreshIsBooked, SameLibrary, SameBuffer, SameInsertBundle
<1>4. g \notin R!Held
  BY <1>1, SameBuffer
<1> HIDE DEF rest
<1>5. R!BufferInv'
  BY <1>1, <1>2, <1>3, <1>4, SameAssumption, R!InsertBundleBooks
<1> QED BY <1>1, <1>2, <1>5 DEF rest

-----------------------------------------------------------------------------
(* The hellos. *)

Running == [started |-> TRUE, timer |-> "on"]
Stopped == [started |-> FALSE, timer |-> "off"]

(* The list tells what the hellos do. *)
HelloInv == hello = IF AlwaysSendHello \/ bundleList # <<>> THEN Running ELSE Stopped

(* So it does when only deletions have been done. *)
LEMMA DeletedStops ==
  ASSUME HelloInv, ~over, R!BufferInv, NEW gone, NEW rest \in Seq(Bundle),
         gone = Held \ ToSet(rest), IsInjective(rest), ToSet(rest) \subseteq Held
  PROVE  /\ HelloOnceDeleted(gone)
              = IF AlwaysSendHello \/ rest # <<>> THEN Running ELSE Stopped
         /\ Cardinality(gone) \in Nat /\ nBundles - Cardinality(gone) = Len(rest)
<1>1. R!Booked(Bundle, MaxBytes, bundleList, nBytes, nBundles, ~over)
  BY DEF R!BufferInv
<1>2. nBundles = Len(bundleList) /\ bundleList \in Seq(Bundle) /\ IsInjective(bundleList)
  BY <1>1, SameLibrary DEF R!Booked
<1>3. /\ IsFiniteSet(Held) /\ Cardinality(Held) = Len(bundleList) /\ Len(bundleList) \in Nat
      /\ Cardinality(ToSet(rest)) = Len(rest) /\ Len(rest) \in Nat
  BY <1>2, InjectiveList DEF Held
<1>4. Cardinality(gone) \in Nat /\ Cardinality(gone) = Len(bundleList) - Len(rest)
      /\ (gone = {} <=> Cardinality(gone) = 0)
  <2>1. Held \cap ToSet(rest) = ToSet(rest)
    OBVIOUS
  <2>2. Cardinality(gone) = Cardinality(Held) - Cardinality(Held \cap ToSet(rest))
    BY <1>3, FS_Difference
  <2>3. IsFiniteSet(gone)
    BY <1>3, FS_Subset
  <2> QED BY <1>3, <2>1, <2>2, <2>3, FS_CardinalityType, FS_EmptySet
<1>5. (rest = <<>> <=> Len(rest) = 0) /\ (bundleList = <<>> <=> Len(bundleList) = 0)
  BY <1>2
<1>6. CASE AlwaysSendHello
  BY <1>2, <1>3, <1>4, <1>6 DEF HelloOnceDeleted, HelloInv
<1>7. CASE ~AlwaysSendHello
  <2>1. CASE rest = <<>> /\ gone # {}
    <3>1. bundleList # <<>>
      BY <1>3, <1>4, <1>5, <2>1
    <3>2. HelloOnceDeleted(gone) = Stop(hello)
      BY <1>2, <1>3, <1>4, <1>5, <1>7, <2>1 DEF HelloOnceDeleted
    <3> QED BY <1>2, <1>3, <1>4, <1>7, <2>1, <3>1, <3>2 DEF HelloInv, Stop, Running, Stopped
  <2>2. CASE ~(rest = <<>> /\ gone # {})
    <3>1. HelloOnceDeleted(gone) = hello /\ (bundleList = <<>> <=> rest = <<>>)
      BY <1>2, <1>3, <1>4, <1>5, <2>2 DEF HelloOnceDeleted
    <3> QED BY <1>2, <1>3, <1>4, <3>1 DEF HelloInv
  <2> QED BY <2>1, <2>2
<1> QED BY <1>6, <1>7

LEMMA TryToStartSendingHellos ==
  ASSUME HelloInv, ~over, R!BufferInv, TryToStartSending
  PROVE  HelloInv'
<1>1. bundleList' = Fresh /\ hello' = HelloOnceDeleted(Held \cap expired)
  BY DEF TryToStartSending, Fresh
<1>2. /\ Fresh \in Seq(Bundle) /\ IsInjective(Fresh)
      /\ ToSet(Fresh) = Held \ (Held \cap expired)
  BY FreshIsBooked
<1>3. Held \cap expired = Held \ ToSet(Fresh) /\ ToSet(Fresh) \subseteq Held
  BY <1>2
<1> HIDE DEF Fresh
<1>4. HelloOnceDeleted(Held \cap expired)
        = IF AlwaysSendHello \/ Fresh # <<>> THEN Running ELSE Stopped
  BY <1>2, <1>3, DeletedStops
<1> QED BY <1>1, <1>4 DEF HelloInv

LEMMA BundleReceivedFromApplicationHellos ==
  ASSUME HelloInv, ~over, R!BufferInv, NEW g \in Bundle, BundleReceivedFromApplication(g)
  PROVE  HelloInv'
<1> DEFINE rest == MakeRoomForBundle(g)
           gone == Held \ ToSet(rest)
<1>1. /\ rest \in Seq(Bundle) /\ IsInjective(rest) /\ ToSet(rest) \subseteq Held
      /\ g \notin ToSet(rest)
  BY RoomIsBooked, FreshIsBooked, AddedBooks
<1>2. \/ bundleList' = Append(rest, g) /\ nBundles' = nBundles - Cardinality(gone) + 1
      \/ bundleList' = rest
  BY AddedBooks DEF InsertBundle
<1>3. hello' = IF g \in ToSet(bundleList')
               THEN HelloOnceInserted(HelloOnceDeleted(gone), nBundles')
               ELSE HelloOnceDeleted(gone)
  BY DEF BundleReceivedFromApplication
<1> HIDE DEF rest
<1>4. /\ HelloOnceDeleted(gone) = IF AlwaysSendHello \/ rest # <<>> THEN Running ELSE Stopped
      /\ Cardinality(gone) \in Nat /\ nBundles - Cardinality(gone) = Len(rest)
  BY <1>1, DeletedStops
<1> HIDE DEF gone
<1>5. CASE bundleList' = rest
  BY <1>1, <1>3, <1>4, <1>5 DEF HelloInv
<1>6. CASE bundleList' = Append(rest, g) /\ nBundles' = nBundles - Cardinality(gone) + 1
  <2>1. ToSet(bundleList') = ToSet(rest) \cup {g}
    BY <1>1, <1>6, AppendIsInjective
  <2>2. /\ bundleList' # <<>> /\ nBundles' = Len(rest) + 1 /\ Len(rest) \in Nat
        /\ rest = <<>> <=> Len(rest) = 0
    BY <1>1, <1>4, <1>6
  <2>3. hello' = HelloOnceInserted(HelloOnceDeleted(gone), Len(rest) + 1)
    BY <1>3, <2>1, <2>2
  <2>4. CASE AlwaysSendHello \/ rest # <<>>
    BY <1>4, <2>2, <2>3, <2>4 DEF HelloOnceInserted, HelloInv
  <2>5. CASE ~(AlwaysSendHello \/ rest # <<>>)
    BY <1>4, <2>2, <2>3, <2>5
       DEF HelloOnceInserted, HelloInv, Start, Scheduled, Running, Stopped
  <2> QED BY <2>4, <2>5
<1> QED BY <1>2, <1>5, <1>6

-----------------------------------------------------------------------------
(* A look that is due. *)

(* There is something to send: a bundle held, for a connected peer that    *)
(* has not acknowledged it.                                                *)
SomethingToSend ==
  \E p \in Mac, b \in Held :
    state[p] = "connected" /\ Destination[b] = p /\ <<b, p>> \notin forwardLog

DueInv ==
  /\ tries \in 0..TryBound
  /\ ~isSending /\ SomethingToSend => tries > 0

LEMMA OnceMoreDue ==
  ASSUME ~Polling, DueInv, NEW k \in Nat, tries' = More(k + 1)
  PROVE  DueInv'
<1>1. More(k + 1) \in 0..TryBound /\ More(k + 1) > 0
  BY SameAssumption, SameReports, R!MoreAreDue DEF DueInv
<1> QED BY <1>1 DEF DueInv

(* Each report schedules one, and without any there is no more to send     *)
(* than before.                                                            *)
LEMMA ReportsDue ==
  ASSUME ~Polling, DueInv, R!WaitInv, NEW bundles, NEW peers,
         tries' = More(Cardinality(Hits(outbox, bundles, peers))),
         isSending' = StillSending(isSending, Hits(outbox, bundles, peers)),
         SomethingToSend' => SomethingToSend
  PROVE  DueInv'
<1> DEFINE hits == Hits(outbox, bundles, peers)
           k == Cardinality(hits)
<1>1. k \in Nat /\ (hits # {} => k > 0)
  BY SameAssumption, SameReports, SameLibrary, R!HitsAreCounted DEF R!WaitInv, R!Reported
<1>2. tries' = More(k) /\ (isSending' <=> isSending /\ hits = {})
  BY DEF StillSending
<1>3. More(k) \in 0..TryBound /\ (tries > 0 \/ k > 0 => More(k) > 0)
  BY <1>1, SameAssumption, SameReports, R!MoreAreDue DEF DueInv
<1> HIDE DEF hits, k
<1>4. ~isSending' /\ SomethingToSend' => tries > 0 \/ k > 0
  BY <1>1, <1>2 DEF DueInv
<1> QED BY <1>2, <1>3, <1>4 DEF DueInv

(* A look that finds nothing to send is the last; one that finds the       *)
(* router sending is followed by what ends that.                           *)
LEMMA TryToStartSendingDue ==
  ASSUME ~Polling, DueInv, R!WaitInv, R!BufferInv, ~over, TryToStartSending
  PROVE  DueInv'
<1> DEFINE gone == Held \cap expired
           hits == Hits(outbox, gone, Mac)
           k == Cardinality(hits)
           log == RemoveExpiredEntries(forwardLog, expired)
<1>1. k \in Nat
  BY SameAssumption, SameReports, SameLibrary, R!HitsAreCounted DEF R!WaitInv, R!Reported
<1>2. /\ tries > 0 /\ tries' \in Fewer(More(k))
      /\ bundleList' = Fresh /\ forwardLog' = log /\ state' = state
      /\ \/ /\ ~StillSending(isSending, hits) /\ nBundles > Cardinality(gone)
                 => Ready(Fresh, log) = {}
            /\ isSending' = StillSending(isSending, hits)
         \/ isSending' = TRUE
  BY DEF TryToStartSending, Fresh
<1>3. tries' \in 0..TryBound
  <2>1. More(k) \in 1..TryBound
    BY <1>1, <1>2, SameAssumption, SameReports, R!MoreAreDue DEF DueInv
  <2> HIDE DEF k
  <2> QED BY <1>2, <2>1, RouterAssumption DEF Fewer, RouterAssumption
<1>4. ~(nBundles > Cardinality(gone)) => Fresh = <<>>
  <2>1. nBundles = Len(bundleList)
    BY DEF R!BufferInv, R!Booked
  <2>2. /\ Len(Fresh) = Len(bundleList) - Cardinality(gone) /\ Cardinality(gone) \in Nat
        /\ Fresh \in Seq(Bundle)
    BY FreshIsBooked
  <2> HIDE DEF Fresh, gone
  <2>3. bundleList \in Seq(Bundle)
    BY DEF R!BufferInv, R!Booked
  <2> QED BY <2>1, <2>2, <2>3
<1>5. Fresh = <<>> => Ready(Fresh, log) = {}
  BY DEF Ready, AllBundlesForLink
<1>6. Ready(Fresh, log) = {} => ~SomethingToSend'
  <2>1. ASSUME NEW p \in Mac, NEW b \in Held', state[p] = "connected",
               Destination[b] = p, <<b, p>> \notin log
        PROVE  Ready(Fresh, log) # {}
    <3>1. PICK i \in DOMAIN Fresh : Fresh[i] = b
      BY <1>2, <2>1 DEF Held, ToSet
    <3>2. i \in AllBundlesForLink(p, Fresh, log)
      BY <2>1, <3>1 DEF AllBundlesForLink, HasEntry
    <3> QED BY <2>1, <3>2 DEF Ready
  <2> QED BY <1>2, <2>1 DEF SomethingToSend
<1> HIDE DEF gone, hits, log
<1> QED BY <1>2, <1>3, <1>4, <1>5, <1>6 DEF DueInv

LEMMA BundleReceivedFromApplicationDue ==
  ASSUME ~Polling, DueInv, R!WaitInv, R!BufferInv, NEW g \in Bundle,
         BundleReceivedFromApplication(g)
  PROVE  DueInv'
<1> DEFINE rest == MakeRoomForBundle(g)
           hits == Hits(outbox, Held \ ToSet(rest), Mac)
<1>1. /\ isSending' = StillSending(isSending, hits)
      /\ \/ tries' = More(Cardinality(hits) + 1)
         \/ bundleList' = rest /\ tries' = More(Cardinality(hits))
  BY AddedBooks DEF InsertBundle
<1>2. Cardinality(hits) \in Nat
  BY SameAssumption, SameReports, SameLibrary, R!HitsAreCounted DEF R!WaitInv, R!Reported
<1>3. ASSUME bundleList' = rest PROVE SomethingToSend' => SomethingToSend
  <2>1. Held' \subseteq Held \ expired
    BY <1>3, AddedBooks, FreshIsBooked DEF Held
  <2>2. state' = state /\ forwardLog' = RemoveExpiredEntries(forwardLog, expired)
    BY DEF BundleReceivedFromApplication
  <2>3. ASSUME NEW p, NEW b \in Held', <<b, p>> \notin forwardLog' 
        PROVE  b \in Held /\ <<b, p>> \notin forwardLog
    BY <2>1, <2>2, <2>3 DEF RemoveExpiredEntries
  <2> QED BY <2>2, <2>3 DEF SomethingToSend
<1>4. CASE tries' = More(Cardinality(hits) + 1)
  BY <1>2, <1>4, OnceMoreDue
<1>5. CASE bundleList' = rest /\ tries' = More(Cardinality(hits))
  BY <1>1, <1>3, <1>5, ReportsDue
<1> QED BY <1>1, <1>4, <1>5

LEMMA CloseLinkDue ==
  ASSUME ~Polling, DueInv, R!WaitInv, NEW p \in Mac, DoLinkClosed(p)
  PROVE  DueInv'
<1>1. /\ tries' = More(Cardinality(Hits(outbox, ToSet(queue[p]), {p})))
      /\ isSending' = StillSending(isSending, Hits(outbox, ToSet(queue[p]), {p}))
      /\ UNCHANGED <<bundleList, forwardLog>>
      /\ state' = [state EXCEPT ![p] = "unavailable"]
  BY DEF DoLinkClosed, CloseLink, directVars
<1>2. \A q \in Mac : state'[q] = "connected" => state[q] = "connected"
  BY <1>1
<1>3. SomethingToSend' => SomethingToSend
  BY <1>1, <1>2 DEF SomethingToSend, Held
<1> QED BY <1>1, <1>3, ReportsDue

LEMMA PauseLinkDue ==
  ASSUME ~Polling, DueInv, R!WaitInv, PauseLink
  PROVE  DueInv'
<1> DEFINE p == Head(outbox).mac
           hits == Hits(Tail(outbox), ToSet(queue[p]), {p})
<1>1. outbox # <<>> /\ (tries' = More(Cardinality(hits) + 1) \/ tries' = More(0 + 1))
  BY DEF PauseLink, BundleTransmissionFailed
<1>2. R!IsSeq(Tail(outbox))
  BY <1>1, SameAssumption, R!TailIsSeq DEF R!WaitInv, R!Reported
<1>3. Cardinality(hits) \in Nat
  BY <1>2, SameAssumption, SameReports, SameLibrary, R!HitsAreCounted
<1> HIDE DEF hits
<1> QED BY <1>1, <1>3, OnceMoreDue

-----------------------------------------------------------------------------
(* Every action. *)

IInv == R!WaitInv /\ R!BufferInv /\ HelloInv /\ ~over

LEMMA InitHolds == Init => IInv /\ (~Polling => DueInv)
<1> SUFFICES ASSUME Init PROVE IInv /\ (~Polling => DueInv)
  OBVIOUS
<1>1. RouterInit /\ forwardLog = {} /\ offered = {} /\ bundleList = <<>> /\ over = FALSE
      /\ (~Polling => tries = 0)
  BY DEF Init, RouterInit
<1>2. R!RouterInit
  BY <1>1 DEF RouterInit, R!RouterInit
<1>3. R!WaitInv /\ R!BufferInv
  BY <1>1, <1>2, SameAssumption, R!InitHolds DEF R!Init, R!RelayInit, R!IInv
<1>4. HelloInv
  BY <1>1 DEF Init, HelloInv, Start, Scheduled, Running, Stopped
<1>5. ~Polling => DueInv
  BY <1>1, RouterAssumption DEF DueInv, SomethingToSend, Held, ToSet, RouterAssumption
<1> QED BY <1>1, <1>3, <1>4, <1>5 DEF IInv

(* Each action keeps them, and what is due of a router that does not poll. *)
Kept == IInv' /\ (~Polling /\ DueInv => DueInv')

LEMMA TryToStartSendingStep ==
  ASSUME IInv, TryToStartSending
  PROVE  Kept
<1>1. over' = over
  BY DEF TryToStartSending
<1>2. R!WaitInv' /\ R!BufferInv'
  BY <1>1, SameAssumption, SameLook, R!LookWaits, R!LookBooks DEF IInv
<1> QED BY <1>1, <1>2, TryToStartSendingHellos, TryToStartSendingDue DEF IInv, Kept

LEMMA BundleReceivedFromApplicationStep ==
  ASSUME IInv, NEW g \in Bundle, BundleReceivedFromApplication(g)
  PROVE  Kept
<1>1. over' = over
  BY DEF BundleReceivedFromApplication
<1>2. R!BufferInv' /\ R!InsertBundle(g, Size[g], MakeRoomForBundle(g))
  BY AddedBooks, SameInsertBundle DEF IInv
<1>3. R!WaitInv'
  BY <1>2, SameAssumption, R!InsertBundleWaits DEF IInv
<1> QED BY <1>1, <1>2, <1>3, BundleReceivedFromApplicationHellos,
           BundleReceivedFromApplicationDue DEF IInv, Kept

(* A step that leaves the buffer alone. *)
LEMMA BufferAlone ==
  ASSUME IInv, R!WaitInv', ~Polling /\ DueInv => DueInv',
         UNCHANGED <<bundleList, nBytes, nBundles, over, hello>>
  PROVE  Kept
<1>1. R!BufferInv'
  BY SameAssumption, R!QuietBooks DEF IInv
<1> QED BY <1>1 DEF IInv, HelloInv, Kept

LEMMA TakenOverStep ==
  ASSUME IInv, TakenOver
  PROVE  Kept
<1>1. R!WaitInv'
  BY SameAssumption, SameLinks, R!BundleQueuedWaits DEF IInv, TakenOver
<1>2. DueInv => DueInv'
  BY DEF TakenOver, BundleQueued, DueInv, SomethingToSend, Held
<1> QED BY <1>1, <1>2, BufferAlone DEF TakenOver, BundleQueued

(* An acknowledgement ends the sending, whatever it retires, and is        *)
(* followed by a look.                                                     *)
LEMMA BundleSentStep ==
  ASSUME IInv, NEW p, NEW g, NEW o, R!IsSeq(o), BundleSent(p, g, o)
  PROVE  Kept
<1>1. R!WaitInv'
  BY DEF BundleSent, IInv, R!WaitInv, R!Reported
<1>2. ~Polling /\ DueInv => DueInv'
  <2>1. tries' = More(0 + 1)
    BY DEF BundleSent, LookOnceSent
  <2> QED BY <2>1, OnceMoreDue
<1> QED BY <1>1, <1>2, BufferAlone DEF BundleSent

LEMMA RetiredStep ==
  ASSUME IInv, Retired
  PROVE  Kept
<1>1. R!IsSeq(Tail(outbox))
  BY SameAssumption, R!TailIsSeq DEF Retired, IInv, R!WaitInv, R!Reported
<1> QED BY <1>1, BundleSentStep DEF Retired

LEMMA PassedOnStep ==
  ASSUME IInv, PassedOn
  PROVE  Kept
BY BundleSentStep DEF PassedOn, IInv, R!WaitInv, R!Reported

LEMMA PauseLinkStep ==
  ASSUME IInv, PauseLink
  PROVE  Kept
<1>1. R!WaitInv'
  BY SameAssumption, SameLinks, R!BundleTransmissionFailedWaits DEF IInv, PauseLink
<1>2. UNCHANGED <<bundleList, nBytes, nBundles, over, hello>>
  BY DEF PauseLink, BundleTransmissionFailed, directVars
<1> QED BY <1>1, <1>2, BufferAlone, PauseLinkDue DEF IInv

LEMMA DiscardStep ==
  ASSUME IInv, Discard, UNCHANGED directVars
  PROVE  Kept
<1>1. R!WaitInv'
  BY SameAssumption, SameLinks, R!DiscardWaits DEF IInv
<1>2. DueInv => DueInv'
  BY DEF Discard, directVars, DueInv, SomethingToSend, Held
<1> QED BY <1>1, <1>2, BufferAlone DEF Discard, directVars

LEMMA DoLinkClosedStep ==
  ASSUME IInv, NEW p \in Mac, DoLinkClosed(p)
  PROVE  Kept
<1>1. R!WaitInv'
  BY SameAssumption, SameLinks, R!CloseLinkWaits DEF IInv, DoLinkClosed
<1>2. UNCHANGED <<bundleList, nBytes, nBundles, over, hello>>
  BY DEF DoLinkClosed, CloseLink, directVars
<1> QED BY <1>1, <1>2, BufferAlone, CloseLinkDue DEF IInv

LEMMA LinkComesUpStep ==
  ASSUME IInv, NEW p, DoLinkDiscovered(p) \/ DoUnPauseLink(p)
  PROVE  Kept
<1>1. /\ UNCHANGED <<handoff, outbox, isSending, bundleList, nBytes, nBundles, over, hello>>
      /\ tries' = More(0 + 1)
  BY DEF DoLinkDiscovered, DoUnPauseLink, DiscoveredLink, UnPauseLink, directVars
<1>2. R!WaitInv'
  BY <1>1, SameAssumption, R!QuietWaits DEF IInv
<1> QED BY <1>1, <1>2, BufferAlone, OnceMoreDue

LEMMA QuietStep ==
  ASSUME IInv, UNCHANGED <<state, handoff, outbox, isSending, bundleList, nBytes, nBundles,
                           tries, over, hello, forwardLog>>
  PROVE  Kept
<1>1. R!WaitInv'
  BY SameAssumption, R!QuietWaits DEF IInv
<1>2. DueInv => DueInv'
  BY DEF DueInv, SomethingToSend, Held
<1> QED BY <1>1, <1>2, BufferAlone

LEMMA Inductive == IInv /\ [Next]_vars => Kept
<1> SUFFICES ASSUME IInv, [Next]_vars PROVE Kept
  OBVIOUS
<1>1. CASE TryToStartSending
  BY <1>1, TryToStartSendingStep
<1>2. CASE TakenOver \/ Retired \/ PauseLink
  BY <1>2, TakenOverStep, RetiredStep, PauseLinkStep
<1>3. CASE Discard /\ UNCHANGED directVars
  BY <1>3, DiscardStep
<1>4. CASE \E g \in Bundle : BundleReceivedFromApplication(g)
  BY <1>4, BundleReceivedFromApplicationStep
<1>5. CASE PassedOn
  BY <1>5, PassedOnStep
<1>6. CASE \E p \in Mac : DoUnPauseLink(p) \/ DoLinkDiscovered(p) \/ DoLinkClosed(p)
  BY <1>6, LinkComesUpStep, DoLinkClosedStep
<1>7. CASE \E g \in Bundle : Expire(g) /\ UNCHANGED directVars
  BY <1>7, QuietStep DEF Expire, directVars
<1>8. CASE UNCHANGED vars
  BY <1>8, QuietStep DEF vars, routerVars, directVars
<1> QED BY <1>1, <1>2, <1>3, <1>4, <1>5, <1>6, <1>7, <1>8 DEF Next, Own, Environment

LEMMA Invariance == Spec => []IInv
BY InitHolds, Inductive, PTL DEF Kept, Spec

-----------------------------------------------------------------------------

(* The router never waits for a report that does not come, with hellos by  *)
(* default or not, for any peers, bundles, sizes and bounds.  It does not  *)
(* look again by itself, so that it would stop for good.                   *)
THEOREM NeverWaitsInVain == Spec => []SendingEndsInReport
<1>1. IInv => SendingEndsInReport
  BY DEF IInv, R!WaitInv, R!Reported, R!Awaited, SendingEndsInReport
<1> QED BY <1>1, Invariance, PTL

(* Hellos go out exactly while the node holds something, or always if it   *)
(* is told so, and their timer is never scheduled while it runs.           *)
THEOREM HellosTellOfBundles == Spec => []HellosWhileHolding
<1>1. IInv => HellosWhileHolding
  BY DirectAssumption
     DEF DirectAssumption, IInv, HelloInv, HellosWhileHolding, Running, Stopped
<1> QED BY <1>1, Invariance, PTL

(* What can be sent is not left lying, though nothing looks for it but     *)
(* what the handlers schedule.                                             *)
THEOREM LooksAreDue == ASSUME ~Polling PROVE Spec => []LookIsDue
<1>1. Init => IInv /\ DueInv
  BY InitHolds
<1>2. IInv /\ DueInv /\ [Next]_vars => IInv' /\ DueInv'
  BY Inductive DEF Kept
<1>3. DueInv => LookIsDue
  <2>1. Ready(bundleList, forwardLog) # {} => SomethingToSend
    BY DEF Ready, AllBundlesForLink, HasEntry, SomethingToSend, Held, ToSet
  <2> QED BY <2>1 DEF DueInv, LookIsDue
<1> QED BY <1>1, <1>2, <1>3, PTL DEF Spec

(* What is left of the list by making room is its beginning: that of the   *)
(* bundles not expired, in the order in which they came.                   *)
LEMMA OldestLeft ==
  ASSUME IInv, NEW g \in Bundle, BundleReceivedFromApplication(g),
         NEW i \in DOMAIN bundleList, NEW j \in DOMAIN bundleList, i < j,
         bundleList[j] \in ToSet(bundleList'), bundleList[i] \notin expired
  PROVE  bundleList[i] \in ToSet(bundleList')
<1> DEFINE rest == MakeRoomForBundle(g)
<1>1. bundleList \in Seq(Bundle) /\ IsInjective(bundleList)
  BY SameLibrary DEF IInv, R!BufferInv, R!Booked
<1>2. Fresh \in Seq(Bundle) /\ ToSet(Fresh) = Held \ (Held \cap expired)
  BY FreshIsBooked DEF IInv
<1>3. PICK k \in 0..Len(Fresh) : rest = SubSeq(Fresh, 1, k)
  BY RoomIsMade DEF IInv
<1>4. rest \in Seq(Bundle) /\ IsInjective(rest) /\ g \notin ToSet(rest) /\ g \notin Held
  BY RoomIsBooked, AddedBooks, FreshIsBooked DEF IInv
<1>5. ToSet(rest) = {Fresh[n] : n \in 1..k}
  <2>1. 1 \in 1..(Len(Fresh) + 1) /\ IsInjective(Fresh)
    BY <1>2, FreshIsBooked DEF IInv
  <2>2. ToSet(SubSeq(Fresh, 1, k)) = {Fresh[n] : n \in 1..k}
    BY <1>2, <2>1, PartOfList
  <2> QED BY <1>3, <2>2
<1>6. ToSet(bundleList') = ToSet(rest) \/ ToSet(bundleList') = ToSet(rest) \cup {g}
  <2>1. bundleList' = rest \/ bundleList' = Append(rest, g)
    BY AddedBooks DEF IInv, InsertBundle
  <2> QED BY <1>4, <2>1, AppendIsInjective
<1> HIDE DEF rest
<1>7. bundleList[i] \in Held /\ bundleList[j] \in Held
  BY DEF Held, ToSet
<1>8. PICK b \in 1..k : Fresh[b] = bundleList[j]
  BY <1>4, <1>5, <1>6, <1>7
<1>9. PICK a \in DOMAIN Fresh : Fresh[a] = bundleList[i]
  BY <1>2, <1>7 DEF ToSet
<1>10. DOMAIN Fresh = 1..Len(Fresh) /\ Len(Fresh) \in Nat
  BY <1>2
<1>11. b \in DOMAIN Fresh
  BY <1>8, <1>10
<1>12. a < b
  BY <1>1, <1>8, <1>9, <1>11, SelectedKeepsOrder DEF Fresh, Left
<1>13. a \in 1..k
  BY <1>9, <1>10, <1>12
<1> QED BY <1>5, <1>6, <1>9, <1>13

(* The newest go first: a bundle stays as long as any that came after it,  *)
(* or until its lifetime is over.                                          *)
THEOREM TheOldestStay == Spec => OldestStay
<1> DEFINE Stays ==
      \A i, j \in DOMAIN bundleList :
        i < j /\ bundleList[j] \in ToSet(bundleList')
          => bundleList[i] \in ToSet(bundleList') \cup expired
<1>1. IInv /\ [Next]_vars => [Stays]_vars
  <2> SUFFICES ASSUME IInv, Next PROVE Stays
    OBVIOUS
  <2>1. CASE TryToStartSending
    <3>1. ToSet(bundleList') = Held \ (Held \cap expired)
      BY <2>1, FreshIsBooked DEF TryToStartSending, Fresh, IInv
    <3> QED BY <3>1 DEF Held, ToSet
  <2>2. ASSUME NEW g \in Bundle, BundleReceivedFromApplication(g) PROVE Stays
    BY <2>2, OldestLeft
  <2>3. CASE bundleList' = bundleList
    BY <2>3 DEF ToSet
  <2>4. \/ TryToStartSending \/ \E g \in Bundle : BundleReceivedFromApplication(g)
        \/ bundleList' = bundleList
    BY DEF Next, Own, Environment, TakenOver, BundleQueued, Retired, PassedOn, BundleSent,
           PauseLink, BundleTransmissionFailed, Discard, DoUnPauseLink, UnPauseLink,
           DoLinkDiscovered, DiscoveredLink, DoLinkClosed, CloseLink, Expire
  <2> QED BY <2>1, <2>2, <2>3, <2>4
<1> QED BY <1>1, Invariance, PTL DEF OldestStay, Spec
=============================================================================
