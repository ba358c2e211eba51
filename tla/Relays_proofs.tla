---------------------------- MODULE Relays_proofs ----------------------------
(***************************************************************************)
(* What the four routers that relay promise of BundleRouter, whichever a   *)
(* node has: the counters of the buffer move with the list, the router     *)
(* never waits for a report that does not come, and a look is due while    *)
(* there is something to send.                                             *)
(*                                                                         *)
(* EpidemicRouter_proofs says what the common steps keep.  Here each       *)
(* router's steps are shown to be such: first that what it repeats of      *)
(* BundleRouter and RelayRouter is the same, then that each of its own     *)
(* actions is one of the common steps.                                     *)
(*                                                                         *)
(* Of the inference by which the trend router trusts the other nodes: its  *)
(* rules leave nothing that they are asked without an answer, except where *)
(* two directions touch.                                                   *)
(***************************************************************************)
EXTENDS Relays, Tendency, DataLemmas

(* The common steps, of a router that looks for work when told to, and of  *)
(* one that has a timer of its own.                                        *)
F == INSTANCE EpidemicRouter_proofs WITH Polling <- FALSE
T == INSTANCE EpidemicRouter_proofs WITH Polling <- TRUE

(* What the common steps assume is assumed of the constants here, too. *)
LEMMA FAssumption == F!RouterAssumption /\ F!RelayAssumption
BY RelaysAssumption DEF RelaysAssumption, F!RouterAssumption, F!RelayAssumption

(* The same for the other. *)
LEMMA TAssumption == T!RouterAssumption /\ T!RelayAssumption
BY RelaysAssumption DEF RelaysAssumption, T!RouterAssumption, T!RelayAssumption

-----------------------------------------------------------------------------

(* The epidemic router.  What it has of BundleRouter and RelayRouter is    *)
(* what the common steps are made of: the helpers are the same, so that    *)
(* they are expanded on both sides.                                        *)
LEMMA EpidemicSteps ==
  /\ Epidemic!Discard => F!Discard
  /\ Epidemic!BundleQueued => F!BundleQueued
  /\ Epidemic!BundleTransmissionFailed => F!BundleTransmissionFailed
  /\ Epidemic!DoSendHello => F!DoSendHello
  /\ \A p : Epidemic!CloseLink(p) => F!CloseLink(p)
  /\ \A p : Epidemic!DiscoveredLink(p) => F!DiscoveredLink(p)
  /\ \A p : Epidemic!UnPauseLink(p) => F!UnPauseLink(p)
  /\ \A g : Epidemic!Expire(g) => F!Expire(g)
  /\ \A g : Epidemic!LocalBundleDelivery(g) => F!LocalBundleDelivery(g)
  /\ \A p, g, o : Epidemic!BundleSent(p, g, o) => F!BundleSent(p, g, o)
  /\ Epidemic!RemoveExpired => F!RemoveExpired
  /\ \A g, size : Epidemic!BundleReceived(g, size) => F!BundleReceived(g, size)
  /\ Epidemic!NotNow => F!NotNow
  /\ Epidemic!LookAgain => F!LookAgain
  /\ \A p, g : Epidemic!PassOn(p, g) => F!Passes(p, g)
<1> USE DEF Epidemic!ToSet, Epidemic!Cardinality, Epidemic!Min, Epidemic!SumFunctionOnSet,
      Epidemic!FoldFunctionOnSet, Epidemic!MapThenFoldSet, Epidemic!FoldSet,
      Epidemic!RemoveFirst, Epidemic!RemoveAt, Epidemic!SelectInSeq, Epidemic!Held,
      Epidemic!Bytes, Epidemic!Left, Epidemic!Selected, Epidemic!Fresh, Epidemic!FreshBytes,
      Epidemic!Hits, Epidemic!Marked, Epidemic!Late, Epidemic!More, Epidemic!Fewer,
      Epidemic!Forget, Epidemic!StillSending, Epidemic!Open, Epidemic!Dequeued,
      Epidemic!CallOff, Epidemic!HasRoom, Epidemic!Stale, Epidemic!StaleHits,
      Epidemic!Without, Epidemic!FreshLog, Epidemic!RemoveExpiredEntries, Epidemic!FewSent,
      Epidemic!Idle, Epidemic!NothingSent, F!ToSet, F!Cardinality, F!Min,
      F!SumFunctionOnSet, F!FoldFunctionOnSet, F!MapThenFoldSet, F!FoldSet, F!RemoveFirst,
      F!RemoveAt, F!SelectInSeq, F!Held, F!Bytes, F!Left, F!Selected, F!Fresh, F!FreshBytes,
      F!Hits, F!Marked, F!Late, F!More, F!Fewer, F!Forget, F!StillSending, F!Open,
      F!Dequeued, F!CallOff, F!HasRoom, F!Stale, F!StaleHits, F!Without, F!FreshLog,
      F!RemoveExpiredEntries, F!FewSent, F!Idle, F!NothingSent
<1>1. Epidemic!Discard => F!Discard
  BY DEF Epidemic!Discard, F!Discard
<1>2. Epidemic!BundleQueued => F!BundleQueued
  BY DEF Epidemic!BundleQueued, F!BundleQueued
<1>3. Epidemic!BundleTransmissionFailed => F!BundleTransmissionFailed
  BY DEF Epidemic!BundleTransmissionFailed, F!BundleTransmissionFailed
<1>4. Epidemic!DoSendHello => F!DoSendHello
  BY DEF Epidemic!DoSendHello, F!DoSendHello
<1>5. ASSUME NEW p, Epidemic!CloseLink(p) PROVE F!CloseLink(p)
  BY <1>5 DEF Epidemic!CloseLink, F!CloseLink
<1>6. ASSUME NEW p, Epidemic!DiscoveredLink(p) PROVE F!DiscoveredLink(p)
  BY <1>6 DEF Epidemic!DiscoveredLink, F!DiscoveredLink
<1>7. ASSUME NEW p, Epidemic!UnPauseLink(p) PROVE F!UnPauseLink(p)
  BY <1>7 DEF Epidemic!UnPauseLink, F!UnPauseLink
<1>8. ASSUME NEW g, Epidemic!Expire(g) PROVE F!Expire(g)
  BY <1>8 DEF Epidemic!Expire, F!Expire
<1>9. ASSUME NEW g, Epidemic!LocalBundleDelivery(g) PROVE F!LocalBundleDelivery(g)
  BY <1>9 DEF Epidemic!LocalBundleDelivery, F!LocalBundleDelivery, Epidemic!KnownDelivered,
     F!KnownDelivered, Epidemic!AcceptBundle, F!AcceptBundle, Epidemic!RemoveEntriesFor,
     F!RemoveEntriesFor
<1>10. ASSUME NEW p, NEW g, NEW o, Epidemic!BundleSent(p, g, o) PROVE F!BundleSent(p, g, o)
  BY <1>10 DEF Epidemic!BundleSent, F!BundleSent, Epidemic!LookOnceSent, F!LookOnceSent,
     Epidemic!KnownDelivered, F!KnownDelivered, Epidemic!RemoveEntriesFor,
     F!RemoveEntriesFor, Epidemic!AddEntry, F!AddEntry
<1>11. Epidemic!RemoveExpired => F!RemoveExpired
  BY DEF Epidemic!RemoveExpired, F!RemoveExpired
<1>12. ASSUME NEW g, NEW size, Epidemic!BundleReceived(g, size) PROVE F!BundleReceived(g, size)
  <2>1. Epidemic!MakeRoomForBundle(size) = F!MakeRoomForBundle(size)
    BY DEF Epidemic!MakeRoomForBundle, F!MakeRoomForBundle
  <2>2. ASSUME NEW r, Epidemic!InsertBundle(g, size, r) PROVE F!InsertBundle(g, size, r)
    BY <2>2 DEF Epidemic!InsertBundle, F!InsertBundle
  <2>3. Epidemic!FewDrift(g, size) /\ Epidemic!AcceptBundle(g, size)
          => F!FewDrift(g, size) /\ F!AcceptBundle(g, size)
    BY DEF Epidemic!FewDrift, F!FewDrift, Epidemic!Drift, F!Drift, Epidemic!AcceptBundle,
       F!AcceptBundle
  <2> QED
    BY <1>12, <2>1, <2>2, <2>3 DEF Epidemic!BundleReceived, F!BundleReceived, Epidemic!ReceivedWith,
       F!ReceivedWith
<1>13. Epidemic!NotNow => F!NotNow
  BY DEF Epidemic!NotNow, F!NotNow
<1>14. Epidemic!LookAgain => F!LookAgain
  BY DEF Epidemic!LookAgain, F!LookAgain
<1>15. ASSUME NEW p, NEW g, Epidemic!PassOn(p, g) PROVE F!Passes(p, g)
  BY <1>15 DEF Epidemic!PassOn, F!Passes, Epidemic!SendBundle, F!SendBundle
<1> QED
  BY ONLY <1>1, <1>2, <1>3, <1>4, <1>5, <1>6, <1>7, <1>8, <1>9, <1>10, <1>11, <1>12, <1>13,
     <1>14, <1>15

(* Whatever it does is such a step. *)
LEMMA EpidemicRelays ==
  ASSUME F!BufferInv, Epidemic!Next
  PROVE  F!Relaying
<1>1. CASE Epidemic!TryToStartSending
  <2>1. /\ tries > 0 /\ Epidemic!RemoveExpired /\ over' = over
        /\ \/ Epidemic!NotNow \/ Epidemic!LookAgain
           \/ \E p, g : Epidemic!PassOn(p, g)
    BY <1>1 DEF Epidemic!TryToStartSending
  <2>2. F!Looks
    BY <2>1, EpidemicSteps DEF F!Looks
  <2> QED BY <2>2 DEF F!Relaying
<1>2. CASE \/ Epidemic!BundleQueued \/ Epidemic!Discard \/ Epidemic!BundleTransmissionFailed
           \/ Epidemic!DoSendHello \/ \E g : Epidemic!Expire(g)
           \/ \E p : Epidemic!CloseLink(p) \/ Epidemic!DiscoveredLink(p) \/ Epidemic!UnPauseLink(p)
  BY <1>2, EpidemicSteps DEF F!Handles, F!Relaying
<1>3. CASE Epidemic!Retired \/ Epidemic!PassedOn
  BY <1>3, EpidemicSteps DEF Epidemic!Retired, Epidemic!PassedOn, F!Handles, F!Relaying
<1>4. CASE \E g \in Bundle :
             \/ Epidemic!LocalBundleDelivery(g)
             \/ \E size \in Comes[g] \cup {Size[g]} : Epidemic!BundleReceived(g, size)
  BY <1>4, EpidemicSteps, FAssumption, F!BundlesAreHandled DEF F!Relaying
<1> QED
  BY <1>1, <1>2, <1>3, <1>4
  DEF Epidemic!Next, Epidemic!Own, Epidemic!Environment, Epidemic!TakenOver

-----------------------------------------------------------------------------

(* The spray and wait router, in the same way. *)
LEMMA SpraySteps ==
  /\ Spray!Discard => F!Discard
  /\ Spray!BundleQueued => F!BundleQueued
  /\ Spray!BundleTransmissionFailed => F!BundleTransmissionFailed
  /\ Spray!DoSendHello => F!DoSendHello
  /\ \A p : Spray!CloseLink(p) => F!CloseLink(p)
  /\ \A p : Spray!DiscoveredLink(p) => F!DiscoveredLink(p)
  /\ \A p : Spray!UnPauseLink(p) => F!UnPauseLink(p)
  /\ \A g : Spray!Expire(g) => F!Expire(g)
  /\ \A g : Spray!LocalBundleDelivery(g) => F!LocalBundleDelivery(g)
  /\ \A p, g, o : Spray!BundleSent(p, g, o) => F!BundleSent(p, g, o)
  /\ Spray!RemoveExpired => F!RemoveExpired
  /\ \A g, size : Spray!BundleReceived(g, size) => F!BundleReceived(g, size)
  /\ Spray!NotNow => F!NotNow
  /\ Spray!LookAgain => F!LookAgain
  /\ \A p, g : Spray!PassOn(p, g) => F!Passes(p, g)
<1> USE DEF Spray!ToSet, Spray!Cardinality, Spray!Min, Spray!SumFunctionOnSet,
      Spray!FoldFunctionOnSet, Spray!MapThenFoldSet, Spray!FoldSet, Spray!RemoveFirst,
      Spray!RemoveAt, Spray!SelectInSeq, Spray!Held, Spray!Bytes, Spray!Left,
      Spray!Selected, Spray!Fresh, Spray!FreshBytes, Spray!Hits, Spray!Marked, Spray!Late,
      Spray!More, Spray!Fewer, Spray!Forget, Spray!StillSending, Spray!Open, Spray!Dequeued,
      Spray!CallOff, Spray!HasRoom, Spray!Stale, Spray!StaleHits, Spray!Without,
      Spray!FreshLog, Spray!RemoveExpiredEntries, Spray!FewSent, Spray!Idle,
      Spray!NothingSent, F!ToSet, F!Cardinality, F!Min, F!SumFunctionOnSet,
      F!FoldFunctionOnSet, F!MapThenFoldSet, F!FoldSet, F!RemoveFirst, F!RemoveAt,
      F!SelectInSeq, F!Held, F!Bytes, F!Left, F!Selected, F!Fresh, F!FreshBytes, F!Hits,
      F!Marked, F!Late, F!More, F!Fewer, F!Forget, F!StillSending, F!Open, F!Dequeued,
      F!CallOff, F!HasRoom, F!Stale, F!StaleHits, F!Without, F!FreshLog,
      F!RemoveExpiredEntries, F!FewSent, F!Idle, F!NothingSent
<1>1. Spray!Discard => F!Discard
  BY DEF Spray!Discard, F!Discard
<1>2. Spray!BundleQueued => F!BundleQueued
  BY DEF Spray!BundleQueued, F!BundleQueued
<1>3. Spray!BundleTransmissionFailed => F!BundleTransmissionFailed
  BY DEF Spray!BundleTransmissionFailed, F!BundleTransmissionFailed
<1>4. Spray!DoSendHello => F!DoSendHello
  BY DEF Spray!DoSendHello, F!DoSendHello
<1>5. ASSUME NEW p, Spray!CloseLink(p) PROVE F!CloseLink(p)
  BY <1>5 DEF Spray!CloseLink, F!CloseLink
<1>6. ASSUME NEW p, Spray!DiscoveredLink(p) PROVE F!DiscoveredLink(p)
  BY <1>6 DEF Spray!DiscoveredLink, F!DiscoveredLink
<1>7. ASSUME NEW p, Spray!UnPauseLink(p) PROVE F!UnPauseLink(p)
  BY <1>7 DEF Spray!UnPauseLink, F!UnPauseLink
<1>8. ASSUME NEW g, Spray!Expire(g) PROVE F!Expire(g)
  BY <1>8 DEF Spray!Expire, F!Expire
<1>9. ASSUME NEW g, Spray!LocalBundleDelivery(g) PROVE F!LocalBundleDelivery(g)
  BY <1>9 DEF Spray!LocalBundleDelivery, F!LocalBundleDelivery, Spray!KnownDelivered,
     F!KnownDelivered, Spray!AcceptBundle, F!AcceptBundle, Spray!RemoveEntriesFor,
     F!RemoveEntriesFor
<1>10. ASSUME NEW p, NEW g, NEW o, Spray!BundleSent(p, g, o) PROVE F!BundleSent(p, g, o)
  BY <1>10 DEF Spray!BundleSent, F!BundleSent, Spray!LookOnceSent, F!LookOnceSent,
     Spray!KnownDelivered, F!KnownDelivered, Spray!RemoveEntriesFor, F!RemoveEntriesFor,
     Spray!AddEntry, F!AddEntry
<1>11. Spray!RemoveExpired => F!RemoveExpired
  BY DEF Spray!RemoveExpired, F!RemoveExpired
<1>12. ASSUME NEW g, NEW size, Spray!BundleReceived(g, size) PROVE F!BundleReceived(g, size)
  <2>1. Spray!MakeRoomForBundle(size) = F!MakeRoomForBundle(size)
    BY DEF Spray!MakeRoomForBundle, F!MakeRoomForBundle
  <2>2. ASSUME NEW r, Spray!InsertBundle(g, size, r) PROVE F!InsertBundle(g, size, r)
    BY <2>2 DEF Spray!InsertBundle, F!InsertBundle
  <2>3. Spray!FewDrift(g, size) /\ Spray!AcceptBundle(g, size)
          => F!FewDrift(g, size) /\ F!AcceptBundle(g, size)
    BY DEF Spray!FewDrift, F!FewDrift, Spray!Drift, F!Drift, Spray!AcceptBundle, F!AcceptBundle
  <2> QED
    BY <1>12, <2>1, <2>2, <2>3 DEF Spray!BundleReceived, F!BundleReceived, Spray!ReceivedWith,
       F!ReceivedWith
<1>13. Spray!NotNow => F!NotNow
  BY DEF Spray!NotNow, F!NotNow
<1>14. Spray!LookAgain => F!LookAgain
  BY DEF Spray!LookAgain, F!LookAgain
<1>15. ASSUME NEW p, NEW g, Spray!PassOn(p, g) PROVE F!Passes(p, g)
  BY <1>15 DEF Spray!PassOn, F!Passes, Spray!SendBundle, F!SendBundle
<1> QED
  BY ONLY <1>1, <1>2, <1>3, <1>4, <1>5, <1>6, <1>7, <1>8, <1>9, <1>10, <1>11, <1>12, <1>13,
     <1>14, <1>15

(* Whatever it does is such a step. *)
LEMMA SprayRelays ==
  ASSUME F!BufferInv, Spray!Next
  PROVE  F!Relaying
<1>1. CASE Spray!TryToStartSending
  <2>1. /\ tries > 0 /\ Spray!RemoveExpired /\ over' = over
        /\ \/ Spray!NotNow \/ Spray!LookAgain
           \/ \E p, g : Spray!PassOn(p, g)
    BY <1>1 DEF Spray!TryToStartSending
  <2>2. F!Looks
    BY <2>1, SpraySteps DEF F!Looks
  <2> QED BY <2>2 DEF F!Relaying
<1>2. CASE \/ Spray!BundleQueued \/ Spray!Discard \/ Spray!BundleTransmissionFailed
           \/ Spray!DoSendHello \/ \E g : Spray!Expire(g)
           \/ \E p : Spray!CloseLink(p) \/ Spray!DiscoveredLink(p) \/ Spray!UnPauseLink(p)
  BY <1>2, SpraySteps DEF F!Handles, F!Relaying
<1>3. CASE Spray!Retired \/ Spray!PassedOn
  BY <1>3, SpraySteps DEF Spray!Retired, Spray!PassedOn, F!Handles, F!Relaying
<1>4. CASE \E g \in Bundle : \/ Spray!LocalBundleDelivery(g)
                            \/ \E size \in Comes[g] \cup {Size[g]} : Spray!BundleReceived(g, size)
  BY <1>4, SpraySteps, FAssumption, F!BundlesAreHandled DEF F!Relaying
<1>5. CASE \E g \in Bundle, p \in Mac : Spray!AddToList(p, g)
  BY <1>5 DEF Spray!AddToList, Spray!routerVars, F!Relaying
<1> QED
  BY <1>1, <1>2, <1>3, <1>4, <1>5
  DEF Spray!Next, Spray!TakenOver, Spray!DoBundleSent, Spray!PauseLink, Spray!DoWipe,
      Spray!DoUnPauseLink, Spray!DoLinkDiscovered, Spray!DoLinkClosed, Spray!DoBundleDelivered,
      Spray!InsertCopies

-----------------------------------------------------------------------------

(* The Prophet router, in the same way. *)
LEMMA ProphetSteps ==
  /\ Prophet!Discard => F!Discard
  /\ Prophet!BundleQueued => F!BundleQueued
  /\ Prophet!BundleTransmissionFailed => F!BundleTransmissionFailed
  /\ Prophet!DoSendHello => F!DoSendHello
  /\ \A p : Prophet!CloseLink(p) => F!CloseLink(p)
  /\ \A p : Prophet!DiscoveredLink(p) => F!DiscoveredLink(p)
  /\ \A p : Prophet!UnPauseLink(p) => F!UnPauseLink(p)
  /\ \A g : Prophet!Expire(g) => F!Expire(g)
  /\ \A g : Prophet!LocalBundleDelivery(g) => F!LocalBundleDelivery(g)
  /\ \A p, g, o : Prophet!BundleSent(p, g, o) => F!BundleSent(p, g, o)
  /\ Prophet!RemoveExpired => F!RemoveExpired
  /\ \A g, size : Prophet!BundleReceived(g, size) => F!BundleReceived(g, size)
  /\ Prophet!NotNow => F!NotNow
  /\ Prophet!LookAgain => F!LookAgain
  /\ \A p, g : /\ Prophet!SendBundle(p, g)
               /\ tries' \in
                    Prophet!Fewer(Prophet!More(Prophet!Cardinality(Prophet!StaleHits)))
               => F!Passes(p, g)
<1> USE DEF Prophet!ToSet, Prophet!Cardinality, Prophet!Min, Prophet!SumFunctionOnSet,
      Prophet!FoldFunctionOnSet, Prophet!MapThenFoldSet, Prophet!FoldSet,
      Prophet!RemoveFirst, Prophet!RemoveAt, Prophet!SelectInSeq, Prophet!Held,
      Prophet!Bytes, Prophet!Left, Prophet!Selected, Prophet!Fresh, Prophet!FreshBytes,
      Prophet!Hits, Prophet!Marked, Prophet!Late, Prophet!More, Prophet!Fewer,
      Prophet!Forget, Prophet!StillSending, Prophet!Open, Prophet!Dequeued, Prophet!CallOff,
      Prophet!HasRoom, Prophet!Stale, Prophet!StaleHits, Prophet!Without, Prophet!FreshLog,
      Prophet!RemoveExpiredEntries, Prophet!FewSent, Prophet!Idle, Prophet!NothingSent,
      F!ToSet, F!Cardinality, F!Min, F!SumFunctionOnSet, F!FoldFunctionOnSet,
      F!MapThenFoldSet, F!FoldSet, F!RemoveFirst, F!RemoveAt, F!SelectInSeq, F!Held,
      F!Bytes, F!Left, F!Selected, F!Fresh, F!FreshBytes, F!Hits, F!Marked, F!Late, F!More,
      F!Fewer, F!Forget, F!StillSending, F!Open, F!Dequeued, F!CallOff, F!HasRoom, F!Stale,
      F!StaleHits, F!Without, F!FreshLog, F!RemoveExpiredEntries, F!FewSent, F!Idle,
      F!NothingSent
<1>1. Prophet!Discard => F!Discard
  BY DEF Prophet!Discard, F!Discard
<1>2. Prophet!BundleQueued => F!BundleQueued
  BY DEF Prophet!BundleQueued, F!BundleQueued
<1>3. Prophet!BundleTransmissionFailed => F!BundleTransmissionFailed
  BY DEF Prophet!BundleTransmissionFailed, F!BundleTransmissionFailed
<1>4. Prophet!DoSendHello => F!DoSendHello
  BY DEF Prophet!DoSendHello, F!DoSendHello
<1>5. ASSUME NEW p, Prophet!CloseLink(p) PROVE F!CloseLink(p)
  BY <1>5 DEF Prophet!CloseLink, F!CloseLink
<1>6. ASSUME NEW p, Prophet!DiscoveredLink(p) PROVE F!DiscoveredLink(p)
  BY <1>6 DEF Prophet!DiscoveredLink, F!DiscoveredLink
<1>7. ASSUME NEW p, Prophet!UnPauseLink(p) PROVE F!UnPauseLink(p)
  BY <1>7 DEF Prophet!UnPauseLink, F!UnPauseLink
<1>8. ASSUME NEW g, Prophet!Expire(g) PROVE F!Expire(g)
  BY <1>8 DEF Prophet!Expire, F!Expire
<1>9. ASSUME NEW g, Prophet!LocalBundleDelivery(g) PROVE F!LocalBundleDelivery(g)
  BY <1>9 DEF Prophet!LocalBundleDelivery, F!LocalBundleDelivery, Prophet!KnownDelivered,
     F!KnownDelivered, Prophet!AcceptBundle, F!AcceptBundle, Prophet!RemoveEntriesFor,
     F!RemoveEntriesFor
<1>10. ASSUME NEW p, NEW g, NEW o, Prophet!BundleSent(p, g, o) PROVE F!BundleSent(p, g, o)
  BY <1>10 DEF Prophet!BundleSent, F!BundleSent, Prophet!LookOnceSent, F!LookOnceSent,
     Prophet!KnownDelivered, F!KnownDelivered, Prophet!RemoveEntriesFor, F!RemoveEntriesFor,
     Prophet!AddEntry, F!AddEntry
<1>11. Prophet!RemoveExpired => F!RemoveExpired
  BY DEF Prophet!RemoveExpired, F!RemoveExpired
<1>12. ASSUME NEW g, NEW size, Prophet!BundleReceived(g, size) PROVE F!BundleReceived(g, size)
  <2>1. Prophet!MakeRoomForBundle(size) = F!MakeRoomForBundle(size)
    BY DEF Prophet!MakeRoomForBundle, F!MakeRoomForBundle
  <2>2. ASSUME NEW r, Prophet!InsertBundle(g, size, r) PROVE F!InsertBundle(g, size, r)
    BY <2>2 DEF Prophet!InsertBundle, F!InsertBundle
  <2>3. Prophet!FewDrift(g, size) /\ Prophet!AcceptBundle(g, size)
          => F!FewDrift(g, size) /\ F!AcceptBundle(g, size)
    BY DEF Prophet!FewDrift, F!FewDrift, Prophet!Drift, F!Drift, Prophet!AcceptBundle,
       F!AcceptBundle
  <2> QED
    BY <1>12, <2>1, <2>2, <2>3 DEF Prophet!BundleReceived, F!BundleReceived, Prophet!ReceivedWith,
       F!ReceivedWith
<1>13. Prophet!NotNow => F!NotNow
  BY DEF Prophet!NotNow, F!NotNow
<1>14. Prophet!LookAgain => F!LookAgain
  BY DEF Prophet!LookAgain, F!LookAgain
<1>15. ASSUME NEW p, NEW g, Prophet!SendBundle(p, g),
             tries' \in Prophet!Fewer(Prophet!More(Prophet!Cardinality(Prophet!StaleHits)))
      PROVE  F!Passes(p, g)
  BY <1>15 DEF F!Passes, Prophet!SendBundle, F!SendBundle
<1> QED
  BY ONLY <1>1, <1>2, <1>3, <1>4, <1>5, <1>6, <1>7, <1>8, <1>9, <1>10, <1>11, <1>12, <1>13,
     <1>14, <1>15

(* The exchange of custody is what the common steps have of it. *)
LEMMA ProphetExchanges ==
  ASSUME NEW p, NEW g \in Bundle
  PROVE  /\ Prophet!CustodyAccepted(g) => F!Relaying
         /\ Prophet!AnswerOnly(p, g) => F!Relaying
         /\ Prophet!TakeCustody(p, g) => F!Relaying
         /\ Prophet!DeliverWithCustody(p, g) => F!Relaying
<1> USE DEF Prophet!ToSet, Prophet!Cardinality, Prophet!Min, Prophet!SumFunctionOnSet,
      Prophet!FoldFunctionOnSet, Prophet!MapThenFoldSet, Prophet!FoldSet,
      Prophet!RemoveFirst, Prophet!RemoveAt, Prophet!SelectInSeq, Prophet!Held,
      Prophet!Bytes, Prophet!Left, Prophet!Selected, Prophet!Fresh, Prophet!FreshBytes,
      Prophet!Hits, Prophet!Marked, Prophet!Late, Prophet!More, Prophet!Fewer,
      Prophet!Forget, Prophet!StillSending, Prophet!Open, Prophet!Dequeued, Prophet!CallOff,
      Prophet!HasRoom, Prophet!Stale, Prophet!StaleHits, Prophet!Without, Prophet!FreshLog,
      Prophet!RemoveExpiredEntries, Prophet!FewSent, Prophet!Idle, Prophet!NothingSent,
      F!ToSet, F!Cardinality, F!Min, F!SumFunctionOnSet, F!FoldFunctionOnSet,
      F!MapThenFoldSet, F!FoldSet, F!RemoveFirst, F!RemoveAt, F!SelectInSeq, F!Held,
      F!Bytes, F!Left, F!Selected, F!Fresh, F!FreshBytes, F!Hits, F!Marked, F!Late, F!More,
      F!Fewer, F!Forget, F!StillSending, F!Open, F!Dequeued, F!CallOff, F!HasRoom, F!Stale,
      F!StaleHits, F!Without, F!FreshLog, F!RemoveExpiredEntries, F!FewSent, F!Idle,
      F!NothingSent
<1>1. ASSUME Prophet!CustodyAccepted(g) PROVE F!Relaying
  <2>1. F!Deletes(F!Held \cap {g})
    BY <1>1 DEF Prophet!CustodyAccepted, Prophet!DeletedByAnswer, F!Deletes
  <2> QED BY ONLY <2>1 DEF F!Handles, F!Relaying
<1> DEFINE ans == Prophet!Answer(p, g)
<1>2. /\ ans = <<>> \/ \E e : ans = <<e>>
      /\ Prophet!Answers(p) <=> ans # <<>>
  BY DEF Prophet!Answer, Prophet!Answers
<1> HIDE DEF ans
<1>3. ASSUME Prophet!AnswerOnly(p, g) PROVE F!Relaying
  <2>1. F!Exchanges(ans, {})
    BY <1>2, <1>3 DEF Prophet!AnswerOnly, Prophet!SendAnswer, F!Exchanges, ans
  <2> QED BY ONLY <2>1 DEF F!Relaying
<1>4. ASSUME Prophet!TakeCustody(p, g) PROVE F!Relaying
  <2>1. F!Exchanges(ans, F!Stale)
    BY <1>2, <1>4
    DEF Prophet!TakeCustody, Prophet!SendAnswer, Prophet!AcceptBundle, F!Exchanges, ans
  <2> QED BY ONLY <2>1 DEF F!Relaying
<1>5. ASSUME Prophet!DeliverWithCustody(p, g) PROVE F!Relaying
  <2>1. F!Exchanges(ans, F!Held \cap kdm')
    BY <1>2, <1>5
    DEF Prophet!DeliverWithCustody, Prophet!SendAnswer, Prophet!KnownDelivered, F!Exchanges, ans
  <2> QED BY ONLY <2>1 DEF F!Relaying
<1> QED BY ONLY <1>1, <1>3, <1>4, <1>5

(* Whatever it does is such a step. *)
LEMMA ProphetRelays ==
  ASSUME F!BufferInv, Prophet!Next
  PROVE  F!Relaying
<1>1. CASE Prophet!TryToStartSending
  <2>1. /\ tries > 0 /\ Prophet!RemoveExpired /\ over' = over
        /\ \/ Prophet!NotNow \/ Prophet!LookAgain
           \/ \E p, g : /\ Prophet!SendBundle(p, g)
                        /\ tries' \in
                             Prophet!Fewer(Prophet!More(Prophet!Cardinality(Prophet!StaleHits)))
    BY <1>1 DEF Prophet!TryToStartSending, Prophet!DoSendBundle
  <2>2. F!Looks
    BY <2>1, ProphetSteps DEF F!Looks
  <2> QED BY <2>2 DEF F!Relaying
<1>2. CASE \/ Prophet!BundleQueued \/ Prophet!Discard \/ Prophet!BundleTransmissionFailed
           \/ Prophet!DoSendHello \/ \E g : Prophet!Expire(g)
           \/ \E p : Prophet!CloseLink(p) \/ Prophet!DiscoveredLink(p) \/ Prophet!UnPauseLink(p)
  BY <1>2, ProphetSteps DEF F!Handles, F!Relaying
<1>3. CASE Prophet!Retired \/ Prophet!PassedOn
  BY <1>3, ProphetSteps DEF Prophet!Retired, Prophet!PassedOn, F!Handles, F!Relaying
<1>4. CASE \E g \in Bundle : \/ Prophet!LocalBundleDelivery(g)
                            \/ \E size \in Comes[g] \cup {Size[g]} : Prophet!BundleReceived(g, size)
  BY <1>4, ProphetSteps, FAssumption, F!BundlesAreHandled DEF F!Relaying
<1>5. CASE \E g \in Bundle :
             \/ Prophet!CustodyAccepted(g)
             \/ \E p \in Mac : \/ Prophet!AlreadyDelivered(p, g) \/ Prophet!Refuse(p, g)
                              \/ Prophet!TakeCustody(p, g) \/ Prophet!DeliverWithCustody(p, g)
  BY <1>5, ProphetExchanges DEF Prophet!AlreadyDelivered, Prophet!Refuse
<1>6. CASE UNCHANGED Prophet!routerVars
  BY <1>6 DEF Prophet!routerVars, F!Relaying
<1> QED
  BY <1>1, <1>2, <1>3, <1>4, <1>5, <1>6
  DEF Prophet!Next, Prophet!TakenOver, Prophet!DoBundleSent, Prophet!PauseLink, Prophet!DoWipe,
      Prophet!ProbabilityReduce, Prophet!DoUnPauseLink, Prophet!DoLinkDiscovered,
      Prophet!DoLinkClosed, Prophet!DoHandleHello, Prophet!HeldAlready, Prophet!DoAcceptBundle,
      Prophet!DoBundleDelivered, Prophet!CustodyExchange, Prophet!CustodyRefused,
      Prophet!EraseCustodyHistoricalPending

-----------------------------------------------------------------------------

(* The trend of delivery router, in the same way, with a timer. *)
LEMMA TrendSteps ==
  /\ Trend!Discard => T!Discard
  /\ Trend!BundleQueued => T!BundleQueued
  /\ Trend!BundleTransmissionFailed => T!BundleTransmissionFailed
  /\ Trend!DoSendHello => T!DoSendHello
  /\ \A p : Trend!CloseLink(p) => T!CloseLink(p)
  /\ \A p : Trend!DiscoveredLink(p) => T!DiscoveredLink(p)
  /\ \A p : Trend!UnPauseLink(p) => T!UnPauseLink(p)
  /\ \A g : Trend!Expire(g) => T!Expire(g)
  /\ \A g : Trend!LocalBundleDelivery(g) => T!LocalBundleDelivery(g)
  /\ \A p, g, o : Trend!BundleSent(p, g, o) => T!BundleSent(p, g, o)
  /\ Trend!RemoveExpired => T!RemoveExpired
  /\ \A g, size, rest : Trend!InsertBundle(g, size, rest) => T!InsertBundle(g, size, rest)
  /\ Trend!NothingSent => T!NothingSent
  /\ \A p, g : Trend!SendBundle(p, g) => T!SendBundle(p, g)
<1> USE DEF Trend!ToSet, Trend!Cardinality, Trend!Min, Trend!SumFunctionOnSet,
      Trend!FoldFunctionOnSet, Trend!MapThenFoldSet, Trend!FoldSet, Trend!RemoveFirst,
      Trend!RemoveAt, Trend!SelectInSeq, Trend!Held, Trend!Bytes, Trend!Left,
      Trend!Selected, Trend!Fresh, Trend!FreshBytes, Trend!Hits, Trend!Marked, Trend!Late,
      Trend!More, Trend!Fewer, Trend!Forget, Trend!StillSending, Trend!Open, Trend!Dequeued,
      Trend!CallOff, Trend!HasRoom, Trend!Stale, Trend!StaleHits, Trend!Without,
      Trend!FreshLog, Trend!RemoveExpiredEntries, Trend!FewSent, Trend!Idle,
      Trend!NothingSent, T!ToSet, T!Cardinality, T!Min, T!SumFunctionOnSet,
      T!FoldFunctionOnSet, T!MapThenFoldSet, T!FoldSet, T!RemoveFirst, T!RemoveAt,
      T!SelectInSeq, T!Held, T!Bytes, T!Left, T!Selected, T!Fresh, T!FreshBytes, T!Hits,
      T!Marked, T!Late, T!More, T!Fewer, T!Forget, T!StillSending, T!Open, T!Dequeued,
      T!CallOff, T!HasRoom, T!Stale, T!StaleHits, T!Without, T!FreshLog,
      T!RemoveExpiredEntries, T!FewSent, T!Idle, T!NothingSent
<1>1. Trend!Discard => T!Discard
  BY DEF Trend!Discard, T!Discard
<1>2. Trend!BundleQueued => T!BundleQueued
  BY DEF Trend!BundleQueued, T!BundleQueued
<1>3. Trend!BundleTransmissionFailed => T!BundleTransmissionFailed
  BY DEF Trend!BundleTransmissionFailed, T!BundleTransmissionFailed
<1>4. Trend!DoSendHello => T!DoSendHello
  BY DEF Trend!DoSendHello, T!DoSendHello
<1>5. ASSUME NEW p, Trend!CloseLink(p) PROVE T!CloseLink(p)
  BY <1>5 DEF Trend!CloseLink, T!CloseLink
<1>6. ASSUME NEW p, Trend!DiscoveredLink(p) PROVE T!DiscoveredLink(p)
  BY <1>6 DEF Trend!DiscoveredLink, T!DiscoveredLink
<1>7. ASSUME NEW p, Trend!UnPauseLink(p) PROVE T!UnPauseLink(p)
  BY <1>7 DEF Trend!UnPauseLink, T!UnPauseLink
<1>8. ASSUME NEW g, Trend!Expire(g) PROVE T!Expire(g)
  BY <1>8 DEF Trend!Expire, T!Expire
<1>9. ASSUME NEW g, Trend!LocalBundleDelivery(g) PROVE T!LocalBundleDelivery(g)
  BY <1>9 DEF Trend!LocalBundleDelivery, T!LocalBundleDelivery, Trend!KnownDelivered,
     T!KnownDelivered, Trend!AcceptBundle, T!AcceptBundle, Trend!RemoveEntriesFor,
     T!RemoveEntriesFor
<1>10. ASSUME NEW p, NEW g, NEW o, Trend!BundleSent(p, g, o) PROVE T!BundleSent(p, g, o)
  BY <1>10 DEF Trend!BundleSent, T!BundleSent, Trend!LookOnceSent, T!LookOnceSent,
     Trend!KnownDelivered, T!KnownDelivered, Trend!RemoveEntriesFor, T!RemoveEntriesFor,
     Trend!AddEntry, T!AddEntry
<1>11. Trend!RemoveExpired => T!RemoveExpired
  BY DEF Trend!RemoveExpired, T!RemoveExpired
<1>12. ASSUME NEW g, NEW size, NEW rest, Trend!InsertBundle(g, size, rest)
       PROVE  T!InsertBundle(g, size, rest)
  BY <1>12 DEF Trend!InsertBundle, T!InsertBundle
<1>13. Trend!NothingSent => T!NothingSent
  BY DEF Trend!NothingSent, T!NothingSent
<1>14. ASSUME NEW p, NEW g, Trend!SendBundle(p, g) PROVE T!SendBundle(p, g)
  BY <1>14 DEF Trend!SendBundle, T!SendBundle
<1> QED
  BY ONLY <1>1, <1>2, <1>3, <1>4, <1>5, <1>6, <1>7, <1>8, <1>9, <1>10, <1>11, <1>12, <1>13,
     <1>14

(* The exchange of custody is what the common steps have of it. *)
LEMMA TrendExchanges ==
  ASSUME NEW p, NEW g \in Bundle
  PROVE  /\ Trend!CustodyAccepted(g) => T!Relaying
         /\ Trend!AnswerOnly(p, g) => T!Relaying
         /\ Trend!TakeCustody(p, g) => T!Relaying
         /\ Trend!DeliverWithCustody(p, g) => T!Relaying
<1> USE DEF Trend!ToSet, Trend!Cardinality, Trend!Min, Trend!SumFunctionOnSet,
      Trend!FoldFunctionOnSet, Trend!MapThenFoldSet, Trend!FoldSet, Trend!RemoveFirst,
      Trend!RemoveAt, Trend!SelectInSeq, Trend!Held, Trend!Bytes, Trend!Left,
      Trend!Selected, Trend!Fresh, Trend!FreshBytes, Trend!Hits, Trend!Marked, Trend!Late,
      Trend!More, Trend!Fewer, Trend!Forget, Trend!StillSending, Trend!Open, Trend!Dequeued,
      Trend!CallOff, Trend!HasRoom, Trend!Stale, Trend!StaleHits, Trend!Without,
      Trend!FreshLog, Trend!RemoveExpiredEntries, Trend!FewSent, Trend!Idle,
      Trend!NothingSent, T!ToSet, T!Cardinality, T!Min, T!SumFunctionOnSet,
      T!FoldFunctionOnSet, T!MapThenFoldSet, T!FoldSet, T!RemoveFirst, T!RemoveAt,
      T!SelectInSeq, T!Held, T!Bytes, T!Left, T!Selected, T!Fresh, T!FreshBytes, T!Hits,
      T!Marked, T!Late, T!More, T!Fewer, T!Forget, T!StillSending, T!Open, T!Dequeued,
      T!CallOff, T!HasRoom, T!Stale, T!StaleHits, T!Without, T!FreshLog,
      T!RemoveExpiredEntries, T!FewSent, T!Idle, T!NothingSent
<1>1. ASSUME Trend!CustodyAccepted(g) PROVE T!Relaying
  <2>1. T!Deletes(T!Held \cap {g})
    BY <1>1 DEF Trend!CustodyAccepted, Trend!DeletedByAnswer, T!Deletes
  <2> QED BY ONLY <2>1 DEF T!Handles, T!Relaying
<1> DEFINE ans == Trend!Answer(p, g)
<1>2. /\ ans = <<>> \/ \E e : ans = <<e>>
      /\ Trend!Answers(p) <=> ans # <<>>
  BY DEF Trend!Answer, Trend!Answers
<1> HIDE DEF ans
<1>3. ASSUME Trend!AnswerOnly(p, g) PROVE T!Relaying
  <2>1. T!Exchanges(ans, {})
    BY <1>2, <1>3 DEF Trend!AnswerOnly, Trend!SendAnswer, T!Exchanges, ans
  <2> QED BY ONLY <2>1 DEF T!Relaying
<1>4. ASSUME Trend!TakeCustody(p, g) PROVE T!Relaying
  <2>1. T!Exchanges(ans, T!Stale)
    BY <1>2, <1>4
    DEF Trend!TakeCustody, Trend!SendAnswer, Trend!AcceptBundle, T!Exchanges, ans
  <2> QED BY ONLY <2>1 DEF T!Relaying
<1>5. ASSUME Trend!DeliverWithCustody(p, g) PROVE T!Relaying
  <2>1. T!Exchanges(ans, T!Held \cap kdm')
    BY <1>2, <1>5
    DEF Trend!DeliverWithCustody, Trend!SendAnswer, Trend!KnownDelivered, T!Exchanges, ans
  <2> QED BY ONLY <2>1 DEF T!Relaying
<1> QED BY ONLY <1>1, <1>3, <1>4, <1>5

(* What it makes room for is put in with some of what is held. *)
LEMMA RoomIsMadeByTrend ==
  ASSUME T!BufferInv, NEW g \in Bundle, NEW size \in Comes[g] \cup {Size[g]},
         Trend!InsertCopy(g, size)
  PROVE  T!Relaying
<1>1. PICK rest \in Trend!RoomMade(size) : Trend!ReceivedWith(g, size, rest)
  BY DEF Trend!InsertCopy
<1>2. \A gone : Trend!Left(gone) = T!Left(gone)
  BY DEF Trend!Left, T!Left, Trend!Selected, T!Selected, Trend!Held, T!Held, Trend!ToSet, T!ToSet,
         Trend!SelectInSeq, T!SelectInSeq
<1>3. \E gone : rest = T!Left(gone)
  BY <1>2 DEF Trend!RoomMade, Trend!Fresh
<1>4. rest \in Seq(Bundle) /\ T!IsInjective(rest) /\ T!ToSet(rest) \subseteq T!Held
  BY <1>3, TAssumption, T!WhatIsLeft
<1>5. Trend!InsertBundle(g, size, rest) /\ over' = over /\ g \notin T!Held
  BY <1>1 DEF Trend!ReceivedWith, Trend!AcceptBundle, Trend!Held, Trend!ToSet, T!Held, T!ToSet
<1>6. T!Inserts(g, size, rest)
  BY <1>4, <1>5, TrendSteps DEF T!Inserts
<1> QED BY <1>6 DEF T!Handles, T!Relaying

(* Whatever it does is such a step. *)
LEMMA TrendRelays ==
  ASSUME T!BufferInv, Trend!Next
  PROVE  T!Relaying
<1>1. CASE Trend!TryToStartSending
  <2>1. /\ tries > 0 /\ tries' = tries /\ Trend!RemoveExpired /\ over' = over
        /\ Trend!NothingSent \/ \E p, g : Trend!SendBundle(p, g)
    BY <1>1 DEF Trend!TryToStartSending, Trend!NextLook, Trend!Nothing, Trend!SendDirect,
                Trend!SendByTrend, Trend!CopyTo, Trend!ForwardTo
  <2>2. T!Looks
    BY <2>1, TrendSteps DEF T!Looks
  <2> QED BY <2>2 DEF T!Relaying
<1>2. CASE \/ Trend!BundleQueued \/ Trend!Discard \/ Trend!BundleTransmissionFailed
           \/ Trend!DoSendHello \/ \E g : Trend!Expire(g)
           \/ \E p : Trend!CloseLink(p) \/ Trend!DiscoveredLink(p) \/ Trend!UnPauseLink(p)
  BY <1>2, TrendSteps DEF T!Handles, T!Relaying
<1>3. CASE Trend!Retired \/ Trend!PassedOn
  BY <1>3, TrendSteps DEF Trend!Retired, Trend!PassedOn, T!Handles, T!Relaying
<1>4. CASE \E g \in Bundle : Trend!LocalBundleDelivery(g)
  BY <1>4, TrendSteps, TAssumption, T!BundlesAreHandled DEF T!Relaying
<1>5. CASE \E g \in Bundle :
             \/ Trend!CustodyAccepted(g)
             \/ \E p \in Mac : \/ Trend!AlreadyDelivered(p, g) \/ Trend!Refuse(p, g)
                              \/ Trend!HeldAlready(p, g)
                              \/ Trend!TakeCustody(p, g) \/ Trend!DeliverWithCustody(p, g)
  BY <1>5, TrendExchanges DEF Trend!AlreadyDelivered, Trend!Refuse, Trend!HeldAlready
<1>6. CASE \E g \in Bundle : \E size \in Comes[g] \cup {Size[g]} : Trend!InsertCopy(g, size)
  BY <1>6, RoomIsMadeByTrend
<1>7. CASE UNCHANGED Trend!routerVars
  BY <1>7 DEF Trend!routerVars, T!Relaying
<1> QED
  BY <1>1, <1>2, <1>3, <1>4, <1>5, <1>6, <1>7
  DEF Trend!Next, Trend!TakenOver, Trend!DoBundleSent, Trend!PauseLink, Trend!DoWipe,
      Trend!DoUnPauseLink, Trend!DoLinkDiscovered, Trend!DoLinkClosed, Trend!AddNeigh,
      Trend!DoAcceptBundle, Trend!DoBundleDelivered, Trend!AddToList, Trend!CustodyExchange,
      Trend!CustodyRefused, Trend!EraseCustodyHistoricalPending

-----------------------------------------------------------------------------

(* A router that looks for work when told to has a look due; the one with  *)
(* a timer has its timer running.                                          *)
IInv ==
  /\ F!WaitInv /\ F!BufferInv
  /\ scene.router \in {"epidemic", "spray", "prophet", "trend"}
  /\ IF scene.router = "trend" THEN tries = 1 ELSE F!DueInv

(* It is the same whether the router has a timer. *)
LEMMA SameInvariants == (T!WaitInv <=> F!WaitInv) /\ (T!BufferInv <=> F!BufferInv)
<1>1. T!WaitInv <=> F!WaitInv
  BY DEF T!WaitInv, F!WaitInv, T!Reported, F!Reported, T!IsSeq, F!IsSeq, T!Awaited, F!Awaited
<1>2. T!BufferInv <=> F!BufferInv
  BY DEF T!BufferInv, F!BufferInv, T!Booked, F!Booked, T!IsInjective, F!IsInjective
<1> QED BY <1>1, <1>2

(* What the counters may do in a step is the same for all of them, too. *)
LEMMA SameCounting ==
  /\ F!CountedRight => Prophet!CountedRight
  /\ T!CountedRight => Prophet!CountedRight
<1> USE DEF Prophet!ToSet, Prophet!SumFunctionOnSet, Prophet!FoldFunctionOnSet,
      Prophet!MapThenFoldSet, Prophet!Held, Prophet!Bytes, Prophet!Drift, Prophet!IsInjective
<1>1. F!CountedRight => Prophet!CountedRight
  BY DEF F!CountedRight, Prophet!CountedRight, F!ToSet, F!SumFunctionOnSet,
         F!FoldFunctionOnSet, F!MapThenFoldSet, F!Held, F!Bytes, F!Drift, F!IsInjective
<1>2. T!CountedRight => Prophet!CountedRight
  BY DEF T!CountedRight, Prophet!CountedRight, T!ToSet, T!SumFunctionOnSet,
         T!FoldFunctionOnSet, T!MapThenFoldSet, T!Held, T!Bytes, T!Drift, T!IsInjective
<1> QED BY <1>1, <1>2

LEMMA InitHolds == Init => IInv
<1> SUFFICES ASSUME Init PROVE IInv
  OBVIOUS
<1>1. scene.router \in {"epidemic", "spray", "prophet", "trend"}
  BY RelaysAssumption DEF RelaysAssumption, Init
<1>2. CASE scene.router # "trend"
  <2>1. F!Init
    BY <1>1, <1>2 DEF Init, Epidemic!Init, Spray!Init, Prophet!Init, Prophet!CustodyInit,
       Epidemic!RelayInit, Spray!RelayInit, Prophet!RelayInit, F!Init, F!RelayInit,
       Epidemic!RouterInit, Spray!RouterInit, Prophet!RouterInit, F!RouterInit
  <2>2. F!IInv /\ F!DueInv
    BY <2>1, FAssumption, F!InitHolds
  <2> QED BY <1>1, <1>2, <2>2 DEF IInv, F!IInv
<1>3. CASE scene.router = "trend"
  <2>1. T!Init /\ tries = 1
    BY <1>3 DEF Init, Trend!Init, Trend!CustodyInit, Trend!RelayInit, Trend!RouterInit,
       T!Init, T!RelayInit, T!RouterInit
  <2>2. T!IInv
    BY <2>1, TAssumption, T!InitHolds
  <2> QED BY <1>3, <2>1, <2>2, SameInvariants DEF IInv, T!IInv
<1> QED BY <1>2, <1>3

LEMMA Inductive == IInv /\ [Next]_vars => IInv' /\ [Prophet!CountedRight]_(Prophet!routerVars)
<1> SUFFICES ASSUME IInv, [Next]_vars
             PROVE  IInv' /\ [Prophet!CountedRight]_(Prophet!routerVars)
  OBVIOUS
<1>1. CASE /\ scene.router # "trend" /\ scene' = scene
           /\ Epidemic!Next \/ Spray!Next \/ Prophet!Next
  <2>1. F!Relaying
    BY <1>1, EpidemicRelays, SprayRelays, ProphetRelays DEF IInv
  <2>2. F!WaitInv' /\ F!BufferInv' /\ F!DueInv' /\ F!CountedRight
    BY <1>1, <2>1, FAssumption, F!RelayingKeeps DEF IInv
  <2> QED BY <1>1, <2>2, SameCounting DEF IInv
<1>2. CASE scene.router = "trend" /\ scene' = scene /\ Trend!Next
  <2>1. T!WaitInv /\ T!BufferInv
    BY SameInvariants DEF IInv
  <2>2. T!WaitInv' /\ T!BufferInv' /\ tries' = tries /\ T!CountedRight
    BY <1>2, <2>1, TrendRelays, TAssumption, T!RelayingKeeps
  <2>3. F!WaitInv' /\ F!BufferInv'
    BY <2>2, SameInvariants, PTL
  <2> QED BY <1>2, <2>2, <2>3, SameCounting DEF IInv
<1>3. CASE UNCHANGED vars
  <2>1. UNCHANGED <<scene, Prophet!routerVars>>
    BY <1>3 DEF vars, Trend!vars, Trend!routerVars, Prophet!routerVars
  <2> QED BY <2>1 DEF Prophet!routerVars, IInv, F!WaitInv, F!BufferInv, F!DueInv
<1> QED BY <1>1, <1>2, <1>3 DEF Next

LEMMA Invariance == Spec => []IInv
BY InitHolds, Inductive, PTL DEF Spec

-----------------------------------------------------------------------------

(* Whichever router a node has, the counters of its buffer move with the   *)
(* list until the last hello, and never pass the maximum: what an answer   *)
(* of the custody exchange deletes, or a bundle taken over with an answer  *)
(* puts in, is booked as anything is.  Counter and list move apart only    *)
(* when a bundle comes in, by what it grew after it was counted.           *)
THEOREM BooksAreKept == Spec => Accounted
<1>1. IInv /\ [Next]_vars => [Prophet!CountedRight]_(Prophet!routerVars)
  BY Inductive
<1> QED BY <1>1, Invariance, PTL DEF Spec, Accounted, Prophet!Accounted

(* Whichever router a node has, it never waits for a report that will not  *)
(* come, be it for an answer of the custody exchange that it took for the  *)
(* sending of a bundle.                                                    *)
THEOREM NeverWaitsInVain == Spec => []SendingEndsInReport
<1>1. IInv => SendingEndsInReport
  BY DEF IInv, F!WaitInv, F!Reported, F!Awaited, SendingEndsInReport,
         Prophet!SendingEndsInReport
<1> QED BY <1>1, Invariance, PTL

(* Whichever router a node has, a look is due while it is not sending and  *)
(* has a bundle for a connected peer; and the timer of the trend of        *)
(* delivery router is set once, always.                                    *)
THEOREM LooksAreDue == Spec => []LookIsDue
<1>1. IInv => LookIsDue
  <2> SUFFICES ASSUME IInv PROVE LookIsDue
    OBVIOUS
  <2>1. bundleList = <<>> => Epidemic!Ready(bundleList, forwardLog) = {}
    BY DEF Epidemic!Ready, Epidemic!AllBundlesForLink
  <2>2. bundleList = <<>> => Spray!Ready(bundleList, forwardLog) = {}
    <3>1. ASSUME bundleList = <<>>, NEW p
          PROVE  Spray!AllBundlesForLink(p, bundleList, forwardLog) = {}
      <4>1. DOMAIN bundleList = {}
        BY <3>1
      <4> QED BY <4>1 DEF Spray!AllBundlesForLink, Spray!Direct, Spray!Sprayable
    <3> QED BY <3>1 DEF Spray!Ready
  <2>3. bundleList = <<>> => Prophet!Sendable(bundleList, forwardLog) = {}
    <3>1. bundleList = <<>> => Prophet!Listed(bundleList, forwardLog) = {}
      BY DEF Prophet!Listed, Prophet!AllBundlesForLink
    <3> QED BY <3>1 DEF Prophet!Sendable
  <2> QED BY <2>1, <2>2, <2>3 DEF IInv, F!DueInv, LookIsDue, Epidemic!LookIsDue, Spray!LookIsDue,
                            Prophet!LookIsDue, Trend!LookIsDue
<1> QED BY <1>1, Invariance, PTL

-----------------------------------------------------------------------------
(* The inference of the trend router *)

(* A quotient of natural numbers is one, and positive if they are in order. *)
LEMMA Quotient ==
  ASSUME NEW n \in Nat, NEW d \in Nat, 0 < d
  PROVE  n \div d \in Nat /\ (d <= n => 0 < n \div d)
OBVIOUS

(* It is at most m if the first is at most m times the second.             *)
LEMMA SmallQuotient ==
  ASSUME NEW n \in Nat, NEW d \in Nat, 0 < d, NEW m \in Nat, n <= d * m
  PROVE  n \div d <= m
<1> DEFINE q == n \div d
<1>1. q \in Nat /\ d * q <= n
  OBVIOUS
<1> HIDE DEF q
<1>2. ~(m + 1 <= q)
  <2> SUFFICES ASSUME m + 1 <= q PROVE FALSE
    OBVIOUS
  <2>1. d * (m + 1) <= d * q
    BY <1>1
  <2>2. d * (m + 1) = d * m + d
    OBVIOUS
  <2>3. d * m \in Nat /\ d * q \in Nat
    BY <1>1
  <2> QED BY <1>1, <2>1, <2>2, <2>3
<1>3. q <= m
  BY <1>1, <1>2
<1> QED BY <1>3 DEF q

(* All that is asked of the unit: no side of a triangle is wider.          *)
LEMMA Units == Unit \in Nat /\ 720 <= Unit
BY SMT DEF Unit

(* A degree of membership is a natural number,                             *)
LEMMA TriangleIsNat ==
  ASSUME NEW a \in Int, NEW b \in Int, NEW c \in Int, NEW x \in Int
  PROVE  Triangle(a, b, c, x) \in Nat
<1>1. CASE a < x /\ x <= b
  <2>1. (x - a) * Unit \in Nat /\ b - a \in Nat /\ 0 < b - a
    BY <1>1, SMT DEF Unit
  <2> QED BY <1>1, <2>1, Quotient DEF Triangle
<1>2. CASE ~(a < x /\ x <= b) /\ b < x /\ x < c
  <2>1. (c - x) * Unit \in Nat /\ c - b \in Nat /\ 0 < c - b
    BY <1>2, SMT DEF Unit
  <2> QED BY <1>2, <2>1, Quotient DEF Triangle
<1> QED BY <1>1, <1>2 DEF Triangle

(* It is positive between the first corner and the second,                 *)
LEMMA TriangleRises ==
  ASSUME NEW a \in Int, NEW b \in Int, NEW c \in Int, NEW x \in Int,
         a < x, x <= b, b - a <= Unit
  PROVE  0 < Triangle(a, b, c, x)
<1>1. (x - a) * Unit \in Nat /\ b - a \in Nat /\ 0 < b - a /\ b - a <= (x - a) * Unit
  BY SMT DEF Unit
<1> QED BY <1>1, Quotient DEF Triangle

(* and between the second and the third.                                   *)
LEMMA TriangleFalls ==
  ASSUME NEW a \in Int, NEW b \in Int, NEW c \in Int, NEW x \in Int,
         b < x, x < c, c - b <= Unit
  PROVE  0 < Triangle(a, b, c, x)
<1>1. (c - x) * Unit \in Nat /\ c - b \in Nat /\ 0 < c - b /\ c - b <= (c - x) * Unit
  BY SMT DEF Unit
<1> QED BY <1>1, Quotient DEF Triangle

(* The degrees of membership.                                              *)
Membership == 0..Unit

(* and at most one unit.                                                   *)
LEMMA TriangleIsBounded ==
  ASSUME NEW a \in Int, NEW b \in Int, NEW c \in Int, NEW x \in Int
  PROVE  Triangle(a, b, c, x) \in Membership
<1>1. Triangle(a, b, c, x) <= Unit
  <2>1. CASE a < x /\ x <= b
    <3>1. /\ (x - a) * Unit \in Nat /\ b - a \in Nat /\ 0 < b - a
          /\ (x - a) * Unit <= (b - a) * Unit
      BY <2>1, SMT DEF Unit
    <3>2. ((x - a) * Unit) \div (b - a) <= Unit
      BY <3>1, Units, SmallQuotient
    <3> QED BY <2>1, <3>2 DEF Triangle
  <2>2. CASE ~(a < x /\ x <= b) /\ b < x /\ x < c
    <3>1. /\ (c - x) * Unit \in Nat /\ c - b \in Nat /\ 0 < c - b
          /\ (c - x) * Unit <= (c - b) * Unit
      BY <2>2, SMT DEF Unit
    <3>2. ((c - x) * Unit) \div (c - b) <= Unit
      BY <3>1, Units, SmallQuotient
    <3> QED BY <2>2, <3>2 DEF Triangle
  <2>3. CASE ~(a < x /\ x <= b) /\ ~(b < x /\ x < c)
    BY <2>3, Units DEF Triangle
  <2> QED BY <2>1, <2>2, <2>3
<1> QED BY <1>1, Units, TriangleIsNat DEF Membership

(* What the rules are asked of. *)
Span == 2..180 \cup {360}

Course == 0..179

Way == 0..1050

Pace == 1..199

(* The names of what they are told to be.                                  *)
Directions == {"otimo", "bom", "ruim", "pessimo"}

Ranges == {"muito_perto", "perto", "longe", "muito_longe"}

Speeds == {"alta", "media", "baixa"}

(* Every course is in some direction, but where two of them touch.  The    *)
(* last course is always in the worst, however narrow it is.               *)
LEMMA Directed ==
  ASSUME NEW t \in Span, NEW x \in Course
  PROVE  /\ Sentido(t, x) \in [Directions -> Membership]
         /\ x \notin {t, 180 - t} \/ x = 179 => \E s \in Directions : 0 < Sentido(t, x)[s]
<1> DEFINE y == 2 * x
           left == -2 * t
           right == 2 * t
           peak == 90 - t
           low == 180 - t
           end == 360 - 2 * t
           far == 360 + 2 * t
<1>1. /\ Sentido(t, x).otimo = Triangle(left, 0, right, y)
      /\ Sentido(t, x).bom = Triangle(right, peak, 180, y)
      /\ Sentido(t, x).ruim = Triangle(180, low, end, y)
      /\ Sentido(t, x).pessimo = Triangle(end, 360, far, y)
      /\ Sentido(t, x) = [s \in Directions |-> Sentido(t, x)[s]]
  BY DEF Sentido, Directions
<1>2. /\ t \in Int /\ x \in Int /\ 2 <= t /\ t <= 360 /\ 0 <= x /\ x <= 179
      /\ t <= 180 \/ t = 360
      /\ left \in Int /\ right \in Int /\ peak \in Int /\ low \in Int
      /\ end \in Int /\ far \in Int /\ y \in Int
      /\ left + right = 0 /\ right = 2 * t /\ peak + t = 90 /\ low + t = 180
      /\ end + right = 360 /\ far = 360 + right /\ y = 2 * x
  BY DEF Span, Course
<1> HIDE DEF y, left, right, peak, low, end, far
<1>3. \A s \in Directions : Sentido(t, x)[s] \in Membership
  <2>1. /\ Triangle(left, 0, right, y) \in Membership
        /\ Triangle(right, peak, 180, y) \in Membership
        /\ Triangle(180, low, end, y) \in Membership /\ Triangle(end, 360, far, y) \in Membership
    BY <1>2, TriangleIsBounded
  <2> QED BY <1>1, <2>1 DEF Directions
<1>4. Sentido(t, x) \in [Directions -> Membership]
  BY <1>1, <1>3
<1>5. ASSUME (x # t /\ x # low) \/ x = 179
      PROVE  \E s \in Directions : 0 < Sentido(t, x)[s]
  <2>1. CASE x = 0
    <3>1. 0 < Triangle(left, 0, right, y)
      BY <1>2, <2>1, TriangleRises, Units
    <3> QED BY <1>1, <3>1 DEF Directions
  <2>2. CASE 0 < x /\ x < t
    <3>1. 0 < Triangle(left, 0, right, y)
      BY <1>2, <2>2, TriangleFalls, Units
    <3> QED BY <1>1, <3>1 DEF Directions
  <2>3. CASE t < x /\ x < 90
    <3>1. CASE y <= peak
      <4>1. 0 < Triangle(right, peak, 180, y)
        BY <1>2, <2>3, <3>1, TriangleRises, Units
      <4> QED BY <1>1, <4>1 DEF Directions
    <3>2. CASE peak < y
      <4>1. 0 < Triangle(right, peak, 180, y)
        BY <1>2, <2>3, <3>2, TriangleFalls, Units
      <4> QED BY <1>1, <4>1 DEF Directions
    <3> QED BY <1>2, <3>1, <3>2
  <2>4. CASE t < x /\ 90 <= x /\ x < low
    <3>1. 0 < Triangle(180, low, end, y)
      BY <1>2, <2>4, TriangleFalls, Units
    <3> QED BY <1>1, <3>1 DEF Directions
  <2>5. CASE t <= 180 /\ low < x
    <3>1. 0 < Triangle(end, 360, far, y)
      BY <1>2, <2>5, TriangleRises, Units
    <3> QED BY <1>1, <3>1 DEF Directions
  <2> QED BY <1>2, <1>5, <2>1, <2>2, <2>3, <2>4, <2>5
<1> QED BY <1>4, <1>5 DEF low

(* Every distance is near or far.                                          *)
LEMMA Ranged ==
  ASSUME NEW x \in Way
  PROVE  /\ Distancia(x) \in [Ranges -> Membership]
         /\ \E s \in Ranges : 0 < Distancia(x)[s]
<1> USE DEF Way
<1>1. /\ Distancia(x).muito_perto = Triangle(-350, 0, 350, x)
      /\ Distancia(x).perto = Triangle(0, 350, 700, x)
      /\ Distancia(x).longe = Triangle(350, 700, 1050, x)
      /\ Distancia(x).muito_longe = Triangle(700, 1050, 1400, x)
      /\ Distancia(x) = [s \in Ranges |-> Distancia(x)[s]]
  BY DEF Distancia, Ranges
<1>2. \A s \in Ranges : Distancia(x)[s] \in Membership
  <2>1. /\ Triangle(-350, 0, 350, x) \in Membership /\ Triangle(0, 350, 700, x) \in Membership
        /\ Triangle(350, 700, 1050, x) \in Membership /\ Triangle(700, 1050, 1400, x) \in Membership
    BY TriangleIsBounded
  <2> QED BY <1>1, <2>1 DEF Ranges
<1>3. Distancia(x) \in [Ranges -> Membership]
  BY <1>1, <1>2
<1>4. CASE x = 0
  <2>1. 0 < Triangle(-350, 0, 350, x)
    BY <1>4, TriangleRises, Units
  <2> QED BY <1>1, <1>3, <2>1 DEF Ranges
<1>5. CASE 0 < x /\ x <= 350
  <2>1. 0 < Triangle(0, 350, 700, x)
    BY <1>5, TriangleRises, Units
  <2> QED BY <1>1, <1>3, <2>1 DEF Ranges
<1>6. CASE 350 < x /\ x <= 700
  <2>1. 0 < Triangle(350, 700, 1050, x)
    BY <1>6, TriangleRises, Units
  <2> QED BY <1>1, <1>3, <2>1 DEF Ranges
<1>7. CASE 700 < x
  <2>1. 0 < Triangle(700, 1050, 1400, x)
    BY <1>7, TriangleRises, Units
  <2> QED BY <1>1, <1>3, <2>1 DEF Ranges
<1> QED BY <1>4, <1>5, <1>6, <1>7

(* Every speed that the rules are asked of counts as low to some degree.   *)
LEMMA Moving ==
  ASSUME NEW x \in Pace
  PROVE  /\ Velocidade(x) \in [Speeds -> Membership]
         /\ 0 < Velocidade(x)["baixa"]
<1> USE DEF Pace
<1>1. /\ Velocidade(x).alta = Triangle(200, 300, 400, x)
      /\ Velocidade(x).media = Triangle(100, 200, 300, x)
      /\ Velocidade(x).baixa = Triangle(0, 100, 200, x)
      /\ Velocidade(x) = [s \in Speeds |-> Velocidade(x)[s]]
  BY DEF Velocidade, Speeds
<1>2. \A s \in Speeds : Velocidade(x)[s] \in Membership
  <2>1. /\ Triangle(200, 300, 400, x) \in Membership /\ Triangle(100, 200, 300, x) \in Membership
        /\ Triangle(0, 100, 200, x) \in Membership
    BY TriangleIsBounded
  <2> QED BY <1>1, <2>1 DEF Speeds
<1>3. Velocidade(x) \in [Speeds -> Membership]
  BY <1>1, <1>2
<1>4. CASE x <= 100
  <2>1. 0 < Triangle(0, 100, 200, x)
    BY <1>4, TriangleRises, Units
  <2> QED BY <1>1, <1>3, <2>1
<1>5. CASE 100 < x
  <2>1. 0 < Triangle(0, 100, 200, x)
    BY <1>5, TriangleFalls, Units
  <2> QED BY <1>1, <1>3, <2>1
<1> QED BY <1>3, <1>4, <1>5

(* All the rules.                                                          *)
RuleBase == MuitoPerto \cup Perto \cup Longe \cup MuitoLonge

(* A rule has a direction and a speed, and concludes what its column says. *)
LEMMA InRules ==
  ASSUME NEW far, NEW alta, NEW media, NEW baixa, NEW r
  PROVE  r \in Rules(far, alta, media, baixa) <=>
           \E s \in DOMAIN alta : \/ r = <<s, far, "alta", alta[s]>>
                                  \/ r = <<s, far, "media", media[s]>>
                                  \/ r = <<s, far, "baixa", baixa[s]>>
BY DEF Rules

(* So the rules of a range are of known names.                             *)
LEMMA RuleWellFormed ==
  ASSUME NEW far \in Ranges,
         NEW alta \in [Directions -> Conclusion], NEW media \in [Directions -> Conclusion],
         NEW baixa \in [Directions -> Conclusion], NEW r \in Rules(far, alta, media, baixa)
  PROVE  r[1] \in Directions /\ r[2] \in Ranges /\ r[3] \in Speeds /\ r[4] \in Conclusion
<1>1. PICK s \in Directions : \/ r = <<s, far, "alta", alta[s]>>
                              \/ r = <<s, far, "media", media[s]>>
                              \/ r = <<s, far, "baixa", baixa[s]>>
  <2>1. DOMAIN alta = Directions
    OBVIOUS
  <2> QED BY <2>1, InRules
<1>2. alta[s] \in Conclusion /\ media[s] \in Conclusion /\ baixa[s] \in Conclusion
  OBVIOUS
<1>3. \E sp \in Speeds, c \in Conclusion : r = <<s, far, sp, c>>
  BY <1>1, <1>2 DEF Speeds
<1> QED BY <1>3

(* A column has a conclusion for each direction.                           *)
LEMMA Columns ==
  ASSUME NEW a \in Conclusion, NEW b \in Conclusion, NEW c \in Conclusion, NEW d \in Conclusion
  PROVE  By(a, b, c, d) \in [Directions -> Conclusion]
<1>1. By(a, b, c, d) = [s \in Directions |-> By(a, b, c, d)[s]]
  BY DEF By, Directions
<1>2. \A s \in Directions : By(a, b, c, d)[s] \in Conclusion
  <2>1. \A s \in {"otimo", "bom", "ruim", "pessimo"} : By(a, b, c, d)[s] \in Conclusion
    BY DEF By
  <2> QED BY <2>1 DEF Directions
<1> QED BY <1>1, <1>2

(* The conclusions.                                                        *)
LEMMA ConclusionIs ==
  /\ 0 \in Conclusion /\ 1 \in Conclusion /\ 2 \in Conclusion /\ 3 \in Conclusion
  /\ 4 \in Conclusion /\ 5 \in Conclusion /\ 6 \in Conclusion
BY DEF Conclusion

(* All rules are of known names, the misprinted one included.              *)
LEMMA RulesWellFormed ==
  ASSUME NEW r \in RuleBase
  PROVE  r[1] \in Directions /\ r[2] \in Ranges /\ r[3] \in Speeds /\ r[4] \in Conclusion
<1>1. CASE r \in MuitoPerto
  <2>1. CASE r = <<"pessimo", "muito_longe", "alta", 6>>
    BY <2>1, ConclusionIs DEF Directions, Ranges, Speeds
  <2>2. CASE r \in Rules("muito_perto", By(6, 6, 6, 6), By(6, 6, 6, 6), By(6, 6, 6, 6))
    BY <2>2, RuleWellFormed, Columns, ConclusionIs DEF Ranges
  <2> QED BY <1>1, <2>1, <2>2 DEF MuitoPerto
<1>2. CASE r \in Perto
  BY <1>2, RuleWellFormed, Columns, ConclusionIs DEF Perto, Ranges
<1>3. CASE r \in Longe
  BY <1>3, RuleWellFormed, Columns, ConclusionIs DEF Longe, Ranges
<1>4. CASE r \in MuitoLonge
  BY <1>4, RuleWellFormed, Columns, ConclusionIs DEF MuitoLonge, Ranges
<1> QED BY <1>1, <1>2, <1>3, <1>4 DEF RuleBase

(* Each direction and range has a rule for a low speed: of the 48 only one *)
(* for a high speed is missing.                                            *)
LEMMA SlowRules ==
  ASSUME NEW s \in Directions, NEW d \in Ranges
  PROVE  \E c \in Conclusion : <<s, d, "baixa", c>> \in RuleBase
<1>1. ASSUME NEW alta \in [Directions -> Conclusion], NEW media,
             NEW baixa \in [Directions -> Conclusion]
      PROVE  \E c \in Conclusion : <<s, d, "baixa", c>> \in Rules(d, alta, media, baixa)
  <2>1. s \in DOMAIN alta
    OBVIOUS
  <2>2. <<s, d, "baixa", baixa[s]>> \in Rules(d, alta, media, baixa)
    BY <2>1, InRules
  <2>3. baixa[s] \in Conclusion
    OBVIOUS
  <2> QED BY <2>2, <2>3
<1>2. CASE d = "muito_perto"
  <2>1. \E c \in Conclusion : <<s, d, "baixa", c>>
          \in Rules("muito_perto", By(6, 6, 6, 6), By(6, 6, 6, 6), By(6, 6, 6, 6))
    BY <1>1, <1>2, Columns, ConclusionIs
  <2>2. \A c : <<s, d, "baixa", c>> # <<"pessimo", "muito_perto", "alta", 6>>
    OBVIOUS
  <2> QED BY <2>1, <2>2 DEF MuitoPerto, RuleBase
<1>3. CASE d = "perto"
  BY <1>1, <1>3, Columns, ConclusionIs DEF Perto, RuleBase
<1>4. CASE d = "longe"
  BY <1>1, <1>4, Columns, ConclusionIs DEF Longe, RuleBase
<1>5. CASE d = "muito_longe"
  BY <1>1, <1>5, Columns, ConclusionIs DEF MuitoLonge, RuleBase
<1> QED BY <1>2, <1>3, <1>4, <1>5 DEF Ranges

(* To which degree a rule fires.                                           *)
Grade(t, a, d, v, r) == Min({Sentido(t, a)[r[1]], Distancia(d)[r[2]], Velocidade(v)[r[3]]})

(* The least of three degrees is one, and positive if they are.            *)
LEMMA LeastOfThree ==
  ASSUME NEW x \in Membership, NEW y \in Membership, NEW z \in Membership
  PROVE  /\ Min({x, y, z}) \in Membership
         /\ 0 < x /\ 0 < y /\ 0 < z => 0 < Min({x, y, z})
<1>1. {x, y, z} \in SUBSET Nat /\ {x, y, z} # {}
  BY Units DEF Membership
<1>2. Min({x, y, z}) \in {x, y, z}
  BY <1>1, MinIsLeast
<1> QED BY <1>2

(* So a rule fires to some degree if its premises are all true to one.     *)
LEMMA Grades ==
  ASSUME NEW t \in Span, NEW a \in Course, NEW d \in Way, NEW v \in Pace,
         NEW r \in RuleBase
  PROVE  /\ Grade(t, a, d, v, r) \in Membership
         /\ (0 < Sentido(t, a)[r[1]] /\ 0 < Distancia(d)[r[2]] /\ 0 < Velocidade(v)[r[3]])
              => 0 < Grade(t, a, d, v, r)
<1>1. r[1] \in Directions /\ r[2] \in Ranges /\ r[3] \in Speeds
  BY RulesWellFormed
<1>2. /\ Sentido(t, a) \in [Directions -> Membership]
      /\ Distancia(d) \in [Ranges -> Membership]
      /\ Velocidade(v) \in [Speeds -> Membership]
  BY Directed, Ranged, Moving
<1>3. /\ Sentido(t, a)[r[1]] \in Membership /\ Distancia(d)[r[2]] \in Membership
      /\ Velocidade(v)[r[3]] \in Membership
  BY <1>1, <1>2
<1> QED BY <1>3, LeastOfThree DEF Grade

(* What a rule concludes holds at least to the degree to which it fires.   *)
LEMMA Concluded ==
  ASSUME NEW t \in Span, NEW a \in Course, NEW d \in Way, NEW v \in Pace,
         NEW r \in RuleBase
  PROVE  Grade(t, a, d, v, r) <= RulesTendencia(t, a, d, v)[r[4]]
<1> DEFINE c == r[4]
           Some == {Grade(t, a, d, v, k) : k \in {q \in RuleBase : q[4] = c}}
<1>1. c \in Conclusion
  BY RulesWellFormed
<1>2. RulesTendencia(t, a, d, v)[c] = Max(Some)
  <2>1. RulesTendencia(t, a, d, v)
          = [l \in Conclusion |-> Max({Grade(t, a, d, v, k) : k \in {q \in RuleBase : q[4] = l}})]
    BY DEF RulesTendencia, RuleBase, Grade
  <2> QED BY <1>1, <2>1
<1>3. Grade(t, a, d, v, r) \in Some
  OBVIOUS
<1>4. Some \subseteq Membership
  <2>1. \A k \in RuleBase : Grade(t, a, d, v, k) \in Membership
    BY Grades
  <2> QED BY <2>1
<1> HIDE DEF Some
<1>5. Some \in SUBSET Nat /\ Some # {} /\ \A n \in Some : n <= Unit
  BY <1>3, <1>4, Units DEF Membership
<1>6. \A n \in Some : n <= Max(Some)
  BY <1>5, Units, MaxIsGreatest
<1> QED BY <1>2, <1>3, <1>6

(* Therefore the rules conclude something.                                 *)
LEMMA Answered ==
  ASSUME NEW t \in Span, NEW a \in Course, a \notin {t, 180 - t} \/ a = 179,
         NEW d \in Way, NEW v \in Pace
  PROVE  \E c \in Conclusion : RulesTendencia(t, a, d, v)[c] # 0
<1>1. PICK s \in Directions : 0 < Sentido(t, a)[s]
  BY Directed
<1>2. PICK far \in Ranges : 0 < Distancia(d)[far]
  BY Ranged
<1>3. 0 < Velocidade(v)["baixa"]
  BY Moving
<1>4. PICK c \in Conclusion : <<s, far, "baixa", c>> \in RuleBase
  BY SlowRules
<1> DEFINE r == <<s, far, "baixa", c>>
<1>5. r \in RuleBase /\ r[1] = s /\ r[2] = far /\ r[3] = "baixa" /\ r[4] = c
  BY <1>4
<1> HIDE DEF r
<1>6. 0 < Grade(t, a, d, v, r) /\ Grade(t, a, d, v, r) \in Membership
  BY <1>1, <1>2, <1>3, <1>5, Grades
<1>7. Grade(t, a, d, v, r) <= RulesTendencia(t, a, d, v)[c]
  BY <1>5, Concluded
<1>8. RulesTendencia(t, a, d, v)[c] # 0
  BY <1>6, <1>7, Units DEF Membership
<1> QED BY <1>4, <1>8

(* What is asked is brought to where the rules hold.  A course beyond 179  *)
(* degrees, that of a node at rest included, becomes 179.                  *)
LEMMA FiredAnswers ==
  ASSUME NEW t \in Theta, NEW a \in Angle, NEW d \in Distance, NEW v \in Speed,
         NEW s \in Angles(a, d, v),
         \A c \in Conclusion : Fired(IF d = 0 THEN 360 ELSE t, s, d, v)[c] = 0
  PROVE  s \in {t, 180 - t, NaN}
<1>1. t \in 2..180 /\ a \in 0..180 /\ d \in Nat /\ v \in Nat
  BY PlacesAssumption
<1> SUFFICES ASSUME s # NaN, s # t, s # 180 - t PROVE FALSE
  OBVIOUS
<1> DEFINE u == IF d = 0 THEN 360 ELSE t
           x == AtMost(179, 179, s)
           e == AtMost(1050, 1049, d)
           w == ClampedSpeed(v)
<1>2. u \in Span
  BY <1>1 DEF Span
<1>3. s \in 0..180 \/ s = 360
  BY <1>1 DEF Angles
<1>4. x \in Course /\ (x = s \/ (x = 179 /\ 179 < s))
  BY <1>3 DEF AtMost, Course
<1>5. x \notin {u, 180 - u} \/ x = 179
  <2>1. CASE d = 0
    <3>1. s = 360
      BY <2>1 DEF Angles
    <3> QED BY <1>4, <3>1 DEF Course
  <2>2. CASE d # 0
    <3>1. u = t
      BY <2>2
    <3> QED BY <1>4, <3>1
  <2> QED BY <2>1, <2>2
<1>6. e \in Way
  BY <1>1 DEF AtMost, Way
<1>7. w \in Pace
  BY <1>1 DEF ClampedSpeed, AtMost, Pace
<1>8. Fired(u, s, d, v) = RulesTendencia(u, x, e, w)
  BY DEF Fired
<1> HIDE DEF u, x, e, w
<1>9. \E c \in Conclusion : Fired(u, s, d, v)[c] # 0
  BY <1>2, <1>4, <1>5, <1>6, <1>7, <1>8, Answered
<1> QED BY <1>9 DEF u

(* What was computed is of where the node is now.                          *)
FuzzyInv ==
  /\ theta \in Theta /\ angle \in Angle /\ distance \in Distance /\ speed \in Speed
  /\ seen \in Angles(angle, distance, speed)
  /\ degree = Fired(IF distance = 0 THEN 360 ELSE theta, seen, distance, speed)

(* Every move computes it anew.                                            *)
LEMMA FuzzyInvariance == FuzzySpec => []FuzzyInv
<1>1. FuzzyInit => FuzzyInv
  BY DEF FuzzyInit, FuzzyInv
<1>2. FuzzyInv /\ FuzzyNext => FuzzyInv'
  BY DEF FuzzyInv, FuzzyNext, Travel, Turn, ChangeSpeed, GetFuzzy, Beside
<1>3. FuzzyInv /\ UNCHANGED fuzzyVars => FuzzyInv'
  BY DEF FuzzyInv, fuzzyVars
<1> QED BY <1>1, <1>2, <1>3, PTL DEF FuzzySpec

(* The rules leave no place, course and speed without an answer, but where *)
(* two directions touch and where rounding undid the angle: for every span *)
(* of the range from 2 degrees on, every course, distance and speed.       *)
THEOREM AnswerOfRules == FuzzySpec => []RulesAnswer
<1>1. FuzzyInv => RulesAnswer
  BY FiredAnswers DEF FuzzyInv, RulesAnswer, NothingFires
<1> QED BY <1>1, FuzzyInvariance, PTL

=============================================================================
