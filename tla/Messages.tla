------------------------------ MODULE Messages ------------------------------
(***************************************************************************)
(* What is sent beside the bundles themselves: the headers of the          *)
(* convergence layer, the hellos, the administrative records and the       *)
(* router specific blocks.                                                 *)
(*                                                                         *)
(* A double is written as eight octets; which ones is IEEE 754's affair,   *)
(* and a double is a small number here.                                    *)
(***************************************************************************)
EXTENDS BundleFormat, Functions

-----------------------------------------------------------------------------
(* ConvergenceLayerHeader *)

ClaAck == 0
ClaSegment == 1

ClaSize(h) == IF h.type = ClaSegment THEN 7 ELSE 2

ClaFields(h) ==
  IF h.type = ClaSegment
  THEN <<<<"u8", h.type>>, <<"hton16", h.nSegments>>, <<"hton16", h.segmentNumber>>,
         <<"hton16", h.sequenceNumber>>>>
  ELSE <<<<"u8", h.type>>, <<"u8", h.response>>>>

ClaRead(bytes) ==
  IF bytes[1] = ClaSegment
  THEN LET v == ReadAll(Reader(bytes), <<"u8", "hton16", "hton16", "hton16">>).got
       IN  [type |-> ClaSegment, nSegments |-> v[2], segmentNumber |-> v[3],
            sequenceNumber |-> v[4], startFlag |-> v[3] = 1, endFlag |-> v[3] = v[2]]
  ELSE [type |-> bytes[1], response |-> bytes[2]]

-----------------------------------------------------------------------------
(* NeighHeader, the hello of the agent that detects neighbours *)

NeighSize == 8

NeighFields(eid) == <<<<"hton32", 4>>>> \o EidFields(eid)

NeighRead(bytes) == EidRead(ReadAll(Reader(bytes), <<"hton32", "u32">>).got[2])

(* ProphetHelloHeader: the sender with its probabilities, a function from  *)
(* the nodes that it knows, which are written in order.                    *)
ProphetHelloSize(h) == 12 + 16 * Cardinality(DOMAIN h.plist)

ProphetHelloFields(h) ==
  LET nodes == SetToSortSeq(DOMAIN h.plist, <)
  IN  <<<<"u32", 4>>>> \o EidFields(h.eid) \o <<<<"u32", Len(nodes)>>>>
      \o FlattenSeq([i \in DOMAIN nodes |->
           <<<<"u32", 4>>>> \o EidFields(nodes[i]) \o <<<<"double", h.plist[nodes[i]]>>>>])

ProphetHelloRead(bytes) ==
  LET r == ReadAll(Reader(bytes), <<"u32", "u32", "u32">>)
      types == FlattenSeq([j \in 1..r.got[3] |-> <<"u32", "u32", "double">>])
      v == ReadAll([r EXCEPT !.got = <<>>], types).got
      eid(j) == EidRead(v[3 * j - 1])
  IN  [eid |-> EidRead(r.got[2]),
       plist |-> [n \in {eid(j) : j \in 1..r.got[3]} |->
                    v[3 * CHOOSE j \in 1..r.got[3] : eid(j) = n]]]

(* NeighHello, of the trend of delivery router: where its sender is, how   *)
(* it moves and when it said so.                                           *)
NeighHelloSize == 4 + 4 + 32 + 8

NeighHelloFields(h) ==
  <<<<"hton32", 4>>>> \o EidFields(h.eid)
  \o <<<<"double", h.pos[1]>>, <<"double", h.pos[2]>>, <<"double", h.vel[1]>>,
       <<"double", h.vel[2]>>, <<"double", h.timeStamp>>>>

NeighHelloRead(bytes) ==
  LET v == ReadAll(Reader(bytes), <<"hton32", "u32", "double", "double", "double", "double",
                                    "double">>).got
  IN  [eid |-> EidRead(v[2]), pos |-> <<v[3], v[4]>>, vel |-> <<v[5], v[6]>>,
       timeStamp |-> v[7]]

-----------------------------------------------------------------------------
(* ContactWindowInformation.  It is given more room than it takes.         *)

CwiRoom == 57

CwiFields(c) ==
  <<<<"double", c.position[1]>>, <<"double", c.position[2]>>, <<"double", c.speed[1]>>,
    <<"double", c.speed[2]>>, <<"u32", c.range>>, <<"u32", c.dataRate>>,
    <<"u8", IF c.isInitiator THEN 1 ELSE 0>>>>

CwiRead(bytes) ==
  LET v == ReadAll(Reader(bytes), <<"double", "double", "double", "double", "u32", "u32",
                                    "u8">>).got
  IN  [position |-> <<v[1], v[2]>>, speed |-> <<v[3], v[4]>>, range |-> v[5],
       dataRate |-> v[6], isInitiator |-> v[7] # 0]

(* KnownDeliveredMessages: a function from the bundles to their lifetimes, *)
(* in the order of the map.                                                *)
TimestampBefore(s, t) == s.time < t.time \/ (s.time = t.time /\ s.sequence < t.sequence)

GbidBefore(g, h) ==
  IF g.source = h.source THEN TimestampBefore(g.timestamp, h.timestamp) ELSE g.source < h.source

(* Mutant: the lifetime is taken for four octets. *)
FixedPairSize(g, lifetime) == GbidSize(g) + 4

KdmPairSize(g, lifetime) == GbidSize(g) + EncodingLength(lifetime)

KdmSize(k) ==
  1 + EncodingLength(Cardinality(DOMAIN k.kdm))
  + FoldSet(LAMBDA g, sum : sum + KdmPairSize(g, k.kdm[g]), 0, DOMAIN k.kdm)

KdmFields(k) ==
  LET known == SetToSortSeq(DOMAIN k.kdm, GbidBefore)
  IN  <<<<"u8", IF k.isInitiator THEN 1 ELSE 0>>, <<"sdnv", Len(known)>>>>
      \o FlattenSeq([i \in DOMAIN known |->
           GbidFields(known[i]) \o <<<<"sdnv", k.kdm[known[i]]>>>>])

(* Insert does not put another lifetime in the place of the first.         *)
Insert(kdm, g, lifetime) == kdm @@ [h \in {g} |-> lifetime]

(* The next pair; the reader goes on behind as many octets as its size has. *)
PairRead(r) ==
  LET v == ReadAll([r EXCEPT !.got = <<>>], <<"u32", "sdnv", "sdnv", "sdnv">>).got
      g == GbidRead(SubSeq(v, 1, 3))
  IN  [Skip(r, KdmPairSize(g, v[4])) EXCEPT !.got = Append(@, <<g, v[4]>>)]

KdmRead(bytes) ==
  LET r == ReadAll(Reader(bytes), <<"u8", "sdnv">>)
      pairs == FoldLeft(LAMBDA s, j : PairRead(s), [r EXCEPT !.got = <<>>],
                        [j \in 1..r.got[2] |-> j]).got
  IN  [isInitiator |-> r.got[1] # 0,
       kdm |-> FoldLeft(LAMBDA kdm, p : Insert(kdm, p[1], p[2]), <<>>, pairs)]

-----------------------------------------------------------------------------
(* Administrative records.  The flag says whether the record is about a    *)
(* fragment.                                                               *)

BundleStatusReport == 1
CustodySignal == 2

RecordFields(s) == <<<<"sdnv", s.type>>, <<"sdnv", s.fragment>>>>

FragmentFields(s) ==
  IF s.fragment = 1
  THEN <<<<"sdnv", s.fragmentOffset>>, <<"sdnv", s.fragmentLength>>>>
  ELSE <<>>

FragmentSize(s) ==
  IF s.fragment = 1
  THEN EncodingLength(s.fragmentOffset) + EncodingLength(s.fragmentLength)
  ELSE 0

(* The end of both: when and by whom the bundle was made. *)
AboutFields(s) == TimestampFields(s.timestamp) \o <<<<"sdnv", 4>>>> \o EidFields(s.source)

SignalSize(s) == 2 + 1 + FragmentSize(s) + TimestampSize(s.timestamp) + 1 + 4

SignalFields(s) ==
  RecordFields(s) \o <<<<"u8", (IF s.succeeded THEN 128 ELSE 0) + s.reason>>>>
  \o FragmentFields(s) \o AboutFields(s)

(* A time is read as so many nanoseconds, which are no second: the reader  *)
(* goes on one octet further, however many it had.                         *)
TimeRead(r) == Skip(r, 1)

Fragment(r, isFragment) ==
  IF isFragment = 1 THEN ReadAll(r, <<"sdnv", "sdnv">>) ELSE [r EXCEPT !.got = @ \o <<0, 0>>]

About(r) ==
  LET v == ReadAll([r EXCEPT !.got = <<>>], <<"sdnv", "sdnv", "sdnv", "u32">>).got
  IN  [timestamp |-> [time |-> v[1], sequence |-> v[2]], source |-> EidRead(v[4])]

(* Deserialize reads a time of the signal that was never written, so that  *)
(* it takes what follows for something else.                               *)
SignalRead(bytes) ==
  LET r1 == ReadAll(Reader(bytes), <<"sdnv", "sdnv", "u8">>)
      r2 == Fragment(r1, r1.got[2])
  IN  [type |-> r1.got[1], fragment |-> r1.got[2], succeeded |-> r1.got[3] >= 128,
       reason |-> r1.got[3] % 128, fragmentOffset |-> r2.got[4],
       fragmentLength |-> r2.got[5], about |-> About(TimeRead(r2))]

(* A status report has a time for each flag set: received, accepted, ...   *)
(* The one of the deletion is overwritten by what comes next.              *)
BundleDeleted == 4

(* Neither when the bundle was made nor by whom is counted.                *)
ReportSize(s) ==
  2 + 2 + FragmentSize(s) + Cardinality(s.flags) * EncodingLength(s.when)

ReportFields(s) ==
  RecordFields(s) \o <<<<"u8", s.reason>>, <<"u8", Word(s.flags)>>>> \o FragmentFields(s)
  \o [i \in 1..Cardinality(s.flags \ {BundleDeleted}) |-> <<"sdnv", s.when>>]
  \o AboutFields(s)

ReportRead(bytes) ==
  LET r1 == ReadAll(Reader(bytes), <<"sdnv", "sdnv", "u8", "u8">>)
      flags == FlagsOf(r1.got[4])
      r2 == Fragment(r1, r1.got[2])
      r3 == FoldSet(LAMBDA f, r : TimeRead(r), r2, flags)
  IN  [type |-> r1.got[1], fragment |-> r1.got[2], reason |-> r1.got[3], flags |-> flags,
       fragmentOffset |-> r2.got[5], fragmentLength |-> r2.got[6], about |-> About(r3)]
=============================================================================
