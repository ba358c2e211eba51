------------------------------- MODULE MCWire -------------------------------
(***************************************************************************)
(* Two nodes, one with an id of more than an octet.  The clock passes from *)
(* second 127 to 128, and the numbers are such that their SDNVs grow.      *)
(***************************************************************************)
EXTENDS Wire

MCBegin == <<127, 999999998>>

MCRequest ==
  {[priority |-> "BULK", lifetime |-> 100, payload |-> <<>>, asked |-> {}],
   [priority |-> "NORMAL", lifetime |-> 128, payload |-> <<8, 1, 0>>,
    asked |-> {Flag.custodyTransferRequested, Flag.reportBundleDeletion}],
   [priority |-> "EXPEDITED", lifetime |-> 100, payload |-> <<8>>,
    asked |-> {Flag.reportBundleReception}]}

Stamps == {[time |-> 127, sequence |-> 128], [time |-> 128, sequence |-> 0]}

MCGbids == [source : {0, 300}, timestamp : Stamps]

Records(type) ==
  [type : {type}, fragment : {0}, fragmentOffset : {0}, fragmentLength : {0},
   reason : {0, 3}, timestamp : Stamps, source : {0, 300}]
  \cup [type : {type}, fragment : {1}, fragmentOffset : {0, 200}, fragmentLength : {128},
        reason : {4}, timestamp : Stamps, source : {300}]

Kdms == UNION {[s -> {0, 43000}] : s \in {{}} \cup {{g, h} : g, h \in MCGbids}}

MCSample ==
  [cla     |-> [type : {ClaSegment}, nSegments : {1, 256}, segmentNumber : {1, 2, 255},
                sequenceNumber : {0, 65535}]
               \cup [type : {ClaAck}, response : 0..3],
   hello   |-> {AnyEid, 0, 300},
   prophet |-> [eid : {0, 300}, plist : UNION {[s -> {0, 7}] : s \in SUBSET {0, 2, 300}}],
   trend   |-> [eid : {0, 300}, pos : {<<1, 2>>}, vel : {<<0, 3>>}, timeStamp : {0, 5}],
   cwi     |-> [position : {<<1, 2>>}, speed : {<<0, 3>>}, range : {30, 300},
                dataRate : {2000000}, isInitiator : BOOLEAN],
   kdm     |-> [isInitiator : BOOLEAN, kdm : Kdms],
   signal  |-> {[succeeded |-> b] @@ r : b \in BOOLEAN, r \in Records(CustodySignal)},
   report  |-> {[flags |-> f, when |-> w] @@ r :
                  f \in SUBSET {0, 1, BundleDeleted}, w \in {5, 200},
                  r \in Records(BundleStatusReport)}]
=============================================================================
