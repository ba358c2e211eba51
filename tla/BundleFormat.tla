---------------------------- MODULE BundleFormat ----------------------------
(***************************************************************************)
(* A bundle and what it is on the wire: endpoint identifiers, creation     *)
(* timestamps, global bundle identifiers, the dictionary, the primary      *)
(* header, the canonical headers and the payload.                          *)
(***************************************************************************)
EXTENDS Octets, FiniteSets

-----------------------------------------------------------------------------
(* Identifiers *)

(* BundleEndpointId: all that is sent or compared is its number. *)
AnyEid == -1

EidFields(eid) == <<<<"u32", eid + 1>>>>

(* The eid that a reader just read. *)
EidRead(n) == n - 1

(* Mutant: the sequence is written only for its lowest seven bits. *)
TimestampShort(t) == <<<<"sdnv", t.time>>, <<"sdnv", t.sequence % 128>>>>

(* CreationTimestamp *)
TimestampFields(t) == <<<<"sdnv", t.time>>, <<"sdnv", t.sequence>>>>

TimestampSize(t) == EncodingLength(t.time) + EncodingLength(t.sequence)

(* GlobalBundleIdentifier *)
GbidFields(g) == EidFields(g.source) \o TimestampFields(g.timestamp)

GbidSize(g) == 4 + TimestampSize(g.timestamp)

GbidTypes == <<"u32", "sdnv", "sdnv">>

(* The identifier in the three values read last. *)
GbidRead(got) ==
  LET v == SubSeq(got, Len(got) - 2, Len(got))
  IN  [source |-> EidRead(v[1]), timestamp |-> [time |-> v[2], sequence |-> v[3]]]

-----------------------------------------------------------------------------
(* Dictionary: the endpoints of a bundle, each one only once.              *)

(* GetUnique *)
DictionarySize(d) == 4 * Cardinality({d.destination, d.source, d.custodian}) + 1

(* Mutant: the second and the third case are taken for each other. *)
SpecialSwapped(d) ==
  CASE d.custodian = d.source /\ d.destination = d.source -> 0
    [] d.custodian = d.source /\ d.destination # d.source -> 1
    [] d.custodian # d.source /\ d.destination = d.custodian -> 3
    [] d.custodian # d.source /\ d.destination = d.source -> 2
    [] OTHER -> 4

(* Which of them are the same. *)
Special(d) ==
  CASE d.custodian = d.source /\ d.destination = d.source -> 0
    [] d.custodian = d.source /\ d.destination # d.source -> 1
    [] d.custodian # d.source /\ d.destination = d.custodian -> 2
    [] d.custodian # d.source /\ d.destination = d.source -> 3
    [] OTHER -> 4

(* Serialize: the source, the custodian and the destination, unless they   *)
(* are there already.                                                      *)
DictionaryFields(d) ==
  <<<<"u8", Special(d)>>>> \o EidFields(d.source)
  \o (IF Special(d) > 1 THEN EidFields(d.custodian) ELSE <<>>)
  \o (IF Special(d) \in {1, 4} THEN EidFields(d.destination) ELSE <<>>)

(* Deserialize, which reads as many of them as the case has. *)
DictionaryRead(bytes) ==
  LET special == bytes[1]
      eid(k) == EidRead(ValueOf("u32", SubSeq(bytes, 4 * k - 2, Len(bytes))))
  IN  [source      |-> eid(1),
       custodian   |-> eid(IF special < 2 THEN 1 ELSE 2),
       destination |-> eid(CASE special \in {0, 3} -> 1
                             [] special \in {1, 2} -> 2
                             [] OTHER -> 3)]

-----------------------------------------------------------------------------
(* The flags of the primary header: struct PrimaryProcessingControlFlags.  *)

Flag == [fragment |-> 0, administrativeRecord |-> 1, doNotFragment |-> 2,
         custodyTransferRequested |-> 3, singletonEndpoint |-> 4,
         applicationAckRequested |-> 5, reportBundleReception |-> 14,
         reportCustodyAcceptance |-> 15, reportBundleForwarding |-> 16,
         reportBundleDelivery |-> 17, reportBundleDeletion |-> 18]

Priority == {"BULK", "NORMAL", "EXPEDITED"}

SetPriority(flags, priority) ==
  SetBit(SetBit(flags, 7, priority # "NORMAL"), 8, priority \in {"NORMAL", "EXPEDITED"})

GetPriority(flags) ==
  CASE GetBit(flags, 8) /\ GetBit(flags, 7) -> "EXPEDITED"
    [] GetBit(flags, 8) /\ ~GetBit(flags, 7) -> "NORMAL"
    [] OTHER -> "BULK"

-----------------------------------------------------------------------------
(* PrimaryBundleHeader *)

IsFragment(h) == GetBit(h.flags, Flag.fragment)

PrimarySize(h) ==
  1 + EncodingLength(Word(h.flags)) + EncodingLength(h.blockLength)
  + EncodingLength(h.replicationFactor) + TimestampSize(h.timestamp)
  + EncodingLength(h.lifetime) + EncodingLength(h.globalId)
  + EncodingLength(GbidSize(h.custody)) + GbidSize(h.custody)
  + EncodingLength(DictionarySize(h.dictionary)) + DictionarySize(h.dictionary)
  + (IF IsFragment(h)
     THEN EncodingLength(h.fragmentOffset) + EncodingLength(h.totalLength)
     ELSE 0)

(* Every setter of what has a size of its own ends with this one, but for  *)
(* those of the flags, the replication factor, the global id and the       *)
(* custody, which leave the length as it was.                              *)
CalcBlockLength(h) ==
  [h EXCEPT !.blockLength =
     PrimarySize(h) - EncodingLength(Word(h.flags)) - EncodingLength(h.blockLength)]

(* The constructor *)
NoPrimaryHeader ==
  [version |-> 6, replicationFactor |-> 1, flags |-> {}, blockLength |-> 0,
   timestamp |-> [time |-> 0, sequence |-> 0], lifetime |-> 0, globalId |-> 0,
   custody |-> [source |-> AnyEid, timestamp |-> [time |-> 0, sequence |-> 0]],
   dictionary |-> [destination |-> AnyEid, source |-> AnyEid, custodian |-> AnyEid],
   fragmentOffset |-> 0, totalLength |-> 0]

SetFlag(h, flag, value) == [h EXCEPT !.flags = SetBit(@, Flag[flag], value)]

SetDestinationEndpoint(h, eid) == CalcBlockLength([h EXCEPT !.dictionary.destination = eid])

SetSourceEndpoint(h, eid) == CalcBlockLength([h EXCEPT !.dictionary.source = eid])

SetCustodianEndpoint(h, eid) == CalcBlockLength([h EXCEPT !.dictionary.custodian = eid])

SetCreationTimestamp(h, t) == CalcBlockLength([h EXCEPT !.timestamp = t])

SetLifetime(h, seconds) == CalcBlockLength([h EXCEPT !.lifetime = seconds])

PrimaryFields(h) ==
  <<<<"u8", h.version>>, <<"sdnv", Word(h.flags)>>, <<"sdnv", h.blockLength>>,
    <<"sdnv", h.replicationFactor>>>> \o TimestampFields(h.timestamp)
  \o <<<<"sdnv", h.lifetime>>, <<"sdnv", h.globalId>>, <<"sdnv", GbidSize(h.custody)>>>>
  \o GbidFields(h.custody) \o <<<<"sdnv", DictionarySize(h.dictionary)>>>>
  \o DictionaryFields(h.dictionary)
  \o (IF IsFragment(h)
      THEN <<<<"sdnv", h.fragmentOffset>>, <<"sdnv", h.totalLength>>>>
      ELSE <<>>)

(* Deserialize.  What is not sent of a bundle that is no fragment is as    *)
(* the constructor has it.                                                 *)
PrimaryRead(bytes) ==
  LET r1 == ReadAll(Reader(bytes), <<"u8", "sdnv", "sdnv", "sdnv", "sdnv", "sdnv",
                                     "sdnv", "sdnv", "sdnv">>)
      v == r1.got
      custody == SubSeq(r1.left, 1, v[9])
      r2 == Next1(Skip(r1, v[9]), "sdnv")
      dictionary == SubSeq(r2.left, 1, Last(r2.got))
      flags == FlagsOf(v[2])
      r3 == IF GetBit(flags, Flag.fragment)
            THEN ReadAll(Skip(r2, Last(r2.got)), <<"sdnv", "sdnv">>)
            ELSE [got |-> <<0, 0>>]
  IN  [version |-> v[1], flags |-> flags, blockLength |-> v[3], replicationFactor |-> v[4],
       timestamp |-> [time |-> v[5], sequence |-> v[6]], lifetime |-> v[7],
       globalId |-> v[8], custody |-> GbidRead(ReadAll(Reader(custody), GbidTypes).got),
       dictionary |-> DictionaryRead(dictionary),
       fragmentOffset |-> r3.got[Len(r3.got) - 1], totalLength |-> Last(r3.got)]

-----------------------------------------------------------------------------
(* CanonicalBundleHeader *)

CanonicalFlag == [mustBeReplicated |-> 0, statusReport |-> 1, deleteBundle |-> 2,
                  lastBlock |-> 3, discardBlock |-> 4, forwarded |-> 5, containsEid |-> 6]

PayloadBlock == 1

(* The constructor *)
NoCanonicalHeader == [blockType |-> PayloadBlock, flags |-> {}, blockLength |-> 0, eids |-> 0]

IsLastBlock(c) == GetBit(c.flags, CanonicalFlag.lastBlock)

IsContainsEid(c) == GetBit(c.flags, CanonicalFlag.containsEid)

CanonicalSize(c) ==
  1 + EncodingLength(Word(c.flags)) + EncodingLength(c.blockLength)
  + (IF IsContainsEid(c) THEN EncodingLength(c.eids) ELSE 0)

CanonicalFields(c) ==
  <<<<"u8", c.blockType>>, <<"sdnv", Word(c.flags)>>, <<"sdnv", c.blockLength>>>>
  \o (IF IsContainsEid(c) THEN <<<<"sdnv", c.eids>>>> ELSE <<>>)

(* One header is read after the other into the same variable, so that the  *)
(* number of eids of one is left over in the next.                         *)
CanonicalRead(bytes, before) ==
  LET v == ReadAll(Reader(bytes), <<"u8", "sdnv", "sdnv">>)
      c == [blockType |-> v.got[1], flags |-> FlagsOf(v.got[2]),
            blockLength |-> v.got[3], eids |-> before.eids]
  IN  IF IsContainsEid(c) THEN [c EXCEPT !.eids = Decode(v.left)] ELSE c

-----------------------------------------------------------------------------
(* Bundle.  What it keeps beside the headers and the payload is its own    *)
(* identifier, and what is never sent: the constraints that retain it, the *)
(* peers it came from, and the nodes it was offered to.                    *)

(* SetPrimaryHeader *)
Identifier(h) == [source |-> h.dictionary.source, timestamp |-> h.timestamp]

NoBundle ==
  [primary |-> NoPrimaryHeader, canonical |-> <<>>, payload |-> <<>>,
   gbid |-> Identifier(NoPrimaryHeader), rcs |-> {}, receivedFrom |-> {}, reclist |-> {}]

(* GetSize *)
BundleSize(b) ==
  LET upTo[i \in 0..Len(b.canonical)] ==
        IF i = 0 THEN 0 ELSE upTo[i - 1] + CanonicalSize(b.canonical[i])
  IN  PrimarySize(b.primary) + Len(b.payload) + upTo[Len(b.canonical)]

(* ToPacket: AddHeader for each of them, the last first. *)
ToPacket(b) ==
  LET upTo[i \in 0..Len(b.canonical)] ==
        IF i = 0 THEN WriteAll(PrimaryFields(b.primary))
        ELSE upTo[i - 1] \o WriteAll(CanonicalFields(b.canonical[i]))
  IN  upTo[Len(b.canonical)] \o b.payload

(* One more header.  RemoveHeader takes off as many octets as the header   *)
(* that was read has by its size.                                          *)
NextBlock(r) ==
  LET c == CanonicalRead(r.payload, r.header)
  IN  [header |-> c, blocks |-> Append(r.blocks, c),
       payload |-> SubSeq(r.payload, CanonicalSize(c) + 1, Len(r.payload))]

(* The headers up to the last, and what is behind: k headers take at least *)
(* as many octets.                                                         *)
Blocks(bytes) ==
  LET after[k \in 0..Len(bytes)] ==
        IF k = 0 THEN [header |-> NoCanonicalHeader, blocks |-> <<>>, payload |-> bytes]
        ELSE LET r == after[k - 1] IN IF IsLastBlock(r.header) THEN r ELSE NextBlock(r)
  IN  after[Len(bytes)]

(* The constructor from a packet *)
FromPacket(bytes) ==
  LET h == PrimaryRead(bytes)
      rest == Blocks(SubSeq(bytes, PrimarySize(h) + 1, Len(bytes)))
  IN  [NoBundle EXCEPT !.primary = h, !.canonical = rest.blocks, !.payload = rest.payload,
                       !.gbid = Identifier(h)]
=============================================================================
