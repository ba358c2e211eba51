-------------------------------- MODULE Wire --------------------------------
(***************************************************************************)
(* What becomes of a bundle on its way, octet by octet, and of the other   *)
(* messages.  Bundles are made, each with a creation timestamp; one of     *)
(* them is followed from node to node.  At each node its header is changed *)
(* by the setters that the agent and the routers call; it is written to a  *)
(* packet, and made anew from the packet at the next node.                 *)
(***************************************************************************)
EXTENDS Messages, Timestamps

CONSTANTS
  Endpoint,    \* the endpoint ids of the nodes
  Request,     \* bound: priority, lifetime in seconds, payload and flags asked for
  Copies,      \* bound: the numbers of copies
  FirstId,     \* bound: the global ids given to bundles before
  HopBound,    \* bound: how often the bundle followed is sent
  Sample       \* bound: other messages, each of a kind

(* Nothing makes a bundle a fragment of one.                               *)
ASSUME WireAssumption ==
  /\ \A e \in Endpoint : e \in Nat /\ (e + 1) \div 65536 < 65536
  /\ Request \subseteq [priority : Priority, lifetime : Nat, payload : Seq(Octet),
                        asked : SUBSET (1..20)]
  /\ Copies \subseteq Nat /\ FirstId \in Nat /\ HopBound \in Nat

VARIABLES
  origin,    \* the bundle followed as it was made
  bundle,    \* the bundle followed as the node that has it keeps it
  packet,    \* its octets while it is on the air
  hops,      \* how often it has been sent
  other      \* another message, if one is looked at

wireVars == <<now, previous, made, origin, bundle, packet, hops, other>>

WireTypeOK ==
  /\ StampsTypeOK
  /\ packet \in Seq(Octet)
  /\ hops \in 0..HopBound

WireInit ==
  /\ StampsInit
  /\ origin = NoBundle /\ bundle = NoBundle
  /\ packet = <<>> /\ hops = 0
  /\ other = <<>>

-----------------------------------------------------------------------------
(* Time passes, and timestamps are made: for other bundles, or to be       *)
(* overwritten.                                                            *)

(* Nothing is followed or looked at yet. *)
Before == origin = NoBundle /\ other = <<>>

Wait ==
  /\ Before /\ Tick
  /\ UNCHANGED <<origin, bundle, packet, hops, other>>

AnotherTimestamp ==
  /\ Before /\ CreationTimestamp
  /\ UNCHANGED <<origin, bundle, packet, hops, other>>

-----------------------------------------------------------------------------
(* The bundle followed *)

(* The header, and the bundle.  The flags that the application asks for    *)
(* are put first; the global id and the list of nodes last.                *)
GenerateBundle(n, destination, request) ==
  LET h0 == [NoPrimaryHeader EXCEPT !.flags = SetPriority(request.asked, request.priority)]
      h1 == SetCustodianEndpoint(SetSourceEndpoint(SetDestinationEndpoint(h0, destination), n), n)
      stamp == [time |-> Seconds, sequence |-> Sequence]
      h2 == SetLifetime(SetCreationTimestamp(h1, stamp), request.lifetime)
      h3 == SetFlag(SetFlag(h2, "custodyTransferRequested", FALSE),
                    "reportCustodyAcceptance", FALSE)
      c == [NoCanonicalHeader EXCEPT
              !.flags = {CanonicalFlag.lastBlock, CanonicalFlag.discardBlock},
              !.blockLength = Len(request.payload)]
  IN  [NoBundle EXCEPT !.primary = [h3 EXCEPT !.globalId = FirstId + now],
                       !.canonical = <<c>>, !.payload = request.payload,
                       !.gbid = Identifier(h3), !.reclist = {n}]

(* The bundle followed is the first that is made. *)
Follow ==
  /\ Before /\ made = <<>>
  /\ \E n, d \in Endpoint, request \in Request : origin' = GenerateBundle(n, d, request)
  /\ CreationTimestamp
  /\ bundle' = origin'
  /\ UNCHANGED <<packet, hops, other>>

Have == origin # NoBundle /\ packet = <<>>

Changed(b) ==
  /\ Have /\ b # bundle
  /\ bundle' = b
  /\ UNCHANGED <<stampVars, origin, packet, hops, other>>

(* The routers split the copies; Prophet asks for custody.                 *)
SetReplicationFactor ==
  \E k \in Copies : Changed([bundle EXCEPT !.primary.replicationFactor = k])

SetCustodyTransferRequested ==
  Changed([bundle EXCEPT !.primary = SetFlag(@, "custodyTransferRequested", TRUE)])

(* The agent of n accepts custody: the constraint, and the custodian. *)
CustodyAcceptance(n) ==
  Changed([bundle EXCEPT !.rcs = @ \cup {"RC_CUSTODY_ACCEPTED"},
                         !.primary = SetCustodianEndpoint(@, n)])

(* The copy that answers a request for custody. *)
CustodyResponse(accepted) ==
  Changed([bundle EXCEPT
             !.primary = [SetFlag(@, "reportCustodyAcceptance", accepted) EXCEPT
                            !.replicationFactor = 20, !.custody = bundle.gbid]])

(* The bundle is noted to have come from, or to have been offered to, n.   *)
AddReceivedFrom(n) ==
  Changed([bundle EXCEPT !.receivedFrom = @ \cup {n}, !.reclist = @ \cup {n},
                         !.rcs = @ \cup {"RC_FORWARDING_PENDING"}])

Send ==
  /\ Have /\ hops < HopBound
  /\ packet' = ToPacket(bundle)
  /\ hops' = hops + 1
  /\ UNCHANGED <<stampVars, origin, bundle, other>>

ReceivePacket ==
  /\ packet # <<>>
  /\ bundle' = FromPacket(packet)
  /\ packet' = <<>>
  /\ UNCHANGED <<stampVars, origin, hops, other>>

(* Another message is looked at. *)
Look ==
  /\ Before /\ now = 0 /\ made = <<>>
  /\ \E kind \in DOMAIN Sample : \E m \in Sample[kind] : other' = <<kind, m>>
  /\ UNCHANGED <<stampVars, origin, bundle, packet, hops>>

WireNext ==
  \/ Wait \/ AnotherTimestamp \/ Follow \/ Look
  \/ \E n \in Endpoint : CustodyAcceptance(n) \/ AddReceivedFrom(n)
  \/ SetReplicationFactor \/ SetCustodyTransferRequested
  \/ \E accepted \in BOOLEAN : CustodyResponse(accepted)
  \/ Send \/ ReceivePacket

WireSpec == WireInit /\ [][WireNext]_wireVars

-----------------------------------------------------------------------------

(* However often it is sent, and whatever the nodes set on the way, a      *)
(* bundle keeps its identifier, by the header and by itself, and its       *)
(* destination, lifetime, priority, global id and payload.                 *)
KeepsIdentity ==
  bundle # NoBundle =>
    /\ bundle.gbid = origin.gbid /\ Identifier(bundle.primary) = bundle.gbid
    /\ bundle.primary.dictionary.destination = origin.primary.dictionary.destination
    /\ bundle.primary.lifetime = origin.primary.lifetime
    /\ GetPriority(bundle.primary.flags) = GetPriority(origin.primary.flags)
    /\ bundle.primary.globalId = origin.primary.globalId
    /\ bundle.canonical = origin.canonical /\ bundle.payload = origin.payload

(* What is sent of the bundle is read back at the next node, and the rest  *)
(* is lost: a node that gets it back knows nothing of where it was.        *)
SentIsRead ==
  packet # <<>> =>
    FromPacket(packet) = [bundle EXCEPT !.rcs = {}, !.receivedFrom = {}, !.reclist = {}]

(* The size of a bundle, which the buffers account for and the segments    *)
(* are cut by, is that of its packet, also after the setters that do not   *)
(* work out the block length anew.                                         *)
SizeIsOctets == origin # NoBundle => BundleSize(bundle) = Len(ToPacket(bundle))

(* What may lie behind a message. *)
Behind == {<<>>, <<129, 2, 3>>}

(* The other messages are read back, whatever is behind them, and are as   *)
(* long as their sizes say.  But a custody signal is read back with its    *)
(* outcome only, and a status report with all but its times and, unless it *)
(* is of a time under 128 seconds and no deletion, the bundle it is about; *)
(* a status report is longer than it says.                                 *)
OthersAreRead ==
  other # <<>> =>
    LET m == other[2]
        bytes(fields, behind) == WriteAll(fields) \o behind
    IN  \A behind \in Behind :
          CASE other[1] = "cla" ->
                 /\ ClaSize(m) = Len(WriteAll(ClaFields(m)))
                 /\ LET read == ClaRead(bytes(ClaFields(m), behind))
                    IN  \A f \in DOMAIN m : read[f] = m[f]
            [] other[1] = "hello" ->
                 /\ NeighSize = Len(WriteAll(NeighFields(m)))
                 /\ NeighRead(bytes(NeighFields(m), behind)) = m
            [] other[1] = "prophet" ->
                 /\ ProphetHelloSize(m) = Len(WriteAll(ProphetHelloFields(m)))
                 /\ ProphetHelloRead(bytes(ProphetHelloFields(m), behind)) = m
            [] other[1] = "trend" ->
                 /\ NeighHelloSize = Len(WriteAll(NeighHelloFields(m)))
                 /\ NeighHelloRead(bytes(NeighHelloFields(m), behind)) = m
            [] other[1] = "cwi" ->
                 /\ CwiRoom >= Len(WriteAll(CwiFields(m)))
                 /\ CwiRead(bytes(CwiFields(m), behind)) = m
            [] other[1] = "kdm" ->
                 /\ KdmSize(m) = Len(WriteAll(KdmFields(m)))
                 /\ KdmRead(bytes(KdmFields(m), behind)) = m
            [] other[1] = "signal" ->
                 /\ SignalSize(m) = Len(WriteAll(SignalFields(m)))
                 /\ LET read == SignalRead(bytes(SignalFields(m), <<0, 0, 0, 0, 0, 0>>))
                    IN  /\ read.succeeded = m.succeeded /\ read.reason = m.reason
                        /\ read.fragmentOffset = m.fragmentOffset
            [] other[1] = "report" ->
                 LET read == ReportRead(bytes(ReportFields(m), <<0, 0, 0, 0, 0, 0>>))
                 IN  /\ ReportSize(m) < Len(WriteAll(ReportFields(m)))
                     /\ read.flags = m.flags /\ read.fragmentLength = m.fragmentLength
                     /\ m.when < 128 /\ BundleDeleted \notin m.flags =>
                          read.about = [timestamp |-> m.timestamp, source |-> m.source]
=============================================================================
