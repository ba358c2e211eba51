# Bundle protocol of ns-3 DTN: a TLA+ specification

This directory specifies the delay tolerant networking module for ns-3 in
`src/model`: how a node cuts bundles into segments and gets them to a peer, how
it keeps its links, how its router decides what to send and when, how nodes pass
copies and custody of a bundle on, how programs get it, and what all that looks
like on the air. TLC checks the models on small instances, and TLAPS proves the
main safety properties for every value of their constants.

Run `tlc -config X.cfg M` for a model and `tlapm M_proofs.tla` for its proofs.

## 1. Inventory

The program is a discrete event simulator: one thread, handlers that run to
their end, and events that handlers schedule for now, for later, or by a timer.
What makes it hard is not threads but the order of events: the callbacks of the
MAC, acknowledgements, time-outs, back-offs, cancels and lost links may come in
any order, every handler must schedule what goes on after it, and several nodes
do all of this at once over a radio that loses and repeats.

| Component (`src/model`) | State | Operations | Correct when |
|---|---|---|---|
| `bp-convergence-layer-agent`, sending | `m_sendQueue`, `m_ackQueue`, `m_current`, `m_waitingForAck`, `m_ackTimer`, `m_isSending`, `m_sequenceNumber` | `SendBundle`, `SendAck`, `SendSegments`, `SegmentSentOk`, `SegmentSentFailed`, `BundleSentOk`, `BundleSentFailed`, `CancelTransmission` | one transfer at a time, each search finds what it looks for, each bundle is reported once, the queues never stand still |
| the same, receiving | `m_recvQueue` | `ReceiveSegment`, `ReassembleBundle`, `RemoveOrphanedSegments` | what is handed up is one bundle, whole; sent means received |
| `bp-link-manager`, `bp-link`, `bp-contact` | links with state, last heard, timer; contact with queue and retransmissions | `DiscoveredLink`, `OpenLink`, `CloseLink`, `CheckIfExpired`, `PauseLink`, `UnPauseLink` | a silent link is closed in time and a live one is not; pauses end; no timer is set twice |
| `bp-bundle-router` | `m_bundleList`, `m_nBytes`, `m_nBundles`, `m_isSending`, custody lists, the table of receivers | `InsertBundle`, `DeleteBundle`, `RemoveExpiredBundles`, `SendBundle`, `NotifySend`, `BundleSent`, `CancelTransmission` | the counters move with the list; never waits for a report that does not come |
| `bp-rt-epidemic` | the above with `m_forwardLog`, `m_kdm`, receivers of each bundle | `TryToStartSending`, `DoAcceptBundle`, `DoInsert`, `MakeRoomForBundle`, `DoBundleSent`, `DoBundleDelivered` | what can be sent is sent |
| `bp-rt-sprayandwait` | also copies of each bundle, the shared table | the same, `GetAllBundlesForLink` | copies are never made; nobody is sprayed twice |
| `bp-rt-prophet` | also predictabilities, custody lists | the same, hellos with predictabilities | custody moves to a better node and is never lost |
| `bp-rt-trend-of-delivery`, `vector2d` | also neighbours with positions | the same, a timer of its own, `getBestLink`, `GetFuzzy` | as above, with the trust of the fuzzy rules |
| `xfuzzy`, `trend-of-delivery.xfs` | none | the inference | no place without an answer; trust is earned |
| `bp-direct-delivery-router` | as the epidemic router | the same, starting and stopping the hellos | hellos while something is held |
| `bp-orwar-*`, `bp-contact-window-information` | state of the contact, window, what the peers told each other | `SentCWI`, `ReceivedCWI`, `SentKDM`, `ReceivedKDM`, timers | a bundle is deleted as delivered only if it came to its destination; an open link is closed some time |
| `bp-bundle-protocol-agent` | registrations, `m_bundlesDelivers` | reception, dispatch, delivery, custody answers, status reports | a bundle goes up once; custody ends in an answer |
| `bp-registration*` | registrations, endpoints, delivery queues | `Register`, `Unregister`, `ForwardUp`, `Recv` | no registration keeps an endpoint that is gone |
| `bp-neighbourhood-detection-agent` | `m_started`, `m_helloTimer` | `Start`, `Stop`, `HelloTimerExpire`, `HandleHello` | hellos go out exactly while started |
| `bp-forwarding-log`, `bp-known-delivered-messages` | maps keyed by bundle | add, remove, expire, merge | no entry of a live bundle is lost |
| `bp-bundle`, `bp-header`, `bp-sdnv`, `bp-dictionary`, identifiers, timestamps, small headers | values | build, serialise, parse | what is parsed is what was built, and as long as announced |
| `bp-custody-signal`, `bp-bundle-status-report`, `bp-administrative-record` | values | build, serialise, parse | the same |
| `bp-data-gatherer`, helpers, main programs, `test/` | statistics and traces | | not protocol |

How they interact. The application or a peer hands the bundle protocol agent a
bundle; the agent asks the router (`AcceptBundle`, `InsertBundle`) or hands it up
to the endpoints that are registered for it. The router picks a bundle and a link
and calls the agent, which schedules `NotifySend` and then `BundleQueued` of the
convergence layer. That layer reports to the router, through callbacks:
`BundleSent`, `BundleTransmissionFailed`, `TransmissionCancelled`. Hellos heard by
the neighbourhood detection agent go to `LinkManager::DiscoveredLink`, which tells
the router; a link that is closed tells the router (`DoLinkClosed`), which cancels
what was queued for it, and the convergence layer (`LinkLost`), which drops the
segments it has from that peer. Prophet and trend send a bundle with custody
requested; the receiving agent answers with a copy of the bundle marked as the
answer, and the asking agent deletes its own.

Everything in this code that is hard to test is listed in `PROJECT.json` under
`hazards`, each with its line and the properties that would catch it.

## 2. Modules

    Outbox                     what the sending half promises its router
      ^ implemented by
    ConvergenceLayerSender     the sending half
      ^ extended by, with ConvergenceLayerReceiver
    BundleTransfer             a sender, a lossy radio, receiving peers
    LinkManager                links under their timers
                               all of these                 <- LinkLayer_proofs

    Selection                  a list searched for all the entries of a kind
    ForwardLog                 who acknowledged what
    BundleRouter               buffer, links, agent, as every router has them
      ^ extended by
      |- DirectDeliveryRouter  with its hellos       <- DirectDeliveryRouter_proofs
      |- RelayRouter           log, receivers, known deliveries
           |- EpidemicRouter                               <- EpidemicRouter_proofs
           |- SprayAndWaitRouter
           |- CustodyRouter    custody lists and answers
                |- ProphetRouter
                |- TrendRouter
    Relays                     one node with any of the four  <- Relays_proofs

    Registrations              programs and endpoints
      ^ extended by
    SprayNetwork               one bundle and its copies <- SprayNetwork_proofs
    CustodyNetwork             one bundle and its custody       <- Bundles_proofs
    OrwarNetwork               two ORWAR nodes           <- OrwarNetwork_proofs
    Tendency                   the fuzzy rules of the trend router
                                                            <- Relays_proofs

    Octets <- BundleFormat <- Messages <- Wire         what goes on the air
    Timestamps                 what tells bundles apart
      ^ extended by Wire                                    <- Bundles_proofs

    DataLemmas                 lemmas on sums, lists and waiting that the proofs share

### One agent, one link, one router

**ConvergenceLayerSender** has one action for each handler; `SendSegments` has
one disjunct for each of its branches. The variables are the members of the
class. `pending` counts the events that will run `SendSegments`, since handlers
never call it but schedule it; back-offs differ only in when, and any enabled
handler may be next. A queue entry is found by what `operator==` compares,
`KeyOf`, so that a search may in principle find another entry than the one
meant, or none; `Find` gives the first, or 0 for `end()`. The router, the MAC
and the peers are unconstrained: an acknowledgement of any bundle may come from
any peer at any time. The identical entries that a router may queue twice are
possible too.

**Outbox** is the abstract specification: bundles wait in order, only the head
leaves, and every one is reported at most once: sent, failed, or cancelled. The
refinement mapping forgets segments, retransmissions, timers and events
(`OutboxView`).

**ConvergenceLayerReceiver** gives `m_recvQueue` as a function from what the
code uses as key (sequence number and source) to the segments held, and the
changes each handler makes to it. **BundleTransfer** extends both: the
sender, and a receiver at each peer. A frame gets through at most once, because
the MAC drops repeated ones; the MAC reports ok only for one that did, and
failed for any. `ReassembleBundle` is scheduled for the instant at which the
last segment comes in; a link lost in that very instant may come in between,
and then the code dereferences `end()`: the model has no step from there.

**LinkManager** counts time in ticks. Timers and events hold the ticks they have
left, and run before the clock passes them, as in the simulator. Several
`UnPauseLink` events may be due, as they are never called off. The members
`m_maxRetries` and `m_pauseTime` are constants of any value: the routers that
`wscript` builds never set them.

**BundleRouter** has what the routers share: the buffer with its counters, the
links with the queue of each contact, the bundles between the router and the
agent (`handoff`), and the agent, which is taken for what `Outbox` promises.
`DeleteBundle` makes the agent report a cancelled bundle back in the same
handler, so an action is the whole chain. `tries` counts the events that will
run `TryToStartSending`. These add up without bound, so the count saturates:
`TryBound` stands for any larger number, and running one event leaves that many
or one less. A bundle cancelled while on its way to the agent is not found
there; `late` marks it. `nBytes` is an integer, which may be negative: `m_nBytes` is
this modulo 2^32, and `m_maxBytes - m_nBytes` wraps back, so that `HasRoom` decides
as the code does.

**RelayRouter** adds the log, with the operators of **ForwardLog**, the known
delivered messages, the receivers noted in each bundle, and the agent above that
feeds the router and delivers locally. `offered` is what the agent was ever given:
any peer may acknowledge that, at any time and repeatedly. An application does not
send to its own node. A bundle has two sizes: `Comes[g]`, any of which it may have when
it comes in, and `Size[g]`, which it has in the buffer, once `DoInsert` has made this
node its custodian. `InsertBundle` counts the first and `DeleteBundle` takes the second
off; `Drift` is what the counter is off by. A byte of an instance stands for one entry
of a dictionary. On it:

* **EpidemicRouter**: the choice of what to send.
* **SprayAndWaitRouter**: copies, halved when a transfer begins, and the table
  `ma` that all nodes of the simulation share; another node may note a peer in it
  at any time.
* **CustodyRouter**: `m_custodyList`, which is never cleared, `m_custodyListPending`
  with its erasure after five seconds, and the agent's answers, which go out
  beside the bundles and are reported under the same identifier.
* **ProphetRouter**: predictabilities as parts of `One`. The code has doubles, of
  which only the order and whether one is zero decides; quotients are rounded up
  so that what is positive stays so.
* **TrendRouter**: looks by a timer of its own. What the inference says of a node
  at the time, and which links last, may be anything here, since positions
  change; what the inference itself does is in `Tendency`.

`DoSendHello` is the one action for hellos in these routers: in the last ten
seconds of the simulation it empties the list, without the counters. It may do
so again: `HelloTimerExpire` schedules the next hello after `SendHello`, hence
after the `Stop` made there.

**Relays** gives one node any of the four, through INSTANCEs that share the
variables of `BundleRouter` and `RelayRouter`, so that what the four promise is
stated once. `scene` picks the router and the peers and bundles that it meets.

**DirectDeliveryRouter** sends a bundle to its destination only, keeps it after
that, drops the newest for lack of room, and does not look again by itself. It
starts and stops the hellos by the counter of its bundles; `hello` has the members
of the neighbourhood detection agent, whose timer must not be scheduled while it
runs. It takes bundles from its own application only, which come with this node as
custodian, so that here the size counted is the size held. `DoTransmissionCancelled`
needs the contact of the link: where there is none the program ends, and the model has
no step.

### Networks

**Registrations** has the endpoints that the registration managers keep and the
pointers that the registrations have to them. To be handed up, a bundle is
scheduled on each endpoint of its destination's name. **SprayNetwork** composes it
with one bundle among nodes that run the spray and wait router. The nodes are
taken at the level of what they hold, offer and note; any two may meet at any
time, a transfer may fail before or after it arrived, and the agent may hand a
bundle up twice, since the convergence layer does when the MAC loses the
acknowledgement of a one-segment bundle.

**CustodyNetwork** has one bundle, its holders, and the messages of the exchange
of custody under Prophet or trend. Any holder may offer the bundle to any node,
again and again: what keeps a router from that is left out, so that what holds
does not depend on it. What is kept is what the agents do: who takes custody, who
refuses, when the one that asked deletes its copy, and that a bundle whose replication
factor is 20 is taken for an answer. `factor` is what the agent of the source gives it,
`int(nodes * 0.1) + 1`, which neither router changes.

**OrwarNetwork** has two nodes, each a record, with the four messages that set a
contact up, its window, its timer, and a bundle, which may be for one of the two
or for a third. Handlers are operators on the record, in the order of the code.
The agent and the radio are taken as unkind as they may be: what was sent (`air`)
may arrive more than once, out of order, and after it was called off, and so may
the acknowledgement of it. An acknowledgement of what is gone resets `m_isSending`
while something else is sent, so that member keeps the router from nothing, and is
left out: the router may look for something to send at any time. `arrival` says what
the agent of the destination did with the bundle, which the acknowledgement does not
wait for: took it for an answer or refused it, noted it as delivered with no program to
hand it up to, or handed it up. The number of copies is what the agent sets
(`bp-bundle-protocol-agent.cc:152`): it overrides `DoCalculateReplicationFactor`.

**Tendency** computes the inference of `trend-of-delivery.xfs.cpp`: the triangles,
all 48 rules, and the centre of gravity, in whole numbers, after the clamps that
`GetFuzzy` applies. A node moves, turns or changes speed from one place of the
instance to another.

### What goes on the air

**Octets** has SDNVs, fixed numbers and bit fields; **BundleFormat** the bundle with
its dictionary, primary block, router specific blocks and payload; **Messages**
every other message, each as it is written and as it is read. A reader is kept
apart from its writer, because they are apart in the code. Loops over octets are
functions of how much of them is done, so that the provers can follow them. **Wire** makes bundles
with creation timestamps and follows one from node to node through the setters
that agents and routers call. **Timestamps**, which it extends, has the creation
timestamps: they come from two variables that all nodes share, and each one that is
made without a value moves them.

## 3. Runs

| Run | Instance | Distinct states | Shows |
|---|---|---|---|
| `sender` | 2 peers, 2 bundles of 1 and 2 segments, queues of 2 and 1, 2 events | 260,932 | The sending half serves one transfer at a time, never stalls, reports each bundle as `Outbox` does, and empties its queues once nothing new comes |
| `transfer` | 1 peer, 2 bundles of 2 segments, 3 transfers | 1,363,605 | What is reported sent was received; what is handed up is one bundle, whole |
| `transfer_late_ack` | 2 peers, 1 bundle of 1 segment |  | The finding below (the search stops there) |
| `links` | 2 peers, time to live 3, pause 2, 2 retries | 127,449 | Links are closed in time and never early; a pause has its end scheduled, and ends |
| `epidemic` | 1 peer, 4 bundles, one mortal and of two sizes, room for 4 bytes, the counter at most 1 off, the end of the simulation | 236,649 | The counters move with the list, but for what a bundle grew, only what is held is sent, the router never waits in vain, and what is held is offered to every peer that stays |
| `direct` | 2 peers, 3 bundles, room for 5 octets | 71,657 | Hellos exactly while something is held; the newest go for lack of room; a look is due while something can be sent |
| `relays` | 11 scenes of four routers, 2 peers, 5 bundles of up to two sizes, room for one, the counter at most 1 off | 366,100 | Counters, reports and looks as above, with the answers of custody, which delete what is deleted already |
| `spray_network` | 4 nodes, 7 copies, 2 transfers, 2 programs | 2,110,672 | Copies are never made, no relay is offered the bundle twice, each endpoint gets it once, no registration keeps an endpoint that is gone |
| `custody` | 4 nodes, both routers, a factor of 11 or 20, 2 messages, each may be repeated | 522,203 | The exchange never loses the last copy, unless it has the number of an answer; the application gets the bundle once |
| `orwar` | 2 nodes, of which one makes the bundle, the other or a third as destination, 2 copies or 40, 1 retry, 1 message listed and 1 under way | 2,380,098 | A bundle is taken for delivered, and deleted, only when it has come to its destination; an open link is timed but in one state |
| `tendency` | 6 spans, 25 angles, 20 distances, 13 speeds | 41,736 | No place without an answer but on a line; who stands still or goes away is not trusted far off; coming nearer never costs trust |
| `wire` | 2 nodes with identifiers 0 and 300, clock from 127 to 128, 2 hops | 172,328 | What is read is what was written and as long as announced; a bundle stays what it was made as; two timestamps are alike only if they ran ahead of the clock |

**Bounds.** The queues of `sender` need two entries so that something is behind the
head: a second bundle to the same peer, to another peer, or a second copy of the
same one; everything in the code looks at the head or at a search that might miss
it. Two segments are the least with a first that is not the last, and one segment
is the case that `ReceiveSegment` treats apart. Two pending events are the least
where one comes from another cause than the last step, so that a transfer may
be retried before its back-off. The bounds are guards on what the environment
asks for; what the agent schedules itself is not bounded. In `transfer` the
sequence number does not come round. In `links` a pause is shorter than the
time to live and two pauses are longer, so stale ends of pauses overlap later
ones.

In the router runs, the buffer is full with one or two bundles, one of which must
go for another; one bundle may expire; and the agent holds a bundle when another
comes in, plus what its handlers add. A bundle that changes its size comes in while the
counter is off by no more than `DriftBound`, and before the last ten seconds: that is
enough for the counter to go below what the list takes and below zero, in `relays`
above it too, and back, and for the buffer to take in what it has no room for. In
`relays` each scene has two bundles and one peer, or one bundle and two peers; the
second peer is what a bundle can be passed on to, and the second bundle what takes its
place in the buffer. The direct
delivery router hands the same bundle over again after each report, so there an
acknowledgement that retires nothing, and the loss of a link, also wait until the
agent has less than two.

In the networks four nodes are the least where a bundle can come round: a source,
two that relay, and a destination; the two in between are symmetric. Two transfers
may be under way, so that one may overtake another or its answer. Seven copies are
halved down to one. In `custody` the bundle has an ordinary factor or the number
that marks an answer; in `orwar` it has 2 copies, or 40, which halved is that number.
In `orwar` each node has one message under way and one listed, and each message and
its acknowledgement may be lost, late or repeated. One of the nodes makes the bundle;
its agent gives messages up where the peer is the destination, and none where a third
node is. Larger instances, with lists of two entries and failures elsewhere too, take
TLC longer; the theorems about ORWAR hold for all of them. In `tendency`
speeds, angles and distances have every corner of the triangles, the places just
beside the corners, and some between. In `wire` the numbers are such that SDNVs
grow by an octet, with the clock passing from second 127 to 128.

**Deadlock** is checked in `links` and `tendency`. It is not in the others: a node with
nothing to send, or one at a bound, stops, and so does a program that dereferences
what is gone.

**Fairness.** The simulator runs what is scheduled, and timers fire (`SendSegments`,
`AckTimeout`, `TryToStartSending`, `UnPauseLink`, `CheckIfExpired`, the clock).
The MAC reports on each unicast frame: this is what the patch of
`regular-wifi-mac.cc` described in `README` does, and the agent depends on it,
for it has no timer of its own for a segment. No fairness is assumed of the
router, of a peer, of the radio, or of an acknowledgement. `AllIsOffered`
assumes in addition that the agent gets on with its head, which is what
`QueuesDrain` says of the agent, and it is stated for when peers, application
and links have come to rest. "Offered" is the code's notion: the peer is noted
before the bundle is sent, and a transfer that fails is not tried again.

### Finding

**The wrong copy is retired** (`AckedByItsPeer`). `m_waitingForAck` is compared
by bundle only. With one bundle sent to pA, timed out, and sent to pB, an
acknowledgement of pA that is late retires the copy for pB: the router is told
pA got it, and the copy for pB is never reported. It follows the code's own
comments, quoted in `PROJECT.json`.

### Seen while modelling

What follows is in the models as the code has it; the properties allow it or
except it by name.

Convergence layer and routers:

* The stale end of an earlier pause ends a later one. A bundle cancelled on its
  way to the agent is sent all the same. An acknowledgement that overtakes the
  report of the last segment leaves the entry to time out, and the link is then
  paused for nothing.
* A delivery learnt late is forgotten. `GetBundle` never returns 0 in the
  epidemic router, so the branch of `DoBundleSent` for a bundle no longer held,
  with its comment on "a ugly hack" (`bp-rt-epidemic.cc:170`), is dead, and an
  empty bundle is recorded in its place (`:438`).
* The byte counter drifts. `InsertBundle` counts a bundle before `DoInsert` makes this
  node its custodian (`bp-bundle-router.cc:297`, `bp-rt-epidemic.cc:211`), and a
  dictionary has 4 octets for each different endpoint (`bp-dictionary.cc:102`). A bundle
  that comes from its source has its custodian for a source, so it is counted 4 octets
  short and taken off in full; one that comes back to its source is counted 4 octets
  over. While the counter is short there seems to be more room than there is, and the
  buffer may exceed `m_maxBytes`; once it is below zero `m_nBytes` wraps, and with it
  the free room wraps back to more than `m_maxBytes`. Nothing sets the counter right
  again. With 5,000,000 bytes, the default, what a run of a simulation adds up to is
  little beside the buffer. `Accounted` allows this drift and no other.
* The number of copies is an SDNV of the header, so halving one of 128 or more would
  change a held bundle's size too. It takes 1,270 nodes to have that many, and the
  table of receivers has room for 400; `Size` leaves it out.
* `GetNextRouterSpecific` and `DoTransmissionCancelled` use the contact of a link
  without a check.
* `MakeRoomForBundle` of the trend router indexes a list that the hello of the last
  ten seconds may have emptied without its counters, and passes the comparison
  `eid > fuzzy` for an endpoint, a parenthesis being misplaced.

The number of an answer:

* A replication factor of 20 marks an answer of the custody exchange
  (`bp-bundle-protocol-agent.cc:190`), and the agent gives every bundle the factor
  `int(nodes * 0.1) + 1` (`:151`), whatever the router. With 190 to 199 nodes that is
  20: whoever gets the bundle takes it for an answer that says no, to a blank
  identifier, and ignores it. At the destination the convergence layer has by then
  acknowledged it as final (`bp-convergence-layer-agent.cc:1018`), so the sender takes it
  for delivered and deletes the last copy. `NeverLost` excepts a bundle with that
  factor, and it alone.
* Halving comes to 20 as well: with 390 to 399 nodes a bundle of spray and wait starts
  with 40 copies, and the first transfer has half of them; with 380 to 399 nodes one of
  ORWAR starts with 39 or 40, of which the first copy takes the larger half.

Spray and wait:

* In wait mode the bundle is for its destination only (`bp-rt-sprayandwait.cc:142`),
  but the destination is noted before the transfer, so that one that fails is not
  repeated; and the last copy halved is none.

Custody:

* The destination notes a bundle as delivered before it asks for room for it
  (`bp-bundle-protocol-agent.cc:243`). If there is none custody is refused; offered
  again, the bundle is answered as accepted, under the comment that the node
  already has it (`:203`), and the sender deletes the last copy of what no program
  got.

Registrations:

* `Register` for the name of anybody gives -1. A registration used after
  `Unregister` dereferences null. One that registers twice forgets its first
  endpoint, which stays and delivers as well: a bundle is handed up once for each
  endpoint, not for each program.
* A bundle that reaches its destination before a program registers is noted as
  delivered and buffered, and nothing hands it up later.
* The call that hands a bundle up is scheduled on the bare endpoint, which may be
  deleted in the same instant; the model has no step from there.

ORWAR:

* A CWI or KDM that the agent gave up on and that is acknowledged while the link
  is paused leaves the set-up stuck until the timer closes it. One end may be
  READY while the other waits for the KDM until its timer closes it.
* A late CWI answer opens a link that was closed, in `R_RECEIVED_CWI` and without a
  timer. `OpenIsTimed` says that this is the only state in which a link is open
  without one; with messages late enough both ends may be in it.
* A node may be READY without having heard the KDM that its peer would send now: an
  acknowledgement of what is gone lets the router send its CWI a second time, and
  the copy that arrives last opens the contact anew at the peer, which answers it,
  while the KDM was generated before. What is forwarded then may be known to be
  delivered at the peer; it is only sent in vain.
* The acknowledgement of the destination is final before its agent decides. It may take
  the bundle for an answer, refuse one as large as the buffer
  (`bp-orwar-router-changed-order.cc:343`), or find no program registered for it
  (`bp-bundle-protocol-agent.cc:391`): the sender notes it as delivered all the same,
  tells its peers, and they delete it. `KnownHasArrived` says that it came there, no more.
* `DoAcceptBundle` does not ask `m_kdm`, so a bundle known to be delivered is taken
  again. Copies are not bounded: one whose acknowledgement is lost is counted twice.

Fuzzy rules:

* One of the rules for very near was written with very far
  (`trend-of-delivery.xfs.cpp:363`). It does no harm, because inference cuts the
  speed off below where it would apply.
* Where no rule applies the answer is 0.5, which is trusted. That is on the line
  between two directions, and for a node that goes straight away from the
  destination, when rounding takes the argument of `acos` beyond 1.
* A node at rest is given the worst direction and is trusted within 350 m only.
* Turning towards the destination may cost trust; coming nearer may lower the
  tendency, for rules are mixed by the greater degree and not by the sum, but
  never below what is trusted.
* The angle that the range of a node spans is worked out from absolute
  coordinates and may be anything. Up to 60 degrees the directions do not
  overlap, and a node that goes the best way is trusted whatever its speed; beyond,
  as with 61 degrees, it may not be. At 180 degrees all is one direction. `RulesAnswer`
  is about spans of 2 degrees and more: with 1 degree, 179 is the line between the two
  last directions, and every course beyond it is cut off to 179, so has no answer.

Messages:

* Custody signals and status reports are not read back as they were written; the
  agent never sends one. `OthersAreRead` says what of them is kept, and that a status
  report is longer than it announces.

## 4. Proofs

**LinkLayer_proofs**, the sending half: for any peers, bundles, segments and
bounds, assuming `SenderAssumption` only. None of the invariants is inductive alone.
That a search finds the head needs that nothing behind the head was begun
(`OneTransfer`) and that what is awaited is the head (`AwaitedIsHead`); that
`AwaitedIsHead` survives a report needs that the segment in flight is of the
head (`InFlightIsHead`). Together with the type invariant and `NeverStalled`
they are inductive: `IInv`, one lemma for each action. `FindHead` is the lemma on
searches: `Find` of the key of the head gives 1. `OutboxImplemented` follows:
every step, in a state of `IInv`, is a step of `Outbox` or leaves it unchanged.

The sending half with its peers (`BundleTransfer`), however often frames are lost,
links break and acknowledgements come late: what a peer hands up is one bundle and
all of it (`BundlesAreWhole`), and a bundle reported sent was handed up by the peer it
is reported for (`ReportsAreTrue`). A peer does not compare what it holds with the
bundle a segment is of, only the numbers, and counts the segments. So `TransferInv`
adds to `IInv` that

* the numbers in the queue are different and below the next (`NumberedInv`);
* what a peer holds under a number is pieces of one bundle, none twice, and of the
  bundle in the queue with that number, if there is one (`PiecesInv`): a new bundle
  has a number that no peer holds anything under (`QueueingKeeps`), and as many
  different pieces as there are segments are the whole (`AllPieces`);
* what is scheduled to be put together is whole, if it is still there (`DueInv`);
* a peer acknowledges only what it handed up (`AcksInv`), and a report follows an
  acknowledgement.

`TransferAssumption` says that fewer bundles are queued than there are sequence
numbers. The code does not see to that: after 65,536 bundles the number comes round,
and `AssembledIntact` then rests on what was left of an old bundle being gone.

**LinkLayer_proofs**, the links: for any peers, time to live, pause and number of
retries. The four invariants are inductive together; that a link is closed only
after a silence of `Ttl` or `MaxRetries` failures (`NotClosedEarly`) follows from
`ClosedInTime`, by which the timer can only fire for a link silent for as long
or set again, and from the type invariant.

**DataLemmas** has what the proofs about routers and networks need of data. The
installed provers cannot instantiate the library's induction theorems, which take
an operator. They can use those that take a set: that the order of the natural
numbers is well founded gives a least member to every set of them
(`LeastNatural`), hence induction stated for a set (`NatInduct`). From it follow
what `SumFunctionOnSet` is of a set with one member less or more, of a part, of
two parts (`TotalWithout`, `TotalWith`, `TotalOfPart`, `TotalSplit`), and what
`Selected` leaves of a list: the entries meant, each once, in their order
(`SelectedPicks`, `SelectedHasWhatIsKept`, `SelectedKeepsOrder`). On these rest
`Booked`, that the counter of bundles is that of the list, without repetitions, and that
of bytes within the room, and `Reported`, that a
router waits only while the agent has something to report, with one lemma for
each way in which a handler changes them.

**EpidemicRouter_proofs**: for any peers, bundles, sizes of bundles in the buffer and as
they come, room, and bounds. Four results, from three invariants:

* `NeverWaitsInVain` (`SendingEndsInReport`): while the router thinks that it is
  sending, a bundle is on its way to the agent, or the agent has one that was not
  called off. Inductive with the fact that `handoff` and `outbox` are lists
  (`WaitInv`).
* `BooksAreKept` (`Accounted`), an action property: in no step do the counter of bytes and
  the list move apart but by what a bundle that comes in grew after it was counted. It
  needs that no bundle is in the list twice, since deleting takes one entry and one
  size off, and that `InsertBundle` counts only what `MakeRoomForBundle` left room for
  (`BufferInv`). After the last hello, which empties the list without the counters,
  what is left is that the counter of bytes is within the room. The size of the drift
  is bounded in the runs alone; the theorem holds for any `DriftBound`.
* `DeletedIsCalledOff` (`SendsWhatIsHeld`): what goes to the agent is held, and
  stays so or is marked, in every handler that deletes (`HeldInv`).
* `LooksAreDue` (`LookIsDue`), for a router that does not look by a timer of its
  own, as the epidemic, spray and Prophet routers do not: whenever the router holds
  anything and is not sending, a look is due (`DueInv`), whether or not it has a
  link to send it on. `NotNow` is the step that uses a look up. The
  hypothesis `~Polling` is that: the one router with a timer is in `Relays_proofs`.

What a handler of any relaying router does to these invariants is one of a few
things: it deletes and goes on (`Deletes`), inserts (`Inserts`), handles what the
agent reports (`Handles`), looks (`Looks`), or passes an answer of the custody
exchange on (`Exchanges`). `RelayingKeeps` says that `WaitInv`, `BufferInv` and
`DueInv` survive each of them (`Relaying`).

**Relays_proofs**: for a node with any of the four relaying routers, in any set of
scenes, `Accounted`, `SendingEndsInReport` and `LookIsDue` hold. Each router's
actions are shown to be of the kinds above (`EpidemicRelays`, `SprayRelays`,
`ProphetRelays`, `TrendRelays`), through two instances of `EpidemicRouter_proofs`,
one without a timer and one with. The inductive invariant joins `WaitInv` and
`BufferInv` with `DueInv` for the three routers that look when a handler says
so, and with `tries = 1` for the trend router: its timer is set
once, always. Making room needs an argument for each router, since each chooses
otherwise what goes: that what is left is part of the list, and leaves the room.

**DirectDeliveryRouter_proofs**: the same for that router (its
`SendingEndsInReport` is no property of the run `direct`, which has others that
say more of it), and what is its own. `HellosTellOfBundles` needs that the counter
is that of the list, since the code starts and stops the hellos by the counter
(`HelloInv` with `BufferInv`). `LooksAreDue`, under the same hypothesis, needs that a
look is due while a bundle is held for a connected peer that did not acknowledge
it (`DueInv`).
`TheOldestStay` is an action property: what making room
leaves is the beginning of the list of what is not expired (`OldestLeft`), and
`SelectedKeepsOrder` says that the order there is that of the list.

**Bundles_proofs**, custody: for a network of any size, either router, and any
number of messages under way, the application gets the bundle at most once
(`DeliveredOnce`), and the exchange never loses the last copy, unless the bundle has the
number of an answer (`CustodyNeverLoses`): the theorem is about networks of any size but
190 to 199 nodes, where the agent gives all bundles that number.
`NeverLost` says nothing of who holds the bundle and is far from inductive. The
argument: number the nodes in the order in which they first asked for custody.
No node takes the bundle once it has a number, so whoever answers that it took
custody has none yet or a later one than the node that is answered, and a node
that was made to delete the bundle always has a holder that comes later
(`Ordered`). The numbering is not in the model: `LossInv` says that there is one.

**SprayNetwork_proofs**: for any network, any number of copies, of transfers and of
programs:

* `NobodyIsSprayedTwice` (`SprayedOnce`). The table of receivers never forgets, but
  `Send` at the source begins it anew. So the invariant has two parts: who was
  offered the bundle is in the table (`Noted`), and before the source is in the
  table nobody has the bundle (`Unknown`).
* `CopiesAreNeverMade` (`CopiesBounded`): the sums over who holds the bundle and over
  the transfers that have not arrived are followed through each action. They are
  over finite sets, whatever the network, which is part of the invariant
  (`CopiesInv`).
* `RegistrationsPointAtEndpoints` (`NoDanglingEndpoint`) needs that no two endpoints
  have the same registration and number (`EndpointInv`): otherwise `DeAllocate`
  would take the endpoint of another away, and the pointer would dangle.
* `EndpointsHandUpOnce` (`HandedUpOnce`): until the destination notes the bundle
  nothing is scheduled; from then on an endpoint is scheduled at most once, and
  one that has handed up is not (`UpInv`). That a list of endpoints has none twice
  carries over to what `Lookup` selects from it.

**OrwarNetwork_proofs**: for any number of copies and of retries, any window, any
number of messages listed and under way:

* `DeletedOnlyIfArrived` (`KnownHasArrived`). What a node knows comes from what it
  is told, so everything that is listed or under way has to be true as well
  (`Tells`), and so has the acknowledgement by the node that the bundle is for: one
  may come only after the bundle arrived there (`Truthful`). Most of what a handler
  does is to forget or to call off: `Quiet` says so, and is kept in sequence
  (`QuietThen`).
* `OpenLinksAreTimed` (`OpenIsTimed`): a link that is closed has nothing listed, so that
  one opened by a late message has nothing to say (`Timed`).

Until it was proved, the model took away what was called off, and had one message
under way. `OpenIsTimed` then said more, that not both ends are without a timer, and
a further property that a node that is READY has heard the KDM. Neither is so once
messages may be late, and both are now among what was seen while modelling.

**Bundles_proofs**, timestamps: `TimestampsTellApart` (`StampsRunAhead`), for any
beginning, any number of nanoseconds and of timestamps. The sequence of each timestamp
is the nanoseconds of its instant and, on top of them, how many were made at that
instant before it (`Placed` in `StampsInv`). So two are never alike at one instant,
and two that are alike at different ones are less far apart than the first instant
had timestamps.

**Bundles_proofs**, what goes on the air: for any endpoints, requests, numbers of
copies and hops, a bundle is as long as its size says (`SizeOfPacket`, of
`SizeIsOctets`), the next node reads it as it was sent (`BundleReadBack`, of
`SentIsRead`), and it keeps what it is known by (`BundleKeepsIdentity`, of
`KeepsIdentity`). `WireTyped` has the types, and `StampsRunAhead` once more for the
clock that `Wire` runs.

* The state needs little: the bundle is one that a node can have (`Carried`), tells the
  same as the one made (`Same`), and what is on the air is its packet
  (`FollowedInv`; with `StampsInv` it is `WireInv`). A setter keeps what a bundle is
  known by (`FollowedChanged`); a packet that is read gives back the bundle
  (`ReadAgain`).
* The rest is that reading undoes writing, whatever is behind what is read. It goes up
  from the number to the bundle: an SDNV (`GroupsAreDigits`,
  `SdnvIsRead`), numbers of a fixed width (`FourOctetsWritten`), words of flags
  (`FlagsOfIs`), one field (`FieldIsRead`), lists of fields (`WriteAllIs`,
  `ReadAllIs`), the dictionary, the primary header (`PrimaryIsRead`), the block of the
  payload (`CanonicalIsRead`, `OneBlock`), and the bundle (`BundleIsRead`).
* A recursive function is in TLA+ a choice among the functions that satisfy its
  equation, so first there has to be one. `RecursionExists` makes it, with values up to
  a given number; `RecursionAgrees` says that there is no other. Both go by induction
  stated for a set (`NatInduct`), as do the lemmas on digits and lists.

`WireAssumption` has what the code leaves to its callers. An endpoint id fits the 32
bits that a dictionary has for it. Of the flags a program asks for, none marks a
fragment: nothing in the code makes one, and a header that said so would be written
with two more fields. Times, lifetimes and lengths are natural numbers: the code has
them in at most 64 bits, which a simulation does not fill.

**Relays_proofs**, the rules: `AnswerOfRules` (`RulesAnswer`), for every span of the
range from 2 degrees on, every course, distance and speed. `Directed` says that one
of the directions holds to some degree wherever the property does not except it,
`Ranged` and `Moving` the same of distances and of the speeds that inference lets
through: each counts as low to some degree. For a low speed there is a rule for every
direction and distance (`SlowRules`), so one fires; of the others one is missing,
the misprinted one.

Assumed is nothing but the assumptions on constants, which TLC evaluates in the
runs. Three of them say more than the type of a constant. A bundle has a size of at
least one octet, as its headers alone take more. Only programs at the
destination register its name: `one-traffic-helper.cc:68` registers each program
under the name of its own node, and nothing else in the repository registers any.
And `TransferAssumption`, above.

Only model-checked, and why:

* All liveness properties (`QueuesDrain`, `PauseEnds`, `AllIsOffered`): the prover
  does no fairness.
* `TrustIsEarned` and `NearerStaysTrusted`. The tendency is a quotient of sums of
  products of rounded quotients, and the bounds are tight: that a fast node in the
  best direction is trusted holds for a span of 60 degrees and fails for 61. The
  provers do not get there. The corners of every triangle, where the function
  bends, and the places beside them are in the run.
* `OthersAreRead` of `Wire`, for the messages other than bundles: each kind has its
  own lists and doubles. The lemmas on fields and lists that the bundle rests on are
  those that a proof would begin with.

## 5. Plan

Done: every module above, and the proofs above. What is left:

1. `SendsWhatIsHeld` for the three other relaying routers, where answers go out
   beside the bundles: it holds of what is not an answer.
2. `OthersAreRead` for every message, from the lemmas on fields and lists.

## 6. Not modelled

* The data gatherer, the helpers and the main programs: statistics, traces, and
  the wiring, which was read and is what the models follow. The loop over all nodes
  in `BundleRouter::SetBundleReceived` counts for statistics.
* `bp-neighbourhood-detection-agent-cw.cc`, which would not compile. ORWAR as a
  whole is not built by `wscript`; it is modelled from its source.
* How positions, the angle of the range and the life of a link come about:
  floating point. Their outcome may be anything in `TrendRouter`, and the places
  of the instance in `Tendency`. `link-life-time.h` also reads a variable that is
  not set. `ieee754.cc` is taken for a double's eight octets.
* The operators of the fuzzy library that no rule uses.
* Fragments: no bundle is ever fragmented. They are in the format only.
* Disposal, logging, printing, getters and comparison operators.
* Past a row of 400 receivers, and past the wrap of the 16-bit sequence number,
  which the models do not reach; see the hazards.

Times are left out of all models but those of the links, of ORWAR's window and of
timestamps, so that every order of events is possible there that some choice of
the times would give, and more.
