---------------------------- MODULE Registrations ----------------------------
(***************************************************************************)
(* The registrations of programs with the agents of their nodes, and the   *)
(* endpoints that the registration managers keep for them.  A bundle is    *)
(* handed up through the endpoints that have its destination's name, by a  *)
(* call that each schedules for later in the same instant.                 *)
(***************************************************************************)
EXTENDS Integers, Sequences, SequencesExt, FiniteSets, Selection

CONSTANTS
  Registration, \* the registrations
  Home,         \* the node of each
  Name,         \* the endpoint ids that each program registers
  AllocBound    \* bound: how often each registers

VARIABLES
  endpoints,    \* m_endpoints of all managers
  regEndpoint,  \* m_regEndpoint: the number of the endpoint, or none
  agent,        \* whether m_bpa is set
  registered,   \* m_registered
  scheduled,    \* the endpoints that are to hand the bundle up
  deliveryQueue, \* m_deliveryQueue, of bundles that all look alike
  allocated,    \* how many endpoints each registration was given
  handedUp      \* how often each endpoint handed the bundle up

regVars == <<endpoints, regEndpoint, agent, registered, scheduled, deliveryQueue,
             allocated, handedUp>>

None == 0

Number == 1..Max({AllocBound[r] : r \in Registration})

Endpoint == [reg : Registration, number : Number, eid : UNION {Name[r] : r \in Registration}]

RegTypeOK ==
  /\ endpoints \in Seq(Endpoint) /\ scheduled \in Seq(Endpoint)
  /\ regEndpoint \in [Registration -> Number \cup {None}]
  /\ agent \in [Registration -> BOOLEAN] /\ registered \in [Registration -> BOOLEAN]
  /\ deliveryQueue \in [Registration -> Nat]
  /\ allocated \in [Registration -> Number \cup {0}]
  /\ handedUp \in [Registration \X Number -> Nat]

RegInit ==
  /\ endpoints = <<>> /\ scheduled = <<>>
  /\ regEndpoint = [r \in Registration |-> None]
  /\ agent = [r \in Registration |-> TRUE]
  /\ registered = [r \in Registration |-> FALSE]
  /\ deliveryQueue = [r \in Registration |-> 0]
  /\ allocated = [r \in Registration |-> 0]
  /\ handedUp = [e \in Registration \X Number |-> 0]

-----------------------------------------------------------------------------

(* The endpoint of a registration, when it has one. *)
IsOf(e, r) == e.reg = r /\ e.number = regEndpoint[r]

(* The manager of a node has an endpoint of that name. *)
LookupLocal(n, eid) == \E e \in ToSet(endpoints) : Home[e.reg] = n /\ e.eid = eid

(* Those that it has. *)
Lookup(n, eid) ==
  Selected(endpoints, {e \in ToSet(endpoints) : Home[e.reg] = n /\ e.eid = eid})

(* Allocate makes an endpoint, whatever the manager has of that name. *)
Allocate(r, eid) ==
  endpoints' = Append(endpoints, [reg |-> r, number |-> allocated[r] + 1, eid |-> eid])

(* DeAllocate deletes the endpoint. *)
DeAllocate(r) ==
  endpoints' = Selected(endpoints, {e \in ToSet(endpoints) : ~IsOf(e, r)})

(* Register points at a new endpoint and sets its callbacks.  One that     *)
(* there was stays with the manager, and its callbacks with it.  The name  *)
(* of anybody is refused, with no effect.                                  *)
Register(r, eid) ==
  /\ agent[r] /\ allocated[r] < AllocBound[r]
  /\ Allocate(r, eid)
  /\ regEndpoint' = [regEndpoint EXCEPT ![r] = allocated[r] + 1]
  /\ registered' = [registered EXCEPT ![r] = TRUE]
  /\ allocated' = [allocated EXCEPT ![r] = @ + 1]
  /\ UNCHANGED <<agent, scheduled, deliveryQueue, handedUp>>

(* Mutant: the endpoint that is deleted does not call back. *)
KeepPointer(r) == UNCHANGED <<regEndpoint, agent>>

(* The endpoint calls back when it is deleted.  The registration has no    *)
(* agent then: to register or unregister again ends the program.           *)
Destroy(r) ==
  /\ regEndpoint' = [regEndpoint EXCEPT ![r] = None]
  /\ agent' = [agent EXCEPT ![r] = FALSE]

Unregister(r) ==
  /\ agent[r] /\ regEndpoint[r] # None
  /\ DeAllocate(r)
  /\ Destroy(r)
  /\ registered' = [registered EXCEPT ![r] = FALSE]
  /\ UNCHANGED <<scheduled, deliveryQueue, allocated, handedUp>>

(* ForwardUp of each endpoint of that name. *)
ForwardUp(n, eid) ==
  /\ scheduled' = scheduled \o Lookup(n, eid)
  /\ UNCHANGED <<endpoints, regEndpoint, agent, registered, deliveryQueue, allocated,
                 handedUp>>

(* The call comes about.  That of an endpoint deleted meanwhile ends the   *)
(* program.                                                                *)
DoForwardUp ==
  /\ scheduled # <<>>
  /\ LET e == Head(scheduled)
     IN  /\ e \in ToSet(endpoints)
         /\ deliveryQueue' = [deliveryQueue EXCEPT ![e.reg] = @ + 1]
         /\ handedUp' = [handedUp EXCEPT ![<<e.reg, e.number>>] = @ + 1]
  /\ scheduled' = Tail(scheduled)
  /\ UNCHANGED <<endpoints, regEndpoint, agent, registered, allocated>>

(* The program takes a bundle from the queue. *)
Recv(r) ==
  /\ deliveryQueue[r] > 0
  /\ deliveryQueue' = [deliveryQueue EXCEPT ![r] = @ - 1]
  /\ UNCHANGED <<endpoints, regEndpoint, agent, registered, scheduled, allocated, handedUp>>

RegNext ==
  \/ DoForwardUp
  \/ \E r \in Registration : \/ Unregister(r) \/ Recv(r)
                             \/ \E eid \in Name[r] : Register(r, eid)
=============================================================================
