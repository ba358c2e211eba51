---------------------------- MODULE LinkManager ----------------------------
(***************************************************************************)
(* The links of one node: LinkManager, Link and Contact, with what every   *)
(* router does to them when a peer is discovered, heard from, sent to or   *)
(* failed.  A link is opened when a hello comes, it is closed when nothing *)
(* has been heard for Ttl or after MaxRetries failures, and it is paused   *)
(* for PauseTime after any other failure.                                  *)
(*                                                                         *)
(* Time is in ticks.  A timer or event is the ticks it has left; it runs   *)
(* before the clock moves past it.  Which peer is in range, and how its    *)
(* transfers end, is up to the environment.                                *)
(***************************************************************************)
EXTENDS Naturals, FiniteSets

CONSTANTS
  Remote,      \* the peers
  None,        \* no timer, no contact
  Ttl,         \* m_ttl: how long a silent link lives
  PauseTime,   \* m_pauseTime
  MaxRetries   \* m_maxRetries

ASSUME LinkAssumption ==
  /\ Ttl \in Nat \ {0}
  /\ PauseTime \in Nat
  /\ MaxRetries \in Nat
  /\ None \notin Nat

VARIABLES
  state,           \* m_state of the link to each peer; "unknown": there is none
  silence,         \* the time since m_lastHeard
  expiry,          \* the timer of the link that runs CheckIfExpired
  retransmissions, \* m_retransmissions of the contact
  pauses           \* when the UnPauseLink events scheduled are due

linkVars == <<state, silence, expiry, retransmissions, pauses>>

(* Bound: silence is counted until it is more than any that matters. *)
SilenceBound == Ttl + 1

LinkTypeOK ==
  /\ state \in [Remote -> {"unknown", "unavailable", "connected", "paused"}]
  /\ silence \in [Remote -> 0..SilenceBound]
  /\ expiry \in [Remote -> (0..Ttl) \cup {None}]
  /\ retransmissions \in [Remote -> (0..MaxRetries) \cup {None}]
  /\ pauses \in [Remote -> SUBSET (0..PauseTime)]

LinkInit ==
  /\ state = [p \in Remote |-> "unknown"]
  /\ silence = [p \in Remote |-> SilenceBound]
  /\ expiry = [p \in Remote |-> None]
  /\ retransmissions = [p \in Remote |-> None]
  /\ pauses = [p \in Remote |-> {}]

Open(p) == state[p] \in {"connected", "paused"}

-----------------------------------------------------------------------------

(* Link::Close, with the contact; the timer is cancelled before. *)
CloseLink(p) ==
  /\ state' = [state EXCEPT ![p] = "unavailable"]
  /\ expiry' = [expiry EXCEPT ![p] = None]
  /\ retransmissions' = [retransmissions EXCEPT ![p] = None]

(* A hello of p.  A link new or lost becomes available, its timer is set,  *)
(* and the router opens it at once.                                        *)
DiscoveredLink(p) ==
  /\ silence' = [silence EXCEPT ![p] = 0]
  /\ IF Open(p)
     THEN UNCHANGED <<state, expiry, retransmissions>>
     ELSE /\ state' = [state EXCEPT ![p] = "connected"]
          /\ expiry' = [expiry EXCEPT ![p] = Ttl]
          /\ retransmissions' = [retransmissions EXCEPT ![p] = 0]
  /\ UNCHANGED pauses

(* A bundle of p comes in.  It does not open a link. *)
BundleReceived(p) ==
  /\ state[p] # "unknown"
  /\ silence' = [silence EXCEPT ![p] = 0]
  /\ UNCHANGED <<state, expiry, retransmissions, pauses>>

(* An acknowledgement of p comes in. *)
BundleSent(p) ==
  /\ state[p] # "unknown"
  /\ silence' = [silence EXCEPT ![p] = 0]
  /\ retransmissions' = IF Open(p)
                        THEN [retransmissions EXCEPT ![p] = 0]
                        ELSE retransmissions
  /\ UNCHANGED <<state, expiry, pauses>>

(* Mutant: one failure too many. *)
PauseLinkOnceMore(p) ==
  /\ state[p] # "unknown"
  /\ IF state[p] # "connected"
     THEN UNCHANGED <<state, expiry, retransmissions, pauses>>
     ELSE IF retransmissions[p] > MaxRetries
          THEN CloseLink(p) /\ UNCHANGED pauses
          ELSE /\ state' = [state EXCEPT ![p] = "paused"]
               /\ retransmissions' = [retransmissions EXCEPT ![p] = @ + 1]
               /\ pauses' = [pauses EXCEPT ![p] = @ \cup {PauseTime}]
               /\ UNCHANGED expiry
  /\ UNCHANGED silence

(* A transfer to p has failed. *)
PauseLink(p) ==
  /\ state[p] # "unknown"
  /\ IF state[p] # "connected"
     THEN UNCHANGED <<state, expiry, retransmissions, pauses>>
     ELSE IF retransmissions[p] >= MaxRetries
          THEN CloseLink(p) /\ UNCHANGED pauses
          ELSE /\ state' = [state EXCEPT ![p] = "paused"]
               /\ retransmissions' = [retransmissions EXCEPT ![p] = @ + 1]
               /\ pauses' = [pauses EXCEPT ![p] = @ \cup {PauseTime}]
               /\ UNCHANGED expiry
  /\ UNCHANGED silence

(* Mutant: one that finds others scheduled calls them off. *)
UnPauseLinkAndForget(p) ==
  /\ 0 \in pauses[p]
  /\ IF Cardinality(pauses[p]) > 1
     THEN pauses' = [pauses EXCEPT ![p] = {}] /\ UNCHANGED state
     ELSE /\ pauses' = [pauses EXCEPT ![p] = @ \ {0}]
          /\ state' = [state EXCEPT ![p] = IF @ = "paused" THEN "connected" ELSE @]
  /\ UNCHANGED <<silence, expiry, retransmissions>>

(* The event takes the link out of whichever pause it is in. *)
UnPauseLink(p) ==
  /\ 0 \in pauses[p]
  /\ pauses' = [pauses EXCEPT ![p] = @ \ {0}]
  /\ state' = [state EXCEPT ![p] = IF @ = "paused" THEN "connected" ELSE @]
  /\ UNCHANGED <<silence, expiry, retransmissions>>

(* Mutant: the timer is set for a whole Ttl again. *)
CheckIfExpiredLate(p) ==
  /\ expiry[p] = 0
  /\ IF silence[p] >= Ttl
     THEN CloseLink(p)
     ELSE /\ expiry' = [expiry EXCEPT ![p] = Ttl]
          /\ UNCHANGED <<state, retransmissions>>
  /\ UNCHANGED <<silence, pauses>>

(* Mutant: it closes the link whenever it runs. *)
CheckIfExpiredAlways(p) ==
  /\ expiry[p] = 0
  /\ CloseLink(p)
  /\ UNCHANGED <<silence, pauses>>

CheckIfExpired(p) ==
  /\ expiry[p] = 0
  /\ IF silence[p] >= Ttl
     THEN CloseLink(p)
     ELSE /\ expiry' = [expiry EXCEPT ![p] = Ttl - silence[p]]
          /\ UNCHANGED <<state, retransmissions>>
  /\ UNCHANGED <<silence, pauses>>

(* The clock moves on, when nothing is due. *)
Tick ==
  /\ \A p \in Remote : expiry[p] # 0 /\ 0 \notin pauses[p]
  /\ silence' = [p \in Remote |-> IF silence[p] < SilenceBound THEN silence[p] + 1
                                                               ELSE silence[p]]
  /\ expiry' = [p \in Remote |-> IF expiry[p] = None THEN None ELSE expiry[p] - 1]
  /\ pauses' = [p \in Remote |-> {t - 1 : t \in pauses[p]}]
  /\ UNCHANGED <<state, retransmissions>>

LinkNext ==
  \/ \E p \in Remote :
       \/ DiscoveredLink(p) \/ BundleReceived(p) \/ BundleSent(p) \/ PauseLink(p)
       \/ UnPauseLink(p) \/ CheckIfExpired(p)
  \/ Tick

LinkSpec == LinkInit /\ [][LinkNext]_linkVars

(* The simulator runs what is due, and its clock goes on. *)
FairLinkSpec ==
  /\ LinkSpec
  /\ \A p \in Remote : WF_linkVars(UnPauseLink(p)) /\ WF_linkVars(CheckIfExpired(p))
  /\ WF_linkVars(Tick)

-----------------------------------------------------------------------------

(* A link that is open has a contact and a timer that runs; one that is    *)
(* closed has neither.  So a router finds the contact of a link that it    *)
(* found connected, and the timer that DiscoveredLink sets for a link lost *)
(* and found again is not running: the simulator aborts on that.           *)
OpenIsArmed ==
  \A p \in Remote : /\ Open(p) <=> expiry[p] # None
                    /\ Open(p) <=> retransmissions[p] # None

(* A silent link does not outlive Ttl, although the timer is never moved   *)
(* when the peer is heard, but set for the rest when it fires.             *)
ClosedInTime ==
  \A p \in Remote : Open(p) => silence[p] + expiry[p] <= Ttl

(* A link is not closed before its time: a step that closes one ends a     *)
(* silence of Ttl, or follows MaxRetries failures with no bundle sent.     *)
NotClosedEarly ==
  [][ \A p \in Remote : Open(p) /\ ~Open(p)' =>
        silence[p] = Ttl \/ retransmissions[p] = MaxRetries ]_linkVars

(* A paused link has an UnPauseLink to come, so it is not paused for good, *)
(* whatever events are left from contacts that have ended.                 *)
PausedIsDue == \A p \in Remote : state[p] = "paused" => pauses[p] # {}

(* A link that is paused gets out of it: the routers send nothing to it    *)
(* until then.                                                             *)
PauseEnds == \A p \in Remote : state[p] = "paused" ~> state[p] # "paused"
=============================================================================
