----------------------------- MODULE Timestamps -----------------------------
(***************************************************************************)
(* Creation timestamps, by which the bundles of a node are told apart.     *)
(* All nodes of the simulation share the time and the sequence of the last *)
(* one, and every timestamp that is made without a value moves them.       *)
(***************************************************************************)
EXTENDS Integers, Sequences, FiniteSets

CONSTANTS
  Begin,       \* the time, in seconds and nanoseconds, at which the model begins
  TickBound,   \* bound: the nanoseconds that pass
  StampBound   \* bound: the timestamps made

Second == 1000000000

ASSUME TimestampsAssumption ==
  /\ Begin \in Nat \X Nat /\ Begin[2] < Second
  /\ TickBound \in Nat /\ StampBound \in Nat

VARIABLES
  now,       \* the nanoseconds passed
  previous,  \* m_previousTime and m_previousSeq, static to all nodes
  made       \* all timestamps made, and when

stampVars == <<now, previous, made>>

Stamp == [time : Nat, sequence : Nat]

StampsTypeOK ==
  /\ now \in 0..TickBound
  /\ previous \in [at : -1..TickBound, sequence : Nat]
  /\ made \in Seq([at : 0..TickBound, stamp : Stamp])

(* The last timestamp is of the beginning of time, or long ago. *)
StampsInit ==
  /\ now = 0
  /\ previous = [at |-> IF Begin = <<0, 0>> THEN 0 ELSE -1, sequence |-> 0]
  /\ made = <<>>

Seconds == (Begin[2] + now) \div Second + Begin[1]

Nanoseconds == (Begin[2] + now) % Second

(* Mutant: the sequence of the last timestamp is not kept. *)
SameForAll == Nanoseconds

(* At the same instant as the last timestamp, the sequence goes on by one. *)
Sequence ==
  IF previous.at = now /\ Nanoseconds <= previous.sequence
  THEN previous.sequence + 1
  ELSE Nanoseconds

(* The constructor. *)
CreationTimestamp ==
  /\ Len(made) < StampBound
  /\ previous' = [at |-> now, sequence |-> Sequence]
  /\ made' = Append(made, [at |-> now, stamp |-> [time |-> Seconds, sequence |-> Sequence]])
  /\ now' = now

Tick ==
  /\ now < TickBound
  /\ now' = now + 1
  /\ UNCHANGED <<previous, made>>

StampsSpec == StampsInit /\ [][Tick \/ CreationTimestamp]_stampVars

-----------------------------------------------------------------------------

(* How many timestamps were made at instant t.  At the beginning of time   *)
(* one counts as made.                                                     *)
MadeAt(t) ==
  Cardinality({k \in DOMAIN made : made[k].at = t})
    + (IF t = 0 /\ Begin = <<0, 0>> THEN 1 ELSE 0)

(* Two bundles of a node have the same identifier only if the timestamps   *)
(* ran ahead of the clock: more of them were made at one instant, by       *)
(* whomever, than nanoseconds passed until the other was made.             *)
StampsRunAhead ==
  \A i, j \in DOMAIN made :
    i < j /\ made[i].stamp = made[j].stamp =>
      /\ made[i].at < made[j].at
      /\ made[j].at - made[i].at < MadeAt(made[i].at)
=============================================================================
