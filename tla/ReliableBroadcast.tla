------------------------- MODULE ReliableBroadcast --------------------------
(***************************************************************************)
(* What the three-staged broadcast of server.ts promises to the correct    *)
(* replicas of a cluster, whatever the faulty ones do: an operation is     *)
(* identified by its uuid, the cluster comes to support some operations,   *)
(* and the replicas deliver (accept) the operations the cluster supports,  *)
(* each of them once and in any order.                                     *)
(***************************************************************************)
CONSTANTS
  Correct,      \* the replicas that follow the protocol
  Uuid          \* the identifiers of operations

VARIABLES
  supported,    \* the operations the cluster has come to support
  delivered     \* delivered[r]: the operations replica r has accepted

vars == <<supported, delivered>>

TypeOK ==
  /\ supported \subseteq Uuid
  /\ delivered \in [Correct -> SUBSET Uuid]

Init ==
  /\ supported = {}
  /\ delivered = [r \in Correct |-> {}]

\* Enough replicas vouch for u: from now on it may be delivered.
Support(u) ==
  /\ supported' = supported \cup {u}
  /\ UNCHANGED delivered

\* Replica r delivers u, which the cluster supports.
Deliver(r, u) ==
  /\ u \in supported
  /\ u \notin delivered[r]
  /\ delivered' = [delivered EXCEPT ![r] = @ \cup {u}]
  /\ UNCHANGED supported

Next == \E u \in Uuid : Support(u) \/ \E r \in Correct : Deliver(r, u)

Spec == Init /\ [][Next]_vars

-----------------------------------------------------------------------------
\* No replica delivers what the cluster does not support.
DeliveredIsSupported == \A r \in Correct : delivered[r] \subseteq supported

\* All or nothing: every correct replica delivers what the cluster supports.
EventualDelivery ==
  \A u \in Uuid, r \in Correct : u \in supported ~> u \in delivered[r]
=============================================================================
