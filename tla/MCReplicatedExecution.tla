----------------------- MODULE MCReplicatedExecution ------------------------
(***************************************************************************)
(* Instances of ReplicatedExecution for TLC: the operations of the runs.   *)
(***************************************************************************)
EXTENDS ReplicatedExecution, TLC

Add == [key |-> "A", operator |-> "+", value |-> 1]
Assign == [key |-> "A", operator |-> "=", value |-> 5]

BothCommands == {Add, Assign}

\* An addition to a key; and an assignment to it, which the client has broadcast.
AddAndAssign ==
  "u1" :> [client |-> 10, command |-> Add, broadcast |-> FALSE] @@
  "u2" :> [client |-> 10, command |-> Assign, broadcast |-> TRUE]
=============================================================================
