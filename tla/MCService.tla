----------------------------- MODULE MCService ------------------------------
(***************************************************************************)
(* Instances of Service for TLC: clients, their commands, their leaders.   *)
(***************************************************************************)
EXTENDS Service

Add(value) == [key |-> "A", operator |-> "+", value |-> value]
Assign(value) == [key |-> "A", operator |-> "=", value |-> value]
Read == [key |-> "A", operator |-> "<-", value |-> 0]

AllCommands == {Add(1), Add(5), Assign(5), Assign(-1), Read}
ValidCommands == AllCommands \ {Assign(-1)}

\* One client writes and reads what another writes, too.
AddAndRead == [a |-> <<Add(5), Read>>, b |-> <<Add(1)>>]

\* Both write; then one reads and the other asks for something invalid.
WriteAndRead == [a |-> <<Assign(5), Read>>, b |-> <<Add(1), Assign(-1)>>]

\* Both take the lowest server for the leader, as the other servers do; or one
\* takes another.
LeaderContacts == [a |-> {1}, b |-> {1}]
DifferentContacts == [a |-> {1}, b |-> {2}]

\* All servers accept all writes; or only the last accepts those of both clients.
AllServers == [a |-> Server, b |-> Server]
OneServerOfBoth == [a |-> Server \ {1}, b |-> {1, N}]

\* Only the first is impatient, or neither is.
FirstRetries == [a |-> 1, b |-> 0]
NoRetries == [a |-> 0, b |-> 0]
=============================================================================
