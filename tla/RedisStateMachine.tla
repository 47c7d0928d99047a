------------------------- MODULE RedisStateMachine --------------------------
(***************************************************************************)
(* The state machine of one replica on a Redis database of its own         *)
(* (redis-state-machine/redisCommand.ts, class RedisStateMachine).         *)
(*                                                                         *)
(* executeOperation is an async function: it runs until it awaits the      *)
(* answer to a "get", and goes on when the answer has come.  The commands  *)
(* of a replica reach Redis over one connection, in the order they are     *)
(* issued, and are answered in that order: what a "get" will return is     *)
(* settled when it is issued, and those who wait go on in turn.            *)
(*                                                                         *)
(* A machine is a record: the stored values, and the operations that await *)
(* an answer.  Values are integers, so division is left out.               *)
(***************************************************************************)
EXTENDS Integers, Sequences

CONSTANTS
  Key,        \* the keys of the database
  Uuid,       \* operation identifiers
  Command     \* the commands that can occur

Operators == {"=", "+", "-", "*", "<-"}

ASSUME CommandAssumption ==
  Command \subseteq [key : Key, operator : Operators, value : Int]

\* An operation awaits the value it starts from ("read") or the one it returns
\* ("result"); in both cases it is known already.
Await == [uuid : Uuid, command : Command, phase : {"read", "result"},
          value : Int]

Machine == [store : [Key -> Int], awaiting : Seq(Await)]

\* An absent key reads as null, which Number turns into 0.
EmptyMachine == [store |-> [k \in Key |-> 0], awaiting |-> <<>>]

Awaiting(uuid, command, phase, value) ==
  [uuid |-> uuid, command |-> command, phase |-> phase, value |-> value]

NewValue(command, old) ==
  CASE command.operator = "+" -> old + command.value
    [] command.operator = "-" -> old - command.value
    [] command.operator = "*" -> old * command.value
    [] OTHER -> command.value

\* Mutation: the operand is returned, not the value read back.
WriteReturningOperand(machine, uuid, command, value) ==
  [machine EXCEPT
     !.store[command.key] = value,
     !.awaiting = Append(@, Awaiting(uuid, command, "result", command.value))]

\* "set" is not awaited; the "get" that follows returns what it has set.
Write(machine, uuid, command, value) ==
  [machine EXCEPT
     !.store[command.key] = value,
     !.awaiting = Append(@, Awaiting(uuid, command, "result", value))]

Get(machine, uuid, command, phase) ==
  [machine EXCEPT
     !.awaiting = Append(@, Awaiting(uuid, command, phase,
                                     machine.store[command.key]))]

\* executeOperation up to its first await.
ExecuteOperation(machine, uuid, command) ==
  IF command.operator = "="
  THEN Write(machine, uuid, command, command.value)
  ELSE Get(machine, uuid, command, "read")

\* The answer that was issued first has come.
Answered(machine) == Head(machine.awaiting)
Dequeue(machine) == [machine EXCEPT !.awaiting = Tail(@)]

\* From the first await to the second.
Resume(machine) ==
  LET a == Answered(machine)
  IN  IF a.command.operator = "<-"
      THEN Get(Dequeue(machine), a.uuid, a.command, "result")
      ELSE Write(Dequeue(machine), a.uuid, a.command,
                 NewValue(a.command, a.value))
=============================================================================
