-------------------------- MODULE AtomicBroadcast ---------------------------
(***************************************************************************)
(* The three-staged (Init, Echo, Ready) broadcast by which the replicas of *)
(* a Trebizond cluster agree to execute an operation, and its execution    *)
(* (trebizond-server/server.ts, class TrebizondServer, on top of           *)
(* ServerNetworkController).                                               *)
(*                                                                         *)
(* A replica is a Node.js process: a handler runs to its end before the    *)
(* next one starts, so a handler is one action.  Handlers call each other  *)
(* (a replica hands its own Echo and Ready to itself); the operators       *)
(* CheckPhase1..3 are those nested calls as functions on the log entry of  *)
(* the operation.  Only the promise of StateMachine.executeOperation       *)
(* leaves the handler, and its continuation is an action of its own.       *)
(*                                                                         *)
(* Messages are never taken out of "sent": a message may arrive late,      *)
(* never, or more than once (the handlers keep the first one only).  A     *)
(* message carries its true sender, which checkObjectSignature is there to *)
(* guarantee.  A faulty replica may send anything in its own name, to any  *)
(* one replica, at any time; its own state is not modelled.                *)
(***************************************************************************)
EXTENDS Thresholds, FiniteSets, Sequences

CONSTANTS
  Replica,      \* the ids of the servers, numbers
  Faulty,       \* the replicas that do not follow the protocol
  Asked,        \* the pairs <<r, op>> such that clients ask r for op (a bound)
  Executor,     \* the correct replicas whose state machine settles (a bound)
  FaultySends,  \* the messages that faulty replicas may send (a bound)
  Uuid,         \* operation identifiers
  Client,       \* client ids
  Command,      \* the state machine's own operations
  Valid,        \* the commands that semanticValidation accepts
  ReadOnly,     \* the commands for which isReadOperation holds
  Op,           \* the signed client operations that can occur
  None          \* no operation, no uuid

N == Cardinality(Replica)
F == LowerBoundThreshold(N)
Correct == Replica \ Faulty

ASSUME ClusterAssumption ==
  /\ Replica \subseteq Nat
  /\ IsFiniteSet(Replica)
  /\ N >= 2
  /\ Faulty \subseteq Replica
  /\ Cardinality(Faulty) <= F
  /\ Executor \subseteq Correct

\* A client may send one uuid with more than one content: a retry sets the
\* broadcast flag of the same operation (trebizondClient.ts:232).
ASSUME OperationAssumption ==
  /\ Op \subseteq [uuid : Uuid, client : Client, command : Command,
                   broadcast : BOOLEAN]
  /\ Asked \subseteq Correct \X Op
  /\ FaultySends \subseteq [type : {"Init", "Echo", "Ready"}, op : Op,
                             from : Faulty]
  /\ Valid \subseteq Command
  /\ ReadOnly \subseteq Command
  /\ None \notin Op
  /\ None \notin Uuid

VARIABLES
  messagesLog,  \* messagesLog[r][u]: what r knows of operation u
  log,          \* log[r]: the operations of r's block chain, in order
  clientLastOp, \* clientLastOp[r][c]: uuid of c's operation last executed by r
  reading,      \* reading[r]: read operations r is executing
  sent,         \* messages sent to other replicas
  answers       \* single replies handed to the socket of the clients

vars == <<messagesLog, log, clientLastOp, reading, sent, answers>>

-----------------------------------------------------------------------------
(* Types *)

\* One stage of an entry: the operation each replica's message carried.
Slots == [Replica -> Op \cup {None}]

\* AtomicBroadcastMessageLog.  "accepted" also remembers the operation that was
\* handed to the state machine; "executing" holds those still in its hands.
Entry == [init : Slots, echo : Slots, ready : Slots,
          accepted : Op \cup {None}, executing : SUBSET Op]

Message == [type : {"Init", "Echo", "Ready", "SingleReply"},
            op : Op, from : Replica]

Answer == [from : Correct, uuid : Uuid]

TypeOK ==
  /\ messagesLog \in [Correct -> [Uuid -> Entry]]
  /\ log \in [Correct -> Seq(Op)]
  /\ clientLastOp \in [Correct -> [Client -> Uuid \cup {None}]]
  /\ reading \in [Correct -> SUBSET Op]
  /\ sent \subseteq [type : {"Init", "Echo", "Ready", "SingleReply"},
                     op : Op, from : Correct]
  /\ answers \subseteq Answer

-----------------------------------------------------------------------------
(* The log entry of one operation *)

NoMessages == [s \in Replica |-> None]

\* An absent entry and one with every stage empty behave alike.
EmptyEntry == [init |-> NoMessages, echo |-> NoMessages, ready |-> NoMessages,
               accepted |-> None, executing |-> {}]

Senders(slots) == {s \in Replica : slots[s] # None}
Count(slots) == Cardinality(Senders(slots))

\* Only the first message of a replica in a stage is kept.
Store(slots, s, op) ==
  IF slots[s] = None THEN [slots EXCEPT ![s] = op] ELSE slots

\* Object.values(slots)[0]: integer keys are visited in ascending order.
First(slots) ==
  IF Senders(slots) = {} THEN None
  ELSE slots[CHOOSE s \in Senders(slots) : \A t \in Senders(slots) : s <= t]

GetOperationFromLog(e) ==
  IF Senders(e.init) # {} THEN First(e.init)
  ELSE IF Senders(e.echo) # {} THEN First(e.echo)
  ELSE First(e.ready)

\* Mutation: a replica echoes again.
EchoDueAgain(r, e) ==
  Count(e.init) >= 1 /\ GetOperationFromLog(e) # None

EchoDue(r, e) ==
  /\ e.echo[r] = None
  /\ \/ Count(e.init) >= 1
     \/ ReachesEchoQuorum(Count(e.echo), N)
     \/ Count(e.ready) # F + 1
  /\ GetOperationFromLog(e) # None

ReadyDue(r, e) ==
  /\ e.ready[r] = None
  /\ \/ ReachesEchoQuorum(Count(e.echo), N)
     \/ ReachesReadySupport(Count(e.ready), N)
  /\ GetOperationFromLog(e) # None

\* Mutation: an accepted operation is accepted again.
AcceptDueAgain(e) ==
  ReachesReadyQuorum(Count(e.ready), N) /\ GetOperationFromLog(e) # None

AcceptDue(e) ==
  /\ e.accepted = None
  /\ ReachesReadyQuorum(Count(e.ready), N)
  /\ GetOperationFromLog(e) # None

\* r's own message is stored as it is broadcast.
SendEcho(r, e) == [e EXCEPT !.echo[r] = GetOperationFromLog(e)]
SendReady(r, e) == [e EXCEPT !.ready[r] = GetOperationFromLog(e)]

\* Accept the operation and hand it to the state machine.
CheckPhase3(e) ==
  IF AcceptDue(e)
  THEN [e EXCEPT !.accepted = GetOperationFromLog(e),
                 !.executing = @ \cup {GetOperationFromLog(e)}]
  ELSE e

\* The nested receiveReadyMessage checks all phases again; of them the second
\* is settled by r's own Ready, and with it the one nested in the first.
CheckPhase2(r, e) ==
  IF ReadyDue(r, e)
  THEN LET readied == SendReady(r, e)
       IN  CheckPhase3(IF EchoDue(r, readied) THEN SendEcho(r, readied)
                                              ELSE readied)
  ELSE e

\* The nested receiveEchoMessage goes on to the second phase.
CheckPhase1(r, e) ==
  IF EchoDue(r, e) THEN CheckPhase2(r, SendEcho(r, e)) ELSE e

-----------------------------------------------------------------------------
(* Handlers of the messages of the other replicas *)

\* Mutation: a replica broadcasts what it has not found, too.
OwnMessagesUnchecked(r, e) ==
  {[type |-> "Echo", op |-> e.echo[r], from |-> r],
   [type |-> "Ready", op |-> e.ready[r], from |-> r]}

\* Mutation: a replica keeps its Ready to itself.
OwnEchosOnly(r, e) ==
  {[type |-> "Echo", op |-> op, from |-> r] : op \in {e.echo[r]} \ {None}}

\* What r has broadcast of an operation besides Init, read off its entry.
OwnMessages(r, e) ==
  {[type |-> "Echo", op |-> op, from |-> r] : op \in {e.echo[r]} \ {None}}
    \cup
  {[type |-> "Ready", op |-> op, from |-> r] : op \in {e.ready[r]} \ {None}}

\* m may reach r: its sender has broadcast it, or is faulty.
Arrives(m, r) == m.from # r /\ (m \in sent \/ m.from \in Faulty)

\* r leaves entry e for operation u and has sent its new messages.
Update(r, u, e) ==
  /\ messagesLog' = [messagesLog EXCEPT ![r][u] = e]
  /\ sent' = sent \cup OwnMessages(r, e)
  /\ UNCHANGED <<log, clientLastOp, reading, answers>>

\* Each handler stores the message and checks the phases from the first on;
\* "\E e \in {v}" names the value v, which TLC then computes only once.
ReceiveInit(r, m) ==
  /\ m.type = "Init" /\ Arrives(m, r)
  /\ \E stored \in {[messagesLog[r][m.op.uuid] EXCEPT
                       !.init = Store(@, m.from, m.op)]} :
     \E e1 \in {CheckPhase1(r, stored)} : Update(r, m.op.uuid, e1)

ReceiveEcho(r, m) ==
  /\ m.type = "Echo" /\ Arrives(m, r)
  /\ \E stored \in {[messagesLog[r][m.op.uuid] EXCEPT
                       !.echo = Store(@, m.from, m.op)]} :
     \E e1 \in {CheckPhase1(r, stored)} :
     \E e2 \in {CheckPhase2(r, e1)} : Update(r, m.op.uuid, e2)

ReceiveReady(r, m) ==
  /\ m.type = "Ready" /\ Arrives(m, r)
  /\ \E stored \in {[messagesLog[r][m.op.uuid] EXCEPT
                       !.ready = Store(@, m.from, m.op)]} :
     \E e1 \in {CheckPhase1(r, stored)} :
     \E e2 \in {CheckPhase2(r, e1)} :
     \E e3 \in {CheckPhase3(e2)} : Update(r, m.op.uuid, e3)

Receive(r, m) == ReceiveInit(r, m) \/ ReceiveEcho(r, m) \/ ReceiveReady(r, m)

\* r has not yet a message of that stage from the sender of m.
Unread(r, m) ==
  LET e == messagesLog[r][m.op.uuid]
  IN  \/ m.type = "Init" /\ e.init[m.from] = None
      \/ m.type = "Echo" /\ e.echo[m.from] = None
      \/ m.type = "Ready" /\ e.ready[m.from] = None

-----------------------------------------------------------------------------
(* Handler of a client's request, dispatchClientOpRequest.  A command that  *)
(* fails the semantic validation is discarded: no action.                   *)

\* Mutation: a request is answered as soon as its operation is accepted.
AnswerAccepted(r, op) ==
  /\ op.command \in Valid
  /\ messagesLog[r][op.uuid].accepted # None
  /\ answers' = answers \cup {[from |-> r, uuid |-> op.uuid]}
  /\ UNCHANGED <<messagesLog, log, clientLastOp, reading, sent>>

\* The request repeats the client's last operation executed here.
AnswerAgain(r, op) ==
  /\ op.command \in Valid
  /\ clientLastOp[r][op.client] = op.uuid
  /\ answers' = answers \cup {[from |-> r, uuid |-> op.uuid]}
  /\ UNCHANGED <<messagesLog, log, clientLastOp, reading, sent>>

\* A read is executed at once, by this replica alone.
StartRead(r, op) ==
  /\ op.command \in Valid \cap ReadOnly
  /\ clientLastOp[r][op.client] # op.uuid
  /\ reading' = [reading EXCEPT ![r] = @ \cup {op}]
  /\ UNCHANGED <<messagesLog, log, clientLastOp, sent, answers>>

\* Mutation: the operation is marked as broadcast.
BroadcastInitMarked(r, op) ==
  /\ op.command \in Valid \ ReadOnly
  /\ clientLastOp[r][op.client] # op.uuid
  /\ \E marked \in {[op EXCEPT !.broadcast = TRUE]} :
     \E e \in {CheckPhase1(r, [messagesLog[r][op.uuid] EXCEPT
                                !.init = Store(@, r, marked)])} :
       /\ messagesLog' = [messagesLog EXCEPT ![r][op.uuid] = e]
       /\ sent' = sent \cup {[type |-> "Init", op |-> marked, from |-> r]}
                       \cup OwnMessages(r, e)
  /\ UNCHANGED <<log, clientLastOp, reading, answers>>

\* A write is broadcast in an Init, which r hands to itself as well.
BroadcastInit(r, op) ==
  /\ op.command \in Valid \ ReadOnly
  /\ clientLastOp[r][op.client] # op.uuid
  /\ \E e \in {CheckPhase1(r, [messagesLog[r][op.uuid] EXCEPT
                                !.init = Store(@, r, op)])} :
       /\ messagesLog' = [messagesLog EXCEPT ![r][op.uuid] = e]
       /\ sent' = sent \cup {[type |-> "Init", op |-> op, from |-> r]}
                       \cup OwnMessages(r, e)
  /\ UNCHANGED <<log, clientLastOp, reading, answers>>

DispatchClientOpRequest(r, op) ==
  AnswerAgain(r, op) \/ StartRead(r, op) \/ BroadcastInit(r, op)

-----------------------------------------------------------------------------
(* The promise of executeOperation is settled *)

\* Accepted operations complete in whatever order the state machine settles
\* them: the block is appended and the reply leaves on completion.
ExecutionCompletes(r, u, op) ==
  /\ op \in messagesLog[r][u].executing
  /\ messagesLog' = [messagesLog EXCEPT ![r][u].executing = @ \ {op}]
  /\ clientLastOp' = [clientLastOp EXCEPT ![r][op.client] = op.uuid]
  /\ log' = [log EXCEPT ![r] = Append(@, op)]
  /\ sent' = sent \cup {[type |-> "SingleReply", op |-> op, from |-> r]}
  /\ UNCHANGED <<reading, answers>>

\* A rejection is handled by nobody: the operation stays accepted, and is
\* neither logged nor answered.
ExecutionFails(r, u, op) ==
  /\ op \in messagesLog[r][u].executing
  /\ messagesLog' = [messagesLog EXCEPT ![r][u].executing = @ \ {op}]
  /\ UNCHANGED <<log, clientLastOp, reading, sent, answers>>

ReadCompletes(r, op) ==
  /\ op \in reading[r]
  /\ reading' = [reading EXCEPT ![r] = @ \ {op}]
  /\ answers' = answers \cup {[from |-> r, uuid |-> op.uuid]}
  /\ UNCHANGED <<messagesLog, log, clientLastOp, sent>>

ReadFails(r, op) ==
  /\ op \in reading[r]
  /\ reading' = [reading EXCEPT ![r] = @ \ {op}]
  /\ UNCHANGED <<messagesLog, log, clientLastOp, sent, answers>>

-----------------------------------------------------------------------------
Init ==
  /\ messagesLog = [r \in Correct |-> [u \in Uuid |-> EmptyEntry]]
  /\ log = [r \in Correct |-> <<>>]
  /\ clientLastOp = [r \in Correct |-> [c \in Client |-> None]]
  /\ reading = [r \in Correct |-> {}]
  /\ sent = {}
  /\ answers = {}

\* Every message that may be on its way: those sent, and any of a faulty one.
InTransit == sent \cup FaultySends

Settle(r) ==
  \/ \E u \in Uuid, op \in Op :
       ExecutionCompletes(r, u, op) \/ ExecutionFails(r, u, op)
  \/ \E op \in Op : ReadCompletes(r, op) \/ ReadFails(r, op)

Next ==
  \/ \E r \in Correct, op \in Op :
       <<r, op>> \in Asked /\ DispatchClientOpRequest(r, op)
  \/ \E r \in Correct : \E m \in InTransit : Receive(r, m)
  \/ \E r \in Executor : Settle(r)

Spec == Init /\ [][Next]_vars

\* Between correct replicas the ZeroMQ connection (TCP) delivers in the end
\* what was sent: as long as something is unread, something is read.  Nothing
\* is asked of clients, faulty replicas or promises.
ReadUnread ==
  \E r \in Correct : \E m \in sent : Unread(r, m) /\ Receive(r, m)

Fairness == WF_vars(ReadUnread)

FairSpec == Spec /\ Fairness

-----------------------------------------------------------------------------
(* Properties *)

\* The correct replicas that have sent Ready for u.
Readied(u) == {s \in Correct : messagesLog[s][u].ready[s] # None}

\* u has reached the echo quorum at some correct replica.
EchoQuorumSeen(u) ==
  \E r \in Correct : ReachesEchoQuorum(Count(messagesLog[r][u].echo), N)

\* A correct replica sends Ready for an operation only after some correct
\* replica has gathered the echo quorum for it: the F readies that the faulty
\* replicas can send never start the Ready stage (server.ts:544-549).
ReadyIsBacked == \A u \in Uuid : Readied(u) # {} => EchoQuorumSeen(u)

\* When a correct replica accepts an operation, more than F correct replicas
\* have sent Ready for it, enough to make every other correct replica send its
\* own whatever the faulty ones do (server.ts:548-549, 572-575).
AcceptIsSpread ==
  \A r \in Correct, u \in Uuid :
    messagesLog[r][u].accepted # None => Cardinality(Readied(u)) >= F + 1

\* A correct replica never sends two different Echos, or two different Readys,
\* for one uuid, although an Init of a lower id that arrives in between changes
\* the operation getOperationFromLog returns (server.ts:516-564, 662-676).
NoEquivocation ==
  \A m1, m2 \in sent :
    /\ m1.type = m2.type /\ m1.type \in {"Echo", "Ready"}
    /\ m1.from = m2.from /\ m1.op.uuid = m2.op.uuid
    => m1 = m2

\* Whatever is retried, duplicated or delayed, a replica executes an operation
\* at most once (server.ts:571-584).
AtMostOnce ==
  \A r \in Correct : \A i, j \in DOMAIN log[r] :
    log[r][i].uuid = log[r][j].uuid => i = j

\* An accepted operation is a valid write that a correct replica was asked for
\* and broadcast as it was, unless a faulty replica has vouched for it: nothing
\* is made up on the way through the stages (server.ts:247-294, 412-604).
AcceptedWasSubmitted ==
  \A r \in Correct, u \in Uuid :
    LET op == messagesLog[r][u].accepted
    IN  op # None =>
          \/ \E m \in FaultySends : m.op = op
          \/ /\ op.command \in Valid \ ReadOnly
             /\ \E s \in Correct :
                  /\ <<s, op>> \in Asked
                  /\ [type |-> "Init", op |-> op, from |-> s] \in sent

\* The answer to a request comes from a replica that has the operation in its
\* block chain, unless it was asked for a valid read under that uuid
\* (server.ts:255-278, 585-598).
AnsweredWasLogged ==
  \A a \in answers :
    \/ \E i \in DOMAIN log[a.from] : log[a.from][i].uuid = a.uuid
    \/ \E op \in Op : /\ op.uuid = a.uuid
                      /\ op.command \in Valid \cap ReadOnly
                      /\ <<a.from, op>> \in Asked

\* What a correct replica broadcasts, the correct ones accept, though a faulty
\* one is silent: once each has read all that was sent, it has accepted every
\* operation broadcast in an Init (server.ts:172-174, 505-584).
SettledIsAccepted ==
  (\A r \in Correct, m \in sent : m.from # r => ~Unread(r, m)) =>
    \A r \in Correct, m \in sent :
      m.type = "Init" => messagesLog[r][m.op.uuid].accepted # None

\* The consensus a Byzantine fault tolerant cluster owes its clients: correct
\* replicas that accept a uuid accept the same operation under it.
Agreement ==
  \A r, s \in Correct, u \in Uuid :
    LET a == messagesLog[r][u].accepted
        b == messagesLog[s][u].accepted
    IN  a # None /\ b # None => a.command = b.command

\* The broadcast implements the abstract one: an operation is supported once
\* it has reached the echo quorum at a correct replica.
RB == INSTANCE ReliableBroadcast WITH
  supported <- {u \in Uuid : EchoQuorumSeen(u)},
  delivered <- [r \in Correct |->
                  {u \in Uuid : messagesLog[r][u].accepted # None}]

\* Every step of the replicas is a step of the abstract broadcast
\* (server.ts:414-604).
ImplementsBroadcast == RB!Spec

\* Once an operation has the echo quorum at one correct replica, every correct
\* replica accepts it (server.ts:505-604).
EventualDelivery == RB!EventualDelivery
=============================================================================
