------------------------ MODULE ReplicatedExecution -------------------------
(***************************************************************************)
(* What the correct replicas of a cluster do with the operations that the  *)
(* broadcast delivers (trebizond-server/server.ts, lines 571-737): each    *)
(* executes them on its own Redis state machine, appends them to its block *)
(* chain as they complete and sends its result in a SingleReply; the       *)
(* replica that receives enough of them that match answers the client with *)
(* a CollectiveReply.                                                      *)
(*                                                                         *)
(* The broadcast is the one promised by ReliableBroadcast, which           *)
(* AtomicBroadcast is shown to implement.  Messages may be late, lost,     *)
(* reordered or duplicated.  A faulty replica may send any SingleReply to  *)
(* any replica, and another one later.                                     *)
(***************************************************************************)
EXTENDS Thresholds, RedisStateMachine, FiniteSets

CONSTANTS
  Replica,       \* the ids of the servers, numbers
  Faulty,        \* the replicas that do not follow the protocol
  Failing,       \* the replicas whose executions may be rejected
  FaultyResult,  \* the results faulty replicas claim (a bound)
  Client,        \* client ids, numbers too
  Request,       \* Request[u]: the operation of uuid u
  None           \* no result

N == Cardinality(Replica)
F == LowerBoundThreshold(N)
Correct == Replica \ Faulty

\* trebizondRedisServer.ts accepts the ids 1 to n only.
ASSUME ExecutionAssumption ==
  /\ N \in Nat /\ N >= 2
  /\ Replica = 1..N
  /\ Faulty \subseteq Replica
  /\ Cardinality(Faulty) <= F
  /\ Failing \subseteq Correct
  /\ FaultyResult \subseteq Int
  /\ Client \subseteq Nat
  /\ Request \in [Uuid -> [client : Client, command : Command,
                           broadcast : BOOLEAN]]
  /\ None \notin Int

VARIABLES
  supported,   \* operations the cluster supports (ReliableBroadcast)
  delivered,   \* delivered[r]: operations r has accepted (ReliableBroadcast)
  machine,     \* machine[r]: r's state machine
  log,         \* log[r]: the blocks of r's block chain, in order
  sent,        \* single replies of the correct replicas
  replies,     \* replies[r][u][s]: the result of u that s has sent to r
  collective   \* collective[r][u]: the collective reply r has sent for u

vars == <<supported, delivered, machine, log, sent, replies, collective>>

RB == INSTANCE ReliableBroadcast

-----------------------------------------------------------------------------
Block == [uuid : Uuid, result : Int]

SingleReply == [uuid : Uuid, result : Int, from : Replica,
                to : Replica \cup Client]

CollectiveReply == [result : Int, acknowledgments : SUBSET Replica]

TypeOK ==
  /\ RB!TypeOK
  /\ machine \in [Correct -> Machine]
  /\ log \in [Correct -> Seq(Block)]
  /\ sent \subseteq SingleReply
  /\ replies \in [Correct -> [Uuid -> [Replica -> {None} \cup Int]]]
  /\ collective \in [Correct -> [Uuid -> {None} \cup CollectiveReply]]

\* The leader r believes in is the one it starts with (LeaderRotation), since
\* no confirmation of another one is ever adopted.
Leader(r) == FirstPeer(r, N)

\* A request the client has broadcast is answered to the client's id.
Recipient(r, u) == IF Request[u].broadcast THEN Request[u].client ELSE Leader(r)

-----------------------------------------------------------------------------
\* The broadcast gathers support for an operation that a client requests.
Support(u) ==
  /\ u \notin supported
  /\ RB!Support(u)
  /\ UNCHANGED <<machine, log, sent, replies, collective>>

\* r accepts u and hands it to its state machine.
Accept(r, u) ==
  /\ RB!Deliver(r, u)
  /\ machine' = [machine EXCEPT
                   ![r] = ExecuteOperation(@, u, Request[u].command)]
  /\ UNCHANGED <<log, sent, replies, collective>>

Awaits(r, phase) ==
  machine[r].awaiting # <<>> /\ Answered(machine[r]).phase = phase

ExecutionResumes(r) ==
  /\ Awaits(r, "read")
  /\ machine' = [machine EXCEPT ![r] = Resume(@)]
  /\ UNCHANGED <<supported, delivered, log, sent, replies, collective>>

\* The promise is fulfilled: append the block, send the result.
ExecutionCompletes(r) ==
  /\ Awaits(r, "result")
  /\ LET a == Answered(machine[r])
     IN  /\ log' = [log EXCEPT ![r] =
                      Append(@, [uuid |-> a.uuid, result |-> a.value])]
         /\ sent' = sent \cup {[uuid |-> a.uuid, result |-> a.value,
                                from |-> r, to |-> Recipient(r, a.uuid)]}
  /\ machine' = [machine EXCEPT ![r] = Dequeue(@)]
  /\ UNCHANGED <<supported, delivered, replies, collective>>

\* Redis answers with an error; nobody handles the rejection.
ExecutionFails(r) ==
  /\ r \in Failing
  /\ machine[r].awaiting # <<>>
  /\ machine' = [machine EXCEPT ![r] = Dequeue(@)]
  /\ UNCHANGED <<supported, delivered, log, sent, replies, collective>>

-----------------------------------------------------------------------------
Matching(results, result) == {s \in Replica : results[s] = result}

\* Mutation: the results of as many replicas as may be faulty, and one.
EnoughForSupport(results, result) ==
  Cardinality(Matching(results, result)) >= LowerBoundThreshold(N) + 1

\* More than half of the replicas: no other result is the winner then.
Enough(results, result) ==
  Cardinality(Matching(results, result)) >= UpperBoundThreshold(N)

\* Mutation: the replicas that have sent nothing agree, too.
CompositionWithAbsent(results) ==
  {[result |-> v, acknowledgments |-> Matching(results, v)] :
     v \in {results[s] : s \in {t \in Replica : Enough(results, results[t])}}}

\* The collective reply that these results make, if any.
CompositionOf(results) ==
  {[result |-> v, acknowledgments |-> Matching(results, v)] :
     v \in {results[s] : s \in {t \in Replica : /\ results[t] # None
                                                /\ Enough(results, results[t])}}}

\* A later single reply of a replica takes the place of an earlier one, until
\* the collective reply does of all.  Whether r itself has accepted the
\* operation is not looked at.
ReceiveSingleReply(r, m) ==
  /\ m.to = r /\ m.from # r
  /\ collective[r][m.uuid] = None
  /\ replies' = [replies EXCEPT ![r][m.uuid][m.from] = m.result]
  /\ LET composed == CompositionOf(replies'[r][m.uuid])
     IN  collective' = [collective EXCEPT ![r][m.uuid] =
                          IF composed = {} THEN None
                          ELSE CHOOSE c \in composed : TRUE]
  /\ UNCHANGED <<supported, delivered, machine, log, sent>>

-----------------------------------------------------------------------------
Init ==
  /\ RB!Init
  /\ machine = [r \in Correct |-> EmptyMachine]
  /\ log = [r \in Correct |-> <<>>]
  /\ sent = {}
  /\ replies = [r \in Correct |-> [u \in Uuid |-> [s \in Replica |-> None]]]
  /\ collective = [r \in Correct |-> [u \in Uuid |-> None]]

FaultyReplies == [uuid : Uuid, result : FaultyResult, from : Faulty,
                  to : Correct]

Next ==
  \/ \E u \in Uuid : Support(u)
  \/ \E r \in Correct, u \in Uuid : Accept(r, u)
  \/ \E r \in Correct : \/ ExecutionResumes(r)
                        \/ ExecutionCompletes(r)
                        \/ ExecutionFails(r)
  \/ \E r \in Correct, m \in sent \cup FaultyReplies : ReceiveSingleReply(r, m)

Spec == Init /\ [][Next]_vars

-----------------------------------------------------------------------------
\* The replicas in whose block chain u has that result.
Executed(u, result) ==
  {s \in Correct : \E i \in DOMAIN log[s] :
                     log[s][i] = [uuid |-> u, result |-> result]}

\* The result a client is given in a collective reply was obtained by all but F
\* of the replicas it takes, whatever results the faulty ones claim and change
\* their minds about (server.ts:610-660, 678-707).
CollectiveIsExecuted ==
  \A r \in Correct, u \in Uuid :
    collective[r][u] # None =>
      Cardinality(Executed(u, collective[r][u].result))
        >= UpperBoundThreshold(N) - F

\* A client gets at most one collective reply to an operation, although the
\* replicas do not agree on the leader they send their results to
\* (server.ts:204, 583, 644-660).
OneCollective ==
  \A r, s \in Correct, u \in Uuid :
    collective[r][u] # None /\ collective[s][u] # None => r = s

\* The writes to key k: the blocks of a block chain, and the operations of a
\* machine whose execution is about to complete, which are to follow them.
Done(blocks, k) == {i \in DOMAIN blocks : Request[blocks[i].uuid].command.key = k}
Due(m, k) == {i \in DOMAIN m.awaiting :
                m.awaiting[i].phase = "result" /\ m.awaiting[i].command.key = k}

\* The block chain of a replica is in the order of its writes: its last result
\* for a key, due or done, is the stored value, although executions overlap and
\* a later one may overtake an earlier (redisCommand.ts:72-103,
\* server.ts:585-591).
StoreIsLastResult ==
  \A r \in Correct \ Failing, k \in Key :
    LET m == machine[r]
    IN  /\ \A i \in Due(m, k) :
             (\A j \in Due(m, k) : j <= i) => m.store[k] = m.awaiting[i].value
        /\ Due(m, k) = {} =>
             \A i \in Done(log[r], k) :
               (\A j \in Done(log[r], k) : j <= i) =>
                 m.store[k] = log[r][i].result

\* The "eventual consistency on the state shared among the replicas": replicas
\* that have executed the same operations, and nothing else, store the same.
Consistency ==
  \A r, s \in Correct :
    /\ machine[r].awaiting = <<>> /\ machine[s].awaiting = <<>>
    /\ delivered[r] = delivered[s]
    /\ {b.uuid : b \in {log[r][i] : i \in DOMAIN log[r]}} = delivered[r]
    /\ {b.uuid : b \in {log[s][i] : i \in DOMAIN log[s]}} = delivered[s]
    => machine[r].store = machine[s].store
=============================================================================
