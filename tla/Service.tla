------------------------------ MODULE Service -------------------------------
(***************************************************************************)
(* The service as its clients see it: their REQ sockets, the REP socket of *)
(* each server, the handlers between those and the cluster                 *)
(* (networkController.ts dispatchOpRequest and replyClientOperation,       *)
(* failureDetector.ts onRequest, server.ts dispatchClientOpRequest) and    *)
(* the clients' programs (trebizondClient.ts), which implement Client.     *)
(*                                                                         *)
(* The cluster is made of correct servers and is modelled by what          *)
(* AtomicBroadcast and ReplicatedExecution say of it: a server accepts a   *)
(* write once, executes it on a state machine of its own that overlaps it  *)
(* with others, and sends the result to the leader it believes in, which   *)
(* composes the collective reply.  Reads are executed where they arrive.   *)
(*                                                                         *)
(* A REQ socket sends a request once the one before is answered; a REP     *)
(* socket takes a request once it has answered the one before.  The        *)
(* binding keeps what it is given to send until the socket can send it:    *)
(* an answer for nobody is the answer to the next request, whoever's.      *)
(***************************************************************************)
EXTENDS Thresholds, SequencesExt

CONSTANTS
  N,             \* the number of servers
  Client,        \* the clients
  Key,           \* the keys of the databases
  Command,       \* the commands that can occur
  Valid,         \* those that the validator lets pass
  Commands,      \* Commands[c]: what c asks for
  Contact,       \* Contact[c]: servers that c takes for the leader (a bound)
  Reached,       \* Reached[c]: servers that accept writes of c in time (a bound)
  MaxRetries,    \* MaxRetries[c]: how often a timer of c expires (a bound)
  MaxRequests,   \* requests that wait on a connection (a bound)
  None           \* no operation, no result, no answer

Server == 1..N

ASSUME ServiceAssumption ==
  /\ N \in Nat \ {0, 1}
  /\ Valid \subseteq Command
  /\ Commands \in [Client -> Seq(Command)]
  /\ Contact \in [Client -> (SUBSET Server) \ {{}}]
  /\ Reached \in [Client -> SUBSET Server]
  /\ MaxRetries \in [Client -> Nat]
  /\ MaxRequests \in Nat \ {0}
  /\ None \notin Client /\ None \notin Int
  /\ \A S \in SUBSET Server : None # S

\* The k-th operation of client c.
Uuid == UNION {{c} \X DOMAIN Commands[c] : c \in Client}

SM == INSTANCE RedisStateMachine

CommandOf(u) == Commands[u[1]][u[2]]
KeyOf(u) == CommandOf(u).key

Kind(u) ==
  CASE CommandOf(u) \notin Valid -> "invalid"
    [] CommandOf(u).operator = "<-" -> "read"
    [] OTHER -> "write"

Writes == {u \in Uuid : Kind(u) = "write"}

ASSUME CommandsAssumption == SM!CommandAssumption /\ None \notin Uuid

VARIABLES
  submitted,         \* submitted[c]: how many operations c has started
  currentOperation,  \* currentOperation[c]: the one in course
  currentLeaderId,   \* currentLeaderId[c]: the server c takes for the leader
  broadcasts,        \* broadcasts[u]: 0, or how often u was broadcast at least
  currentReplies,    \* currentReplies[c][s]: the result s has told c
  accepted,          \* accepted[c]: the results c has accepted (history)
  requests,          \* requests[c][s]: requests of c to s, unanswered
  serving,           \* serving[s]: the client whose request s has taken
  outgoing,          \* outgoing[s]: answers s has not sent
  answers,           \* answers[c][s]: the answer on its way from s to c
  inits,             \* requests that some server has broadcast to the others
  delivered,         \* delivered[s]: the requests of them s has accepted
  machine,           \* machine[s]: the state machine of s
  log,               \* log[s]: the results of s's writes, in order
  replies            \* replies[l][u][s]: the result of u that s has sent to l

program == <<submitted, currentOperation, currentLeaderId, broadcasts,
             currentReplies, accepted>>
cluster == <<inits, delivered, machine, log, replies>>

vars == <<program, requests, serving, outgoing, answers, cluster>>

Request == [uuid : Uuid, broadcast : BOOLEAN]

\* acknowledgments: the servers that have signed the result.
Answer == [type : {"SingleReply", "CollectiveReply"}, from : Server,
           uuid : Uuid, result : Int, acknowledgments : SUBSET Server]

Block == [uuid : Uuid, result : Int]

NoReplies == [s \in Server |-> None]

TypeOK ==
  /\ submitted \in [Client -> Nat]
  /\ currentOperation \in [Client -> Uuid \cup {None}]
  /\ currentLeaderId \in [Client -> Server]
  /\ broadcasts \in [Uuid -> Nat]
  /\ currentReplies \in [Client -> [Server -> {None} \cup Int]]
  /\ accepted \in [Client -> Seq([uuid : Uuid, result : Int,
                                  by : {None} \cup Server])]
  /\ requests \in [Client -> [Server -> Seq(Request)]]
  /\ serving \in [Server -> Client \cup {None}]
  /\ outgoing \in [Server -> Seq(Answer)]
  /\ answers \in [Client -> [Server -> Answer \cup {None}]]
  /\ inits \subseteq Request
  /\ delivered \in [Server -> SUBSET Request]
  /\ machine \in [Server -> SM!Machine]
  /\ log \in [Server -> Seq(Block)]
  /\ replies \in [Server -> [Writes -> [Server -> {None} \cup Int]]]

-----------------------------------------------------------------------------
\* A client's program.

Queued(queue, q) == IF Len(queue) < MaxRequests THEN Append(queue, q) ELSE queue

Unicast(c, u) ==
  [requests EXCEPT ![c][currentLeaderId[c]] =
     Queued(@, [uuid |-> u, broadcast |-> broadcasts[u] > 0])]

\* From now on the operation says that it was broadcast.
Broadcast(pending, u) ==
  [s \in Server |-> Queued(pending[s], [uuid |-> u, broadcast |-> TRUE])]

SendCommand(c) ==
  /\ currentOperation[c] = None
  /\ submitted[c] < Len(Commands[c])
  /\ submitted' = [submitted EXCEPT ![c] = @ + 1]
  /\ LET u == <<c, submitted[c] + 1>>
     IN  /\ currentOperation' = [currentOperation EXCEPT ![c] = u]
         /\ requests' = Unicast(c, u)
  /\ UNCHANGED <<currentLeaderId, broadcasts, currentReplies, accepted, serving,
                 outgoing, answers, cluster>>

TimerExpiration(c) ==
  LET u == currentOperation[c]
  IN  /\ u # None
      /\ broadcasts[u] < MaxRetries[c]
      /\ requests' = [requests EXCEPT ![c] = Broadcast(@, u)]
      /\ broadcasts' = [broadcasts EXCEPT ![u] = @ + 1]
      /\ \E s \in Contact[c] :
           currentLeaderId' = [currentLeaderId EXCEPT ![c] = s]
      /\ UNCHANGED <<submitted, currentOperation, currentReplies, accepted,
                     serving, outgoing, answers, cluster>>

\* The Client that c implements.  Its program sends a command only when none
\* is in course, survives the exception of every operation that is resolved,
\* and the timer of an operation that is over is left to expire.
ClientOf(c) ==
  INSTANCE Client WITH
    Faulty <- {},
    MaxCommands <- Len(Commands[c]),
    Reads <- {k \in DOMAIN Commands[c] : Kind(<<c, k>>) = "read"},
    Result <- Int,
    Answers <- [s \in Server |-> [k \in DOMAIN Commands[c] |-> Int]],
    Alias <- {},
    AliasOf <- <<>>,
    HostCatches <- TRUE,
    submitted <- submitted[c],
    pendingOperations <- <<>>,
    currentOperation <- IF currentOperation[c] = None THEN None
                        ELSE currentOperation[c][2],
    currentLeaderId <- currentLeaderId[c],
    unicastAttempts <- IF submitted[c] = 0 THEN 0
                       ELSE IF broadcasts[<<c, submitted[c]>>] > 0 THEN -1
                       ELSE 1,
    currentReplies <- currentReplies[c],
    timers <- 1..submitted[c],
    unanswered <- [s \in Server |-> Len(requests[c][s])],
    accepted <- [i \in DOMAIN accepted[c] |->
                   [accepted[c][i] EXCEPT !.uuid = @[2]]],
    running <- TRUE

ResolveCurrentOperation(c, result, by) ==
  /\ currentOperation' = [currentOperation EXCEPT ![c] = None]
  /\ currentReplies' = [currentReplies EXCEPT ![c] = NoReplies]
  /\ accepted' = [accepted EXCEPT
       ![c] = Append(@, [uuid |-> currentOperation[c], result |-> result,
                         by |-> by])]

\* The answer of s reaches c and lets the next request go.
Receive(c, s) ==
  /\ answers[c][s] # None
  /\ answers' = [answers EXCEPT ![c][s] = None]
  /\ UNCHANGED <<submitted, serving, outgoing, cluster>>

Unanswered(c, s) == [requests[c] EXCEPT ![s] = Tail(@)]

\* Mutation: the uuid of an answer is not compared with the operation's.
AnswersAny(c, a) == currentOperation[c] # None

AnswersCurrent(c, a) == currentOperation[c] = a.uuid

\* A repeated reply, or the answer to an earlier operation or of another client.
IgnoreAnswer(c, s) ==
  LET a == answers[c][s]
  IN  /\ Receive(c, s)
      /\ \/ ~AnswersCurrent(c, a)
         \/ a.type = "SingleReply" /\ currentReplies[c][s] # None
      /\ requests' = [requests EXCEPT ![c] = Unanswered(c, s)]
      /\ UNCHANGED program

ProcessCollectiveReply(c, s) ==
  LET a == answers[c][s]
  IN  /\ Receive(c, s)
      /\ AnswersCurrent(c, a) /\ a.type = "CollectiveReply"
      /\ requests' = [requests EXCEPT ![c] = Unanswered(c, s)]
      /\ currentLeaderId' = [currentLeaderId EXCEPT ![c] = s]
      /\ IF 3 * Cardinality(a.acknowledgments) >= 2 * N + 1
         THEN ResolveCurrentOperation(c, a.result, s)
         ELSE UNCHANGED <<currentOperation, currentReplies, accepted>>
      /\ UNCHANGED broadcasts

\* The result is accepted, or the replies are discarded and the operation is
\* broadcast again, or the reply is kept.
ProcessSingleReply(c, s) ==
  LET a == answers[c][s]
      known == [currentReplies[c] EXCEPT ![s] = a.result]
      threshold == ClientOf(c)!ConsensusThreshold(currentOperation[c][2])
      enough == ClientOf(c)!EnoughMatchingReplies(known, threshold)
  IN  /\ Receive(c, s)
      /\ AnswersCurrent(c, a) /\ a.type = "SingleReply"
      /\ currentReplies[c][s] = None
      /\ IF enough # {}
         THEN /\ \E v \in enough : ResolveCurrentOperation(c, v, None)
              /\ requests' = [requests EXCEPT ![c] = Unanswered(c, s)]
              /\ UNCHANGED broadcasts
         ELSE IF ClientOf(c)!CanReachConsensus(known)
         THEN /\ currentReplies' = [currentReplies EXCEPT ![c] = known]
              /\ requests' = [requests EXCEPT ![c] = Unanswered(c, s)]
              /\ UNCHANGED <<currentOperation, broadcasts, accepted>>
         ELSE /\ currentReplies' = [currentReplies EXCEPT ![c] = NoReplies]
              /\ requests' = [requests EXCEPT
                                ![c] = Broadcast(Unanswered(c, s), a.uuid)]
              /\ broadcasts' = [broadcasts EXCEPT
                                  ![a.uuid] = IF @ = 0 THEN 1 ELSE @]
              /\ UNCHANGED <<currentOperation, accepted>>
      /\ UNCHANGED currentLeaderId

-----------------------------------------------------------------------------
\* The handlers of a request.

\* The REP socket of s takes a request of c.
Take(s, c) ==
  /\ serving[s] = None
  /\ requests[c][s] # <<>> /\ answers[c][s] = None
  /\ serving' = [serving EXCEPT ![s] = c]
  /\ UNCHANGED <<program, requests, answers, delivered, log, replies>>

TakenUuid(s, c) == Head(requests[c][s]).uuid

\* A request is handed on if it is signed by the client it names, which it is
\* supposed to name here, and is of a valid operation.
TakeOperation(s, c) ==
  /\ Take(s, c)
  /\ Kind(TakenUuid(s, c)) # "invalid"

\* Mutation: the result does not tell which operation it is of.
SingleReplyWithoutUuid(s, u, result) ==
  [type |-> "SingleReply", from |-> s, uuid |-> None, result |-> result,
   acknowledgments |-> {s}]

SingleReply(s, u, result) ==
  [type |-> "SingleReply", from |-> s, uuid |-> u, result |-> result,
   acknowledgments |-> {s}]

\* clientLastOp: of every client the result of its write executed last is kept.
IsLastOp(s, i) ==
  \A j \in DOMAIN log[s] : log[s][j].uuid[1] = log[s][i].uuid[1] => j <= i

LastOps(s) == {log[s][i] : i \in {i \in DOMAIN log[s] : IsLastOp(s, i)}}

\* Nothing is answered.
DiscardRequest(s, c) ==
  /\ Take(s, c)
  /\ Kind(TakenUuid(s, c)) = "invalid"
  /\ UNCHANGED <<outgoing, inits, machine>>

AnswerLastOp(s, c) ==
  /\ TakeOperation(s, c)
  /\ \E b \in LastOps(s) :
       /\ b.uuid = TakenUuid(s, c)
       /\ outgoing' = [outgoing EXCEPT
                         ![s] = Append(@, SingleReply(s, b.uuid, b.result))]
  /\ UNCHANGED <<inits, machine>>

Executing(s, u) ==
  machine' = [machine EXCEPT ![s] = SM!ExecuteOperation(@, u, CommandOf(u))]

ExecuteRead(s, c) ==
  /\ TakeOperation(s, c)
  /\ Kind(TakenUuid(s, c)) = "read"
  /\ Executing(s, TakenUuid(s, c))
  /\ UNCHANGED <<outgoing, inits>>

BroadcastInit(s, c) ==
  /\ TakeOperation(s, c)
  /\ Kind(TakenUuid(s, c)) = "write"
  /\ \A b \in LastOps(s) : b.uuid # TakenUuid(s, c)
  /\ inits' = inits \cup {Head(requests[c][s])}
  /\ UNCHANGED <<outgoing, machine>>

\* The socket answers the request it has taken, with what it was given first.
SendAnswer(s) ==
  /\ serving[s] # None /\ outgoing[s] # <<>>
  /\ answers' = [answers EXCEPT ![serving[s]][s] = Head(outgoing[s])]
  /\ outgoing' = [outgoing EXCEPT ![s] = Tail(@)]
  /\ serving' = [serving EXCEPT ![s] = None]
  /\ UNCHANGED <<program, requests, cluster>>

-----------------------------------------------------------------------------
\* The cluster.

Leader(s) == FirstPeer(s, N)

\* s accepts one request of an operation and begins to execute it.
Accept(s, q) ==
  /\ q \in inits /\ s \in Reached[q.uuid[1]]
  /\ \A p \in delivered[s] : p.uuid # q.uuid
  /\ delivered' = [delivered EXCEPT ![s] = @ \cup {q}]
  /\ Executing(s, q.uuid)
  /\ UNCHANGED <<program, requests, serving, outgoing, answers, inits, log,
                 replies>>

IsAnswered(s, phase) ==
  /\ machine[s].awaiting # <<>>
  /\ SM!Answered(machine[s]).phase = phase
  /\ UNCHANGED <<program, requests, serving, answers, inits, delivered, replies>>

ExecutionResumes(s) ==
  /\ IsAnswered(s, "read")
  /\ machine' = [machine EXCEPT ![s] = SM!Resume(@)]
  /\ UNCHANGED <<outgoing, log>>

\* The result of a write is appended to the block chain and is on its way to
\* the leader; that of a read is given to the socket.
ExecutionCompletes(s) ==
  LET a == SM!Answered(machine[s])
  IN  /\ IsAnswered(s, "result")
      /\ machine' = [machine EXCEPT ![s] = SM!Dequeue(@)]
      /\ IF Kind(a.uuid) = "read"
         THEN /\ outgoing' = [outgoing EXCEPT
                   ![s] = Append(@, SingleReply(s, a.uuid, a.value))]
              /\ UNCHANGED log
         ELSE /\ log' = [log EXCEPT
                   ![s] = Append(@, [uuid |-> a.uuid, result |-> a.value])]
              /\ UNCHANGED outgoing

\* Mutation: the leader waits for a reply of its own, too.
EnoughOfAll(signers) == Cardinality(signers) >= N


Enough(signers) == Cardinality(signers) >= UpperBoundThreshold(N)

Signers(known, result) == {s \in Server : known[s] = result}

\* A collective reply has been composed.
IsCollected(known) ==
  \E s \in Server : known[s] # None /\ Enough(Signers(known, known[s]))

\* The leader receives the result b of r; once it has enough of them that match
\* it gives the socket a collective reply and keeps no more of them.  If the
\* request r has accepted says that it was broadcast the result is sent to the
\* client's id instead, which no server has.
ReceiveSingleReply(r, b) ==
  LET l == Leader(r)
      known == [replies[l][b.uuid] EXCEPT ![r] = b.result]
      signers == Signers(known, b.result)
  IN  /\ [uuid |-> b.uuid, broadcast |-> FALSE] \in delivered[r]
      /\ replies[l][b.uuid][r] = None /\ ~IsCollected(replies[l][b.uuid])
      /\ replies' = [replies EXCEPT ![l][b.uuid] = known]
      /\ outgoing' = IF Enough(signers)
                     THEN [outgoing EXCEPT ![l] = Append(@,
                             [type |-> "CollectiveReply", from |-> l,
                              uuid |-> b.uuid, result |-> b.result,
                              acknowledgments |-> signers])]
                     ELSE outgoing
      /\ UNCHANGED <<program, requests, serving, answers, inits, delivered,
                     machine, log>>

-----------------------------------------------------------------------------
Init ==
  /\ submitted = [c \in Client |-> 0]
  /\ currentOperation = [c \in Client |-> None]
  /\ currentLeaderId \in [Client -> Server]
  /\ \A c \in Client : currentLeaderId[c] \in Contact[c]
  /\ broadcasts = [u \in Uuid |-> 0]
  /\ currentReplies = [c \in Client |-> NoReplies]
  /\ accepted = [c \in Client |-> <<>>]
  /\ requests = [c \in Client |-> [s \in Server |-> <<>>]]
  /\ serving = [s \in Server |-> None]
  /\ outgoing = [s \in Server |-> <<>>]
  /\ answers = [c \in Client |-> [s \in Server |-> None]]
  /\ inits = {}
  /\ delivered = [s \in Server |-> {}]
  /\ machine = [s \in Server |-> SM!EmptyMachine]
  /\ log = [s \in Server |-> <<>>]
  /\ replies = [s \in Server |-> [u \in Writes |-> NoReplies]]

HandleAnswer(c, s) ==
  \/ IgnoreAnswer(c, s)
  \/ ProcessCollectiveReply(c, s)
  \/ ProcessSingleReply(c, s)

HandleRequest(s, c) ==
  \/ DiscardRequest(s, c)
  \/ AnswerLastOp(s, c)
  \/ ExecuteRead(s, c)
  \/ BroadcastInit(s, c)

\* What the clients' programs begin.
Ask == \E c \in Client : SendCommand(c) \/ TimerExpiration(c)

\* What the servers, the sockets and the handlers do about it.
Serve ==
  \/ \E c \in Client, s \in Server : HandleAnswer(c, s) \/ HandleRequest(s, c)
  \/ \E s \in Server : \/ SendAnswer(s)
                        \/ ExecutionResumes(s)
                        \/ ExecutionCompletes(s)
  \/ \E s \in Server, q \in inits : Accept(s, q)
  \/ \E r \in Server : \E b \in Range(log[r]) : ReceiveSingleReply(r, b)

Next == Ask \/ Serve

Spec == Init /\ [][Next]_vars

\* No more than that something is done as long as there is something to do:
\* messages arrive and handlers run.  Whether a client asks is left open.
Fairness == WF_vars(Serve)

FairSpec == Spec /\ Fairness

-----------------------------------------------------------------------------
AcceptedBy(c) == Range(accepted[c])

\* Those who have obtained the result v of a write u.
Executors(u, v) == {s \in Server : [uuid |-> u, result |-> v] \in Range(log[s])}

\* A write whose result its client has accepted is executed, with this result,
\* by as many servers as are asked to acknowledge it, although answers go to
\* requests they are not meant for (server.ts:571-660, trebizondClient.ts:160-214).
AcceptedIsExecuted ==
  \A c \in Client : \A a \in AcceptedBy(c) :
    Kind(a.uuid) = "write" =>
      3 * Cardinality(Executors(a.uuid, a.result)) >= 2 * N + 1

\* On s, the write u or one of that key which followed it has left the value v.
HasLeft(s, u, v) ==
  \E i, j \in DOMAIN log[s] :
    /\ log[s][i].uuid = u /\ i <= j
    /\ KeyOf(log[s][j].uuid) = KeyOf(u) /\ log[s][j].result = v

\* A client that has written a key reads no value from before its write: some
\* server has executed the write and then, at the latest, the one whose result
\* is read, although reads are ordered neither with the writes nor with one
\* another (server.ts:266-280, trebizondClient.ts:186-214, redisCommand.ts:77-103).
ReadsFollowWrites ==
  \A c \in Client : \A a, b \in AcceptedBy(c) :
    /\ Kind(a.uuid) = "write" /\ Kind(b.uuid) = "read"
    /\ KeyOf(a.uuid) = KeyOf(b.uuid) /\ a.uuid[2] < b.uuid[2]
    => \E s \in Server : HasLeft(s, a.uuid, b.result)

\* The answer that s has for c, as a message of Client.
Heard(c, s) ==
  LET a == answers[c][s]
  IN  IF a.uuid[1] # c THEN ClientOf(c)!OtherMessage(s)
      ELSE IF a.type = "SingleReply"
      THEN [type |-> "SingleReply", from |-> s, uuid |-> a.uuid[2],
            result |-> a.result]
      ELSE [type |-> "CollectiveReply", from |-> s, uuid |-> a.uuid[2],
            result |-> a.result, acknowledgments |-> a.acknowledgments]

ClientNext(c) ==
  \/ ClientOf(c)!SendCommand
  \/ \E u \in 1..Len(Commands[c]) : ClientOf(c)!TimerExpiration(u)
  \/ \E s \in Server : /\ answers[c][s] # None
                       /\ Heard(c, s) \in ClientOf(c)!Messages(s)
                       /\ ClientOf(c)!Dispatch(s, Heard(c, s))

\* Each client behaves as Client says, and the servers, their sockets and their
\* leaders together send it nothing but what Client allows correct servers to
\* send: what is shown of Client holds of the clients of this service.
ClientsAreClients ==
  /\ \A c \in Client : ClientOf(c)!Init
  /\ [][\A c \in Client : UNCHANGED ClientOf(c)!vars \/ ClientNext(c)]_vars

\* As long as all clients ask the leader, once for each operation and for nothing
\* invalid, a write is answered whatever the others write at the same time. With
\* four servers, the leader's socket takes one write when all others have
\* executed the one before (networkController.ts:47-51, server.ts:633-660).
WritesAreAnswered ==
  \A c \in Client : \A u \in Writes :
    currentOperation[c] = u
      ~> \/ currentOperation[c] # u
         \/ \E d \in Client : currentLeaderId[d] # Leader(N)
         \/ \E v \in Uuid : broadcasts[v] > 0
         \/ \E d \in Client : \E k \in 1..submitted[d] : Kind(<<d, k>>) = "invalid"
=============================================================================
