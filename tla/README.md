# Verification of Trebizond

TLA+ models of Trebizond (`trebizond/src`), the runs in which TLC checks them and
the theorems that TLAPS proves about them. Paths below are relative to
`trebizond/src`; `server.ts` is `trebizond-server/server.ts`.

## The system

A cluster of n replicas keeps a replicated block chain of operations. A client
sends an operation to one replica; a write is spread by a three-staged
broadcast (Init, Echo, Ready) before every replica executes it on its state
machine, appends it to its block chain and sends its result to the leader, which
answers the client once enough results match. Leaders rotate by stages, on
timers and votes. A failure detector intercepts what the network delivers.

Every process is a Node.js program: a handler runs to its end before the next
one starts, so all concurrency is between processes, between a handler and the
promises and timers it leaves behind, and in the order in which messages arrive.

| component | state | operations | correct when |
|---|---|---|---|
| atomic broadcast (`server.ts` 414-604, 662-676) | `messagesLog`: per uuid the Init, Echo and Ready of each replica, `accepted` | `receiveInitMessage`, `receiveEchoMessage`, `receiveReadyMessage`, `checkOperationAtomicBroadcastPhase1..3` | all or nothing among the correct replicas; no operation accepted that the cluster does not back; one content per uuid; executed once |
| client requests (`server.ts` 247-294) | `clientLastOp` | `dispatchClientOpRequest`: cached answer, read, broadcast of a write | retries are harmless; only valid operations start |
| execution and log (`server.ts` 585-600, `command.ts` 42-66) | `log`, the promises under way | settling of `executeOperation`, `appendNextBlock` | each accepted operation logged once; answers backed by the log |
| leader rotation (`server.ts` 298-407) | `currentStage`, `currentLeaderId`, `votesRegistry` | `leaderTimeout`, `receiveLeadershipVote`, `receiveLeaderConfirmation` | one leader per stage, elected by real votes, adopted by the others |
| replies (`server.ts` 610-737) | `replies` of an entry | `receiveSingleReply`, `checkSingleRepliesForCollectiveReply` | a collective reply holds enough matching results, and comes |
| network controller (`networkController.ts` 134-331) | sockets, `peers` | `sendMessage`, `sendBroadcast`, `dispatchMessage`, `dispatchOpRequest`, `replyClientOperation` | only authentic messages are dispatched; a REP socket answers what it took |
| synchronous controller (`networkController.ts` 449-574, `deferred.ts`) | `pendingReplies`, promise states | `sendMessageSync`, `dispatchReplyMessage`, timeout, delivery error | each request ends once, by its reply, its timeout or an error |
| failure detector (`failureDetector.ts`) | `suspectNodes` | `onMessage`, `onRequest` | no invalid operation reaches the protocol; its sender is accused and suspected |
| client (`trebizondClient.ts`) | `pendingOperations`, `currentOperation`, `currentReplies`, `currentLeaderId`, timer | `sendCommand`, processing of replies and redirections, timer, broadcast | every command resolves once, with a result enough replicas gave |
| Redis state machine (`redisCommand.ts`) | keys and values | `executeOperation` | operations take effect one after the other |
| signatures (`crypto.ts`) | keys | `signObject`, `checkObjectSignature`, `decryptText` | what the owner of a key signed verifies, nothing else does |
| start-up, logging, utilities | | | I/O only |

Interaction: the network controller calls the failure detector, which calls the
server (`bindMessageInterceptors`); the server calls the controller to send, and
the state machine, whose promise calls back. Handlers of the broadcast call each
other: a replica hands its own Init, Echo and Ready to itself. Client and server
speak over REQ/REP sockets, servers over ROUTER/DEALER sockets.

What is hard here: the order in which messages of several replicas arrive; a
faulty replica that tells different replicas different things; client retries
while an operation is in flight; thresholds at the edges of n; state read before
`executeOperation` and used after it; a timer that runs whatever happens; a
topology object shared by server and controller, from which one of them deletes
an entry. `PROJECT.json` lists these hazards at their lines, with the property
that covers each of them or why none does yet.

## Modules

| module | models |
|---|---|
| `Thresholds` | `lowerBoundThreshold`, `upperBoundThreshold`, the three quorum tests, the first leader |
| `ReliableBroadcast` | what the broadcast promises: the cluster comes to support operations, correct replicas deliver the supported ones, once, in any order |
| `AtomicBroadcast` | client requests, the broadcast, execution and log of every correct replica |
| `MCAtomicBroadcast` | the client operations of each run |
| `LeaderRotation` | timers, votes, confirmations |
| `RedisStateMachine` | `executeOperation` on the Redis of one replica, as functions on a record |
| `Service` | the service between its clients and the cluster: programs of the clients, REQ and REP sockets, request handlers, state machines of the servers; composes `RedisStateMachine`, shown to implement `Client` for every client |
| `MCService` | the clients and commands of its runs |
| `FailureDetector` | `onMessage`: validation, accusation, list of suspects |
| `RequestReply` | what the interface `SynchronousNetworkController` promises: a request ends once, with its reply, an error or its timeout |
| `SynchronousNetwork` | `SynchronousServerNetworkController` and `Deferred`, with `FailureDetector` behind them; shown to implement `RequestReply` |
| `MCSynchronousNetwork` | an instance of it |
| `ReplicatedExecution` | what replicas do with delivered operations: execution, block chain, single and collective replies; composes `ReliableBroadcast` and `RedisStateMachine` |
| `MCReplicatedExecution` | the operations of its runs |
| `Client` | a client and its connections: queue, timers, leader guess, counting of replies |
| `MCClient` | the results that servers obtain in its runs |
| `ThresholdsProofs`, `AtomicBroadcastProofs`, `ExecutionProofs`, `LeaderRotationProofs`, `ReplicatedExecutionProofs`, `ServiceProofs`, `ClientProofs`, `SynchronousNetworkProofs` | theorems and proofs (`ExecutionProofs` is the second half of those about `AtomicBroadcast`: execution, answers, submission) |

### AtomicBroadcast and the code

The variables are the fields of `TrebizondServer`, one function over the correct
replicas each. `messagesLog[r][u]` is an `AtomicBroadcastMessageLog`; an absent
entry and an empty one behave alike. Two differences: `accepted` remembers the
operation that was handed to the state machine (the code pushes the uuid), and
`executing` holds operations whose promise is pending. `sent` is the set of all
messages sent; nothing leaves it, so every message may be late, lost, repeated
or overtaken. `answers` are the replies put on the REP socket.

One action per handler. `ReceiveInit`, `ReceiveEcho` and `ReceiveReady` store the
message and then check the phases as the code does, nested calls included:
`CheckPhase1` may send r's Echo, whose handler goes on with `CheckPhase2`, which
may send r's Ready, whose handler checks all phases again. These nested calls
are functions on the log entry, applied one after the other. `EchoDue` keeps the
comparison of line 522 as it is written (`!==`): with it, any first message of
an operation makes a replica echo it.

`DispatchClientOpRequest` has the three outcomes of a valid request. The promise
of `executeOperation` settles in an action of its own (`ExecutionCompletes`,
`ExecutionFails`, `ReadCompletes`, `ReadFails`), at any later moment; nothing
handles a rejection in the code, and the model keeps the process alive then, as
the Node.js versions contemporary with the dependencies do.

`Asked` are the requests that clients make, of which replica and how often at will.
`FaultySends` are the messages that faulty replicas may send, each in the name of its
sender, to any one replica and at any time, or never. A faulty replica cannot forge a
client's operation: `Op`, the signed operations that occur, is a
constant, and may hold two contents for one uuid, as a client that retries
produces (it sets `broadcast` in the same operation, `trebizondClient.ts` 232).

Not modelled there: the digest `currentStatus` of messages, which no code reads;
results and what becomes of a `SingleReply` (`ReplicatedExecution`).

### LeaderRotation and the code

`currentStage`, `currentLeaderId` and `votesRegistry` are the fields; `crashed`
holds the processes that ended with an uncaught exception. `InitialLeader` is
the first id other than the replica's own: `networkController.ts` 198 deletes
the own entry from the topology object before `server.ts` 204 reads it, so
replica 1 starts with another leader than the rest. `sort()` compares ids as
strings: that other leader is 2 in a cluster of up to nine and 10 in a larger one
(`Thresholds.FirstPeer`, which `ReplicatedExecution` and `Service` use, too).
`VoteText` and `LeaderText` are the two records whose JSON text is compared when
a confirmation is verified, with the order of their fields. The look-up of the
own key (line 340) throws: `IsVoter`.

Receiving is guarded by `Arrives`, as a ROUTER socket delivers only to the
replicas it is connected to: a vote for oneself, or for replica 0, is dropped.
Confirmations of faulty replicas are left out; their votes are not.

`receiveLeadershipVote` does not update the leader and stage of a replica that
proclaims itself, although its comment (lines 379-384) says so; the model
follows the code.

The candidate of a stage is `stage % nReplicas` (line 307), a number from 0 to
n - 1, while ids go from 1 to n (`trebizondRedisServer.ts` 54): in every n-th stage
all votes go to replica 0, which does not exist, and replica n is never voted for.
`LeaderTimeout` has the line as it is. No run is needed to see it.

### RedisStateMachine, ReplicatedExecution and the code

`ReplicatedExecution` takes the operations from `ReliableBroadcast`, whose actions
`Support` and `Deliver` are conjuncts of its own (`Support`, `Accept`), instead of
repeating the three stages; `AtomicBroadcast` is shown to implement it.

A machine is the database of a replica and the queue of operations that await an
answer of Redis. All commands of a server go over one connection, are executed
in the order they are issued and answered in that order, so the value a `get` will
return is settled when it is issued; `set` is not awaited, and the `get` after it
returns what was set. `ExecuteOperation` is the part of the function before its
first await, `Resume` the part between the two awaits, and the end of the second
is `ExecutionCompletes`, the continuation in `server.ts` 585-600: block, cached
result, single reply. Division is left out, values being integers; the
validator of the repository allows `=` and `+` only (`redisMessageValidator.ts`
20), and rejects every read.

`replies[r][u]` and `collective[r][u]` are the field `replies` of an entry, which
holds single replies first and the collective reply afterwards. `Recipient` is
line 583: the leader the replica believes in, or, for a request that the client
has broadcast, the client's id, which no ROUTER socket of a server reaches unless
a server has that number. A leader does not send to itself, and receives nothing
from itself. Since the threshold is more than half of the replicas, the winner of
`winnerResult` is the one result that reaches it (`CompositionOf`).

### Client and the code

The variables are the fields of `TrebizondClient`; `submitted` numbers the commands
(the k-th has the uuid k), `accepted` records every result that is handed to
`resolveCurrentOperation`, and `running` is FALSE once an exception has ended the
process. `timers` is a set of operations: a timer that fires sets itself again or
is gone, and a second timer of one operation does what the first does.

`SendCommand` includes `processNextOperation` and the unicast. A redirection may have
named a leader that is no server (`N + 1`): the look-up of line 224 then throws out of
`sendCommand`, after the operation became current and its timer was set. In
`clientMain.ts` that rejects the promise of an async function, and the process goes on.

`resolveCurrentOperation` sets `currentOperation` to null and then evaluates
`currentOperation[1].resolve` (lines 247-249): it throws, every time, inside the
handler of a socket. So a promise never resolves, `isPending` in `timerExpiration` is
always true, and the process ends unless its host handles uncaught exceptions
(`HostCatches`; `clientMain.ts` does not). Run `client` takes it as TRUE: up to the
first result the behaviours are the same, and beyond it they show that queue,
replies and timers are in order for the next operation. Nothing takes up the queue
after a result but a further command.

`Messages(s)` is what may arrive on the connection to server s. A correct server
sends results it has obtained itself (`Answers`, which covers cached answers, reads,
and a result that changes between two reads) and, as a collective reply, a result
that enough servers have told it. That allows more than `ReplicatedExecution` does,
where replies come in one order and a collective reply may never come. A faulty
server sends any result, repeats itself, names another sender, collects the
signatures of others, and redirects; correct servers never redirect.

The acknowledgments of a collective reply are a record of signatures. On the wire its
keys are strings: `processCollectiveReply` counts the strings (line 165), and
`matchesResultDigest` turns each into a number to find the server whose signature it
checks (line 217). `AckKey` are the strings that occur, the ids of the servers and
`Alias`, other ways to write them (`"04"`), and `SourceOf` is `Number`. Signatures are
not forged: a record in which every signature verifies has, under each key, one of the
server that `SourceOf` says (`IsUnforged`); any other record is `None`. A correct leader
lists under its own id what each server has told it, but it does not check the
signature within (`server.ts` 628): with a faulty server about, what it sends may be
`None` as well (`IsHonest`).

A REQ socket receives one message for each request, hence
`unanswered`, which `MaxRequests` caps: requests beyond the cap add no behaviour
but longer runs of answers from one server.

`EnoughMatchingReplies` is a set with at most one member: replies come one by one,
and the first result to reach the threshold is accepted at once.

### Service and the code

`AtomicBroadcast` ends where the reply is handed to the REP socket and `Client` begins
where a message arrives on a REQ socket; `Service` has what lies between. It
is about a cluster of correct servers and models that by what the other modules say
of it: `Accept` (an operation that some server has broadcast is accepted by each,
once), the state machine of each server, a `RedisStateMachine` in which executions
overlap and a read takes its turn with the writes (`ExecutionResumes`,
`ExecutionCompletes`), and `ReceiveSingleReply` (the leader that a server believes in
collects the results). Results are the values that the state machine returns: servers
that execute in different orders have different ones, and an addition may undo an
assignment. `log[s]` is the block chain of s, of which `clientLastOp` is a part
(`LastOps`).

`requests[c][s]` are the requests that c has given to its REQ socket for s, and the
first one of them is with s until its answer has come. `Take` is the REP socket of s
taking a request, which it does only when it has answered the one before (`serving`);
the four actions that include it are what `dispatchOpRequest`, `onRequest` and
`dispatchClientOpRequest` do with it: discard it (nothing is answered), answer it from
`clientLastOp`, execute a read, broadcast a write. `replyClientOperation` adds to
`outgoing`, the queue of the socket of the binding (`zeromq` 5 keeps what it cannot
send yet), and `SendAnswer` lets the first of them go to the client being served.
Nothing in the code relates an answer to the request that it is sent for.

The program of a client is the one of `Client` without faulty servers and without
commands that pile up: a command is sent when none is in course. `ClientOf(c)` is the
instance of `Client` with the mapping; `ClientsAreClients` says that every step of the
service is a step of it or leaves it as it is, and that what servers send is allowed
by `Client`'s assumption on correct servers (`Messages`). What is checked and proved
of `Client` therefore holds of these clients, with servers that are modelled and
not assumed. A second answer to a repeated request, an answer to an earlier operation
and the answer meant for another client all occur there.

`currentLeaderId` may name one of `Contact[c]` when it is chosen at random: a bound.
`Reached[c]` are the servers that come to accept the writes of c within a run: a bound, too;
the others have not yet received enough. `MaxRequests` bounds the requests in the queue of
a socket; beyond it a request is not added, which takes away answers that would come later.

### SynchronousNetwork, FailureDetector and the code

The controller with requests is used by no server, but it is the code that has timers,
late replies and delivery errors in it. A request is a number, its serial uuid, and
its recipient; a multicast makes one of each entry of the array it is given.
`pendingReplies` are the uuids that the field has. `Deferred` keeps a
fate, set when it is settled, and a state, set by a microtask: `settlements` and
`settled`. `IsResolved` and `IsPending` are the methods of those names, and between a
settlement and its microtask (`PromiseSettles`) both hold. A second settlement
throws; the model would append to `settlements[u]`, and `ImplementsRequests` says that
no second one happens. `resolve` calls `_reject` (`deferred.ts` 43): a
settlement is therefore told by what it carries, not by how the promise ends.

`TimerExpires` is the callback of the timer, `DispatchReplyMessage` and
`DispatchMessage` are the two branches of `dispatchMessage`. `ManageDeliveryError` is
the method as it is written; the socket's `error` event that it is bound to passes an
`Error` and not the message, and a ROUTER without the option in the line commented out
(`networkController.ts` 201) drops what it cannot route. So a request without a
timeout may stay pending for good, and no property says otherwise.

What a server does on a request is external: `onMessageCallback` is not given the
serial uuid, so no server in the repository can call `sendReply` for it. The model lets
peers reply as the protocol of the interface has it; a correct one knows the uuids of
the requests made of it, faulty ones share theirs.

What is no reply goes to `FailureDetector.OnMessage`. Only a message whose `operation` is
itself an operation is validated; an Init, Echo or Ready has the client's signed
message there, one level further out, and is handed on (`IsOperationMessage`). A
suspect is recorded only if it is recorded (line 94): `Accuse` has the line as it is.

### What the models assume of the layer below

Messages carry their true sender. As the code stands, a signature is the AES
encryption of a digest under the text of the sender's private key and is
verified by decryption under the text of its public key (`crypto.ts` 44-49,
61-64, 94-96), and crosses the wire as the JSON form of a `Uint8Array`; and an
operation that arrives as JSON has no `isReadOperation` method (`command.ts` 38).
The models of the servers describe the protocol with a layer below that does
what it is called for.

Requests carry what the server expects of them. As the code stands they do not:
`TrebizondClient` sends a signed `TrebizondOperation` (`trebizondClient.ts` 101-108,
227), while `dispatchOpRequest` takes it for an `OpMessage` with the client's id in
`from` and the operation one level further in, looks up the client's key under
`undefined` and drops every request (`networkController.ts` 305-310), after which its
REP socket, which owes an answer, takes no further one. `Service` supposes requests that
name their client and shows what the handlers do with those (`TakeOperation`);
`AtomicBroadcast` begins at `dispatchClientOpRequest`, with requests that have passed.

Likewise `trebizondRedisServer.ts` 80 closes the connection to
Redis as soon as the server is launched, after which every execution is rejected;
the models let executions succeed.

## Runs

Bounds of the servers' runs: client operations are drawn from a set of one to four
(`Op`), `Asked` says which replicas are asked for which, `Executor` names those whose
promises settle, `FaultySends` the messages the faulty replica may send. They cut the
state space, and none of them cuts what the property of the run is about.
`MaxCommands`, `MaxRetries`, `MaxRequests`, `Contact` and `Reached` bound clients, requests
and which servers they come to. No counter is
unbounded except the stage of a replica (`MaxStage`), the requests on a connection and
those of the synchronous controller. Deadlock is not checked: a cluster without
further requests rests.

| run | instance | shows |
|---|---|---|
| `delivery` | 4 replicas, 1 faulty (Ready to anyone), a write at one, fairness | `TypeOK`; `ReadyIsBacked` and `AcceptIsSpread`, the two halves of the argument for all or nothing; `SettledIsAccepted`, a cluster that has read everything has accepted everything; `ImplementsBroadcast`, and `EventualDelivery`: what a correct replica sees the echo quorum for, all accept |
| `requests` | 3 replicas, replica 1 faulty (Init, Ready), a write, another content under its uuid and a read, repeated at will; executions settle or fail | `NoEquivocation`, `AtMostOnce`, `AcceptedWasSubmitted`, `AnsweredWasLogged` |
| `rotation` | 4 replicas, 1 faulty, 2 stages | `OneClaimPerStage`, `ClaimIsTimely`, `ClaimCarriesVotes` |
| `replies` | 4 replicas, 1 faulty (any single reply with one result), 1 whose executions may fail; an addition and an assignment to one key | `CollectiveIsExecuted`, `OneCollective`, `StoreIsLastResult` |
| `client` | 4 servers, 1 faulty; a write on which a correct server differs, and a read whose result changes | `TypeOK`, `AcceptedIsBacked`, `AcceptedInOrder`, `RepliesAreCurrent`, `WaitingIsTimed` |
| `service` | 4 correct servers, 2 clients: an addition and a read, with retries, through the leader; another addition through another server | `AcceptedIsExecuted` and `ReadsFollowWrites`, what a client may rely on when executions overlap, results differ and updates are lost; `ClientsAreClients` |
| `answered` | 4 correct servers, 2 clients: a write each of one key, a read and an invalid command, through the leader; fairness | `WritesAreAnswered`; `ClientsAreClients` with collective replies |
| `network` | 3 peers, 1 faulty; 2 requests, with or without a timeout | `ImplementsRequests`; `TimedRequestsEnd`; `RedirectedIsLate`, whatever comes late; `AccusedIsFaulty` |
| `disagreement` | 4 replicas, 1 faulty (Init), 2 contents of a uuid | `Agreement` fails |
| `consistency` | 2 correct replicas of 3, the same two operations | `Consistency` fails |
| `adoption` | 4 correct replicas, 2 stages | `ConfirmationIsAdopted` fails |
| `acknowledged` | 4 servers, 1 faulty, whose id has two further keys; a write | `CollectiveIsBacked` fails |

Four replicas are the smallest cluster in which a faulty one is tolerated (F = 1,
echo and ready quorum 3). With three, F is 1 as well and every quorum needs the
faulty one, which is enough for what must never happen. Servers do not validate
what other servers broadcast (each executes what the Init, Echo or Ready carries), so
`AcceptedWasSubmitted` excuses the contents that a faulty replica sends; in `requests`
that is one content of two under the uuid. Two stages let votes of different stages
and for different candidates meet. Two commands of a client let a reply to the first
arrive while the second is current, or waits in the queue. In `service`, one
retry after a write brings several answers to one operation, answers that come when
the read is in course, and sockets blocked by either client. There all servers would
execute both additions in any order, more than TLC can explore; `Reached` keeps one write
from server 1 and the other from servers 2 and 3, as if it came to them later, so that
server 4 executes both in any order and one server lacks the write that is read. A
lost update is read there: the read is decided with the value of the other client's
addition alone. The theorems on `Service` hold for any `Reached`.
Two requests let a
reply to one come while the other is pending, from the same peer or another.

`AcceptedWasSubmitted` is about provenance: what correct replicas accept without a
faulty one to vouch for it has passed `dispatchClientOpRequest`. `AnsweredWasLogged` says
what answers stand for, not that they come: an operation that is accepted and never
answered satisfies it. `NoEquivocation` compares messages of one type; that a replica's
Echo and its Ready may stand for different contents is seen in `Agreement` alone.

`ReadsFollowWrites` is as much as holds of a read. It would be natural to ask that a
client reads the value it has written, or one computed from it. That fails, even if all
servers are correct, as a behaviour of `service` shows: server 4 begins both `A + 5` and
`A + 1` while A is 0, so that the second writes 1 over 5, while server 1 has executed only
`A + 1`. `A + 5` is acknowledged by servers 2, 3 and 4, all of which obtained 5, and
accepted; then servers 1 and 4 answer the read with 1, and two of four decide it. An
assignment is lost to an addition in the same way. What
is left: the value read was put into the database of some server after the client's
write was (here by the addition on server 4). It does exclude a value from before
the write: a read is decided by `ceil((n - 1) / 2)` matching results, and one of
these servers has executed the write. It needs servers that are all correct: a
faulty server together with the one that lacks the write can make up that number.
Two reads may go back in time, and two clients may see two writes in different orders.

`WritesAreAnswered` has the conditions under which the code answers a request that
names its client. They are what it takes:

* Every client takes for the leader the server that the others do. A server that is not
  the leader broadcasts the write it is asked for and never answers, although the write
  is executed (`server.ts` 289): the collective reply is the leader's, and its
  own REP socket takes no further request from any client. The leader meanwhile gives
  the collective reply to a REP socket that has not taken the request
  (`networkController.ts` 274); it leaves to the client that asks the leader next, which
  ignores it, and that client's own answer comes a request late.
* No client has asked twice. A repeated request is answered to nobody (`Recipient` is
  the client's id) and leaves the socket with an answer to come or none. One
  retry may stop a server for good.
* None has asked for something invalid. A request that is discarded is not answered, and
  its socket is blocked likewise.

What it does not have to ask is that the results of a write agree. The leader answers
only if enough do (`server.ts` 651-652), with four servers those of all the others, and
writes that are executed in different orders may have different ones. But the leader's
socket takes a second write only when it has answered the first, for which all others
have executed it, so these execute the writes in one order. With seven servers or more,
where the leader need not hear of all the others, results may differ; with
retries or through other servers they may differ in any cluster.

`AcceptedIsBacked` makes an exception of the collective replies of faulty servers, for
which `CollectiveIsBacked` fails; it is checked without aliases, and proved with any.

### What the failing runs show

* `disagreement`: the phases count the messages of a uuid whatever operation they
  carry. Replica 4 sends an Init with one content to some replicas and with
  another to the rest; all of them echo, the counts of Echos and Readys reach
  their quorums, and each replica executes the operation that
  `getOperationFromLog` finds first in its own entry.
* `consistency`: nothing orders operations, and an addition that was accepted first
  may be written after an assignment that was accepted later, and undo it.
* `adoption`: no honest confirmation is ever adopted, and a receiver that voted
  for the claimant dies of it.
* `acknowledged`: the faulty server sends a collective reply with its own signature
  under three keys, all of which `Number` turns into its id. They are enough, each
  verifies, and the client accepts a result that no correct server has obtained. No
  property of the client can therefore rest on collective replies of faulty servers.

Two more defects are held by theorems and have no run. `ceil((5 - 1) / 3)` is 2, so
that acceptance takes 5 Readys out of 5 replicas; in general n = 3f + 2 replicas do
not tolerate f silent ones (`SilenceBlocks`). And `canReachConsensus` asks whether the
votes of the winner are at most the replies still missing, where both together would
have to reach the threshold: of five servers that agree, the third reply makes the
client discard all three (3 > 2), although four would decide (`SingleRepliesNeverSuffice`).

### Fairness

`AtomicBroadcast.FairSpec` asks that as long as some correct replica has not read a
message of a correct one, such a message is read (`WF_vars(ReadUnread)`, one condition
for all of them: every message is read once, so the set of unread ones runs dry):
between processes that stay up, ZeroMQ keeps its TCP connections and queues, and the
event loop of Node.js serves every message. It presumes that the connections are up when
a message is sent: a ROUTER drops what it cannot route, and servers sleep three seconds
before they start for that purpose. Nothing is asked of clients, of faulty replicas, of
promises or of timers.

`Service.FairSpec` is weaker still: something that servers, sockets and handlers can do
is done as long as there is any (`WF_vars(Serve)`). Their work is finite until a client
asks again, so all of it gets done. It does ask that promises of the state machine
settle. Nothing is asked of clients.

`SynchronousNetwork.FairSpec` asks that timers expire. Nothing is asked of peers, of the
network or of microtasks.

## Theorems

All of them hold for every value of the constants, bounds included: any cluster of
n >= 2 replicas, any operations, commands and clients, any `Asked`, `Executor`,
`FaultySends`, `MaxStage`, `MaxRetries`, `MaxRequests`, `Contact` and `Reached`.
What is assumed of the constants are the named assumptions of each module, which TLC evaluates in the runs.
`ClusterAssumption`, `RotationAssumption` and `ExecutionAssumption` say that at most
`LowerBoundThreshold(n)` replicas are faulty; `ServiceAssumption` has no faulty ones.
Those about the client assume `ClientAssumption` only, which bounds neither the number
of faulty servers nor the results: they hold for any cluster.

Each `[]I` follows from an inductive invariant, a conjunction of named parts of which
the property is one or a consequence.

### The broadcast

`BroadcastInv` is the inductive invariant; the proof that a step preserves it goes
through one lemma for the update of an entry, since all handlers end in
`Update`-like steps.

* `TypeCorrectness`: `[]TypeOK`. Not inductive by itself: that a replica only
  stores operations under their own uuid is needed for what it sends.
* `ReadyBacking`: `[]ReadyIsBacked`. A replica sends Ready on the echo quorum or on
  F + 1 Readys. In the second case one of them is from a correct replica, so a
  correct replica had sent Ready before, and the echo quorum it stands for is
  still there since counts only grow. This needs that the Ready of a correct
  replica in anyone's entry was really sent, and that what a correct replica has
  sent is in its own entry.
* `AcceptSpreading`: `[]AcceptIsSpread`. 2F + 1 Readys, at most F of them faulty.
* `NoEquivocating`: `[]NoEquivocation`. Each Echo and Ready sent is the one stored
  in the sender's own slot, and a slot is written once.
* `Refinement`: `Spec => ImplementsBroadcast`. A step of a replica is a step of the
  abstract broadcast: `Support` when it brings an operation its first echo
  quorum, `Deliver` when it accepts one, which then has the quorum (by
  `ReadyIsBacked` and `AcceptIsSpread`), and a stutter otherwise. That one handler
  may reach the quorum and accept at once is excluded by the invariant: an
  operation about to be accepted was backed before.
* `NothingLeftUndone`: `[]DoneInv`. No handler leaves something due: with a message of
  an operation in its entry a replica has echoed it, with the quorums it has sent its
  Ready and accepted (`EntriesAreDone`). That what an entry holds of its replica's own
  has been sent (`OwnIsSent`), and that an Init that was sent is in its sender's entry
  (`InitIsOwn`), complete it. It is about the calls nested in the handlers, which leave
  nothing for a message that may not come.
* `SettledAcceptance`: `[]SettledIsAccepted`, provided that the correct replicas reach
  the ready quorum. Whoever has read an Init has echoed it; whoever has read the Echos
  of all correct replicas has sent its Ready, and with all their Readys it has
  accepted. It is what liveness rests on: when nothing is left to read, nothing is left
  to do.
* `SilenceIsBorne`: the same for n = 3f + 1, where `ClusterAssumption` alone gives the
  quorum. For n = 3f + 2 it does not: there `SilenceBlocks` says the contrary.

### Execution and answers

* `ExecutionAtMostOnce`: `[]AtMostOnce`. An operation in the log or in the hands of
  the state machine is accepted, the log has it at most once, and never both has
  it and executes it.
* `AnswersFromTheLog`: `[]AnsweredWasLogged`. An answer is of an operation in the block
  chain of the replica that answers, or of a valid read that it was asked for. The
  result kept in `clientLastOp` is one of the block chain (`ExecutionInv`), and a read
  under way was asked for (`ReadingIsAsked`).
* `AcceptingTheSubmitted`: `[]AcceptedWasSubmitted`. Every message of a correct replica
  and every slot of its entries has an operation that was submitted, or that a faulty
  replica vouches for (`SentIsSubmitted`, `StoredIsSubmitted`).

### Leader rotation

`RotationInv` has that votes are cast in the stage of the voter, for the candidate that
the stage has (`VotesAreTimely`), that the registry holds votes that were cast
(`RegisteredWasCast`), and that a confirmation has enough voters (`ClaimIsSupported`).

* `RotationTypeCorrectness`: `[]TypeOK`.
* `ClaimCarrying`: `[]ClaimCarriesVotes`. A confirmation carries the registry of its stage.
* `ClaimUniqueness`: `[]OneClaimPerStage`. Enough votes are more than the faulty ones, so
  one is of a correct replica, which votes for the candidate of the stage.
* `ClaimTimeliness`: `[]ClaimIsTimely`. All but F of the votes are of correct replicas, whose
  own timers had come to the stage, and stages only grow.

### Replicated execution

`ExecutionInv` has that single replies tell what is in the block chain of the sender
(`RepliesAreExecuted`), that what a replica has gathered was sent to it
(`RepliesAreSent`), that a collective reply has enough of them
(`CollectiveIsBacked`), that what awaits Redis is what was requested
(`AwaitedIsRequested`), and `StoreIsLastResult`, which is inductive with them.

* `ReplicatedTypeCorrectness`: `[]TypeOK`, with the machines and block chains.
* `StoreOrdering`: `[]StoreIsLastResult`. The database has the value of the last execution
  that awaits its second answer, or, if there is none, the result of the last
  block of the key: executions overlap, but a `set` is issued together with the last
  await, and answers come in the order of the commands. The property speaks of
  indices and not of `SelectSeq`, which is recursive and out of the provers' reach.
* `CollectiveExecution`: `[]CollectiveIsExecuted`. All acknowledgments but the faulty
  ones are single replies that were sent, hence results in block chains.
* `CollectiveUniqueness`: `[]OneCollective`. Let two replicas r and s have collected the
  replies to one operation. Correct replicas replied to each of them; of a broadcast request all
  reply to the client, so it is one that the leader answers. One of those that s
  heard, q, is correct and not r, and one of those that r heard, p, is correct and not s.
  All replicas but replica 1 have replica 1 for their first peer, in whatever order ids are
  sorted. So if s is not 1, q is replica 1 (`OtherCollectsNothing`); then r is not 1, and p
  is replica 1, too, which believes in one leader and not in both. If s is 1, r is not, and
  the same holds the other way round.

### Service

`ServiceInv` has three parts. `SocketInv`: an answer is on its way, or a server serves,
only where a request is unanswered (`SocketsAlternate`). `EvidenceInv`: whatever is
requested, broadcast, executed or answered was submitted, the state machines are
consistent with the block chains, and an answer is backed by the servers that have
executed what it acknowledges with that result (`AnswersAreBacked`), whichever request
it is given to. `AcceptanceInv`: what is kept and accepted of those.

A state machine is consistent (`IsConsistent`) if the value it has stored for a key is
that of the last of the key's writes, be it in the block chain or still awaiting its
result: a write is issued together with its last await, and answers come in the order of
the commands. A value `Follows` a write if the write or one behind it in that order has
left it.

* `ServiceTypeCorrectness`: `[]TypeOK`.
* `AcceptingTheExecuted`: `[]AcceptedIsExecuted`. The replies that match, or the
  acknowledgments, are of servers that have executed the write with that result
  (`KeptIsBacked`, `AnswersAreBacked`).
* `ReadsFollowingWrites`: `[]ReadsFollowWrites`. On the servers that have executed an
  accepted write, whatever a later read of the key is told follows that write
  (`ReadsAreInformed`): the read was not submitted when the write was accepted, so it
  was not in the queue of any state machine, and from then on what is stored follows
  the write (`AwaitsAfter`, kept by every step of the machine). These servers are at
  least (2n + 1) / 3, and any n div 2 that answer a read alike have one of them. What it
  does not say: that the value is the client's own (see above).
* `ClientRefinement`: `Spec => ClientsAreClients`. A step of c's program is a step of
  `Client`: `SendCommand`, `TimerExpiration`, and the three ways of handling an answer are
  `IgnoreMessage`, `ProcessCollectiveReply` and `ProcessSingleReply`. A step of a server
  or of another client is a stutter. That an answer is one of `Client`'s `Messages` is
  `AnswersAreBacked`: it is about an operation that was submitted, and enough
  acknowledge it if it is collective. `SocketsAlternate` gives
  that the socket has a request to answer; `BroadcastsAreStarted`, that a command
  has not been broadcast before it is sent. `Client`'s own assumption on its
  constants holds of every client (lemma `ClientAssumptions`), so the theorems below
  are about the clients of this service.

### Client, synchronous controller, thresholds

* `ClientTypeCorrectness`: `[]TypeOK` of the client.
* `AcceptanceBacking`: `[]AcceptedIsBacked`. The replies that match are from different
  servers; those of correct ones are results they obtained for the current operation
  (`RepliesCurrency`), the rest are from faulty ones. A correct server lists each
  acknowledgment under the id of the server that gave it; what a faulty one lists is
  excepted. The invariant, `BackingInv`, adds `RepliesAreCurrent`, and `VouchedIsBacked`,
  which also covers `CollectiveBacking`.
* `CollectiveBacking`: `[]CollectiveIsBacked` if `Alias = {}`. It is the aliases alone
  that make the exception necessary: without them every key is a server of its own.
* `RepliesCurrency`: `[]RepliesAreCurrent`.
* `AcceptanceOrder`: `[]AcceptedInOrder`, from `QueueInv`: the operations accepted, the
  current one and those in the queue are 1, 2, ... `submitted`, in this order.
* `WaitingTimed`: `[]WaitingIsTimed`.
* `SingleRepliesNeverSuffice`: for N >= 5 no write is accepted on single replies. What
  is counted passed `CanReachConsensus`, so no result has more votes than replies
  are missing, and hence at most N / 2; one more is less than the threshold.
* `NetworkTypeCorrectness`, `LateRedirection`, `NetworkRefinement`: `[]TypeOK`,
  `[]RedirectedIsLate` and `Spec => ImplementsRequests` of `SynchronousNetwork`, from
  `NetworkInv`: a promise is registered exactly as long as it is not settled
  (`PendingIsUnsettled`), and every uuid that has been handed on is none or that of a
  request that is over. Each of timer, reply and error ends a request that is
  registered (`Ends`), and therefore one that has not ended; a sending is the abstract
  `Make`, everything else a stutter. Assumed is `NetworkAssumption` only.
* `HonestAccusation`: `[]AccusedIsFaulty`, for correct servers send no operation messages.
* `SilenceTolerated`, `SilenceBlocks`, `EchoQuorumOverlap`: what the thresholds mean.
  The last one says that two echo quorums share more than F replicas only when
  n + F is odd: the tests compare with `>=`. For n = 3 and n = 6 they may have only
  faulty replicas in common.

Every safety invariant, action property and refinement that a passing run checks is
stated by a theorem. Only model-checked: liveness (`EventualDelivery`,
`WritesAreAnswered`, `TimedRequestsEnd`), which is out of the prover's reach, and
the properties that fail.

## Plan

Done: broadcast, execution, replies, leader rotation, client, service, synchronous
network, failure detector, and the proofs of their safety. What could follow:

1. The steps of the liveness arguments as invariants, where they are not yet: for
   `WritesAreAnswered`, that a cluster at rest has answered the write in course, as
   `SettledIsAccepted` is for `EventualDelivery`.
2. `Service` with faulty servers, whose answers are then those `Client` already admits,
   and `ReadsFollowWrites` under the thresholds that remain.

## Not modelled, and why

Signatures, hashes and encryption (`crypto.ts`): functions on bytes, without state,
whose strength is not a matter of behaviours. The form of messages on the wire (JSON,
the frames of an envelope). A message that names a sender that is no peer: the look-up
of its key throws (`networkController.ts` 286, 533), and the process ends. Block hashes and
snapshots of the state machine, which nothing reads. A mixed deployment in which
servers of the service are faulty: `Client` has those, `Service` does not.

Files, arguments, console, logging and host names (I/O). Memory: `messagesLog` and
`votesRegistry` are never trimmed. Restarts: nothing is persisted, a server that
restarts has forgotten everything, and nothing in the code brings it up to date;
a stopped replica is one that is silent. `OperableTrebizondServer`, which nothing
uses. `LeaderRedirection` and `Accusation` are types of message that no server
handles, and no server sends the former.
