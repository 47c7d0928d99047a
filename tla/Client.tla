------------------------------- MODULE Client -------------------------------
(***************************************************************************)
(* One Trebizond client (trebizond-client/trebizondClient.ts) and its      *)
(* connections to the servers 1..N.                                        *)
(*                                                                         *)
(* Commands wait in a queue; one at a time is current.  It is sent to the  *)
(* server taken for the leader and, each time its timer expires, to all.   *)
(* A result is accepted from one collective reply or from enough single    *)
(* replies that match.  resolveCurrentOperation then throws, since it has  *)
(* cleared the operation whose promise it means to resolve; whether the    *)
(* client outlives that is up to the program it runs in.                   *)
(*                                                                         *)
(* Correct servers answer for an operation with a result of theirs, late,  *)
(* repeatedly or never; faulty ones send what they like, but sign for      *)
(* nobody else.  A REQ socket receives no more messages than it has sent   *)
(* requests.                                                               *)
(***************************************************************************)
EXTENDS Thresholds, Sequences, FiniteSets

CONSTANTS
  N,             \* the number of servers
  Faulty,        \* those that do not follow the protocol
  MaxCommands,   \* the commands the program sends (a bound)
  Reads,         \* those that are read operations
  Result,        \* the results that occur
  Answers,       \* Answers[s][u]: the results of u that a correct s obtains
  Alias,         \* keys like "04" that Number turns into an id (a bound)
  AliasOf,       \* AliasOf[k]: that id
  HostCatches,   \* whether the program handles uncaught exceptions
  MaxRequests,   \* unanswered requests counted per connection (a bound)
  None           \* no operation, no result

Server == 1..N
Correct == Server \ Faulty

\* The k-th command has the uuid k.
Uuid == 1..MaxCommands

\* What a message may name as the leader: a server, or N + 1, which is none.
ServerId == 1..(N + 1)

ASSUME ClientAssumption ==
  /\ N \in Nat \ {0}
  /\ Faulty \subseteq Server
  /\ MaxCommands \in Nat
  /\ Reads \subseteq Uuid
  /\ Answers \in [Correct -> [Uuid -> SUBSET Result]]
  /\ Alias \cap Server = {} /\ AliasOf \in [Alias -> Server]
  /\ HostCatches \in BOOLEAN
  /\ MaxRequests \in Nat \ {0}
  /\ None \notin Nat /\ None \notin Result

VARIABLES
  submitted,          \* how many commands have been sent
  pendingOperations,  \* the queue of operations
  currentOperation,   \* the operation in course
  currentLeaderId,    \* the server taken for the leader
  unicastAttempts,    \* 0 or 1, and -1 once the operation was broadcast
  currentReplies,     \* the result in each server's single reply
  timers,             \* operations that a timer is set for
  unanswered,         \* requests on each connection without an answer
  accepted,           \* results passed to resolveCurrentOperation (history)
  running             \* FALSE once an exception has ended the process

progress == <<submitted, pendingOperations, currentOperation, accepted, running>>

vars == <<progress, currentLeaderId, unicastAttempts, currentReplies, timers,
          unanswered>>

NoReplies == [s \in Server |-> None]

\* by: the sender of a collective reply, or None for single replies.
Acceptance == [uuid : Uuid, result : Result, by : Server \cup {None}]

TypeOK ==
  /\ submitted \in 0..MaxCommands
  /\ pendingOperations \in Seq(Uuid)
  /\ currentOperation \in Uuid \cup {None}
  /\ currentLeaderId \in ServerId
  /\ unicastAttempts \in {-1, 0, 1}
  /\ currentReplies \in [Server -> Result \cup {None}]
  /\ timers \subseteq Uuid
  /\ unanswered \in [Server -> 0..MaxRequests]
  /\ accepted \in Seq(Acceptance)
  /\ running \in BOOLEAN

-----------------------------------------------------------------------------
\* What the servers send on their connections.

\* The operations that a request has been made for.
Started == 1..(submitted - Len(pendingOperations))

\* The acknowledgments are a record of signatures under strings.  The strings
\* are counted, but each signature is checked for the server that Number turns
\* its string into.
AckKey == Server \cup Alias
SourceOf(k) == IF k \in Alias THEN AliasOf[k] ELSE k

\* Those who have signed, or would sign, the result u = v.
Signatories(u, v) == Faulty \cup {s \in Correct : v \in Answers[s][u]}

SingleReplies(s) ==
  [type : {"SingleReply"}, from : IF s \in Faulty THEN Server ELSE {s},
   uuid : Started, result : Result]

\* acknowledgments: the keys of the record when each signature in it is one of
\* this result, which nobody can forge; None when some signature is not.
CollectiveReplies(s) ==
  [type : {"CollectiveReply"}, from : {s}, uuid : Started, result : Result,
   acknowledgments : (SUBSET AckKey) \cup {None}]

\* Only faulty servers redirect a client.
Redirections(s) ==
  [type : {"LeaderRedirection"}, from : {s} \cap Faulty, leader : ServerId]

\* A message about another operation, or of a type a client does not handle.
OtherMessage(s) == [type |-> "Other", from |-> s]

IsUnforged(m) ==
  m.type = "CollectiveReply" /\ m.acknowledgments # None =>
    \A k \in m.acknowledgments : SourceOf(k) \in Signatories(m.uuid, m.result)

\* A correct server sends results of its own.  It collects what others have
\* told it, each under its id, and does not look at the signature within.
IsHonest(m) ==
  CASE m.type = "SingleReply" -> m.result \in Answers[m.from][m.uuid]
    [] m.type = "CollectiveReply" ->
         LET signers == Signatories(m.uuid, m.result)
             told == IF m.acknowledgments = None THEN signers
                     ELSE m.acknowledgments
         IN  /\ told \subseteq signers
             /\ Cardinality(told) >= UpperBoundThreshold(N)
             /\ m.acknowledgments = None => Faulty # {}
    [] OTHER -> TRUE

Messages(s) ==
  LET sendable == SingleReplies(s) \cup CollectiveReplies(s)
                    \cup Redirections(s) \cup {OtherMessage(s)}
  IN  {m \in sendable : IsUnforged(m) /\ (s \in Faulty \/ IsHonest(m))}

-----------------------------------------------------------------------------
\* Requests.

Queued(k) == IF k < MaxRequests THEN k + 1 ELSE k

\* These requests and one more to s; to everybody.
Unicast(requests, s) == [requests EXCEPT ![s] = Queued(@)]
Broadcast(requests) == [s \in Server |-> Queued(requests[s])]

\* Mutation: the ids begin with 0.
RandomFromZero == 0..(N - 1)

\* randomizeCurrentLeader
RandomLeaders == Server

\* The first of the queue becomes current.  A leader that is no server makes
\* the unicast throw, out of sendCommand, when the timer is already set.
ProcessNextOperation(queue) ==
  /\ currentOperation' = Head(queue)
  /\ pendingOperations' = Tail(queue)
  /\ timers' = timers \cup {Head(queue)}
  /\ IF currentLeaderId \in Server
     THEN /\ unanswered' = Unicast(unanswered, currentLeaderId)
          /\ unicastAttempts' = 1
     ELSE /\ unicastAttempts' = 0
          /\ UNCHANGED unanswered

\* Mutation: a new command does not wait for the current operation.
IsIdleAlways == TRUE

IsIdle == currentOperation = None

\* Only a further command takes up the queue once an operation is through.
SendCommand ==
  /\ running
  /\ submitted < MaxCommands
  /\ submitted' = submitted + 1
  /\ LET queue == Append(pendingOperations, submitted')
     IN  IF IsIdle
         THEN ProcessNextOperation(queue)
         ELSE /\ pendingOperations' = queue
              /\ UNCHANGED <<currentOperation, timers, unanswered,
                             unicastAttempts>>
  /\ UNCHANGED <<currentLeaderId, currentReplies, accepted, running>>

\* Everybody is asked, and another server is taken for the leader.
AskAgain(requests) ==
  /\ unicastAttempts' = -1
  /\ currentLeaderId' \in RandomLeaders
  /\ unanswered' = Broadcast(requests)

\* Mutation: the timer is not set again.
TimersWithout(u) == timers \ {u}

\* The timers once that of u has expired.
TimersAfter(u) == IF currentOperation = u THEN timers ELSE timers \ {u}

\* While u is current its promise is pending: nothing has resolved it.
TimerExpiration(u) ==
  /\ running
  /\ u \in timers
  /\ timers' = TimersAfter(u)
  /\ IF currentOperation = u
     THEN AskAgain(unanswered)
     ELSE UNCHANGED <<unicastAttempts, currentLeaderId, unanswered>>
  /\ UNCHANGED <<progress, currentReplies>>

-----------------------------------------------------------------------------
\* Replies.

\* Mutations: two thirds of the servers will do; one reply less will do.
WriteOpConsensusTwoThirds == (2 * N) \div 3
ReadOpConsensusLessOne == (N - 1) \div 2

\* ceil((2n + 1) / 3) and ceil((n - 1) / 2)
WriteOpConsensusThreshold == (2 * N + 3) \div 3
ReadOpConsensusThreshold == N \div 2

ConsensusThreshold(u) ==
  IF u \in Reads THEN ReadOpConsensusThreshold ELSE WriteOpConsensusThreshold

Matching(replies, result) == {s \in Server : replies[s] = result}

\* How many matching replies the result has.
Votes(replies, result) == Cardinality(Matching(replies, result))

NumReplies(replies) == Cardinality({s \in Server : replies[s] # None})

Told(replies) == {replies[s] : s \in Server} \ {None}

\* The winner, if it has enough votes.  Replies come one by one, so no two
\* results ever reach the threshold together.
EnoughMatchingReplies(replies, threshold) ==
  {v \in Told(replies) : Votes(replies, v) >= threshold}

\* The replies still missing are compared with the votes of the winner.
CanReachConsensus(replies) ==
  \A v \in Told(replies) : Votes(replies, v) <= N - NumReplies(replies)

\* Mutation: the single replies are kept for the next operation.
RepliesKept == currentReplies

RepliesCleared == NoReplies

\* The operation is forgotten and "currentOperation[1].resolve" throws.
ResolveCurrentOperation(result, by) ==
  /\ currentOperation' = None
  /\ currentReplies' = RepliesCleared
  /\ accepted' = Append(accepted, [uuid |-> currentOperation,
                                   result |-> result, by |-> by])
  /\ running' = HostCatches

\* Mutation: the sender a message names is not compared with the connection's.
IsSigned(s, m) == TRUE

\* The message names the server of the connection, which has signed it.
IsAuthentic(s, m) == m.from = s

Dispatched(s, m, type) ==
  /\ running
  /\ unanswered[s] > 0
  /\ IsAuthentic(s, m)
  /\ m.type = type

\* What is left unanswered when s has answered a request.
Answered(s) == [unanswered EXCEPT ![s] = @ - 1]

IgnoreMessage(s, m) ==
  /\ running
  /\ unanswered[s] > 0
  /\ ~IsAuthentic(s, m) \/ m.type = "Other"
  /\ unanswered' = Answered(s)
  /\ UNCHANGED <<progress, currentLeaderId, unicastAttempts, currentReplies,
                 timers>>

\* A leader that names itself makes the client broadcast; one that names
\* another is believed.
ProcessLeaderRedirection(s, m) ==
  /\ Dispatched(s, m, "LeaderRedirection")
  /\ IF /\ m.from = currentLeaderId /\ m.leader = currentLeaderId
        /\ unicastAttempts >= 0
        /\ currentOperation # None
     THEN AskAgain(Answered(s))
     ELSE /\ currentLeaderId' = IF m.from = currentLeaderId THEN m.leader
                                ELSE currentLeaderId
          /\ unanswered' = Answered(s)
          /\ UNCHANGED unicastAttempts
  /\ UNCHANGED <<progress, currentReplies, timers>>

\* Enough acknowledgments, and every one of them signed for this result.
IsAcknowledged(m) ==
  /\ m.acknowledgments # None
  /\ 3 * Cardinality(m.acknowledgments) >= 2 * N + 1

\* The sender is taken for the leader before its reply is looked at.
ProcessCollectiveReply(s, m) ==
  /\ Dispatched(s, m, "CollectiveReply")
  /\ unanswered' = Answered(s)
  /\ currentLeaderId' = IF currentOperation = m.uuid THEN m.from
                        ELSE currentLeaderId
  /\ IF currentOperation = m.uuid /\ IsAcknowledged(m)
     THEN ResolveCurrentOperation(m.result, m.from)
     ELSE UNCHANGED <<currentOperation, currentReplies, accepted, running>>
  /\ UNCHANGED <<submitted, pendingOperations, unicastAttempts, timers>>

\* A first reply of its sender to the current operation.
IsNews(m) == currentOperation = m.uuid /\ currentReplies[m.from] = None

RepliesWith(m) == [currentReplies EXCEPT ![m.from] = m.result]

\* The result is accepted, or all replies are discarded and the operation is
\* broadcast again, or the reply is kept.
CountReply(s, m) ==
  LET replies == RepliesWith(m)
      enough == EnoughMatchingReplies(replies, ConsensusThreshold(m.uuid))
  IN  \/ /\ enough # {}
         /\ \E result \in enough : ResolveCurrentOperation(result, None)
         /\ unanswered' = Answered(s)
         /\ UNCHANGED <<unicastAttempts, timers>>
      \/ /\ enough = {} /\ ~CanReachConsensus(replies)
         /\ currentReplies' = NoReplies
         /\ unicastAttempts' = -1
         /\ timers' = timers \cup {currentOperation}
         /\ unanswered' = Broadcast(Answered(s))
         /\ UNCHANGED <<currentOperation, accepted, running>>
      \/ /\ enough = {} /\ CanReachConsensus(replies)
         /\ currentReplies' = replies
         /\ unanswered' = Answered(s)
         /\ UNCHANGED <<currentOperation, unicastAttempts, timers, accepted,
                        running>>

ProcessSingleReply(s, m) ==
  /\ Dispatched(s, m, "SingleReply")
  /\ IF IsNews(m)
     THEN CountReply(s, m)
     ELSE /\ unanswered' = Answered(s)
          /\ UNCHANGED <<currentOperation, currentReplies, unicastAttempts,
                         timers, accepted, running>>
  /\ UNCHANGED <<submitted, pendingOperations, currentLeaderId>>

-----------------------------------------------------------------------------
Init ==
  /\ submitted = 0
  /\ pendingOperations = <<>>
  /\ currentOperation = None
  /\ currentLeaderId \in RandomLeaders
  /\ unicastAttempts = 0
  /\ currentReplies = NoReplies
  /\ timers = {}
  /\ unanswered = [s \in Server |-> 0]
  /\ accepted = <<>>
  /\ running = TRUE

\* dispatchServerMessage
Dispatch(s, m) ==
  \/ IgnoreMessage(s, m)
  \/ ProcessLeaderRedirection(s, m)
  \/ ProcessCollectiveReply(s, m)
  \/ ProcessSingleReply(s, m)

Next ==
  \/ SendCommand
  \/ \E u \in Uuid : TimerExpiration(u)
  \/ \E s \in Server : \E m \in Messages(s) : Dispatch(s, m)

Spec == Init /\ [][Next]_vars

-----------------------------------------------------------------------------
Backers(u, v) == {s \in Correct : v \in Answers[s][u]}

\* As many correct servers have obtained the result a of an operation as a
\* quorum of that kind has besides the faulty ones.
IsBacked(a) ==
  LET quorum == Cardinality(Backers(a.uuid, a.result)) + Cardinality(Faulty)
  IN  IF a.uuid \in Reads /\ a.by = None
      THEN 2 * quorum >= N - 1
      ELSE 3 * quorum >= 2 * N + 1

\* A result is accepted only if enough correct servers have obtained it for
\* that very operation, whatever faulty ones claim, repeat or redirect to, and
\* however late the replies to earlier operations are; unless it comes in a
\* collective reply of a faulty server, see CollectiveIsBacked
\* (trebizondClient.ts:160-214, 252-309).
AcceptedIsBacked ==
  \A i \in DOMAIN accepted :
    accepted[i].by \in Correct \cup {None} => IsBacked(accepted[i])

\* A collective reply is accepted if "it aggregates an amount enough of result
\* acknowledgments, and all of them are properly signed"
\* (trebizondClient.ts:155-156), by "Replicas" (datatypes.ts:78).
CollectiveIsBacked ==
  \A i \in DOMAIN accepted :
    accepted[i].by # None => IsBacked(accepted[i])

\* Results are accepted in the order the commands were sent, each operation's
\* once and none skipped, whatever repeated requests and late replies are on
\* the way (trebizondClient.ts:89-121, 246-250).
AcceptedInOrder ==
  \A i \in DOMAIN accepted : accepted[i].uuid = i

\* The replies that are counted answer the current operation: none is left
\* from an earlier one (trebizondClient.ts:179-182, 208, 248).
RepliesAreCurrent ==
  \A s \in Correct :
    currentReplies[s] # None =>
      /\ currentOperation # None
      /\ currentReplies[s] \in Answers[s][currentOperation]

\* An operation never waits without a timer that will ask all servers again,
\* although timers of earlier operations expire meanwhile and the exception of
\* an unknown leader cuts its start short (trebizondClient.ts:110-121, 311-339).
WaitingIsTimed ==
  currentOperation # None => currentOperation \in timers
=============================================================================
