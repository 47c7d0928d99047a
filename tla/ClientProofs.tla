---------------------------- MODULE ClientProofs ----------------------------
(***************************************************************************)
(* Theorems about Client, for any number of servers, any commands and any  *)
(* answers, and their proofs.                                              *)
(***************************************************************************)
EXTENDS Client, FiniteSetTheorems, TLAPS

-----------------------------------------------------------------------------
\* The messages that are dispatched.

\* An authentic single reply of a correct server has a result of its own.
LEMMA SingleReplyFacts ==
  ASSUME ClientAssumption, TypeOK, NEW s \in Server, NEW m \in Messages(s),
         IsAuthentic(s, m), m.type = "SingleReply"
  PROVE  /\ m.from = s /\ m.uuid \in Uuid /\ m.result \in Result
         /\ s \in Correct => m.result \in Answers[s][m.uuid]
<1>1. m \in SingleReplies(s)
  BY DEF Messages, CollectiveReplies, Redirections, OtherMessage
<1>2. m.from = s
  BY DEF IsAuthentic
<1>3. m.uuid \in Started /\ m.result \in Result
  BY <1>1 DEF SingleReplies
<1>4. m.uuid \in Uuid
  <2>1. Len(pendingOperations) \in Nat
    BY DEF TypeOK
  <2> QED
    BY <1>3, <2>1 DEF Started, Uuid, TypeOK, ClientAssumption
<1>5. ASSUME s \in Correct
      PROVE  m.result \in Answers[s][m.uuid]
  BY <1>2, <1>5 DEF Messages, IsHonest, Correct
<1> QED
  BY <1>2, <1>3, <1>4, <1>5

\* A collective reply names an operation and a result, and its signatures are
\* those of servers that sign; a correct server uses nothing but their ids.
LEMMA CollectiveReplyFacts ==
  ASSUME ClientAssumption, TypeOK, NEW s \in Server, NEW m \in Messages(s),
         m.type = "CollectiveReply"
  PROVE  /\ m.from = s /\ m.uuid \in Uuid /\ m.result \in Result
         /\ m.acknowledgments # None =>
              /\ m.acknowledgments \subseteq AckKey
              /\ s \in Correct \/ Alias = {} =>
                   m.acknowledgments \subseteq Signatories(m.uuid, m.result)
<1>1. m \in CollectiveReplies(s)
  BY DEF Messages, SingleReplies, Redirections, OtherMessage
<1>2. m.from = s /\ m.uuid \in Started /\ m.result \in Result
      /\ m.acknowledgments \in (SUBSET AckKey) \cup {None}
  BY <1>1 DEF CollectiveReplies
<1>3. Len(pendingOperations) \in Nat
  BY DEF TypeOK
<1>4. ASSUME m.acknowledgments # None, s \in Correct
      PROVE  m.acknowledgments \subseteq Signatories(m.uuid, m.result)
  <2>1. IsHonest(m)
    BY <1>4 DEF Messages, Correct
  <2> QED
    BY <1>4, <2>1 DEF IsHonest
<1>5. ASSUME m.acknowledgments # None, Alias = {}
      PROVE  m.acknowledgments \subseteq Signatories(m.uuid, m.result)
  <2>1. \A k \in m.acknowledgments :
          SourceOf(k) \in Signatories(m.uuid, m.result)
    BY <1>5 DEF Messages, IsUnforged
  <2> QED
    BY <1>5, <2>1 DEF SourceOf
<1> QED
  BY <1>2, <1>3, <1>4, <1>5 DEF Started, Uuid, TypeOK, ClientAssumption

\* A redirection names a server, or none.
LEMMA RedirectionFacts ==
  ASSUME NEW s \in Server, NEW m \in Messages(s), m.type = "LeaderRedirection"
  PROVE  m.leader \in ServerId
<1>1. m \in Redirections(s)
  BY DEF Messages, SingleReplies, CollectiveReplies, OtherMessage
<1> QED
  BY <1>1 DEF Redirections

\* Requests are counted up to the bound.
LEMMA RequestFacts ==
  ASSUME ClientAssumption, NEW q \in [Server -> 0..MaxRequests],
         NEW s \in Server
  PROVE  /\ Broadcast(q) \in [Server -> 0..MaxRequests]
         /\ Unicast(q, s) \in [Server -> 0..MaxRequests]
         /\ q[s] > 0 => [q EXCEPT ![s] = @ - 1] \in [Server -> 0..MaxRequests]
<1>1. \A k \in 0..MaxRequests : Queued(k) \in 0..MaxRequests
  BY DEF Queued, ClientAssumption
<1> QED
  BY <1>1 DEF Broadcast, Unicast, ClientAssumption

\* The winner is a result.
LEMMA WinnerFacts ==
  ASSUME NEW replies \in [Server -> Result \cup {None}], NEW k,
         NEW v \in EnoughMatchingReplies(replies, k)
  PROVE  v \in Result /\ Votes(replies, v) >= k
BY DEF EnoughMatchingReplies, Told

\* A server may be taken for the leader.
LEMMA ServersAreIds == ClientAssumption => Server \subseteq ServerId
BY DEF ClientAssumption, Server, ServerId

-----------------------------------------------------------------------------
\* Type correctness.

\* The client starts with an empty queue and nothing in course.
LEMMA InitTyped == ClientAssumption /\ Init => TypeOK
<1> SUFFICES ASSUME ClientAssumption, Init
             PROVE  TypeOK
  OBVIOUS
<1>1. currentLeaderId \in ServerId
  BY ServersAreIds DEF Init, RandomLeaders
<1> QED
  BY <1>1 DEF Init, TypeOK, NoReplies, ClientAssumption, Uuid

\* A command is queued, or becomes current.
LEMMA SendCommandTyped ==
  ASSUME ClientAssumption, TypeOK, SendCommand
  PROVE  TypeOK'
<1> DEFINE queue == Append(pendingOperations, submitted')
<1>1. submitted' \in Uuid /\ submitted' \in 0..MaxCommands
  BY DEF SendCommand, TypeOK, Uuid, ClientAssumption
<1>2. queue \in Seq(Uuid) /\ Len(queue) > 0
  <2>1. pendingOperations \in Seq(Uuid)
    BY DEF TypeOK
  <2>2. queue \in Seq(Uuid)
    BY <1>1, <2>1
  <2>3. Len(queue) = Len(pendingOperations) + 1
    BY <2>1
  <2> QED
    BY <2>1, <2>2, <2>3
<1> HIDE DEF queue
<1>3. Head(queue) \in Uuid /\ Tail(queue) \in Seq(Uuid)
  BY <1>2
<1>4. CASE IsIdle
  <2>1. ProcessNextOperation(queue)
    BY <1>4 DEF SendCommand, queue
  <2>2. unanswered' \in [Server -> 0..MaxRequests]
    <3>1. unanswered \in [Server -> 0..MaxRequests]
      BY DEF TypeOK
    <3>2. currentLeaderId \in Server =>
            Unicast(unanswered, currentLeaderId) \in [Server -> 0..MaxRequests]
      BY <3>1, RequestFacts
    <3> QED
      BY <2>1, <3>1, <3>2 DEF ProcessNextOperation
  <2> QED
    BY <1>1, <1>3, <2>1, <2>2
       DEF ProcessNextOperation, SendCommand, TypeOK
<1>5. CASE ~IsIdle
  BY <1>1, <1>2, <1>5 DEF SendCommand, TypeOK, queue
<1> QED
  BY <1>4, <1>5

\* Asking everybody keeps the types.
LEMMA AskAgainTyped ==
  ASSUME ClientAssumption, NEW q \in [Server -> 0..MaxRequests], AskAgain(q)
  PROVE  /\ unicastAttempts' \in {-1, 0, 1}
         /\ currentLeaderId' \in ServerId
         /\ unanswered' \in [Server -> 0..MaxRequests]
<1>1. 1 \in Server
  BY DEF ClientAssumption, Server
<1> QED
  BY <1>1, ServersAreIds, RequestFacts DEF AskAgain, RandomLeaders

\* A timer that expires keeps the types.
LEMMA TimerExpirationTyped ==
  ASSUME ClientAssumption, TypeOK, NEW u \in Uuid, TimerExpiration(u)
  PROVE  TypeOK'
<1>1. unanswered \in [Server -> 0..MaxRequests]
  BY DEF TypeOK
<1>2. /\ unicastAttempts' \in {-1, 0, 1}
      /\ currentLeaderId' \in ServerId
      /\ unanswered' \in [Server -> 0..MaxRequests]
  BY <1>1, AskAgainTyped DEF TimerExpiration, TypeOK
<1> QED
  BY <1>2 DEF TimerExpiration, TimersAfter, progress, TypeOK

\* Resolving an operation keeps the types.
LEMMA ResolveTyped ==
  ASSUME ClientAssumption, TypeOK, currentOperation # None,
         NEW v \in Result, NEW by \in Server \cup {None},
         ResolveCurrentOperation(v, by)
  PROVE  /\ currentOperation' \in Uuid \cup {None}
         /\ currentReplies' \in [Server -> Result \cup {None}]
         /\ accepted' \in Seq(Acceptance)
         /\ running' \in BOOLEAN
<1>1. [uuid |-> currentOperation, result |-> v, by |-> by] \in Acceptance
  BY DEF TypeOK, Acceptance
<1> QED
  BY <1>1 DEF ResolveCurrentOperation, RepliesCleared, NoReplies, TypeOK,
              ClientAssumption

\* Whatever message arrives keeps the types.
LEMMA DispatchTyped ==
  ASSUME ClientAssumption, TypeOK, NEW s \in Server, NEW m \in Messages(s),
         Dispatch(s, m)
  PROVE  TypeOK'
<1>1. unanswered[s] > 0 => Answered(s) \in [Server -> 0..MaxRequests]
  BY RequestFacts DEF TypeOK, Answered
<1>2. CASE IgnoreMessage(s, m)
  BY <1>1, <1>2 DEF IgnoreMessage, progress, TypeOK
<1>3. CASE ProcessLeaderRedirection(s, m)
  <2>1. Answered(s) \in [Server -> 0..MaxRequests] /\ m.leader \in ServerId
    BY <1>1, <1>3, RedirectionFacts DEF ProcessLeaderRedirection, Dispatched
  <2>2. /\ unicastAttempts' \in {-1, 0, 1}
        /\ currentLeaderId' \in ServerId
        /\ unanswered' \in [Server -> 0..MaxRequests]
    <3>1. CASE AskAgain(Answered(s))
      BY <2>1, <3>1, AskAgainTyped
    <3>2. CASE ~AskAgain(Answered(s))
      BY <1>3, <2>1, <3>2 DEF ProcessLeaderRedirection, TypeOK
    <3> QED
      BY <3>1, <3>2
  <2> QED
    BY <1>3, <2>2 DEF ProcessLeaderRedirection, progress, TypeOK
<1>4. CASE ProcessCollectiveReply(s, m)
  <2>1. /\ Answered(s) \in [Server -> 0..MaxRequests]
        /\ m.from \in ServerId /\ m.uuid \in Uuid /\ m.result \in Result
    BY <1>1, <1>4, CollectiveReplyFacts, ServersAreIds
       DEF ProcessCollectiveReply, Dispatched
  <2>2. CASE currentOperation = m.uuid /\ IsAcknowledged(m)
    <3>1. currentOperation # None
      BY <2>1, <2>2 DEF ClientAssumption, Uuid
    <3>2. ResolveCurrentOperation(m.result, m.from) /\ m.from \in Server
      BY <1>4, <2>2, CollectiveReplyFacts DEF ProcessCollectiveReply, Dispatched
    <3>3. /\ currentOperation' \in Uuid \cup {None}
          /\ currentReplies' \in [Server -> Result \cup {None}]
          /\ accepted' \in Seq(Acceptance)
          /\ running' \in BOOLEAN
      BY <2>1, <3>1, <3>2, ResolveTyped
    <3> QED
      BY <1>4, <2>1, <3>3 DEF ProcessCollectiveReply, TypeOK
  <2>3. CASE ~(currentOperation = m.uuid /\ IsAcknowledged(m))
    BY <1>4, <2>1, <2>3 DEF ProcessCollectiveReply, TypeOK
  <2> QED
    BY <2>2, <2>3
<1>5. CASE ProcessSingleReply(s, m)
  <2>1. /\ Answered(s) \in [Server -> 0..MaxRequests]
        /\ m.from = s /\ m.uuid \in Uuid /\ m.result \in Result
    BY <1>1, <1>5, SingleReplyFacts DEF ProcessSingleReply, Dispatched
  <2>2. Broadcast(Answered(s)) \in [Server -> 0..MaxRequests]
    BY <2>1, RequestFacts
  <2>3. CASE IsNews(m)
    <3>1. CountReply(s, m) /\ currentOperation = m.uuid
      BY <1>5, <2>3 DEF ProcessSingleReply, IsNews
    <3>2. currentOperation \in Uuid /\ currentOperation # None
      BY <2>1, <3>1 DEF ClientAssumption, Uuid
    <3>3. RepliesWith(m) \in [Server -> Result \cup {None}]
      BY <2>1 DEF RepliesWith, TypeOK
    <3>4. CASE \E v \in Result : /\ ResolveCurrentOperation(v, None)
                                 /\ unanswered' = Answered(s)
                                 /\ UNCHANGED <<unicastAttempts, timers>>
      BY <1>5, <2>1, <3>2, <3>4, ResolveTyped DEF ProcessSingleReply, TypeOK
    <3>5. CASE /\ currentReplies' = NoReplies
               /\ unicastAttempts' = -1
               /\ timers' = timers \cup {currentOperation}
               /\ unanswered' = Broadcast(Answered(s))
               /\ UNCHANGED <<currentOperation, accepted, running>>
      BY <1>5, <2>2, <3>2, <3>5 DEF ProcessSingleReply, TypeOK, NoReplies
    <3>6. CASE /\ currentReplies' = RepliesWith(m)
               /\ unanswered' = Answered(s)
               /\ UNCHANGED <<currentOperation, unicastAttempts, timers,
                              accepted, running>>
      BY <1>5, <2>1, <3>3, <3>6 DEF ProcessSingleReply, TypeOK
    <3> QED
      BY <3>1, <3>3, <3>4, <3>5, <3>6, WinnerFacts DEF CountReply
  <2>4. CASE ~IsNews(m)
    BY <1>5, <2>1, <2>4 DEF ProcessSingleReply, TypeOK
  <2> QED
    BY <2>3, <2>4
<1> QED
  BY <1>2, <1>3, <1>4, <1>5 DEF Dispatch

\* Every variable keeps its type; in particular the leader the client believes
\* in is an id that was drawn or named, and no connection is answered more
\* often than asked (trebizondClient.ts:29-63).
THEOREM ClientTypeCorrectness ==
  ASSUME ClientAssumption
  PROVE  Spec => []TypeOK
<1>1. Init => TypeOK
  BY InitTyped
<1>2. TypeOK /\ [Next]_vars => TypeOK'
  <2>1. ASSUME TypeOK, UNCHANGED vars
        PROVE  TypeOK'
    BY <2>1 DEF vars, progress, TypeOK
  <2> QED
    BY <2>1, SendCommandTyped, TimerExpirationTyped, DispatchTyped DEF Next
<1> QED
  BY <1>1, <1>2, PTL DEF Spec

-----------------------------------------------------------------------------
\* What a step does to the operations and the replies.

\* Replies with one more in them that answers the current operation.
NewReplies(replies) ==
  \E s \in Server : \E m \in Messages(s) :
    /\ IsAuthentic(s, m) /\ m.type = "SingleReply"
    /\ IsNews(m)
    /\ replies = RepliesWith(m)

Counted(v) ==
  \E replies \in [Server -> Result \cup {None}] :
    /\ NewReplies(replies)
    /\ Votes(replies, v) >= ConsensusThreshold(currentOperation)

Collected(v, s) ==
  \E keys \in SUBSET AckKey :
    /\ s \in Correct \/ Alias = {} => keys \subseteq Signatories(currentOperation, v)
    /\ 3 * Cardinality(keys) >= 2 * N + 1

Accepts(v, by) ==
  /\ currentOperation \in Uuid
  /\ ResolveCurrentOperation(v, by)
  /\ IF by = None THEN Counted(v) ELSE Collected(v, by)
  /\ UNCHANGED <<submitted, pendingOperations, timers>>

Keeps(replies) ==
  /\ NewReplies(replies)
  /\ CanReachConsensus(replies)
  /\ currentReplies' = replies

StaysTimed == currentOperation \in timers => currentOperation \in timers'

\* A reply that is news is accepted, kept, or makes all be discarded.
LEMMA SingleReplyCases ==
  ASSUME ClientAssumption, TypeOK, NEW s \in Server, NEW m \in Messages(s),
         ProcessSingleReply(s, m), IsNews(m)
  PROVE  \/ \E v \in Result : Accepts(v, None)
         \/ /\ UNCHANGED progress /\ StaysTimed
            /\ \/ \E replies \in [Server -> Result \cup {None}] : Keeps(replies)
               \/ currentReplies' = NoReplies
<1>1. /\ IsAuthentic(s, m) /\ m.type = "SingleReply"
      /\ m.from = s /\ m.uuid \in Uuid /\ m.result \in Result
  BY SingleReplyFacts DEF ProcessSingleReply, Dispatched
<1>2. currentOperation = m.uuid
  BY DEF IsNews
<1>3. RepliesWith(m) \in [Server -> Result \cup {None}]
  BY <1>1 DEF RepliesWith, TypeOK
<1>4. NewReplies(RepliesWith(m))
  BY <1>1 DEF NewReplies
<1>5. CountReply(s, m) /\ UNCHANGED <<submitted, pendingOperations>>
  BY DEF ProcessSingleReply
<1>6. CASE \E v \in EnoughMatchingReplies(RepliesWith(m),
                                         ConsensusThreshold(m.uuid)) :
             /\ ResolveCurrentOperation(v, None)
             /\ UNCHANGED <<unicastAttempts, timers>>
  <2>1. PICK v \in Result : /\ Votes(RepliesWith(m), v)
                                 >= ConsensusThreshold(m.uuid)
                            /\ ResolveCurrentOperation(v, None)
                            /\ UNCHANGED timers
    BY <1>3, <1>6, WinnerFacts
  <2>2. Counted(v)
    BY <1>2, <1>3, <1>4, <2>1 DEF Counted
  <2>3. Accepts(v, None)
    BY <1>1, <1>2, <1>5, <2>1, <2>2 DEF Accepts
  <2> QED
    BY <2>3
<1>7. CASE /\ currentReplies' = NoReplies
           /\ timers' = timers \cup {currentOperation}
           /\ UNCHANGED <<currentOperation, accepted, running>>
  BY <1>5, <1>7 DEF progress, StaysTimed
<1>8. CASE /\ CanReachConsensus(RepliesWith(m))
           /\ currentReplies' = RepliesWith(m)
           /\ UNCHANGED <<currentOperation, unicastAttempts, timers, accepted,
                          running>>
  <2>1. Keeps(RepliesWith(m))
    BY <1>4, <1>8 DEF Keeps
  <2> QED
    BY <1>3, <1>5, <1>8, <2>1 DEF progress, StaysTimed
<1> QED
  BY <1>5, <1>6, <1>7, <1>8 DEF CountReply

\* What a step may do to the operation in course and to its replies.
LEMMA NextCases ==
  ASSUME ClientAssumption, TypeOK, [Next]_vars
  PROVE  \/ SendCommand
         \/ \E v \in Result, by \in Server \cup {None} : Accepts(v, by)
         \/ /\ UNCHANGED progress /\ StaysTimed
            /\ \/ \E replies \in [Server -> Result \cup {None}] : Keeps(replies)
               \/ currentReplies' = NoReplies
               \/ UNCHANGED currentReplies
<1> DEFINE Rests == UNCHANGED <<progress, currentReplies>> /\ StaysTimed
<1>1. CASE UNCHANGED vars
  BY <1>1 DEF vars, StaysTimed
<1>2. ASSUME NEW u \in Uuid, TimerExpiration(u)
      PROVE  Rests
  BY <1>2 DEF TimerExpiration, TimersAfter, StaysTimed
<1>3. ASSUME NEW s \in Server, NEW m \in Messages(s),
             IgnoreMessage(s, m) \/ ProcessLeaderRedirection(s, m)
      PROVE  Rests
  BY <1>3 DEF IgnoreMessage, ProcessLeaderRedirection, StaysTimed
<1>4. ASSUME NEW s \in Server, NEW m \in Messages(s),
             ProcessCollectiveReply(s, m)
      PROVE  Rests \/ \E v \in Result : Accepts(v, s)
  <2>1. /\ m.uuid \in Uuid /\ m.result \in Result /\ m.from = s
        /\ m.acknowledgments # None =>
             /\ m.acknowledgments \subseteq AckKey
             /\ s \in Correct \/ Alias = {} =>
                  m.acknowledgments \subseteq Signatories(m.uuid, m.result)
    BY <1>4, CollectiveReplyFacts DEF ProcessCollectiveReply, Dispatched
  <2>2. CASE currentOperation = m.uuid /\ IsAcknowledged(m)
    <3>1. Collected(m.result, s)
      BY <2>1, <2>2 DEF Collected, IsAcknowledged
    <3>2. Accepts(m.result, s)
      <4>1. s # None
        BY DEF Server, ClientAssumption
      <4> QED
        BY <1>4, <2>1, <2>2, <3>1, <4>1 DEF ProcessCollectiveReply, Accepts
    <3> QED
      BY <2>1, <3>2
  <2>3. CASE ~(currentOperation = m.uuid /\ IsAcknowledged(m))
    BY <1>4, <2>3 DEF ProcessCollectiveReply, progress, StaysTimed
  <2> QED
    BY <2>2, <2>3
<1>5. ASSUME NEW s \in Server, NEW m \in Messages(s),
             ProcessSingleReply(s, m), ~IsNews(m)
      PROVE  Rests
  BY <1>5 DEF ProcessSingleReply, progress, StaysTimed
<1> QED
  BY <1>1, <1>2, <1>3, <1>4, <1>5, SingleReplyCases DEF Next, Dispatch

-----------------------------------------------------------------------------
\* What is accepted is backed.

\* Every set of servers of which the correct ones have obtained the result.
LEMMA BackingBound ==
  ASSUME ClientAssumption, NEW u \in Uuid, NEW v \in Result,
         NEW S \in SUBSET Server, S \subseteq Signatories(u, v)
  PROVE  /\ Cardinality(S) \in Nat
         /\ Cardinality(Backers(u, v)) \in Nat /\ Cardinality(Faulty) \in Nat
         /\ Cardinality(S) <= Cardinality(Backers(u, v)) + Cardinality(Faulty)
<1>1. IsFiniteSet(Server)
  BY FS_Interval DEF Server, ClientAssumption
<1>2. /\ Backers(u, v) \subseteq Server /\ Faulty \subseteq Server
      /\ S \subseteq Backers(u, v) \cup Faulty
      /\ Backers(u, v) \cap Faulty = {}
  BY DEF Backers, Signatories, Correct, ClientAssumption
<1>3. /\ IsFiniteSet(S) /\ IsFiniteSet(Backers(u, v)) /\ IsFiniteSet(Faulty)
      /\ IsFiniteSet(Backers(u, v) \cup Faulty)
  BY <1>1, <1>2, FS_Subset, FS_Union
<1>4. /\ Cardinality(S) \in Nat /\ Cardinality(Backers(u, v)) \in Nat
      /\ Cardinality(Faulty) \in Nat
  BY <1>3, FS_CardinalityType
<1>5. Cardinality(S) <= Cardinality(Backers(u, v) \cup Faulty)
  BY <1>2, <1>3, FS_Subset
<1>6. Cardinality(Backers(u, v) \cup Faulty)
        = Cardinality(Backers(u, v)) + Cardinality(Faulty)
          - Cardinality(Backers(u, v) \cap Faulty)
  BY <1>3, FS_Union
<1>7. Cardinality(Backers(u, v) \cap Faulty) = 0
  BY <1>2, FS_EmptySet
<1> QED
  BY <1>4, <1>5, <1>6, <1>7

\* A reply that is counted answers the operation in course.
LEMMA NewRepliesAreCurrent ==
  ASSUME ClientAssumption, TypeOK, RepliesAreCurrent, NEW replies,
         NewReplies(replies)
  PROVE  \A s \in Correct :
           replies[s] # None =>
             /\ currentOperation # None
             /\ replies[s] \in Answers[s][currentOperation]
<1>0. PICK s \in Server : \E m \in Messages(s) :
             /\ IsAuthentic(s, m) /\ m.type = "SingleReply"
             /\ IsNews(m)
             /\ replies = RepliesWith(m)
  BY DEF NewReplies
<1>1. PICK m \in Messages(s) :
             /\ IsAuthentic(s, m) /\ m.type = "SingleReply"
             /\ IsNews(m)
             /\ replies = RepliesWith(m)
  BY <1>0
<1>2. /\ m.from = s /\ m.uuid \in Uuid
      /\ s \in Correct => m.result \in Answers[s][m.uuid]
  BY <1>1, SingleReplyFacts
<1>3. currentOperation = m.uuid /\ currentOperation # None
  BY <1>1, <1>2 DEF IsNews, ClientAssumption, Uuid
<1>4. \A t \in Server : replies[t] = IF t = s THEN m.result
                                     ELSE currentReplies[t]
  BY <1>1, <1>2 DEF RepliesWith, TypeOK
<1> QED
  BY <1>2, <1>3, <1>4 DEF RepliesAreCurrent, Correct

\* A faulty server may have written one id in several ways.
Vouches(by) == by \in Correct \cup {None} \/ Alias = {}

Backed(u, v, by) ==
  Vouches(by) =>
    LET quorum == Cardinality(Backers(u, v)) + Cardinality(Faulty)
    IN  IF u \in Reads /\ by = None
        THEN 2 * quorum >= N - 1
        ELSE 3 * quorum >= 2 * N + 1

VouchedIsBacked ==
  \A i \in DOMAIN accepted :
    Backed(accepted[i].uuid, accepted[i].result, accepted[i].by)

\* What is accepted is backed by enough correct servers.
LEMMA AcceptsBacked ==
  ASSUME ClientAssumption, TypeOK, RepliesAreCurrent,
         NEW v \in Result, NEW by \in Server \cup {None}, Accepts(v, by)
  PROVE  Backed(currentOperation, v, by)
<1> DEFINE u == currentOperation
<1>1. u \in Uuid
  BY DEF Accepts
<1>2. CASE by = None
  <2>1. PICK replies \in [Server -> Result \cup {None}] :
               /\ NewReplies(replies)
               /\ Votes(replies, v) >= ConsensusThreshold(u)
    BY <1>2 DEF Accepts, Counted
  <2>2. /\ Matching(replies, v) \subseteq Server
        /\ Matching(replies, v) \subseteq Signatories(u, v)
    BY <2>1, NewRepliesAreCurrent
       DEF Matching, Signatories, Correct, ClientAssumption
  <2>3. /\ Votes(replies, v) \in Nat
        /\ Cardinality(Backers(u, v)) \in Nat /\ Cardinality(Faulty) \in Nat
        /\ Votes(replies, v) <= Cardinality(Backers(u, v)) + Cardinality(Faulty)
    BY <1>1, <2>2, BackingBound DEF Votes
  <2>4. IF u \in Reads THEN 2 * ConsensusThreshold(u) >= N - 1
                       ELSE 3 * ConsensusThreshold(u) >= 2 * N + 1
    BY DEF ConsensusThreshold, ReadOpConsensusThreshold,
           WriteOpConsensusThreshold, ClientAssumption
  <2>5. ConsensusThreshold(u) \in Nat /\ N \in Nat
    BY DEF ConsensusThreshold, ReadOpConsensusThreshold,
           WriteOpConsensusThreshold, ClientAssumption
  <2> QED
    BY <1>2, <2>1, <2>3, <2>4, <2>5 DEF Backed
<1>3. CASE by \in Server /\ by # None
  <2> SUFFICES ASSUME by \in Correct \/ Alias = {}
               PROVE  Backed(u, v, by)
    BY <1>3 DEF Backed, Vouches
  <2>1. PICK signers \in SUBSET Server :
               /\ signers \subseteq Signatories(u, v)
               /\ 3 * Cardinality(signers) >= 2 * N + 1
    <3>1. Signatories(u, v) \subseteq Server
      BY DEF Signatories, Correct, ClientAssumption
    <3> QED
      BY <1>3, <3>1 DEF Accepts, Collected
  <2>2. /\ Cardinality(signers) \in Nat
        /\ Cardinality(Backers(u, v)) \in Nat /\ Cardinality(Faulty) \in Nat
        /\ Cardinality(signers)
             <= Cardinality(Backers(u, v)) + Cardinality(Faulty)
    BY <1>1, <2>1, BackingBound
  <2> QED
    BY <1>3, <2>1, <2>2 DEF Backed, ClientAssumption
<1> QED
  BY <1>2, <1>3

\* The results that a client has accepted after one more.
LEMMA AcceptsAppends ==
  ASSUME TypeOK, NEW v \in Result, NEW by \in Server \cup {None},
         Accepts(v, by)
  PROVE  /\ Len(accepted) \in Nat /\ Len(accepted') = Len(accepted) + 1
         /\ \A i \in DOMAIN accepted : accepted'[i] = accepted[i]
         /\ accepted'[Len(accepted')]
              = [uuid |-> currentOperation, result |-> v, by |-> by]
         /\ DOMAIN accepted = 1..Len(accepted)
         /\ DOMAIN accepted' = 1..Len(accepted')
<1> DEFINE a == [uuid |-> currentOperation, result |-> v, by |-> by]
<1>1. accepted \in Seq(Acceptance) /\ a \in Acceptance
  BY DEF TypeOK, Accepts, Acceptance
<1>2. accepted' = Append(accepted, a)
  BY DEF Accepts, ResolveCurrentOperation
<1> HIDE DEF a
<1>3. /\ Len(accepted) \in Nat /\ Len(accepted') = Len(accepted) + 1
      /\ DOMAIN accepted = 1..Len(accepted)
      /\ DOMAIN accepted' = 1..Len(accepted')
      /\ \A i \in 1..Len(accepted) : accepted'[i] = accepted[i]
      /\ accepted'[Len(accepted) + 1] = a
  BY <1>1, <1>2
<1> QED
  BY <1>3 DEF a

BackingInv == TypeOK /\ RepliesAreCurrent /\ VouchedIsBacked

\* Every step keeps what has been accepted backed.
LEMMA BackingStep ==
  ASSUME ClientAssumption, BackingInv, TypeOK', [Next]_vars
  PROVE  BackingInv'
<1>1. TypeOK /\ RepliesAreCurrent /\ VouchedIsBacked
  BY DEF BackingInv
<1>2. \A s \in Correct : NoReplies[s] = None
  BY DEF NoReplies, Correct
<1>3. CASE SendCommand
  <2>1. UNCHANGED <<accepted, currentReplies>>
    BY <1>3 DEF SendCommand
  <2>2. VouchedIsBacked'
    BY <1>1, <2>1 DEF VouchedIsBacked, Backed, Backers
  <2>3. RepliesAreCurrent'
    <3>1. CASE IsIdle
      BY <1>1, <2>1, <3>1 DEF RepliesAreCurrent, IsIdle
    <3>2. CASE ~IsIdle
      BY <1>1, <1>3, <2>1, <3>2 DEF RepliesAreCurrent, SendCommand
    <3> QED
      BY <3>1, <3>2
  <2> QED
    BY <2>2, <2>3 DEF BackingInv
<1>4. ASSUME NEW v \in Result, NEW by \in Server \cup {None},
             Accepts(v, by)
      PROVE  BackingInv'
  <2>1. RepliesAreCurrent'
    BY <1>2, <1>4
       DEF Accepts, ResolveCurrentOperation, RepliesCleared, RepliesAreCurrent
  <2>2. \A i \in DOMAIN accepted :
           Backed(accepted[i].uuid, accepted[i].result, accepted[i].by)
    BY <1>1 DEF VouchedIsBacked
  <2>3. Backed(currentOperation, v, by)
    BY <1>1, <1>4, AcceptsBacked
  <2>4. \A i \in DOMAIN accepted' :
           Backed(accepted'[i].uuid, accepted'[i].result, accepted'[i].by)
    <3>1. ASSUME NEW i \in DOMAIN accepted'
          PROVE  Backed(accepted'[i].uuid, accepted'[i].result,
                        accepted'[i].by)
      <4>1. i \in DOMAIN accepted \/ i = Len(accepted')
        <5>1. /\ Len(accepted) \in Nat /\ Len(accepted') = Len(accepted) + 1
              /\ DOMAIN accepted = 1..Len(accepted)
              /\ i \in 1..Len(accepted')
          BY <1>1, <1>4, AcceptsAppends
        <5> QED
          BY <5>1
      <4>2. CASE i \in DOMAIN accepted
        BY <1>1, <1>4, <2>2, <4>2, AcceptsAppends
      <4>3. CASE i = Len(accepted')
        BY <1>1, <1>4, <2>3, <4>3, AcceptsAppends
      <4> QED
        BY <4>1, <4>2, <4>3
    <3> QED
      BY <3>1
  <2>5. VouchedIsBacked'
    BY <2>4 DEF VouchedIsBacked, Backed, Backers
  <2> QED
    BY <2>1, <2>5 DEF BackingInv
<1>5. ASSUME UNCHANGED progress,
             \/ \E replies \in [Server -> Result \cup {None}] : Keeps(replies)
             \/ currentReplies' = NoReplies
             \/ UNCHANGED currentReplies
      PROVE  BackingInv'
  <2>1. VouchedIsBacked'
    BY <1>1, <1>5 DEF VouchedIsBacked, Backed, Backers, progress
  <2>2. RepliesAreCurrent'
    <3>1. ASSUME NEW replies \in [Server -> Result \cup {None}], Keeps(replies)
          PROVE  RepliesAreCurrent'
      BY <1>1, <1>5, <3>1, NewRepliesAreCurrent
         DEF Keeps, RepliesAreCurrent, progress
    <3>2. CASE currentReplies' = NoReplies
      BY <1>2, <3>2 DEF RepliesAreCurrent
    <3>3. CASE UNCHANGED currentReplies
      BY <1>1, <1>5, <3>3 DEF RepliesAreCurrent, progress
    <3> QED
      BY <1>5, <3>1, <3>2, <3>3
  <2> QED
    BY <2>1, <2>2 DEF BackingInv
<1> QED
  BY <1>1, <1>3, <1>4, <1>5, NextCases

\* The inductive invariant of what is accepted.
LEMMA BackingInvariance ==
  ASSUME ClientAssumption
  PROVE  Spec => []BackingInv
<1>1. Init => BackingInv
  <2> SUFFICES ASSUME Init
               PROVE  BackingInv
    OBVIOUS
  <2>1. RepliesAreCurrent
    BY DEF Init, NoReplies, RepliesAreCurrent, Correct
  <2>2. VouchedIsBacked
    BY DEF Init, VouchedIsBacked
  <2> QED
    BY <2>1, <2>2, InitTyped DEF BackingInv
<1>2. TypeOK' /\ BackingInv /\ [Next]_vars => BackingInv'
  BY BackingStep
<1> QED
  BY <1>1, <1>2, ClientTypeCorrectness, PTL DEF Spec

\* A result is accepted only if enough correct servers have obtained it for
\* that very operation, unless a faulty server has collected the replies,
\* and however late replies to other operations are
\* (trebizondClient.ts:160-214, 252-309).
THEOREM AcceptanceBacking ==
  ASSUME ClientAssumption
  PROVE  Spec => []AcceptedIsBacked
<1>1. BackingInv => AcceptedIsBacked
  BY DEF BackingInv, VouchedIsBacked, AcceptedIsBacked, Backed, IsBacked, Vouches
<1> QED
  BY <1>1, BackingInvariance, PTL

\* It is the other ways to write an id that make an exception of what faulty
\* servers collect: without them no collective reply is accepted that enough
\* correct servers do not stand for (trebizondClient.ts:165-167, 216-220).
THEOREM CollectiveBacking ==
  ASSUME ClientAssumption, Alias = {}
  PROVE  Spec => []CollectiveIsBacked
<1>1. BackingInv => CollectiveIsBacked
  BY DEF BackingInv, VouchedIsBacked, CollectiveIsBacked, Backed, IsBacked, Vouches
<1> QED
  BY <1>1, BackingInvariance, PTL

\* The replies that are counted answer the current operation, and no earlier
\* one (trebizondClient.ts:179-182, 208, 248).
THEOREM RepliesCurrency ==
  ASSUME ClientAssumption
  PROVE  Spec => []RepliesAreCurrent
<1>1. BackingInv => RepliesAreCurrent
  BY DEF BackingInv
<1> QED
  BY <1>1, BackingInvariance, PTL

-----------------------------------------------------------------------------
\* The order of the results.

\* The operations of a queue are those that follow base.
InSequence(q, base) == \A i \in 1..Len(q) : q[i] = base + i

\* Operations are accepted, current, or in the queue, in this order.
QueueInv ==
  /\ TypeOK
  /\ AcceptedInOrder
  /\ submitted = Len(accepted) + Len(pendingOperations)
                   + (IF currentOperation = None THEN 0 ELSE 1)
  /\ currentOperation # None => currentOperation = Len(accepted) + 1
  /\ InSequence(pendingOperations, submitted - Len(pendingOperations))

\* Sending a command puts it at the end of the queue, and takes the first out.
LEMMA QueueFacts ==
  ASSUME NEW q \in Seq(Uuid), NEW k \in Uuid, NEW base \in Nat,
         k = base + Len(q) + 1,
         InSequence(q, base),
         NEW new \in Seq(Uuid), new = Append(q, k)
  PROVE  /\ Len(new) = Len(q) + 1
         /\ InSequence(new, base)
         /\ Len(Tail(new)) = Len(q)
         /\ InSequence(Tail(new), base + 1)
<1>1. new \in Seq(Uuid) /\ Len(new) = Len(q) + 1 /\ Len(q) \in Nat
  OBVIOUS
<1>2. \A i \in 1..Len(new) : new[i] = base + i
  <2>1. ASSUME NEW i \in 1..Len(new)
        PROVE  new[i] = base + i
    <3>1. CASE i \in 1..Len(q)
      BY <3>1 DEF InSequence
    <3>2. CASE i = Len(q) + 1
      BY <3>2
    <3> QED
      BY <1>1, <3>1, <3>2
  <2> QED
    BY <2>1
<1>3. Len(Tail(new)) = Len(q)
  BY <1>1
<1>4. \A i \in 1..Len(Tail(new)) : Tail(new)[i] = base + 1 + i
  <2>1. ASSUME NEW i \in 1..Len(q)
        PROVE  Tail(new)[i] = base + 1 + i
    <3>1. Tail(new)[i] = new[i + 1] /\ i + 1 \in 1..Len(new)
      BY <1>1, <1>3
    <3> QED
      BY <1>2, <3>1
  <2> QED
    BY <1>3, <2>1
<1> QED
  BY <1>1, <1>2, <1>3, <1>4 DEF InSequence

\* A command goes behind the others.
LEMMA SendCommandInOrder ==
  ASSUME ClientAssumption, QueueInv, SendCommand, TypeOK'
  PROVE  QueueInv'
<1> DEFINE base == submitted - Len(pendingOperations)
           queue == Append(pendingOperations, submitted')
<1>1. /\ pendingOperations \in Seq(Uuid) /\ Len(pendingOperations) \in Nat
      /\ Len(accepted) \in Nat /\ submitted \in Nat
  BY DEF QueueInv, TypeOK
<1>2. /\ submitted' = submitted + 1 /\ accepted' = accepted
      /\ submitted' \in Uuid
  BY <1>1 DEF SendCommand, Uuid, ClientAssumption
<1> DEFINE busy == IF currentOperation = None THEN 0 ELSE 1
<1>3. submitted = Len(accepted) + Len(pendingOperations) + busy
      /\ busy \in {0, 1}
  BY DEF QueueInv
<1> HIDE DEF busy
<1>4. base = Len(accepted) + busy /\ base \in Nat
  BY <1>1, <1>3
<1>5. /\ InSequence(pendingOperations, base)
      /\ submitted' = base + Len(pendingOperations) + 1
  BY <1>1, <1>2 DEF QueueInv
<1> HIDE DEF base, queue
<1>6. /\ Len(queue) = Len(pendingOperations) + 1
      /\ InSequence(queue, base)
      /\ Head(queue) = base + 1
      /\ Len(Tail(queue)) = Len(pendingOperations)
      /\ InSequence(Tail(queue), base + 1)
  <2>1. queue = Append(pendingOperations, submitted')
    BY DEF queue
  <2>2. /\ pendingOperations \in Seq(Uuid) /\ submitted' \in Uuid
        /\ base \in Nat /\ queue \in Seq(Uuid)
    BY <1>1, <1>2, <1>4, <2>1
  <2>3. Len(queue) = Len(pendingOperations) + 1
    BY <1>5, <2>1, <2>2, QueueFacts
  <2>4. InSequence(queue, base)
    BY <1>5, <2>1, <2>2, QueueFacts
  <2>5. Head(queue) = base + 1
    <3>1. queue[1] = base + 1
      BY <1>1, <2>3, <2>4 DEF InSequence
    <3> QED
      BY <2>2, <3>1
  <2>6. Len(Tail(queue)) = Len(pendingOperations)
    BY <1>5, <2>1, <2>2, QueueFacts
  <2>7. InSequence(Tail(queue), base + 1)
    BY <1>5, <2>1, <2>2, QueueFacts
  <2> QED
    BY <2>3, <2>4, <2>5, <2>6, <2>7
<1>7. AcceptedInOrder'
  BY <1>2 DEF QueueInv, AcceptedInOrder
<1>8. CASE IsIdle
  <2>1. currentOperation' = base + 1 /\ pendingOperations' = Tail(queue)
    BY <1>6, <1>8 DEF SendCommand, ProcessNextOperation, queue
  <2>2. currentOperation' # None
    BY <1>4, <2>1 DEF ClientAssumption
  <2>3. base = Len(accepted)
    BY <1>1, <1>4, <1>8 DEF IsIdle, busy
  <2>4. Len(pendingOperations') = Len(pendingOperations)
    BY <1>6, <2>1
  <2>5. submitted' - Len(pendingOperations') = base + 1
    BY <1>1, <1>4, <1>5, <2>4
  <2>6. submitted' = Len(accepted') + Len(pendingOperations') + 1
    BY <1>1, <1>2, <1>5, <2>3, <2>4
  <2>7. InSequence(pendingOperations', submitted' - Len(pendingOperations'))
    BY <1>6, <2>1, <2>5
  <2> QED
    BY <1>2, <1>7, <2>1, <2>2, <2>3, <2>6, <2>7 DEF QueueInv, InSequence
<1>9. CASE ~IsIdle
  <2>1. currentOperation' = currentOperation /\ pendingOperations' = queue
    BY <1>9 DEF SendCommand, queue
  <2>2. currentOperation # None /\ currentOperation = Len(accepted) + 1
    BY <1>9 DEF IsIdle, QueueInv
  <2>3. base = Len(accepted) + 1
    BY <1>4, <2>2 DEF busy
  <2>4. Len(pendingOperations') = Len(pendingOperations) + 1
    BY <1>6, <2>1
  <2>5. submitted' - Len(pendingOperations') = base
    BY <1>1, <1>4, <1>5, <2>4
  <2>6. submitted' = Len(accepted') + Len(pendingOperations') + 1
    BY <1>1, <1>2, <1>5, <2>3, <2>4
  <2>7. InSequence(pendingOperations', submitted' - Len(pendingOperations'))
    BY <1>6, <2>1, <2>5
  <2> QED
    BY <1>2, <1>7, <2>1, <2>2, <2>6, <2>7 DEF QueueInv, InSequence
<1> QED
  BY <1>8, <1>9

\* The operation in course follows those accepted.
LEMMA AcceptsInOrder ==
  ASSUME ClientAssumption, QueueInv, TypeOK', NEW v \in Result,
         NEW by \in Server \cup {None}, Accepts(v, by)
  PROVE  QueueInv'
<1>1. currentOperation # None /\ currentOperation' = None
  BY DEF Accepts, ResolveCurrentOperation, ClientAssumption, Uuid
<1>2. /\ Len(accepted) \in Nat /\ Len(accepted') = Len(accepted) + 1
      /\ \A i \in DOMAIN accepted : accepted'[i] = accepted[i]
      /\ accepted'[Len(accepted')]
           = [uuid |-> currentOperation, result |-> v, by |-> by]
      /\ DOMAIN accepted = 1..Len(accepted)
      /\ DOMAIN accepted' = 1..Len(accepted')
  <2>1. TypeOK
    BY DEF QueueInv
  <2> QED
    BY <2>1, AcceptsAppends
<1>3. AcceptedInOrder'
  <2>1. ASSUME NEW i \in 1..Len(accepted')
        PROVE  accepted'[i].uuid = i
    <3>1. CASE i \in 1..Len(accepted)
      BY <1>2, <3>1 DEF QueueInv, AcceptedInOrder
    <3>2. CASE i = Len(accepted')
      BY <1>1, <1>2, <3>2 DEF QueueInv
    <3> QED
      BY <1>2, <3>1, <3>2
  <2> QED
    BY <1>2, <2>1 DEF AcceptedInOrder
<1>4. Len(pendingOperations) \in Nat /\ submitted \in Nat
  BY DEF QueueInv, TypeOK
<1>5. UNCHANGED <<submitted, pendingOperations>>
  BY DEF Accepts
<1>6. InSequence(pendingOperations, submitted - Len(pendingOperations))'
  BY <1>5 DEF QueueInv, InSequence
<1> QED
  BY <1>1, <1>2, <1>3, <1>4, <1>5, <1>6 DEF QueueInv

\* Results are accepted in the order in which the commands were sent, none
\* twice and none left out (trebizondClient.ts:89-121, 246-250).
THEOREM AcceptanceOrder ==
  ASSUME ClientAssumption
  PROVE  Spec => []AcceptedInOrder
<1>1. Init => QueueInv
  <2> SUFFICES ASSUME Init
               PROVE  QueueInv
    OBVIOUS
  <2> QED
    BY InitTyped DEF Init, QueueInv, AcceptedInOrder, InSequence
<1>2. TypeOK' /\ QueueInv /\ [Next]_vars => QueueInv'
  <2>1. ASSUME UNCHANGED progress, QueueInv, TypeOK'
        PROVE  QueueInv'
    BY <2>1 DEF QueueInv, AcceptedInOrder, InSequence, progress
  <2> QED
    BY <2>1, NextCases, SendCommandInOrder, AcceptsInOrder DEF QueueInv
<1>3. QueueInv => AcceptedInOrder
  BY DEF QueueInv
<1> QED
  BY <1>1, <1>2, <1>3, ClientTypeCorrectness, PTL DEF Spec

-----------------------------------------------------------------------------
\* Retries.

\* An operation never waits without a timer that will ask all servers again
\* (trebizondClient.ts:110-121, 311-339).
THEOREM WaitingTimed ==
  ASSUME ClientAssumption
  PROVE  Spec => []WaitingIsTimed
<1>1. Init => WaitingIsTimed
  BY DEF Init, WaitingIsTimed
<1>2. TypeOK /\ WaitingIsTimed /\ [Next]_vars => WaitingIsTimed'
  <2>1. ASSUME WaitingIsTimed, SendCommand
        PROVE  WaitingIsTimed'
    BY <2>1 DEF WaitingIsTimed, SendCommand, ProcessNextOperation
  <2>2. ASSUME NEW v \in Result, NEW by \in Server \cup {None},
               Accepts(v, by)
        PROVE  WaitingIsTimed'
    BY <2>2 DEF WaitingIsTimed, Accepts, ResolveCurrentOperation
  <2>3. ASSUME WaitingIsTimed, UNCHANGED progress, StaysTimed
        PROVE  WaitingIsTimed'
    BY <2>3 DEF WaitingIsTimed, StaysTimed, progress
  <2> QED
    BY <2>1, <2>2, <2>3, NextCases
<1> QED
  BY <1>1, <1>2, ClientTypeCorrectness, PTL DEF Spec

-----------------------------------------------------------------------------
\* Clusters of five and more.

\* No result of a write comes from single replies.
WritesNeedCollective ==
  \A i \in DOMAIN accepted :
    accepted[i].by = None => accepted[i].uuid \in Reads

\* A reply adds one vote, and at least as many replies are there as votes.
LEMMA VoteFacts ==
  ASSUME ClientAssumption, TypeOK, NEW replies, NewReplies(replies),
         NEW v \in Result
  PROVE  /\ Votes(currentReplies, v) \in Nat
         /\ NumReplies(currentReplies) \in Nat
         /\ Votes(currentReplies, v) <= NumReplies(currentReplies)
         /\ Votes(replies, v) \in Nat
         /\ Votes(replies, v) <= Votes(currentReplies, v) + 1
<1>0. PICK s \in Server : \E m \in Messages(s) :
             /\ IsAuthentic(s, m) /\ m.type = "SingleReply"
             /\ IsNews(m)
             /\ replies = RepliesWith(m)
  BY DEF NewReplies
<1>1. PICK m \in Messages(s) : m.from = s /\ replies = RepliesWith(m)
  BY <1>0 DEF IsAuthentic
<1>2. IsFiniteSet(Server)
  BY FS_Interval DEF Server, ClientAssumption
<1> DEFINE before == Matching(currentReplies, v)
           after == Matching(replies, v)
           given == {t \in Server : currentReplies[t] # None}
<1>3. before \subseteq given /\ given \subseteq Server /\ after \subseteq Server
  BY DEF Matching, ClientAssumption
<1>4. after \subseteq before \cup {s}
  BY <1>1 DEF Matching, RepliesWith, TypeOK
<1>5. IsFiniteSet(before) /\ IsFiniteSet(given) /\ IsFiniteSet(after)
  BY <1>2, <1>3, FS_Subset
<1> HIDE DEF before, after, given
<1>6. IsFiniteSet(before \cup {s})
      /\ Cardinality(before \cup {s}) <= Cardinality(before) + 1
  <2>1. Cardinality(before) \in Nat
    BY <1>5, FS_CardinalityType
  <2>2. /\ IsFiniteSet(before \cup {s})
        /\ \/ Cardinality(before \cup {s}) = Cardinality(before)
           \/ Cardinality(before \cup {s}) = Cardinality(before) + 1
    BY <1>5, FS_AddElement
  <2> QED
    BY <2>1, <2>2
<1>7. /\ Cardinality(before) \in Nat /\ Cardinality(given) \in Nat
      /\ Cardinality(after) \in Nat /\ Cardinality(before \cup {s}) \in Nat
  BY <1>5, <1>6, FS_CardinalityType
<1>8. /\ Cardinality(before) <= Cardinality(given)
      /\ Cardinality(after) <= Cardinality(before \cup {s})
  BY <1>3, <1>4, <1>5, <1>6, FS_Subset
<1> QED
  BY <1>6, <1>7, <1>8 DEF Votes, NumReplies, before, after, given

\* Without replies a consensus can be reached.
LEMMA NoRepliesFacts ==
  ASSUME ClientAssumption
  PROVE  CanReachConsensus(NoReplies)
<1>1. {s \in Server : NoReplies[s] # None} = {}
  BY DEF NoReplies
<1>2. Told(NoReplies) = {}
  BY DEF Told, NoReplies
<1> QED
  BY <1>1, <1>2 DEF CanReachConsensus

\* The last reply that a write would need finds the others discarded: one vote
\* less than the threshold is more than the replies then missing.
LEMMA SinglesAreOfReads ==
  ASSUME ClientAssumption, N >= 5, TypeOK, CanReachConsensus(currentReplies),
         NEW v \in Result, Accepts(v, None)
  PROVE  currentOperation \in Reads
<1> SUFFICES ASSUME currentOperation \notin Reads
             PROVE  FALSE
  OBVIOUS
<1>1. PICK replies \in [Server -> Result \cup {None}] :
             /\ NewReplies(replies)
             /\ Votes(replies, v) >= WriteOpConsensusThreshold
  BY DEF Accepts, Counted, ConsensusThreshold
<1>2. /\ Votes(currentReplies, v) \in Nat /\ NumReplies(currentReplies) \in Nat
      /\ Votes(currentReplies, v) <= NumReplies(currentReplies)
      /\ Votes(replies, v) \in Nat
      /\ Votes(replies, v) <= Votes(currentReplies, v) + 1
  BY <1>1, VoteFacts
<1>3. \/ Votes(currentReplies, v) <= N - NumReplies(currentReplies)
      \/ Votes(currentReplies, v) = 0
  <2>1. CASE v \in Told(currentReplies)
    BY <2>1 DEF CanReachConsensus
  <2>2. CASE v \notin Told(currentReplies)
    <3>1. Matching(currentReplies, v) = {}
      BY <2>2 DEF Matching, Told, ClientAssumption
    <3> QED
      BY <3>1, FS_EmptySet DEF Votes
  <2> QED
    BY <2>1, <2>2
<1>4. /\ N \in Nat /\ WriteOpConsensusThreshold \in Nat
      /\ 3 * WriteOpConsensusThreshold >= 2 * N + 1
  BY DEF WriteOpConsensusThreshold, ClientAssumption
<1> QED
  BY <1>1, <1>2, <1>3, <1>4

\* With five servers or more no write is ever accepted on single replies, even
\* if all servers agree: they are discarded before the last one counts, and
\* only a collective reply ends the operation (trebizondClient.ts:207, 257-265).
THEOREM SingleRepliesNeverSuffice ==
  ASSUME ClientAssumption, N >= 5
  PROVE  Spec => []WritesNeedCollective
<1> DEFINE Inv == WritesNeedCollective /\ CanReachConsensus(currentReplies)
<1>1. Init => Inv
  BY NoRepliesFacts DEF Init, WritesNeedCollective
<1>2. TypeOK /\ Inv /\ [Next]_vars => Inv'
  <2> SUFFICES ASSUME TypeOK, Inv, [Next]_vars
               PROVE  Inv'
    OBVIOUS
  <2>1. CASE SendCommand
    BY <2>1 DEF SendCommand, WritesNeedCollective, CanReachConsensus, Votes,
                NumReplies, Matching, Told
  <2>2. ASSUME NEW v \in Result, NEW by \in Server \cup {None},
               Accepts(v, by)
        PROVE  Inv'
    <3>1. CanReachConsensus(currentReplies)'
      <4>1. currentReplies' = NoReplies
        BY <2>2 DEF Accepts, ResolveCurrentOperation, RepliesCleared
      <4> QED
        BY <4>1, NoRepliesFacts
           DEF CanReachConsensus, Votes, NumReplies, Matching, Told
    <3>2. by = None => currentOperation \in Reads
      BY <2>2, SinglesAreOfReads
    <3>3. WritesNeedCollective'
      <4>1. /\ Len(accepted) \in Nat /\ Len(accepted') = Len(accepted) + 1
            /\ \A i \in 1..Len(accepted) : accepted'[i] = accepted[i]
            /\ accepted'[Len(accepted')]
                 = [uuid |-> currentOperation, result |-> v, by |-> by]
            /\ DOMAIN accepted = 1..Len(accepted)
            /\ DOMAIN accepted' = 1..Len(accepted')
        BY <2>2, AcceptsAppends
      <4>2. ASSUME NEW i \in 1..Len(accepted'), accepted'[i].by = None
            PROVE  accepted'[i].uuid \in Reads
        <5>1. CASE i \in 1..Len(accepted)
          BY <4>1, <4>2, <5>1 DEF WritesNeedCollective
        <5>2. CASE i = Len(accepted')
          BY <3>2, <4>1, <4>2, <5>2
        <5> QED
          BY <4>1, <5>1, <5>2
      <4> QED
        BY <4>1, <4>2 DEF WritesNeedCollective
    <3> QED
      BY <3>1, <3>3
  <2>3. ASSUME UNCHANGED progress,
               \/ \E replies \in [Server -> Result \cup {None}] : Keeps(replies)
               \/ currentReplies' = NoReplies
               \/ UNCHANGED currentReplies
        PROVE  Inv'
    <3>1. CanReachConsensus(currentReplies')
      BY <2>3, NoRepliesFacts DEF Keeps
    <3> QED
      BY <2>3, <3>1 DEF WritesNeedCollective, progress, CanReachConsensus,
                        Votes, NumReplies, Matching, Told
  <2> QED
    BY <2>1, <2>2, <2>3, NextCases
<1> QED
  BY <1>1, <1>2, ClientTypeCorrectness, PTL DEF Spec
=============================================================================
