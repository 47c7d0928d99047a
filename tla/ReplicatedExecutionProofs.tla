---------------------- MODULE ReplicatedExecutionProofs ---------------------
(***************************************************************************)
(* Theorems about ReplicatedExecution, for every cluster of two servers or *)
(* more, every set of at most F faulty ones and every set of requests.     *)
(***************************************************************************)
EXTENDS ReplicatedExecution, FiniteSetTheorems, SequenceTheorems, TLAPS

\* The single reply of s that reaches r.
ReplyOf(u, result, s, r) == [uuid |-> u, result |-> result, from |-> s, to |-> r]

\* A correct replica replies with what is in its block chain, to the recipient
\* it reads off the request and its own idea of the leader.
RepliesAreExecuted ==
  \A m \in sent :
    /\ m.from \in Executed(m.uuid, m.result)
    /\ m.to = Recipient(m.from, m.uuid)

\* What a replica has from another correct one was sent to it, and it has
\* nothing from itself.
RepliesAreSent ==
  \A r \in Correct, u \in Uuid :
    /\ replies[r][u][r] = None
    /\ \A s \in Correct :
         replies[r][u][s] # None => ReplyOf(u, replies[r][u][s], s, r) \in sent

\* A collective reply stands for single replies of enough other replicas.
CollectiveIsBacked ==
  \A r \in Correct, u \in Uuid :
    LET c == collective[r][u]
    IN  c # None =>
          /\ c.acknowledgments \subseteq Replica \ {r}
          /\ Cardinality(c.acknowledgments) >= UpperBoundThreshold(N)
          /\ \A s \in c.acknowledgments \cap Correct :
               ReplyOf(u, c.result, s, r) \in sent

\* The state machine executes what the client has requested.
AwaitedIsRequested ==
  \A r \in Correct : \A i \in DOMAIN machine[r].awaiting :
    LET a == machine[r].awaiting[i]
    IN  a.command = Request[a.uuid].command

ExecutionInv ==
  /\ TypeOK
  /\ RepliesAreExecuted
  /\ RepliesAreSent
  /\ CollectiveIsBacked
  /\ AwaitedIsRequested
  /\ StoreIsLastResult

-----------------------------------------------------------------------------
(* Counting replicas *)

\* There are finitely many replicas, and the thresholds are numbers.
LEMMA ReplicaFinite ==
  /\ IsFiniteSet(Replica) /\ IsFiniteSet(Faulty)
  /\ N \in Nat /\ F \in Nat /\ UpperBoundThreshold(N) \in Nat
  /\ Cardinality(Faulty) \in Nat /\ Cardinality(Faulty) <= F
<1> IsFiniteSet(Replica)
  BY FS_Interval, ExecutionAssumption
<1>1. IsFiniteSet(Faulty)
  BY FS_Subset, ExecutionAssumption
<1>2. N \in Nat /\ Cardinality(Faulty) \in Nat
  BY <1>1, FS_CardinalityType, ExecutionAssumption DEF N
<1> QED
  BY <1>1, <1>2, ExecutionAssumption
     DEF F, LowerBoundThreshold, UpperBoundThreshold

\* Of the replicas that decide, all but F are correct.
LEMMA DecidersMostlyCorrect ==
  ASSUME NEW A \in SUBSET Replica, Cardinality(A) >= UpperBoundThreshold(N)
  PROVE  /\ IsFiniteSet(A \cap Correct)
         /\ Cardinality(A \cap Correct) \in Nat
         /\ Cardinality(A \cap Correct) >= UpperBoundThreshold(N) - F
<1>1. IsFiniteSet(A) /\ IsFiniteSet(A \cap Faulty)
  BY ReplicaFinite, FS_Subset
<1>2. A \cap Correct = A \ Faulty
  BY DEF Correct
<1>3. /\ IsFiniteSet(A \ Faulty)
      /\ Cardinality(A \ Faulty) = Cardinality(A) - Cardinality(A \cap Faulty)
  BY <1>1, FS_Difference, FS_Subset
<1>4. Cardinality(A \cap Faulty) <= Cardinality(Faulty)
  BY <1>1, ReplicaFinite, FS_Subset
<1>5. /\ Cardinality(A) \in Nat /\ Cardinality(A \cap Faulty) \in Nat
      /\ Cardinality(A \ Faulty) \in Nat
  BY <1>1, <1>3, FS_CardinalityType
<1>6. Cardinality(A \ Faulty) >= UpperBoundThreshold(N) - F
  BY <1>3, <1>4, <1>5, ReplicaFinite
<1> QED
  BY <1>2, <1>3, <1>5, <1>6

\* One correct replica p and the faulty ones do not decide, as long as the
\* collecting replica r is correct, too.
LEMMA DecidersNotOne ==
  ASSUME NEW r \in Correct, NEW p \in Correct, p # r,
         NEW A \in SUBSET (Replica \ {r}),
         Cardinality(A) >= UpperBoundThreshold(N)
  PROVE  \E s \in A : s \in Correct /\ s # p
<1> SUFFICES ASSUME A \subseteq Faulty \cup {p} PROVE FALSE
  BY DEF Correct
<1>1. IsFiniteSet(Faulty \cup {p}) /\ p \notin Faulty
      /\ Cardinality(Faulty \cup {p}) = Cardinality(Faulty) + 1
  BY ReplicaFinite, FS_AddElement DEF Correct
<1>2. Cardinality(A) \in Nat /\ Cardinality(A) <= Cardinality(Faulty) + 1
  BY <1>1, FS_Subset, FS_CardinalityType
<1>3. Cardinality(Faulty) + 2 <= N
  <2>1. IsFiniteSet(Faulty \cup {p} \cup {r}) /\ r \notin Faulty \cup {p}
        /\ Cardinality(Faulty \cup {p} \cup {r})
             = Cardinality(Faulty \cup {p}) + 1
    BY <1>1, FS_AddElement DEF Correct
  <2>2. Faulty \cup {p} \cup {r} \subseteq Replica
    BY ExecutionAssumption DEF Correct
  <2>3. Cardinality(Faulty \cup {p} \cup {r}) <= N
    BY <2>2, ReplicaFinite, FS_Subset DEF N
  <2> QED
    BY <1>1, <2>1, <2>3, ReplicaFinite
<1>4. Cardinality(Faulty) <= F /\ UpperBoundThreshold(N) <= Cardinality(Faulty) + 1
  BY <1>2, ReplicaFinite
<1> QED
  BY <1>3, <1>4, ReplicaFinite, ExecutionAssumption
     DEF F, LowerBoundThreshold, UpperBoundThreshold

\* A replica that none of the correct ones replies to collects too few replies.
LEMMA DecidersNotFaulty ==
  ASSUME NEW A \in SUBSET Replica, Cardinality(A) >= UpperBoundThreshold(N)
  PROVE  \E s \in A : s \in Correct
<1>1. Cardinality(A \cap Correct) >= UpperBoundThreshold(N) - F
  BY DecidersMostlyCorrect
<1>2. UpperBoundThreshold(N) - F >= 1
  BY ReplicaFinite, ExecutionAssumption
     DEF F, LowerBoundThreshold, UpperBoundThreshold
<1>3. A \cap Correct # {}
  BY <1>1, <1>2, ReplicaFinite, FS_EmptySet
<1> QED
  BY <1>3

\* The leader a replica believes in is another one, and replica 1 for all but
\* that one (server.ts:204).
LEMMA LeaderIsFirst ==
  ASSUME NEW r \in Replica
  PROVE  /\ Leader(r) \in Replica \ {r}
         /\ r # 1 => Leader(r) = 1
BY ExecutionAssumption DEF Leader, FirstPeer

-----------------------------------------------------------------------------
(* The queue of a state machine *)

\* n is machine m that has issued one more command to Redis, of operation u.
Issues(m, n, u, c) ==
  LET last == n.awaiting[Len(m.awaiting) + 1]
  IN  /\ n \in Machine
      /\ Len(n.awaiting) = Len(m.awaiting) + 1
      /\ \A i \in 1..Len(m.awaiting) : n.awaiting[i] = m.awaiting[i]
      /\ last.uuid = u /\ last.command = c
      /\ \A k \in Key : k # c.key => n.store[k] = m.store[k]
      /\ IF last.phase = "result" THEN n.store[c.key] = last.value
                                  ELSE n.store = m.store

\* The last result for every key, due or done, is the stored value.
Ordered(m, blocks) ==
  \A k \in Key :
    /\ \A i \in Due(m, k) :
         (\A j \in Due(m, k) : j <= i) => m.store[k] = m.awaiting[i].value
    /\ Due(m, k) = {} =>
         \A i \in Done(blocks, k) :
           (\A j \in Done(blocks, k) : j <= i) => m.store[k] = blocks[i].result

\* What a command is made of.
LEMMA CommandType ==
  ASSUME NEW c \in Command
  PROVE  c.key \in Key /\ c.operator \in Operators /\ c.value \in Int
BY CommandAssumption

\* A "set" and the "get" that returns what it has set (redisCommand.ts:72-103).
LEMMA WriteIssues ==
  ASSUME NEW m \in Machine, NEW u \in Uuid, NEW c \in Command, NEW v \in Int
  PROVE  Issues(m, Write(m, u, c, v), u, c)
<1> DEFINE a == Awaiting(u, c, "result", v)
           n == Write(m, u, c, v)
<1>1. a \in Await /\ a.uuid = u /\ a.command = c /\ a.phase = "result"
      /\ a.value = v
  BY DEF Await, Awaiting
<1>2. /\ m.awaiting \in Seq(Await) /\ m.store \in [Key -> Int]
      /\ n.awaiting = Append(m.awaiting, a)
      /\ n.store = [m.store EXCEPT ![c.key] = v]
  BY DEF Machine, Write
<1> HIDE DEF a, n
<1>3. /\ n.awaiting \in Seq(Await) /\ n.store \in [Key -> Int]
      /\ Len(n.awaiting) = Len(m.awaiting) + 1
      /\ \A i \in 1..Len(m.awaiting) : n.awaiting[i] = m.awaiting[i]
      /\ n.awaiting[Len(m.awaiting) + 1] = a
  BY <1>1, <1>2, CommandType
<1>4. n \in Machine
  BY <1>2, <1>3, CommandType DEF Machine, n, Write
<1> QED
  BY <1>1, <1>2, <1>3, <1>4, CommandType DEF Issues, n

\* A "get" returns what is stored when it is issued.
LEMMA GetIssues ==
  ASSUME NEW m \in Machine, NEW u \in Uuid, NEW c \in Command,
         NEW p \in {"read", "result"}
  PROVE  Issues(m, Get(m, u, c, p), u, c)
<1> DEFINE a == Awaiting(u, c, p, m.store[c.key])
           n == Get(m, u, c, p)
<1>1. a \in Await /\ a.uuid = u /\ a.command = c /\ a.phase = p
      /\ a.value = m.store[c.key]
  BY CommandType DEF Await, Awaiting, Machine
<1>2. /\ m.awaiting \in Seq(Await) /\ m.store \in [Key -> Int]
      /\ n.awaiting = Append(m.awaiting, a)
      /\ n.store = m.store
  BY DEF Machine, Get
<1> HIDE DEF a, n
<1>3. /\ n.awaiting \in Seq(Await)
      /\ Len(n.awaiting) = Len(m.awaiting) + 1
      /\ \A i \in 1..Len(m.awaiting) : n.awaiting[i] = m.awaiting[i]
      /\ n.awaiting[Len(m.awaiting) + 1] = a
  BY <1>1, <1>2
<1>4. n \in Machine
  BY <1>2, <1>3, CommandType DEF Machine, n, Get
<1> QED
  BY <1>1, <1>2, <1>3, <1>4, CommandType DEF Issues, n

\* The answer that comes leaves the queue to those behind it.
LEMMA DequeueType ==
  ASSUME NEW m \in Machine, m.awaiting # <<>>
  PROVE  /\ Dequeue(m) \in Machine
         /\ Dequeue(m).store = m.store
         /\ Len(m.awaiting) \in Nat \ {0}
         /\ DOMAIN m.awaiting = 1..Len(m.awaiting)
         /\ DOMAIN Dequeue(m).awaiting = 1..(Len(m.awaiting) - 1)
         /\ Len(Dequeue(m).awaiting) = Len(m.awaiting) - 1
         /\ \A i \in 1..(Len(m.awaiting) - 1) :
              Dequeue(m).awaiting[i] = m.awaiting[i + 1]
         /\ Answered(m) = m.awaiting[1] /\ Answered(m) \in Await
<1>1. m.awaiting \in Seq(Await) /\ m.store \in [Key -> Int]
  BY DEF Machine
<1>2. /\ Dequeue(m) = [store |-> m.store, awaiting |-> Tail(m.awaiting)]
  BY DEF Machine, Dequeue
<1>3. /\ Tail(m.awaiting) \in Seq(Await)
      /\ Len(Tail(m.awaiting)) = Len(m.awaiting) - 1
      /\ \A i \in 1..(Len(m.awaiting) - 1) :
           Tail(m.awaiting)[i] = m.awaiting[i + 1]
      /\ Len(m.awaiting) \in Nat \ {0}
  BY <1>1, HeadTailProperties, EmptySeq
<1>4. Answered(m) = m.awaiting[1] /\ Answered(m) \in Await
  BY <1>1, HeadTailProperties DEF Answered
<1>5. Dequeue(m) \in Machine
  BY <1>1, <1>2, <1>3 DEF Machine
<1>6. DOMAIN m.awaiting = 1..Len(m.awaiting)
  BY <1>1
<1>7. DOMAIN Tail(m.awaiting) = 1..(Len(m.awaiting) - 1)
  BY <1>3, LenProperties
<1> QED
  BY <1>2, <1>3, <1>4, <1>5, <1>6, <1>7

\* A new value is a number (redisCommand.ts:72-103).
LEMMA NewValueType ==
  ASSUME NEW c \in Command, NEW v \in Int PROVE NewValue(c, v) \in Int
<1>1. c.value \in Int
  BY CommandType
<1>2. c.value + v \in Int /\ v - c.value \in Int /\ v * c.value \in Int
  BY <1>1
<1> QED
  BY <1>1, <1>2 DEF NewValue

\* Up to its first await an operation issues one command.
LEMMA ExecuteIssues ==
  ASSUME NEW m \in Machine, NEW u \in Uuid, NEW c \in Command
  PROVE  Issues(m, ExecuteOperation(m, u, c), u, c)
BY WriteIssues, GetIssues, CommandType DEF ExecuteOperation

\* From there to the second await, another.
LEMMA ResumeIssues ==
  ASSUME NEW m \in Machine, m.awaiting # <<>>
  PROVE  Issues(Dequeue(m), Resume(m), Answered(m).uuid, Answered(m).command)
<1> DEFINE a == Answered(m)
<1>1. /\ a.uuid \in Uuid /\ a.command \in Command /\ a.value \in Int
      /\ Dequeue(m) \in Machine
  BY DequeueType DEF Await
<1> QED
  BY <1>1, WriteIssues, GetIssues, NewValueType DEF Resume

-----------------------------------------------------------------------------
(* The order of the writes *)

\* The command issued last settles what its key holds.
LEMMA IssuesOrdered ==
  ASSUME NEW m \in Machine, NEW n, NEW u \in Uuid, NEW c \in Command,
         NEW blocks, Issues(m, n, u, c), Ordered(m, blocks)
  PROVE  Ordered(n, blocks)
<1> DEFINE L == Len(m.awaiting)
<1>1. /\ L \in Nat /\ DOMAIN m.awaiting = 1..L /\ DOMAIN n.awaiting = 1..(L + 1)
      /\ \A i \in 1..L : n.awaiting[i] = m.awaiting[i]
      /\ n.awaiting[L + 1].command = c
      /\ \A k \in Key : k # c.key => n.store[k] = m.store[k]
      /\ n.awaiting[L + 1].phase = "result" =>
           n.store[c.key] = n.awaiting[L + 1].value
      /\ n.awaiting[L + 1].phase # "result" => n.store = m.store
  BY DEF Issues, Machine
<1> HIDE DEF L
<1> SUFFICES ASSUME NEW k \in Key
             PROVE  /\ \A i \in Due(n, k) :
                         (\A j \in Due(n, k) : j <= i) =>
                           n.store[k] = n.awaiting[i].value
                    /\ Due(n, k) = {} =>
                         \A i \in Done(blocks, k) :
                           (\A j \in Done(blocks, k) : j <= i) =>
                             n.store[k] = blocks[i].result
  BY DEF Ordered
<1>2. CASE n.awaiting[L + 1].phase = "result" /\ c.key = k
  <2>1. L + 1 \in Due(n, k) /\ \A i \in Due(n, k) : i \in Int /\ i <= L + 1
    BY <1>1, <1>2 DEF Due
  <2>2. \A i \in Due(n, k) : (\A j \in Due(n, k) : j <= i) => i = L + 1
    BY <1>1, <2>1
  <2> QED
    BY <1>1, <1>2, <2>1, <2>2
<1>3. CASE ~ (n.awaiting[L + 1].phase = "result" /\ c.key = k)
  <2>1. n.store[k] = m.store[k]
    BY <1>1, <1>3
  <2>2. Due(n, k) = Due(m, k)
    BY <1>1, <1>3 DEF Due
  <2>3. \A i \in Due(n, k) : n.awaiting[i] = m.awaiting[i]
    BY <1>1, <2>2 DEF Due
  <2> QED
    BY <2>1, <2>2, <2>3 DEF Ordered
<1> QED
  BY <1>2, <1>3

\* The queue moves up by one.
LEMMA DequeueDue ==
  ASSUME NEW m \in Machine, m.awaiting # <<>>, NEW k
  PROVE  /\ \A i \in Due(Dequeue(m), k) : i \in Int /\ i + 1 \in Due(m, k)
                 /\ Dequeue(m).awaiting[i] = m.awaiting[i + 1]
         /\ \A j \in Due(m, k) :
              j \in Int /\ (j = 1 \/ j - 1 \in Due(Dequeue(m), k))
         /\ 1 \in Due(m, k) <=> /\ Answered(m).phase = "result"
                                /\ Answered(m).command.key = k
<1> DEFINE L == Len(m.awaiting)
<1>1. /\ L \in Nat \ {0} /\ DOMAIN m.awaiting = 1..L
      /\ DOMAIN Dequeue(m).awaiting = 1..(L - 1)
      /\ \A i \in 1..(L - 1) : Dequeue(m).awaiting[i] = m.awaiting[i + 1]
      /\ Answered(m) = m.awaiting[1]
  BY DequeueType
<1> HIDE DEF L
<1>2. ASSUME NEW i \in Due(Dequeue(m), k)
      PROVE  /\ i \in Int /\ i + 1 \in Due(m, k)
             /\ Dequeue(m).awaiting[i] = m.awaiting[i + 1]
  BY <1>1, <1>2 DEF Due
<1>3. ASSUME NEW j \in Due(m, k), j # 1
      PROVE  j - 1 \in Due(Dequeue(m), k)
  <2>1. j \in 2..L /\ j - 1 \in 1..(L - 1) /\ (j - 1) + 1 = j
    BY <1>1, <1>3 DEF Due
  <2>2. Dequeue(m).awaiting[j - 1] = m.awaiting[j]
    BY <1>1, <2>1
  <2> QED
    BY <1>1, <2>1, <2>2 DEF Due
<1>4. \A j \in Due(m, k) : j \in Int
  BY <1>1 DEF Due
<1>5. 1 \in Due(m, k) <=> /\ Answered(m).phase = "result"
                          /\ Answered(m).command.key = k
  BY <1>1 DEF Due
<1> QED
  BY <1>2, <1>3, <1>4, <1>5

\* The last of those due stays the last when the queue moves up.
LEMMA DequeueKeepsLast ==
  ASSUME NEW m \in Machine, m.awaiting # <<>>, NEW k \in Key, NEW blocks,
         Ordered(m, blocks), NEW i \in Due(Dequeue(m), k),
         \A j \in Due(Dequeue(m), k) : j <= i
  PROVE  Dequeue(m).store[k] = Dequeue(m).awaiting[i].value
<1>1. /\ i \in Int /\ i + 1 \in Due(m, k)
      /\ Dequeue(m).awaiting[i] = m.awaiting[i + 1]
      /\ Dequeue(m).store = m.store
  BY DequeueDue, DequeueType
<1>2. i >= 1
  BY DequeueType DEF Due
<1>3. ASSUME NEW j \in Due(m, k) PROVE j <= i + 1
  <2>1. j \in Int /\ (j = 1 \/ j - 1 \in Due(Dequeue(m), k))
    BY DequeueDue
  <2>2. CASE j - 1 \in Due(Dequeue(m), k)
    <3>1. j - 1 <= i
      BY <2>2
    <3> QED
      BY <1>1, <2>1, <3>1
  <2> QED
    BY <1>1, <1>2, <2>1, <2>2
<1> QED
  BY <1>1, <1>3 DEF Ordered

\* An operation that starts its second command was not due.
LEMMA DequeueReadOrdered ==
  ASSUME NEW m \in Machine, m.awaiting # <<>>, Answered(m).phase # "result",
         NEW blocks, Ordered(m, blocks)
  PROVE  Ordered(Dequeue(m), blocks)
<1>0. ASSUME NEW k \in Key, NEW i \in Due(Dequeue(m), k),
              \A j \in Due(Dequeue(m), k) : j <= i
       PROVE  Dequeue(m).store[k] = Dequeue(m).awaiting[i].value
  BY <1>0, DequeueKeepsLast
<1> SUFFICES ASSUME NEW k \in Key, Due(Dequeue(m), k) = {},
                    NEW i \in Done(blocks, k),
                    \A j \in Done(blocks, k) : j <= i
             PROVE  Dequeue(m).store[k] = blocks[i].result
  BY <1>0 DEF Ordered
<1>1. Due(m, k) = {}
  BY DequeueDue
<1> QED
  BY <1>1, DequeueType DEF Ordered

\* An operation that completes goes from the head of the queue to the end of
\* the block chain (server.ts:585-591).
LEMMA CompleteOrdered ==
  ASSUME NEW m \in Machine, m.awaiting # <<>>, Answered(m).phase = "result",
         NEW blocks \in Seq(Block), Ordered(m, blocks), NEW b \in Block,
         b.result = Answered(m).value,
         Answered(m).command = Request[b.uuid].command
  PROVE  Ordered(Dequeue(m), Append(blocks, b))
<1> DEFINE L == Len(blocks)
           longer == Append(blocks, b)
<1>1. /\ L \in Nat /\ DOMAIN blocks = 1..L /\ DOMAIN longer = 1..(L + 1)
      /\ \A i \in 1..L : longer[i] = blocks[i]
      /\ longer[L + 1] = b
  OBVIOUS
<1> HIDE DEF L, longer
<1>0. ASSUME NEW k \in Key, NEW i \in Due(Dequeue(m), k),
              \A j \in Due(Dequeue(m), k) : j <= i
       PROVE  Dequeue(m).store[k] = Dequeue(m).awaiting[i].value
  BY <1>0, DequeueKeepsLast
<1> SUFFICES ASSUME NEW k \in Key, Due(Dequeue(m), k) = {},
                    NEW i \in Done(longer, k),
                    \A j \in Done(longer, k) : j <= i
             PROVE  Dequeue(m).store[k] = longer[i].result
  BY <1>0 DEF Ordered, longer
<1>2. Dequeue(m).store = m.store /\ Answered(m) = m.awaiting[1]
  BY DequeueType
<1>3. i \in 1..(L + 1)
  BY <1>1 DEF Done
<1>4. CASE Answered(m).command.key = k
  <2>1. 1 \in Due(m, k) /\ \A j \in Due(m, k) : j = 1
    BY <1>4, DequeueDue
  <2>2. m.store[k] = m.awaiting[1].value
    BY <2>1 DEF Ordered
  <2>3. L + 1 \in Done(longer, k)
    BY <1>1, <1>4 DEF Done
  <2>4. L + 1 <= i
    BY <2>3
  <2>5. i = L + 1
    BY <1>1, <1>3, <2>4
  <2> QED
    BY <1>1, <1>2, <2>2, <2>5
<1>5. CASE Answered(m).command.key # k
  <2>1. Due(m, k) = {}
    BY <1>5, DequeueDue
  <2>2. Done(longer, k) = Done(blocks, k)
    BY <1>1, <1>5 DEF Done
  <2>3. i \in 1..L
    BY <1>1, <2>2 DEF Done
  <2> QED
    BY <1>1, <1>2, <2>1, <2>2, <2>3 DEF Ordered
<1> QED
  BY <1>4, <1>5

-----------------------------------------------------------------------------
(* The steps *)

\* The initial state satisfies the invariant.
LEMMA ExecutionInvInit == ASSUME Init PROVE ExecutionInv
<1>1. EmptyMachine \in Machine /\ EmptyMachine.awaiting = <<>>
  BY DEF EmptyMachine, Machine
<1>2. TypeOK
  BY <1>1 DEF Init, RB!Init, TypeOK, RB!TypeOK
<1>3. AwaitedIsRequested
  BY <1>1 DEF Init, AwaitedIsRequested
<1>4. StoreIsLastResult
  BY <1>1 DEF Init, StoreIsLastResult, Due, Done
<1>5. RepliesAreExecuted /\ RepliesAreSent /\ CollectiveIsBacked
  BY DEF Init, RepliesAreExecuted, RepliesAreSent, CollectiveIsBacked, Correct
<1> QED
  BY <1>2, <1>3, <1>4, <1>5 DEF ExecutionInv

\* The order of the writes is a matter of each replica.
LEMMA StoreOrdered ==
  StoreIsLastResult <=> \A r \in Correct \ Failing : Ordered(machine[r], log[r])
BY DEF StoreIsLastResult, Ordered

\* A step of one state machine that leaves all else alone.
LEMMA MachineStep ==
  ASSUME ExecutionInv, NEW r \in Correct, NEW n,
         n \in Machine,
         machine' = [machine EXCEPT ![r] = n],
         UNCHANGED <<log, sent, replies, collective>>,
         RB!TypeOK',
         \A i \in DOMAIN n.awaiting :
           n.awaiting[i].command = Request[n.awaiting[i].uuid].command,
         r \notin Failing => Ordered(n, log[r])
  PROVE  ExecutionInv'
<1>1. machine \in [Correct -> Machine] /\ machine'[r] = n
      /\ \A s \in Correct : s # r => machine'[s] = machine[s]
  BY DEF ExecutionInv, TypeOK
<1>2. TypeOK'
  BY <1>1 DEF ExecutionInv, TypeOK
<1>3. AwaitedIsRequested'
  BY <1>1 DEF ExecutionInv, AwaitedIsRequested
<1>4. \A s \in Correct \ Failing : Ordered(machine'[s], log'[s])
  BY <1>1, StoreOrdered DEF ExecutionInv
<1>5. StoreIsLastResult'
  BY <1>4 DEF StoreIsLastResult, Ordered
<1>6. RepliesAreExecuted' /\ RepliesAreSent' /\ CollectiveIsBacked'
  BY DEF ExecutionInv, RepliesAreExecuted, RepliesAreSent, CollectiveIsBacked,
         Executed
<1> QED
  BY <1>2, <1>3, <1>5, <1>6 DEF ExecutionInv

\* An accepted operation starts its execution.
LEMMA AcceptKeeps ==
  ASSUME ExecutionInv, NEW r \in Correct, NEW u \in Uuid, Accept(r, u)
  PROVE  ExecutionInv'
<1> DEFINE m == machine[r]
           c == Request[u].command
           n == ExecuteOperation(m, u, c)
<1>1. m \in Machine /\ c \in Command
  BY ExecutionAssumption DEF ExecutionInv, TypeOK
<1>2. Issues(m, n, u, c)
  BY <1>1, ExecuteIssues
<1>3. \A i \in DOMAIN m.awaiting :
        m.awaiting[i].command = Request[m.awaiting[i].uuid].command
  BY DEF ExecutionInv, AwaitedIsRequested
<1>4. r \notin Failing => Ordered(m, log[r])
  BY StoreOrdered DEF ExecutionInv
<1>5. /\ machine' = [machine EXCEPT ![r] = n]
      /\ UNCHANGED <<log, sent, replies, collective>>
  BY DEF Accept
<1>6. RB!TypeOK'
  BY DEF Accept, RB!Deliver, ExecutionInv, TypeOK, RB!TypeOK
<1> HIDE DEF m, n
<1>7. n \in Machine /\ \A i \in DOMAIN n.awaiting :
        n.awaiting[i].command = Request[n.awaiting[i].uuid].command
  <2>1. /\ n \in Machine
        /\ DOMAIN n.awaiting = 1..(Len(m.awaiting) + 1)
        /\ DOMAIN m.awaiting = 1..Len(m.awaiting) /\ Len(m.awaiting) \in Nat
    BY <1>1, <1>2 DEF Issues, Machine
  <2>2. /\ \A i \in 1..Len(m.awaiting) : n.awaiting[i] = m.awaiting[i]
        /\ n.awaiting[Len(m.awaiting) + 1].uuid = u
        /\ n.awaiting[Len(m.awaiting) + 1].command = c
    BY <1>2 DEF Issues
  <2> QED
    BY <1>3, <2>1, <2>2
<1>8. r \notin Failing => Ordered(n, log[r])
  BY <1>1, <1>2, <1>4, IssuesOrdered
<1> QED
  BY <1>5, <1>6, <1>7, <1>8, MachineStep

\* The operations left in the queue are requested ones.
LEMMA DequeueRequested ==
  ASSUME ExecutionInv, NEW r \in Correct, machine[r].awaiting # <<>>
  PROVE  /\ machine[r] \in Machine /\ Dequeue(machine[r]) \in Machine
         /\ Answered(machine[r]) \in Await
         /\ Answered(machine[r]).command
              = Request[Answered(machine[r]).uuid].command
         /\ \A i \in DOMAIN Dequeue(machine[r]).awaiting :
              Dequeue(machine[r]).awaiting[i].command
                = Request[Dequeue(machine[r]).awaiting[i].uuid].command
<1> DEFINE m == machine[r]
<1>1. m \in Machine
  BY DEF ExecutionInv, TypeOK
<1>2. \A i \in DOMAIN m.awaiting :
        m.awaiting[i].command = Request[m.awaiting[i].uuid].command
  BY DEF ExecutionInv, AwaitedIsRequested
<1> SUFFICES /\ Dequeue(m) \in Machine /\ Answered(m) \in Await
             /\ Answered(m).command = Request[Answered(m).uuid].command
             /\ \A i \in DOMAIN Dequeue(m).awaiting :
                  Dequeue(m).awaiting[i].command
                    = Request[Dequeue(m).awaiting[i].uuid].command
  BY <1>1
<1>3. m.awaiting # <<>>
  OBVIOUS
<1> HIDE DEF m
<1>4. /\ Dequeue(m) \in Machine /\ Answered(m) \in Await
      /\ Answered(m) = m.awaiting[1]
      /\ Len(m.awaiting) \in Nat \ {0} /\ DOMAIN m.awaiting = 1..Len(m.awaiting)
      /\ DOMAIN Dequeue(m).awaiting = 1..(Len(m.awaiting) - 1)
      /\ \A i \in 1..(Len(m.awaiting) - 1) :
           Dequeue(m).awaiting[i] = m.awaiting[i + 1]
  BY <1>1, <1>3, DequeueType
<1>5. ASSUME NEW i \in DOMAIN Dequeue(m).awaiting
      PROVE  Dequeue(m).awaiting[i].command
               = Request[Dequeue(m).awaiting[i].uuid].command
  <2>1. i + 1 \in DOMAIN m.awaiting
        /\ Dequeue(m).awaiting[i] = m.awaiting[i + 1]
    BY <1>4
  <2> QED
    BY <1>2, <2>1
<1>6. Answered(m).command = Request[Answered(m).uuid].command
  BY <1>2, <1>4
<1> QED
  BY <1>4, <1>5, <1>6

\* An execution that goes on leaves the head of the queue and joins its end.
LEMMA ResumesKeeps ==
  ASSUME ExecutionInv, NEW r \in Correct, ExecutionResumes(r)
  PROVE  ExecutionInv'
<1> DEFINE m == machine[r]
           a == Answered(m)
           n == Resume(m)
           d == Dequeue(m)
<1>1. m.awaiting # <<>> /\ a.phase = "read"
  BY DEF ExecutionResumes, Awaits
<1>2. /\ m \in Machine /\ d \in Machine /\ a \in Await
      /\ a.command = Request[a.uuid].command
      /\ \A i \in DOMAIN d.awaiting :
           d.awaiting[i].command = Request[d.awaiting[i].uuid].command
  BY <1>1, DequeueRequested
<1>3. Issues(d, n, a.uuid, a.command)
  BY <1>1, <1>2, ResumeIssues
<1>4. r \notin Failing => Ordered(m, log[r])
  BY StoreOrdered DEF ExecutionInv
<1>5. /\ machine' = [machine EXCEPT ![r] = n]
      /\ UNCHANGED <<log, sent, replies, collective>>
  BY DEF ExecutionResumes
<1>6. RB!TypeOK'
  BY DEF ExecutionResumes, ExecutionInv, TypeOK, RB!TypeOK
<1>7. r \notin Failing => Ordered(d, log[r])
  BY <1>1, <1>2, <1>4, DequeueReadOrdered
<1> HIDE DEF m, n, d, a
<1>8. n \in Machine /\ \A i \in DOMAIN n.awaiting :
        n.awaiting[i].command = Request[n.awaiting[i].uuid].command
  <2>1. /\ n \in Machine
        /\ DOMAIN n.awaiting = 1..(Len(d.awaiting) + 1)
        /\ DOMAIN d.awaiting = 1..Len(d.awaiting) /\ Len(d.awaiting) \in Nat
    BY <1>2, <1>3 DEF Issues, Machine
  <2>2. /\ \A i \in 1..Len(d.awaiting) : n.awaiting[i] = d.awaiting[i]
        /\ n.awaiting[Len(d.awaiting) + 1].uuid = a.uuid
        /\ n.awaiting[Len(d.awaiting) + 1].command = a.command
    BY <1>3 DEF Issues
  <2> QED
    BY <1>2, <2>1, <2>2
<1>9. r \notin Failing => Ordered(n, log[r])
  <2>1. a.uuid \in Uuid /\ a.command \in Command
    BY <1>2 DEF Await
  <2> QED
    BY <1>2, <1>3, <1>7, <2>1, IssuesOrdered
<1> QED
  BY <1>5, <1>6, <1>8, <1>9, MachineStep

\* A rejected execution only leaves the queue.
LEMMA FailsKeeps ==
  ASSUME ExecutionInv, NEW r \in Correct, ExecutionFails(r)
  PROVE  ExecutionInv'
<1>1. /\ machine[r].awaiting # <<>> /\ r \in Failing
      /\ machine' = [machine EXCEPT ![r] = Dequeue(machine[r])]
      /\ UNCHANGED <<supported, delivered, log, sent, replies, collective>>
  BY DEF ExecutionFails
<1>2. RB!TypeOK'
  BY <1>1 DEF ExecutionInv, TypeOK, RB!TypeOK
<1> QED
  BY <1>1, <1>2, DequeueRequested, MachineStep

\* What has been executed stays so, and the new block is the one replied with.
LEMMA CompletesKeeps ==
  ASSUME ExecutionInv, NEW r \in Correct, ExecutionCompletes(r)
  PROVE  ExecutionInv'
<1> DEFINE m == machine[r]
           a == Answered(m)
           b == [uuid |-> a.uuid, result |-> a.value]
           reply == ReplyOf(a.uuid, a.value, r, Recipient(r, a.uuid))
           d == Dequeue(m)
<1>1. /\ m.awaiting # <<>> /\ a.phase = "result"
      /\ machine' = [machine EXCEPT ![r] = d]
      /\ log' = [log EXCEPT ![r] = Append(@, b)]
      /\ sent' = sent \cup {reply}
      /\ UNCHANGED <<supported, delivered, replies, collective>>
  BY DEF ExecutionCompletes, Awaits, ReplyOf
<1>2. /\ m \in Machine /\ d \in Machine /\ a \in Await
      /\ a.command = Request[a.uuid].command
      /\ \A i \in DOMAIN d.awaiting :
           d.awaiting[i].command = Request[d.awaiting[i].uuid].command
  BY <1>1, DequeueRequested
<1>3. r \notin Failing => Ordered(m, log[r])
  BY StoreOrdered DEF ExecutionInv
<1>4. a.uuid \in Uuid /\ a.value \in Int /\ b \in Block
  BY <1>2 DEF Await, Block
<1>5. log[r] \in Seq(Block) /\ log \in [Correct -> Seq(Block)]
      /\ machine \in [Correct -> Machine]
  BY DEF ExecutionInv, TypeOK
<1>6. r \notin Failing => Ordered(d, Append(log[r], b))
  BY <1>1, <1>2, <1>3, <1>4, <1>5, CompleteOrdered
<1>7. Recipient(r, a.uuid) \in Replica \cup Client /\ r \in Replica
  BY <1>4, LeaderIsFirst, ExecutionAssumption DEF Recipient, Correct
<1>8. reply \in SingleReply /\ reply.from = r /\ reply.uuid = a.uuid
      /\ reply.result = a.value /\ reply.to = Recipient(r, a.uuid)
  BY <1>4, <1>7 DEF SingleReply, ReplyOf
<1>9. b.uuid = a.uuid /\ b.result = a.value
      /\ b = [uuid |-> a.uuid, result |-> a.value]
  OBVIOUS
<1> HIDE DEF m, a, b, reply, d
<1>10. /\ machine'[r] = d /\ log'[r] = Append(log[r], b)
       /\ \A s \in Correct : s # r => machine'[s] = machine[s]
                                      /\ log'[s] = log[s]
       /\ machine' \in [Correct -> Machine] /\ log' \in [Correct -> Seq(Block)]
  BY <1>1, <1>2, <1>4, <1>5
<1>11. /\ \A i \in DOMAIN log[r] : i \in DOMAIN log'[r] /\ log'[r][i] = log[r][i]
       /\ \E i \in DOMAIN log'[r] : log'[r][i] = b
  <2>1. /\ Len(log[r]) \in Nat /\ DOMAIN log[r] = 1..Len(log[r])
        /\ DOMAIN log'[r] = 1..(Len(log[r]) + 1)
        /\ \A i \in 1..Len(log[r]) : log'[r][i] = log[r][i]
        /\ log'[r][Len(log[r]) + 1] = b
    BY <1>4, <1>5, <1>10
  <2> QED
    BY <2>1
<1>12. TypeOK'
  BY <1>1, <1>8, <1>10 DEF ExecutionInv, TypeOK, RB!TypeOK
<1>13. RepliesAreExecuted'
  <2> SUFFICES ASSUME NEW x \in sent'
               PROVE  /\ x.from \in Executed(x.uuid, x.result)'
                      /\ x.to = Recipient(x.from, x.uuid)
    BY DEF RepliesAreExecuted, Recipient, Leader
  <2>1. CASE x \in sent
    <3>1. /\ x.from \in Executed(x.uuid, x.result)
          /\ x.to = Recipient(x.from, x.uuid)
      BY <2>1 DEF ExecutionInv, RepliesAreExecuted
    <3>2. x.from \in Executed(x.uuid, x.result)'
      BY <1>10, <1>11, <3>1 DEF Executed
    <3> QED
      BY <3>1, <3>2
  <2>2. CASE x = reply
    BY <1>8, <1>9, <1>11, <2>2 DEF Executed
  <2> QED
    BY <1>1, <2>1, <2>2
<1>14. RepliesAreSent' /\ CollectiveIsBacked'
  BY <1>1 DEF ExecutionInv, RepliesAreSent, CollectiveIsBacked
<1>15. AwaitedIsRequested'
  BY <1>2, <1>10 DEF ExecutionInv, AwaitedIsRequested
<1>16. \A s \in Correct \ Failing : Ordered(machine'[s], log'[s])
  BY <1>6, <1>10, StoreOrdered DEF ExecutionInv
<1>17. StoreIsLastResult'
  BY <1>16 DEF StoreIsLastResult, Ordered
<1> QED
  BY <1>12, <1>13, <1>14, <1>15, <1>17 DEF ExecutionInv

\* A collective reply is composed of as many results as decide.
LEMMA CompositionBacked ==
  ASSUME NEW results, NEW c \in CompositionOf(results)
  PROVE  /\ c.result # None
         /\ c.acknowledgments = {s \in Replica : results[s] = c.result}
         /\ Cardinality(c.acknowledgments) >= UpperBoundThreshold(N)
         /\ \E s \in Replica : c.result = results[s]
         /\ c = [result |-> c.result, acknowledgments |-> c.acknowledgments]
<1>1. PICK t \in Replica :
        /\ results[t] # None /\ Enough(results, results[t])
        /\ c = [result |-> results[t],
                acknowledgments |-> Matching(results, results[t])]
  BY DEF CompositionOf
<1> QED
  BY <1>1 DEF Enough, Matching

\* A single reply is kept, and a collective reply is composed of those kept.
LEMMA ReceivesKeeps ==
  ASSUME ExecutionInv, NEW r \in Correct, NEW m \in sent \cup FaultyReplies,
         ReceiveSingleReply(r, m)
  PROVE  ExecutionInv'
<1> DEFINE results == replies'[r][m.uuid]
           composed == CompositionOf(results)
           c == collective'[r][m.uuid]
<1>1. /\ m.uuid \in Uuid /\ m.from \in Replica /\ m.from # r /\ m.result \in Int
      /\ m.to = r
      /\ m.from \in Correct => m = ReplyOf(m.uuid, m.result, m.from, r)
                               /\ m \in sent
  BY ExecutionAssumption
     DEF ReceiveSingleReply, ExecutionInv, TypeOK, SingleReply, FaultyReplies,
         ReplyOf, Correct
<1>2. /\ replies' = [replies EXCEPT ![r][m.uuid][m.from] = m.result]
      /\ collective' = [collective EXCEPT ![r][m.uuid] =
                          IF composed = {} THEN None
                          ELSE CHOOSE x \in composed : TRUE]
      /\ UNCHANGED <<supported, delivered, machine, log, sent>>
  BY DEF ReceiveSingleReply
<1>3. /\ replies' \in [Correct -> [Uuid -> [Replica -> {None} \cup Int]]]
      /\ results[m.from] = m.result
      /\ \A s \in Correct, u \in Uuid, t \in Replica :
           s # r \/ u # m.uuid \/ t # m.from =>
             replies'[s][u][t] = replies[s][u][t]
  BY <1>1, <1>2 DEF ExecutionInv, TypeOK
<1>4. RepliesAreSent'
  <2>1. ASSUME NEW s \in Correct, NEW u \in Uuid
        PROVE  replies'[s][u][s] = None
    <3>1. s \in Replica /\ replies[s][u][s] = None
      BY DEF ExecutionInv, RepliesAreSent, Correct
    <3>2. s # r \/ s # m.from
      BY <1>1
    <3> QED
      BY <1>3, <3>1, <3>2
  <2>2. ASSUME NEW s \in Correct, NEW u \in Uuid, NEW t \in Correct,
               replies'[s][u][t] # None
        PROVE  ReplyOf(u, replies'[s][u][t], t, s) \in sent
    <3>1. CASE s = r /\ u = m.uuid /\ t = m.from
      BY <1>1, <1>3, <3>1
    <3>2. CASE s # r \/ u # m.uuid \/ t # m.from
      <4>1. t \in Replica
        BY DEF Correct
      <4>2. replies'[s][u][t] = replies[s][u][t]
        BY <1>3, <3>2, <4>1
      <4> QED
        BY <2>2, <4>2 DEF ExecutionInv, RepliesAreSent
    <3> QED
      BY <3>1, <3>2
  <2> QED
    BY <1>2, <2>1, <2>2 DEF RepliesAreSent
<1>5. /\ \A s \in Correct, u \in Uuid :
           s # r \/ u # m.uuid => collective'[s][u] = collective[s][u]
      /\ c = None \/ c \in composed
  BY <1>1, <1>2 DEF ExecutionInv, TypeOK
<1>6. c # None =>
        /\ c.result \in Int
        /\ c.acknowledgments \subseteq Replica \ {r}
        /\ Cardinality(c.acknowledgments) >= UpperBoundThreshold(N)
        /\ \A s \in c.acknowledgments \cap Correct :
             ReplyOf(m.uuid, c.result, s, r) \in sent
        /\ c \in CollectiveReply
  <2> SUFFICES ASSUME c # None
               PROVE  /\ c.result \in Int
                      /\ c.acknowledgments \subseteq Replica \ {r}
                      /\ Cardinality(c.acknowledgments) >= UpperBoundThreshold(N)
                      /\ \A s \in c.acknowledgments \cap Correct :
                           ReplyOf(m.uuid, c.result, s, r) \in sent
                      /\ c \in CollectiveReply
    OBVIOUS
  <2>1. /\ c.result # None
        /\ c.acknowledgments = {s \in Replica : results[s] = c.result}
        /\ Cardinality(c.acknowledgments) >= UpperBoundThreshold(N)
        /\ \E s \in Replica : c.result = results[s]
        /\ c = [result |-> c.result, acknowledgments |-> c.acknowledgments]
    BY <1>5, CompositionBacked
  <2> HIDE DEF c, composed
  <2>2. results[r] = None
    BY <1>1, <1>4 DEF RepliesAreSent
  <2>3. results \in [Replica -> {None} \cup Int]
    BY <1>1, <1>3
  <2>4. c.result \in Int
    BY <2>1, <2>3
  <2>5. c.acknowledgments \subseteq Replica \ {r}
    BY <2>1, <2>2
  <2>6. \A s \in c.acknowledgments \cap Correct :
          ReplyOf(m.uuid, c.result, s, r) \in sent
    BY <1>1, <1>2, <1>4, <2>1 DEF RepliesAreSent
  <2>7. c \in CollectiveReply
    BY <2>1, <2>4, <2>5 DEF CollectiveReply
  <2> QED
    BY <2>1, <2>4, <2>5, <2>6, <2>7
<1> HIDE DEF c, composed, results
<1>7. CollectiveIsBacked'
  <2>1. sent' = sent
    BY <1>2
  <2> SUFFICES ASSUME NEW s \in Correct, NEW u \in Uuid,
                      collective'[s][u] # None
               PROVE  /\ collective'[s][u].acknowledgments \subseteq Replica \ {s}
                      /\ Cardinality(collective'[s][u].acknowledgments)
                           >= UpperBoundThreshold(N)
                      /\ \A t \in collective'[s][u].acknowledgments \cap Correct :
                           ReplyOf(u, collective'[s][u].result, t, s) \in sent
    BY <2>1, Zenon DEF CollectiveIsBacked
  <2>2. CASE s = r /\ u = m.uuid
    BY <1>6, <2>2 DEF c
  <2>3. CASE s # r \/ u # m.uuid
    BY <1>5, <2>3 DEF ExecutionInv, CollectiveIsBacked
  <2> QED
    BY <2>2, <2>3
<1>8. TypeOK'
  <2>1. collective' \in [Correct -> [Uuid -> {None} \cup CollectiveReply]]
    <3>1. c \in {None} \cup CollectiveReply
      BY <1>6
    <3>2. collective' = [collective EXCEPT ![r][m.uuid] = c]
      BY <1>1, <1>2 DEF ExecutionInv, TypeOK, c
    <3> QED
      BY <1>1, <3>1, <3>2 DEF ExecutionInv, TypeOK
  <2> QED
    BY <1>2, <1>3, <2>1 DEF ExecutionInv, TypeOK, RB!TypeOK
<1>9. RepliesAreExecuted' /\ AwaitedIsRequested' /\ StoreIsLastResult'
  BY <1>2 DEF ExecutionInv, RepliesAreExecuted, AwaitedIsRequested,
              StoreIsLastResult, Executed
<1> QED
  BY <1>4, <1>7, <1>8, <1>9 DEF ExecutionInv

\* Every step preserves the invariant.
LEMMA ExecutionInvStep == ASSUME ExecutionInv, [Next]_vars PROVE ExecutionInv'
<1>1. ASSUME UNCHANGED <<machine, log, sent, replies, collective>>, RB!TypeOK'
      PROVE  ExecutionInv'
  <2>1. TypeOK'
    BY <1>1 DEF ExecutionInv, TypeOK
  <2>2. RepliesAreExecuted' /\ RepliesAreSent' /\ CollectiveIsBacked'
    BY <1>1 DEF ExecutionInv, RepliesAreExecuted, RepliesAreSent,
                CollectiveIsBacked, Executed
  <2>3. AwaitedIsRequested' /\ StoreIsLastResult'
    BY <1>1 DEF ExecutionInv, AwaitedIsRequested, StoreIsLastResult
  <2> QED
    BY <2>1, <2>2, <2>3 DEF ExecutionInv
<1>2. CASE UNCHANGED vars
  BY <1>1, <1>2 DEF vars, ExecutionInv, TypeOK, RB!TypeOK
<1>3. ASSUME NEW u \in Uuid, Support(u) PROVE ExecutionInv'
  BY <1>1, <1>3 DEF Support, RB!Support, ExecutionInv, TypeOK, RB!TypeOK
<1> QED
  BY <1>2, <1>3, AcceptKeeps, ResumesKeeps, CompletesKeeps, FailsKeeps,
     ReceivesKeeps DEF Next

-----------------------------------------------------------------------------
\* The inductive invariant: a collective reply stands for replies that were
\* sent to its sender, and a reply for a block (server.ts:571-737).
THEOREM ExecutionInvariance == Spec => []ExecutionInv
BY ExecutionInvInit, ExecutionInvStep, PTL DEF Spec

\* State machines, block chains, replies and collective replies keep their
\* types, whatever faulty replicas reply.
THEOREM ReplicatedTypeCorrectness == Spec => []TypeOK
<1>1. ExecutionInv => TypeOK
  BY DEF ExecutionInv
<1> QED
  BY <1>1, ExecutionInvariance, PTL

\* The block chain of a replica is in the order of its writes, however the
\* executions overlap (redisCommand.ts:72-103, server.ts:585-591).
THEOREM StoreOrdering == Spec => []StoreIsLastResult
<1>1. ExecutionInv => StoreIsLastResult
  BY DEF ExecutionInv
<1> QED
  BY <1>1, ExecutionInvariance, PTL

\* The result of a collective reply is in the block chains of all but F of the
\* replicas that decide (server.ts:610-660, 678-707).
THEOREM CollectiveExecution == Spec => []CollectiveIsExecuted
<1>1. ASSUME ExecutionInv, NEW r \in Correct, NEW u \in Uuid,
             collective[r][u] # None
      PROVE  Cardinality(Executed(u, collective[r][u].result))
               >= UpperBoundThreshold(N) - F
  <2> DEFINE A == collective[r][u].acknowledgments
             E == Executed(u, collective[r][u].result)
  <2>1. /\ A \in SUBSET Replica /\ Cardinality(A) >= UpperBoundThreshold(N)
        /\ \A s \in A \cap Correct :
             ReplyOf(u, collective[r][u].result, s, r) \in sent
    BY <1>1 DEF ExecutionInv, CollectiveIsBacked
  <2>2. A \cap Correct \subseteq E
    BY <1>1, <2>1 DEF ExecutionInv, RepliesAreExecuted, ReplyOf
  <2>3. IsFiniteSet(E)
    <3>1. E \in SUBSET Replica
      BY DEF Executed, Correct
    <3> QED
      BY <3>1, ReplicaFinite, FS_Subset
  <2>4. /\ Cardinality(A \cap Correct) \in Nat
        /\ Cardinality(A \cap Correct) >= UpperBoundThreshold(N) - F
    BY <2>1, DecidersMostlyCorrect
  <2> HIDE DEF A, E
  <2>5. /\ Cardinality(E) \in Nat /\ Cardinality(A \cap Correct) <= Cardinality(E)
    BY <2>2, <2>3, FS_Subset, FS_CardinalityType
  <2>6. Cardinality(E) >= UpperBoundThreshold(N) - F
    BY <2>4, <2>5, ReplicaFinite
  <2> QED
    BY <2>6 DEF E
<1>2. ExecutionInv => CollectiveIsExecuted
  BY <1>1 DEF CollectiveIsExecuted
<1> QED
  BY <1>2, ExecutionInvariance, PTL

\* Of two replicas that collect replies to one operation, one that is not
\* replica 1 is the leader of replica 1 alone, which the other is not: then the
\* other collects from a correct replica that takes it for the leader, too.
LEMMA OtherCollectsNothing ==
  ASSUME ExecutionInv, NEW r \in Correct, NEW s \in Correct, NEW u \in Uuid,
         collective[r][u] # None, collective[s][u] # None, r # s, s # 1
  PROVE  FALSE
<1> DEFINE A == collective[r][u].acknowledgments
           B == collective[s][u].acknowledgments
<1>1. /\ A \in SUBSET (Replica \ {r}) /\ B \in SUBSET (Replica \ {s})
      /\ A \in SUBSET Replica /\ B \in SUBSET Replica
      /\ Cardinality(A) >= UpperBoundThreshold(N)
      /\ Cardinality(B) >= UpperBoundThreshold(N)
      /\ \A t \in A \cap Correct :
           ReplyOf(u, collective[r][u].result, t, r) \in sent
      /\ \A t \in B \cap Correct :
           ReplyOf(u, collective[s][u].result, t, s) \in sent
  BY DEF ExecutionInv, CollectiveIsBacked
<1> HIDE DEF A, B
<1>2. /\ \A t \in A \cap Correct : Recipient(t, u) = r
      /\ \A t \in B \cap Correct : Recipient(t, u) = s
  BY <1>1 DEF ExecutionInv, RepliesAreExecuted, ReplyOf
<1>3. r \in Replica /\ s \in Replica
  BY ExecutionAssumption DEF Correct
<1>4. PICK p \in A : p \in Correct /\ p # s
  BY <1>1, <1>3, DecidersNotOne
<1>5. PICK q \in B : q \in Correct /\ q # r
  BY <1>1, <1>3, DecidersNotOne
<1>6. ~ Request[u].broadcast
  BY <1>2, <1>4, <1>5 DEF Recipient
<1>7. Leader(p) = r /\ Leader(q) = s
  BY <1>2, <1>4, <1>5, <1>6 DEF Recipient
<1>8. q = 1
  BY <1>5, <1>7, LeaderIsFirst DEF Correct
<1>9. p = 1
  BY <1>4, <1>5, <1>7, <1>8, LeaderIsFirst DEF Correct
<1> QED
  BY <1>7, <1>8, <1>9

\* A client gets at most one collective reply to an operation, although two
\* replicas collect single replies (server.ts:204, 583, 644-660).
THEOREM CollectiveUniqueness == Spec => []OneCollective
<1>1. ASSUME ExecutionInv, NEW r \in Correct, NEW s \in Correct, NEW u \in Uuid,
             collective[r][u] # None, collective[s][u] # None
      PROVE  r = s
  <2>1. ~ (r # s /\ s # 1) /\ ~ (r # s /\ r # 1)
    BY <1>1, OtherCollectsNothing
  <2> QED
    BY <2>1
<1>2. ExecutionInv => OneCollective
  BY <1>1 DEF OneCollective
<1> QED
  BY <1>2, ExecutionInvariance, PTL
=============================================================================
