---------------------------- MODULE ServiceProofs ----------------------------
(***************************************************************************)
(* Theorems about Service, for every number of servers and clients and     *)
(* whatever the clients ask for.                                           *)
(***************************************************************************)
EXTENDS Service, FiniteSetTheorems, SequenceTheorems, TLAPS

-----------------------------------------------------------------------------
(* Identifiers and queues *)

\* A uuid is a client and the number of one of its commands.
LEMMA UuidType ==
  ASSUME NEW u \in Uuid
  PROVE  /\ u = <<u[1], u[2]>> /\ u[1] \in Client
         /\ u[2] \in DOMAIN Commands[u[1]] /\ u[2] \in Nat
         /\ Commands[u[1]] \in Seq(Command)
         /\ CommandOf(u) \in Command
         /\ Kind(u) \in {"read", "write", "invalid"}
<1>1. PICK c \in Client : u \in {c} \X DOMAIN Commands[c]
  BY DEF Uuid
<1>2. Commands[c] \in Seq(Command)
  BY ServiceAssumption
<1>3. CommandOf(u) \in Command
  BY <1>1, <1>2 DEF CommandOf
<1>4. Kind(u) \in {"read", "write", "invalid"}
  BY DEF Kind
<1> QED
  BY <1>1, <1>2, <1>3, <1>4

\* The commands that a client has are its uuids.
LEMMA CommandUuid ==
  ASSUME NEW c \in Client, NEW k \in Nat, 1 <= k, k <= Len(Commands[c])
  PROVE  <<c, k>> \in Uuid
<1>1. Commands[c] \in Seq(Command)
  BY ServiceAssumption
<1>2. k \in DOMAIN Commands[c]
  BY <1>1
<1>3. <<c, k>> \in {c} \X DOMAIN Commands[c]
  BY <1>2
<1> QED
  BY <1>3 DEF Uuid

\* A write is an operation.
LEMMA WriteType ==
  ASSUME NEW u \in Writes
  PROVE  u \in Uuid /\ Kind(u) = "write"
BY DEF Writes

\* The absence of an operation, a result or a server is none of them.
LEMMA NoneType ==
  /\ None \notin Uuid /\ None \notin Int /\ None \notin Nat
  /\ None \notin Client /\ None \notin Server
BY ServiceAssumption, CommandsAssumption DEF Server

\* What a command is made of.
LEMMA CommandType ==
  ASSUME NEW x \in Command
  PROVE  x.key \in Key /\ x.operator \in SM!Operators /\ x.value \in Int
BY CommandsAssumption DEF SM!CommandAssumption

\* The servers are a finite set of N.
LEMMA ServerFinite ==
  /\ IsFiniteSet(Server) /\ Cardinality(Server) = N
  /\ \A S \in SUBSET Server : IsFiniteSet(S) /\ Cardinality(S) \in Nat
<1>1. IsFiniteSet(Server) /\ Cardinality(Server) = N
  BY FS_Interval, ServiceAssumption DEF Server
<1> QED
  BY <1>1, FS_Subset, FS_CardinalityType

\* Every server takes a server for the leader.  From ten servers on the first
\* one's is the tenth.
LEMMA LeaderType ==
  ASSUME NEW s \in Server
  PROVE  Leader(s) \in Server
BY ServiceAssumption DEF Leader, FirstPeer, Server

\* The elements of a sequence and one more.
LEMMA AppendType ==
  ASSUME NEW S, NEW seq \in Seq(S), NEW x \in S
  PROVE  /\ Append(seq, x) \in Seq(S) /\ Append(seq, x) # <<>>
         /\ Range(Append(seq, x)) = Range(seq) \cup {x}
         /\ \A i \in DOMAIN Append(seq, x) :
              \/ Append(seq, x)[i] = x
              \/ i \in DOMAIN seq /\ Append(seq, x)[i] = seq[i]
<1>1. /\ DOMAIN Append(seq, x) = DOMAIN seq \cup {Len(seq) + 1}
      /\ Len(seq) + 1 \notin DOMAIN seq
      /\ \A i \in DOMAIN seq : Append(seq, x)[i] = seq[i]
      /\ Append(seq, x)[Len(seq) + 1] = x
  OBVIOUS
<1>2. Range(Append(seq, x)) = Range(seq) \cup {x}
  <2> HIDE DEF Range
  <2> DEFINE longer == Append(seq, x)
  <2> HIDE DEF longer
  <2>1. /\ DOMAIN longer = DOMAIN seq \cup {Len(seq) + 1}
        /\ Len(seq) + 1 \notin DOMAIN seq
        /\ \A i \in DOMAIN seq : longer[i] = seq[i]
        /\ longer[Len(seq) + 1] = x
    BY <1>1 DEF longer
  <2>2. Range(longer) = Range(seq) \cup {x}
    BY <2>1 DEF Range
  <2> QED
    BY <2>2 DEF longer
<1> QED
  BY <1>1, <1>2

\* Queue q is queue p with x, or not, at its end.
Extends(p, q, x) ==
  /\ q \in Seq(Request)
  /\ p # <<>> => q # <<>>
  /\ \A i \in DOMAIN q : q[i] = x \/ \E j \in DOMAIN p : q[i] = p[j]

\* A request is queued behind the others, or not at all.
LEMMA QueuedExtends ==
  ASSUME NEW queue \in Seq(Request), NEW q \in Request
  PROVE  Extends(queue, Queued(queue, q), q)
<1>1. CASE Len(queue) < MaxRequests
  <2>1. Queued(queue, q) = Append(queue, q)
    BY <1>1 DEF Queued
  <2> QED
    BY <2>1, AppendType DEF Extends
<1>2. CASE ~(Len(queue) < MaxRequests)
  BY <1>2 DEF Queued, Extends
<1> QED
  BY <1>1, <1>2

\* A request to all is queued on every connection.
LEMMA BroadcastExtends ==
  ASSUME NEW pending \in [Server -> Seq(Request)], NEW u \in Uuid
  PROVE  /\ Broadcast(pending, u) \in [Server -> Seq(Request)]
         /\ \A s \in Server :
              Extends(pending[s], Broadcast(pending, u)[s],
                      [uuid |-> u, broadcast |-> TRUE])
<1>1. [uuid |-> u, broadcast |-> TRUE] \in Request
  BY DEF Request
<1>2. \A s \in Server :
        Extends(pending[s], Broadcast(pending, u)[s],
                [uuid |-> u, broadcast |-> TRUE])
  BY <1>1, QueuedExtends DEF Broadcast
<1> QED
  BY <1>2 DEF Broadcast, Extends

\* What is left of a queue once its first request is answered.
LEMMA TailType ==
  ASSUME NEW S, NEW queue \in Seq(S), queue # <<>>
  PROVE  /\ Head(queue) \in S /\ Tail(queue) \in Seq(S)
         /\ Head(queue) = queue[1] /\ 1 \in DOMAIN queue
         /\ \A i \in DOMAIN Tail(queue) :
              i + 1 \in DOMAIN queue /\ Tail(queue)[i] = queue[i + 1]
OBVIOUS

-----------------------------------------------------------------------------
(* The state machine of a server *)

\* n is machine m that has issued one more command to Redis, for operation u.
\* Only a write changes what is stored.
Issues(m, n, u, x) ==
  LET last == n.awaiting[Len(m.awaiting) + 1]
  IN  /\ n \in SM!Machine
      /\ Len(n.awaiting) = Len(m.awaiting) + 1
      /\ \A i \in 1..Len(m.awaiting) : n.awaiting[i] = m.awaiting[i]
      /\ last.uuid = u /\ last.command = x
      /\ \A k \in Key : k # x.key => n.store[k] = m.store[k]
      /\ last.phase = "result" => last.value = n.store[x.key]
      /\ last.phase = "read" \/ x.operator = "<-" => n.store = m.store

\* A "set" and the "get" that returns what it has set.
LEMMA WriteIssues ==
  ASSUME NEW m \in SM!Machine, NEW u \in Uuid, NEW x \in Command, NEW v \in Int,
         x.operator # "<-"
  PROVE  Issues(m, SM!Write(m, u, x, v), u, x)
<1> DEFINE a == SM!Awaiting(u, x, "result", v)
           n == SM!Write(m, u, x, v)
<1>1. /\ a \in SM!Await /\ a.uuid = u /\ a.command = x /\ a.phase = "result"
      /\ a.value = v
  BY DEF SM!Await, SM!Awaiting
<1>2. /\ m.awaiting \in Seq(SM!Await) /\ m.store \in [Key -> Int]
      /\ n.awaiting = Append(m.awaiting, a)
      /\ n.store = [m.store EXCEPT ![x.key] = v]
  BY DEF SM!Machine, SM!Write
<1> HIDE DEF a, n
<1>3. /\ n.awaiting \in Seq(SM!Await) /\ n.store \in [Key -> Int]
      /\ Len(n.awaiting) = Len(m.awaiting) + 1
      /\ \A i \in 1..Len(m.awaiting) : n.awaiting[i] = m.awaiting[i]
      /\ n.awaiting[Len(m.awaiting) + 1] = a
  BY <1>1, <1>2, CommandType
<1>4. n \in SM!Machine
  BY <1>2, <1>3, CommandType DEF SM!Machine, n, SM!Write
<1> QED
  BY <1>1, <1>2, <1>3, <1>4, CommandType DEF Issues, n

\* A "get" returns what is stored when it is issued.
LEMMA GetIssues ==
  ASSUME NEW m \in SM!Machine, NEW u \in Uuid, NEW x \in Command,
         NEW p \in {"read", "result"}
  PROVE  Issues(m, SM!Get(m, u, x, p), u, x)
<1> DEFINE a == SM!Awaiting(u, x, p, m.store[x.key])
           n == SM!Get(m, u, x, p)
<1>1. /\ a \in SM!Await /\ a.uuid = u /\ a.command = x /\ a.phase = p
      /\ a.value = m.store[x.key]
  BY CommandType DEF SM!Await, SM!Awaiting, SM!Machine
<1>2. /\ m.awaiting \in Seq(SM!Await) /\ m.store \in [Key -> Int]
      /\ n.awaiting = Append(m.awaiting, a)
      /\ n.store = m.store
  BY DEF SM!Machine, SM!Get
<1> HIDE DEF a, n
<1>3. /\ n.awaiting \in Seq(SM!Await)
      /\ Len(n.awaiting) = Len(m.awaiting) + 1
      /\ \A i \in 1..Len(m.awaiting) : n.awaiting[i] = m.awaiting[i]
      /\ n.awaiting[Len(m.awaiting) + 1] = a
  BY <1>1, <1>2
<1>4. n \in SM!Machine
  BY <1>2, <1>3, CommandType DEF SM!Machine, n, SM!Get
<1> QED
  BY <1>1, <1>2, <1>3, <1>4, CommandType DEF Issues, n

\* The answer that comes leaves the queue to those behind it.
LEMMA DequeueType ==
  ASSUME NEW m \in SM!Machine, m.awaiting # <<>>
  PROVE  /\ SM!Dequeue(m) \in SM!Machine
         /\ SM!Dequeue(m).store = m.store
         /\ Len(m.awaiting) \in Nat \ {0}
         /\ DOMAIN m.awaiting = 1..Len(m.awaiting)
         /\ DOMAIN SM!Dequeue(m).awaiting = 1..(Len(m.awaiting) - 1)
         /\ Len(SM!Dequeue(m).awaiting) = Len(m.awaiting) - 1
         /\ \A i \in 1..(Len(m.awaiting) - 1) :
              SM!Dequeue(m).awaiting[i] = m.awaiting[i + 1]
         /\ SM!Answered(m) = m.awaiting[1] /\ SM!Answered(m) \in SM!Await
<1>1. m.awaiting \in Seq(SM!Await) /\ m.store \in [Key -> Int]
  BY DEF SM!Machine
<1>2. SM!Dequeue(m) = [store |-> m.store, awaiting |-> Tail(m.awaiting)]
  BY DEF SM!Machine, SM!Dequeue
<1>3. /\ Tail(m.awaiting) \in Seq(SM!Await)
      /\ Len(Tail(m.awaiting)) = Len(m.awaiting) - 1
      /\ \A i \in 1..(Len(m.awaiting) - 1) :
           Tail(m.awaiting)[i] = m.awaiting[i + 1]
      /\ Len(m.awaiting) \in Nat \ {0}
  BY <1>1, HeadTailProperties, EmptySeq
<1>4. SM!Answered(m) = m.awaiting[1] /\ SM!Answered(m) \in SM!Await
  BY <1>1, HeadTailProperties DEF SM!Answered
<1>5. SM!Dequeue(m) \in SM!Machine
  BY <1>1, <1>2, <1>3 DEF SM!Machine
<1>6. /\ DOMAIN m.awaiting = 1..Len(m.awaiting)
      /\ DOMAIN Tail(m.awaiting) = 1..(Len(m.awaiting) - 1)
  BY <1>1, <1>3, LenProperties
<1> QED
  BY <1>2, <1>3, <1>4, <1>5, <1>6

\* A new value is a number.
LEMMA NewValueType ==
  ASSUME NEW x \in Command, NEW v \in Int PROVE SM!NewValue(x, v) \in Int
<1>1. x.value \in Int
  BY CommandType
<1>2. v + x.value \in Int /\ v - x.value \in Int /\ v * x.value \in Int
  BY <1>1
<1> QED
  BY <1>1, <1>2 DEF SM!NewValue

\* Up to its first await an operation issues one command.
LEMMA ExecuteIssues ==
  ASSUME NEW m \in SM!Machine, NEW u \in Uuid, NEW x \in Command
  PROVE  Issues(m, SM!ExecuteOperation(m, u, x), u, x)
BY WriteIssues, GetIssues, CommandType DEF SM!ExecuteOperation

\* From there to the second await, another.
LEMMA ResumeIssues ==
  ASSUME NEW m \in SM!Machine, m.awaiting # <<>>
  PROVE  Issues(SM!Dequeue(m), SM!Resume(m), SM!Answered(m).uuid,
                SM!Answered(m).command)
<1> DEFINE a == SM!Answered(m)
<1>1. /\ a.uuid \in Uuid /\ a.command \in Command /\ a.value \in Int
      /\ SM!Dequeue(m) \in SM!Machine
  BY DequeueType DEF SM!Await
<1> QED
  BY <1>1, WriteIssues, GetIssues, NewValueType DEF SM!Resume

-----------------------------------------------------------------------------
(* What a state machine stores, and what reads of it are told *)

\* The write u has completed.
IsLogged(blocks, u) == \E i \in DOMAIN blocks : blocks[i].uuid = u

\* The write u, or one of that key which followed it, has left the value v.
Left(blocks, u, v) ==
  \E i, j \in DOMAIN blocks :
    /\ blocks[i].uuid = u /\ i <= j
    /\ KeyOf(blocks[j].uuid) = KeyOf(u) /\ blocks[j].result = v

\* A write that awaits its result.
IsDue(m, q) ==
  m.awaiting[q].phase = "result" /\ Kind(m.awaiting[q].uuid) = "write"

\* Before the entry p of the queue a write of k awaits the result v.
DueBefore(m, k, v, p) ==
  \E q \in DOMAIN m.awaiting :
    /\ q < p /\ IsDue(m, q)
    /\ KeyOf(m.awaiting[q].uuid) = k /\ m.awaiting[q].value = v

\* Once those before p have completed, v has been left by u or after it.
Follows(m, blocks, u, v, p) ==
  Left(blocks, u, v) \/ DueBefore(m, KeyOf(u), v, p)

\* What is stored under a key is what the last of its writes leaves, be it done
\* or due.
IsConsistent(m, blocks) ==
  /\ \A u : IsLogged(blocks, u) =>
       Follows(m, blocks, u, m.store[KeyOf(u)], Len(m.awaiting) + 1)
  /\ \A q \in DOMAIN m.awaiting : IsDue(m, q) =>
       \E r \in DOMAIN m.awaiting :
         /\ q <= r /\ IsDue(m, r)
         /\ KeyOf(m.awaiting[r].uuid) = KeyOf(m.awaiting[q].uuid)
         /\ m.awaiting[r].value = m.store[KeyOf(m.awaiting[q].uuid)]

\* Whenever the read b awaits its result, that is of u or of a later write.
AwaitsAfter(m, blocks, u, b) ==
  /\ IsLogged(blocks, u)
  /\ \A p \in DOMAIN m.awaiting :
       m.awaiting[p].uuid = b /\ m.awaiting[p].phase = "result" =>
         Follows(m, blocks, u, m.awaiting[p].value, p)

\* The operations that wait are those requested, as they are.
IsFaithful(m) ==
  \A i \in DOMAIN m.awaiting :
    LET a == m.awaiting[i]
    IN  a.command = CommandOf(a.uuid) /\ Kind(a.uuid) # "invalid"

\* Reads and writes are told apart by the operator.
LEMMA KindOperator ==
  ASSUME NEW u
  PROVE  /\ Kind(u) = "read" => CommandOf(u).operator = "<-"
         /\ Kind(u) = "write" => CommandOf(u).operator # "<-"
BY DEF Kind

\* A command that is issued settles what its key holds, if it writes, and what
\* its read returns is what is stored.
LEMMA IssuesKeeps ==
  ASSUME NEW m \in SM!Machine, NEW n, NEW u \in Uuid, Kind(u) # "invalid",
         Issues(m, n, u, CommandOf(u)), NEW blocks,
         \A w : IsLogged(blocks, w) => w \in Uuid,
         IsFaithful(m), IsConsistent(m, blocks)
  PROVE  /\ IsFaithful(n) /\ IsConsistent(n, blocks)
         /\ \A w, b : /\ KeyOf(w) = KeyOf(b) /\ Kind(b) = "read"
                      /\ AwaitsAfter(m, blocks, w, b)
                      => AwaitsAfter(n, blocks, w, b)
<1> DEFINE L == Len(m.awaiting)
<1> DEFINE last == n.awaiting[L + 1]
<1>1. /\ L \in Nat /\ DOMAIN m.awaiting = 1..L /\ DOMAIN n.awaiting = 1..(L + 1)
      /\ Len(n.awaiting) = L + 1
      /\ \A i \in 1..L : n.awaiting[i] = m.awaiting[i]
      /\ last.uuid = u /\ last.command = CommandOf(u)
      /\ last.phase \in {"read", "result"}
      /\ KeyOf(u) \in Key
      /\ \A k \in Key : k # KeyOf(u) => n.store[k] = m.store[k]
      /\ last.phase = "result" => last.value = n.store[KeyOf(u)]
      /\ last.phase = "read" \/ Kind(u) = "read" => n.store = m.store
  <2>1. n \in SM!Machine /\ Len(n.awaiting) = L + 1 /\ m.awaiting \in Seq(SM!Await)
    BY DEF Issues, SM!Machine
  <2>2. n.awaiting \in Seq(SM!Await) /\ L \in Nat
    BY <2>1 DEF SM!Machine
  <2>3. last \in SM!Await
    BY <2>1, <2>2
  <2>4. CommandOf(u) \in Command /\ KeyOf(u) = CommandOf(u).key
    BY UuidType DEF KeyOf
  <2> QED
    BY <2>1, <2>2, <2>3, <2>4, KindOperator, CommandType DEF Issues, SM!Await
<1> HIDE DEF L, last
<1>2. IsFaithful(n)
  <2> SUFFICES ASSUME NEW i \in 1..(L + 1)
               PROVE  /\ n.awaiting[i].command = CommandOf(n.awaiting[i].uuid)
                      /\ Kind(n.awaiting[i].uuid) # "invalid"
    BY <1>1 DEF IsFaithful
  <2>1. CASE i \in 1..L
    BY <1>1, <2>1 DEF IsFaithful
  <2>2. CASE i = L + 1
    BY <1>1, <2>2 DEF last
  <2> QED
    BY <1>1, <2>1, <2>2
<1>3. ASSUME NEW k, NEW v, NEW p, DueBefore(m, k, v, p)
      PROVE  DueBefore(n, k, v, p)
  <2>1. PICK q \in 1..L : /\ q < p /\ IsDue(m, q)
                          /\ KeyOf(m.awaiting[q].uuid) = k
                          /\ m.awaiting[q].value = v
    BY <1>1, <1>3 DEF DueBefore
  <2>2. q \in DOMAIN n.awaiting /\ n.awaiting[q] = m.awaiting[q]
    BY <1>1
  <2>3. IsDue(n, q)
    BY <2>1, <2>2 DEF IsDue
  <2> QED
    BY <2>1, <2>2, <2>3 DEF DueBefore
<1>4. ASSUME last.phase = "result", Kind(u) = "write"
      PROVE  /\ L + 1 \in DOMAIN n.awaiting /\ IsDue(n, L + 1)
             /\ KeyOf(n.awaiting[L + 1].uuid) = KeyOf(u)
             /\ n.awaiting[L + 1].value = n.store[KeyOf(u)]
  BY <1>1, <1>4 DEF IsDue, last
<1>5. ASSUME NEW w \in Uuid,
             ~(last.phase = "result" /\ Kind(u) = "write" /\ KeyOf(w) = KeyOf(u))
      PROVE  n.store[KeyOf(w)] = m.store[KeyOf(w)]
  <2>1. KeyOf(w) \in Key
    BY UuidType, CommandType DEF KeyOf
  <2>2. Kind(u) \in {"read", "write"}
    BY UuidType
  <2> QED
    BY <1>1, <1>5, <2>1, <2>2
<1>6. ASSUME NEW w, IsLogged(blocks, w)
      PROVE  Follows(n, blocks, w, n.store[KeyOf(w)], L + 2)
  <2>1. w \in Uuid
    BY <1>6
  <2>2. CASE last.phase = "result" /\ Kind(u) = "write" /\ KeyOf(w) = KeyOf(u)
    <3>1. L + 1 < L + 2
      BY <1>1
    <3> QED
      BY <1>4, <2>2, <3>1 DEF Follows, DueBefore
  <2>3. CASE ~(last.phase = "result" /\ Kind(u) = "write" /\ KeyOf(w) = KeyOf(u))
    <3>1. Follows(m, blocks, w, m.store[KeyOf(w)], L + 1)
      BY <1>6 DEF IsConsistent, L
    <3>2. ASSUME NEW k, NEW v, DueBefore(m, k, v, L + 1)
          PROVE  DueBefore(m, k, v, L + 2)
      BY <1>1, <3>2 DEF DueBefore
    <3> QED
      BY <1>3, <1>5, <2>1, <2>3, <3>1, <3>2 DEF Follows
  <2> QED
    BY <2>2, <2>3
<1>7. ASSUME NEW q \in DOMAIN n.awaiting, IsDue(n, q)
      PROVE  \E r \in DOMAIN n.awaiting :
               /\ q <= r /\ IsDue(n, r)
               /\ KeyOf(n.awaiting[r].uuid) = KeyOf(n.awaiting[q].uuid)
               /\ n.awaiting[r].value = n.store[KeyOf(n.awaiting[q].uuid)]
  <2>1. q \in 1..(L + 1)
    BY <1>1
  <2>2. CASE last.phase = "result" /\ Kind(u) = "write"
             /\ KeyOf(n.awaiting[q].uuid) = KeyOf(u)
    <3>1. q <= L + 1
      BY <1>1, <2>1
    <3> QED
      BY <1>4, <2>2, <3>1
  <2>3. CASE ~(last.phase = "result" /\ Kind(u) = "write"
               /\ KeyOf(n.awaiting[q].uuid) = KeyOf(u))
    <3>1. q # L + 1
      BY <1>1, <1>7, <2>3 DEF IsDue, last
    <3>2. q \in 1..L /\ n.awaiting[q] = m.awaiting[q]
      BY <1>1, <2>1, <3>1
    <3>3. IsDue(m, q) /\ m.awaiting[q].uuid \in Uuid
      <4>1. m.awaiting[q] \in SM!Await
        BY <1>1, <3>2 DEF SM!Machine
      <4> QED
        BY <1>7, <3>2, <4>1 DEF IsDue, SM!Await
    <3>4. PICK r \in 1..L :
            /\ q <= r /\ IsDue(m, r)
            /\ KeyOf(m.awaiting[r].uuid) = KeyOf(m.awaiting[q].uuid)
            /\ m.awaiting[r].value = m.store[KeyOf(m.awaiting[q].uuid)]
      BY <1>1, <3>2, <3>3 DEF IsConsistent
    <3>5. n.awaiting[r] = m.awaiting[r] /\ r \in DOMAIN n.awaiting
      BY <1>1
    <3>6. IsDue(n, r)
      BY <3>4, <3>5 DEF IsDue
    <3>7. n.store[KeyOf(m.awaiting[q].uuid)] = m.store[KeyOf(m.awaiting[q].uuid)]
      BY <1>5, <2>3, <3>2, <3>3
    <3> QED
      BY <3>2, <3>4, <3>5, <3>6, <3>7
  <2> QED
    BY <2>2, <2>3
<1>8. IsConsistent(n, blocks)
  <2>1. Len(n.awaiting) + 1 = L + 2
    BY <1>1
  <2> QED
    BY <1>6, <1>7, <2>1 DEF IsConsistent
<1>9. ASSUME NEW w, NEW b, KeyOf(w) = KeyOf(b), Kind(b) = "read",
             AwaitsAfter(m, blocks, w, b), NEW p \in DOMAIN n.awaiting,
             n.awaiting[p].uuid = b, n.awaiting[p].phase = "result"
      PROVE  Follows(n, blocks, w, n.awaiting[p].value, p)
  <2>1. CASE p \in 1..L
    <3>1. Follows(m, blocks, w, n.awaiting[p].value, p)
      BY <1>1, <1>9, <2>1 DEF AwaitsAfter
    <3> QED
      BY <1>3, <3>1 DEF Follows
  <2>2. CASE p = L + 1
    <3>1. b = u /\ last.phase = "result" /\ last.value = m.store[KeyOf(w)]
          /\ n.awaiting[p].value = last.value
      BY <1>1, <1>9, <2>2 DEF last
    <3>2. Follows(m, blocks, w, m.store[KeyOf(w)], L + 1)
      BY <1>9 DEF AwaitsAfter, IsConsistent, L
    <3> QED
      BY <1>3, <2>2, <3>1, <3>2 DEF Follows
  <2> QED
    BY <1>1, <1>9, <2>1, <2>2
<1> QED
  BY <1>2, <1>8, <1>9 DEF AwaitsAfter

\* What was left stays left when the log grows.
LEMMA LeftStays ==
  ASSUME NEW blocks \in Seq(Block), NEW x \in Block
  PROVE  /\ Append(blocks, x) \in Seq(Block)
         /\ \A u : IsLogged(Append(blocks, x), u) <=>
                     IsLogged(blocks, u) \/ u = x.uuid
         /\ \A u, v : Left(blocks, u, v) => Left(Append(blocks, x), u, v)
         /\ \A u : IsLogged(Append(blocks, x), u) /\ KeyOf(x.uuid) = KeyOf(u)
                     => Left(Append(blocks, x), u, x.result)
<1> DEFINE longer == Append(blocks, x)
<1> DEFINE L == Len(blocks)
<1>1. /\ L \in Nat /\ DOMAIN blocks = 1..L /\ DOMAIN longer = 1..(L + 1)
      /\ \A i \in 1..L : longer[i] = blocks[i]
      /\ longer[L + 1] = x /\ longer \in Seq(Block)
  OBVIOUS
<1> HIDE DEF longer, L
<1>2. ASSUME NEW u
      PROVE  IsLogged(longer, u) <=> IsLogged(blocks, u) \/ u = x.uuid
  <2>1. ASSUME IsLogged(longer, u), u # x.uuid PROVE IsLogged(blocks, u)
    <3>1. PICK i \in 1..(L + 1) : longer[i].uuid = u
      BY <1>1, <2>1 DEF IsLogged
    <3>2. i \in 1..L
      BY <1>1, <2>1, <3>1
    <3> QED
      BY <1>1, <3>1, <3>2 DEF IsLogged
  <2>2. ASSUME IsLogged(blocks, u) PROVE IsLogged(longer, u)
    <3>1. PICK i \in 1..L : blocks[i].uuid = u
      BY <1>1, <2>2 DEF IsLogged
    <3> QED
      BY <1>1, <3>1 DEF IsLogged
  <2>3. IsLogged(longer, x.uuid)
    BY <1>1 DEF IsLogged
  <2> QED
    BY <2>1, <2>2, <2>3
<1>3. ASSUME NEW u, NEW v, Left(blocks, u, v) PROVE Left(longer, u, v)
  <2>1. PICK i \in 1..L, j \in 1..L :
          /\ blocks[i].uuid = u /\ i <= j
          /\ KeyOf(blocks[j].uuid) = KeyOf(u) /\ blocks[j].result = v
    BY <1>1, <1>3 DEF Left
  <2> QED
    BY <1>1, <2>1 DEF Left
<1>4. ASSUME NEW u, IsLogged(longer, u), KeyOf(x.uuid) = KeyOf(u)
      PROVE  Left(longer, u, x.result)
  <2>1. PICK i \in 1..(L + 1) : longer[i].uuid = u
    BY <1>1, <1>4 DEF IsLogged
  <2>2. i <= L + 1 /\ L + 1 \in 1..(L + 1)
    BY <1>1
  <2> QED
    BY <1>1, <1>4, <2>1, <2>2 DEF Left
<1> QED
  BY <1>1, <1>2, <1>3, <1>4 DEF longer

\* What becomes of the log when the answer issued first has come: the result of
\* a write is appended.
Logs(m, blocks, longer) ==
  IF IsDue(m, 1)
  THEN longer = Append(blocks, [uuid |-> m.awaiting[1].uuid,
                                result |-> m.awaiting[1].value])
  ELSE longer = blocks

\* The queue moves up by one, and what was due first is done.
LEMMA DequeueKeeps ==
  ASSUME NEW m \in SM!Machine, m.awaiting # <<>>, NEW blocks \in Seq(Block),
         NEW longer, Logs(m, blocks, longer),
         IsFaithful(m), IsConsistent(m, blocks)
  PROVE  /\ IsFaithful(SM!Dequeue(m)) /\ IsConsistent(SM!Dequeue(m), longer)
         /\ longer \in Seq(Block)
         /\ \A u, v : Left(blocks, u, v) => Left(longer, u, v)
         /\ \A u, b : AwaitsAfter(m, blocks, u, b)
                        => AwaitsAfter(SM!Dequeue(m), longer, u, b)
<1> DEFINE L == Len(m.awaiting)
<1> DEFINE n == SM!Dequeue(m)
<1> DEFINE first == [uuid |-> m.awaiting[1].uuid, result |-> m.awaiting[1].value]
<1>1. /\ n \in SM!Machine /\ n.store = m.store /\ L \in Nat \ {0}
      /\ DOMAIN m.awaiting = 1..L /\ DOMAIN n.awaiting = 1..(L - 1)
      /\ Len(n.awaiting) = L - 1
      /\ \A i \in 1..(L - 1) : n.awaiting[i] = m.awaiting[i + 1]
      /\ m.awaiting[1] \in SM!Await
  BY DequeueType
<1>2. first \in Block
  BY <1>1 DEF SM!Await, Block
<1> HIDE DEF L, n
<1>3. /\ longer \in Seq(Block)
      /\ \A u, v : Left(blocks, u, v) => Left(longer, u, v)
      /\ \A u : IsLogged(blocks, u) => IsLogged(longer, u)
      /\ \A u : IsLogged(longer, u) =>
           IsLogged(blocks, u) \/ (IsDue(m, 1) /\ u = m.awaiting[1].uuid)
      /\ IsDue(m, 1) =>
           \A u : IsLogged(longer, u) /\ KeyOf(m.awaiting[1].uuid) = KeyOf(u)
                    => Left(longer, u, m.awaiting[1].value)
  <2>1. CASE IsDue(m, 1)
    <3>1. longer = Append(blocks, first)
      BY <2>1 DEF Logs
    <3>2. first.uuid = m.awaiting[1].uuid /\ first.result = m.awaiting[1].value
      OBVIOUS
    <3> HIDE DEF first
    <3> QED
      BY <1>2, <2>1, <3>1, <3>2, LeftStays
  <2>2. CASE ~IsDue(m, 1)
    BY <2>2 DEF Logs
  <2> QED
    BY <2>1, <2>2
<1>4. ASSUME NEW i \in 1..(L - 1) PROVE i + 1 \in 1..L /\ i + 1 # 1
  BY <1>1
<1>5. ASSUME NEW q \in 1..L, q # 1 PROVE q - 1 \in 1..(L - 1) /\ (q - 1) + 1 = q
  BY <1>1, <1>5
<1>6. ASSUME NEW u, NEW v, NEW p \in Int, IsLogged(longer, u),
             Follows(m, blocks, u, v, p)
      PROVE  Follows(n, longer, u, v, p - 1)
  <2>1. CASE Left(blocks, u, v)
    BY <1>3, <2>1 DEF Follows
  <2>2. ASSUME NEW q \in 1..L, q < p, IsDue(m, q),
               KeyOf(m.awaiting[q].uuid) = KeyOf(u), m.awaiting[q].value = v
        PROVE  Follows(n, longer, u, v, p - 1)
    <3>1. CASE q = 1
      BY <1>3, <1>6, <2>2, <3>1 DEF Follows
    <3>2. CASE q # 1
      <4>1. q - 1 \in DOMAIN n.awaiting /\ n.awaiting[q - 1] = m.awaiting[q]
        BY <1>1, <1>5, <3>2
      <4>2. q - 1 < p - 1
        BY <2>2
      <4>3. IsDue(n, q - 1)
        BY <2>2, <4>1 DEF IsDue
      <4>4. DueBefore(n, KeyOf(u), v, p - 1)
        BY <2>2, <4>1, <4>2, <4>3 DEF DueBefore
      <4> QED
        BY <4>4 DEF Follows
    <3> QED
      BY <3>1, <3>2
  <2> QED
    BY <1>1, <1>6, <2>1, <2>2 DEF Follows, DueBefore
<1>7. ASSUME NEW q \in 1..L, IsDue(m, q)
      PROVE  \E r \in 1..L :
               /\ q <= r /\ IsDue(m, r)
               /\ KeyOf(m.awaiting[r].uuid) = KeyOf(m.awaiting[q].uuid)
               /\ m.awaiting[r].value = m.store[KeyOf(m.awaiting[q].uuid)]
  BY <1>1, <1>7 DEF IsConsistent
<1>8. ASSUME NEW u, IsLogged(longer, u)
      PROVE  Follows(n, longer, u, n.store[KeyOf(u)], L)
  <2>1. CASE IsLogged(blocks, u)
    <3>1. Follows(m, blocks, u, m.store[KeyOf(u)], L + 1)
      BY <2>1 DEF IsConsistent, L
    <3>2. (L + 1) - 1 = L /\ L + 1 \in Int
      BY <1>1
    <3>3. Follows(n, longer, u, m.store[KeyOf(u)], (L + 1) - 1)
      BY <1>6, <1>8, <3>1, <3>2
    <3> QED
      BY <1>1, <3>2, <3>3
  <2>2. CASE IsDue(m, 1) /\ u = m.awaiting[1].uuid
    <3>1. 1 \in 1..L
      BY <1>1
    <3>2. PICK r \in 1..L : /\ 1 <= r /\ IsDue(m, r)
                            /\ KeyOf(m.awaiting[r].uuid) = KeyOf(u)
                            /\ m.awaiting[r].value = m.store[KeyOf(u)]
      BY <1>7, <2>2, <3>1
    <3>3. DueBefore(m, KeyOf(u), m.store[KeyOf(u)], L + 1)
      BY <1>1, <3>2 DEF DueBefore
    <3>4. Follows(m, blocks, u, m.store[KeyOf(u)], L + 1)
      BY <3>3 DEF Follows
    <3>5. (L + 1) - 1 = L /\ L + 1 \in Int
      BY <1>1
    <3>6. Follows(n, longer, u, m.store[KeyOf(u)], (L + 1) - 1)
      BY <1>6, <1>8, <3>4, <3>5
    <3> QED
      BY <1>1, <3>5, <3>6
  <2> QED
    BY <1>3, <1>8, <2>1, <2>2
<1>9. ASSUME NEW i \in 1..(L - 1), IsDue(n, i)
      PROVE  \E r \in 1..(L - 1) :
               /\ i <= r /\ IsDue(n, r)
               /\ KeyOf(n.awaiting[r].uuid) = KeyOf(n.awaiting[i].uuid)
               /\ n.awaiting[r].value = n.store[KeyOf(n.awaiting[i].uuid)]
  <2>1. i + 1 \in 1..L /\ n.awaiting[i] = m.awaiting[i + 1]
    BY <1>1, <1>4
  <2>2. IsDue(m, i + 1)
    BY <1>9, <2>1 DEF IsDue
  <2>3. PICK r \in 1..L :
          /\ i + 1 <= r /\ IsDue(m, r)
          /\ KeyOf(m.awaiting[r].uuid) = KeyOf(n.awaiting[i].uuid)
          /\ m.awaiting[r].value = m.store[KeyOf(n.awaiting[i].uuid)]
    BY <1>7, <2>1, <2>2
  <2>4. r # 1 /\ i <= r - 1
    BY <2>3
  <2>5. r - 1 \in 1..(L - 1) /\ n.awaiting[r - 1] = m.awaiting[r]
    BY <1>1, <1>5, <2>4
  <2>6. IsDue(n, r - 1)
    BY <2>3, <2>5 DEF IsDue
  <2> QED
    BY <1>1, <2>3, <2>4, <2>5, <2>6
<1>10. IsConsistent(n, longer)
  <2>1. Len(n.awaiting) + 1 = L
    BY <1>1
  <2> QED
    BY <1>1, <1>8, <1>9, <2>1 DEF IsConsistent
<1>11. IsFaithful(n)
  BY <1>1, <1>4 DEF IsFaithful
<1>12. ASSUME NEW u, NEW b, AwaitsAfter(m, blocks, u, b)
       PROVE  AwaitsAfter(n, longer, u, b)
  <2>1. IsLogged(longer, u)
    BY <1>3, <1>12 DEF AwaitsAfter
  <2>2. ASSUME NEW p \in 1..(L - 1), n.awaiting[p].uuid = b,
               n.awaiting[p].phase = "result"
        PROVE  Follows(n, longer, u, n.awaiting[p].value, p)
    <3>1. p + 1 \in 1..L /\ n.awaiting[p] = m.awaiting[p + 1]
      BY <1>1, <1>4
    <3>2. Follows(m, blocks, u, n.awaiting[p].value, p + 1)
      BY <1>1, <1>12, <2>2, <3>1 DEF AwaitsAfter
    <3>3. Follows(n, longer, u, n.awaiting[p].value, (p + 1) - 1)
      BY <1>6, <2>1, <3>1, <3>2
    <3> QED
      BY <3>3
  <2> QED
    BY <1>1, <2>1, <2>2 DEF AwaitsAfter
<1> QED
  BY <1>3, <1>10, <1>11, <1>12 DEF n

\* The answer that completes a read is the value that u, or a write after it,
\* has left.
LEMMA AnsweredAfter ==
  ASSUME NEW m \in SM!Machine, m.awaiting # <<>>, NEW blocks, NEW u, NEW b,
         AwaitsAfter(m, blocks, u, b), SM!Answered(m).uuid = b,
         SM!Answered(m).phase = "result"
  PROVE  Left(blocks, u, SM!Answered(m).value)
<1>1. /\ Len(m.awaiting) \in Nat \ {0} /\ DOMAIN m.awaiting = 1..Len(m.awaiting)
      /\ SM!Answered(m) = m.awaiting[1]
  BY DequeueType
<1>2. Follows(m, blocks, u, SM!Answered(m).value, 1)
  BY <1>1 DEF AwaitsAfter
<1>3. \A q \in DOMAIN m.awaiting : ~(q < 1)
  BY <1>1
<1> QED
  BY <1>2, <1>3 DEF Follows, DueBefore

(* The inductive invariant: sockets and operations in course *)

\* A server serves a request that is there, and is not yet answered; what
\* answers is the answer to a request.
SocketsAlternate ==
  \A c \in Client, s \in Server :
    /\ serving[s] = c \/ answers[c][s] # None => requests[c][s] # <<>>
    /\ serving[s] = c => answers[c][s] = None

\* Only writes are broadcast between the servers.
InitsAreWrites == \A q \in inits : q.uuid \in Writes

\* The operation in course is the last submitted; without one, no replies.
CurrentIsLast ==
  \A c \in Client :
    /\ currentOperation[c] # None => currentOperation[c] = <<c, submitted[c]>>
    /\ currentOperation[c] = None => currentReplies[c] = NoReplies

SocketInv == TypeOK /\ SocketsAlternate /\ InitsAreWrites /\ CurrentIsLast

\* What every handling of an answer does: the requests left are earlier ones or
\* repeat the operation in course.
Consumes(c, s) ==
  /\ answers[c][s] # None
  /\ answers' = [answers EXCEPT ![c][s] = None]
  /\ UNCHANGED <<submitted, serving, outgoing, cluster>>
  /\ requests' \in [Client -> [Server -> Seq(Request)]]
  /\ \A d \in Client, t \in Server :
       /\ (d # c \/ t # s) /\ requests[d][t] # <<>> => requests'[d][t] # <<>>
       /\ \A i \in DOMAIN requests'[d][t] :
            \/ requests'[d][t][i].uuid = currentOperation[d]
               /\ currentOperation[d] # None
            \/ \E j \in DOMAIN requests[d][t] :
                 requests'[d][t][i] = requests[d][t][j]

\* The servers that have told c the result v, with what s tells it now.
Telling(c, s, v) ==
  {t \in Server : [currentReplies[c] EXCEPT ![s] = answers[c][s].result][t] = v}

ThresholdOf(u) ==
  IF Kind(u) = "read" THEN N \div 2 ELSE UpperBoundThreshold(N)

\* What becomes of the operation in course: nothing, its replies are discarded,
\* the reply is kept, or its result is accepted.
Concludes(c, s) ==
  LET a == answers[c][s]
  IN  \/ UNCHANGED <<currentOperation, currentReplies, accepted>>
      \/ /\ currentReplies' = [currentReplies EXCEPT ![c] = NoReplies]
         /\ UNCHANGED <<currentOperation, accepted>>
      \/ /\ currentOperation[c] = a.uuid /\ a.type = "SingleReply"
         /\ currentReplies' = [currentReplies EXCEPT ![c][s] = a.result]
         /\ UNCHANGED <<currentOperation, accepted>>
      \/ /\ currentOperation[c] = a.uuid /\ a.type = "SingleReply"
         /\ \E v \in Int :
              /\ ResolveCurrentOperation(c, v, None)
              /\ Telling(c, s, v) # {}
              /\ Cardinality(Telling(c, s, v)) >= ThresholdOf(a.uuid)
      \/ /\ currentOperation[c] = a.uuid /\ a.type = "CollectiveReply"
         /\ ResolveCurrentOperation(c, a.result, s)
         /\ 3 * Cardinality(a.acknowledgments) >= 2 * N + 1

\* The request that an answer is for is taken from the connection.
LEMMA UnansweredType ==
  ASSUME TypeOK, NEW c \in Client, NEW s \in Server, requests[c][s] # <<>>
  PROVE  /\ Unanswered(c, s) \in [Server -> Seq(Request)]
         /\ \A t \in Server : t # s => Unanswered(c, s)[t] = requests[c][t]
         /\ \A t \in Server : \A i \in DOMAIN Unanswered(c, s)[t] :
              \E j \in DOMAIN requests[c][t] :
                Unanswered(c, s)[t][i] = requests[c][t][j]
<1>1. requests[c] \in [Server -> Seq(Request)]
  BY DEF TypeOK
<1>2. /\ Unanswered(c, s)[s] = Tail(requests[c][s])
      /\ \A t \in Server : t # s => Unanswered(c, s)[t] = requests[c][t]
      /\ DOMAIN Unanswered(c, s) = Server
  BY <1>1 DEF Unanswered
<1>3. /\ Tail(requests[c][s]) \in Seq(Request)
      /\ \A i \in DOMAIN Tail(requests[c][s]) :
           \E j \in DOMAIN requests[c][s] :
             Tail(requests[c][s])[i] = requests[c][s][j]
  BY <1>1, TailType
<1>4. Unanswered(c, s) \in [Server -> Seq(Request)]
  BY <1>1, <1>3 DEF Unanswered
<1>5. \A t \in Server : \A i \in DOMAIN Unanswered(c, s)[t] :
        \E j \in DOMAIN requests[c][t] :
          Unanswered(c, s)[t][i] = requests[c][t][j]
  <2> TAKE t \in Server
  <2>1. CASE t = s
    <3>1. Unanswered(c, s)[t] = Tail(requests[c][t])
      BY <1>2, <2>1
    <3> QED
      BY <1>3, <2>1, <3>1
  <2>2. CASE t # s
    <3>1. Unanswered(c, s)[t] = requests[c][t]
      BY <1>2, <2>2
    <3> QED
      BY <3>1
  <2> QED
    BY <2>1, <2>2
<1> QED
  BY <1>2, <1>4, <1>5

\* Every handling of an answer takes it from the connection and lets the next
\* request go.
LEMMA AnswerConsumes ==
  ASSUME SocketInv, NEW c \in Client, NEW s \in Server, HandleAnswer(c, s)
  PROVE  Consumes(c, s)
<1>1. /\ answers[c][s] # None
      /\ answers' = [answers EXCEPT ![c][s] = None]
      /\ UNCHANGED <<submitted, serving, outgoing, cluster>>
  BY DEF HandleAnswer, IgnoreAnswer, ProcessCollectiveReply,
         ProcessSingleReply, Receive
<1>2. requests[c][s] # <<>> /\ requests \in [Client -> [Server -> Seq(Request)]]
  BY <1>1 DEF SocketInv, SocketsAlternate, TypeOK
<1> DEFINE left == Unanswered(c, s)
<1>3. /\ left \in [Server -> Seq(Request)]
      /\ \A t \in Server : t # s => left[t] = requests[c][t]
      /\ \A t \in Server : \A i \in DOMAIN left[t] :
           \E j \in DOMAIN requests[c][t] : left[t][i] = requests[c][t][j]
  BY <1>2, UnansweredType DEF SocketInv
<1> HIDE DEF left
<1>4. CASE requests' = [requests EXCEPT ![c] = left]
  <2>1. requests' \in [Client -> [Server -> Seq(Request)]]
    BY <1>2, <1>3, <1>4
  <2>2. ASSUME NEW d \in Client, NEW t \in Server
        PROVE  /\ (d # c \/ t # s) /\ requests[d][t] # <<>>
                    => requests'[d][t] # <<>>
               /\ \A i \in DOMAIN requests'[d][t] :
                    \E j \in DOMAIN requests[d][t] :
                      requests'[d][t][i] = requests[d][t][j]
    <3>1. CASE d = c
      BY <1>2, <1>3, <1>4, <3>1
    <3>2. CASE d # c
      BY <1>2, <1>4, <3>2
    <3> QED
      BY <3>1, <3>2
  <2> QED
    BY <1>1, <2>1, <2>2 DEF Consumes
<1>5. CASE /\ currentOperation[c] = answers[c][s].uuid
           /\ currentOperation[c] # None
           /\ requests' = [requests EXCEPT
                             ![c] = Broadcast(left, answers[c][s].uuid)]
  <2> DEFINE u == currentOperation[c]
  <2> DEFINE g == Broadcast(left, u)
  <2>1. u \in Uuid
    BY <1>5 DEF SocketInv, TypeOK
  <2>2. /\ g \in [Server -> Seq(Request)]
        /\ \A t \in Server :
             Extends(left[t], g[t], [uuid |-> u, broadcast |-> TRUE])
    <3> HIDE DEF u
    <3> QED
      BY <1>3, <2>1, BroadcastExtends
  <2>3. requests' = [requests EXCEPT ![c] = g]
    BY <1>5
  <2>4. u # None
    BY <1>5
  <2>5. u = currentOperation[c]
    OBVIOUS
  <2> HIDE DEF g, u
  <2>6. requests' \in [Client -> [Server -> Seq(Request)]]
    BY <1>2, <2>2, <2>3
  <2>7. ASSUME NEW d \in Client, NEW t \in Server
        PROVE  /\ (d # c \/ t # s) /\ requests[d][t] # <<>>
                    => requests'[d][t] # <<>>
               /\ \A i \in DOMAIN requests'[d][t] :
                    \/ requests'[d][t][i].uuid = currentOperation[d]
                       /\ currentOperation[d] # None
                    \/ \E j \in DOMAIN requests[d][t] :
                         requests'[d][t][i] = requests[d][t][j]
    <3>1. CASE d = c
      <4>1. requests'[d][t] = g[t]
        BY <1>2, <2>3, <3>1
      <4>2. t # s /\ requests[c][t] # <<>> => g[t] # <<>>
        BY <1>3, <2>2 DEF Extends
      <4>3. ASSUME NEW i \in DOMAIN g[t]
            PROVE  \/ g[t][i].uuid = u
                   \/ \E j \in DOMAIN requests[c][t] : g[t][i] = requests[c][t][j]
        <5>1. CASE g[t][i] = [uuid |-> u, broadcast |-> TRUE]
          BY <5>1
        <5>2. CASE \E j \in DOMAIN left[t] : g[t][i] = left[t][j]
          BY <1>3, <5>2
        <5> QED
          BY <2>2, <5>1, <5>2 DEF Extends
      <4> QED
        BY <2>4, <2>5, <3>1, <4>1, <4>2, <4>3
    <3>2. CASE d # c
      BY <1>2, <2>3, <3>2
    <3> QED
      BY <3>1, <3>2
  <2> QED
    BY <1>1, <2>6, <2>7 DEF Consumes
<1>6. answers[c][s].uuid \in Uuid
  BY <1>1 DEF SocketInv, TypeOK, Answer
<1> QED
  BY <1>4, <1>5, <1>6, NoneType
     DEF HandleAnswer, IgnoreAnswer, ProcessCollectiveReply,
         ProcessSingleReply, AnswersCurrent, left

\* Whichever way an answer is handled, the operation in course ends so.
LEMMA AnswerConcludes ==
  ASSUME SocketInv, NEW c \in Client, NEW s \in Server, HandleAnswer(c, s)
  PROVE  Concludes(c, s)
<1> DEFINE a == answers[c][s]
<1>1. CASE IgnoreAnswer(c, s)
  BY <1>1 DEF IgnoreAnswer, Concludes, program
<1>2. CASE ProcessCollectiveReply(c, s)
  BY <1>2 DEF ProcessCollectiveReply, AnswersCurrent, Concludes
<1>3. CASE ProcessSingleReply(c, s)
  <2> DEFINE known == [currentReplies[c] EXCEPT ![s] = a.result]
  <2> DEFINE u == currentOperation[c]
  <2> DEFINE threshold == ClientOf(c)!ConsensusThreshold(u[2])
  <2> DEFINE enough == ClientOf(c)!EnoughMatchingReplies(known, threshold)
  <2>1. /\ u = a.uuid /\ a.type = "SingleReply" /\ a # None
        /\ \/ \E v \in enough : ResolveCurrentOperation(c, v, None)
           \/ /\ currentReplies' = [currentReplies EXCEPT ![c] = known]
              /\ UNCHANGED <<currentOperation, accepted>>
           \/ /\ currentReplies' = [currentReplies EXCEPT ![c] = NoReplies]
              /\ UNCHANGED <<currentOperation, accepted>>
    BY <1>3 DEF ProcessSingleReply, AnswersCurrent, Receive
  <2>2. u \in Uuid
    BY <2>1 DEF SocketInv, TypeOK, Answer
  <2>3. u[1] = c /\ u = <<c, u[2]>> /\ u[2] \in DOMAIN Commands[c]
    BY <2>2, UuidType, NoneType DEF SocketInv, CurrentIsLast
  <2>4. threshold = ThresholdOf(u)
    <3> HIDE DEF u
    <3> QED
      BY <2>3 DEF ThresholdOf, UpperBoundThreshold,
         ClientOf!ConsensusThreshold, ClientOf!ReadOpConsensusThreshold,
         ClientOf!WriteOpConsensusThreshold
  <2>5. ASSUME NEW v \in enough
        PROVE  /\ v \in Int /\ Telling(c, s, v) # {}
               /\ Cardinality(Telling(c, s, v)) >= threshold
    <3>1. a \in Answer /\ currentReplies[c] \in [Server -> {None} \cup Int]
      BY <2>1 DEF SocketInv, TypeOK
    <3>2. \A t \in Server : known[t] \in {None} \cup Int
      BY <3>1 DEF Answer
    <3>3. Telling(c, s, v) = {t \in Server : known[t] = v}
      BY DEF Telling
    <3> HIDE DEF threshold, known
    <3>4. /\ v \in {known[t] : t \in Server} \ {None}
          /\ Cardinality({t \in Server : known[t] = v}) >= threshold
      BY DEF ClientOf!EnoughMatchingReplies, ClientOf!Matching, ClientOf!Told,
             ClientOf!Votes, ClientOf!Server, Server, ClientOf!Cardinality,
             Cardinality
    <3> QED
      BY <3>2, <3>3, <3>4
  <2>6. [currentReplies EXCEPT ![c] = known]
          = [currentReplies EXCEPT ![c][s] = a.result]
    BY DEF SocketInv, TypeOK
  <2> HIDE DEF known, threshold, enough
  <2> QED
    BY <2>1, <2>4, <2>5, <2>6 DEF Concludes
<1> QED
  BY <1>1, <1>2, <1>3 DEF HandleAnswer

\* The request that a socket has taken is one of the connection's.
LEMMA TakenType ==
  ASSUME SocketInv, NEW s \in Server, NEW c \in Client, Take(s, c)
  PROVE  /\ TakenUuid(s, c) \in Uuid /\ Head(requests[c][s]) \in Request
         /\ Head(requests[c][s]).uuid = TakenUuid(s, c)
         /\ 1 \in DOMAIN requests[c][s]
         /\ requests[c][s][1] = Head(requests[c][s])
<1>1. requests[c][s] \in Seq(Request) /\ requests[c][s] # <<>>
  BY DEF Take, SocketInv, TypeOK
<1>2. /\ Head(requests[c][s]) \in Request
      /\ 1 \in DOMAIN requests[c][s]
      /\ requests[c][s][1] = Head(requests[c][s])
  BY <1>1, TailType
<1> QED
  BY <1>2 DEF TakenUuid, Request

\* What becomes of the operation in course is well typed.
LEMMA ConcludesType ==
  ASSUME SocketInv, NEW c \in Client, NEW s \in Server, answers[c][s] # None,
         Concludes(c, s)
  PROVE  /\ currentOperation' \in [Client -> Uuid \cup {None}]
         /\ currentReplies' \in [Client -> [Server -> {None} \cup Int]]
         /\ accepted' \in [Client -> Seq([uuid : Uuid, result : Int,
                                          by : {None} \cup Server])]
<1> DEFINE a == answers[c][s]
<1>1. a \in Answer
  BY DEF SocketInv, TypeOK
<1>2. /\ currentOperation \in [Client -> Uuid \cup {None}]
      /\ currentReplies \in [Client -> [Server -> {None} \cup Int]]
      /\ accepted \in [Client -> Seq([uuid : Uuid, result : Int,
                                      by : {None} \cup Server])]
  BY DEF SocketInv, TypeOK
<1>3. NoReplies \in [Server -> {None} \cup Int]
  BY DEF NoReplies
<1>4. a.result \in Int /\ a.uuid \in Uuid
  BY <1>1 DEF Answer
<1> HIDE DEF a
<1>5. ASSUME NEW v \in Int, NEW by \in {None} \cup Server,
             ResolveCurrentOperation(c, v, by), currentOperation[c] = a.uuid
      PROVE  /\ currentOperation' \in [Client -> Uuid \cup {None}]
             /\ currentReplies' \in [Client -> [Server -> {None} \cup Int]]
             /\ accepted' \in [Client -> Seq([uuid : Uuid, result : Int,
                                              by : {None} \cup Server])]
  <2> DEFINE x == [uuid |-> currentOperation[c], result |-> v, by |-> by]
  <2>1. x \in [uuid : Uuid, result : Int, by : {None} \cup Server]
    BY <1>4, <1>5
  <2>2. /\ currentOperation' = [currentOperation EXCEPT ![c] = None]
        /\ currentReplies' = [currentReplies EXCEPT ![c] = NoReplies]
        /\ accepted' = [accepted EXCEPT ![c] = Append(@, x)]
    BY <1>5 DEF ResolveCurrentOperation
  <2> DEFINE A == [uuid : Uuid, result : Int, by : {None} \cup Server]
  <2>3. x \in A /\ accepted \in [Client -> Seq(A)]
    BY <1>2, <2>1
  <2> HIDE DEF x, A
  <2>4. Append(accepted[c], x) \in Seq(A)
    BY <2>3, AppendType
  <2>5. accepted' \in [Client -> Seq(A)]
    BY <2>2, <2>3, <2>4
  <2>6. /\ currentOperation' \in [Client -> Uuid \cup {None}]
        /\ currentReplies' \in [Client -> [Server -> {None} \cup Int]]
    BY <1>2, <1>3, <2>2
  <2> QED
    BY <2>5, <2>6 DEF A
<1>6. CASE UNCHANGED <<currentOperation, currentReplies, accepted>>
  BY <1>2, <1>6
<1>7. CASE /\ currentReplies' = [currentReplies EXCEPT ![c] = NoReplies]
           /\ UNCHANGED <<currentOperation, accepted>>
  BY <1>2, <1>3, <1>7
<1>8. CASE /\ currentReplies' = [currentReplies EXCEPT ![c][s] = a.result]
           /\ UNCHANGED <<currentOperation, accepted>>
  BY <1>2, <1>4, <1>8
<1> QED
  BY <1>4, <1>5, <1>6, <1>7, <1>8 DEF Concludes, a

\* Handling an answer preserves the invariant of the sockets.
LEMMA HandleAnswerSockets ==
  ASSUME SocketInv, NEW c \in Client, NEW s \in Server, HandleAnswer(c, s)
  PROVE  SocketInv'
<1>1. Consumes(c, s) /\ Concludes(c, s)
  BY AnswerConsumes, AnswerConcludes
<1>2. /\ answers[c][s] # None
      /\ answers' = [answers EXCEPT ![c][s] = None]
      /\ UNCHANGED <<submitted, serving, outgoing, cluster>>
      /\ requests' \in [Client -> [Server -> Seq(Request)]]
      /\ \A d \in Client, t \in Server :
           (d # c \/ t # s) /\ requests[d][t] # <<>> => requests'[d][t] # <<>>
  BY <1>1 DEF Consumes
<1>3. answers[c][s] \in Answer
  BY <1>2 DEF SocketInv, TypeOK
<1>4. /\ currentLeaderId' \in [Client -> Server]
      /\ broadcasts' \in [Uuid -> Nat]
  <2>1. answers[c][s].uuid \in Uuid
    BY <1>3 DEF Answer
  <2>2. \/ UNCHANGED currentLeaderId
        \/ currentLeaderId' = [currentLeaderId EXCEPT ![c] = s]
    BY DEF HandleAnswer, IgnoreAnswer, ProcessCollectiveReply,
           ProcessSingleReply, program
  <2>3. \/ UNCHANGED broadcasts
        \/ broadcasts' = [broadcasts EXCEPT
                            ![answers[c][s].uuid] = IF @ = 0 THEN 1 ELSE @]
    BY DEF HandleAnswer, IgnoreAnswer, ProcessCollectiveReply,
           ProcessSingleReply, program
  <2>4. /\ currentLeaderId \in [Client -> Server]
        /\ broadcasts \in [Uuid -> Nat]
    BY DEF SocketInv, TypeOK
  <2>5. broadcasts[answers[c][s].uuid] \in Nat
    BY <2>1, <2>4
  <2> QED
    BY <2>2, <2>3, <2>4, <2>5
<1>5. TypeOK'
  <2>1. answers' \in [Client -> [Server -> Answer \cup {None}]]
    BY <1>2 DEF SocketInv, TypeOK
  <2>2. /\ currentOperation' \in [Client -> Uuid \cup {None}]
        /\ currentReplies' \in [Client -> [Server -> {None} \cup Int]]
        /\ accepted' \in [Client -> Seq([uuid : Uuid, result : Int,
                                         by : {None} \cup Server])]
    BY <1>1, <1>2, ConcludesType
  <2> QED
    BY <1>2, <1>4, <2>1, <2>2 DEF SocketInv, TypeOK, cluster
<1>6. SocketsAlternate'
  <2> SUFFICES ASSUME NEW d \in Client, NEW t \in Server
               PROVE  /\ serving'[t] = d \/ answers'[d][t] # None
                           => requests'[d][t] # <<>>
                      /\ serving'[t] = d => answers'[d][t] = None
    BY DEF SocketsAlternate
  <2>1. CASE d = c /\ t = s
    <3>1. answers'[d][t] = None
      BY <1>2, <2>1 DEF SocketInv, TypeOK
    <3>2. serving'[t] # d
      BY <1>2, <2>1 DEF SocketInv, SocketsAlternate
    <3> QED
      BY <3>1, <3>2
  <2>2. CASE d # c \/ t # s
    <3>1. answers'[d][t] = answers[d][t] /\ serving'[t] = serving[t]
      BY <1>2, <2>2 DEF SocketInv, TypeOK
    <3>2. requests[d][t] # <<>> => requests'[d][t] # <<>>
      BY <1>2, <2>2
    <3> QED
      BY <3>1, <3>2 DEF SocketInv, SocketsAlternate
  <2> QED
    BY <2>1, <2>2
<1>7. InitsAreWrites'
  BY <1>2 DEF cluster, SocketInv, InitsAreWrites
<1>8. CurrentIsLast'
  <2> SUFFICES ASSUME NEW d \in Client
               PROVE  /\ currentOperation'[d] # None
                           => currentOperation'[d] = <<d, submitted'[d]>>
                      /\ currentOperation'[d] = None
                           => currentReplies'[d] = NoReplies
    BY DEF CurrentIsLast
  <2>1. /\ currentOperation[d] # None
             => currentOperation[d] = <<d, submitted[d]>>
        /\ currentOperation[d] = None => currentReplies[d] = NoReplies
        /\ submitted'[d] = submitted[d]
    BY <1>2 DEF SocketInv, CurrentIsLast
  <2>2. /\ currentOperation'[d] \in {currentOperation[d], None}
        /\ d # c => /\ currentOperation'[d] = currentOperation[d]
                    /\ currentReplies'[d] = currentReplies[d]
    BY <1>1 DEF SocketInv, TypeOK, Concludes, ResolveCurrentOperation
  <2>3. currentOperation'[c] = None => currentReplies'[c] = NoReplies
    <3>1. CASE UNCHANGED <<currentOperation, currentReplies>>
      BY <3>1 DEF SocketInv, CurrentIsLast
    <3>2. CASE currentReplies' = [currentReplies EXCEPT ![c] = NoReplies]
      BY <3>2 DEF SocketInv, TypeOK
    <3>3. CASE /\ currentOperation[c] = answers[c][s].uuid
               /\ UNCHANGED currentOperation
      BY <1>3, <3>3, NoneType DEF Answer
    <3> QED
      BY <1>1, <3>1, <3>2, <3>3 DEF Concludes, ResolveCurrentOperation
  <2> QED
    BY <2>1, <2>2, <2>3
<1> QED
  BY <1>5, <1>6, <1>7, <1>8 DEF SocketInv

\* A further command is the operation in course, and requested once more.
LEMMA SendCommandSockets ==
  ASSUME SocketInv, NEW c \in Client, SendCommand(c)
  PROVE  LET u == <<c, submitted[c] + 1>>
         IN  /\ u \in Uuid
             /\ requests' \in [Client -> [Server -> Seq(Request)]]
             /\ \A d \in Client, t \in Server :
                  /\ requests[d][t] # <<>> => requests'[d][t] # <<>>
                  /\ \A i \in DOMAIN requests'[d][t] :
                       \/ requests'[d][t][i].uuid = u
                       \/ \E j \in DOMAIN requests[d][t] :
                            requests'[d][t][i] = requests[d][t][j]
             /\ SocketInv'
<1> DEFINE u == <<c, submitted[c] + 1>>
<1> DEFINE l == currentLeaderId[c]
<1> DEFINE q == [uuid |-> u, broadcast |-> broadcasts[u] > 0]
<1>1. /\ currentOperation[c] = None
      /\ submitted' = [submitted EXCEPT ![c] = @ + 1]
      /\ currentOperation' = [currentOperation EXCEPT ![c] = u]
      /\ requests' = [requests EXCEPT ![c][l] = Queued(@, q)]
      /\ UNCHANGED <<currentLeaderId, broadcasts, currentReplies, accepted,
                     serving, outgoing, answers, cluster>>
  BY DEF SendCommand, Unicast
<1>2. u \in Uuid
  <2>1. submitted[c] \in Nat /\ Len(Commands[c]) \in Nat
    BY ServiceAssumption DEF SocketInv, TypeOK
  <2>2. submitted[c] + 1 \in Nat /\ 1 <= submitted[c] + 1
        /\ submitted[c] + 1 <= Len(Commands[c])
    BY <2>1 DEF SendCommand
  <2> QED
    BY <2>2, CommandUuid
<1>3. q \in Request
  BY <1>2 DEF Request
<1>4. l \in Server /\ requests \in [Client -> [Server -> Seq(Request)]]
  BY DEF SocketInv, TypeOK
<1>5. Extends(requests[c][l], Queued(requests[c][l], q), q)
  <2> HIDE DEF q, l
  <2> QED
    BY <1>3, <1>4, QueuedExtends
<1>6. requests' \in [Client -> [Server -> Seq(Request)]]
  <2> HIDE DEF q, l
  <2> QED
    BY <1>1, <1>4, <1>5 DEF Extends
<1>7. ASSUME NEW d \in Client, NEW t \in Server
      PROVE  /\ requests[d][t] # <<>> => requests'[d][t] # <<>>
             /\ \A i \in DOMAIN requests'[d][t] :
                  \/ requests'[d][t][i].uuid = u
                  \/ \E j \in DOMAIN requests[d][t] :
                       requests'[d][t][i] = requests[d][t][j]
  <2>0. q.uuid = u
    OBVIOUS
  <2> HIDE DEF q, l, u
  <2>1. CASE d = c /\ t = l
    <3>1. requests'[d][t] = Queued(requests[c][l], q)
      BY <1>1, <1>4, <2>1
    <3>2. ASSUME NEW i \in DOMAIN requests'[d][t]
          PROVE  \/ requests'[d][t][i].uuid = u
                 \/ \E j \in DOMAIN requests[d][t] :
                      requests'[d][t][i] = requests[d][t][j]
      BY <1>5, <2>0, <2>1, <3>1 DEF Extends
    <3> QED
      BY <1>5, <2>1, <3>1, <3>2 DEF Extends
  <2>2. CASE d # c \/ t # l
    <3>1. requests'[d][t] = requests[d][t]
      BY <1>1, <1>4, <2>2
    <3> QED
      BY <3>1
  <2> QED
    BY <2>1, <2>2
<1>8. TypeOK'
  <2> HIDE DEF u, q, l
  <2>1. /\ submitted' \in [Client -> Nat]
        /\ currentOperation' \in [Client -> Uuid \cup {None}]
    BY <1>1, <1>2 DEF SocketInv, TypeOK
  <2> QED
    BY <1>1, <1>6, <2>1 DEF SocketInv, TypeOK, cluster
<1>9. SocketsAlternate'
  BY <1>1, <1>7 DEF SocketInv, SocketsAlternate
<1>10. CurrentIsLast'
  <2> SUFFICES ASSUME NEW d \in Client
               PROVE  /\ currentOperation'[d] # None
                           => currentOperation'[d] = <<d, submitted'[d]>>
                      /\ currentOperation'[d] = None
                           => currentReplies'[d] = NoReplies
    BY DEF CurrentIsLast
  <2>1. CASE d = c
    <3>1. currentOperation'[d] = u /\ submitted'[d] = submitted[c] + 1
      BY <1>1, <2>1 DEF SocketInv, TypeOK
    <3> QED
      BY <1>2, <2>1, <3>1, NoneType
  <2>2. CASE d # c
    BY <1>1, <2>2 DEF SocketInv, TypeOK, CurrentIsLast
  <2> QED
    BY <2>1, <2>2
<1>11. InitsAreWrites'
  BY <1>1 DEF cluster, SocketInv, InitsAreWrites
<1> QED
  BY <1>2, <1>6, <1>7, <1>8, <1>9, <1>10, <1>11 DEF SocketInv

\* An operation whose timer expires is requested of all.
LEMMA TimerExpirationSockets ==
  ASSUME SocketInv, NEW c \in Client, TimerExpiration(c)
  PROVE  LET u == currentOperation[c]
         IN  /\ u \in Uuid
             /\ \A d \in Client, t \in Server :
                  \A i \in DOMAIN requests'[d][t] :
                    \/ requests'[d][t][i].uuid = u
                    \/ \E j \in DOMAIN requests[d][t] :
                         requests'[d][t][i] = requests[d][t][j]
             /\ SocketInv'
<1> DEFINE u == currentOperation[c]
<1> DEFINE g == Broadcast(requests[c], u)
<1>1. /\ u # None
      /\ requests' = [requests EXCEPT ![c] = g]
      /\ broadcasts' = [broadcasts EXCEPT ![u] = @ + 1]
      /\ \E s \in Contact[c] :
           currentLeaderId' = [currentLeaderId EXCEPT ![c] = s]
      /\ UNCHANGED <<submitted, currentOperation, currentReplies, accepted,
                     serving, outgoing, answers, cluster>>
  BY DEF TimerExpiration
<1>2. u \in Uuid
  BY <1>1 DEF SocketInv, TypeOK
<1>3. requests \in [Client -> [Server -> Seq(Request)]]
  BY DEF SocketInv, TypeOK
<1>4. /\ g \in [Server -> Seq(Request)]
      /\ \A t \in Server :
           Extends(requests[c][t], g[t], [uuid |-> u, broadcast |-> TRUE])
  <2> HIDE DEF u
  <2> QED
    BY <1>2, <1>3, BroadcastExtends
<1> HIDE DEF u, g
<1>5. ASSUME NEW d \in Client, NEW t \in Server
      PROVE  /\ requests[d][t] # <<>> => requests'[d][t] # <<>>
             /\ \A i \in DOMAIN requests'[d][t] :
                  \/ requests'[d][t][i].uuid = u
                  \/ \E j \in DOMAIN requests[d][t] :
                       requests'[d][t][i] = requests[d][t][j]
  <2>1. CASE d = c
    <3>1. requests'[d][t] = g[t]
      BY <1>1, <1>3, <2>1
    <3>2. ASSUME NEW i \in DOMAIN g[t]
          PROVE  \/ g[t][i].uuid = u
                 \/ \E j \in DOMAIN requests[c][t] : g[t][i] = requests[c][t][j]
      <4>1. CASE g[t][i] = [uuid |-> u, broadcast |-> TRUE]
        BY <4>1
      <4> QED
        BY <1>4, <4>1 DEF Extends
    <3> QED
      BY <1>4, <2>1, <3>1, <3>2 DEF Extends
  <2>2. CASE d # c
    <3>1. requests'[d][t] = requests[d][t]
      BY <1>1, <1>3, <2>2
    <3> QED
      BY <3>1
  <2> QED
    BY <2>1, <2>2
<1>6. TypeOK'
  <2>1. requests' \in [Client -> [Server -> Seq(Request)]]
    BY <1>1, <1>3, <1>4
  <2>2. broadcasts' \in [Uuid -> Nat]
    <3>1. broadcasts \in [Uuid -> Nat] /\ broadcasts[u] + 1 \in Nat
      BY <1>2 DEF SocketInv, TypeOK
    <3> QED
      BY <1>1, <3>1
  <2>3. currentLeaderId' \in [Client -> Server]
    <3>1. Contact[c] \subseteq Server
      BY ServiceAssumption
    <3> QED
      BY <1>1, <3>1 DEF SocketInv, TypeOK
  <2> QED
    BY <1>1, <2>1, <2>2, <2>3 DEF SocketInv, TypeOK, cluster
<1>7. SocketsAlternate'
  BY <1>1, <1>5 DEF SocketInv, SocketsAlternate
<1>8. CurrentIsLast' /\ InitsAreWrites'
  BY <1>1 DEF cluster, SocketInv, CurrentIsLast, InitsAreWrites
<1> QED
  BY <1>2, <1>5, <1>6, <1>7, <1>8 DEF SocketInv, u
\* What a server keeps as the last operation of a client, it has executed.
LEMMA LastOpType ==
  ASSUME TypeOK, NEW s \in Server, NEW b \in LastOps(s)
  PROVE  b \in Block /\ b \in Range(log[s]) /\ s \in Executors(b.uuid, b.result)
<1>1. PICK i \in DOMAIN log[s] : b = log[s][i]
  BY DEF LastOps
<1>2. log[s] \in Seq(Block)
  BY DEF TypeOK
<1>3. b \in Block /\ b \in Range(log[s])
  BY <1>1, <1>2 DEF Range
<1>4. b = [uuid |-> b.uuid, result |-> b.result]
  BY <1>3 DEF Block
<1> QED
  BY <1>3, <1>4 DEF Executors

\* The single reply of a server is an answer.
LEMMA SingleReplyType ==
  ASSUME NEW s \in Server, NEW u \in Uuid, NEW v \in Int
  PROVE  SingleReply(s, u, v) \in Answer
BY DEF SingleReply, Answer

\* An answer given to a socket is one more that it has to send.
LEMMA OutgoingType ==
  ASSUME TypeOK, NEW s \in Server, NEW a \in Answer,
         outgoing' = [outgoing EXCEPT ![s] = Append(@, a)]
  PROVE  /\ outgoing' \in [Server -> Seq(Answer)]
         /\ \A t \in Server : \A i \in DOMAIN outgoing'[t] :
              \/ t = s /\ outgoing'[t][i] = a
              \/ i \in DOMAIN outgoing[t] /\ outgoing'[t][i] = outgoing[t][i]
<1>1. outgoing \in [Server -> Seq(Answer)]
  BY DEF TypeOK
<1>2. /\ Append(outgoing[s], a) \in Seq(Answer)
      /\ \A i \in DOMAIN Append(outgoing[s], a) :
           \/ Append(outgoing[s], a)[i] = a
           \/ /\ i \in DOMAIN outgoing[s]
              /\ Append(outgoing[s], a)[i] = outgoing[s][i]
  BY <1>1, AppendType
<1>3. outgoing'[s] = Append(outgoing[s], a)
      /\ \A t \in Server : t # s => outgoing'[t] = outgoing[t]
  BY <1>1
<1>4. outgoing' \in [Server -> Seq(Answer)]
  BY <1>1, <1>2
<1>5. \A t \in Server : \A i \in DOMAIN outgoing'[t] :
        \/ t = s /\ outgoing'[t][i] = a
        \/ i \in DOMAIN outgoing[t] /\ outgoing'[t][i] = outgoing[t][i]
  <2> TAKE t \in Server
  <2>1. CASE t = s
    BY <1>2, <1>3, <2>1
  <2>2. CASE t # s
    BY <1>3, <2>2
  <2> QED
    BY <2>1, <2>2
<1> QED
  BY <1>4, <1>5

\* What a server takes up or goes on with is a machine.
LEMMA MachineType ==
  ASSUME SocketInv, NEW s \in Server
  PROVE  /\ \A u \in Uuid :
              SM!ExecuteOperation(machine[s], u, CommandOf(u)) \in SM!Machine
         /\ machine[s].awaiting # <<>> =>
              /\ SM!Resume(machine[s]) \in SM!Machine
              /\ SM!Dequeue(machine[s]) \in SM!Machine
              /\ SM!Answered(machine[s]).uuid \in Uuid
              /\ SM!Answered(machine[s]).value \in Int
<1>1. machine[s] \in SM!Machine
  BY DEF SocketInv, TypeOK
<1>2. ASSUME NEW u \in Uuid
      PROVE  SM!ExecuteOperation(machine[s], u, CommandOf(u)) \in SM!Machine
  BY <1>1, UuidType, ExecuteIssues DEF Issues
<1> QED
  BY <1>1, <1>2, ResumeIssues, DequeueType DEF Issues, SM!Await

\* Taking a request preserves the invariant of the sockets.
LEMMA HandleRequestSockets ==
  ASSUME SocketInv, NEW s \in Server, NEW c \in Client, HandleRequest(s, c)
  PROVE  SocketInv'
<1> DEFINE u == TakenUuid(s, c)
<1>1. /\ Take(s, c)
      /\ serving[s] = None /\ requests[c][s] # <<>> /\ answers[c][s] = None
      /\ serving' = [serving EXCEPT ![s] = c]
      /\ UNCHANGED <<program, requests, answers, delivered, log, replies>>
  BY DEF HandleRequest, DiscardRequest, AnswerLastOp, ExecuteRead,
         BroadcastInit, TakeOperation, Take
<1>2. /\ u \in Uuid /\ Head(requests[c][s]) \in Request
      /\ Head(requests[c][s]).uuid = u
  BY <1>1, TakenType
<1> HIDE DEF u
<1>3. /\ inits' \subseteq Request /\ InitsAreWrites'
  <2>1. CASE inits' = inits
    BY <2>1 DEF SocketInv, TypeOK, InitsAreWrites
  <2>2. CASE /\ Kind(u) = "write"
             /\ inits' = inits \cup {Head(requests[c][s])}
    BY <1>2, <2>2 DEF SocketInv, TypeOK, InitsAreWrites, Writes
  <2> QED
    BY <2>1, <2>2 DEF HandleRequest, DiscardRequest, AnswerLastOp, ExecuteRead,
                      BroadcastInit, u
<1>4. machine' \in [Server -> SM!Machine]
  <2>1. SM!ExecuteOperation(machine[s], u, CommandOf(u)) \in SM!Machine
        /\ machine \in [Server -> SM!Machine]
    BY <1>2, MachineType DEF SocketInv, TypeOK
  <2>2. \/ machine' = machine
        \/ machine' = [machine EXCEPT
             ![s] = SM!ExecuteOperation(@, u, CommandOf(u))]
    BY DEF HandleRequest, DiscardRequest, AnswerLastOp, ExecuteRead,
           BroadcastInit, Executing, u
  <2> QED
    BY <2>1, <2>2
<1>5. outgoing' \in [Server -> Seq(Answer)]
  <2>1. CASE outgoing' = outgoing
    BY <2>1 DEF SocketInv, TypeOK
  <2>2. ASSUME NEW b \in LastOps(s),
               outgoing' = [outgoing EXCEPT
                 ![s] = Append(@, SingleReply(s, b.uuid, b.result))]
        PROVE  outgoing' \in [Server -> Seq(Answer)]
    <3>1. SingleReply(s, b.uuid, b.result) \in Answer
      BY LastOpType, SingleReplyType DEF SocketInv, Block
    <3> QED
      BY <2>2, <3>1, OutgoingType DEF SocketInv
  <2> QED
    BY <2>1, <2>2 DEF HandleRequest, DiscardRequest, AnswerLastOp, ExecuteRead,
                      BroadcastInit
<1>6. TypeOK'
  <2>1. serving' \in [Server -> Client \cup {None}]
    BY <1>1 DEF SocketInv, TypeOK
  <2> QED
    BY <1>1, <1>3, <1>4, <1>5, <2>1 DEF SocketInv, TypeOK, program
<1>7. SocketsAlternate'
  <2> SUFFICES ASSUME NEW d \in Client, NEW t \in Server
               PROVE  /\ serving'[t] = d \/ answers'[d][t] # None
                           => requests'[d][t] # <<>>
                      /\ serving'[t] = d => answers'[d][t] = None
    BY DEF SocketsAlternate
  <2>1. serving'[t] = IF t = s THEN c ELSE serving[t]
    BY <1>1 DEF SocketInv, TypeOK
  <2> QED
    BY <1>1, <2>1 DEF SocketInv, SocketsAlternate
<1>8. CurrentIsLast'
  BY <1>1 DEF SocketInv, CurrentIsLast, program
<1> QED
  BY <1>3, <1>6, <1>7, <1>8 DEF SocketInv

\* Only the types of the server's own variables are at stake when it executes.
LEMMA ServerSockets ==
  ASSUME SocketInv,
         UNCHANGED <<program, requests, serving, answers, inits>>,
         outgoing' \in [Server -> Seq(Answer)],
         delivered' \in [Server -> SUBSET Request],
         machine' \in [Server -> SM!Machine],
         log' \in [Server -> Seq(Block)],
         replies' \in [Server -> [Writes -> [Server -> {None} \cup Int]]]
  PROVE  SocketInv'
<1>1. TypeOK'
  BY DEF SocketInv, TypeOK, program
<1>2. SocketsAlternate' /\ CurrentIsLast' /\ InitsAreWrites'
  BY DEF SocketInv, SocketsAlternate, CurrentIsLast, InitsAreWrites, program
<1> QED
  BY <1>1, <1>2 DEF SocketInv

\* A server begins to execute a write, or goes on.
LEMMA MachineSockets ==
  ASSUME SocketInv, NEW s \in Server,
         ExecutionResumes(s) \/ \E q \in inits : Accept(s, q)
  PROVE  SocketInv'
<1>1. CASE ExecutionResumes(s)
  <2>1. /\ machine[s].awaiting # <<>>
        /\ machine' = [machine EXCEPT ![s] = SM!Resume(@)]
        /\ UNCHANGED <<program, requests, serving, outgoing, answers, inits,
                       delivered, log, replies>>
    BY <1>1 DEF ExecutionResumes, IsAnswered
  <2>2. machine' \in [Server -> SM!Machine]
    BY <2>1, MachineType DEF SocketInv, TypeOK
  <2> QED
    BY <2>1, <2>2, ServerSockets DEF SocketInv, TypeOK
<1>2. ASSUME NEW q \in inits, Accept(s, q) PROVE SocketInv'
  <2>1. /\ delivered' = [delivered EXCEPT ![s] = @ \cup {q}]
        /\ machine' = [machine EXCEPT
             ![s] = SM!ExecuteOperation(@, q.uuid, CommandOf(q.uuid))]
        /\ UNCHANGED <<program, requests, serving, outgoing, answers, inits,
                       log, replies>>
    BY <1>2 DEF Accept, Executing
  <2>2. q \in Request /\ q.uuid \in Uuid
    BY DEF SocketInv, TypeOK, Request
  <2>3. /\ machine' \in [Server -> SM!Machine]
        /\ delivered' \in [Server -> SUBSET Request]
    BY <2>1, <2>2, MachineType DEF SocketInv, TypeOK
  <2> QED
    BY <2>1, <2>3, ServerSockets DEF SocketInv, TypeOK
<1> QED
  BY <1>1, <1>2

\* A result is given to the socket, or appended to the log.
LEMMA ExecutionCompletesSockets ==
  ASSUME SocketInv, NEW s \in Server, ExecutionCompletes(s)
  PROVE  SocketInv'
<1> DEFINE a == SM!Answered(machine[s])
<1>1. /\ machine[s].awaiting # <<>>
      /\ machine' = [machine EXCEPT ![s] = SM!Dequeue(@)]
      /\ \/ /\ outgoing' = [outgoing EXCEPT
                 ![s] = Append(@, SingleReply(s, a.uuid, a.value))]
            /\ UNCHANGED log
         \/ /\ log' = [log EXCEPT
                 ![s] = Append(@, [uuid |-> a.uuid, result |-> a.value])]
            /\ UNCHANGED outgoing
      /\ UNCHANGED <<program, requests, serving, answers, inits, delivered,
                     replies>>
  BY DEF ExecutionCompletes, IsAnswered
<1>2. a.uuid \in Uuid /\ a.value \in Int /\ SM!Dequeue(machine[s]) \in SM!Machine
  BY <1>1, MachineType
<1> HIDE DEF a
<1>3. machine' \in [Server -> SM!Machine]
  BY <1>1, <1>2 DEF SocketInv, TypeOK
<1>4. outgoing' \in [Server -> Seq(Answer)]
  BY <1>1, <1>2, SingleReplyType, OutgoingType DEF SocketInv, TypeOK
<1>5. log' \in [Server -> Seq(Block)]
  <2>1. [uuid |-> a.uuid, result |-> a.value] \in Block
    BY <1>2 DEF Block
  <2>2. log \in [Server -> Seq(Block)]
    BY DEF SocketInv, TypeOK
  <2>3. Append(log[s], [uuid |-> a.uuid, result |-> a.value]) \in Seq(Block)
    BY <2>1, <2>2, AppendType
  <2> QED
    BY <1>1, <2>2, <2>3
<1> QED
  BY <1>1, <1>3, <1>4, <1>5, ServerSockets DEF SocketInv, TypeOK

\* The first of the answers given to a socket answers the request it has taken.
LEMMA SendAnswerSockets ==
  ASSUME SocketInv, NEW s \in Server, SendAnswer(s)
  PROVE  /\ SocketInv'
         /\ outgoing[s] # <<>> /\ outgoing[s] \in Seq(Answer)
         /\ \A c \in Client, t \in Server :
              \/ answers'[c][t] = answers[c][t]
              \/ t = s /\ answers'[c][t] = Head(outgoing[s])
         /\ outgoing' = [outgoing EXCEPT ![s] = Tail(@)]
         /\ UNCHANGED <<program, requests, cluster>>
<1> DEFINE c == serving[s]
<1>1. /\ c # None /\ outgoing[s] # <<>>
      /\ answers' = [answers EXCEPT ![c][s] = Head(outgoing[s])]
      /\ outgoing' = [outgoing EXCEPT ![s] = Tail(@)]
      /\ serving' = [serving EXCEPT ![s] = None]
      /\ UNCHANGED <<program, requests, cluster>>
  BY DEF SendAnswer
<1>2. /\ c \in Client /\ outgoing \in [Server -> Seq(Answer)]
      /\ serving \in [Server -> Client \cup {None}]
      /\ answers \in [Client -> [Server -> Answer \cup {None}]]
  BY <1>1 DEF SocketInv, TypeOK
<1>3. requests[c][s] # <<>>
  BY <1>2 DEF SocketInv, SocketsAlternate
<1>4. Head(outgoing[s]) \in Answer /\ Tail(outgoing[s]) \in Seq(Answer)
  BY <1>1, <1>2, TailType
<1> HIDE DEF c
<1>5. TypeOK'
  <2>1. /\ outgoing' \in [Server -> Seq(Answer)]
        /\ serving' \in [Server -> Client \cup {None}]
        /\ answers' \in [Client -> [Server -> Answer \cup {None}]]
    BY <1>1, <1>2, <1>4
  <2> QED
    BY <1>1, <2>1 DEF SocketInv, TypeOK, program, cluster
<1>6. ASSUME NEW d \in Client, NEW t \in Server
      PROVE  /\ answers'[d][t] = IF d = c /\ t = s THEN Head(outgoing[s])
                                 ELSE answers[d][t]
             /\ serving'[t] = IF t = s THEN None ELSE serving[t]
  BY <1>1, <1>2
<1>7. SocketsAlternate'
  <2> SUFFICES ASSUME NEW d \in Client, NEW t \in Server
               PROVE  /\ serving'[t] = d \/ answers'[d][t] # None
                           => requests'[d][t] # <<>>
                      /\ serving'[t] = d => answers'[d][t] = None
    BY DEF SocketsAlternate
  <2>1. d # None
    BY ServiceAssumption
  <2> QED
    BY <1>1, <1>3, <1>6, <2>1 DEF SocketInv, SocketsAlternate
<1>8. CurrentIsLast' /\ InitsAreWrites'
  BY <1>1 DEF SocketInv, CurrentIsLast, InitsAreWrites, program, cluster
<1> QED
  BY <1>1, <1>2, <1>5, <1>6, <1>7, <1>8 DEF SocketInv

\* What a leader knows of the results of b.uuid once it has that of r.
Known(r, b) == [replies[Leader(r)][b.uuid] EXCEPT ![r] = b.result]

\* Its collective reply for those of them that match.
Collective(r, b) ==
  [type |-> "CollectiveReply", from |-> Leader(r), uuid |-> b.uuid,
   result |-> b.result, acknowledgments |-> Signers(Known(r, b), b.result)]

\* The leader gathers a result, and may give its socket a collective reply.
LEMMA ReceiveSingleReplySockets ==
  ASSUME SocketInv, NEW r \in Server, NEW b \in Range(log[r]),
         ReceiveSingleReply(r, b)
  PROVE  /\ SocketInv'
         /\ b \in Block /\ Leader(r) \in Server /\ Collective(r, b) \in Answer
<1> DEFINE l == Leader(r)
<1> DEFINE a == Collective(r, b)
<1>1. /\ replies' = [replies EXCEPT ![l][b.uuid] = Known(r, b)]
      /\ \/ outgoing' = [outgoing EXCEPT ![l] = Append(@, a)]
         \/ outgoing' = outgoing
      /\ UNCHANGED <<program, requests, serving, answers, inits, delivered,
                     machine, log>>
  BY DEF ReceiveSingleReply, Collective, Known
<1>2. l \in Server /\ b \in Block
  BY LeaderType DEF SocketInv, TypeOK, Range
<1>3. a \in Answer
  <2>1. Signers(Known(r, b), b.result) \in SUBSET Server
    BY DEF Signers
  <2> HIDE DEF l
  <2> QED
    BY <1>2, <2>1 DEF Collective, Answer, Block, l
<1>4. outgoing' \in [Server -> Seq(Answer)]
  <2> HIDE DEF l, a
  <2> QED
    BY <1>1, <1>2, <1>3, OutgoingType DEF SocketInv, TypeOK
<1>5. replies' \in [Server -> [Writes -> [Server -> {None} \cup Int]]]
  <2>1. replies \in [Server -> [Writes -> [Server -> {None} \cup Int]]]
    BY DEF SocketInv, TypeOK
  <2>2. b.result \in Int
    BY <1>2 DEF Block
  <2>3. b.uuid \in Writes => Known(r, b) \in [Server -> {None} \cup Int]
    BY <1>2, <2>1, <2>2 DEF Known
  <2> HIDE DEF l
  <2> QED
    BY <1>1, <1>2, <2>1, <2>3
<1> QED
  BY <1>1, <1>2, <1>3, <1>4, <1>5, ServerSockets DEF SocketInv, TypeOK

\* Every step preserves the invariant of the sockets.
LEMMA SocketInvStep == ASSUME SocketInv, [Next]_vars PROVE SocketInv'
<1>1. ASSUME UNCHANGED vars PROVE SocketInv'
  BY <1>1 DEF SocketInv, TypeOK, SocketsAlternate, CurrentIsLast,
              InitsAreWrites, vars, program, cluster
<1> QED
  BY <1>1, HandleAnswerSockets, SendCommandSockets, TimerExpirationSockets,
     HandleRequestSockets, MachineSockets, ExecutionCompletesSockets,
     SendAnswerSockets, ReceiveSingleReplySockets
     DEF Next, Ask, Serve

-----------------------------------------------------------------------------
(* The inductive invariant: the state machines *)

\* The client of u has submitted it, by how many operations each has started.
Started(u, counts) == u[2] <= counts[u[1]]

\* A state machine executes what is requested, and stores what its writes leave.
MachinesAreConsistent ==
  \A s \in Server :
    IsFaithful(machine[s]) /\ IsConsistent(machine[s], log[s])

\* Writes alone are logged.
LogsAreWrites == \A s \in Server : \A b \in Range(log[s]) : b.uuid \in Writes

MachineInv == MachinesAreConsistent /\ LogsAreWrites

\* Nobody requests, broadcasts between the servers, executes or completes what
\* has not been submitted.
RequestsAreStarted ==
  \A c \in Client, s \in Server : \A i \in DOMAIN requests[c][s] :
    Started(requests[c][s][i].uuid, submitted)

InitsAreStarted == \A q \in inits : Started(q.uuid, submitted)

AwaitingIsStarted ==
  \A s \in Server : \A i \in DOMAIN machine[s].awaiting :
    Started(machine[s].awaiting[i].uuid, submitted)

LogIsStarted ==
  \A s \in Server : \A b \in Range(log[s]) : Started(b.uuid, submitted)

\* The steps that change something of the cluster.
LEMMA ClusterFrame ==
  ASSUME SocketInv, [Next]_vars
  PROVE  \/ UNCHANGED cluster
         \/ \E s \in Server, c \in Client : ExecuteRead(s, c) \/ BroadcastInit(s, c)
         \/ \E s \in Server, q \in inits : Accept(s, q)
         \/ \E s \in Server : ExecutionResumes(s) \/ ExecutionCompletes(s)
         \/ \E r \in Server : \E b \in Range(log[r]) : ReceiveSingleReply(r, b)
<1>1. ASSUME NEW c \in Client, NEW s \in Server, HandleAnswer(c, s)
      PROVE  UNCHANGED cluster
  BY <1>1, AnswerConsumes DEF Consumes
<1>2. ASSUME NEW c \in Client, NEW s \in Server, HandleRequest(s, c)
      PROVE  UNCHANGED cluster \/ ExecuteRead(s, c) \/ BroadcastInit(s, c)
  BY <1>2 DEF HandleRequest, DiscardRequest, AnswerLastOp, TakeOperation, Take,
              cluster
<1>3. ASSUME \/ \E c \in Client : SendCommand(c) \/ TimerExpiration(c)
             \/ \E s \in Server : SendAnswer(s)
             \/ UNCHANGED vars
      PROVE  UNCHANGED cluster
  BY <1>3 DEF SendCommand, TimerExpiration, SendAnswer, vars
<1> QED
  BY <1>1, <1>2, <1>3 DEF Next, Ask, Serve

\* A request that is taken is of an operation submitted.
LEMMA TakenIsStarted ==
  ASSUME SocketInv, RequestsAreStarted, NEW s \in Server, NEW c \in Client,
         Take(s, c)
  PROVE  Started(TakenUuid(s, c), submitted)
BY TakenType DEF RequestsAreStarted

\* The state machine of s and its log after a step: unchanged, or a command
\* more has been issued, or the first answer has come.
MachineSteps(s) ==
  LET m == machine[s]
      a == SM!Answered(m)
  IN  \/ machine'[s] = m /\ log'[s] = log[s]
      \/ \E u \in Uuid :
           /\ Kind(u) # "invalid" /\ Started(u, submitted)
           /\ Issues(m, machine'[s], u, CommandOf(u))
           /\ log'[s] = log[s]
      \/ /\ m.awaiting # <<>> /\ a.phase = "read"
         /\ Issues(SM!Dequeue(m), machine'[s], a.uuid, a.command)
         /\ log'[s] = log[s]
      \/ /\ m.awaiting # <<>> /\ a.phase = "result"
         /\ machine'[s] = SM!Dequeue(m)
         /\ Logs(m, log[s], log'[s])

\* An operation that waits is a read or a write.
LEMMA AnsweredType ==
  ASSUME SocketInv, MachineInv, NEW s \in Server, machine[s].awaiting # <<>>
  PROVE  LET a == SM!Answered(machine[s])
         IN  /\ a = machine[s].awaiting[1] /\ 1 \in DOMAIN machine[s].awaiting
             /\ a.uuid \in Uuid /\ a.value \in Int /\ a.phase \in {"read", "result"}
             /\ a.command = CommandOf(a.uuid) /\ Kind(a.uuid) \in {"read", "write"}
<1> DEFINE a == SM!Answered(machine[s])
<1>1. machine[s] \in SM!Machine
  BY DEF SocketInv, TypeOK
<1>2. a = machine[s].awaiting[1] /\ 1 \in DOMAIN machine[s].awaiting
      /\ a \in SM!Await
  BY <1>1, DequeueType
<1>3. /\ machine[s].awaiting[1].command = CommandOf(machine[s].awaiting[1].uuid)
      /\ Kind(machine[s].awaiting[1].uuid) # "invalid"
  BY <1>2 DEF MachineInv, MachinesAreConsistent, IsFaithful
<1>4. a.uuid \in Uuid /\ a.value \in Int /\ a.phase \in {"read", "result"}
  BY <1>2 DEF SM!Await
<1> QED
  BY <1>2, <1>3, <1>4, UuidType

\* Whatever a step is, the state machines take one of theirs.
LEMMA EveryMachineSteps ==
  ASSUME SocketInv, MachineInv, RequestsAreStarted, InitsAreStarted, [Next]_vars
  PROVE  \A s \in Server : MachineSteps(s)
<1> USE DEF MachineSteps
<1>1. /\ machine \in [Server -> SM!Machine]
      /\ log \in [Server -> Seq(Block)]
  BY DEF SocketInv, TypeOK
<1>2. ASSUME NEW s \in Server, NEW u \in Uuid, Kind(u) # "invalid",
             Started(u, submitted), Executing(s, u), UNCHANGED log
      PROVE  \A t \in Server : MachineSteps(t)
  <2>1. CommandOf(u) \in Command
    BY UuidType
  <2>2. Issues(machine[s], SM!ExecuteOperation(machine[s], u, CommandOf(u)), u,
               CommandOf(u))
    BY <1>1, <2>1, ExecuteIssues
  <2>3. \A t \in Server : machine'[t] =
          IF t = s THEN SM!ExecuteOperation(machine[s], u, CommandOf(u))
          ELSE machine[t]
    BY <1>1, <1>2 DEF Executing
  <2> QED
    BY <1>2, <2>2, <2>3
<1>3. ASSUME UNCHANGED <<machine, log>> PROVE \A t \in Server : MachineSteps(t)
  BY <1>3
<1>4. ASSUME NEW s \in Server, NEW c \in Client, ExecuteRead(s, c)
      PROVE  \A t \in Server : MachineSteps(t)
  <2>1. PICK u : u = TakenUuid(s, c)
    OBVIOUS
  <2>2. Take(s, c) /\ Kind(u) = "read" /\ Executing(s, u) /\ UNCHANGED log
    BY <1>4, <2>1 DEF ExecuteRead, TakeOperation, Take
  <2>3. u \in Uuid /\ Started(u, submitted)
    BY <2>1, <2>2, TakenType, TakenIsStarted
  <2> QED
    BY <1>2, <2>2, <2>3
<1>5. ASSUME NEW s \in Server, NEW q \in inits, Accept(s, q)
      PROVE  \A t \in Server : MachineSteps(t)
  <2>1. Executing(s, q.uuid) /\ UNCHANGED log
    BY <1>5 DEF Accept
  <2>2. /\ q.uuid \in Uuid /\ Kind(q.uuid) = "write"
        /\ Started(q.uuid, submitted)
    BY WriteType DEF SocketInv, InitsAreWrites, InitsAreStarted
  <2> QED
    BY <1>2, <2>1, <2>2
<1>6. ASSUME NEW s \in Server, ExecutionResumes(s)
      PROVE  \A t \in Server : MachineSteps(t)
  <2>1. /\ machine[s].awaiting # <<>> /\ SM!Answered(machine[s]).phase = "read"
        /\ machine' = [machine EXCEPT ![s] = SM!Resume(@)] /\ UNCHANGED log
    BY <1>6 DEF ExecutionResumes, IsAnswered
  <2>2. Issues(SM!Dequeue(machine[s]), SM!Resume(machine[s]),
               SM!Answered(machine[s]).uuid, SM!Answered(machine[s]).command)
    BY <1>1, <2>1, ResumeIssues
  <2>3. \A t \in Server :
          machine'[t] = IF t = s THEN SM!Resume(machine[s]) ELSE machine[t]
    BY <1>1, <2>1
  <2> QED
    BY <2>1, <2>2, <2>3
<1>7. ASSUME NEW s \in Server, ExecutionCompletes(s)
      PROVE  \A t \in Server : MachineSteps(t)
  <2> DEFINE a == SM!Answered(machine[s])
  <2>1. /\ machine[s].awaiting # <<>> /\ a.phase = "result"
        /\ machine' = [machine EXCEPT ![s] = SM!Dequeue(@)]
        /\ IF Kind(a.uuid) = "read" THEN UNCHANGED log
           ELSE log' = [log EXCEPT
                  ![s] = Append(@, [uuid |-> a.uuid, result |-> a.value])]
    BY <1>7 DEF ExecutionCompletes, IsAnswered
  <2>2. a = machine[s].awaiting[1] /\ Kind(a.uuid) \in {"read", "write"}
    BY <2>1, AnsweredType
  <2>3. Logs(machine[s], log[s], log'[s])
    BY <1>1, <2>1, <2>2 DEF Logs, IsDue
  <2>4. \A t \in Server \ {s} : machine'[t] = machine[t] /\ log'[t] = log[t]
    BY <1>1, <2>1
  <2>5. machine'[s] = SM!Dequeue(machine[s])
    BY <1>1, <2>1
  <2> QED
    BY <2>1, <2>3, <2>4, <2>5
<1>8. ASSUME \/ UNCHANGED cluster
             \/ \E s \in Server, c \in Client : BroadcastInit(s, c)
             \/ \E r \in Server : \E b \in Range(log[r]) : ReceiveSingleReply(r, b)
      PROVE  UNCHANGED <<machine, log>>
  BY <1>8 DEF cluster, BroadcastInit, TakeOperation, Take, ReceiveSingleReply
<1> HIDE DEF MachineSteps
<1> QED
  BY <1>3, <1>4, <1>5, <1>6, <1>7, <1>8, ClusterFrame

\* What holds of a state machine and its log goes on to hold.
LEMMA MachineKeeps ==
  ASSUME SocketInv, MachineInv, NEW s \in Server, MachineSteps(s)
  PROVE  /\ IsFaithful(machine'[s]) /\ IsConsistent(machine'[s], log'[s])
         /\ \A u, v : Left(log[s], u, v) => Left(log'[s], u, v)
         /\ \A u, b : /\ KeyOf(u) = KeyOf(b) /\ Kind(b) = "read"
                      /\ AwaitsAfter(machine[s], log[s], u, b)
                      => AwaitsAfter(machine'[s], log'[s], u, b)
         /\ log'[s] = log[s] \/
              \E b \in Block : /\ log'[s] = Append(log[s], b)
                               /\ machine[s].awaiting # <<>>
                               /\ b.uuid = SM!Answered(machine[s]).uuid
                               /\ Kind(b.uuid) = "write"
<1> DEFINE m == machine[s]
<1> DEFINE n == machine'[s]
<1> DEFINE a == SM!Answered(m)
<1> DEFINE blocks == log[s]
<1>1. /\ m \in SM!Machine /\ blocks \in Seq(Block)
      /\ IsFaithful(m) /\ IsConsistent(m, blocks)
  BY DEF SocketInv, TypeOK, MachineInv, MachinesAreConsistent
<1>2. \A w : IsLogged(blocks, w) => w \in Uuid
  <2>1. \A i \in DOMAIN blocks : blocks[i] \in Block
    BY <1>1, ElementOfSeq
  <2>2. \A i \in DOMAIN blocks : blocks[i].uuid \in Uuid
    BY <2>1 DEF Block
  <2> HIDE DEF blocks
  <2> QED
    BY <2>2 DEF IsLogged
<1>3. MachineSteps(s)
  OBVIOUS
<1>4. m.awaiting # <<>> =>
        /\ a = m.awaiting[1] /\ a.uuid \in Uuid /\ a.value \in Int
        /\ a.command = CommandOf(a.uuid) /\ Kind(a.uuid) \in {"read", "write"}
  BY AnsweredType
<1>5. CASE n = m /\ log'[s] = blocks
  BY <1>1, <1>5
<1>6. ASSUME NEW u \in Uuid, Kind(u) # "invalid", Issues(m, n, u, CommandOf(u)),
             log'[s] = blocks
      PROVE  /\ IsFaithful(n) /\ IsConsistent(n, log'[s])
             /\ \A w, b : /\ KeyOf(w) = KeyOf(b) /\ Kind(b) = "read"
                          /\ AwaitsAfter(m, blocks, w, b)
                          => AwaitsAfter(n, log'[s], w, b)
  <2> HIDE DEF m, n, blocks
  <2> QED
    BY <1>1, <1>2, <1>6, IssuesKeeps
<1>7. CASE /\ m.awaiting # <<>> /\ a.phase = "read"
           /\ Issues(SM!Dequeue(m), n, a.uuid, a.command) /\ log'[s] = blocks
  <2>1. Logs(m, blocks, blocks)
    BY <1>4, <1>7 DEF Logs, IsDue
  <2> HIDE DEF m, n, blocks, a
  <2>2. /\ IsFaithful(SM!Dequeue(m)) /\ IsConsistent(SM!Dequeue(m), blocks)
        /\ SM!Dequeue(m) \in SM!Machine
        /\ \A u, b : AwaitsAfter(m, blocks, u, b)
                       => AwaitsAfter(SM!Dequeue(m), blocks, u, b)
    BY <1>1, <1>7, <2>1, DequeueKeeps, DequeueType
  <2>3. /\ IsFaithful(n) /\ IsConsistent(n, blocks)
        /\ \A u, b : /\ KeyOf(u) = KeyOf(b) /\ Kind(b) = "read"
                     /\ AwaitsAfter(SM!Dequeue(m), blocks, u, b)
                     => AwaitsAfter(n, blocks, u, b)
    <3>1. a.uuid \in Uuid /\ Kind(a.uuid) # "invalid"
          /\ Issues(SM!Dequeue(m), n, a.uuid, CommandOf(a.uuid))
      BY <1>4, <1>7
    <3> QED
      BY <1>2, <2>2, <3>1, IssuesKeeps
  <2> QED
    BY <1>7, <2>2, <2>3 DEF m, n, blocks
<1>8. CASE /\ m.awaiting # <<>> /\ n = SM!Dequeue(m)
           /\ Logs(m, blocks, log'[s])
  <2>1. log'[s] = blocks \/
          \E b \in Block : /\ log'[s] = Append(blocks, b)
                           /\ b.uuid = a.uuid /\ Kind(b.uuid) = "write"
    <3>1. [uuid |-> a.uuid, result |-> a.value] \in Block
      BY <1>4, <1>8 DEF Block
    <3> QED
      BY <1>4, <1>8, <3>1 DEF Logs, IsDue
  <2> HIDE DEF m, n, blocks
  <2>2. /\ IsFaithful(n) /\ IsConsistent(n, log'[s])
        /\ \A u, v : Left(blocks, u, v) => Left(log'[s], u, v)
        /\ \A u, b : AwaitsAfter(m, blocks, u, b)
                       => AwaitsAfter(n, log'[s], u, b)
    BY <1>1, <1>8, DequeueKeeps
  <2> QED
    BY <1>8, <2>1, <2>2 DEF m, n, blocks
<1> QED
  BY <1>3, <1>5, <1>6, <1>7, <1>8 DEF MachineSteps

\* The machines stay consistent, and what is logged is a write.
LEMMA MachineInvStep ==
  ASSUME SocketInv, MachineInv, RequestsAreStarted, InitsAreStarted, [Next]_vars
  PROVE  MachineInv'
<1>1. \A s \in Server : MachineSteps(s)
  BY EveryMachineSteps
<1>2. MachinesAreConsistent'
  <2>1. \A s \in Server :
          IsFaithful(machine'[s]) /\ IsConsistent(machine'[s], log'[s])
    BY <1>1, MachineKeeps
  <2> QED
    BY <2>1 DEF MachinesAreConsistent, IsFaithful, IsConsistent, IsLogged,
                Follows, Left, DueBefore, IsDue
<1>3. LogsAreWrites'
  <2> SUFFICES ASSUME NEW s \in Server, NEW b \in Range(log'[s])
               PROVE  b.uuid \in Writes
    BY DEF LogsAreWrites
  <2>1. log'[s] = log[s] \/
          \E x \in Block : log'[s] = Append(log[s], x) /\ Kind(x.uuid) = "write"
    BY <1>1, MachineKeeps
  <2>2. log[s] \in Seq(Block)
    BY DEF SocketInv, TypeOK
  <2>3. CASE b \in Range(log[s])
    BY <2>3 DEF MachineInv, LogsAreWrites
  <2>4. CASE b \notin Range(log[s])
    <3>1. PICK x \in Block : log'[s] = Append(log[s], x) /\ Kind(x.uuid) = "write"
      BY <2>1, <2>4
    <3>2. b = x
      BY <2>2, <2>4, <3>1, AppendType
    <3> QED
      BY <3>1, <3>2 DEF Writes, Block
  <2> QED
    BY <2>3, <2>4
<1> QED
  BY <1>2, <1>3 DEF MachineInv

\* What is started stays so, and so do what is logged and what it has left.
LEMMA Progress ==
  ASSUME SocketInv, MachineInv, RequestsAreStarted, InitsAreStarted, [Next]_vars
  PROVE  /\ \A c \in Client : submitted[c] <= submitted'[c]
         /\ \A u \in Uuid : Started(u, submitted) => Started(u, submitted')
         /\ \A s \in Server :
              /\ Range(log[s]) \subseteq Range(log'[s])
              /\ \A u, v : Left(log[s], u, v) => Left(log'[s], u, v)
         /\ \A u, v : Executors(u, v) \subseteq Executors(u, v)'
<1>1. \A c \in Client : submitted[c] \in Nat /\ submitted[c] <= submitted'[c]
  <2>1. submitted \in [Client -> Nat]
    BY DEF SocketInv, TypeOK
  <2>2. \/ UNCHANGED submitted
        \/ \E c \in Client : submitted' = [submitted EXCEPT ![c] = @ + 1]
    <3>1. ASSUME NEW c \in Client, SendCommand(c)
          PROVE  submitted' = [submitted EXCEPT ![c] = @ + 1]
      BY <3>1 DEF SendCommand
    <3>2. ASSUME NEW c \in Client, NEW s \in Server, HandleAnswer(c, s)
          PROVE  UNCHANGED submitted
      BY <3>2, AnswerConsumes DEF Consumes
    <3>3. ASSUME NEW c \in Client, NEW s \in Server, HandleRequest(s, c)
          PROVE  UNCHANGED submitted
      BY <3>3 DEF HandleRequest, DiscardRequest, AnswerLastOp, ExecuteRead,
                  BroadcastInit, TakeOperation, Take, program
    <3> QED
      BY <3>1, <3>2, <3>3
         DEF Next, vars, Ask, Serve, TimerExpiration, SendAnswer,
             ExecutionResumes, ExecutionCompletes, IsAnswered, Accept,
             ReceiveSingleReply, program
  <2> QED
    BY <2>1, <2>2
<1>2. \A s \in Server :
        /\ Range(log[s]) \subseteq Range(log'[s])
        /\ \A u, v : Left(log[s], u, v) => Left(log'[s], u, v)
  <2> TAKE s \in Server
  <2>1. MachineSteps(s)
    BY EveryMachineSteps
  <2>2. /\ \A u, v : Left(log[s], u, v) => Left(log'[s], u, v)
        /\ log'[s] = log[s] \/ \E x \in Block : log'[s] = Append(log[s], x)
    BY <2>1, MachineKeeps
  <2>3. log[s] \in Seq(Block)
    BY DEF SocketInv, TypeOK
  <2>4. CASE log'[s] = log[s]
    BY <2>2, <2>4
  <2>5. ASSUME NEW x \in Block, log'[s] = Append(log[s], x)
        PROVE  Range(log[s]) \subseteq Range(log'[s])
    <3>1. Range(Append(log[s], x)) = Range(log[s]) \cup {x}
      BY <2>3, AppendType
    <3> QED
      BY <2>5, <3>1
  <2> QED
    BY <2>2, <2>4, <2>5
<1>3. \A u \in Uuid : Started(u, submitted) => Started(u, submitted')
  <2> SUFFICES ASSUME NEW u \in Uuid, Started(u, submitted)
               PROVE  u[2] <= submitted'[u[1]]
    BY DEF Started
  <2>1. u[1] \in Client /\ u[2] \in Nat
    BY UuidType
  <2>2. submitted'[u[1]] \in Nat
    BY <2>1, SocketInvStep DEF SocketInv, TypeOK
  <2> QED
    BY <1>1, <2>1, <2>2 DEF Started
<1>4. \A u, v : Executors(u, v) \subseteq Executors(u, v)'
  BY <1>2 DEF Executors
<1> QED
  BY <1>1, <1>2, <1>3, <1>4

\* A client submits the commands that it has.
SubmittedExist == \A c \in Client : submitted[c] <= Len(Commands[c])

\* Nobody repeats what has not been submitted.
BroadcastsAreStarted ==
  \A u \in Uuid : broadcasts[u] > 0 => Started(u, submitted)

\* The results that a leader has are those its servers have executed with.
RepliesAreExecuted ==
  \A l, s \in Server, u \in Writes :
    replies[l][u][s] # None => s \in Executors(u, replies[l][u][s])

\* What submits, executes and stores as it should.
RunInv ==
  /\ MachineInv
  /\ SubmittedExist
  /\ RequestsAreStarted
  /\ BroadcastsAreStarted
  /\ InitsAreStarted
  /\ AwaitingIsStarted
  /\ LogIsStarted
  /\ RepliesAreExecuted

\* A client submits a further command if it has one.
LEMMA SubmittedStep ==
  ASSUME SocketInv, SubmittedExist, [Next]_vars PROVE SubmittedExist'
<1>1. ASSUME UNCHANGED submitted PROVE SubmittedExist'
  BY <1>1 DEF SubmittedExist
<1>2. ASSUME NEW c \in Client, SendCommand(c) PROVE SubmittedExist'
  <2>1. /\ submitted[c] < Len(Commands[c])
        /\ submitted' = [submitted EXCEPT ![c] = @ + 1]
    BY <1>2 DEF SendCommand
  <2>2. submitted \in [Client -> Nat] /\ Len(Commands[c]) \in Nat
    BY ServiceAssumption DEF SocketInv, TypeOK
  <2> QED
    BY <2>1, <2>2 DEF SubmittedExist
<1>3. ASSUME NEW c \in Client, NEW s \in Server, HandleAnswer(c, s)
      PROVE  UNCHANGED submitted
  BY <1>3, AnswerConsumes DEF Consumes
<1>4. ASSUME NEW c \in Client, NEW s \in Server, HandleRequest(s, c)
      PROVE  UNCHANGED submitted
  BY <1>4 DEF HandleRequest, DiscardRequest, AnswerLastOp, ExecuteRead,
              BroadcastInit, TakeOperation, Take, program
<1> QED
  BY <1>1, <1>2, <1>3, <1>4
     DEF Next, vars, Ask, Serve, TimerExpiration, SendAnswer, ExecutionResumes,
         ExecutionCompletes, IsAnswered, Accept, ReceiveSingleReply, program

\* The operation in course is the client's own, and submitted.
LEMMA CurrentType ==
  ASSUME SocketInv, NEW c \in Client, currentOperation[c] # None
  PROVE  /\ currentOperation[c] \in Uuid
         /\ currentOperation[c][1] = c /\ currentOperation[c][2] = submitted[c]
         /\ Started(currentOperation[c], submitted)
<1>1. currentOperation[c] \in Uuid /\ submitted[c] \in Nat
  BY DEF SocketInv, TypeOK
<1>2. currentOperation[c] = <<c, submitted[c]>>
  BY DEF SocketInv, CurrentIsLast
<1> QED
  BY <1>1, <1>2 DEF Started

\* Every request is of an operation that has been submitted.
LEMMA RequestsStep ==
  ASSUME SocketInv, RunInv, [Next]_vars PROVE RequestsAreStarted'
<1>1. \A c \in Client, s \in Server : \A i \in DOMAIN requests[c][s] :
        Started(requests[c][s][i].uuid, submitted')
  <2> TAKE c \in Client, s \in Server
  <2> TAKE i \in DOMAIN requests[c][s]
  <2>1. requests[c][s] \in Seq(Request)
    BY DEF SocketInv, TypeOK
  <2>2. requests[c][s][i].uuid \in Uuid
    <3>1. requests[c][s][i] \in Request
      BY <2>1
    <3> QED
      BY <3>1 DEF Request
  <2> QED
    BY <2>2, Progress DEF RunInv, RequestsAreStarted
<1>2. ASSUME NEW u, Started(u, submitted'),
             \A c \in Client, s \in Server : \A i \in DOMAIN requests'[c][s] :
               \/ requests'[c][s][i].uuid = u
               \/ \E j \in DOMAIN requests[c][s] :
                    requests'[c][s][i] = requests[c][s][j]
      PROVE  RequestsAreStarted'
  <2> SUFFICES ASSUME NEW c \in Client, NEW s \in Server,
                      NEW i \in DOMAIN requests'[c][s]
               PROVE  Started(requests'[c][s][i].uuid, submitted')
    BY DEF RequestsAreStarted
  <2> QED
    BY <1>1, <1>2
<1>3. ASSUME NEW c \in Client, SendCommand(c) PROVE RequestsAreStarted'
  <2> DEFINE u == <<c, submitted[c] + 1>>
  <2>1. Started(u, submitted')
    <3>1. submitted' = [submitted EXCEPT ![c] = @ + 1]
      BY <1>3 DEF SendCommand
    <3>2. submitted'[c] = submitted[c] + 1 /\ submitted[c] \in Nat
      BY <3>1 DEF SocketInv, TypeOK
    <3> QED
      BY <3>2 DEF Started
  <2>2. \A d \in Client, s \in Server : \A i \in DOMAIN requests'[d][s] :
          \/ requests'[d][s][i].uuid = u
          \/ \E j \in DOMAIN requests[d][s] :
               requests'[d][s][i] = requests[d][s][j]
    BY <1>3, SendCommandSockets
  <2> HIDE DEF u
  <2> QED
    BY <1>2, <2>1, <2>2
<1>4. ASSUME NEW c \in Client, currentOperation[c] # None
      PROVE  Started(currentOperation[c], submitted')
  <2>1. currentOperation[c] \in Uuid
    BY <1>4 DEF SocketInv, TypeOK
  <2>2. Started(currentOperation[c], submitted)
    <3>1. submitted[c] \in Nat
      BY DEF SocketInv, TypeOK
    <3> QED
      BY <1>4, <3>1 DEF SocketInv, CurrentIsLast, Started
  <2> QED
    BY <2>1, <2>2, Progress DEF RunInv
<1>5. ASSUME NEW c \in Client, TimerExpiration(c) PROVE RequestsAreStarted'
  <2>1. currentOperation[c] # None
    BY <1>5 DEF TimerExpiration
  <2>2. \A d \in Client, s \in Server : \A i \in DOMAIN requests'[d][s] :
          \/ requests'[d][s][i].uuid = currentOperation[c]
          \/ \E j \in DOMAIN requests[d][s] :
               requests'[d][s][i] = requests[d][s][j]
    BY <1>5, TimerExpirationSockets
  <2>3. PICK u : u = currentOperation[c]
    OBVIOUS
  <2>4. Started(u, submitted')
    BY <1>4, <2>1, <2>3
  <2>5. \A d \in Client, s \in Server : \A i \in DOMAIN requests'[d][s] :
          \/ requests'[d][s][i].uuid = u
          \/ \E j \in DOMAIN requests[d][s] :
               requests'[d][s][i] = requests[d][s][j]
    BY <2>2, <2>3
  <2> QED
    BY <1>2, <2>4, <2>5
<1>6. ASSUME NEW c \in Client, NEW s \in Server, HandleAnswer(c, s)
      PROVE  RequestsAreStarted'
  <2> SUFFICES ASSUME NEW d \in Client, NEW t \in Server,
                      NEW i \in DOMAIN requests'[d][t]
               PROVE  Started(requests'[d][t][i].uuid, submitted')
    BY DEF RequestsAreStarted
  <2>1. Consumes(c, s)
    BY <1>6, AnswerConsumes
  <2>2. \/ requests'[d][t][i].uuid = currentOperation[d]
           /\ currentOperation[d] # None
        \/ \E j \in DOMAIN requests[d][t] :
             requests'[d][t][i] = requests[d][t][j]
    BY <2>1 DEF Consumes
  <2> QED
    BY <1>1, <1>4, <2>2
<1>7. ASSUME UNCHANGED requests PROVE RequestsAreStarted'
  BY <1>1, <1>7 DEF RequestsAreStarted
<1>8. ASSUME NEW c \in Client, NEW s \in Server, HandleRequest(s, c)
      PROVE  UNCHANGED requests
  BY <1>8 DEF HandleRequest, DiscardRequest, AnswerLastOp, ExecuteRead,
              BroadcastInit, TakeOperation, Take
<1> QED
  BY <1>3, <1>5, <1>6, <1>7, <1>8
     DEF Next, vars, Ask, Serve, SendAnswer, ExecutionResumes,
         ExecutionCompletes, IsAnswered, Accept, ReceiveSingleReply

\* An operation is broadcast while it is in course.
LEMMA BroadcastsStep ==
  ASSUME SocketInv, RunInv, [Next]_vars
  PROVE  BroadcastsAreStarted'
<1>1. \A u \in Uuid : broadcasts[u] > 0 => Started(u, submitted')
  BY Progress DEF RunInv, BroadcastsAreStarted
<1>2. ASSUME UNCHANGED broadcasts PROVE BroadcastsAreStarted'
  BY <1>1, <1>2 DEF BroadcastsAreStarted
<1>3. ASSUME NEW c \in Client, currentOperation[c] # None,
             \A u \in Uuid :
               u # currentOperation[c] => broadcasts'[u] = broadcasts[u]
      PROVE  BroadcastsAreStarted'
  <2>1. currentOperation[c] \in Uuid /\ Started(currentOperation[c], submitted)
    BY <1>3, CurrentType
  <2>2. Started(currentOperation[c], submitted')
    BY <2>1, Progress DEF RunInv
  <2> QED
    BY <1>1, <1>3, <2>2 DEF BroadcastsAreStarted
<1>4. ASSUME NEW c \in Client, NEW s \in Server, HandleAnswer(c, s)
      PROVE  BroadcastsAreStarted'
  <2>1. answers[c][s] # None => answers[c][s].uuid \in Uuid
    BY DEF SocketInv, TypeOK, Answer
  <2>2. \/ UNCHANGED broadcasts
        \/ /\ currentOperation[c] = answers[c][s].uuid
           /\ currentOperation[c] # None
           /\ broadcasts' = [broadcasts EXCEPT
                ![answers[c][s].uuid] = IF @ = 0 THEN 1 ELSE @]
    BY <1>4, <2>1, NoneType
       DEF HandleAnswer, IgnoreAnswer, ProcessCollectiveReply,
           ProcessSingleReply, AnswersCurrent, Receive, program
  <2>3. broadcasts \in [Uuid -> Nat]
    BY DEF SocketInv, TypeOK
  <2> QED
    BY <1>2, <1>3, <2>2, <2>3
<1>5. ASSUME NEW c \in Client, TimerExpiration(c) PROVE BroadcastsAreStarted'
  <2>1. /\ currentOperation[c] # None
        /\ broadcasts' = [broadcasts EXCEPT ![currentOperation[c]] = @ + 1]
    BY <1>5 DEF TimerExpiration
  <2>2. broadcasts \in [Uuid -> Nat]
    BY DEF SocketInv, TypeOK
  <2> QED
    BY <1>3, <2>1, <2>2
<1>6. ASSUME NEW c \in Client, NEW s \in Server, HandleRequest(s, c)
      PROVE  UNCHANGED broadcasts
  BY <1>6 DEF HandleRequest, DiscardRequest, AnswerLastOp, ExecuteRead,
              BroadcastInit, TakeOperation, Take, program
<1> QED
  BY <1>2, <1>4, <1>5, <1>6
     DEF Next, vars, Ask, Serve, SendCommand, SendAnswer, ExecutionResumes,
         ExecutionCompletes, IsAnswered, Accept, ReceiveSingleReply, program

\* Servers broadcast what is requested.
LEMMA InitsStep ==
  ASSUME SocketInv, RunInv, [Next]_vars PROVE InitsAreStarted'
<1>1. \A q \in inits : Started(q.uuid, submitted')
  <2>1. \A q \in inits : q.uuid \in Uuid
    BY DEF SocketInv, TypeOK, Request
  <2> QED
    BY <2>1, Progress DEF RunInv, InitsAreStarted
<1>2. ASSUME UNCHANGED inits PROVE InitsAreStarted'
  BY <1>1, <1>2 DEF InitsAreStarted
<1>3. ASSUME NEW s \in Server, NEW c \in Client, BroadcastInit(s, c)
      PROVE  InitsAreStarted'
  <2> DEFINE u == TakenUuid(s, c)
  <2>1. Take(s, c) /\ inits' = inits \cup {Head(requests[c][s])}
    BY <1>3 DEF BroadcastInit, TakeOperation
  <2>2. u \in Uuid /\ Head(requests[c][s]).uuid = u /\ Started(u, submitted)
    BY <2>1, TakenType, TakenIsStarted DEF RunInv
  <2>3. Started(u, submitted')
    BY <2>2, Progress DEF RunInv
  <2> QED
    BY <1>1, <2>1, <2>2, <2>3 DEF InitsAreStarted
<1> QED
  BY <1>2, <1>3, ClusterFrame
     DEF ExecuteRead, Accept, ExecutionResumes, ExecutionCompletes, IsAnswered,
         ReceiveSingleReply, cluster

\* The state machines execute what is submitted.
LEMMA AwaitingStep ==
  ASSUME SocketInv, RunInv, [Next]_vars PROVE AwaitingIsStarted'
<1> SUFFICES ASSUME NEW s \in Server, NEW i \in DOMAIN machine'[s].awaiting
             PROVE  Started(machine'[s].awaiting[i].uuid, submitted')
  BY DEF AwaitingIsStarted
<1> DEFINE m == machine[s]
<1> DEFINE n == machine'[s]
<1> DEFINE a == SM!Answered(m)
<1>1. /\ m \in SM!Machine /\ m.awaiting \in Seq(SM!Await)
      /\ n \in SM!Machine /\ n.awaiting \in Seq(SM!Await)
  BY SocketInvStep DEF SocketInv, TypeOK, SM!Machine
<1>2. MachineSteps(s)
  BY EveryMachineSteps DEF RunInv
<1>3. ASSUME NEW j \in DOMAIN m.awaiting
      PROVE  Started(m.awaiting[j].uuid, submitted')
  <2>1. m.awaiting[j].uuid \in Uuid
    <3>1. m.awaiting[j] \in SM!Await
      BY <1>1
    <3> QED
      BY <3>1 DEF SM!Await
  <2> QED
    BY <2>1, Progress DEF RunInv, AwaitingIsStarted
<1>4. ASSUME NEW k \in SM!Machine, NEW u \in Uuid, NEW x, Issues(k, n, u, x),
             Started(u, submitted'),
             \A j \in DOMAIN k.awaiting : Started(k.awaiting[j].uuid, submitted')
      PROVE  Started(n.awaiting[i].uuid, submitted')
  <2>1. /\ Len(k.awaiting) \in Nat /\ DOMAIN k.awaiting = 1..Len(k.awaiting)
        /\ DOMAIN n.awaiting = 1..(Len(k.awaiting) + 1)
        /\ \A j \in 1..Len(k.awaiting) : n.awaiting[j] = k.awaiting[j]
        /\ n.awaiting[Len(k.awaiting) + 1].uuid = u
    <3>1. k.awaiting \in Seq(SM!Await)
      BY DEF SM!Machine
    <3> QED
      BY <1>1, <1>4, <3>1 DEF Issues
  <2> QED
    BY <1>4, <2>1
<1>5. CASE n = m
  BY <1>3, <1>5
<1>6. CASE \E u \in Uuid : /\ Started(u, submitted)
                           /\ Issues(m, n, u, CommandOf(u))
  <2>1. PICK u \in Uuid : Started(u, submitted) /\ Issues(m, n, u, CommandOf(u))
    BY <1>6
  <2>2. Started(u, submitted')
    BY <2>1, Progress DEF RunInv
  <2> QED
    BY <1>1, <1>3, <1>4, <2>1, <2>2
<1>7. ASSUME m.awaiting # <<>>
      PROVE  /\ a.uuid \in Uuid /\ Started(a.uuid, submitted')
             /\ SM!Dequeue(m) \in SM!Machine
             /\ \A j \in DOMAIN SM!Dequeue(m).awaiting :
                  Started(SM!Dequeue(m).awaiting[j].uuid, submitted')
  <2>1. /\ a = m.awaiting[1] /\ 1 \in DOMAIN m.awaiting /\ a.uuid \in Uuid
    BY <1>7, AnsweredType DEF RunInv
  <2>2. SM!Dequeue(m) \in SM!Machine
    BY <1>1, <1>7, DequeueType
  <2>4. SM!Dequeue(m).awaiting = Tail(m.awaiting)
    <3> HIDE DEF m
    <3> QED
      BY <1>1 DEF SM!Dequeue, SM!Machine
  <2>3. \A j \in DOMAIN Tail(m.awaiting) :
          j + 1 \in DOMAIN m.awaiting /\ Tail(m.awaiting)[j] = m.awaiting[j + 1]
    BY <1>1, <1>7, TailType
  <2> HIDE DEF m
  <2> QED
    BY <1>3, <2>1, <2>2, <2>3, <2>4 DEF a
<1>8. CASE /\ m.awaiting # <<>>
           /\ Issues(SM!Dequeue(m), n, a.uuid, a.command)
  BY <1>4, <1>7, <1>8
<1>9. CASE m.awaiting # <<>> /\ n = SM!Dequeue(m)
  BY <1>7, <1>9
<1> QED
  BY <1>2, <1>5, <1>6, <1>8, <1>9 DEF MachineSteps

\* What is executed was submitted.
LEMMA LogStep ==
  ASSUME SocketInv, RunInv, [Next]_vars PROVE LogIsStarted'
<1> SUFFICES ASSUME NEW s \in Server, NEW b \in Range(log'[s])
             PROVE  Started(b.uuid, submitted')
  BY DEF LogIsStarted
<1>1. log[s] \in Seq(Block)
  BY DEF SocketInv, TypeOK
<1>2. MachineSteps(s)
  BY EveryMachineSteps DEF RunInv
<1>3. CASE b \in Range(log[s])
  <2>1. b \in Block
    BY <1>1, <1>3 DEF Range
  <2>2. b.uuid \in Uuid
    BY <2>1 DEF Block
  <2> QED
    BY <1>3, <2>2, Progress DEF RunInv, LogIsStarted
<1>4. CASE b \notin Range(log[s])
  <2>1. PICK x \in Block : /\ log'[s] = Append(log[s], x)
                           /\ machine[s].awaiting # <<>>
                           /\ x.uuid = SM!Answered(machine[s]).uuid
    BY <1>2, <1>4, MachineKeeps DEF RunInv
  <2>2. b = x
    BY <1>1, <1>4, <2>1, AppendType
  <2>3. /\ x.uuid = machine[s].awaiting[1].uuid /\ x.uuid \in Uuid
        /\ 1 \in DOMAIN machine[s].awaiting
    BY <2>1, AnsweredType DEF RunInv
  <2> QED
    BY <2>2, <2>3, Progress DEF RunInv, AwaitingIsStarted
<1> QED
  BY <1>3, <1>4

\* The results that a leader gathers are of servers that have executed.
LEMMA RepliesStep ==
  ASSUME SocketInv, RunInv, [Next]_vars PROVE RepliesAreExecuted'
<1>1. \A u, v : Executors(u, v) \subseteq Executors(u, v)'
  BY Progress DEF RunInv
<1>2. ASSUME UNCHANGED replies PROVE RepliesAreExecuted'
  <2> SUFFICES ASSUME NEW l \in Server, NEW s \in Server, NEW u \in Writes,
                      NEW v, v = replies[l][u][s], v # None
               PROVE  s \in Executors(u, v)'
    BY <1>2 DEF RepliesAreExecuted, Executors
  <2> QED
    BY <1>1 DEF RunInv, RepliesAreExecuted
<1>3. ASSUME NEW r \in Server, NEW b \in Range(log[r]), ReceiveSingleReply(r, b)
      PROVE  RepliesAreExecuted'
  <2> DEFINE l == Leader(r)
  <2>1. /\ replies' = [replies EXCEPT ![l][b.uuid] = Known(r, b)]
        /\ b \in Block /\ l \in Server /\ b.uuid \in Writes
    BY <1>3, ReceiveSingleReplySockets
       DEF ReceiveSingleReply, Known, RunInv, MachineInv, LogsAreWrites
  <2>2. r \in Executors(b.uuid, b.result)
    <3>1. b = [uuid |-> b.uuid, result |-> b.result]
      BY <2>1 DEF Block
    <3> QED
      BY <3>1 DEF Executors
  <2>3. replies \in [Server -> [Writes -> [Server -> {None} \cup Int]]]
    BY DEF SocketInv, TypeOK
  <2> SUFFICES ASSUME NEW k \in Server, NEW s \in Server, NEW u \in Writes,
                      NEW v, v = replies'[k][u][s], v # None
               PROVE  s \in Executors(u, v)'
    BY DEF RepliesAreExecuted, Executors
  <2>4. \/ v = replies[k][u][s]
        \/ u = b.uuid /\ s = r /\ v = b.result
    <3> HIDE DEF l
    <3>1. CASE k = l /\ u = b.uuid
      <4>1. v = [replies[l][b.uuid] EXCEPT ![r] = b.result][s]
        BY <2>1, <2>3, <3>1 DEF Known, l
      <4> QED
        BY <2>1, <2>3, <3>1, <4>1
    <3>2. CASE ~(k = l /\ u = b.uuid)
      BY <2>1, <2>3, <3>2
    <3> QED
      BY <3>1, <3>2
  <2> QED
    BY <1>1, <2>2, <2>4 DEF RunInv, RepliesAreExecuted
<1> QED
  BY <1>2, <1>3, ClusterFrame
     DEF ExecuteRead, BroadcastInit, TakeOperation, Take, Accept,
         ExecutionResumes, ExecutionCompletes, IsAnswered, cluster

\* The parts together.
LEMMA RunInvStep == ASSUME SocketInv, RunInv, [Next]_vars PROVE RunInv'
<1>1. MachineInv'
  BY MachineInvStep DEF RunInv
<1>2. SubmittedExist'
  BY SubmittedStep DEF RunInv
<1> QED
  BY <1>1, <1>2, RequestsStep, BroadcastsStep, InitsStep, AwaitingStep, LogStep,
     RepliesStep DEF RunInv

-----------------------------------------------------------------------------
(* The inductive invariant: what is answered *)

\* An answer is about an operation submitted, and who acknowledges it, if it is
\* about a write, has executed it with that result; one that is collective is
\* about a write, and enough servers acknowledge it.
IsBacked(a) ==
  /\ Started(a.uuid, submitted)
  /\ a.type = "SingleReply" => a.acknowledgments = {a.from}
  /\ a.type = "CollectiveReply" => a.uuid \in Writes /\ Enough(a.acknowledgments)
  /\ a.uuid \in Writes => a.acknowledgments \subseteq Executors(a.uuid, a.result)

\* The answers of s: given to its socket, or on their way to a client.
Given(s) == Range(outgoing[s]) \cup ({answers[c][s] : c \in Client} \ {None})

AnswersAreBacked ==
  \A s \in Server : \A a \in Given(s) : a.from = s /\ IsBacked(a)

EvidenceInv == RunInv /\ AnswersAreBacked

\* What backs an answer goes on to back it.
LEMMA BackedStays ==
  ASSUME SocketInv, RunInv, [Next]_vars, NEW a \in Answer, IsBacked(a)
  PROVE  IsBacked(a)'
<1>1. a.uuid \in Uuid
  BY DEF Answer
<1>2. Started(a.uuid, submitted) => Started(a.uuid, submitted')
  BY <1>1, Progress DEF RunInv
<1>3. Executors(a.uuid, a.result) \subseteq Executors(a.uuid, a.result)'
  BY Progress DEF RunInv
<1> QED
  BY <1>2, <1>3 DEF IsBacked, Started

\* Answers are answers.
LEMMA GivenType ==
  ASSUME SocketInv, NEW s \in Server, NEW a \in Given(s)
  PROVE  a \in Answer
<1>1. CASE a \in Range(outgoing[s])
  BY <1>1 DEF SocketInv, TypeOK, Range
<1>2. CASE a \in {answers[c][s] : c \in Client} \ {None}
  BY <1>2 DEF SocketInv, TypeOK
<1> QED
  BY <1>1, <1>2 DEF Given

\* A new answer of s is backed, and one to a read is what its database answers.
Fresh(s, a) ==
  /\ a \in Answer /\ a.from = s /\ IsBacked(a)'
  /\ Kind(a.uuid) = "read" =>
       /\ machine[s].awaiting # <<>> /\ SM!Answered(machine[s]).uuid = a.uuid
       /\ SM!Answered(machine[s]).phase = "result"
       /\ SM!Answered(machine[s]).value = a.result

\* A single reply about a write is that of a server that has executed it.
LEMMA SingleIsFresh ==
  ASSUME SocketInv, RunInv, [Next]_vars, NEW s \in Server, NEW b \in LastOps(s),
         NEW x, x = SingleReply(s, b.uuid, b.result)
  PROVE  Fresh(s, x)
<1>1. b \in Block /\ b \in Range(log[s]) /\ s \in Executors(b.uuid, b.result)
  BY LastOpType DEF SocketInv
<1>2. x \in Answer
  BY <1>1, SingleReplyType DEF Block
<1>3. /\ Started(b.uuid, submitted') /\ s \in Executors(b.uuid, b.result)'
      /\ Kind(b.uuid) # "read"
  <2>1. b.uuid \in Writes /\ Started(b.uuid, submitted)
    BY <1>1 DEF RunInv, MachineInv, LogsAreWrites, LogIsStarted
  <2> QED
    BY <1>1, <2>1, WriteType, Progress DEF RunInv
<1>4. /\ x.uuid = b.uuid /\ x.result = b.result /\ x.type = "SingleReply"
      /\ x.from = s /\ x.acknowledgments = {s}
  BY DEF SingleReply
<1>5. IsBacked(x)'
  BY <1>3, <1>4 DEF IsBacked, Started
<1> QED
  BY <1>2, <1>3, <1>4, <1>5 DEF Fresh

\* A collective reply is that of servers that have executed the write.
LEMMA CollectiveIsFresh ==
  ASSUME SocketInv, RunInv, [Next]_vars, NEW r \in Server,
         NEW b \in Range(log[r]), ReceiveSingleReply(r, b),
         NEW x, x = Collective(r, b), Enough(x.acknowledgments)
  PROVE  Fresh(Leader(r), x)
<1>1. b \in Block /\ Leader(r) \in Server /\ x \in Answer
  BY ReceiveSingleReplySockets
<1>2. b.uuid \in Writes /\ Started(b.uuid, submitted) /\ b.result # None
  BY <1>1, NoneType DEF RunInv, MachineInv, LogsAreWrites, LogIsStarted, Block
<1>3. /\ x.uuid = b.uuid /\ x.result = b.result /\ x.type = "CollectiveReply"
      /\ x.from = Leader(r) /\ x.acknowledgments = Signers(Known(r, b), b.result)
  BY DEF Collective
<1>4. Signers(Known(r, b), b.result) \subseteq Executors(b.uuid, b.result)
  <2> SUFFICES ASSUME NEW s \in Server, Known(r, b)[s] = b.result
               PROVE  s \in Executors(b.uuid, b.result)
    BY DEF Signers
  <2>1. CASE s = r
    <3>1. b = [uuid |-> b.uuid, result |-> b.result]
      BY <1>1 DEF Block
    <3> QED
      BY <2>1, <3>1 DEF Executors
  <2>2. CASE s # r
    <3>1. replies[Leader(r)][b.uuid] \in [Server -> {None} \cup Int]
      BY <1>1, <1>2 DEF SocketInv, TypeOK
    <3>2. replies[Leader(r)][b.uuid][s] = b.result
      BY <2>2, <3>1 DEF Known
    <3> QED
      BY <1>1, <1>2, <3>2 DEF RunInv, RepliesAreExecuted
  <2> QED
    BY <2>1, <2>2
<1>5. x.acknowledgments \subseteq Executors(b.uuid, b.result)'
  BY <1>3, <1>4, Progress DEF RunInv
<1>6. Started(b.uuid, submitted') /\ Kind(b.uuid) # "read"
  BY <1>2, WriteType, Progress DEF RunInv
<1>7. IsBacked(x)'
  BY <1>2, <1>3, <1>5, <1>6 DEF IsBacked, Started
<1> QED
  BY <1>1, <1>3, <1>6, <1>7 DEF Fresh

\* What a read returns is what the database has answered it.
LEMMA ReadIsFresh ==
  ASSUME SocketInv, RunInv, [Next]_vars, NEW s \in Server, ExecutionCompletes(s),
         NEW a, a = SM!Answered(machine[s]), Kind(a.uuid) = "read",
         NEW x, x = SingleReply(s, a.uuid, a.value)
  PROVE  Fresh(s, x)
<1>1. machine[s].awaiting # <<>> /\ a.phase = "result"
  BY DEF ExecutionCompletes, IsAnswered
<1>2. /\ a = machine[s].awaiting[1] /\ 1 \in DOMAIN machine[s].awaiting
      /\ a.uuid \in Uuid /\ a.value \in Int
  BY <1>1, AnsweredType DEF RunInv
<1>3. Started(a.uuid, submitted') /\ a.uuid \notin Writes
  BY <1>2, WriteType, Progress DEF RunInv, AwaitingIsStarted
<1>4. x \in Answer
  BY <1>2, SingleReplyType
<1>5. /\ x.uuid = a.uuid /\ x.result = a.value /\ x.type = "SingleReply"
      /\ x.from = s /\ x.acknowledgments = {s}
  BY DEF SingleReply
<1>6. IsBacked(x)'
  BY <1>3, <1>5 DEF IsBacked, Started
<1> QED
  BY <1>1, <1>4, <1>5, <1>6 DEF Fresh

\* A server answers with what it has executed itself or gathered from others.
LEMMA GivenGrows ==
  ASSUME SocketInv, RunInv, [Next]_vars
  PROVE  \A s \in Server : \A a \in Given(s)' : a \in Given(s) \/ Fresh(s, a)
<1>1. ASSUME NEW s \in Server, NEW x, Fresh(s, x),
             outgoing' = [outgoing EXCEPT ![s] = Append(@, x)],
             UNCHANGED answers
      PROVE  \A t \in Server : \A a \in Given(t)' : a \in Given(t) \/ Fresh(t, a)
  <2> TAKE t \in Server
  <2>1. /\ outgoing \in [Server -> Seq(Answer)] /\ x \in Answer
        /\ Range(Append(outgoing[s], x)) = Range(outgoing[s]) \cup {x}
    BY <1>1, AppendType DEF SocketInv, TypeOK, Fresh
  <2>2. outgoing'[t] = IF t = s THEN Append(outgoing[s], x) ELSE outgoing[t]
    BY <1>1, <2>1
  <2>3. Range(outgoing'[t]) \subseteq
          IF t = s THEN Range(outgoing[t]) \cup {x} ELSE Range(outgoing[t])
    BY <2>1, <2>2
  <2> QED
    BY <1>1, <2>3 DEF Given
<1>3. ASSUME UNCHANGED <<outgoing, answers>>
      PROVE  \A t \in Server : Given(t)' = Given(t)
  BY <1>3 DEF Given
<1>4. ASSUME NEW s \in Server, NEW c \in Client, AnswerLastOp(s, c)
      PROVE  \A t \in Server : \A a \in Given(t)' : a \in Given(t) \/ Fresh(t, a)
  <2>1. PICK b \in LastOps(s) :
          outgoing' = [outgoing EXCEPT
            ![s] = Append(@, SingleReply(s, b.uuid, b.result))]
    BY <1>4 DEF AnswerLastOp
  <2>2. PICK x : x = SingleReply(s, b.uuid, b.result)
    OBVIOUS
  <2>3. Fresh(s, x)
    BY <2>2, SingleIsFresh
  <2>4. UNCHANGED answers
    BY <1>4 DEF AnswerLastOp, TakeOperation, Take
  <2> QED
    BY <1>1, <2>1, <2>2, <2>3, <2>4
<1>5. ASSUME NEW s \in Server, ExecutionCompletes(s)
      PROVE  \A t \in Server : \A a \in Given(t)' : a \in Given(t) \/ Fresh(t, a)
  <2>1. PICK a : a = SM!Answered(machine[s])
    OBVIOUS
  <2>2. /\ IF Kind(a.uuid) = "read"
           THEN outgoing' = [outgoing EXCEPT
                  ![s] = Append(@, SingleReply(s, a.uuid, a.value))]
           ELSE UNCHANGED outgoing
        /\ UNCHANGED answers
    BY <1>5, <2>1 DEF ExecutionCompletes, IsAnswered
  <2>3. CASE Kind(a.uuid) = "read"
    <3>1. PICK x : x = SingleReply(s, a.uuid, a.value)
      OBVIOUS
    <3>2. Fresh(s, x)
      BY <1>5, <2>1, <2>3, <3>1, ReadIsFresh
    <3> QED
      BY <1>1, <2>2, <2>3, <3>1, <3>2
  <2> QED
    BY <1>3, <2>2, <2>3
<1>6. ASSUME NEW r \in Server, NEW b \in Range(log[r]), ReceiveSingleReply(r, b)
      PROVE  \A t \in Server : \A a \in Given(t)' : a \in Given(t) \/ Fresh(t, a)
  <2>1. PICK x : x = Collective(r, b)
    OBVIOUS
  <2>2. /\ \/ /\ outgoing' = [outgoing EXCEPT ![Leader(r)] = Append(@, x)]
              /\ Enough(x.acknowledgments)
           \/ outgoing' = outgoing
        /\ UNCHANGED answers
    BY <1>6, <2>1 DEF ReceiveSingleReply, Collective, Known
  <2>3. Enough(x.acknowledgments) => Fresh(Leader(r), x)
    BY <1>6, <2>1, CollectiveIsFresh
  <2> QED
    BY <1>1, <1>3, <2>2, <2>3, LeaderType
<1>7. ASSUME NEW s \in Server, SendAnswer(s)
      PROVE  \A t \in Server : Given(t)' \subseteq Given(t)
  <2>1. /\ outgoing[s] # <<>> /\ outgoing \in [Server -> Seq(Answer)]
        /\ \A c \in Client, t \in Server :
             \/ answers'[c][t] = answers[c][t]
             \/ t = s /\ answers'[c][t] = Head(outgoing[s])
        /\ outgoing' = [outgoing EXCEPT ![s] = Tail(@)]
    BY <1>7, SendAnswerSockets DEF SocketInv, TypeOK
  <2>2. /\ Head(outgoing[s]) \in Range(outgoing[s])
        /\ Range(Tail(outgoing[s])) \subseteq Range(outgoing[s])
    <3> DEFINE rest == Tail(outgoing[s])
    <3> DEFINE first == Head(outgoing[s])
    <3>1. /\ first = outgoing[s][1] /\ 1 \in DOMAIN outgoing[s]
          /\ \A i \in DOMAIN rest :
               i + 1 \in DOMAIN outgoing[s] /\ rest[i] = outgoing[s][i + 1]
      BY <2>1, TailType
    <3> HIDE DEF rest, first
    <3>2. first \in Range(outgoing[s]) /\ Range(rest) \subseteq Range(outgoing[s])
      BY <3>1 DEF Range
    <3> QED
      BY <3>2 DEF rest, first
  <2> TAKE t \in Server
  <2>3. outgoing'[t] = IF t = s THEN Tail(outgoing[s]) ELSE outgoing[t]
    BY <2>1
  <2>4. Range(outgoing'[t]) \subseteq Range(outgoing[t])
    BY <2>2, <2>3
  <2>5. ASSUME NEW c \in Client, answers'[c][t] # None
        PROVE  answers'[c][t] \in Given(t)
    BY <2>1, <2>2, <2>5 DEF Given
  <2> QED
    BY <2>4, <2>5 DEF Given
<1>8. ASSUME NEW c \in Client, NEW s \in Server, HandleAnswer(c, s)
      PROVE  \A t \in Server : Given(t)' \subseteq Given(t)
  <2>1. /\ answers' = [answers EXCEPT ![c][s] = None]
        /\ UNCHANGED outgoing
    BY <1>8, AnswerConsumes DEF Consumes
  <2>2. \A d \in Client, t \in Server : answers'[d][t] \in {answers[d][t], None}
    BY <2>1 DEF SocketInv, TypeOK
  <2> QED
    BY <2>1, <2>2 DEF Given
<1>9. ASSUME NEW c \in Client, NEW s \in Server, HandleRequest(s, c)
      PROVE  AnswerLastOp(s, c) \/ UNCHANGED <<outgoing, answers>>
  BY <1>9 DEF HandleRequest, DiscardRequest, ExecuteRead, BroadcastInit,
              TakeOperation, Take
<1> QED
  BY <1>3, <1>4, <1>5, <1>6, <1>7, <1>8, <1>9
     DEF Next, vars, Ask, Serve, SendCommand, TimerExpiration, Accept,
         ExecutionResumes, IsAnswered

\* What backs the answers.
LEMMA EvidenceStep ==
  ASSUME SocketInv, EvidenceInv, [Next]_vars PROVE EvidenceInv'
<1>1. \A s \in Server : \A a \in Given(s)' : a \in Given(s) \/ Fresh(s, a)
  BY GivenGrows DEF EvidenceInv
<1>2. AnswersAreBacked'
  <2> SUFFICES ASSUME NEW s \in Server, NEW a \in Given(s)'
               PROVE  a.from = s /\ IsBacked(a)'
    BY DEF AnswersAreBacked
  <2>1. CASE a \in Given(s)
    BY <2>1, GivenType, BackedStays DEF EvidenceInv, AnswersAreBacked
  <2>2. CASE Fresh(s, a)
    BY <2>2 DEF Fresh
  <2> QED
    BY <1>1, <2>1, <2>2
<1> QED
  BY <1>2, RunInvStep DEF EvidenceInv

-----------------------------------------------------------------------------
(* The inductive invariant: what a client keeps and accepts *)

\* A reply kept for the write in course is of a server that has executed it.
KeptIsBacked ==
  \A c \in Client, s \in Server :
    currentReplies[c][s] # None /\ currentOperation[c] \in Writes =>
      s \in Executors(currentOperation[c], currentReplies[c][s])

\* A client accepts results of operations of its own that it has submitted.
AcceptedIsPast ==
  \A c \in Client : \A a \in AcceptedBy(c) :
    /\ a.uuid \in Uuid /\ a.uuid[1] = c /\ Started(a.uuid, submitted)

\* Whatever s is to answer to the read b, answers, or has answered and c keeps,
\* is what the write u or a later one has left.
Tells(s, u, b) ==
  /\ AwaitsAfter(machine[s], log[s], u, b)
  /\ \A a \in Given(s) : a.uuid = b => Left(log[s], u, a.result)
  /\ currentOperation[b[1]] = b /\ currentReplies[b[1]][s] # None =>
       Left(log[s], u, currentReplies[b[1]][s])

Informed(u, b) == {s \in Server : Tells(s, u, b)}

\* Enough servers tell of a write accepted, to whichever read of its key comes
\* after it.
ReadsAreInformed ==
  \A c \in Client : \A a \in AcceptedBy(c) : \A b \in Uuid :
    /\ Kind(a.uuid) = "write" /\ Kind(b) = "read"
    /\ KeyOf(a.uuid) = KeyOf(b) /\ b[1] = c /\ a.uuid[2] < b[2]
    => 3 * Cardinality(Informed(a.uuid, b)) >= 2 * N + 1

AcceptanceInv ==
  /\ KeptIsBacked
  /\ AcceptedIsPast
  /\ AcceptedIsExecuted
  /\ ReadsAreInformed
  /\ ReadsFollowWrites

ServiceInv == SocketInv /\ EvidenceInv /\ AcceptanceInv

\* More servers are no fewer.
LEMMA MoreServers ==
  ASSUME NEW S \in SUBSET Server, NEW T \in SUBSET Server, S \subseteq T,
         3 * Cardinality(S) >= 2 * N + 1
  PROVE  3 * Cardinality(T) >= 2 * N + 1
<1>1. Cardinality(S) <= Cardinality(T)
  BY ServerFinite, FS_Subset
<1>2. Cardinality(S) \in Nat /\ Cardinality(T) \in Nat /\ N \in Nat
  BY ServerFinite, ServiceAssumption
<1> QED
  BY <1>1, <1>2

\* Those asked to acknowledge a write meet those that are asked for a read.
LEMMA ReadMeetsWrite ==
  ASSUME NEW S \in SUBSET Server, NEW T \in SUBSET Server,
         3 * Cardinality(S) >= 2 * N + 1, Cardinality(T) >= N \div 2
  PROVE  S \cap T # {}
<1>1. /\ IsFiniteSet(S) /\ IsFiniteSet(T) /\ IsFiniteSet(Server)
      /\ Cardinality(S) \in Nat /\ Cardinality(T) \in Nat
      /\ Cardinality(Server) = N
  BY ServerFinite
<1>2. Cardinality(S) + Cardinality(T) > Cardinality(Server)
  BY <1>1, ServiceAssumption
<1> QED
  BY <1>1, <1>2, FS_MajoritiesIntersect

\* Only the handling of an answer, and a new operation, change what c keeps.
LEMMA ProgramFrame ==
  ASSUME SocketInv, [Next]_vars
  PROVE  \/ UNCHANGED <<submitted, currentOperation, currentReplies, accepted>>
         \/ \E c \in Client, s \in Server : HandleAnswer(c, s)
         \/ \E c \in Client :
              /\ currentOperation[c] = None
              /\ currentOperation' = [currentOperation EXCEPT
                                        ![c] = <<c, submitted[c] + 1>>]
              /\ UNCHANGED <<currentReplies, accepted>>
<1>1. ASSUME NEW c \in Client, NEW s \in Server, HandleRequest(s, c)
      PROVE  UNCHANGED <<submitted, currentOperation, currentReplies, accepted>>
  BY <1>1 DEF HandleRequest, DiscardRequest, AnswerLastOp, ExecuteRead,
              BroadcastInit, TakeOperation, Take, program
<1>2. ASSUME NEW c \in Client, SendCommand(c)
      PROVE  /\ currentOperation[c] = None
             /\ currentOperation' = [currentOperation EXCEPT
                                       ![c] = <<c, submitted[c] + 1>>]
             /\ UNCHANGED <<currentReplies, accepted>>
  BY <1>2 DEF SendCommand
<1> QED
  BY <1>1, <1>2
     DEF Next, vars, Ask, Serve, TimerExpiration, SendAnswer, ExecutionResumes,
         ExecutionCompletes, IsAnswered, Accept, ReceiveSingleReply, program

\* An answer to the write in course acknowledges it.
LEMMA AnswerToWrite ==
  ASSUME SocketInv, AnswersAreBacked, NEW c \in Client, NEW s \in Server,
         answers[c][s] # None, answers[c][s].uuid \in Writes
  PROVE  LET a == answers[c][s]
         IN  /\ a.acknowledgments \subseteq Executors(a.uuid, a.result)
             /\ a.type = "SingleReply" => s \in Executors(a.uuid, a.result)
<1> DEFINE a == answers[c][s]
<1>1. a \in Given(s)
  BY DEF Given
<1>2. a.from = s /\ IsBacked(a)
  BY <1>1 DEF AnswersAreBacked
<1> QED
  BY <1>2 DEF IsBacked

\* What is kept for the write in course.
LEMMA KeptStep ==
  ASSUME SocketInv, EvidenceInv, KeptIsBacked, [Next]_vars
  PROVE  KeptIsBacked'
<1>1. \A u, v : Executors(u, v) \subseteq Executors(u, v)'
  BY Progress DEF EvidenceInv, RunInv
<1>9. ASSUME \A d \in Client, t \in Server :
               currentReplies'[d][t] # None /\ currentOperation'[d] \in Writes =>
                 t \in Executors(currentOperation'[d], currentReplies'[d][t])
      PROVE  KeptIsBacked'
  <2> SUFFICES ASSUME NEW d \in Client, NEW t \in Server,
                      NEW u, u = currentOperation'[d], u \in Writes,
                      NEW v, v = currentReplies'[d][t], v # None
               PROVE  t \in Executors(u, v)'
    BY DEF KeptIsBacked, Executors
  <2> QED
    BY <1>1, <1>9
<1>2. ASSUME UNCHANGED <<currentOperation, currentReplies>> PROVE KeptIsBacked'
  BY <1>2, <1>9 DEF KeptIsBacked
<1>3. ASSUME NEW c \in Client, currentOperation[c] = None,
             currentOperation' = [currentOperation EXCEPT
                                    ![c] = <<c, submitted[c] + 1>>],
             UNCHANGED currentReplies
      PROVE  KeptIsBacked'
  <2>1. \A s \in Server : currentReplies'[c][s] = None
    BY <1>3 DEF SocketInv, CurrentIsLast, NoReplies
  <2>2. \A d \in Client \ {c} : currentOperation'[d] = currentOperation[d]
    BY <1>3 DEF SocketInv, TypeOK
  <2> QED
    BY <1>3, <1>9, <2>1, <2>2 DEF KeptIsBacked
<1>4. ASSUME NEW c \in Client, NEW s \in Server, HandleAnswer(c, s)
      PROVE  KeptIsBacked'
  <2> DEFINE a == answers[c][s]
  <2>1. Concludes(c, s) /\ a # None
    BY <1>4, AnswerConcludes, AnswerConsumes DEF Consumes
  <2>2. CASE UNCHANGED <<currentOperation, currentReplies, accepted>>
    BY <1>2, <2>2
  <2>3. CASE /\ currentReplies' = [currentReplies EXCEPT ![c] = NoReplies]
             /\ \A d \in Client \ {c} : currentOperation'[d] = currentOperation[d]
    <3>1. \A d \in Client, t \in Server : currentReplies'[d][t] =
            IF d = c THEN None ELSE currentReplies[d][t]
      BY <2>3 DEF SocketInv, TypeOK, NoReplies
    <3> QED
      BY <1>9, <2>3, <3>1 DEF KeptIsBacked
  <2>4. CASE /\ currentOperation[c] = a.uuid /\ a.type = "SingleReply"
             /\ currentReplies' = [currentReplies EXCEPT ![c][s] = a.result]
             /\ UNCHANGED <<currentOperation, accepted>>
    <3>1. a.uuid \in Writes => s \in Executors(a.uuid, a.result)
      BY <2>1, <2>4, AnswerToWrite DEF EvidenceInv
    <3>2. \A d \in Client, t \in Server : currentReplies'[d][t] =
            IF d = c /\ t = s THEN a.result ELSE currentReplies[d][t]
      BY <2>4 DEF SocketInv, TypeOK
    <3> QED
      BY <1>9, <2>4, <3>1, <3>2 DEF KeptIsBacked
  <2>5. ASSUME NEW v, NEW by, ResolveCurrentOperation(c, v, by)
        PROVE  KeptIsBacked'
    <3>1. \A d \in Client \ {c} : currentOperation'[d] = currentOperation[d]
      BY <2>5 DEF ResolveCurrentOperation, SocketInv, TypeOK
    <3> QED
      BY <2>3, <2>5, <3>1 DEF ResolveCurrentOperation
  <2>6. CASE /\ currentReplies' = [currentReplies EXCEPT ![c] = NoReplies]
             /\ UNCHANGED currentOperation
    BY <2>3, <2>6
  <2> QED
    BY <2>1, <2>2, <2>4, <2>5, <2>6 DEF Concludes
<1> QED
  BY <1>2, <1>3, <1>4, ProgramFrame

\* A result that c accepts is that of its operation in course, told by as many
\* servers as it takes.
Accepts(c, u, v) ==
  /\ u \in Uuid /\ u[1] = c /\ u[2] = submitted[c] /\ Started(u, submitted)
  /\ v \in Int
  /\ Kind(u) = "write" => 3 * Cardinality(Executors(u, v)) >= 2 * N + 1
  /\ Kind(u) = "read" =>
       \E T \in SUBSET Server :
         /\ Cardinality(T) >= N \div 2
         /\ \A t \in T : \/ \E a \in Given(t) : a.uuid = u /\ a.result = v
                         \/ /\ currentOperation[c] = u
                            /\ currentReplies[c][t] = v /\ v # None

\* What c accepts on an answer, if anything.
LEMMA AcceptsWhat ==
  ASSUME ServiceInv, NEW c \in Client, NEW s \in Server, HandleAnswer(c, s)
  PROVE  /\ UNCHANGED <<submitted, cluster>>
         /\ \/ UNCHANGED accepted
            \/ \E u, v : \E by \in {None} \cup Server :
                 /\ Accepts(c, u, v)
                 /\ accepted' = [accepted EXCEPT ![c] =
                      Append(@, [uuid |-> u, result |-> v, by |-> by])]
<1> DEFINE a == answers[c][s]
<1> DEFINE u == currentOperation[c]
<1>1. Concludes(c, s) /\ Consumes(c, s) /\ a # None
  BY AnswerConcludes, AnswerConsumes DEF ServiceInv, Consumes
<1>2. a \in Answer /\ a \in Given(s)
  BY <1>1 DEF ServiceInv, SocketInv, TypeOK, Given
<1>3. a.from = s /\ IsBacked(a)
  BY <1>2 DEF ServiceInv, EvidenceInv, AnswersAreBacked
<1>4. ASSUME u = a.uuid
      PROVE  /\ u \in Uuid /\ u[1] = c /\ u[2] = submitted[c]
             /\ Started(u, submitted)
  <2>1. u # None
    BY <1>2, <1>4, NoneType DEF Answer
  <2> QED
    BY <2>1, CurrentType DEF ServiceInv
<1>5. \A v : Executors(u, v) \in SUBSET Server
  BY DEF Executors
<1>6. ASSUME NEW v \in Int, u = a.uuid, a.type = "SingleReply",
             Telling(c, s, v) # {},
             Cardinality(Telling(c, s, v)) >= ThresholdOf(a.uuid)
      PROVE  Accepts(c, u, v)
  <2> DEFINE T == Telling(c, s, v)
  <2>1. T \in SUBSET Server /\ T # {} /\ Cardinality(T) >= ThresholdOf(u)
    BY <1>6 DEF Telling
  <2>2. \A t \in T : \/ t = s /\ a.result = v
                     \/ currentReplies[c][t] = v
    BY DEF Telling, ServiceInv, SocketInv, TypeOK
  <2>3. v # None
    BY NoneType
  <2>4. ASSUME Kind(u) = "write"
        PROVE  3 * Cardinality(Executors(u, v)) >= 2 * N + 1
    <3>1. u \in Writes
      BY <1>4, <1>6, <2>4 DEF Writes
    <3>2. s \in Executors(u, a.result)
      BY <1>1, <1>6, <3>1, AnswerToWrite DEF ServiceInv, EvidenceInv
    <3>3. \A t \in T : t \in Executors(u, v)
      <4> TAKE t \in T
      <4>1. t \in Server
        BY <2>1
      <4> QED
        BY <2>2, <2>3, <3>1, <3>2, <4>1
           DEF ServiceInv, AcceptanceInv, KeptIsBacked
    <3>4. 3 * Cardinality(T) >= 2 * N + 1
      <4>1. ThresholdOf(u) = (2 * N + 3) \div 3
        BY <2>4 DEF ThresholdOf, UpperBoundThreshold
      <4>2. Cardinality(T) \in Nat /\ N \in Nat
        BY <2>1, ServerFinite, ServiceAssumption
      <4> HIDE DEF T, u
      <4> QED
        BY <2>1, <4>1, <4>2
    <3>5. T \subseteq Executors(u, v)
      BY <3>3
    <3> HIDE DEF T, u
    <3> QED
      BY <1>5, <2>1, <3>4, <3>5, MoreServers
  <2>5. ASSUME Kind(u) = "read"
        PROVE  \E S \in SUBSET Server :
                 /\ Cardinality(S) >= N \div 2
                 /\ \A t \in S :
                      \/ \E x \in Given(t) : x.uuid = u /\ x.result = v
                      \/ /\ currentOperation[c] = u
                         /\ currentReplies[c][t] = v /\ v # None
    <3>1. Cardinality(T) >= N \div 2
      BY <2>1, <2>5 DEF ThresholdOf
    <3>2. \A t \in T :
            \/ \E x \in Given(t) : x.uuid = u /\ x.result = v
            \/ currentOperation[c] = u /\ currentReplies[c][t] = v /\ v # None
      BY <1>2, <1>6, <2>2, <2>3
    <3> QED
      BY <2>1, <3>1, <3>2
  <2> QED
    BY <1>4, <1>6, <2>4, <2>5 DEF Accepts
<1>7. ASSUME u = a.uuid, a.type = "CollectiveReply",
             3 * Cardinality(a.acknowledgments) >= 2 * N + 1
      PROVE  Accepts(c, u, a.result)
  <2>1. u \in Writes
    BY <1>3, <1>7 DEF IsBacked
  <2>2. a.acknowledgments \subseteq Executors(u, a.result)
    BY <1>3, <1>7, <2>1 DEF IsBacked
  <2>3. 3 * Cardinality(Executors(u, a.result)) >= 2 * N + 1
    <3>1. a.acknowledgments \in SUBSET Server
      BY <1>5, <2>2
    <3> QED
      BY <1>5, <1>7, <2>2, <3>1, MoreServers
  <2>4. Kind(u) = "write"
    BY <2>1, WriteType
  <2> QED
    BY <1>2, <1>4, <1>7, <2>3, <2>4 DEF Accepts, Answer
<1>8. UNCHANGED <<submitted, cluster>>
  BY <1>1 DEF Consumes
<1>9. ASSUME NEW v, NEW by \in {None} \cup Server, Accepts(c, u, v),
             ResolveCurrentOperation(c, v, by)
      PROVE  \E x, y : \E z \in {None} \cup Server :
               /\ Accepts(c, x, y)
               /\ accepted' = [accepted EXCEPT ![c] =
                    Append(@, [uuid |-> x, result |-> y, by |-> z])]
  BY <1>9 DEF ResolveCurrentOperation
<1> QED
  BY <1>1, <1>6, <1>7, <1>8, <1>9 DEF Concludes

\* What a client has accepted after a step, it had before or accepts in it.
LEMMA AcceptedGrows ==
  ASSUME ServiceInv, [Next]_vars
  PROVE  \A c \in Client : \A a \in AcceptedBy(c)' :
           \/ a \in AcceptedBy(c)
           \/ Accepts(c, a.uuid, a.result) /\ UNCHANGED <<submitted, cluster>>
<1>1. ASSUME UNCHANGED accepted
      PROVE  \A d \in Client : \A a \in AcceptedBy(d)' : a \in AcceptedBy(d)
  BY <1>1 DEF AcceptedBy
<1>2. ASSUME NEW c \in Client, NEW s \in Server, HandleAnswer(c, s)
      PROVE  \A d \in Client : \A a \in AcceptedBy(d)' :
               \/ a \in AcceptedBy(d)
               \/ Accepts(d, a.uuid, a.result) /\ UNCHANGED <<submitted, cluster>>
  <2>1. UNCHANGED <<submitted, cluster>>
    BY <1>2, AcceptsWhat
  <2>2. ASSUME NEW u, NEW v, NEW by \in {None} \cup Server, Accepts(c, u, v),
               accepted' = [accepted EXCEPT ![c] =
                 Append(@, [uuid |-> u, result |-> v, by |-> by])]
        PROVE  \A d \in Client : \A a \in AcceptedBy(d)' :
                 a \in AcceptedBy(d) \/ Accepts(d, a.uuid, a.result)
    <3> DEFINE x == [uuid |-> u, result |-> v, by |-> by]
    <3> DEFINE S == [uuid : Uuid, result : Int, by : {None} \cup Server]
    <3>1. x \in S
      BY <2>2 DEF Accepts
    <3>2. accepted \in [Client -> Seq(S)]
      BY DEF ServiceInv, SocketInv, TypeOK
    <3>3. Range(Append(accepted[c], x)) = Range(accepted[c]) \cup {x}
      <4> HIDE DEF x, S
      <4> QED
        BY <3>1, <3>2, AppendType
    <3>4. \A d \in Client :
            accepted'[d] = IF d = c THEN Append(accepted[c], x) ELSE accepted[d]
      BY <2>2, <3>2
    <3>5. x.uuid = u /\ x.result = v
      OBVIOUS
    <3> HIDE DEF x, S
    <3> TAKE d \in Client
    <3>6. AcceptedBy(d)' = IF d = c THEN AcceptedBy(c) \cup {x} ELSE AcceptedBy(d)
      BY <3>3, <3>4 DEF AcceptedBy
    <3> QED
      BY <2>2, <3>5, <3>6
  <2> QED
    BY <1>1, <1>2, <2>1, <2>2, AcceptsWhat
<1>3. UNCHANGED accepted \/ \E c \in Client, s \in Server : HandleAnswer(c, s)
  BY ProgramFrame DEF ServiceInv
<1> QED
  BY <1>1, <1>2, <1>3

\* What is accepted was submitted.
LEMMA AcceptedIsPastStep ==
  ASSUME ServiceInv, [Next]_vars PROVE AcceptedIsPast'
<1> SUFFICES ASSUME NEW c \in Client, NEW a \in AcceptedBy(c)'
             PROVE  /\ a.uuid \in Uuid /\ a.uuid[1] = c
                    /\ Started(a.uuid, submitted')
  BY DEF AcceptedIsPast
<1>1. /\ a.uuid \in Uuid /\ a.uuid[1] = c
      /\ Started(a.uuid, submitted)
  BY AcceptedGrows DEF ServiceInv, AcceptanceInv, AcceptedIsPast, Accepts
<1> QED
  BY <1>1, Progress DEF ServiceInv, EvidenceInv, RunInv

\* A write accepted is executed by as many as acknowledge it.

\* A write accepted is executed by as many as acknowledge it.
LEMMA AcceptedIsExecutedStep ==
  ASSUME ServiceInv, [Next]_vars PROVE AcceptedIsExecuted'
<1> SUFFICES ASSUME NEW c \in Client, NEW a \in AcceptedBy(c)',
                    Kind(a.uuid) = "write"
             PROVE  3 * Cardinality(Executors(a.uuid, a.result)') >= 2 * N + 1
  BY DEF AcceptedIsExecuted
<1>1. 3 * Cardinality(Executors(a.uuid, a.result)) >= 2 * N + 1
  <2>1. CASE a \in AcceptedBy(c)
    BY <2>1 DEF ServiceInv, AcceptanceInv, AcceptedIsExecuted
  <2>2. CASE Accepts(c, a.uuid, a.result)
    BY <2>2 DEF Accepts
  <2> QED
    BY <2>1, <2>2, AcceptedGrows
<1>2. Executors(a.uuid, a.result) \subseteq Executors(a.uuid, a.result)'
  BY Progress DEF ServiceInv, EvidenceInv, RunInv
<1>3. /\ Executors(a.uuid, a.result) \in SUBSET Server
      /\ Executors(a.uuid, a.result)' \in SUBSET Server
  BY DEF Executors
<1> QED
  BY <1>1, <1>2, <1>3, MoreServers

\* Who tells the read b of the write u goes on to do so.
LEMMA InformedGrows ==
  ASSUME ServiceInv, [Next]_vars, NEW u, NEW b \in Uuid, Kind(b) = "read",
         KeyOf(u) = KeyOf(b)
  PROVE  Informed(u, b) \subseteq Informed(u, b)'
<1> DEFINE d == b[1]
<1>1. d \in Client
  BY UuidType
<1> SUFFICES ASSUME NEW s \in Informed(u, b) PROVE s \in Informed(u, b)'
  OBVIOUS
<1>2. /\ s \in Server
      /\ AwaitsAfter(machine[s], log[s], u, b)
      /\ \A x \in Given(s) : x.uuid = b => Left(log[s], u, x.result)
      /\ currentOperation[d] = b /\ currentReplies[d][s] # None =>
           Left(log[s], u, currentReplies[d][s])
  BY DEF Informed, Tells
<1>3. /\ \A v : Left(log[s], u, v) => Left(log'[s], u, v)
      /\ AwaitsAfter(machine'[s], log'[s], u, b)
  <2>1. MachineSteps(s)
    BY <1>2, EveryMachineSteps DEF ServiceInv, EvidenceInv, RunInv
  <2> QED
    BY <1>2, <2>1, MachineKeeps DEF ServiceInv, EvidenceInv, RunInv
<1>4. ASSUME NEW x \in Given(s)', x.uuid = b
      PROVE  Left(log'[s], u, x.result)
  <2>1. CASE x \in Given(s)
    BY <1>2, <1>3, <1>4, <2>1
  <2>2. CASE Fresh(s, x)
    <3>1. /\ machine[s].awaiting # <<>> /\ SM!Answered(machine[s]).uuid = b
          /\ SM!Answered(machine[s]).phase = "result"
          /\ SM!Answered(machine[s]).value = x.result
      BY <1>4, <2>2 DEF Fresh
    <3>2. machine[s] \in SM!Machine
      BY <1>2 DEF ServiceInv, SocketInv, TypeOK
    <3>3. Left(log[s], u, SM!Answered(machine[s]).value)
      BY <1>2, <3>1, <3>2, AnsweredAfter
    <3> QED
      BY <1>3, <3>1, <3>3
  <2> QED
    BY <1>2, <2>1, <2>2, GivenGrows DEF ServiceInv, EvidenceInv
<1>5. ASSUME NEW v, v = currentReplies'[d][s], v # None,
             currentOperation'[d] = b
      PROVE  Left(log'[s], u, v)
  <2> SUFFICES Left(log[s], u, v)
    BY <1>3
  <2>1. CASE UNCHANGED <<currentOperation, currentReplies>>
    BY <1>2, <1>5, <2>1
  <2>2. ASSUME NEW c \in Client, currentOperation[c] = None,
               currentOperation' = [currentOperation EXCEPT
                                      ![c] = <<c, submitted[c] + 1>>],
               UNCHANGED currentReplies
        PROVE  Left(log[s], u, v)
    <3>1. d # c
      BY <1>2, <1>5, <2>2 DEF ServiceInv, SocketInv, CurrentIsLast, NoReplies
    <3>2. currentOperation'[d] = currentOperation[d]
      BY <1>1, <2>2, <3>1 DEF ServiceInv, SocketInv, TypeOK
    <3> QED
      BY <1>2, <1>5, <2>2, <3>2
  <2>3. ASSUME NEW c \in Client, NEW t \in Server, HandleAnswer(c, t)
        PROVE  Left(log[s], u, v)
    <3> DEFINE a == answers[c][t]
    <3>1. Concludes(c, t) /\ a # None
      BY <2>3, AnswerConcludes, AnswerConsumes DEF ServiceInv, Consumes
    <3>2. CASE UNCHANGED <<currentOperation, currentReplies, accepted>>
      BY <2>1, <3>2
    <3>3. CASE /\ currentReplies' = [currentReplies EXCEPT ![c] = NoReplies]
               /\ d # c => currentOperation'[d] = currentOperation[d]
      <4>1. d # c
        BY <1>2, <1>5, <3>3 DEF ServiceInv, SocketInv, TypeOK, NoReplies
      <4> QED
        BY <1>1, <1>2, <1>5, <3>3, <4>1 DEF ServiceInv, SocketInv, TypeOK
    <3>4. CASE /\ currentOperation[c] = a.uuid /\ a.type = "SingleReply"
               /\ currentReplies' = [currentReplies EXCEPT ![c][t] = a.result]
               /\ UNCHANGED <<currentOperation, accepted>>
      <4>1. v = IF d = c /\ s = t THEN a.result ELSE currentReplies[d][s]
        BY <1>1, <1>2, <1>5, <3>4 DEF ServiceInv, SocketInv, TypeOK
      <4>2. s = t /\ d = c => Left(log[s], u, a.result)
        BY <1>2, <1>5, <3>1, <3>4 DEF Given
      <4> QED
        BY <1>2, <1>5, <3>4, <4>1, <4>2
    <3>5. ASSUME NEW w, NEW by, ResolveCurrentOperation(c, w, by)
          PROVE  Left(log[s], u, v)
      <4>1. d # c => currentOperation'[d] = currentOperation[d]
        BY <1>1, <3>5 DEF ResolveCurrentOperation, ServiceInv, SocketInv, TypeOK
      <4> QED
        BY <3>3, <3>5, <4>1 DEF ResolveCurrentOperation
    <3>6. CASE /\ currentReplies' = [currentReplies EXCEPT ![c] = NoReplies]
               /\ UNCHANGED <<currentOperation, accepted>>
      BY <3>3, <3>6
    <3> QED
      BY <3>1, <3>2, <3>4, <3>5, <3>6 DEF Concludes
  <2> QED
    BY <2>1, <2>2, <2>3, ProgramFrame DEF ServiceInv
<1>6. Tells(s, u, b)'
  BY <1>3, <1>4, <1>5
     DEF Tells, AwaitsAfter, IsLogged, Follows, Left, DueBefore, IsDue
<1> QED
  BY <1>2, <1>6 DEF Informed

\* Nobody has answered an operation that is not submitted: whoever has executed
\* a write when it is accepted tells every read to come of it.
LEMMA ReadsAreInformedStep ==
  ASSUME ServiceInv, [Next]_vars PROVE ReadsAreInformed'
<1> SUFFICES ASSUME NEW c \in Client, NEW a \in AcceptedBy(c)', NEW b \in Uuid,
                    Kind(a.uuid) = "write", Kind(b) = "read",
                    KeyOf(a.uuid) = KeyOf(b), b[1] = c, a.uuid[2] < b[2]
             PROVE  3 * Cardinality(Informed(a.uuid, b)') >= 2 * N + 1
  BY DEF ReadsAreInformed
<1> DEFINE u == a.uuid
<1>1. Informed(u, b) \in SUBSET Server /\ Informed(u, b)' \in SUBSET Server
  BY DEF Informed
<1>2. CASE a \in AcceptedBy(c)
  <2>1. 3 * Cardinality(Informed(u, b)) >= 2 * N + 1
    BY <1>2 DEF ServiceInv, AcceptanceInv, ReadsAreInformed
  <2>2. Informed(u, b) \subseteq Informed(u, b)'
    BY InformedGrows
  <2> HIDE DEF u
  <2> QED
    BY <1>1, <2>1, <2>2, MoreServers DEF u
<1>3. CASE Accepts(c, u, a.result) /\ UNCHANGED <<submitted, cluster>>
  <2>1. /\ 3 * Cardinality(Executors(u, a.result)) >= 2 * N + 1
        /\ u[2] = submitted[c]
    BY <1>3 DEF Accepts
  <2>2. ~Started(b, submitted')
    <3>1. submitted[c] \in Nat /\ b[2] \in Nat
      BY UuidType DEF ServiceInv, SocketInv, TypeOK
    <3> QED
      BY <1>3, <2>1, <3>1 DEF Started
  <2>3. SocketInv' /\ EvidenceInv'
    BY SocketInvStep, EvidenceStep DEF ServiceInv
  <2>4. currentOperation'[c] # b
    <3>1. b # None
      BY NoneType
    <3>2. SUFFICES ASSUME currentOperation'[c] = b PROVE FALSE
      OBVIOUS
    <3>3. b = <<c, submitted'[c]>> /\ submitted'[c] \in Nat
      BY <2>3, <3>1, <3>2 DEF SocketInv, CurrentIsLast, TypeOK
    <3> QED
      BY <2>2, <3>3 DEF Started
  <2>5. \A s \in Server : \A x \in Given(s)' : x.uuid # b
    BY <2>2, <2>3 DEF EvidenceInv, AnswersAreBacked, IsBacked, Started
  <2>6. \A s \in Server : \A p \in DOMAIN machine'[s].awaiting :
          machine'[s].awaiting[p].uuid # b
    BY <2>2, <2>3 DEF EvidenceInv, RunInv, AwaitingIsStarted, Started
  <2>7. \A s \in Executors(u, a.result) : IsLogged(log'[s], u)
    <3> TAKE s \in Executors(u, a.result)
    <3>1. log'[s] = log[s] /\ [uuid |-> u, result |-> a.result] \in Range(log[s])
      BY <1>3 DEF Executors, cluster
    <3>2. PICK x \in Range(log[s]) : x.uuid = u
      BY <3>1
    <3> HIDE DEF u
    <3> QED
      BY <3>1, <3>2 DEF IsLogged, Range
  <2>8. \A s \in Executors(u, a.result) : Tells(s, u, b)'
    BY <2>4, <2>5, <2>6, <2>7 DEF Tells, AwaitsAfter, IsLogged, Executors
  <2>9. Executors(u, a.result) \subseteq Informed(u, b)'
    BY <2>8 DEF Informed, Executors
  <2>10. Executors(u, a.result) \in SUBSET Server
    BY DEF Executors
  <2> HIDE DEF u
  <2> QED
    BY <1>1, <2>1, <2>9, <2>10, MoreServers DEF u
<1> QED
  BY <1>2, <1>3, AcceptedGrows

\* A read returns what the write or a later one has left on one of those that
\* answer it.
LEMMA ReadsFollowWritesStep ==
  ASSUME ServiceInv, [Next]_vars PROVE ReadsFollowWrites'
<1> SUFFICES ASSUME NEW c \in Client, NEW a \in AcceptedBy(c)',
                    NEW b \in AcceptedBy(c)',
                    Kind(a.uuid) = "write", Kind(b.uuid) = "read",
                    KeyOf(a.uuid) = KeyOf(b.uuid), a.uuid[2] < b.uuid[2]
             PROVE  \E s \in Server : Left(log'[s], a.uuid, b.result)
  BY DEF ReadsFollowWrites, HasLeft, Left
<1>1. /\ b.uuid \in Uuid /\ b.uuid[1] = c
      /\ b.uuid[2] \in Nat /\ submitted[c] \in Nat
      /\ b.uuid[2] <= submitted[c]
  <2>1. b.uuid \in Uuid /\ b.uuid[1] = c /\ Started(b.uuid, submitted)
    BY AcceptedGrows DEF ServiceInv, AcceptanceInv, AcceptedIsPast, Accepts
  <2> QED
    BY <2>1, UuidType DEF Started, ServiceInv, SocketInv, TypeOK
<1>2. a \in AcceptedBy(c)
  BY <1>1, AcceptedGrows DEF Accepts
<1> SUFFICES \E s \in Server : Left(log[s], a.uuid, b.result)
  BY Progress DEF ServiceInv, EvidenceInv, RunInv
<1>3. CASE b \in AcceptedBy(c)
  BY <1>2, <1>3 DEF ServiceInv, AcceptanceInv, ReadsFollowWrites, HasLeft, Left
<1>4. CASE Accepts(c, b.uuid, b.result)
  <2> DEFINE S == Informed(a.uuid, b.uuid)
  <2>1. S \in SUBSET Server /\ 3 * Cardinality(S) >= 2 * N + 1
    BY <1>1, <1>2 DEF ServiceInv, AcceptanceInv, ReadsAreInformed, Informed
  <2>2. PICK T \in SUBSET Server :
          /\ Cardinality(T) >= N \div 2
          /\ \A t \in T :
               \/ \E x \in Given(t) : x.uuid = b.uuid /\ x.result = b.result
               \/ /\ currentOperation[c] = b.uuid
                  /\ currentReplies[c][t] = b.result /\ b.result # None
    BY <1>4 DEF Accepts
  <2>3. PICK t \in T : t \in S
    <3> HIDE DEF S
    <3>1. S \cap T # {}
      BY <2>1, <2>2, ReadMeetsWrite
    <3> QED
      BY <3>1
  <2>4. Left(log[t], a.uuid, b.result)
    BY <1>1, <2>2, <2>3 DEF Informed, Tells
  <2> QED
    BY <2>2, <2>4
<1> QED
  BY <1>3, <1>4, AcceptedGrows

-----------------------------------------------------------------------------
(* Each client behaves as Client says *)

\* What Client assumes of its constants holds of every client.
LEMMA ClientAssumptions ==
  ASSUME NEW c \in Client
  PROVE  /\ N \in Nat \ {0} /\ {} \subseteq ClientOf(c)!Server
         /\ Len(Commands[c]) \in Nat
         /\ {k \in DOMAIN Commands[c] : Kind(<<c, k>>) = "read"}
              \subseteq ClientOf(c)!Uuid
         /\ [s \in Server |-> [k \in DOMAIN Commands[c] |-> Int]]
              \in [ClientOf(c)!Correct -> [ClientOf(c)!Uuid -> SUBSET Int]]
         /\ {} \cap ClientOf(c)!Server = {}
         /\ <<>> \in [{} -> ClientOf(c)!Server]
         /\ MaxRequests \in Nat \ {0}
         /\ None \notin Nat /\ None \notin Int
<1>1. /\ Commands[c] \in Seq(Command)
      /\ N \in Nat \ {0} /\ MaxRequests \in Nat \ {0}
  BY ServiceAssumption
<1>2. DOMAIN Commands[c] = ClientOf(c)!Uuid /\ Len(Commands[c]) \in Nat
  BY <1>1 DEF ClientOf!Uuid
<1>3. ClientOf(c)!Correct = Server
  BY DEF ClientOf!Correct, ClientOf!Server, Server
<1>4. DOMAIN <<>> = {}
  OBVIOUS
<1> QED
  BY <1>1, <1>2, <1>3, <1>4, NoneType

\* What Client sees of c has not changed.
SameClient(c) ==
  /\ submitted'[c] = submitted[c]
  /\ currentOperation'[c] = currentOperation[c]
  /\ currentLeaderId'[c] = currentLeaderId[c]
  /\ submitted[c] # 0 =>
       broadcasts'[<<c, submitted[c]>>] = broadcasts[<<c, submitted[c]>>]
  /\ currentReplies'[c] = currentReplies[c]
  /\ accepted'[c] = accepted[c]
  /\ \A s \in Server : Len(requests'[c][s]) = Len(requests[c][s])

\* Then Client stutters.
LEMMA SameClientStutters ==
  ASSUME NEW c \in Client, SameClient(c)
  PROVE  UNCHANGED ClientOf(c)!vars
BY DEF SameClient, ClientOf!vars, ClientOf!progress

\* A queue is longer by a request, if there is room.
LEMMA QueuedLength ==
  ASSUME NEW c \in Client, NEW queue \in Seq(Request), NEW q \in Request
  PROVE  Len(Queued(queue, q)) = ClientOf(c)!Queued(Len(queue))
BY DEF Queued, ClientOf!Queued

\* A further command: nothing has been broadcast for it yet.
LEMMA SendCommandRefines ==
  ASSUME SocketInv, BroadcastsAreStarted, NEW c \in Client, SendCommand(c)
  PROVE  ClientOf(c)!SendCommand
<1> DEFINE u == <<c, submitted[c] + 1>>
<1> DEFINE l == currentLeaderId[c]
<1> DEFINE q == [uuid |-> u, broadcast |-> broadcasts[u] > 0]
<1>1. /\ currentOperation[c] = None
      /\ submitted[c] < Len(Commands[c])
      /\ submitted' = [submitted EXCEPT ![c] = @ + 1]
      /\ currentOperation' = [currentOperation EXCEPT ![c] = u]
      /\ requests' = [requests EXCEPT ![c][l] = Queued(@, q)]
      /\ UNCHANGED <<currentLeaderId, broadcasts, currentReplies, accepted>>
  BY DEF SendCommand, Unicast
<1>2. /\ submitted[c] \in Nat /\ submitted \in [Client -> Nat]
      /\ currentOperation \in [Client -> Uuid \cup {None}]
      /\ l \in Server /\ requests \in [Client -> [Server -> Seq(Request)]]
      /\ broadcasts \in [Uuid -> Nat]
  BY DEF SocketInv, TypeOK
<1>3. u \in Uuid
  BY SendCommandSockets
<1>4. q \in Request
  BY <1>3 DEF Request
<1>5. broadcasts'[u] = 0
  <2>1. ~Started(u, submitted)
    BY <1>2 DEF Started
  <2> QED
    BY <1>1, <1>2, <1>3, <2>1 DEF BroadcastsAreStarted
<1>6. /\ submitted'[c] = submitted[c] + 1
      /\ currentOperation'[c] = u /\ u # None
  BY <1>1, <1>2, <1>3, NoneType
<1>7. Len(requests'[c][l]) = ClientOf(c)!Queued(Len(requests[c][l]))
      /\ \A s \in Server : s # l => requests'[c][s] = requests[c][s]
  <2> HIDE DEF q, l
  <2>1. /\ requests'[c][l] = Queued(requests[c][l], q)
        /\ \A s \in Server : s # l => requests'[c][s] = requests[c][s]
    BY <1>1, <1>2
  <2>2. requests[c][l] \in Seq(Request)
    BY <1>2
  <2> QED
    BY <1>4, <2>1, <2>2, QueuedLength
<1> DEFINE before == [s \in Server |-> Len(requests[c][s])]
<1> DEFINE after == [s \in Server |-> Len(requests'[c][s])]
<1>8. after = ClientOf(c)!Unicast(before, l)
  <2> HIDE DEF l
  <2> QED
    BY <1>2, <1>7 DEF ClientOf!Unicast
<1> QED
  BY <1>1, <1>2, <1>5, <1>6, <1>8
     DEF ClientOf!SendCommand, ClientOf!IsIdle, ClientOf!ProcessNextOperation,
         ClientOf!Server, Server

\* A request to all makes every queue longer, if there is room.
LEMMA BroadcastLength ==
  ASSUME NEW c \in Client, NEW pending \in [Server -> Seq(Request)],
         NEW u \in Uuid
  PROVE  [s \in Server |-> Len(Broadcast(pending, u)[s])]
           = ClientOf(c)!Broadcast([s \in Server |-> Len(pending[s])])
<1> DEFINE q == [uuid |-> u, broadcast |-> TRUE]
<1>1. q \in Request
  BY DEF Request
<1>2. \A s \in Server : Broadcast(pending, u)[s] = Queued(pending[s], q)
  BY DEF Broadcast
<1> HIDE DEF q
<1>3. \A s \in Server :
        Len(Broadcast(pending, u)[s]) = ClientOf(c)!Queued(Len(pending[s]))
  BY <1>1, <1>2, QueuedLength
<1> QED
  BY <1>3 DEF ClientOf!Broadcast, ClientOf!Server, Server

\* The timer of the operation in course expires: all servers are asked.
LEMMA TimerExpirationRefines ==
  ASSUME SocketInv, NEW c \in Client, TimerExpiration(c),
         NEW k, k = submitted[c]
  PROVE  k \in 1..Len(Commands[c]) /\ ClientOf(c)!TimerExpiration(k)
<1> DEFINE u == currentOperation[c]
<1>1. /\ u # None
      /\ requests' = [requests EXCEPT ![c] = Broadcast(@, u)]
      /\ broadcasts' = [broadcasts EXCEPT ![u] = @ + 1]
      /\ \E s \in Contact[c] :
           currentLeaderId' = [currentLeaderId EXCEPT ![c] = s]
      /\ UNCHANGED <<submitted, currentOperation, currentReplies, accepted>>
  BY DEF TimerExpiration
<1>2. /\ requests \in [Client -> [Server -> Seq(Request)]]
      /\ broadcasts \in [Uuid -> Nat]
      /\ currentLeaderId \in [Client -> Server]
      /\ Contact[c] \subseteq Server
  BY ServiceAssumption DEF SocketInv, TypeOK
<1>3. u \in Uuid /\ u[2] = k /\ u = <<c, k>>
  BY <1>1, CurrentType DEF SocketInv, CurrentIsLast
<1>4. k \in 1..Len(Commands[c])
  <2>1. k \in DOMAIN Commands[c] /\ Commands[c] \in Seq(Command)
    BY <1>3, UuidType
  <2> QED
    BY <2>1
<1>5. broadcasts'[<<c, k>>] > 0
  BY <1>1, <1>2, <1>3
<1> DEFINE before == [s \in Server |-> Len(requests[c][s])]
<1> DEFINE after == [s \in Server |-> Len(requests'[c][s])]
<1>6. after = ClientOf(c)!Broadcast(before)
  <2> HIDE DEF u
  <2>1. requests'[c] = Broadcast(requests[c], u)
    BY <1>1, <1>2
  <2>2. requests[c] \in [Server -> Seq(Request)]
    BY <1>2
  <2> QED
    BY <1>3, <2>1, <2>2, BroadcastLength
<1>7. currentLeaderId'[c] \in Server
  BY <1>1, <1>2
<1>8. k # None
  BY <1>4, NoneType
<1> QED
  BY <1>1, <1>3, <1>4, <1>5, <1>6, <1>7, <1>8
     DEF ClientOf!TimerExpiration, ClientOf!TimersAfter, ClientOf!AskAgain,
         ClientOf!RandomLeaders, ClientOf!Server, Server, ClientOf!progress

\* Whatever comes from a server is what Client lets a correct one send.
LEMMA HeardIsHonest ==
  ASSUME SocketInv, EvidenceInv, NEW c \in Client, NEW s \in Server,
         answers[c][s] # None
  PROVE  Heard(c, s) \in ClientOf(c)!Messages(s)
<1> DEFINE a == answers[c][s]
<1>1. /\ a \in Answer /\ a.from = s /\ IsBacked(a)
  <2>1. a \in Given(s)
    BY DEF Given
  <2> QED
    BY <2>1 DEF SocketInv, TypeOK, EvidenceInv, AnswersAreBacked
<1>2. /\ a.type \in {"SingleReply", "CollectiveReply"} /\ a.uuid \in Uuid
      /\ a.result \in Int /\ a.acknowledgments \in SUBSET Server
  BY <1>1 DEF Answer
<1> HIDE DEF a
<1>3. CASE a.uuid[1] # c
  <2>1. Heard(c, s) = ClientOf(c)!OtherMessage(s)
    BY <1>3 DEF Heard, a
  <2>2. /\ ClientOf(c)!IsUnforged(ClientOf(c)!OtherMessage(s))
        /\ ClientOf(c)!IsHonest(ClientOf(c)!OtherMessage(s))
    BY DEF ClientOf!IsUnforged, ClientOf!IsHonest, ClientOf!OtherMessage
  <2> QED
    BY <2>1, <2>2 DEF ClientOf!Messages
<1>4. CASE a.uuid[1] = c
  <2> DEFINE k == a.uuid[2]
  <2>1. /\ k \in Nat /\ 1 <= k /\ k <= submitted[c] /\ submitted[c] \in Nat
        /\ k \in DOMAIN Commands[c]
    <3>1. k \in DOMAIN Commands[c] /\ Commands[c] \in Seq(Command)
      BY <1>2, <1>4, UuidType
    <3>2. submitted[c] \in Nat /\ k <= submitted[c]
      BY <1>1, <1>4 DEF SocketInv, TypeOK, IsBacked, Started
    <3> HIDE DEF k
    <3> QED
      BY <3>1, <3>2
  <2>2. k \in ClientOf(c)!Started
    BY <2>1 DEF ClientOf!Started
  <2>4. CASE a.type = "SingleReply"
    <3> DEFINE m == [type |-> "SingleReply", from |-> s, uuid |-> k,
                     result |-> a.result]
    <3>1. Heard(c, s) = m
      BY <1>4, <2>4 DEF Heard, a
    <3>2. m \in ClientOf(c)!SingleReplies(s)
      BY <1>2, <2>2 DEF ClientOf!SingleReplies
    <3>3. ClientOf(c)!IsUnforged(m) /\ ClientOf(c)!IsHonest(m)
      BY <1>2, <2>1 DEF ClientOf!IsUnforged, ClientOf!IsHonest
    <3> HIDE DEF m
    <3> QED
      BY <3>1, <3>2, <3>3 DEF ClientOf!Messages
  <2>5. CASE a.type = "CollectiveReply"
    <3> DEFINE m == [type |-> "CollectiveReply", from |-> s, uuid |-> k,
                     result |-> a.result,
                     acknowledgments |-> a.acknowledgments]
    <3>1. Heard(c, s) = m
      BY <1>4, <2>5 DEF Heard, a
    <3>2. m \in ClientOf(c)!CollectiveReplies(s)
      BY <1>2, <2>2 DEF ClientOf!CollectiveReplies, ClientOf!AckKey,
                        ClientOf!Server, Server
    <3>3. a.acknowledgments # None
      BY <1>2, ServiceAssumption
    <3>4. a.acknowledgments \subseteq ClientOf(c)!Signatories(k, a.result)
      BY <1>2, <2>1
         DEF ClientOf!Signatories, ClientOf!Correct, ClientOf!Server, Server
    <3>5. Cardinality(a.acknowledgments) >= UpperBoundThreshold(N)
      BY <1>1, <2>5 DEF IsBacked, Enough
    <3>6. ClientOf(c)!IsHonest(m)
      BY <3>3, <3>4, <3>5
         DEF ClientOf!IsHonest, ClientOf!Cardinality, Cardinality,
             ClientOf!UpperBoundThreshold, UpperBoundThreshold
    <3>7. ClientOf(c)!IsUnforged(m)
      BY <3>4 DEF ClientOf!IsUnforged, ClientOf!SourceOf
    <3> HIDE DEF m
    <3> QED
      BY <3>1, <3>2, <3>6, <3>7 DEF ClientOf!Messages
  <2> QED
    BY <1>2, <2>4, <2>5
<1> QED
  BY <1>3, <1>4

\* An answer leaves a request less on its connection; then all may be asked.
LEMMA AnsweredLength ==
  ASSUME SocketInv, NEW c \in Client, NEW s \in Server, answers[c][s] # None
  PROVE  LET after == [t \in Server |-> Len(requests'[c][t])]
         IN  /\ Len(requests[c][s]) \in Nat /\ Len(requests[c][s]) > 0
             /\ requests' = [requests EXCEPT ![c] = Unanswered(c, s)]
                  => after = ClientOf(c)!Answered(s)
             /\ \A u \in Uuid :
                  requests' = [requests EXCEPT
                                 ![c] = Broadcast(Unanswered(c, s), u)]
                    => after = ClientOf(c)!Broadcast(ClientOf(c)!Answered(s))
<1>1. /\ requests \in [Client -> [Server -> Seq(Request)]]
      /\ requests[c] \in [Server -> Seq(Request)]
      /\ requests[c][s] \in Seq(Request) /\ requests[c][s] # <<>>
  BY DEF SocketInv, TypeOK, SocketsAlternate
<1>2. Len(requests[c][s]) \in Nat /\ Len(requests[c][s]) > 0
  BY <1>1
<1> DEFINE left == Unanswered(c, s)
<1>3. /\ left \in [Server -> Seq(Request)]
      /\ \A t \in Server : t # s => left[t] = requests[c][t]
  BY <1>1, UnansweredType DEF SocketInv
<1>4. Len(left[s]) = Len(requests[c][s]) - 1
  <2>1. left[s] = Tail(requests[c][s])
    BY <1>1 DEF Unanswered
  <2> HIDE DEF left
  <2> QED
    BY <1>1, <2>1
<1> HIDE DEF left
<1>5. [t \in Server |-> Len(left[t])] = ClientOf(c)!Answered(s)
  BY <1>3, <1>4 DEF ClientOf!Answered
<1>6. ASSUME requests' = [requests EXCEPT ![c] = left]
      PROVE  [t \in Server |-> Len(requests'[c][t])] = ClientOf(c)!Answered(s)
  <2>1. requests'[c] = left
    BY <1>1, <1>6
  <2> QED
    BY <1>5, <2>1
<1>7. ASSUME NEW u \in Uuid,
             requests' = [requests EXCEPT ![c] = Broadcast(left, u)]
      PROVE  [t \in Server |-> Len(requests'[c][t])]
               = ClientOf(c)!Broadcast(ClientOf(c)!Answered(s))
  <2>1. requests'[c] = Broadcast(left, u)
    BY <1>1, <1>7
  <2>2. [t \in Server |-> Len(Broadcast(left, u)[t])]
          = ClientOf(c)!Broadcast([t \in Server |-> Len(left[t])])
    BY <1>3, BroadcastLength
  <2> QED
    BY <1>5, <2>1, <2>2
<1> QED
  BY <1>2, <1>6, <1>7 DEF left

\* An operation is resolved as Client resolves it.
LEMMA ResolveRefines ==
  ASSUME SocketInv, NEW c \in Client, NEW v \in Int,
         NEW by \in {None} \cup Server,
         currentOperation[c] # None, ResolveCurrentOperation(c, v, by)
  PROVE  ClientOf(c)!ResolveCurrentOperation(v, by)
<1> DEFINE u == currentOperation[c]
<1> DEFINE x == [uuid |-> u, result |-> v, by |-> by]
<1> DEFINE A == [uuid : Uuid, result : Int, by : {None} \cup Server]
<1>1. /\ currentOperation' = [currentOperation EXCEPT ![c] = None]
      /\ currentReplies' = [currentReplies EXCEPT ![c] = NoReplies]
      /\ accepted' = [accepted EXCEPT ![c] = Append(@, x)]
  BY DEF ResolveCurrentOperation
<1>2. /\ currentOperation \in [Client -> Uuid \cup {None}]
      /\ currentReplies \in [Client -> [Server -> {None} \cup Int]]
      /\ accepted \in [Client -> Seq(A)]
  BY DEF SocketInv, TypeOK
<1>3. /\ currentOperation'[c] = None
      /\ currentReplies'[c] = NoReplies
      /\ accepted'[c] = Append(accepted[c], x)
  BY <1>1, <1>2
<1> DEFINE told(b) == [b EXCEPT !.uuid = @[2]]
<1> DEFINE view(results) == [i \in DOMAIN results |-> told(results[i])]
<1>4. view(Append(accepted[c], x)) = Append(view(accepted[c]), told(x))
  <2>1. accepted[c] \in Seq(A)
    BY <1>2
  <2> HIDE DEF told, A, x
  <2> QED
    BY <2>1
<1>5. told(x) = [uuid |-> u[2], result |-> v, by |-> by]
  OBVIOUS
<1>6. view(accepted'[c]) = Append(view(accepted[c]),
                                  [uuid |-> u[2], result |-> v, by |-> by])
  <2> HIDE DEF view, told, x
  <2> QED
    BY <1>3, <1>4, <1>5
<1> QED
  BY <1>3, <1>6
     DEF ClientOf!ResolveCurrentOperation, ClientOf!RepliesCleared,
         ClientOf!NoReplies, NoReplies, ClientOf!Server, Server

\* What Client sees of an answer, and of the operation in course.
LEMMA HeardWhat ==
  ASSUME SocketInv, EvidenceInv, NEW c \in Client, NEW s \in Server,
         answers[c][s] # None
  PROVE  LET a == answers[c][s]
             m == Heard(c, s)
             k == IF currentOperation[c] = None THEN None
                  ELSE currentOperation[c][2]
         IN  /\ a \in Answer
             /\ m.from = s
             /\ a.uuid[1] # c => m.type = "Other" /\ ~AnswersCurrent(c, a)
             /\ a.uuid[1] = c =>
                  /\ m.type = a.type /\ m.uuid = a.uuid[2]
                  /\ m.result = a.result
                  /\ AnswersCurrent(c, a) <=> k = m.uuid
                  /\ a.type = "CollectiveReply" =>
                       m.acknowledgments = a.acknowledgments
<1> DEFINE a == answers[c][s]
<1> DEFINE m == Heard(c, s)
<1> DEFINE k == IF currentOperation[c] = None THEN None
                ELSE currentOperation[c][2]
<1>1. a \in Answer
  BY DEF SocketInv, TypeOK
<1>2. a.type \in {"SingleReply", "CollectiveReply"} /\ a.uuid \in Uuid
  BY <1>1 DEF Answer
<1>3. a.uuid = <<a.uuid[1], a.uuid[2]>> /\ a.uuid[2] \in Nat
  BY <1>2, UuidType
<1>4. AnswersCurrent(c, a) <=> a.uuid[1] = c /\ k = a.uuid[2]
  <2>1. CASE currentOperation[c] = None
    BY <1>2, <1>3, <2>1, NoneType DEF AnswersCurrent
  <2>2. CASE currentOperation[c] # None
    <3>1. /\ currentOperation[c] \in Uuid
          /\ currentOperation[c] = <<c, submitted[c]>>
          /\ currentOperation[c][1] = c
      BY <2>2, CurrentType DEF SocketInv, CurrentIsLast
    <3> QED
      BY <1>3, <2>2, <3>1 DEF AnswersCurrent
  <2> QED
    BY <2>1, <2>2
<1> HIDE DEF a, k
<1>5. CASE a.uuid[1] # c
  BY <1>1, <1>4, <1>5 DEF Heard, ClientOf!OtherMessage, a
<1>6. CASE a.uuid[1] = c
  <2>1. /\ m.from = s /\ m.type = a.type /\ m.uuid = a.uuid[2]
        /\ m.result = a.result
        /\ a.type = "CollectiveReply" => m.acknowledgments = a.acknowledgments
    BY <1>2, <1>6 DEF Heard, a
  <2> HIDE DEF m
  <2> QED
    BY <1>1, <1>4, <1>6, <2>1 DEF a, k, m
<1> QED
  BY <1>5, <1>6 DEF a

\* An answer is handled as Client handles what it hears.
LEMMA HandleAnswerRefines ==
  ASSUME SocketInv, EvidenceInv, NEW c \in Client, NEW s \in Server,
         HandleAnswer(c, s)
  PROVE  /\ answers[c][s] # None
         /\ ClientOf(c)!Dispatch(s, Heard(c, s))
<1> DEFINE a == answers[c][s]
<1> DEFINE m == Heard(c, s)
<1> DEFINE k == IF currentOperation[c] = None THEN None
                ELSE currentOperation[c][2]
<1> DEFINE after == [t \in Server |-> Len(requests'[c][t])]
<1>1. a # None /\ submitted' = submitted
  BY DEF HandleAnswer, IgnoreAnswer, ProcessCollectiveReply,
         ProcessSingleReply, Receive
<1>2. /\ a \in Answer /\ a.uuid \in Uuid /\ a.result \in Int
      /\ a.type \in {"SingleReply", "CollectiveReply"}
      /\ m.from = s
      /\ a.uuid[1] # c => m.type = "Other" /\ ~AnswersCurrent(c, a)
      /\ a.uuid[1] = c =>
           /\ m.type = a.type /\ m.uuid = a.uuid[2] /\ m.result = a.result
           /\ AnswersCurrent(c, a) <=> k = m.uuid
           /\ a.type = "CollectiveReply" =>
                m.acknowledgments = a.acknowledgments
  BY <1>1, HeardWhat DEF Answer
<1>3. /\ Len(requests[c][s]) > 0
      /\ requests' = [requests EXCEPT ![c] = Unanswered(c, s)]
           => after = ClientOf(c)!Answered(s)
      /\ requests' = [requests EXCEPT
                        ![c] = Broadcast(Unanswered(c, s), a.uuid)]
           => after = ClientOf(c)!Broadcast(ClientOf(c)!Answered(s))
  BY <1>1, <1>2, AnsweredLength
<1>4. CASE IgnoreAnswer(c, s)
  <2>1. /\ \/ ~AnswersCurrent(c, a)
           \/ a.type = "SingleReply" /\ currentReplies[c][s] # None
        /\ after = ClientOf(c)!Answered(s)
        /\ UNCHANGED <<submitted, currentOperation, currentLeaderId,
                       broadcasts, currentReplies, accepted>>
    BY <1>3, <1>4 DEF IgnoreAnswer, program
  <2> HIDE DEF a, m, after
  <2>2. CASE a.uuid[1] # c
    <3>1. ClientOf(c)!IgnoreMessage(s, m)
      BY <1>2, <1>3, <2>1, <2>2
         DEF ClientOf!IgnoreMessage, ClientOf!progress, after
    <3> QED
      BY <1>1, <3>1 DEF ClientOf!Dispatch, m, a
  <2>3. CASE a.uuid[1] = c /\ a.type = "SingleReply"
    <3>1. ~ClientOf(c)!IsNews(m)
      BY <1>2, <2>1, <2>3 DEF ClientOf!IsNews
    <3>2. ClientOf(c)!ProcessSingleReply(s, m)
      BY <1>2, <1>3, <2>1, <2>3, <3>1
         DEF ClientOf!ProcessSingleReply, ClientOf!Dispatched,
             ClientOf!IsAuthentic, after
    <3> QED
      BY <1>1, <3>2 DEF ClientOf!Dispatch, m, a
  <2>4. CASE a.uuid[1] = c /\ a.type = "CollectiveReply"
    <3>1. k # m.uuid
      BY <1>2, <2>1, <2>4
    <3>2. ClientOf(c)!ProcessCollectiveReply(s, m)
      BY <1>2, <1>3, <2>1, <2>4, <3>1
         DEF ClientOf!ProcessCollectiveReply, ClientOf!Dispatched,
             ClientOf!IsAuthentic, after
    <3> QED
      BY <1>1, <3>2 DEF ClientOf!Dispatch, m, a
  <2> QED
    BY <1>2, <2>2, <2>3, <2>4
<1>5. CASE ProcessCollectiveReply(c, s)
  <2>1. /\ AnswersCurrent(c, a) /\ a.type = "CollectiveReply"
        /\ after = ClientOf(c)!Answered(s)
        /\ currentLeaderId' = [currentLeaderId EXCEPT ![c] = s]
        /\ IF 3 * Cardinality(a.acknowledgments) >= 2 * N + 1
           THEN ResolveCurrentOperation(c, a.result, s)
           ELSE UNCHANGED <<currentOperation, currentReplies, accepted>>
        /\ UNCHANGED broadcasts
    BY <1>3, <1>5 DEF ProcessCollectiveReply
  <2>2. a.uuid[1] = c /\ k = m.uuid /\ currentLeaderId'[c] = m.from
    BY <1>2, <2>1 DEF SocketInv, TypeOK
  <2>3. currentOperation[c] # None
    BY <1>2, <2>1, NoneType DEF AnswersCurrent
  <2> HIDE DEF a, m, after
  <2>4. ClientOf(c)!IsAcknowledged(m)
          <=> 3 * Cardinality(a.acknowledgments) >= 2 * N + 1
    <3>1. a.acknowledgments # None
      BY <1>2, ServiceAssumption DEF Answer
    <3>2. m.acknowledgments = a.acknowledgments
      BY <1>2, <2>1, <2>2
    <3> QED
      BY <3>1, <3>2 DEF ClientOf!IsAcknowledged, ClientOf!Cardinality, Cardinality
  <2>5. ASSUME ResolveCurrentOperation(c, a.result, s)
        PROVE  ClientOf(c)!ResolveCurrentOperation(m.result, m.from)
    <3>1. ClientOf(c)!ResolveCurrentOperation(a.result, s)
      BY <1>2, <2>3, <2>5, ResolveRefines
    <3>2. m.result = a.result /\ m.from = s
      BY <1>2, <2>2
    <3> QED
      BY <3>1, <3>2 DEF ClientOf!ResolveCurrentOperation
  <2>6. ClientOf(c)!ProcessCollectiveReply(s, m)
    BY <1>1, <1>2, <1>3, <2>1, <2>2, <2>4, <2>5
       DEF ClientOf!ProcessCollectiveReply, ClientOf!Dispatched,
           ClientOf!IsAuthentic, after
  <2> QED
    BY <1>1, <2>6 DEF ClientOf!Dispatch, m, a
<1>6. CASE ProcessSingleReply(c, s)
  <2> DEFINE known == [currentReplies[c] EXCEPT ![s] = a.result]
  <2> DEFINE u == currentOperation[c]
  <2> DEFINE threshold == ClientOf(c)!ConsensusThreshold(u[2])
  <2> DEFINE enough == ClientOf(c)!EnoughMatchingReplies(known, threshold)
  <2>1. /\ AnswersCurrent(c, a) /\ a.type = "SingleReply"
        /\ currentReplies[c][s] = None
        /\ IF enough # {}
           THEN /\ \E v \in enough : ResolveCurrentOperation(c, v, None)
                /\ after = ClientOf(c)!Answered(s)
                /\ UNCHANGED broadcasts
           ELSE IF ClientOf(c)!CanReachConsensus(known)
           THEN /\ currentReplies' = [currentReplies EXCEPT ![c] = known]
                /\ after = ClientOf(c)!Answered(s)
                /\ UNCHANGED <<currentOperation, broadcasts, accepted>>
           ELSE /\ currentReplies' = [currentReplies EXCEPT ![c] = NoReplies]
                /\ after = ClientOf(c)!Broadcast(ClientOf(c)!Answered(s))
                /\ broadcasts' = [broadcasts EXCEPT
                                    ![a.uuid] = IF @ = 0 THEN 1 ELSE @]
                /\ UNCHANGED <<currentOperation, accepted>>
        /\ UNCHANGED currentLeaderId
    BY <1>3, <1>6 DEF ProcessSingleReply
  <2>2. /\ a.uuid[1] = c /\ k = m.uuid /\ u = a.uuid /\ u # None
        /\ m.uuid = u[2] /\ u = <<c, submitted[c]>>
        /\ submitted[c] \in Nat /\ submitted[c] # 0 /\ u[2] = submitted[c]
    <3>1. u = a.uuid
      BY <2>1 DEF AnswersCurrent
    <3>2. u # None /\ u = <<c, submitted[c]>> /\ u[2] = submitted[c]
      BY <1>2, <3>1, NoneType, CurrentType DEF SocketInv, CurrentIsLast
    <3>3. submitted[c] \in Nat /\ submitted[c] # 0
      <4>1. u[2] \in DOMAIN Commands[u[1]]
            /\ Commands[u[1]] \in Seq(Command)
        BY <1>2, <3>1, UuidType
      <4> QED
        BY <3>2, <4>1
    <3>4. u[1] = c
      BY <3>2
    <3> QED
      BY <1>2, <2>1, <3>1, <3>2, <3>3, <3>4
  <2>3. /\ ClientOf(c)!IsNews(m)
        /\ ClientOf(c)!RepliesWith(m) = known
        /\ ClientOf(c)!EnoughMatchingReplies(
             known, ClientOf(c)!ConsensusThreshold(m.uuid)) = enough
    BY <1>2, <2>1, <2>2 DEF ClientOf!IsNews, ClientOf!RepliesWith
  <2>4. enough \subseteq Int
    <3>1. currentReplies[c] \in [Server -> {None} \cup Int]
      BY DEF SocketInv, TypeOK
    <3>2. \A t \in Server : known[t] \in {None} \cup Int
      BY <1>2, <3>1
    <3> HIDE DEF known, threshold
    <3>3. enough \subseteq {known[t] : t \in Server} \ {None}
      BY DEF ClientOf!EnoughMatchingReplies, ClientOf!Told, ClientOf!Server,
             Server
    <3> QED
      BY <3>2, <3>3
  <2>5. /\ currentReplies \in [Client -> [Server -> {None} \cup Int]]
        /\ broadcasts \in [Uuid -> Nat]
    BY DEF SocketInv, TypeOK
  <2> HIDE DEF a, m, after, known, enough, threshold, u
  <2>6. ASSUME enough # {}
        PROVE  ClientOf(c)!CountReply(s, m)
    <3>1. \E v \in enough : ClientOf(c)!ResolveCurrentOperation(v, None)
      BY <2>1, <2>2, <2>4, <2>6, ResolveRefines DEF u
    <3> QED
      BY <1>1, <2>1, <2>3, <2>6, <3>1 DEF ClientOf!CountReply, after
  <2>7. ASSUME enough = {} /\ ClientOf(c)!CanReachConsensus(known)
        PROVE  ClientOf(c)!CountReply(s, m)
    <3>1. currentReplies'[c] = known
      BY <2>1, <2>5, <2>7
    <3> QED
      BY <1>1, <2>1, <2>3, <2>7, <3>1 DEF ClientOf!CountReply, after
  <2>8. ASSUME enough = {} /\ ~ClientOf(c)!CanReachConsensus(known)
        PROVE  ClientOf(c)!CountReply(s, m)
    <3>1. currentReplies'[c] = NoReplies
      BY <2>1, <2>5, <2>8
    <3>2. broadcasts'[u] > 0
      BY <1>2, <2>1, <2>2, <2>5, <2>8
    <3> QED
      BY <1>1, <2>1, <2>2, <2>3, <2>8, <3>1, <3>2
         DEF ClientOf!CountReply, ClientOf!NoReplies, NoReplies,
             ClientOf!Server, Server, u, after
  <2>9. ClientOf(c)!CountReply(s, m)
    BY <2>6, <2>7, <2>8
  <2>10. ClientOf(c)!ProcessSingleReply(s, m)
    BY <1>1, <1>2, <1>3, <2>1, <2>2, <2>3, <2>9
       DEF ClientOf!ProcessSingleReply, ClientOf!Dispatched,
           ClientOf!IsAuthentic
  <2> QED
    BY <1>1, <2>10 DEF ClientOf!Dispatch, m, a
<1> QED
  BY <1>4, <1>5, <1>6 DEF HandleAnswer

\* The steps of others, and of the servers, are none of c's.
LEMMA StepsOfClient ==
  ASSUME SocketInv, SubmittedExist, [Next]_vars, NEW c \in Client
  PROVE  \/ SameClient(c)
         \/ SendCommand(c) \/ TimerExpiration(c)
         \/ \E s \in Server : HandleAnswer(c, s)
<1>1. /\ submitted \in [Client -> Nat]
      /\ currentOperation \in [Client -> Uuid \cup {None}]
      /\ currentLeaderId \in [Client -> Server]
      /\ broadcasts \in [Uuid -> Nat]
      /\ currentReplies \in [Client -> [Server -> {None} \cup Int]]
      /\ accepted \in [Client -> Seq([uuid : Uuid, result : Int,
                                      by : {None} \cup Server])]
      /\ requests \in [Client -> [Server -> Seq(Request)]]
  BY DEF SocketInv, TypeOK
<1>2. submitted[c] # 0 => <<c, submitted[c]>> \in Uuid
  <2>1. submitted[c] \in Nat /\ submitted[c] <= Len(Commands[c])
    BY <1>1 DEF SubmittedExist
  <2> QED
    BY <2>1, CommandUuid
<1>3. ASSUME UNCHANGED <<program, requests>> PROVE SameClient(c)
  BY <1>3 DEF program, SameClient
<1>4. ASSUME NEW d \in Client, d # c, SendCommand(d) PROVE SameClient(c)
  <2>1. /\ submitted' = [submitted EXCEPT ![d] = @ + 1]
        /\ currentOperation' = [currentOperation EXCEPT
                                  ![d] = <<d, submitted[d] + 1>>]
        /\ requests' = Unicast(d, <<d, submitted[d] + 1>>)
        /\ UNCHANGED <<currentLeaderId, broadcasts, currentReplies, accepted>>
    BY <1>4 DEF SendCommand
  <2>2. requests'[c] = requests[c]
    BY <1>1, <1>4, <2>1 DEF Unicast
  <2> QED
    BY <1>1, <1>4, <2>1, <2>2 DEF SameClient
<1>5. ASSUME NEW d \in Client, d # c, NEW u \in Uuid,
             u = <<d, submitted[d]>>, NEW x,
             broadcasts' = [broadcasts EXCEPT ![u] = x]
      PROVE  submitted[c] # 0 =>
               broadcasts'[<<c, submitted[c]>>] = broadcasts[<<c, submitted[c]>>]
  BY <1>1, <1>2, <1>5
<1>6. ASSUME NEW d \in Client, d # c, TimerExpiration(d) PROVE SameClient(c)
  <2> DEFINE u == currentOperation[d]
  <2>1. /\ u # None
        /\ requests' = [requests EXCEPT ![d] = Broadcast(@, u)]
        /\ broadcasts' = [broadcasts EXCEPT ![u] = @ + 1]
        /\ \E s \in Contact[d] :
             currentLeaderId' = [currentLeaderId EXCEPT ![d] = s]
        /\ UNCHANGED <<submitted, currentOperation, currentReplies, accepted>>
    BY <1>6 DEF TimerExpiration
  <2>2. u \in Uuid /\ u = <<d, submitted[d]>>
    BY <2>1, CurrentType DEF SocketInv, CurrentIsLast
  <2>3. /\ requests'[c] = requests[c]
        /\ currentLeaderId'[c] = currentLeaderId[c]
    BY <1>1, <1>6, <2>1
  <2> HIDE DEF u
  <2> QED
    BY <1>5, <1>6, <2>1, <2>2, <2>3 DEF SameClient
<1>7. ASSUME NEW d \in Client, d # c, NEW s \in Server, HandleAnswer(d, s)
      PROVE  SameClient(c)
  <2> DEFINE u == currentOperation[d]
  <2> DEFINE a == answers[d][s]
  <2>1. a # None /\ a \in Answer /\ UNCHANGED submitted
    <3>1. a # None /\ UNCHANGED submitted
      BY <1>7, AnswerConsumes DEF Consumes
    <3>2. a \in Answer \cup {None}
      BY DEF SocketInv, TypeOK
    <3> QED
      BY <3>1, <3>2
  <2>2. \/ UNCHANGED broadcasts
        \/ /\ u = a.uuid
           /\ \E x : broadcasts' = [broadcasts EXCEPT ![a.uuid] = x]
    <3>1. CASE IgnoreAnswer(d, s)
      BY <3>1 DEF IgnoreAnswer, program
    <3>2. CASE ProcessCollectiveReply(d, s)
      BY <3>2 DEF ProcessCollectiveReply
    <3>3. CASE ProcessSingleReply(d, s)
      BY <3>3 DEF ProcessSingleReply, AnswersCurrent
    <3> QED
      BY <1>7, <3>1, <3>2, <3>3 DEF HandleAnswer
  <2>3. submitted[c] # 0 =>
          broadcasts'[<<c, submitted[c]>>] = broadcasts[<<c, submitted[c]>>]
    <3>1. ASSUME u = a.uuid PROVE u \in Uuid /\ u = <<d, submitted[d]>>
      <4>1. u \in Uuid /\ u # None
        BY <2>1, <3>1, NoneType DEF Answer
      <4> QED
        BY <4>1 DEF SocketInv, CurrentIsLast
    <3> QED
      BY <1>5, <1>7, <2>2, <3>1
  <2>4. /\ \/ UNCHANGED requests
           \/ \E left : requests' = [requests EXCEPT ![d] = left]
        /\ \/ UNCHANGED currentLeaderId
           \/ currentLeaderId' = [currentLeaderId EXCEPT ![d] = s]
    BY <1>7 DEF HandleAnswer, IgnoreAnswer, ProcessCollectiveReply,
                ProcessSingleReply, program
  <2>5. /\ currentOperation'[c] = currentOperation[c]
        /\ currentReplies'[c] = currentReplies[c]
        /\ accepted'[c] = accepted[c]
    <3>1. Concludes(d, s)
      BY <1>7, AnswerConcludes
    <3>2. /\ \/ UNCHANGED currentOperation
             \/ currentOperation' = [currentOperation EXCEPT ![d] = None]
          /\ \/ UNCHANGED currentReplies
             \/ currentReplies' = [currentReplies EXCEPT ![d] = NoReplies]
             \/ currentReplies' = [currentReplies EXCEPT ![d][s] = a.result]
          /\ \/ UNCHANGED accepted
             \/ \E results : accepted' = [accepted EXCEPT ![d] = results]
      <4> HIDE DEF a
      <4> QED
        BY <3>1 DEF Concludes, ResolveCurrentOperation, a
    <3> HIDE DEF a
    <3> QED
      BY <1>1, <1>7, <3>2
  <2>6. /\ requests'[c] = requests[c]
        /\ currentLeaderId'[c] = currentLeaderId[c]
    BY <1>1, <1>7, <2>4
  <2> HIDE DEF u, a
  <2> QED
    BY <2>1, <2>3, <2>5, <2>6 DEF SameClient
<1>8. ASSUME NEW d \in Client, NEW s \in Server, HandleRequest(s, d)
      PROVE  UNCHANGED <<program, requests>>
  BY <1>8 DEF HandleRequest, DiscardRequest, AnswerLastOp, ExecuteRead,
              BroadcastInit, TakeOperation, Take
<1>9. ASSUME \/ \E s \in Server : \/ SendAnswer(s)
                                    \/ ExecutionResumes(s)
                                    \/ ExecutionCompletes(s)
             \/ \E s \in Server, q \in inits : Accept(s, q)
             \/ \E r \in Server : \E b \in Range(log[r]) :
                  ReceiveSingleReply(r, b)
             \/ UNCHANGED vars
      PROVE  UNCHANGED <<program, requests>>
  BY <1>9 DEF SendAnswer, ExecutionResumes, ExecutionCompletes, IsAnswered,
              Accept, ReceiveSingleReply, vars
<1> QED
  BY <1>3, <1>4, <1>6, <1>7, <1>8, <1>9 DEF Next, Ask, Serve

\* Every step is a step of Client, or none of it, for each of the clients.
LEMMA ClientStep ==
  ASSUME ServiceInv, [Next]_vars, NEW c \in Client
  PROVE  UNCHANGED ClientOf(c)!vars \/ ClientNext(c)
<1>1. SocketInv /\ EvidenceInv /\ SubmittedExist /\ BroadcastsAreStarted
  BY DEF ServiceInv, EvidenceInv, RunInv
<1>2. ASSUME SameClient(c) PROVE UNCHANGED ClientOf(c)!vars
  BY <1>2, SameClientStutters
<1>3. ASSUME SendCommand(c) PROVE ClientNext(c)
  BY <1>1, <1>3, SendCommandRefines DEF ClientNext
<1>4. ASSUME TimerExpiration(c) PROVE ClientNext(c)
  <2>1. PICK k : k = submitted[c]
    OBVIOUS
  <2> QED
    BY <1>1, <1>4, <2>1, TimerExpirationRefines DEF ClientNext
<1>5. ASSUME NEW s \in Server, HandleAnswer(c, s) PROVE ClientNext(c)
  BY <1>1, <1>5, HandleAnswerRefines, HeardIsHonest DEF ClientNext
<1> QED
  BY <1>1, <1>2, <1>3, <1>4, <1>5, StepsOfClient

\* A client begins as Client does.
LEMMA ClientInit ==
  ASSUME Init, NEW c \in Client
  PROVE  ClientOf(c)!Init
<1>1. /\ submitted[c] = 0 /\ currentOperation[c] = None
      /\ currentLeaderId[c] \in Server /\ currentReplies[c] = NoReplies
      /\ accepted[c] = <<>> /\ \A s \in Server : requests[c][s] = <<>>
  BY DEF Init
<1> QED
  BY <1>1 DEF ClientOf!Init, ClientOf!RandomLeaders, ClientOf!NoReplies,
              NoReplies, ClientOf!Server, Server

-----------------------------------------------------------------------------
(* The theorems *)

-----------------------------------------------------------------------------
(* The theorems *)

\* A state machine begins with nothing stored.
LEMMA EmptyMachineType ==
  /\ SM!EmptyMachine \in SM!Machine
  /\ SM!EmptyMachine.awaiting = <<>> /\ DOMAIN SM!EmptyMachine.awaiting = {}
BY DEF SM!EmptyMachine, SM!Machine

\* Nothing is asked, executed, answered or accepted at first.
LEMMA ServiceInvInit == ASSUME Init PROVE ServiceInv
<1>1. TypeOK
  <2>1. currentLeaderId \in [Client -> Server]
    BY DEF Init
  <2>2. machine \in [Server -> SM!Machine]
    BY EmptyMachineType DEF Init
  <2> QED
    BY <2>1, <2>2 DEF Init, TypeOK, NoReplies
<1>2. SocketInv
  BY <1>1, NoneType DEF Init, SocketInv, SocketsAlternate, InitsAreWrites,
                        CurrentIsLast
<1>3. \A s \in Server : Given(s) = {}
  BY DEF Init, Given, Range
<1>4. \A s \in Server : /\ log[s] = <<>> /\ Range(log[s]) = {}
                        /\ machine[s] = SM!EmptyMachine
                        /\ DOMAIN machine[s].awaiting = {}
  BY EmptyMachineType DEF Init, Range
<1>5. MachineInv
  BY <1>4 DEF MachineInv, MachinesAreConsistent, LogsAreWrites, IsFaithful,
              IsConsistent, IsLogged
<1>6. EvidenceInv
  <2>1. \A c \in Client : Len(Commands[c]) \in Nat
    BY ServiceAssumption
  <2>2. SubmittedExist
    BY <2>1 DEF Init, SubmittedExist
  <2>3. AwaitingIsStarted /\ LogIsStarted
    BY <1>4 DEF AwaitingIsStarted, LogIsStarted
  <2>4. RequestsAreStarted /\ BroadcastsAreStarted /\ InitsAreStarted
    BY DEF Init, RequestsAreStarted, BroadcastsAreStarted, InitsAreStarted
  <2>5. RepliesAreExecuted
    BY DEF Init, RepliesAreExecuted, NoReplies
  <2> QED
    BY <1>3, <1>5, <2>2, <2>3, <2>4, <2>5
       DEF EvidenceInv, RunInv, AnswersAreBacked
<1>7. \A c \in Client : AcceptedBy(c) = {}
  BY DEF Init, AcceptedBy, Range
<1>8. AcceptanceInv
  BY <1>7 DEF Init, AcceptanceInv, KeptIsBacked, AcceptedIsPast,
              AcceptedIsExecuted, ReadsAreInformed, ReadsFollowWrites, NoReplies
<1> QED
  BY <1>2, <1>6, <1>8 DEF ServiceInv

\* Every step of a client, a socket, a handler or a server keeps the invariant.
LEMMA ServiceInvStep == ASSUME ServiceInv, [Next]_vars PROVE ServiceInv'
<1>1. SocketInv' /\ EvidenceInv'
  BY SocketInvStep, EvidenceStep DEF ServiceInv
<1>2. KeptIsBacked'
  BY KeptStep DEF ServiceInv, AcceptanceInv
<1> QED
  BY <1>1, <1>2, AcceptedIsPastStep, AcceptedIsExecutedStep,
     ReadsAreInformedStep, ReadsFollowWritesStep DEF ServiceInv, AcceptanceInv

\* The inductive invariant: what the sockets hold, what the state machines have
\* stored and still await, what backs the answers on their way, and what a
\* client keeps and accepts of those (networkController.ts, server.ts,
\* redisCommand.ts, trebizondClient.ts as the module maps them).
THEOREM ServiceInvariance == Spec => []ServiceInv
<1>1. Init => ServiceInv
  BY ServiceInvInit
<1>2. ServiceInv /\ [Next]_vars => ServiceInv'
  BY ServiceInvStep
<1> QED
  BY <1>1, <1>2, PTL DEF Spec

\* The variables keep their types: no handler takes a request or an answer that
\* is not there.
THEOREM ServiceTypeCorrectness == Spec => []TypeOK
<1>1. ServiceInv => TypeOK
  BY DEF ServiceInv, SocketInv
<1> QED
  BY <1>1, ServiceInvariance, PTL

\* Answers go to whichever request a socket has taken, and servers may obtain
\* different results of one write; and yet a client accepts for a write no
\* result that fewer servers have executed it with than acknowledge it
\* (server.ts:571-660, trebizondClient.ts:160-214).
THEOREM AcceptingTheExecuted == Spec => []AcceptedIsExecuted
<1>1. ServiceInv => AcceptedIsExecuted
  BY DEF ServiceInv, AcceptanceInv
<1> QED
  BY <1>1, ServiceInvariance, PTL

\* Reads are answered without being ordered, and a write may be lost to one that
\* overlaps it; and yet what a client reads after a write of the same key has
\* been left, on some server, by that write or one that followed it: N div 2
\* servers meet those that acknowledge a write (server.ts:266-280,
\* trebizondClient.ts:186-214, redisCommand.ts:77-103).
THEOREM ReadsFollowingWrites == Spec => []ReadsFollowWrites
<1>1. ServiceInv => ReadsFollowWrites
  BY DEF ServiceInv, AcceptanceInv
<1> QED
  BY <1>1, ServiceInvariance, PTL

\* Each client behaves as Client says, and whatever the servers, their sockets
\* and their leaders send it, for whichever request, is what Client lets correct
\* servers send: the theorems about Client hold of the clients of a service
\* (networkController.ts:398-470, server.ts:571-660, trebizondClient.ts:89-339).
THEOREM ClientRefinement == Spec => ClientsAreClients
<1>1. Init => \A c \in Client : ClientOf(c)!Init
  BY ClientInit
<1>2. ServiceInv /\ [Next]_vars
        => [\A c \in Client : UNCHANGED ClientOf(c)!vars \/ ClientNext(c)]_vars
  BY ClientStep
<1> QED
  BY <1>1, <1>2, ServiceInvariance, PTL DEF Spec, ClientsAreClients
=============================================================================
