----------------------- MODULE AtomicBroadcastProofs ------------------------
(***************************************************************************)
(* Theorems about AtomicBroadcast, for every cluster, every set of faulty  *)
(* replicas of at most F members, and every set of operations.             *)
(***************************************************************************)
EXTENDS AtomicBroadcast, FiniteSetTheorems, WellFoundedInduction, TLAPS

-----------------------------------------------------------------------------
(* Counting replicas *)

\* A cluster has a natural number N of replicas, and so is its threshold F.
LEMMA ClusterNat == N \in Nat /\ F \in Nat
<1>1. N \in Nat
  BY FS_CardinalityType, ClusterAssumption DEF N
<1> QED
  BY <1>1 DEF F, LowerBoundThreshold

\* The senders of a stage are a finite set and their count is a number.
LEMMA CountNat ==
  ASSUME NEW slots
  PROVE  /\ IsFiniteSet(Senders(slots))
         /\ Count(slots) \in Nat
<1>1. Senders(slots) \in SUBSET Replica
  BY DEF Senders
<1>2. IsFiniteSet(Senders(slots))
  BY <1>1, FS_Subset, ClusterAssumption
<1> QED
  BY <1>2, FS_CardinalityType DEF Count

\* A stage that has gained senders counts no less.
LEMMA CountGrows ==
  ASSUME NEW a, NEW b, Senders(a) \subseteq Senders(b)
  PROVE  Count(a) <= Count(b)
<1>1. IsFiniteSet(Senders(b)) /\ Senders(a) \in SUBSET Senders(b)
  BY CountNat
<1> QED
  BY <1>1, FS_Subset DEF Count

\* An echo quorum stays one as messages arrive.
LEMMA EchoQuorumGrows ==
  ASSUME NEW a, NEW b, Senders(a) \subseteq Senders(b),
         ReachesEchoQuorum(Count(a), N)
  PROVE  ReachesEchoQuorum(Count(b), N)
BY CountGrows, CountNat, ClusterNat DEF ReachesEchoQuorum, F

\* A ready quorum stays one as messages arrive.
LEMMA ReadyQuorumGrows ==
  ASSUME NEW a, NEW b, Senders(a) \subseteq Senders(b),
         ReachesReadyQuorum(Count(a), N)
  PROVE  ReachesReadyQuorum(Count(b), N)
BY CountGrows, CountNat, ClusterNat DEF ReachesReadyQuorum, F

\* F + 1 replicas are not all faulty.
LEMMA SupportHasCorrect ==
  ASSUME NEW slots, ReachesReadySupport(Count(slots), N)
  PROVE  \E s \in Senders(slots) : s \in Correct
<1>1. SUFFICES ASSUME Senders(slots) \cap Correct = {}
               PROVE  FALSE
  OBVIOUS
<1>2. Senders(slots) \in SUBSET Faulty
  BY <1>1 DEF Senders, Correct
<1>3. IsFiniteSet(Faulty)
  BY FS_Subset, ClusterAssumption
<1>4. Cardinality(Senders(slots)) <= Cardinality(Faulty)
  BY <1>2, <1>3, FS_Subset
<1>5. Cardinality(Faulty) \in Nat /\ Cardinality(Faulty) <= F
  BY <1>3, FS_CardinalityType, ClusterAssumption
<1> QED
  BY <1>4, <1>5, CountNat, ClusterNat
     DEF Count, ReachesReadySupport, F

\* Of 2F + 1 replicas, more than F are correct.
LEMMA QuorumIsMostlyCorrect ==
  ASSUME NEW slots, ReachesReadyQuorum(Count(slots), N)
  PROVE  Cardinality(Senders(slots) \cap Correct) >= F + 1
<1> DEFINE S == Senders(slots)
<1>1. IsFiniteSet(S) /\ IsFiniteSet(Faulty)
  BY CountNat, FS_Subset, ClusterAssumption
<1>2. S \cap Correct = S \ Faulty
  BY DEF Senders, Correct
<1>3. Cardinality(S \ Faulty) = Cardinality(S) - Cardinality(S \cap Faulty)
  BY <1>1, FS_Difference
<1>4. Cardinality(S \cap Faulty) <= Cardinality(Faulty)
  BY <1>1, FS_Intersection
<1>5. /\ Cardinality(S) \in Nat /\ Cardinality(Faulty) \in Nat
      /\ Cardinality(S \cap Faulty) \in Nat
  BY <1>1, FS_CardinalityType, FS_Intersection
<1>6. Cardinality(Faulty) <= F
  BY ClusterAssumption
<1>7. Cardinality(S) >= 2 * F + 1
  BY DEF Count, ReachesReadyQuorum, F
<1>8. Cardinality(S \ Faulty) >= F + 1
  <2> HIDE DEF S
  <2> QED
    BY <1>3, <1>4, <1>5, <1>6, <1>7, ClusterNat
<1> QED
  BY <1>2, <1>8

\* Replicas are numbers, so some sender has the lowest id.
LEMMA LowestSender ==
  ASSUME NEW slots, Senders(slots) # {}
  PROVE  \E s \in Senders(slots) : \A t \in Senders(slots) : s <= t
<1>1. Senders(slots) \subseteq Nat
  BY ClusterAssumption DEF Senders
<1>2. PICK s \in Senders(slots) :
        \A t \in Senders(slots) : ~ (<<t, s>> \in OpToRel(<, Nat))
  BY <1>1, NatLessThanWellFounded, WFMin
<1>3. \A t \in Senders(slots) : ~ (t < s)
  BY <1>1, <1>2 DEF OpToRel
<1> QED
  BY <1>1, <1>3

-----------------------------------------------------------------------------
(* What the phases do to the entry of one operation *)

OpsOf(u) == {op \in Op : op.uuid = u}
SlotsOf(u) == [Replica -> OpsOf(u) \cup {None}]

\* The entries of operation u: every message stored there carries that uuid.
EntryOf(u) == [init : SlotsOf(u), echo : SlotsOf(u), ready : SlotsOf(u),
               accepted : OpsOf(u) \cup {None}, executing : SUBSET OpsOf(u)]

\* Stage f is stage e, or e with r's own message.
OwnSlot(r, e, f) ==
  \A s \in Replica : f[s] = e[s] \/ (s = r /\ e[s] = None /\ f[s] # None)

\* Entry f follows from e by r's checks: r's own Echo and Ready may be new, the
\* Ready for one of its two reasons, and the operation may be newly accepted.
Grows(r, e, f) ==
  /\ f.init = e.init
  /\ OwnSlot(r, e.echo, f.echo)
  /\ OwnSlot(r, e.ready, f.ready)
  /\ f.ready[r] = None \/ e.ready[r] # None
       \/ ReachesEchoQuorum(Count(f.echo), N)
       \/ ReachesReadySupport(Count(e.ready), N)
  /\ \/ f.accepted = e.accepted /\ f.executing = e.executing
     \/ /\ e.accepted = None /\ f.accepted # None
        /\ f.executing = e.executing \cup {f.accepted}
        /\ ReachesReadyQuorum(Count(f.ready), N)

\* The first operation of a stage with senders is one for that uuid.
LEMMA FirstType ==
  ASSUME NEW u \in Uuid, NEW slots \in SlotsOf(u)
  PROVE  First(slots) \in OpsOf(u) \cup {None}
<1>1. CASE Senders(slots) = {}
  BY <1>1 DEF First
<1>2. CASE Senders(slots) # {}
  <2>1. (CHOOSE s \in Senders(slots) : \A t \in Senders(slots) : s <= t)
          \in Replica
    BY <1>2, LowestSender DEF Senders
  <2> QED
    BY <1>2, <2>1 DEF First, SlotsOf
<1> QED
  BY <1>1, <1>2

\* getOperationFromLog returns an operation of the entry's uuid, or none.
LEMMA GetOperationType ==
  ASSUME NEW u \in Uuid, NEW e \in EntryOf(u)
  PROVE  GetOperationFromLog(e) \in OpsOf(u) \cup {None}
<1>1. e.init \in SlotsOf(u) /\ e.echo \in SlotsOf(u) /\ e.ready \in SlotsOf(u)
  BY DEF EntryOf
<1> QED
  BY <1>1, FirstType DEF GetOperationFromLog

\* A stage keeps its senders as it grows.
LEMMA OwnSlotSenders ==
  ASSUME NEW r \in Replica, NEW e, NEW f, OwnSlot(r, e, f)
  PROVE  Senders(e) \subseteq Senders(f)
BY DEF OwnSlot, Senders

\* An entry that is not checked does not change.
LEMMA GrowsReflexive ==
  ASSUME NEW r \in Replica, NEW e
  PROVE  Grows(r, e, e)
BY DEF Grows, OwnSlot

\* Checks may be made one after the other.
LEMMA GrowsTransitive ==
  ASSUME NEW r \in Replica, NEW u \in Uuid, NEW e \in EntryOf(u),
         NEW f \in EntryOf(u), NEW g \in EntryOf(u),
         Grows(r, e, f), Grows(r, f, g)
  PROVE  Grows(r, e, g)
<1>1. /\ OwnSlot(r, e.echo, f.echo) /\ OwnSlot(r, f.echo, g.echo)
      /\ OwnSlot(r, e.ready, f.ready) /\ OwnSlot(r, f.ready, g.ready)
  BY DEF Grows
<1>2. OwnSlot(r, e.echo, g.echo) /\ OwnSlot(r, e.ready, g.ready)
  BY <1>1 DEF OwnSlot
<1>3. /\ Senders(f.echo) \subseteq Senders(g.echo)
      /\ Senders(f.ready) \subseteq Senders(g.ready)
  BY <1>1, OwnSlotSenders
<1>4. \/ g.ready[r] = None \/ e.ready[r] # None
      \/ ReachesEchoQuorum(Count(g.echo), N)
      \/ ReachesReadySupport(Count(e.ready), N)
  <2>1. CASE f.ready[r] # None
    BY <1>3, <2>1, EchoQuorumGrows DEF Grows
  <2>2. CASE f.ready[r] = None
    <3>1. Senders(f.ready) = Senders(e.ready)
      BY <1>1, <2>2 DEF OwnSlot, Senders
    <3> QED
      BY <2>2, <3>1 DEF Grows, Count
  <2> QED
    BY <2>1, <2>2
<1>5. \/ g.accepted = e.accepted /\ g.executing = e.executing
      \/ /\ e.accepted = None /\ g.accepted # None
         /\ g.executing = e.executing \cup {g.accepted}
         /\ ReachesReadyQuorum(Count(g.ready), N)
  BY <1>3, ReadyQuorumGrows DEF Grows
<1> QED
  BY <1>2, <1>4, <1>5 DEF Grows

\* Sending Echo.
LEMMA SendEchoGrows ==
  ASSUME NEW r \in Replica, NEW u \in Uuid, NEW e \in EntryOf(u),
         EchoDue(r, e)
  PROVE  /\ SendEcho(r, e) \in EntryOf(u)
         /\ Grows(r, e, SendEcho(r, e))
<1>1. /\ GetOperationFromLog(e) \in OpsOf(u)
      /\ GetOperationFromLog(e) # None /\ e.echo[r] = None
  BY GetOperationType DEF EchoDue
<1>2. SendEcho(r, e) \in EntryOf(u)
  BY <1>1 DEF SendEcho, EntryOf, SlotsOf
<1>3. Grows(r, e, SendEcho(r, e))
  BY <1>1 DEF SendEcho, EntryOf, SlotsOf, Grows, OwnSlot
<1> QED
  BY <1>2, <1>3

\* Sending Ready, for an echo quorum or the readies of F + 1 replicas.
LEMMA SendReadyGrows ==
  ASSUME NEW r \in Replica, NEW u \in Uuid, NEW e \in EntryOf(u),
         ReadyDue(r, e)
  PROVE  /\ SendReady(r, e) \in EntryOf(u)
         /\ Grows(r, e, SendReady(r, e))
<1>1. /\ GetOperationFromLog(e) \in OpsOf(u)
      /\ GetOperationFromLog(e) # None /\ e.ready[r] = None
  BY GetOperationType DEF ReadyDue
<1>2. SendReady(r, e) \in EntryOf(u)
  BY <1>1 DEF SendReady, EntryOf, SlotsOf
<1>3. Grows(r, e, SendReady(r, e))
  BY <1>1 DEF ReadyDue, SendReady, EntryOf, SlotsOf, Grows, OwnSlot
<1> QED
  BY <1>2, <1>3

\* The third phase.
LEMMA Phase3Grows ==
  ASSUME NEW r \in Replica, NEW u \in Uuid, NEW e \in EntryOf(u)
  PROVE  /\ CheckPhase3(e) \in EntryOf(u)
         /\ Grows(r, e, CheckPhase3(e))
<1>1. CASE AcceptDue(e)
  <2>1. GetOperationFromLog(e) \in OpsOf(u) /\ GetOperationFromLog(e) # None
    BY <1>1, GetOperationType DEF AcceptDue
  <2>2. CheckPhase3(e) \in EntryOf(u)
    BY <1>1, <2>1 DEF CheckPhase3, EntryOf
  <2>3. Grows(r, e, CheckPhase3(e))
    BY <1>1, <2>1 DEF CheckPhase3, AcceptDue, EntryOf, Grows, OwnSlot
  <2> QED
    BY <2>2, <2>3
<1>2. CASE ~AcceptDue(e)
  BY <1>2, GrowsReflexive DEF CheckPhase3
<1> QED
  BY <1>1, <1>2

\* The second phase, with the checks nested in it.
LEMMA Phase2Grows ==
  ASSUME NEW r \in Replica, NEW u \in Uuid, NEW e \in EntryOf(u)
  PROVE  /\ CheckPhase2(r, e) \in EntryOf(u)
         /\ Grows(r, e, CheckPhase2(r, e))
<1>1. CASE ReadyDue(r, e)
  <2> DEFINE readied == SendReady(r, e)
  <2> DEFINE echoed == IF EchoDue(r, readied) THEN SendEcho(r, readied)
                                              ELSE readied
  <2>1. readied \in EntryOf(u) /\ Grows(r, e, readied)
    BY <1>1, SendReadyGrows
  <2>2. echoed \in EntryOf(u) /\ Grows(r, readied, echoed)
    <3> HIDE DEF readied
    <3> QED
      BY <2>1, SendEchoGrows, GrowsReflexive
  <2>3. CheckPhase3(echoed) \in EntryOf(u) /\ Grows(r, echoed, CheckPhase3(echoed))
    <3> HIDE DEF echoed
    <3> QED
      BY <2>2, Phase3Grows
  <2>4. Grows(r, e, CheckPhase3(echoed))
    <3> HIDE DEF readied, echoed
    <3>1. Grows(r, e, echoed)
      BY <2>1, <2>2, GrowsTransitive
    <3> QED
      BY <2>2, <2>3, <3>1, GrowsTransitive
  <2>5. CheckPhase2(r, e) = CheckPhase3(echoed)
    BY <1>1 DEF CheckPhase2
  <2> QED
    BY <2>3, <2>4, <2>5
<1>2. CASE ~ReadyDue(r, e)
  BY <1>2, GrowsReflexive DEF CheckPhase2
<1> QED
  BY <1>1, <1>2

\* The first phase, with the checks nested in it.
LEMMA Phase1Grows ==
  ASSUME NEW r \in Replica, NEW u \in Uuid, NEW e \in EntryOf(u)
  PROVE  /\ CheckPhase1(r, e) \in EntryOf(u)
         /\ Grows(r, e, CheckPhase1(r, e))
<1>1. CASE EchoDue(r, e)
  <2>1. SendEcho(r, e) \in EntryOf(u) /\ Grows(r, e, SendEcho(r, e))
    BY <1>1, SendEchoGrows
  <2>2. /\ CheckPhase2(r, SendEcho(r, e)) \in EntryOf(u)
        /\ Grows(r, SendEcho(r, e), CheckPhase2(r, SendEcho(r, e)))
    BY <2>1, Phase2Grows
  <2> QED
    BY <1>1, <2>1, <2>2, GrowsTransitive DEF CheckPhase1
<1>2. CASE ~EchoDue(r, e)
  BY <1>2, GrowsReflexive DEF CheckPhase1
<1> QED
  BY <1>1, <1>2

-----------------------------------------------------------------------------
(* The inductive invariant *)

\* Messages are stored in the entry of their uuid.
UuidMatches == \A r \in Correct, u \in Uuid : messagesLog[r][u] \in EntryOf(u)

\* A correct replica has sent only the Echos and Readys its own entry holds.
SentIsOwn ==
  \A m \in sent :
    LET e == messagesLog[m.from][m.op.uuid]
    IN  /\ m.type = "Echo" => e.echo[m.from] = m.op
        /\ m.type = "Ready" => e.ready[m.from] = m.op

\* A Ready stored as the message of a correct replica is one it has sent.
ReadyIsAuthentic ==
  \A r, s \in Correct, u \in Uuid :
    messagesLog[r][u].ready[s] # None => messagesLog[s][u].ready[s] # None

\* An operation is accepted with 2F + 1 readies.
AcceptedHasQuorum ==
  \A r \in Correct, u \in Uuid :
    messagesLog[r][u].accepted # None
      => ReachesReadyQuorum(Count(messagesLog[r][u].ready), N)

BroadcastInv ==
  /\ TypeOK
  /\ UuidMatches
  /\ SentIsOwn
  /\ ReadyIsAuthentic
  /\ AcceptedHasQuorum
  /\ ReadyIsBacked

\* Entry e is r's entry of u with at most one more message stored.
Arrived(r, u, e) ==
  /\ e.accepted = messagesLog[r][u].accepted
  /\ e.executing = messagesLog[r][u].executing
  /\ Senders(messagesLog[r][u].echo) \subseteq Senders(e.echo)
  /\ Senders(messagesLog[r][u].ready) \subseteq Senders(e.ready)
  /\ e.echo[r] = messagesLog[r][u].echo[r]
  /\ e.ready[r] = messagesLog[r][u].ready[r]
  /\ \A s \in Replica :
       e.ready[s] # None => \/ messagesLog[r][u].ready[s] # None
                            \/ s \in Faulty
                            \/ messagesLog[s][u].ready[s] # None

\* What the handlers of a message and of a write request have in common: r
\* stores a message in the entry of u and makes its checks.
Handles(r, u) ==
  \E e, f \in EntryOf(u) :
    /\ Arrived(r, u, e)
    /\ Grows(r, e, f)
    /\ messagesLog' = [messagesLog EXCEPT ![r][u] = f]
    /\ sent' \subseteq sent \cup [type : {"Init"}, op : Op, from : {r}]
                          \cup OwnMessages(r, f)
    /\ UNCHANGED <<log, clientLastOp, reading, answers>>

\* An entry of u is an entry.
LEMMA EntryOfType ==
  ASSUME NEW u \in Uuid
  PROVE  EntryOf(u) \subseteq Entry
BY DEF EntryOf, SlotsOf, OpsOf, Entry, Slots

\* What a replica broadcasts of its entry are messages of its own for u.
LEMMA OwnMessagesType ==
  ASSUME NEW r \in Correct, NEW u \in Uuid, NEW f \in EntryOf(u),
         NEW m \in OwnMessages(r, f)
  PROVE  /\ m \in [type : {"Echo", "Ready"}, op : OpsOf(u), from : Correct]
         /\ m.from = r /\ m.op.uuid = u
         /\ m.type = "Echo" => f.echo[r] = m.op
         /\ m.type = "Ready" => f.ready[r] = m.op
<1>1. f.echo[r] \in OpsOf(u) \cup {None} /\ f.ready[r] \in OpsOf(u) \cup {None}
  BY DEF EntryOf, SlotsOf, Correct
<1> QED
  BY <1>1 DEF OwnMessages, OpsOf

\* A message that may arrive is well formed, and is the sender's own.
LEMMA InTransitType ==
  ASSUME TypeOK, NEW m \in InTransit
  PROVE  m \in Message /\ m.op \in OpsOf(m.op.uuid) /\ m.op.uuid \in Uuid
<1>1. m \in Message
  BY ClusterAssumption, OperationAssumption
     DEF InTransit, TypeOK, Message, Correct
<1> QED
  BY <1>1, OperationAssumption DEF Message, OpsOf

\* An Init, an Echo or a Ready of another replica is handled that way.
LEMMA ReceiveHandles ==
  ASSUME BroadcastInv, NEW r \in Correct, NEW m \in InTransit, Receive(r, m)
  PROVE  Handles(r, m.op.uuid)
<1> DEFINE u == m.op.uuid
<1> DEFINE old == messagesLog[r][u]
<1>1. /\ m \in Message /\ m.op \in OpsOf(u) /\ u \in Uuid
      /\ m.op # None
  BY InTransitType, OperationAssumption DEF BroadcastInv, OpsOf
<1>2. old \in EntryOf(u)
  BY <1>1 DEF BroadcastInv, UuidMatches
<1>3. m.from \in Replica /\ m.from # r /\ r \in Replica
  BY <1>1 DEF Receive, ReceiveInit, ReceiveEcho, ReceiveReady, Arrives,
              Message, Correct
<1>4. CASE ReceiveInit(r, m)
  <2> DEFINE stored == [old EXCEPT !.init = Store(@, m.from, m.op)]
  <2>1. stored \in EntryOf(u) /\ Arrived(r, u, stored)
    BY <1>1, <1>2, <1>3 DEF EntryOf, SlotsOf, Store, Arrived
  <2>2. /\ CheckPhase1(r, stored) \in EntryOf(u)
        /\ Grows(r, stored, CheckPhase1(r, stored))
    <3> HIDE DEF stored
    <3> QED
      BY <1>1, <1>3, <2>1, Phase1Grows
  <2>3. Update(r, u, CheckPhase1(r, stored))
    BY <1>4 DEF ReceiveInit
  <2> QED
    BY <2>1, <2>2, <2>3 DEF Handles, Update
<1>5. CASE ReceiveEcho(r, m)
  <2> DEFINE stored == [old EXCEPT !.echo = Store(@, m.from, m.op)]
  <2> DEFINE e1 == CheckPhase1(r, stored)
  <2>1. stored \in EntryOf(u) /\ Arrived(r, u, stored)
    BY <1>1, <1>2, <1>3 DEF EntryOf, SlotsOf, Store, Arrived, Senders
  <2>2. e1 \in EntryOf(u) /\ Grows(r, stored, e1)
    <3> HIDE DEF stored
    <3> QED
      BY <1>1, <1>3, <2>1, Phase1Grows
  <2>3. CheckPhase2(r, e1) \in EntryOf(u) /\ Grows(r, stored, CheckPhase2(r, e1))
    <3> HIDE DEF stored, e1
    <3> QED
      BY <1>1, <1>3, <2>1, <2>2, Phase2Grows, GrowsTransitive
  <2>4. Update(r, u, CheckPhase2(r, e1))
    BY <1>5 DEF ReceiveEcho
  <2> QED
    BY <2>1, <2>3, <2>4 DEF Handles, Update
<1>6. CASE ReceiveReady(r, m)
  <2> DEFINE stored == [old EXCEPT !.ready = Store(@, m.from, m.op)]
  <2> DEFINE e1 == CheckPhase1(r, stored)
  <2> DEFINE e2 == CheckPhase2(r, e1)
  <2>0. m.from \in Faulty \/ messagesLog[m.from][u].ready[m.from] # None
    BY <1>1, <1>6 DEF ReceiveReady, Arrives, BroadcastInv, SentIsOwn
  <2>1. stored \in EntryOf(u) /\ Arrived(r, u, stored)
    BY <1>1, <1>2, <1>3, <2>0
       DEF EntryOf, SlotsOf, Store, Arrived, Senders
  <2>2. e1 \in EntryOf(u) /\ Grows(r, stored, e1)
    <3> HIDE DEF stored
    <3> QED
      BY <1>1, <1>3, <2>1, Phase1Grows
  <2>3. e2 \in EntryOf(u) /\ Grows(r, stored, e2)
    <3> HIDE DEF stored, e1
    <3> QED
      BY <1>1, <1>3, <2>1, <2>2, Phase2Grows, GrowsTransitive
  <2>4. CheckPhase3(e2) \in EntryOf(u) /\ Grows(r, stored, CheckPhase3(e2))
    <3> HIDE DEF stored, e2
    <3> QED
      BY <1>1, <1>3, <2>1, <2>3, Phase3Grows, GrowsTransitive
  <2>5. Update(r, u, CheckPhase3(e2))
    BY <1>6 DEF ReceiveReady
  <2> QED
    BY <2>1, <2>4, <2>5 DEF Handles, Update
<1> QED
  BY <1>4, <1>5, <1>6 DEF Receive

\* So is the write request of a client, whose Init r hands to itself.
LEMMA BroadcastInitHandles ==
  ASSUME BroadcastInv, NEW r \in Correct, NEW op \in Op, BroadcastInit(r, op)
  PROVE  op.uuid \in Uuid /\ Handles(r, op.uuid)
<1> DEFINE u == op.uuid
<1> DEFINE old == messagesLog[r][u]
<1> DEFINE stored == [old EXCEPT !.init = Store(@, r, op)]
<1>1. u \in Uuid /\ op \in OpsOf(u) /\ op # None /\ r \in Replica
  BY OperationAssumption DEF OpsOf, Correct
<1>2. old \in EntryOf(u)
  BY <1>1 DEF BroadcastInv, UuidMatches
<1>3. stored \in EntryOf(u) /\ Arrived(r, u, stored)
  BY <1>1, <1>2 DEF EntryOf, SlotsOf, Store, Arrived
<1>4. /\ CheckPhase1(r, stored) \in EntryOf(u)
      /\ Grows(r, stored, CheckPhase1(r, stored))
  <2> HIDE DEF stored
  <2> QED
    BY <1>1, <1>3, Phase1Grows
<1>5. /\ messagesLog' = [messagesLog EXCEPT ![r][u] = CheckPhase1(r, stored)]
      /\ sent' = sent \cup {[type |-> "Init", op |-> op, from |-> r]}
                      \cup OwnMessages(r, CheckPhase1(r, stored))
      /\ UNCHANGED <<log, clientLastOp, reading, answers>>
  BY DEF BroadcastInit
<1>6. sent' \subseteq sent \cup [type : {"Init"}, op : Op, from : {r}]
                        \cup OwnMessages(r, CheckPhase1(r, stored))
  <2> HIDE DEF stored
  <2> QED
    BY <1>5
<1>7. Handles(r, u)
  <2> HIDE DEF stored, u
  <2> QED
    BY <1>3, <1>4, <1>5, <1>6 DEF Handles
<1> QED
  BY <1>1, <1>7

\* The invariant survives the handling of a message.
LEMMA HandlesInv ==
  ASSUME BroadcastInv, NEW r \in Correct, NEW u \in Uuid, Handles(r, u)
  PROVE  BroadcastInv'
<1> DEFINE old == messagesLog[r][u]
<1>1. PICK e \in EntryOf(u), f \in EntryOf(u) :
        /\ Arrived(r, u, e)
        /\ Grows(r, e, f)
        /\ messagesLog' = [messagesLog EXCEPT ![r][u] = f]
        /\ sent' \subseteq sent \cup [type : {"Init"}, op : Op, from : {r}]
                              \cup OwnMessages(r, f)
        /\ UNCHANGED <<log, clientLastOp, reading, answers>>
  BY DEF Handles
<1>2. r \in Replica /\ Correct \subseteq Replica
  BY DEF Correct
<1>3. /\ messagesLog'[r][u] = f
      /\ \A s \in Correct, v \in Uuid :
           s # r \/ v # u => messagesLog'[s][v] = messagesLog[s][v]
      /\ messagesLog' \in [Correct -> [Uuid -> Entry]]
  BY <1>1, EntryOfType DEF BroadcastInv, TypeOK
<1>4. /\ Senders(old.echo) \subseteq Senders(f.echo)
      /\ Senders(old.ready) \subseteq Senders(f.ready)
  <2>1. OwnSlot(r, e.echo, f.echo) /\ OwnSlot(r, e.ready, f.ready)
    BY <1>1 DEF Grows
  <2>2. /\ Senders(e.echo) \subseteq Senders(f.echo)
        /\ Senders(e.ready) \subseteq Senders(f.ready)
    BY <1>2, <2>1, OwnSlotSenders
  <2> QED
    BY <1>1, <2>2 DEF Arrived
<1>5. \A s \in Correct, v \in Uuid :
        /\ Senders(messagesLog[s][v].echo) \subseteq Senders(messagesLog'[s][v].echo)
        /\ Senders(messagesLog[s][v].ready) \subseteq Senders(messagesLog'[s][v].ready)
  BY <1>3, <1>4
<1>6. \A s \in Correct, v \in Uuid, t \in Replica :
        messagesLog[s][v].ready[t] # None => messagesLog'[s][v].ready[t] # None
  BY <1>5 DEF Senders
<1>7. TypeOK'
  <2>1. sent' \subseteq [type : {"Init", "Echo", "Ready", "SingleReply"},
                        op : Op, from : Correct]
    BY <1>1, OwnMessagesType DEF BroadcastInv, TypeOK, OpsOf
  <2> QED
    BY <1>1, <1>3, <2>1 DEF BroadcastInv, TypeOK
<1>8. UuidMatches'
  BY <1>1, <1>3 DEF BroadcastInv, UuidMatches
<1>9. SentIsOwn'
  <2> SUFFICES ASSUME NEW m \in sent'
               PROVE  LET e2 == messagesLog'[m.from][m.op.uuid]
                      IN  /\ m.type = "Echo" => e2.echo[m.from] = m.op
                          /\ m.type = "Ready" => e2.ready[m.from] = m.op
    BY DEF SentIsOwn
  <2>1. CASE m \in sent
    <3>1. m.from \in Correct /\ m.op.uuid \in Uuid /\ m.op # None
      BY <2>1, OperationAssumption DEF BroadcastInv, TypeOK
    <3>2. \/ f.echo[r] = old.echo[r] \/ old.echo[r] = None
      BY <1>1, <1>2 DEF Grows, OwnSlot, Arrived
    <3>3. \/ f.ready[r] = old.ready[r] \/ old.ready[r] = None
      BY <1>1, <1>2 DEF Grows, OwnSlot, Arrived
    <3> QED
      BY <1>3, <2>1, <3>1, <3>2, <3>3 DEF BroadcastInv, SentIsOwn
  <2>2. CASE m \in OwnMessages(r, f)
    BY <1>3, <2>2, OwnMessagesType
  <2> QED
    BY <1>1, <2>1, <2>2
<1>10. ReadyIsAuthentic'
  <2> SUFFICES ASSUME NEW a \in Correct, NEW s \in Correct, NEW v \in Uuid,
                      messagesLog'[a][v].ready[s] # None
               PROVE  messagesLog'[s][v].ready[s] # None
    BY DEF ReadyIsAuthentic
  <2>1. CASE a # r \/ v # u
    BY <1>2, <1>3, <1>6, <2>1 DEF BroadcastInv, ReadyIsAuthentic
  <2>2. CASE a = r /\ v = u /\ s # r
    <3>1. e.ready[s] # None
      BY <1>1, <1>2, <1>3, <2>2 DEF Grows, OwnSlot
    <3>2. old.ready[s] # None \/ messagesLog[s][u].ready[s] # None
      BY <1>1, <1>2, <3>1 DEF Arrived, Correct
    <3>3. messagesLog[s][u].ready[s] # None
      BY <3>2 DEF BroadcastInv, ReadyIsAuthentic
    <3> QED
      BY <1>2, <1>6, <2>2, <3>3
  <2> QED
    BY <2>1, <2>2
<1>11. AcceptedHasQuorum'
  <2> SUFFICES ASSUME NEW a \in Correct, NEW v \in Uuid,
                      messagesLog'[a][v].accepted # None
               PROVE  ReachesReadyQuorum(Count(messagesLog'[a][v].ready), N)
    BY DEF AcceptedHasQuorum, ReachesReadyQuorum, Count, Senders
  <2>1. CASE a # r \/ v # u
    BY <1>3, <2>1 DEF BroadcastInv, AcceptedHasQuorum
  <2>2. CASE a = r /\ v = u /\ f.accepted = old.accepted
    <3>1. ReachesReadyQuorum(Count(old.ready), N)
      BY <1>3, <2>2 DEF BroadcastInv, AcceptedHasQuorum
    <3> QED
      BY <1>3, <1>4, <2>2, <3>1, ReadyQuorumGrows
  <2>3. CASE a = r /\ v = u /\ f.accepted # old.accepted
    BY <1>1, <1>3, <2>3 DEF Grows, Arrived
  <2> QED
    BY <2>1, <2>2, <2>3
<1>12. ReadyIsBacked'
  <2> SUFFICES ASSUME NEW v \in Uuid, NEW s \in Correct,
                      messagesLog'[s][v].ready[s] # None
               PROVE  \E a \in Correct :
                        ReachesEchoQuorum(Count(messagesLog'[a][v].echo), N)
    BY DEF ReadyIsBacked, Readied, EchoQuorumSeen, ReachesEchoQuorum, Count,
           Senders
  <2>1. CASE \E t \in Correct : messagesLog[t][v].ready[t] # None
    <3>1. PICK a \in Correct :
            ReachesEchoQuorum(Count(messagesLog[a][v].echo), N)
      BY <2>1 DEF BroadcastInv, ReadyIsBacked, Readied, EchoQuorumSeen
    <3> QED
      BY <1>5, <3>1, EchoQuorumGrows
  <2>2. CASE \A t \in Correct : messagesLog[t][v].ready[t] = None
    <3>1. s = r /\ v = u /\ f.ready[r] # None
      BY <1>3, <2>2
    <3>2. e.ready[r] = None
      BY <1>1, <2>2, <3>1 DEF Arrived
    <3>3. ~ReachesReadySupport(Count(e.ready), N)
      <4>1. \A t \in Correct : e.ready[t] = None
        BY <1>1, <1>2, <2>2, <3>1
           DEF Arrived, Correct, BroadcastInv, ReadyIsAuthentic
      <4> QED
        BY <4>1, SupportHasCorrect DEF Senders
    <3>4. ReachesEchoQuorum(Count(f.echo), N)
      BY <1>1, <3>1, <3>2, <3>3 DEF Grows
    <3> QED
      BY <1>3, <3>1, <3>4
  <2> QED
    BY <2>1, <2>2
<1> QED
  BY <1>7, <1>8, <1>9, <1>10, <1>11, <1>12 DEF BroadcastInv

\* The end of an execution changes nothing else of an entry.
LEMMA SettlingKeeps ==
  ASSUME TypeOK, UuidMatches, NEW r \in Correct, NEW u \in Uuid, NEW x,
         messagesLog' = [messagesLog EXCEPT ![r][u].executing = @ \ {x}]
  PROVE  \A s \in Correct, v \in Uuid :
           /\ messagesLog'[s][v] \in EntryOf(v)
           /\ messagesLog'[s][v].init = messagesLog[s][v].init
           /\ messagesLog'[s][v].echo = messagesLog[s][v].echo
           /\ messagesLog'[s][v].ready = messagesLog[s][v].ready
           /\ messagesLog'[s][v].accepted = messagesLog[s][v].accepted
           /\ messagesLog'[s][v].executing \subseteq messagesLog[s][v].executing
<1> TAKE s \in Correct, v \in Uuid
<1> DEFINE old == messagesLog[s][v]
<1>1. old \in EntryOf(v)
  BY DEF UuidMatches
<1>2. messagesLog'[s][v] = IF s = r /\ v = u
                           THEN [old EXCEPT !.executing = @ \ {x}]
                           ELSE old
  BY DEF TypeOK
<1>3. [old EXCEPT !.executing = @ \ {x}] \in EntryOf(v)
  BY <1>1 DEF EntryOf
<1> QED
  BY <1>1, <1>2, <1>3 DEF EntryOf

\* The invariant does not speak of what the settling of an execution changes.
LEMMA SettlingInv ==
  ASSUME BroadcastInv, NEW r \in Correct, NEW u \in Uuid, NEW x,
         messagesLog' = [messagesLog EXCEPT ![r][u].executing = @ \ {x}],
         sent' \subseteq sent \cup [type : {"SingleReply"}, op : Op, from : Correct],
         log' \in [Correct -> Seq(Op)],
         clientLastOp' \in [Correct -> [Client -> Uuid \cup {None}]],
         reading' \in [Correct -> SUBSET Op],
         answers' \subseteq Answer
  PROVE  BroadcastInv'
<1>1. \A s \in Correct, v \in Uuid :
        /\ messagesLog'[s][v] \in EntryOf(v)
        /\ messagesLog'[s][v].echo = messagesLog[s][v].echo
        /\ messagesLog'[s][v].ready = messagesLog[s][v].ready
        /\ messagesLog'[s][v].accepted = messagesLog[s][v].accepted
  BY SettlingKeeps DEF BroadcastInv
<1>2. messagesLog' \in [Correct -> [Uuid -> Entry]]
  BY <1>1, EntryOfType DEF BroadcastInv, TypeOK
<1>3. TypeOK' /\ UuidMatches'
  BY <1>1, <1>2 DEF BroadcastInv, TypeOK, UuidMatches
<1>4. SentIsOwn'
  <2> SUFFICES ASSUME NEW m \in sent', m.type # "SingleReply"
               PROVE  LET e == messagesLog'[m.from][m.op.uuid]
                      IN  /\ m.type = "Echo" => e.echo[m.from] = m.op
                          /\ m.type = "Ready" => e.ready[m.from] = m.op
    BY DEF SentIsOwn
  <2>1. m \in sent /\ m.from \in Correct /\ m.op.uuid \in Uuid
    BY OperationAssumption DEF BroadcastInv, TypeOK
  <2> QED
    BY <1>1, <2>1 DEF BroadcastInv, SentIsOwn
<1>5. ReadyIsAuthentic'
  BY <1>1 DEF BroadcastInv, ReadyIsAuthentic
<1>6. AcceptedHasQuorum'
  <2> SUFFICES ASSUME NEW s \in Correct, NEW v \in Uuid,
                      messagesLog'[s][v].accepted # None
               PROVE  ReachesReadyQuorum(Count(messagesLog'[s][v].ready), N)
    BY DEF AcceptedHasQuorum, ReachesReadyQuorum, Count, Senders
  <2> QED
    BY <1>1 DEF BroadcastInv, AcceptedHasQuorum
<1>7. ReadyIsBacked'
  <2> SUFFICES ASSUME NEW v \in Uuid, NEW s \in Correct,
                      messagesLog'[s][v].ready[s] # None
               PROVE  \E a \in Correct :
                        ReachesEchoQuorum(Count(messagesLog'[a][v].echo), N)
    BY DEF ReadyIsBacked, Readied, EchoQuorumSeen, ReachesEchoQuorum, Count,
           Senders
  <2>1. PICK a \in Correct : ReachesEchoQuorum(Count(messagesLog[a][v].echo), N)
    BY <1>1 DEF BroadcastInv, ReadyIsBacked, Readied, EchoQuorumSeen
  <2> QED
    BY <1>1, <2>1
<1> QED
  BY <1>3, <1>4, <1>5, <1>6, <1>7 DEF BroadcastInv

\* A step that leaves entries and messages alone keeps the invariant.
LEMMA FrameInv ==
  ASSUME BroadcastInv, UNCHANGED <<messagesLog, sent>>, TypeOK'
  PROVE  BroadcastInv'
<1>1. UuidMatches' /\ SentIsOwn' /\ ReadyIsAuthentic'
  BY DEF BroadcastInv, UuidMatches, SentIsOwn, ReadyIsAuthentic
<1>2. AcceptedHasQuorum'
  BY DEF BroadcastInv, AcceptedHasQuorum
<1>3. ReadyIsBacked'
  BY DEF BroadcastInv, ReadyIsBacked, Readied, EchoQuorumSeen
<1> QED
  BY <1>1, <1>2, <1>3 DEF BroadcastInv

\* The invariant holds at the start.
LEMMA BroadcastInvInit == ASSUME Init PROVE BroadcastInv
<1>1. EmptyEntry \in Entry /\ \A u \in Uuid : EmptyEntry \in EntryOf(u)
  BY DEF EmptyEntry, NoMessages, Entry, Slots, EntryOf, SlotsOf
<1>2. TypeOK /\ UuidMatches
  BY <1>1 DEF Init, TypeOK, UuidMatches
<1>3. /\ \A r \in Correct, u \in Uuid, s \in Replica :
           messagesLog[r][u].ready[s] = None
      /\ \A r \in Correct, u \in Uuid : messagesLog[r][u].accepted = None
      /\ sent = {}
  BY DEF Init, EmptyEntry, NoMessages
<1>4. SentIsOwn /\ ReadyIsAuthentic /\ AcceptedHasQuorum /\ ReadyIsBacked
  BY <1>3 DEF SentIsOwn, ReadyIsAuthentic, AcceptedHasQuorum, ReadyIsBacked,
              Readied, Correct
<1> QED
  BY <1>2, <1>4 DEF BroadcastInv

\* Every step preserves the invariant.
LEMMA BroadcastInvStep == ASSUME BroadcastInv, [Next]_vars PROVE BroadcastInv'
<1>1. ASSUME NEW r \in Correct, NEW op \in Op, AnswerAgain(r, op)
      PROVE  BroadcastInv'
  <2>1. r \in Correct /\ op.uuid \in Uuid
    BY ClusterAssumption, OperationAssumption
  <2>2. answers' \subseteq Answer
    BY <1>1, <2>1 DEF AnswerAgain, BroadcastInv, TypeOK, Answer
  <2> QED
    BY <1>1, <2>2, FrameInv DEF AnswerAgain, BroadcastInv, TypeOK
<1>2. ASSUME NEW r \in Correct, NEW op \in Op, StartRead(r, op)
      PROVE  BroadcastInv'
  <2>1. reading' \in [Correct -> SUBSET Op]
    BY <1>2, ClusterAssumption DEF StartRead, BroadcastInv, TypeOK
  <2> QED
    BY <1>2, <2>1, FrameInv DEF StartRead, BroadcastInv, TypeOK
<1>3. ASSUME NEW r \in Correct, NEW op \in Op, BroadcastInit(r, op)
      PROVE  BroadcastInv'
  BY <1>3, ClusterAssumption, BroadcastInitHandles, HandlesInv
<1>4. ASSUME NEW r \in Correct, NEW m \in InTransit, Receive(r, m)
      PROVE  BroadcastInv'
  BY <1>4, ReceiveHandles, HandlesInv, InTransitType DEF BroadcastInv
<1>5. ASSUME NEW r \in Executor, NEW u \in Uuid, NEW op \in Op,
             ExecutionCompletes(r, u, op)
      PROVE  BroadcastInv'
  <2>1. r \in Correct /\ op.client \in Client
    BY ClusterAssumption, OperationAssumption
  <2>2. /\ log' \in [Correct -> Seq(Op)]
        /\ clientLastOp' \in [Correct -> [Client -> Uuid \cup {None}]]
    BY <1>5, <2>1, OperationAssumption
       DEF ExecutionCompletes, BroadcastInv, TypeOK
  <2>3. sent' \subseteq sent \cup [type : {"SingleReply"}, op : Op, from : Correct]
    BY <1>5, <2>1 DEF ExecutionCompletes
  <2> QED
    BY <1>5, <2>1, <2>2, <2>3, SettlingInv
       DEF ExecutionCompletes, BroadcastInv, TypeOK
<1>6. ASSUME NEW r \in Executor, NEW u \in Uuid, NEW op \in Op,
             ExecutionFails(r, u, op)
      PROVE  BroadcastInv'
  BY <1>6, ClusterAssumption, SettlingInv
     DEF ExecutionFails, BroadcastInv, TypeOK
<1>7. ASSUME NEW r \in Executor, NEW op \in Op, ReadCompletes(r, op)
      PROVE  BroadcastInv'
  <2>1. r \in Correct /\ op.uuid \in Uuid
    BY ClusterAssumption, OperationAssumption
  <2>2. reading' \in [Correct -> SUBSET Op] /\ answers' \subseteq Answer
    BY <1>7, <2>1 DEF ReadCompletes, BroadcastInv, TypeOK, Answer
  <2> QED
    BY <1>7, <2>2, FrameInv DEF ReadCompletes, BroadcastInv, TypeOK
<1>8. ASSUME NEW r \in Executor, NEW op \in Op, ReadFails(r, op)
      PROVE  BroadcastInv'
  <2>1. reading' \in [Correct -> SUBSET Op]
    BY <1>8, ClusterAssumption DEF ReadFails, BroadcastInv, TypeOK
  <2> QED
    BY <1>8, <2>1, FrameInv DEF ReadFails, BroadcastInv, TypeOK
<1>9. ASSUME UNCHANGED vars PROVE BroadcastInv'
  BY <1>9, FrameInv DEF vars, BroadcastInv, TypeOK
<1> QED
  BY <1>1, <1>2, <1>3, <1>4, <1>5, <1>6, <1>7, <1>8, <1>9
     DEF Next, DispatchClientOpRequest, Settle

-----------------------------------------------------------------------------
(* Theorems *)

\* The invariant holds in every reachable state.
THEOREM BroadcastInvariance == Spec => []BroadcastInv
<1>1. Init => BroadcastInv
  BY BroadcastInvInit
<1>2. BroadcastInv /\ [Next]_vars => BroadcastInv'
  BY BroadcastInvStep
<1> QED
  BY <1>1, <1>2, PTL DEF Spec

\* The state of the replicas is well typed (server.ts:186-199).
THEOREM TypeCorrectness == Spec => []TypeOK
<1>1. BroadcastInv => TypeOK
  BY DEF BroadcastInv
<1> QED
  BY <1>1, BroadcastInvariance, PTL

\* No correct replica sends Ready before some correct replica has gathered the
\* echo quorum, whatever F faulty replicas send (server.ts:544-564).
THEOREM ReadyBacking == Spec => []ReadyIsBacked
<1>1. BroadcastInv => ReadyIsBacked
  BY DEF BroadcastInv
<1> QED
  BY <1>1, BroadcastInvariance, PTL

\* A correct replica never sends two Echos, or two Readys, for one uuid, in
\* whatever order the messages arrive (server.ts:516-564).
THEOREM NoEquivocating == Spec => []NoEquivocation
<1>1. BroadcastInv => NoEquivocation
  <2> SUFFICES ASSUME BroadcastInv, NEW m1 \in sent, NEW m2 \in sent,
                      m1.type = m2.type, m1.type \in {"Echo", "Ready"},
                      m1.from = m2.from, m1.op.uuid = m2.op.uuid
               PROVE  m1 = m2
    BY DEF NoEquivocation
  <2>1. m1.op = m2.op
    BY DEF BroadcastInv, SentIsOwn
  <2>2. /\ m1 = [type |-> m1.type, op |-> m1.op, from |-> m1.from]
        /\ m2 = [type |-> m2.type, op |-> m2.op, from |-> m2.from]
    BY DEF BroadcastInv, TypeOK
  <2> QED
    BY <2>1, <2>2
<1> QED
  BY <1>1, BroadcastInvariance, PTL

\* When a correct replica accepts an operation, at least F + 1 correct replicas
\* have sent Ready for it (server.ts:571-604).
THEOREM AcceptSpreading == Spec => []AcceptIsSpread
<1>1. ASSUME BroadcastInv, NEW r \in Correct, NEW u \in Uuid,
             messagesLog[r][u].accepted # None
      PROVE  Cardinality(Readied(u)) >= F + 1
  <2> DEFINE Q == Senders(messagesLog[r][u].ready) \cap Correct
  <2>1. Cardinality(Q) >= F + 1
    BY <1>1, QuorumIsMostlyCorrect DEF BroadcastInv, AcceptedHasQuorum
  <2>2. Q \in SUBSET Readied(u)
    BY <1>1 DEF BroadcastInv, ReadyIsAuthentic, Readied, Senders
  <2>3. IsFiniteSet(Readied(u))
    <3>1. Readied(u) \in SUBSET Replica
      BY DEF Readied, Correct
    <3> QED
      BY <3>1, FS_Subset, ClusterAssumption
  <2>4. Cardinality(Q) <= Cardinality(Readied(u))
    BY <2>2, <2>3, FS_Subset
  <2>5. Cardinality(Q) \in Nat /\ Cardinality(Readied(u)) \in Nat
    BY <2>2, <2>3, FS_Subset, FS_CardinalityType
  <2> QED
    BY <2>1, <2>4, <2>5, ClusterNat
<1>2. BroadcastInv => AcceptIsSpread
  BY <1>1 DEF AcceptIsSpread
<1> QED
  BY <1>2, BroadcastInvariance, PTL

-----------------------------------------------------------------------------
(* The broadcast implements ReliableBroadcast *)

\* What handling a message changes of what the abstract broadcast sees.
LEMMA HandlesChange ==
  ASSUME BroadcastInv, NEW r \in Correct, NEW u \in Uuid, Handles(r, u)
  PROVE  /\ \A s \in Correct, v \in Uuid :
              s # r \/ v # u => messagesLog'[s][v] = messagesLog[s][v]
         /\ Senders(messagesLog[r][u].echo) \subseteq
              Senders(messagesLog'[r][u].echo)
         /\ messagesLog'[r][u] \in EntryOf(u)
         /\ \/ /\ messagesLog'[r][u].accepted = messagesLog[r][u].accepted
               /\ messagesLog'[r][u].executing = messagesLog[r][u].executing
            \/ /\ messagesLog[r][u].accepted = None
               /\ messagesLog'[r][u].accepted # None
               /\ messagesLog'[r][u].executing =
                    messagesLog[r][u].executing
                      \cup {messagesLog'[r][u].accepted}
         /\ UNCHANGED <<log, clientLastOp, reading, answers>>
<1>1. PICK e \in EntryOf(u), f \in EntryOf(u) :
        /\ Arrived(r, u, e)
        /\ Grows(r, e, f)
        /\ messagesLog' = [messagesLog EXCEPT ![r][u] = f]
        /\ UNCHANGED <<log, clientLastOp, reading, answers>>
  BY DEF Handles
<1>2. /\ messagesLog'[r][u] = f
      /\ \A s \in Correct, v \in Uuid :
           s # r \/ v # u => messagesLog'[s][v] = messagesLog[s][v]
  BY <1>1 DEF BroadcastInv, TypeOK
<1>3. Senders(messagesLog[r][u].echo) \subseteq Senders(f.echo)
  <2>1. OwnSlot(r, e.echo, f.echo) /\ r \in Replica
    BY <1>1 DEF Grows, Correct
  <2> QED
    BY <1>1, <2>1, OwnSlotSenders DEF Arrived
<1> QED
  BY <1>1, <1>2, <1>3 DEF Arrived, Grows

\* A replica that accepts u is not the first to vouch for it: of the F + 1 >= 2
\* correct replicas that have sent Ready, another one had done so before.
LEMMA AcceptIsSupported ==
  ASSUME BroadcastInv, BroadcastInv', NEW r \in Correct, NEW u \in Uuid,
         \A s \in Correct : s # r => messagesLog'[s][u] = messagesLog[s][u],
         messagesLog'[r][u].accepted # None
  PROVE  EchoQuorumSeen(u)
<1> DEFINE Q == Senders(messagesLog'[r][u].ready) \cap Correct
<1>1. ReachesReadyQuorum(Count(messagesLog'[r][u].ready), N)
  BY DEF BroadcastInv, AcceptedHasQuorum, ReachesReadyQuorum, Count, Senders
<1>2. Cardinality(Q) >= F + 1
  BY <1>1, QuorumIsMostlyCorrect
<1>3. PICK s \in Q : s # r
  <2>1. SUFFICES ASSUME Q \subseteq {r} PROVE FALSE
    OBVIOUS
  <2>2. IsFiniteSet({r}) /\ Cardinality({r}) = 1
    BY FS_Singleton
  <2>3. IsFiniteSet(Q) /\ Cardinality(Q) <= 1
    <3> HIDE DEF Q
    <3>1. Q \in SUBSET {r}
      BY <2>1
    <3> QED
      BY <2>2, <3>1, FS_Subset
  <2>4. F >= 1
    BY ClusterAssumption, ClusterNat DEF F, LowerBoundThreshold
  <2>5. Cardinality(Q) \in Nat
    BY <2>3, FS_CardinalityType
  <2> QED
    BY <1>2, <2>3, <2>4, <2>5, ClusterNat
<1>4. messagesLog'[s][u].ready[s] # None
  BY <1>3 DEF BroadcastInv, ReadyIsAuthentic, Senders
<1>5. s \in Readied(u)
  BY <1>3, <1>4 DEF Readied
<1> QED
  BY <1>5 DEF BroadcastInv, ReadyIsBacked

\* Handling a message supports u, delivers u to r, or is not seen.
LEMMA HandlesRefines ==
  ASSUME BroadcastInv, BroadcastInv', NEW r \in Correct, NEW u \in Uuid,
         Handles(r, u)
  PROVE  RB!Next \/ UNCHANGED RB!vars
<1> DEFINE S == {v \in Uuid : EchoQuorumSeen(v)}
<1> DEFINE D == [s \in Correct |->
                   {v \in Uuid : messagesLog[s][v].accepted # None}]
<1>1. /\ \A s \in Correct, v \in Uuid :
           s # r \/ v # u => messagesLog'[s][v] = messagesLog[s][v]
      /\ Senders(messagesLog[r][u].echo) \subseteq
           Senders(messagesLog'[r][u].echo)
      /\ \/ messagesLog'[r][u].accepted = messagesLog[r][u].accepted
         \/ /\ messagesLog[r][u].accepted = None
            /\ messagesLog'[r][u].accepted # None
  BY HandlesChange
<1>2. S \subseteq S' /\ S' \subseteq S \cup {u}
  <2>1. ASSUME NEW v \in Uuid, EchoQuorumSeen(v) PROVE EchoQuorumSeen(v)'
    <3>1. PICK s \in Correct :
            ReachesEchoQuorum(Count(messagesLog[s][v].echo), N)
      BY <2>1 DEF EchoQuorumSeen
    <3>2. Senders(messagesLog[s][v].echo) \subseteq
            Senders(messagesLog'[s][v].echo)
      BY <1>1
    <3>3. ReachesEchoQuorum(Count(messagesLog'[s][v].echo), N)
      BY <3>1, <3>2, EchoQuorumGrows
    <3> QED
      BY <3>3 DEF EchoQuorumSeen, ReachesEchoQuorum, Count, Senders
  <2>2. ASSUME NEW v \in Uuid, v # u, EchoQuorumSeen(v)'
        PROVE  EchoQuorumSeen(v)
    BY <1>1, <2>2 DEF EchoQuorumSeen, ReachesEchoQuorum, Count, Senders
  <2> QED
    BY <2>1, <2>2
<1>3. CASE messagesLog'[r][u].accepted = messagesLog[r][u].accepted
  <2>1. D' = D
    BY <1>1, <1>3
  <2>2. S' = S \/ S' = S \cup {u}
    BY <1>2
  <2> QED
    BY <2>1, <2>2 DEF RB!Next, RB!Support, RB!vars
<1>4. CASE /\ messagesLog[r][u].accepted = None
           /\ messagesLog'[r][u].accepted # None
  <2>1. u \in S
    BY <1>1, <1>4, AcceptIsSupported
  <2>2. S' = S
    BY <1>2, <2>1
  <2>3. u \notin D[r] /\ D'[r] = D[r] \cup {u}
    BY <1>1, <1>4
  <2>4. \A s \in Correct \ {r} : D'[s] = D[s]
    BY <1>1
  <2>5. D' = [D EXCEPT ![r] = @ \cup {u}]
    BY <2>3, <2>4
  <2> QED
    BY <2>1, <2>2, <2>3, <2>5 DEF RB!Next, RB!Deliver
<1> QED
  BY <1>1, <1>3, <1>4

\* A step that leaves the echoes and the acceptances alone is not seen.
LEMMA FrameRefines ==
  ASSUME \A s \in Correct, v \in Uuid :
           /\ messagesLog'[s][v].echo = messagesLog[s][v].echo
           /\ messagesLog'[s][v].accepted = messagesLog[s][v].accepted
  PROVE  UNCHANGED RB!vars
<1>1. \A v \in Uuid : EchoQuorumSeen(v)' <=> EchoQuorumSeen(v)
  BY DEF EchoQuorumSeen, ReachesEchoQuorum, Count, Senders
<1> QED
  BY <1>1 DEF RB!vars

\* Every step of the broadcast is a step of the abstract one, or a stutter.
LEMMA RefinementStep ==
  ASSUME BroadcastInv, BroadcastInv', [Next]_vars
  PROVE  RB!Next \/ UNCHANGED RB!vars
<1>1. ASSUME NEW r \in Correct, NEW op \in Op, BroadcastInit(r, op)
      PROVE  RB!Next \/ UNCHANGED RB!vars
  BY <1>1, ClusterAssumption, BroadcastInitHandles, HandlesRefines
<1>2. ASSUME NEW r \in Correct, NEW m \in InTransit, Receive(r, m)
      PROVE  RB!Next \/ UNCHANGED RB!vars
  BY <1>2, ReceiveHandles, HandlesRefines, InTransitType DEF BroadcastInv
<1>3. ASSUME NEW r \in Executor, NEW u \in Uuid, NEW x,
             messagesLog' = [messagesLog EXCEPT ![r][u].executing = @ \ {x}]
      PROVE  UNCHANGED RB!vars
  BY <1>3, ClusterAssumption, FrameRefines, SettlingKeeps DEF BroadcastInv
<1>4. ASSUME UNCHANGED messagesLog PROVE UNCHANGED RB!vars
  BY <1>4, FrameRefines
<1> QED
  BY <1>1, <1>2, <1>3, <1>4
     DEF Next, vars, DispatchClientOpRequest, Settle, AnswerAgain, StartRead,
         ExecutionCompletes, ExecutionFails, ReadCompletes, ReadFails

\* The three-staged broadcast implements the abstract reliable broadcast
\* (server.ts:414-604).
THEOREM Refinement == Spec => ImplementsBroadcast
<1>1. Init => RB!Init
  <2> SUFFICES ASSUME Init PROVE RB!Init
    OBVIOUS
  <2>1. \A r \in Correct, u \in Uuid :
          /\ messagesLog[r][u].accepted = None
          /\ Count(messagesLog[r][u].echo) = 0
    BY FS_EmptySet DEF Init, EmptyEntry, NoMessages, Count, Senders
  <2>2. \A u \in Uuid : ~EchoQuorumSeen(u)
    BY <2>1, ClusterNat, ClusterAssumption
       DEF EchoQuorumSeen, ReachesEchoQuorum, F
  <2> QED
    BY <2>1, <2>2 DEF RB!Init
<1>2. BroadcastInv /\ BroadcastInv' /\ [Next]_vars
        => RB!Next \/ UNCHANGED RB!vars
  BY RefinementStep
<1> QED
  BY <1>1, <1>2, BroadcastInvariance, PTL
     DEF Spec, ImplementsBroadcast, RB!Spec

-----------------------------------------------------------------------------
(* Nothing is left undone *)

\* The checks leave nothing due: with an Init an Echo is sent, with the echo
\* quorum a Ready, with the ready quorum the operation is accepted.
EchoDone(r, e) == Senders(e.init) # {} => e.echo[r] # None
ReadyDone(r, e) == ReachesEchoQuorum(Count(e.echo), N) => e.ready[r] # None
AcceptDone(e) == ReachesReadyQuorum(Count(e.ready), N) => e.accepted # None

Done(r, e) == EchoDone(r, e) /\ ReadyDone(r, e) /\ AcceptDone(e)

EntriesAreDone == \A r \in Correct, u \in Uuid : Done(r, messagesLog[r][u])

\* What an entry holds of its replica's own, the replica has sent.
OwnIsSent ==
  \A r \in Correct, u \in Uuid : OwnMessages(r, messagesLog[r][u]) \subseteq sent

\* A replica has stored every Init it has sent.
InitIsOwn ==
  \A m \in sent :
    m.type = "Init" => messagesLog[m.from][m.op.uuid].init[m.from] # None

DoneInv == EntriesAreDone /\ OwnIsSent /\ InitIsOwn

\* A quorum has members.
LEMMA QuorumHasSender ==
  ASSUME NEW slots,
         \/ ReachesEchoQuorum(Count(slots), N)
         \/ ReachesReadyQuorum(Count(slots), N)
  PROVE  Senders(slots) # {}
<1>1. SUFFICES ASSUME Senders(slots) = {} PROVE FALSE
  OBVIOUS
<1>2. Count(slots) = 0
  BY <1>1, FS_EmptySet DEF Count
<1> QED
  BY <1>2, ClusterNat, ClusterAssumption
     DEF ReachesEchoQuorum, ReachesReadyQuorum, F

\* With a message of any stage getOperationFromLog finds an operation.
LEMMA OperationIsFound ==
  ASSUME NEW e,
         \/ Senders(e.init) # {} \/ Senders(e.echo) # {} \/ Senders(e.ready) # {}
  PROVE  GetOperationFromLog(e) # None
<1>1. ASSUME NEW slots, Senders(slots) # {} PROVE First(slots) # None
  <2> DEFINE lowest ==
        CHOOSE s \in Senders(slots) : \A t \in Senders(slots) : s <= t
  <2>1. lowest \in Senders(slots)
    BY <1>1, LowestSender
  <2>2. First(slots) = slots[lowest]
    BY <1>1 DEF First
  <2> HIDE DEF lowest
  <2> QED
    BY <2>1, <2>2 DEF Senders
<1> QED
  BY <1>1 DEF GetOperationFromLog

\* Sending Echo, or Ready, sets r's own message of that stage and nothing else.
LEMMA SendSets ==
  ASSUME NEW r \in Replica, NEW u \in Uuid, NEW e \in EntryOf(u),
         GetOperationFromLog(e) # None
  PROVE  /\ SendEcho(r, e).echo[r] # None /\ SendEcho(r, e).init = e.init
         /\ SendEcho(r, e).ready = e.ready /\ SendEcho(r, e).accepted = e.accepted
         /\ SendReady(r, e).ready[r] # None /\ SendReady(r, e).init = e.init
         /\ SendReady(r, e).echo = e.echo
         /\ SendReady(r, e).accepted = e.accepted
BY DEF SendEcho, SendReady, EntryOf, SlotsOf

\* After the third phase no acceptance is due.
LEMMA Phase3Done ==
  ASSUME NEW u \in Uuid, NEW e \in EntryOf(u)
  PROVE  /\ AcceptDone(CheckPhase3(e))
         /\ CheckPhase3(e).init = e.init /\ CheckPhase3(e).echo = e.echo
         /\ CheckPhase3(e).ready = e.ready
<1>1. CASE AcceptDue(e)
  BY <1>1 DEF CheckPhase3, AcceptDue, AcceptDone, EntryOf
<1>2. CASE ~AcceptDue(e)
  BY <1>2, QuorumHasSender, OperationIsFound
     DEF CheckPhase3, AcceptDue, AcceptDone
<1> QED
  BY <1>1, <1>2

\* After the second no Ready is, and no acceptance unless it was due before.
LEMMA Phase2Done ==
  ASSUME NEW r \in Replica, NEW u \in Uuid, NEW e \in EntryOf(u), EchoDone(r, e)
  PROVE  /\ EchoDone(r, CheckPhase2(r, e)) /\ ReadyDone(r, CheckPhase2(r, e))
         /\ AcceptDone(e) => AcceptDone(CheckPhase2(r, e))
<1>1. CASE ReadyDue(r, e)
  <2> DEFINE readied == SendReady(r, e)
  <2> DEFINE echoed == IF EchoDue(r, readied) THEN SendEcho(r, readied)
                                              ELSE readied
  <2>1. /\ readied \in EntryOf(u)
        /\ readied.ready[r] # None /\ EchoDone(r, readied)
    BY <1>1, SendReadyGrows, SendSets DEF ReadyDue, EchoDone
  <2>2. /\ echoed \in EntryOf(u)
        /\ echoed.ready[r] # None /\ EchoDone(r, echoed)
    <3> HIDE DEF readied
    <3>1. CASE EchoDue(r, readied)
      BY <2>1, <3>1, SendEchoGrows, SendSets DEF EchoDue, EchoDone
    <3> QED
      BY <2>1, <3>1
  <2>3. /\ AcceptDone(CheckPhase3(echoed)) /\ EchoDone(r, CheckPhase3(echoed))
        /\ ReadyDone(r, CheckPhase3(echoed))
    <3> HIDE DEF echoed
    <3> QED
      BY <2>2, Phase3Done DEF EchoDone, ReadyDone
  <2>4. CheckPhase2(r, e) = CheckPhase3(echoed)
    BY <1>1 DEF CheckPhase2
  <2> QED
    BY <2>3, <2>4
<1>2. CASE ~ReadyDue(r, e)
  BY <1>2, QuorumHasSender, OperationIsFound DEF CheckPhase2, ReadyDue, ReadyDone
<1> QED
  BY <1>1, <1>2

\* After the first no Echo is, and nothing that was not due before.
LEMMA Phase1Done ==
  ASSUME NEW r \in Replica, NEW u \in Uuid, NEW e \in EntryOf(u)
  PROVE  /\ EchoDone(r, CheckPhase1(r, e))
         /\ ReadyDone(r, e) => ReadyDone(r, CheckPhase1(r, e))
         /\ AcceptDone(e) => AcceptDone(CheckPhase1(r, e))
<1>1. CASE EchoDue(r, e)
  <2> DEFINE echoed == SendEcho(r, e)
  <2>1. /\ echoed \in EntryOf(u) /\ EchoDone(r, echoed)
        /\ AcceptDone(e) => AcceptDone(echoed)
    BY <1>1, SendEchoGrows, SendSets DEF EchoDue, EchoDone, AcceptDone
  <2>2. CheckPhase1(r, e) = CheckPhase2(r, echoed)
    BY <1>1 DEF CheckPhase1
  <2> HIDE DEF echoed
  <2> QED
    BY <2>1, <2>2, Phase2Done
<1>2. CASE ~EchoDue(r, e)
  <2>1. Senders(e.init) # {} => Count(e.init) >= 1
    BY CountNat, FS_EmptySet DEF Count
  <2>2. EchoDone(r, e)
    BY <1>2, <2>1, OperationIsFound DEF EchoDue, EchoDone
  <2> QED
    BY <1>2, <2>2 DEF CheckPhase1
<1> QED
  BY <1>1, <1>2

\* What a handler leaves: an entry in which nothing is due, with every Init it
\* had and the one sent, and what the entry holds of r's own on its way.
Finishes(r, u) ==
  \E f \in EntryOf(u) :
    /\ Done(r, f)
    /\ Senders(messagesLog[r][u].init) \subseteq Senders(f.init)
    /\ messagesLog' = [messagesLog EXCEPT ![r][u] = f]
    /\ sent \cup OwnMessages(r, f) \subseteq sent'
    /\ \A m \in sent' \ sent :
         m.type = "Init" => m.from = r /\ m.op.uuid = u /\ f.init[r] # None

\* The handler of a message stores it and leaves nothing due.
LEMMA ReceiveFinishes ==
  ASSUME BroadcastInv, EntriesAreDone, NEW r \in Correct, NEW m \in InTransit,
         Receive(r, m)
  PROVE  Finishes(r, m.op.uuid)
<1> DEFINE u == m.op.uuid
<1> DEFINE old == messagesLog[r][u]
<1>1. /\ m \in Message /\ m.op \in OpsOf(u) /\ u \in Uuid /\ m.op # None
  BY InTransitType, OperationAssumption DEF BroadcastInv, OpsOf
<1>2. old \in EntryOf(u) /\ Done(r, old)
  BY <1>1 DEF BroadcastInv, UuidMatches, EntriesAreDone
<1>3. m.from \in Replica /\ m.from # r /\ r \in Replica
  BY <1>1 DEF Receive, ReceiveInit, ReceiveEcho, ReceiveReady, Arrives,
              Message, Correct
<1>4. ASSUME NEW f \in EntryOf(u), Done(r, f), Update(r, u, f),
             Senders(old.init) \subseteq Senders(f.init)
      PROVE  Finishes(r, u)
  <2>1. \A x \in OwnMessages(r, f) : x.type # "Init"
    BY DEF OwnMessages
  <2> HIDE DEF u
  <2> QED
    BY <1>4, <2>1 DEF Finishes, Update, u
<1>5. CASE ReceiveInit(r, m)
  <2> DEFINE stored == [old EXCEPT !.init = Store(@, m.from, m.op)]
  <2> DEFINE e1 == CheckPhase1(r, stored)
  <2>1. /\ stored \in EntryOf(u)
        /\ Senders(old.init) \subseteq Senders(stored.init)
        /\ ReadyDone(r, stored) /\ AcceptDone(stored)
    BY <1>1, <1>2, <1>3
       DEF EntryOf, SlotsOf, Store, Senders, Done, ReadyDone, AcceptDone
  <2>2. e1 \in EntryOf(u) /\ Done(r, e1) /\ e1.init = stored.init
    <3> HIDE DEF stored
    <3> QED
      BY <1>1, <1>3, <2>1, Phase1Grows, Phase1Done DEF Done, Grows
  <2>3. Update(r, u, e1)
    BY <1>5 DEF ReceiveInit
  <2> HIDE DEF stored, e1, u
  <2> QED
    BY <1>4, <2>1, <2>2, <2>3 DEF u
<1>6. CASE ReceiveEcho(r, m)
  <2> DEFINE stored == [old EXCEPT !.echo = Store(@, m.from, m.op)]
  <2> DEFINE e1 == CheckPhase1(r, stored)
  <2> DEFINE e2 == CheckPhase2(r, e1)
  <2>1. stored \in EntryOf(u) /\ old.init = stored.init /\ AcceptDone(stored)
    BY <1>1, <1>2, <1>3 DEF EntryOf, SlotsOf, Store, Done, AcceptDone
  <2>2. /\ e1 \in EntryOf(u) /\ e1.init = stored.init
        /\ EchoDone(r, e1) /\ AcceptDone(e1)
    <3> HIDE DEF stored
    <3> QED
      BY <1>1, <1>3, <2>1, Phase1Grows, Phase1Done DEF Grows
  <2>3. e2 \in EntryOf(u) /\ e2.init = stored.init /\ Done(r, e2)
    <3> HIDE DEF stored, e1
    <3> QED
      BY <1>1, <1>3, <2>2, Phase2Grows, Phase2Done DEF Grows, Done
  <2>4. Update(r, u, e2)
    BY <1>6 DEF ReceiveEcho
  <2> HIDE DEF stored, e2, u
  <2> QED
    BY <1>4, <2>1, <2>3, <2>4 DEF u
<1>7. CASE ReceiveReady(r, m)
  <2> DEFINE stored == [old EXCEPT !.ready = Store(@, m.from, m.op)]
  <2> DEFINE e1 == CheckPhase1(r, stored)
  <2> DEFINE e2 == CheckPhase2(r, e1)
  <2> DEFINE e3 == CheckPhase3(e2)
  <2>1. stored \in EntryOf(u) /\ old.init = stored.init
    BY <1>1, <1>2, <1>3 DEF EntryOf, SlotsOf, Store
  <2>2. e1 \in EntryOf(u) /\ e1.init = stored.init /\ EchoDone(r, e1)
    <3> HIDE DEF stored
    <3> QED
      BY <1>1, <1>3, <2>1, Phase1Grows, Phase1Done DEF Grows
  <2>3. /\ e2 \in EntryOf(u) /\ e2.init = stored.init
        /\ EchoDone(r, e2) /\ ReadyDone(r, e2)
    <3> HIDE DEF stored, e1
    <3> QED
      BY <1>1, <1>3, <2>2, Phase2Grows, Phase2Done DEF Grows
  <2>4. e3 \in EntryOf(u) /\ e3.init = stored.init /\ Done(r, e3)
    <3> HIDE DEF stored, e2
    <3> QED
      BY <1>1, <1>3, <2>3, Phase3Grows, Phase3Done
         DEF Done, EchoDone, ReadyDone
  <2>5. Update(r, u, e3)
    BY <1>7 DEF ReceiveReady
  <2> HIDE DEF stored, e3, u
  <2> QED
    BY <1>4, <2>1, <2>4, <2>5 DEF u
<1> QED
  BY <1>5, <1>6, <1>7 DEF Receive

\* So does that of a write request, with the Init it hands to itself.
LEMMA BroadcastInitFinishes ==
  ASSUME BroadcastInv, EntriesAreDone, NEW r \in Correct, NEW op \in Op,
         BroadcastInit(r, op)
  PROVE  op.uuid \in Uuid /\ Finishes(r, op.uuid)
<1> DEFINE u == op.uuid
<1> DEFINE old == messagesLog[r][u]
<1> DEFINE stored == [old EXCEPT !.init = Store(@, r, op)]
<1> DEFINE e1 == CheckPhase1(r, stored)
<1>1. u \in Uuid /\ op \in OpsOf(u) /\ op # None /\ r \in Replica
  BY OperationAssumption DEF OpsOf, Correct
<1>2. old \in EntryOf(u) /\ Done(r, old)
  BY <1>1 DEF BroadcastInv, UuidMatches, EntriesAreDone
<1>3. /\ stored \in EntryOf(u)
      /\ Senders(old.init) \subseteq Senders(stored.init)
      /\ stored.init[r] # None
      /\ ReadyDone(r, stored) /\ AcceptDone(stored)
  BY <1>1, <1>2
     DEF EntryOf, SlotsOf, Store, Senders, Done, ReadyDone, AcceptDone
<1>4. e1 \in EntryOf(u) /\ Done(r, e1) /\ e1.init = stored.init
  <2> HIDE DEF stored
  <2> QED
    BY <1>1, <1>3, Phase1Grows, Phase1Done DEF Done, Grows
<1>5. /\ messagesLog' = [messagesLog EXCEPT ![r][u] = e1]
      /\ sent' = sent \cup {[type |-> "Init", op |-> op, from |-> r]}
                      \cup OwnMessages(r, e1)
  BY DEF BroadcastInit
<1>6. \A x \in OwnMessages(r, e1) : x.type # "Init"
  BY DEF OwnMessages
<1>7. Finishes(r, u)
  <2>1. sent \cup OwnMessages(r, e1) \subseteq sent'
    <3> HIDE DEF e1
    <3> QED
      BY <1>5
  <2>2. \A m \in sent' \ sent :
          m.type = "Init" => m.from = r /\ m.op.uuid = op.uuid
    <3> HIDE DEF e1
    <3> QED
      BY <1>5, <1>6
  <2>3. Senders(old.init) \subseteq Senders(e1.init) /\ e1.init[r] # None
    <3> HIDE DEF stored, e1
    <3> QED
      BY <1>3, <1>4
  <2>4. \A m \in sent' \ sent :
          m.type = "Init" => m.from = r /\ m.op.uuid = u /\ e1.init[r] # None
    BY <2>2, <2>3
  <2> HIDE DEF e1, u
  <2> QED
    BY <1>4, <1>5, <2>1, <2>3, <2>4 DEF Finishes
<1> QED
  BY <1>1, <1>7

\* A handler that finishes preserves the invariant.
LEMMA FinishesDone ==
  ASSUME BroadcastInv, DoneInv, NEW r \in Correct, NEW u \in Uuid, Finishes(r, u)
  PROVE  DoneInv'
<1>1. PICK f \in EntryOf(u) :
        /\ Done(r, f)
        /\ Senders(messagesLog[r][u].init) \subseteq Senders(f.init)
        /\ messagesLog' = [messagesLog EXCEPT ![r][u] = f]
        /\ sent \cup OwnMessages(r, f) \subseteq sent'
        /\ \A m \in sent' \ sent :
             m.type = "Init" => m.from = r /\ m.op.uuid = u /\ f.init[r] # None
  BY DEF Finishes
<1>2. /\ messagesLog'[r][u] = f
      /\ \A s \in Correct, v \in Uuid :
           s # r \/ v # u => messagesLog'[s][v] = messagesLog[s][v]
  BY <1>1 DEF BroadcastInv, TypeOK
<1>3. ASSUME NEW s \in Correct, NEW v \in Uuid
      PROVE  /\ Done(s, messagesLog'[s][v])
             /\ OwnMessages(s, messagesLog'[s][v]) \subseteq sent'
  <2>1. CASE s = r /\ v = u
    BY <1>1, <1>2, <2>1
  <2>2. CASE s # r \/ v # u
    <3>1. messagesLog'[s][v] = messagesLog[s][v]
      BY <1>2, <2>2
    <3> QED
      BY <1>1, <3>1 DEF DoneInv, EntriesAreDone, OwnIsSent
  <2> QED
    BY <2>1, <2>2
<1>4. InitIsOwn'
  <2> SUFFICES ASSUME NEW m \in sent', m.type = "Init"
               PROVE  messagesLog'[m.from][m.op.uuid].init[m.from] # None
    BY DEF InitIsOwn
  <2>1. CASE m \in sent
    <3>1. m.from \in Correct /\ m.from \in Replica /\ m.op.uuid \in Uuid
      BY <2>1, OperationAssumption DEF BroadcastInv, TypeOK, Correct
    <3>2. messagesLog[m.from][m.op.uuid].init[m.from] # None
      BY <2>1 DEF DoneInv, InitIsOwn
    <3>3. CASE m.from = r /\ m.op.uuid = u
      BY <1>1, <1>2, <3>1, <3>2, <3>3 DEF Senders
    <3>4. CASE m.from # r \/ m.op.uuid # u
      BY <1>2, <3>1, <3>2, <3>4
    <3> QED
      BY <3>3, <3>4
  <2>2. CASE m \notin sent
    BY <1>1, <1>2, <2>2
  <2> QED
    BY <2>1, <2>2
<1>5. EntriesAreDone' /\ OwnIsSent'
  BY <1>3 DEF EntriesAreDone, OwnIsSent
<1> QED
  BY <1>4, <1>5 DEF DoneInv

\* The stages of an entry are not changed by other steps.
LEMMA QuietDone ==
  ASSUME BroadcastInv, DoneInv, sent \subseteq sent',
         \A m \in sent' \ sent : m.type = "SingleReply",
         \A r \in Correct, u \in Uuid :
           /\ messagesLog'[r][u].init = messagesLog[r][u].init
           /\ messagesLog'[r][u].echo = messagesLog[r][u].echo
           /\ messagesLog'[r][u].ready = messagesLog[r][u].ready
           /\ messagesLog'[r][u].accepted = messagesLog[r][u].accepted
  PROVE  DoneInv'
<1>1. ASSUME NEW r \in Correct, NEW u \in Uuid
      PROVE  /\ Done(r, messagesLog'[r][u])
             /\ OwnMessages(r, messagesLog'[r][u]) \subseteq sent'
  <2>1. OwnMessages(r, messagesLog'[r][u]) = OwnMessages(r, messagesLog[r][u])
    BY DEF OwnMessages
  <2>2. Done(r, messagesLog'[r][u])
    BY DEF DoneInv, EntriesAreDone, Done, EchoDone, ReadyDone, AcceptDone
  <2> QED
    BY <2>1, <2>2 DEF DoneInv, OwnIsSent
<1>2. InitIsOwn'
  <2> SUFFICES ASSUME NEW m \in sent', m.type = "Init"
               PROVE  messagesLog'[m.from][m.op.uuid].init[m.from] # None
    BY DEF InitIsOwn
  <2>1. m \in sent /\ m.from \in Correct /\ m.op.uuid \in Uuid
    BY OperationAssumption DEF BroadcastInv, TypeOK
  <2> QED
    BY <2>1 DEF DoneInv, InitIsOwn
<1> QED
  BY <1>1, <1>2 DEF DoneInv, EntriesAreDone, OwnIsSent

\* Nothing is due at the start.
LEMMA DoneInvInit == ASSUME Init PROVE DoneInv
<1>1. /\ \A r \in Correct, u \in Uuid : messagesLog[r][u] = EmptyEntry
      /\ sent = {}
  BY DEF Init
<1>2. Senders(NoMessages) = {}
  BY DEF Senders, NoMessages
<1>3. /\ ~ReachesEchoQuorum(Count(NoMessages), N)
      /\ ~ReachesReadyQuorum(Count(NoMessages), N)
  BY <1>2, QuorumHasSender
<1>4. \A r \in Correct : Done(r, EmptyEntry)
  BY <1>2, <1>3 DEF Done, EchoDone, ReadyDone, AcceptDone, EmptyEntry
<1>5. \A r \in Correct : OwnMessages(r, EmptyEntry) = {}
  BY DEF OwnMessages, EmptyEntry, NoMessages, Correct
<1> QED
  BY <1>1, <1>4, <1>5 DEF DoneInv, EntriesAreDone, OwnIsSent, InitIsOwn

\* Every step preserves the invariant.
LEMMA DoneInvStep ==
  ASSUME BroadcastInv, DoneInv, [Next]_vars PROVE DoneInv'
<1>1. ASSUME NEW r \in Correct, NEW op \in Op, BroadcastInit(r, op)
      PROVE  DoneInv'
  BY <1>1, BroadcastInitFinishes, FinishesDone DEF DoneInv
<1>2. ASSUME NEW r \in Correct, NEW m \in InTransit, Receive(r, m)
      PROVE  DoneInv'
  BY <1>2, ReceiveFinishes, FinishesDone, InTransitType DEF DoneInv, BroadcastInv
<1>3. ASSUME NEW r \in Executor, NEW u \in Uuid, NEW op \in Op,
             \/ ExecutionCompletes(r, u, op)
             \/ ExecutionFails(r, u, op)
      PROVE  DoneInv'
  <2>1. /\ messagesLog' = [messagesLog EXCEPT ![r][u].executing = @ \ {op}]
        /\ sent \subseteq sent'
        /\ \A m \in sent' \ sent : m.type = "SingleReply"
    BY <1>3 DEF ExecutionCompletes, ExecutionFails
  <2>2. \A s \in Correct, v \in Uuid :
          /\ messagesLog'[s][v].init = messagesLog[s][v].init
          /\ messagesLog'[s][v].echo = messagesLog[s][v].echo
          /\ messagesLog'[s][v].ready = messagesLog[s][v].ready
          /\ messagesLog'[s][v].accepted = messagesLog[s][v].accepted
    BY <2>1, SettlingKeeps, ClusterAssumption DEF BroadcastInv
  <2> QED
    BY <2>1, <2>2, QuietDone
<1>4. ASSUME UNCHANGED <<messagesLog, sent>> PROVE DoneInv'
  BY <1>4, QuietDone
<1> QED
  BY <1>1, <1>2, <1>3, <1>4
     DEF Next, vars, DispatchClientOpRequest, Settle, AnswerAgain, StartRead,
         ReadCompletes, ReadFails

\* As many correct replicas as it takes to accept are a quorum of echoes, too.
LEMMA CorrectAreQuorums ==
  ASSUME ReachesReadyQuorum(Cardinality(Correct), N),
         NEW slots, Correct \subseteq Senders(slots)
  PROVE  /\ ReachesEchoQuorum(Count(slots), N)
         /\ ReachesReadyQuorum(Count(slots), N)
<1>1. IsFiniteSet(Senders(slots)) /\ Correct \in SUBSET Senders(slots)
  BY CountNat
<1>2. Cardinality(Correct) <= Count(slots) /\ Cardinality(Correct) \in Nat
  BY <1>1, FS_Subset, FS_CardinalityType DEF Count
<1>3. Count(slots) \in Nat
  BY CountNat
<1> QED
  BY <1>2, <1>3, ClusterNat
     DEF ReachesEchoQuorum, ReachesReadyQuorum, LowerBoundThreshold

\* Of a message that all have read, all have stored one of its sender.
LEMMA ReadIsStored ==
  ASSUME BroadcastInv, NEW r \in Correct, NEW s \in Correct, NEW u \in Uuid,
         DoneInv, \A t \in Correct, m \in sent : m.from # t => ~Unread(t, m)
  PROVE  /\ messagesLog[s][u].echo[s] # None => messagesLog[r][u].echo[s] # None
         /\ messagesLog[s][u].ready[s] # None => messagesLog[r][u].ready[s] # None
<1>1. messagesLog[s][u] \in EntryOf(u) /\ s \in Replica
  BY DEF BroadcastInv, UuidMatches, Correct
<1>2. ASSUME NEW type \in {"Echo", "Ready"}, NEW op \in OpsOf(u), r # s,
             [type |-> type, op |-> op, from |-> s] \in OwnMessages(s, messagesLog[s][u])
      PROVE  /\ type = "Echo" => messagesLog[r][u].echo[s] # None
             /\ type = "Ready" => messagesLog[r][u].ready[s] # None
  <2> DEFINE m == [type |-> type, op |-> op, from |-> s]
  <2>1. m \in sent
    BY <1>2 DEF DoneInv, OwnIsSent
  <2>2. m.type = type /\ m.op.uuid = u /\ m.from = s
    BY DEF OpsOf
  <2> HIDE DEF m
  <2>3. ~Unread(r, m)
    BY <1>2, <2>1, <2>2
  <2> QED
    BY <2>2, <2>3 DEF Unread
<1>3. ASSUME messagesLog[s][u].echo[s] # None, r # s
      PROVE  messagesLog[r][u].echo[s] # None
  <2>1. messagesLog[s][u].echo[s] \in OpsOf(u)
    BY <1>1, <1>3 DEF EntryOf, SlotsOf
  <2>2. [type |-> "Echo", op |-> messagesLog[s][u].echo[s], from |-> s]
          \in OwnMessages(s, messagesLog[s][u])
    BY <1>3 DEF OwnMessages
  <2> QED
    BY <1>2, <1>3, <2>1, <2>2
<1>4. ASSUME messagesLog[s][u].ready[s] # None, r # s
      PROVE  messagesLog[r][u].ready[s] # None
  <2>1. messagesLog[s][u].ready[s] \in OpsOf(u)
    BY <1>1, <1>4 DEF EntryOf, SlotsOf
  <2>2. [type |-> "Ready", op |-> messagesLog[s][u].ready[s], from |-> s]
          \in OwnMessages(s, messagesLog[s][u])
    BY <1>4 DEF OwnMessages
  <2> QED
    BY <1>2, <1>4, <2>1, <2>2
<1> QED
  BY <1>3, <1>4

\* Once all is read, the correct replicas that accept have carried every Init
\* through the three stages.
LEMMA SettledAccepts ==
  ASSUME ReachesReadyQuorum(Cardinality(Correct), N), BroadcastInv, DoneInv
  PROVE  SettledIsAccepted
<1> SUFFICES ASSUME \A t \in Correct, m \in sent : m.from # t => ~Unread(t, m),
                    NEW r \in Correct, NEW m \in sent, m.type = "Init"
             PROVE  messagesLog[r][m.op.uuid].accepted # None
  BY DEF SettledIsAccepted
<1> DEFINE u == m.op.uuid
<1>1. u \in Uuid /\ m.from \in Correct /\ Correct \subseteq Replica
  BY OperationAssumption DEF BroadcastInv, TypeOK, Correct
<1>2. \A t \in Correct : Done(t, messagesLog[t][u])
  BY <1>1 DEF DoneInv, EntriesAreDone
<1>3. ASSUME NEW t \in Correct PROVE messagesLog[t][u].echo[t] # None
  <2>1. messagesLog[t][u].init[m.from] # None
    BY DEF DoneInv, InitIsOwn, Unread
  <2> QED
    BY <1>1, <1>2, <2>1 DEF Done, EchoDone, Senders
<1>4. ASSUME NEW t \in Correct PROVE messagesLog[t][u].ready[t] # None
  <2>1. \A s \in Correct : messagesLog[t][u].echo[s] # None
    BY <1>1, <1>3, ReadIsStored
  <2>2. Correct \subseteq Senders(messagesLog[t][u].echo)
    BY <1>1, <2>1 DEF Senders
  <2> QED
    BY <1>2, <2>2, CorrectAreQuorums DEF Done, ReadyDone
<1>5. Correct \subseteq Senders(messagesLog[r][u].ready)
  <2>1. \A s \in Correct : messagesLog[r][u].ready[s] # None
    BY <1>1, <1>4, ReadIsStored
  <2> QED
    BY <1>1, <2>1 DEF Senders
<1> QED
  BY <1>2, <1>5, CorrectAreQuorums DEF Done, AcceptDone

\* No handler leaves a check undone that its message has made due, nor keeps
\* its own Echo or Ready from the others (server.ts:505-604).
THEOREM NothingLeftUndone == Spec => []DoneInv
<1>1. Init => DoneInv
  BY DoneInvInit
<1>2. BroadcastInv /\ DoneInv /\ [Next]_vars => DoneInv'
  BY DoneInvStep
<1> QED
  BY <1>1, <1>2, BroadcastInvariance, PTL DEF Spec

\* If the correct replicas are as many as it takes to accept, they need no one
\* else: once each has read what the others sent, each has accepted whatever
\* was broadcast in an Init (server.ts:172-174, 505-584).
THEOREM SettledAcceptance ==
  ASSUME ReachesReadyQuorum(Cardinality(Correct), N)
  PROVE  Spec => []SettledIsAccepted
<1>1. BroadcastInv /\ DoneInv => SettledIsAccepted
  BY SettledAccepts
<1> QED
  BY <1>1, BroadcastInvariance, NothingLeftUndone, PTL

\* Of n = 3f + 1 replicas they always are, whichever f are silent; of
\* n = 3f + 2 they are not (SilenceBlocks).
THEOREM SilenceIsBorne ==
  ASSUME NEW f \in Nat, N = 3 * f + 1
  PROVE  Spec => []SettledIsAccepted
<1>1. F = f
  BY DEF F, LowerBoundThreshold
<1>2. Cardinality(Correct) >= N - F
  <2>1. Replica \cap Faulty = Faulty /\ IsFiniteSet(Faulty)
    BY FS_Subset, ClusterAssumption
  <2>2. Cardinality(Replica \ Faulty) = Cardinality(Replica) - Cardinality(Faulty)
    BY <2>1, FS_Difference, ClusterAssumption
  <2>3. Cardinality(Correct) = N - Cardinality(Faulty)
    BY <2>2 DEF Correct, N
  <2>4. Cardinality(Faulty) \in Nat /\ Cardinality(Faulty) <= F
    BY <2>1, FS_CardinalityType, ClusterAssumption
  <2> QED
    BY <2>3, <2>4, ClusterNat
<1>3. ReachesReadyQuorum(Cardinality(Correct), N)
  BY <1>1, <1>2, ClusterNat DEF ReachesReadyQuorum, F
<1> QED
  BY <1>3, SettledAcceptance
=============================================================================
