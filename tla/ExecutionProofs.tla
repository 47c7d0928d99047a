-------------------------- MODULE ExecutionProofs ---------------------------
(***************************************************************************)
(* Theorems about the execution of accepted operations in AtomicBroadcast: *)
(* what a replica hands to its state machine and appends to its log.       *)
(***************************************************************************)
EXTENDS AtomicBroadcastProofs

\* Only the accepted operation is in the hands of the state machine.
ExecutingIsAccepted ==
  \A r \in Correct, u \in Uuid :
    messagesLog[r][u].executing \subseteq {messagesLog[r][u].accepted}

\* What is in the log was accepted, and its execution is over.
LoggedIsDone ==
  \A r \in Correct : \A i \in DOMAIN log[r] :
    LET e == messagesLog[r][log[r][i].uuid]
    IN  e.accepted = log[r][i] /\ e.executing = {}

\* The last operation a replica remembers of a client is in its log.
LastIsLogged ==
  \A r \in Correct, c \in Client :
    clientLastOp[r][c] # None =>
      \E i \in DOMAIN log[r] : log[r][i].uuid = clientLastOp[r][c]

ExecutionInv == ExecutingIsAccepted /\ LoggedIsDone /\ AtMostOnce /\ LastIsLogged

\* An operation is in the hands of the state machine only under its own uuid.
LEMMA ExecutingType ==
  ASSUME BroadcastInv, NEW r \in Correct, NEW u \in Uuid,
         NEW op \in messagesLog[r][u].executing
  PROVE  op \in OpsOf(u) /\ op \in Op /\ op.client \in Client /\ op.uuid = u
<1>1. op \in OpsOf(u)
  BY DEF BroadcastInv, UuidMatches, EntryOf
<1> QED
  BY <1>1, OperationAssumption DEF OpsOf

\* Logged operations are operations.
LEMMA LoggedType ==
  ASSUME TypeOK, NEW r \in Correct, NEW i \in DOMAIN log[r]
  PROVE  log[r][i] \in Op /\ log[r][i].uuid \in Uuid /\ log[r][i] # None
<1>1. log[r] \in Seq(Op)
  BY DEF TypeOK
<1>2. log[r][i] \in Op
  BY <1>1
<1> QED
  BY <1>2, OperationAssumption

\* Handling a message accepts an operation that is neither executing nor logged.
LEMMA HandlesExecution ==
  ASSUME BroadcastInv, ExecutionInv, NEW r \in Correct, NEW u \in Uuid,
         Handles(r, u)
  PROVE  ExecutionInv'
<1>1. /\ \A s \in Correct, v \in Uuid :
           s # r \/ v # u => messagesLog'[s][v] = messagesLog[s][v]
      /\ messagesLog'[r][u] \in EntryOf(u)
      /\ \/ /\ messagesLog'[r][u].accepted = messagesLog[r][u].accepted
            /\ messagesLog'[r][u].executing = messagesLog[r][u].executing
         \/ /\ messagesLog[r][u].accepted = None
            /\ messagesLog'[r][u].accepted # None
            /\ messagesLog'[r][u].executing =
                 messagesLog[r][u].executing
                   \cup {messagesLog'[r][u].accepted}
      /\ UNCHANGED <<log, clientLastOp>>
  BY HandlesChange
<1>2. None \notin messagesLog[r][u].executing
  BY ExecutingType, OperationAssumption
<1>3. ExecutingIsAccepted'
  <2>1. messagesLog'[r][u].executing \subseteq {messagesLog'[r][u].accepted}
    BY <1>1, <1>2 DEF ExecutionInv, ExecutingIsAccepted
  <2> QED
    BY <1>1, <2>1 DEF ExecutionInv, ExecutingIsAccepted
<1>4. LoggedIsDone'
  <2> SUFFICES ASSUME NEW s \in Correct, NEW i \in DOMAIN log[s]
               PROVE  /\ messagesLog'[s][log[s][i].uuid].accepted = log[s][i]
                      /\ messagesLog'[s][log[s][i].uuid].executing = {}
    BY <1>1 DEF LoggedIsDone
  <2>1. /\ messagesLog[s][log[s][i].uuid].accepted = log[s][i]
        /\ messagesLog[s][log[s][i].uuid].executing = {}
    BY DEF ExecutionInv, LoggedIsDone
  <2>2. log[s][i].uuid \in Uuid /\ log[s][i] # None
    BY LoggedType DEF BroadcastInv
  <2> QED
    BY <1>1, <2>1, <2>2
<1>5. AtMostOnce' /\ LastIsLogged'
  BY <1>1 DEF ExecutionInv, AtMostOnce, LastIsLogged
<1> QED
  BY <1>3, <1>4, <1>5 DEF ExecutionInv

\* The completed operation is appended to a log that has none of its uuid.
LEMMA CompletesExecution ==
  ASSUME BroadcastInv, ExecutionInv, NEW r \in Correct, NEW u \in Uuid,
         NEW op \in Op, ExecutionCompletes(r, u, op)
  PROVE  ExecutionInv'
<1>1. /\ op \in messagesLog[r][u].executing
      /\ messagesLog' = [messagesLog EXCEPT ![r][u].executing = @ \ {op}]
      /\ clientLastOp' = [clientLastOp EXCEPT ![r][op.client] = op.uuid]
      /\ log' = [log EXCEPT ![r] = Append(@, op)]
  BY DEF ExecutionCompletes
<1>2. op.uuid = u /\ op.client \in Client /\ messagesLog[r][u].accepted = op
  BY <1>1, ExecutingType DEF ExecutionInv, ExecutingIsAccepted
<1>3. /\ messagesLog'[r][u].accepted = op
      /\ messagesLog'[r][u].executing = {}
      /\ \A s \in Correct, v \in Uuid :
           s # r \/ v # u => messagesLog'[s][v] = messagesLog[s][v]
  <2>1. messagesLog[r][u] \in EntryOf(u)
    BY DEF BroadcastInv, UuidMatches
  <2>2. messagesLog'[r][u] = [messagesLog[r][u] EXCEPT !.executing = @ \ {op}]
    BY <1>1 DEF BroadcastInv, TypeOK
  <2>3. messagesLog[r][u].executing = {op}
    BY <1>1, <1>2 DEF ExecutionInv, ExecutingIsAccepted
  <2> QED
    BY <1>1, <1>2, <2>1, <2>2, <2>3 DEF EntryOf, BroadcastInv, TypeOK
<1>4. \A i \in DOMAIN log[r] : log[r][i].uuid # u
  BY <1>1 DEF ExecutionInv, LoggedIsDone
<1>5. /\ log[r] \in Seq(Op) /\ log'[r] = Append(log[r], op)
      /\ \A s \in Correct \ {r} : log'[s] = log[s]
  BY <1>1 DEF BroadcastInv, TypeOK
<1>6. /\ DOMAIN log'[r] = DOMAIN log[r] \cup {Len(log[r]) + 1}
      /\ Len(log[r]) + 1 \notin DOMAIN log[r]
      /\ \A i \in DOMAIN log[r] : log'[r][i] = log[r][i]
      /\ log'[r][Len(log[r]) + 1] = op
  BY <1>5
<1>7. ExecutingIsAccepted'
  BY <1>3 DEF ExecutionInv, ExecutingIsAccepted
<1>8. LoggedIsDone'
  <2> SUFFICES ASSUME NEW s \in Correct, NEW i \in DOMAIN log'[s]
               PROVE  LET e == messagesLog'[s][log'[s][i].uuid]
                      IN  e.accepted = log'[s][i] /\ e.executing = {}
    BY DEF LoggedIsDone
  <2>1. CASE s = r /\ i = Len(log[r]) + 1
    BY <1>2, <1>3, <1>6, <2>1
  <2>2. CASE s # r \/ i # Len(log[r]) + 1
    <3>1. i \in DOMAIN log[s] /\ log'[s][i] = log[s][i]
      BY <1>5, <1>6, <2>2
    <3>2. log[s][i].uuid \in Uuid /\ (s # r \/ log[s][i].uuid # u)
      BY <1>4, <3>1, LoggedType DEF BroadcastInv
    <3> QED
      BY <1>3, <3>1, <3>2 DEF ExecutionInv, LoggedIsDone
  <2> QED
    BY <2>1, <2>2
<1>9. AtMostOnce'
  <2> SUFFICES ASSUME NEW s \in Correct, NEW i \in DOMAIN log'[s],
                      NEW j \in DOMAIN log'[s],
                      log'[s][i].uuid = log'[s][j].uuid
               PROVE  i = j
    BY DEF AtMostOnce
  <2>1. CASE s = r
    BY <1>2, <1>4, <1>6, <2>1 DEF ExecutionInv, AtMostOnce
  <2>2. CASE s # r
    BY <1>5, <2>2 DEF ExecutionInv, AtMostOnce
  <2> QED
    BY <2>1, <2>2
<1>10. LastIsLogged'
  <2> SUFFICES ASSUME NEW s \in Correct, NEW c \in Client,
                      clientLastOp'[s][c] # None
               PROVE  \E i \in DOMAIN log'[s] :
                        log'[s][i].uuid = clientLastOp'[s][c]
    BY DEF LastIsLogged
  <2>1. CASE s = r /\ c = op.client
    BY <1>1, <1>2, <1>6, <2>1 DEF BroadcastInv, TypeOK
  <2>2. CASE s # r \/ c # op.client
    <3>1. clientLastOp'[s][c] = clientLastOp[s][c]
      BY <1>1, <1>2, <2>2 DEF BroadcastInv, TypeOK
    <3>2. PICK i \in DOMAIN log[s] : log[s][i].uuid = clientLastOp[s][c]
      BY <3>1 DEF ExecutionInv, LastIsLogged
    <3>3. i \in DOMAIN log'[s] /\ log'[s][i] = log[s][i]
      BY <1>5, <1>6, <3>2
    <3> QED
      BY <3>1, <3>2, <3>3
  <2> QED
    BY <2>1, <2>2
<1> QED
  BY <1>7, <1>8, <1>9, <1>10 DEF ExecutionInv

\* A failed execution only takes the operation from the state machine.
LEMMA FailsExecution ==
  ASSUME BroadcastInv, ExecutionInv, NEW r \in Correct, NEW u \in Uuid,
         NEW op \in Op, ExecutionFails(r, u, op)
  PROVE  ExecutionInv'
<1>1. /\ messagesLog' = [messagesLog EXCEPT ![r][u].executing = @ \ {op}]
      /\ UNCHANGED <<log, clientLastOp>>
  BY DEF ExecutionFails
<1>2. \A s \in Correct, v \in Uuid :
        /\ messagesLog'[s][v].accepted = messagesLog[s][v].accepted
        /\ messagesLog'[s][v].executing \subseteq messagesLog[s][v].executing
  BY <1>1, SettlingKeeps DEF BroadcastInv
<1>3. ExecutingIsAccepted'
  BY <1>2 DEF ExecutionInv, ExecutingIsAccepted
<1>4. LoggedIsDone'
  <2> SUFFICES ASSUME NEW s \in Correct, NEW i \in DOMAIN log'[s]
               PROVE  LET e == messagesLog'[s][log'[s][i].uuid]
                      IN  e.accepted = log'[s][i] /\ e.executing = {}
    BY DEF LoggedIsDone
  <2>1. i \in DOMAIN log[s] /\ log'[s] = log[s]
    BY <1>1
  <2>2. log[s][i].uuid \in Uuid
    BY <2>1, LoggedType DEF BroadcastInv
  <2>3. /\ messagesLog[s][log[s][i].uuid].accepted = log[s][i]
        /\ messagesLog[s][log[s][i].uuid].executing = {}
    BY <2>1 DEF ExecutionInv, LoggedIsDone
  <2>4. /\ messagesLog'[s][log[s][i].uuid].accepted = log[s][i]
        /\ messagesLog'[s][log[s][i].uuid].executing = {}
    BY <1>2, <2>2, <2>3
  <2> QED
    BY <2>1, <2>4
<1>5. AtMostOnce' /\ LastIsLogged'
  BY <1>1 DEF ExecutionInv, AtMostOnce, LastIsLogged
<1> QED
  BY <1>3, <1>4, <1>5 DEF ExecutionInv

\* Every step preserves the invariant.
LEMMA ExecutionInvStep ==
  ASSUME BroadcastInv, ExecutionInv, [Next]_vars PROVE ExecutionInv'
<1>1. ASSUME NEW r \in Correct, NEW op \in Op, BroadcastInit(r, op)
      PROVE  ExecutionInv'
  BY <1>1, ClusterAssumption, BroadcastInitHandles, HandlesExecution
<1>2. ASSUME NEW r \in Correct, NEW m \in InTransit, Receive(r, m)
      PROVE  ExecutionInv'
  BY <1>2, ReceiveHandles, HandlesExecution, InTransitType DEF BroadcastInv
<1>3. ASSUME NEW r \in Executor, NEW u \in Uuid, NEW op \in Op,
             ExecutionCompletes(r, u, op)
      PROVE  ExecutionInv'
  BY <1>3, ClusterAssumption, CompletesExecution
<1>4. ASSUME NEW r \in Executor, NEW u \in Uuid, NEW op \in Op,
             ExecutionFails(r, u, op)
      PROVE  ExecutionInv'
  BY <1>4, ClusterAssumption, FailsExecution
<1>5. ASSUME UNCHANGED <<messagesLog, log, clientLastOp>> PROVE ExecutionInv'
  BY <1>5 DEF ExecutionInv, ExecutingIsAccepted, LoggedIsDone, AtMostOnce,
              LastIsLogged
<1> QED
  BY <1>1, <1>2, <1>3, <1>4, <1>5
     DEF Next, vars, DispatchClientOpRequest, Settle, AnswerAgain, StartRead,
         ReadCompletes, ReadFails

-----------------------------------------------------------------------------
(* What is answered was logged, or is a read that was asked for *)

\* Only valid reads that clients asked for are executed outside the broadcast.
ReadingIsAsked ==
  \A r \in Correct : \A op \in reading[r] :
    op.command \in Valid \cap ReadOnly /\ <<r, op>> \in Asked

AnswerInv == ReadingIsAsked /\ AnsweredWasLogged

\* An answer is accounted for in a block chain that has only grown.
LEMMA AnsweredStays ==
  ASSUME BroadcastInv, AnsweredWasLogged, NEW a \in answers,
         \A r \in Correct : \A i \in DOMAIN log[r] :
           i \in DOMAIN log'[r] /\ log'[r][i] = log[r][i]
  PROVE  \/ \E i \in DOMAIN log'[a.from] : log'[a.from][i].uuid = a.uuid
         \/ \E op \in Op : /\ op.uuid = a.uuid
                           /\ op.command \in Valid \cap ReadOnly
                           /\ <<a.from, op>> \in Asked
<1>1. a.from \in Correct
  BY DEF BroadcastInv, TypeOK, Answer
<1>2. CASE \E i \in DOMAIN log[a.from] : log[a.from][i].uuid = a.uuid
  <2>1. PICK i \in DOMAIN log[a.from] : log[a.from][i].uuid = a.uuid
    BY <1>2
  <2>2. i \in DOMAIN log'[a.from] /\ log'[a.from][i] = log[a.from][i]
    BY <1>1, <2>1
  <2> QED
    BY <2>1, <2>2
<1>3. CASE \E op \in Op : /\ op.uuid = a.uuid
                          /\ op.command \in Valid \cap ReadOnly
                          /\ <<a.from, op>> \in Asked
  BY <1>3
<1> QED
  BY <1>2, <1>3 DEF AnsweredWasLogged

\* A step that answers nothing new and reads nothing new keeps the invariant.
LEMMA QuietAnswers ==
  ASSUME BroadcastInv, AnswerInv, answers' = answers,
         \A r \in Correct : reading'[r] \subseteq reading[r],
         \A r \in Correct : \A i \in DOMAIN log[r] :
           i \in DOMAIN log'[r] /\ log'[r][i] = log[r][i]
  PROVE  AnswerInv'
<1>1. ReadingIsAsked'
  BY DEF AnswerInv, ReadingIsAsked
<1>2. AnsweredWasLogged'
  BY AnsweredStays DEF AnswerInv, AnsweredWasLogged
<1> QED
  BY <1>1, <1>2 DEF AnswerInv

\* The repeated request of the last operation is answered from the block chain.
LEMMA AnswerAgainAnswers ==
  ASSUME BroadcastInv, LastIsLogged, AnswerInv, NEW r \in Correct,
         NEW op \in Op, AnswerAgain(r, op)
  PROVE  AnswerInv'
<1> DEFINE new == [from |-> r, uuid |-> op.uuid]
<1>1. /\ clientLastOp[r][op.client] = op.uuid
      /\ answers' = answers \cup {new}
      /\ UNCHANGED <<log, reading>>
  BY DEF AnswerAgain
<1>2. op.client \in Client /\ op.uuid # None
  BY OperationAssumption
<1>3. \E i \in DOMAIN log[new.from] : log[new.from][i].uuid = new.uuid
  BY <1>1, <1>2 DEF LastIsLogged
<1>4. AnsweredWasLogged'
  <2> HIDE DEF new
  <2> QED
    BY <1>1, <1>3 DEF AnswerInv, AnsweredWasLogged
<1>5. ReadingIsAsked'
  BY <1>1 DEF AnswerInv, ReadingIsAsked
<1> QED
  BY <1>4, <1>5 DEF AnswerInv

\* The result of a read is the answer to the request that asked for it.
LEMMA ReadCompletesAnswers ==
  ASSUME BroadcastInv, AnswerInv, NEW r \in Correct, NEW op \in Op,
         ReadCompletes(r, op)
  PROVE  AnswerInv'
<1> DEFINE new == [from |-> r, uuid |-> op.uuid]
<1>1. /\ op \in reading[r]
      /\ reading' = [reading EXCEPT ![r] = @ \ {op}]
      /\ answers' = answers \cup {new}
      /\ log' = log
  BY DEF ReadCompletes
<1>2. /\ op.uuid = new.uuid /\ op.command \in Valid \cap ReadOnly
      /\ <<new.from, op>> \in Asked
  BY <1>1 DEF AnswerInv, ReadingIsAsked
<1>3. AnsweredWasLogged'
  <2> HIDE DEF new
  <2> QED
    BY <1>1, <1>2 DEF AnswerInv, AnsweredWasLogged
<1>4. ReadingIsAsked'
  BY <1>1 DEF AnswerInv, ReadingIsAsked, BroadcastInv, TypeOK
<1> QED
  BY <1>3, <1>4 DEF AnswerInv

\* Every step preserves the invariant.
LEMMA AnswerInvStep ==
  ASSUME BroadcastInv, LastIsLogged, AnswerInv, [Next]_vars
  PROVE  AnswerInv'
<1>1. ASSUME NEW r \in Correct, NEW op \in Op, <<r, op>> \in Asked,
             StartRead(r, op)
      PROVE  AnswerInv'
  <2>1. /\ op.command \in Valid \cap ReadOnly
        /\ reading' = [reading EXCEPT ![r] = @ \cup {op}]
        /\ UNCHANGED <<log, answers>>
    BY <1>1 DEF StartRead
  <2>2. ReadingIsAsked'
    BY <1>1, <2>1 DEF AnswerInv, ReadingIsAsked, BroadcastInv, TypeOK
  <2>3. AnsweredWasLogged'
    BY <2>1 DEF AnswerInv, AnsweredWasLogged
  <2> QED
    BY <2>2, <2>3 DEF AnswerInv
<1>2. ASSUME NEW r \in Correct, NEW op \in Op, BroadcastInit(r, op)
      PROVE  AnswerInv'
  BY <1>2, QuietAnswers DEF BroadcastInit
<1>3. ASSUME NEW r \in Correct, NEW m \in InTransit, Receive(r, m)
      PROVE  AnswerInv'
  BY <1>3, QuietAnswers
     DEF Receive, ReceiveInit, ReceiveEcho, ReceiveReady, Update
<1>4. ASSUME NEW r \in Executor, NEW u \in Uuid, NEW op \in Op,
             ExecutionCompletes(r, u, op)
      PROVE  AnswerInv'
  <2>1. /\ log' = [log EXCEPT ![r] = Append(@, op)]
        /\ UNCHANGED <<reading, answers>>
    BY <1>4 DEF ExecutionCompletes
  <2>2. \A s \in Correct : \A i \in DOMAIN log[s] :
          i \in DOMAIN log'[s] /\ log'[s][i] = log[s][i]
    BY <2>1 DEF BroadcastInv, TypeOK
  <2> QED
    BY <2>1, <2>2, QuietAnswers
<1>5. ASSUME NEW r \in Executor, NEW op \in Op, ReadFails(r, op)
      PROVE  AnswerInv'
  <2>1. /\ reading' = [reading EXCEPT ![r] = @ \ {op}]
        /\ UNCHANGED <<log, answers>>
    BY <1>5 DEF ReadFails
  <2>2. \A s \in Correct : reading'[s] \subseteq reading[s]
    BY <2>1 DEF BroadcastInv, TypeOK
  <2> QED
    BY <2>1, <2>2, QuietAnswers
<1>6. ASSUME UNCHANGED <<log, reading, answers>> PROVE AnswerInv'
  BY <1>6, QuietAnswers
<1>7. Executor \subseteq Correct
  BY ClusterAssumption
<1> QED
  BY <1>1, <1>2, <1>3, <1>4, <1>5, <1>6, <1>7, AnswerAgainAnswers,
     ReadCompletesAnswers
     DEF Next, vars, DispatchClientOpRequest, Settle, ExecutionFails

-----------------------------------------------------------------------------
(* What is accepted was submitted *)

\* A correct replica was asked for op, a valid write, and has broadcast it as it
\* was, or a faulty replica vouches for it.
Submitted(op) ==
  \/ \E m \in FaultySends : m.op = op
  \/ /\ op.command \in Valid \ ReadOnly
     /\ \E s \in Correct :
          /\ <<s, op>> \in Asked
          /\ [type |-> "Init", op |-> op, from |-> s] \in sent

\* The operations that an entry has stored or accepted.
Mentions(e) ==
  {op \in Op : \/ \E s \in Replica : op \in {e.init[s], e.echo[s], e.ready[s]}
               \/ op = e.accepted}

\* Every stage carries submitted operations only.
SentIsSubmitted ==
  \A m \in sent : m.type \in {"Init", "Echo", "Ready"} => Submitted(m.op)

StoredIsSubmitted ==
  \A r \in Correct, u \in Uuid :
    \A op \in Mentions(messagesLog[r][u]) : Submitted(op)

SubmissionInv == SentIsSubmitted /\ StoredIsSubmitted

\* The first operation of a stage is one of its operations.
LEMMA FirstIsStored ==
  ASSUME NEW slots
  PROVE  First(slots) = None \/ \E s \in Replica : slots[s] = First(slots)
<1>1. CASE Senders(slots) = {}
  BY <1>1 DEF First
<1>2. CASE Senders(slots) # {}
  <2> DEFINE lowest ==
        CHOOSE s \in Senders(slots) : \A t \in Senders(slots) : s <= t
  <2>1. lowest \in Replica
    BY <1>2, LowestSender DEF Senders
  <2>2. First(slots) = slots[lowest]
    BY <1>2 DEF First
  <2> QED
    BY <2>1, <2>2
<1> QED
  BY <1>1, <1>2

\* getOperationFromLog returns an operation of the entry, or none.
LEMMA GetOperationIsMentioned ==
  ASSUME NEW u \in Uuid, NEW e \in EntryOf(u),
         GetOperationFromLog(e) # None
  PROVE  GetOperationFromLog(e) \in Mentions(e)
<1>1. GetOperationFromLog(e) \in Op
  BY GetOperationType DEF OpsOf
<1>2. \E slots \in {e.init, e.echo, e.ready} : GetOperationFromLog(e) = First(slots)
  BY DEF GetOperationFromLog
<1>3. \E s \in Replica :
        GetOperationFromLog(e) \in {e.init[s], e.echo[s], e.ready[s]}
  BY <1>2, FirstIsStored
<1> QED
  BY <1>1, <1>3 DEF Mentions

\* Echo and Ready repeat an operation of the entry.
LEMMA SendMentions ==
  ASSUME NEW r \in Replica, NEW u \in Uuid, NEW e \in EntryOf(u),
         GetOperationFromLog(e) # None
  PROVE  /\ Mentions(SendEcho(r, e)) \subseteq Mentions(e)
         /\ Mentions(SendReady(r, e)) \subseteq Mentions(e)
<1>1. GetOperationFromLog(e) \in Mentions(e)
  BY GetOperationIsMentioned
<1>2. ASSUME NEW op \in Mentions(SendEcho(r, e)), op # GetOperationFromLog(e)
      PROVE  op \in Mentions(e)
  BY <1>2 DEF Mentions, SendEcho, EntryOf, SlotsOf
<1>3. ASSUME NEW op \in Mentions(SendReady(r, e)), op # GetOperationFromLog(e)
      PROVE  op \in Mentions(e)
  BY <1>3 DEF Mentions, SendReady, EntryOf, SlotsOf
<1> QED
  BY <1>1, <1>2, <1>3

\* So does acceptance.
LEMMA Phase3Mentions ==
  ASSUME NEW u \in Uuid, NEW e \in EntryOf(u)
  PROVE  Mentions(CheckPhase3(e)) \subseteq Mentions(e)
<1>1. CASE AcceptDue(e)
  <2>1. GetOperationFromLog(e) \in Mentions(e)
    BY <1>1, GetOperationIsMentioned DEF AcceptDue
  <2>2. ASSUME NEW op \in Mentions(CheckPhase3(e)), op # GetOperationFromLog(e)
        PROVE  op \in Mentions(e)
    BY <1>1, <2>2 DEF Mentions, CheckPhase3, EntryOf
  <2> QED
    BY <2>1, <2>2
<1>2. CASE ~AcceptDue(e)
  BY <1>2 DEF CheckPhase3
<1> QED
  BY <1>1, <1>2

\* The second phase adds no operation of its own.
LEMMA Phase2Mentions ==
  ASSUME NEW r \in Replica, NEW u \in Uuid, NEW e \in EntryOf(u)
  PROVE  Mentions(CheckPhase2(r, e)) \subseteq Mentions(e)
<1>1. CASE ReadyDue(r, e)
  <2> DEFINE readied == SendReady(r, e)
  <2> DEFINE echoed == IF EchoDue(r, readied) THEN SendEcho(r, readied)
                                              ELSE readied
  <2>1. readied \in EntryOf(u) /\ Mentions(readied) \subseteq Mentions(e)
    BY <1>1, SendReadyGrows, SendMentions DEF ReadyDue
  <2>2. echoed \in EntryOf(u) /\ Mentions(echoed) \subseteq Mentions(readied)
    <3> HIDE DEF readied
    <3>1. CASE EchoDue(r, readied)
      BY <2>1, <3>1, SendEchoGrows, SendMentions DEF EchoDue
    <3> QED
      BY <2>1, <3>1
  <2>3. Mentions(CheckPhase3(echoed)) \subseteq Mentions(echoed)
    <3> HIDE DEF echoed
    <3> QED
      BY <2>2, Phase3Mentions
  <2>4. CheckPhase2(r, e) = CheckPhase3(echoed)
    BY <1>1 DEF CheckPhase2
  <2> QED
    BY <2>1, <2>2, <2>3, <2>4
<1>2. CASE ~ReadyDue(r, e)
  BY <1>2 DEF CheckPhase2
<1> QED
  BY <1>1, <1>2

\* Neither does the first.
LEMMA Phase1Mentions ==
  ASSUME NEW r \in Replica, NEW u \in Uuid, NEW e \in EntryOf(u)
  PROVE  Mentions(CheckPhase1(r, e)) \subseteq Mentions(e)
<1>1. CASE EchoDue(r, e)
  <2>1. /\ SendEcho(r, e) \in EntryOf(u)
        /\ Mentions(SendEcho(r, e)) \subseteq Mentions(e)
    BY <1>1, SendEchoGrows, SendMentions DEF EchoDue
  <2>2. Mentions(CheckPhase2(r, SendEcho(r, e))) \subseteq Mentions(SendEcho(r, e))
    BY <2>1, Phase2Mentions
  <2> QED
    BY <1>1, <2>1, <2>2 DEF CheckPhase1
<1>2. CASE ~EchoDue(r, e)
  BY <1>2 DEF CheckPhase1
<1> QED
  BY <1>1, <1>2

\* r stores op, and nothing else, in its entry of u, and sends what follows.
Relays(r, u, op) ==
  \E f \in EntryOf(u) :
    /\ Mentions(f) \subseteq Mentions(messagesLog[r][u]) \cup {op}
    /\ messagesLog' = [messagesLog EXCEPT ![r][u] = f]
    /\ sent \subseteq sent'
    /\ sent' \subseteq sent \cup [type : {"Init"}, op : {op}, from : {r}]
                          \cup OwnMessages(r, f)

\* A message of another replica is handled that way.
LEMMA ReceiveRelays ==
  ASSUME BroadcastInv, NEW r \in Correct, NEW m \in InTransit, Receive(r, m)
  PROVE  Relays(r, m.op.uuid, m.op)
<1> DEFINE u == m.op.uuid
<1> DEFINE old == messagesLog[r][u]
<1>1. m \in Message /\ m.op \in OpsOf(u) /\ u \in Uuid /\ m.op \in Op
  BY InTransitType DEF BroadcastInv, Message
<1>2. old \in EntryOf(u)
  BY <1>1 DEF BroadcastInv, UuidMatches
<1>3. m.from \in Replica /\ r \in Replica
  BY <1>1 DEF Message, Correct
<1>4. CASE ReceiveInit(r, m)
  <2> DEFINE stored == [old EXCEPT !.init = Store(@, m.from, m.op)]
  <2>1. stored \in EntryOf(u) /\ Mentions(stored) \subseteq Mentions(old) \cup {m.op}
    BY <1>1, <1>2, <1>3 DEF EntryOf, SlotsOf, Store, Mentions
  <2>2. /\ CheckPhase1(r, stored) \in EntryOf(u)
        /\ Mentions(CheckPhase1(r, stored)) \subseteq Mentions(stored)
    <3> HIDE DEF stored
    <3> QED
      BY <1>1, <1>3, <2>1, Phase1Grows, Phase1Mentions
  <2>3. Update(r, u, CheckPhase1(r, stored))
    BY <1>4 DEF ReceiveInit
  <2> QED
    BY <2>1, <2>2, <2>3 DEF Relays, Update
<1>5. CASE ReceiveEcho(r, m)
  <2> DEFINE stored == [old EXCEPT !.echo = Store(@, m.from, m.op)]
  <2> DEFINE e1 == CheckPhase1(r, stored)
  <2> DEFINE e2 == CheckPhase2(r, e1)
  <2>1. stored \in EntryOf(u) /\ Mentions(stored) \subseteq Mentions(old) \cup {m.op}
    BY <1>1, <1>2, <1>3 DEF EntryOf, SlotsOf, Store, Mentions
  <2>2. e1 \in EntryOf(u) /\ Mentions(e1) \subseteq Mentions(stored)
    <3> HIDE DEF stored
    <3> QED
      BY <1>1, <1>3, <2>1, Phase1Grows, Phase1Mentions
  <2>3. e2 \in EntryOf(u) /\ Mentions(e2) \subseteq Mentions(e1)
    <3> HIDE DEF e1
    <3> QED
      BY <1>1, <1>3, <2>2, Phase2Grows, Phase2Mentions
  <2>4. Update(r, u, e2)
    BY <1>5 DEF ReceiveEcho
  <2> QED
    BY <2>1, <2>2, <2>3, <2>4 DEF Relays, Update
<1>6. CASE ReceiveReady(r, m)
  <2> DEFINE stored == [old EXCEPT !.ready = Store(@, m.from, m.op)]
  <2> DEFINE e1 == CheckPhase1(r, stored)
  <2> DEFINE e2 == CheckPhase2(r, e1)
  <2> DEFINE e3 == CheckPhase3(e2)
  <2>1. stored \in EntryOf(u) /\ Mentions(stored) \subseteq Mentions(old) \cup {m.op}
    BY <1>1, <1>2, <1>3 DEF EntryOf, SlotsOf, Store, Mentions
  <2>2. e1 \in EntryOf(u) /\ Mentions(e1) \subseteq Mentions(stored)
    <3> HIDE DEF stored
    <3> QED
      BY <1>1, <1>3, <2>1, Phase1Grows, Phase1Mentions
  <2>3. e2 \in EntryOf(u) /\ Mentions(e2) \subseteq Mentions(e1)
    <3> HIDE DEF e1
    <3> QED
      BY <1>1, <1>3, <2>2, Phase2Grows, Phase2Mentions
  <2>4. e3 \in EntryOf(u) /\ Mentions(e3) \subseteq Mentions(e2)
    <3> HIDE DEF e2
    <3> QED
      BY <1>1, <1>3, <2>3, Phase3Grows, Phase3Mentions
  <2>5. Update(r, u, e3)
    BY <1>6 DEF ReceiveReady
  <2> QED
    BY <2>1, <2>2, <2>3, <2>4, <2>5 DEF Relays, Update
<1> QED
  BY <1>4, <1>5, <1>6 DEF Receive

\* So is the write request of a client, with the Init of r.
LEMMA BroadcastInitRelays ==
  ASSUME BroadcastInv, NEW r \in Correct, NEW op \in Op, BroadcastInit(r, op)
  PROVE  /\ op.uuid \in Uuid /\ Relays(r, op.uuid, op)
         /\ [type |-> "Init", op |-> op, from |-> r] \in sent'
<1> DEFINE u == op.uuid
<1> DEFINE old == messagesLog[r][u]
<1> DEFINE stored == [old EXCEPT !.init = Store(@, r, op)]
<1> DEFINE e == CheckPhase1(r, stored)
<1>1. u \in Uuid /\ op \in OpsOf(u) /\ r \in Replica
  BY OperationAssumption DEF OpsOf, Correct
<1>2. old \in EntryOf(u)
  BY <1>1 DEF BroadcastInv, UuidMatches
<1>3. stored \in EntryOf(u) /\ Mentions(stored) \subseteq Mentions(old) \cup {op}
  BY <1>1, <1>2 DEF EntryOf, SlotsOf, Store, Mentions
<1>4. e \in EntryOf(u) /\ Mentions(e) \subseteq Mentions(stored)
  <2> HIDE DEF stored
  <2> QED
    BY <1>1, <1>3, Phase1Grows, Phase1Mentions
<1>5. /\ messagesLog' = [messagesLog EXCEPT ![r][u] = e]
      /\ sent' = sent \cup {[type |-> "Init", op |-> op, from |-> r]}
                      \cup OwnMessages(r, e)
  BY DEF BroadcastInit
<1>6. Relays(r, u, op)
  <2>1. Mentions(e) \subseteq Mentions(messagesLog[r][u]) \cup {op}
    BY <1>3, <1>4
  <2>2. /\ sent \subseteq sent'
        /\ sent' \subseteq sent \cup [type : {"Init"}, op : {op}, from : {r}]
                              \cup OwnMessages(r, e)
    <3> HIDE DEF e
    <3> QED
      BY <1>5
  <2> HIDE DEF e, u
  <2> QED
    BY <1>4, <1>5, <2>1, <2>2 DEF Relays
<1>7. [type |-> "Init", op |-> op, from |-> r] \in sent'
  <2> HIDE DEF e
  <2> QED
    BY <1>5
<1> QED
  BY <1>1, <1>6, <1>7

\* Once submitted, an operation stays so.
LEMMA SubmittedStays ==
  ASSUME NEW op, Submitted(op), sent \subseteq sent'
  PROVE  Submitted(op)'
BY DEF Submitted

\* Relaying a submitted operation preserves the invariant.
LEMMA RelaysSubmitted ==
  ASSUME BroadcastInv, SubmissionInv, NEW r \in Correct, NEW u \in Uuid,
         NEW op \in Op, Relays(r, u, op), Submitted(op)'
  PROVE  SubmissionInv'
<1>1. PICK f \in EntryOf(u) :
        /\ Mentions(f) \subseteq Mentions(messagesLog[r][u]) \cup {op}
        /\ messagesLog' = [messagesLog EXCEPT ![r][u] = f]
        /\ sent \subseteq sent'
        /\ sent' \subseteq sent \cup [type : {"Init"}, op : {op}, from : {r}]
                              \cup OwnMessages(r, f)
  BY DEF Relays
<1>2. \A x \in Mentions(f) : Submitted(x)'
  BY <1>1, SubmittedStays DEF SubmissionInv, StoredIsSubmitted
<1>3. StoredIsSubmitted'
  <2> SUFFICES ASSUME NEW s \in Correct, NEW v \in Uuid,
                      NEW x \in Mentions(messagesLog'[s][v])
               PROVE  Submitted(x)'
    BY DEF StoredIsSubmitted, Mentions
  <2>1. CASE s = r /\ v = u
    <3>1. messagesLog'[s][v] = f
      BY <1>1, <2>1 DEF BroadcastInv, TypeOK
    <3> QED
      BY <1>2, <3>1
  <2>2. CASE s # r \/ v # u
    <3>1. messagesLog'[s][v] = messagesLog[s][v]
      BY <1>1, <2>2 DEF BroadcastInv, TypeOK
    <3> QED
      BY <1>1, <3>1, SubmittedStays DEF SubmissionInv, StoredIsSubmitted
  <2> QED
    BY <2>1, <2>2
<1>4. SentIsSubmitted'
  <2> SUFFICES ASSUME NEW m \in sent', m.type \in {"Init", "Echo", "Ready"}
               PROVE  Submitted(m.op)'
    BY DEF SentIsSubmitted
  <2>1. CASE m \in sent
    BY <1>1, <2>1, SubmittedStays DEF SubmissionInv, SentIsSubmitted
  <2>2. CASE m \in [type : {"Init"}, op : {op}, from : {r}]
    BY <2>2
  <2>3. CASE m \in OwnMessages(r, f)
    <3>1. m.op \in Mentions(f)
      BY <2>3, OwnMessagesType DEF Mentions, OpsOf, Correct
    <3> QED
      BY <1>2, <3>1
  <2> QED
    BY <1>1, <2>1, <2>2, <2>3
<1> QED
  BY <1>3, <1>4 DEF SubmissionInv

\* Settling an execution, or no step of the broadcast, changes nothing stored.
LEMMA QuietSubmitted ==
  ASSUME SubmissionInv, sent \subseteq sent',
         \A m \in sent' \ sent : m.type = "SingleReply",
         \A r \in Correct, u \in Uuid :
           Mentions(messagesLog'[r][u]) \subseteq Mentions(messagesLog[r][u])
  PROVE  SubmissionInv'
<1>1. SentIsSubmitted'
  BY SubmittedStays DEF SubmissionInv, SentIsSubmitted
<1>2. StoredIsSubmitted'
  <2> SUFFICES ASSUME NEW s \in Correct, NEW v \in Uuid,
                      NEW x \in Mentions(messagesLog'[s][v])
               PROVE  Submitted(x)'
    BY DEF StoredIsSubmitted, Mentions
  <2> QED
    BY SubmittedStays DEF SubmissionInv, StoredIsSubmitted
<1> QED
  BY <1>1, <1>2 DEF SubmissionInv

\* Every step preserves the invariant.
LEMMA SubmissionInvStep ==
  ASSUME BroadcastInv, SubmissionInv, [Next]_vars PROVE SubmissionInv'
<1>1. ASSUME NEW r \in Correct, NEW op \in Op, <<r, op>> \in Asked,
             BroadcastInit(r, op)
      PROVE  SubmissionInv'
  <2>1. op.command \in Valid \ ReadOnly
    BY <1>1 DEF BroadcastInit
  <2>2. /\ op.uuid \in Uuid /\ Relays(r, op.uuid, op)
        /\ [type |-> "Init", op |-> op, from |-> r] \in sent'
    BY <1>1, BroadcastInitRelays
  <2>3. Submitted(op)'
    BY <1>1, <2>1, <2>2 DEF Submitted
  <2> QED
    BY <2>2, <2>3, RelaysSubmitted
<1>2. ASSUME NEW r \in Correct, NEW m \in InTransit, Receive(r, m)
      PROVE  SubmissionInv'
  <2>1. Relays(r, m.op.uuid, m.op)
    BY <1>2, ReceiveRelays
  <2>2. m.op \in Op /\ m.op.uuid \in Uuid
    BY InTransitType DEF BroadcastInv, Message
  <2>3. m.type \in {"Init", "Echo", "Ready"}
    BY <1>2 DEF Receive, ReceiveInit, ReceiveEcho, ReceiveReady
  <2>4. Submitted(m.op)
    <3>1. CASE m \in sent
      BY <2>3, <3>1 DEF SubmissionInv, SentIsSubmitted
    <3>2. CASE m \in FaultySends
      BY <3>2 DEF Submitted
    <3> QED
      BY <3>1, <3>2 DEF InTransit
  <2>5. Submitted(m.op)'
    BY <2>1, <2>4, SubmittedStays DEF Relays
  <2> QED
    BY <2>1, <2>2, <2>5, RelaysSubmitted
<1>3. ASSUME NEW r \in Executor, NEW u \in Uuid, NEW op \in Op,
             \/ ExecutionCompletes(r, u, op)
             \/ ExecutionFails(r, u, op)
      PROVE  SubmissionInv'
  <2>1. /\ messagesLog' = [messagesLog EXCEPT ![r][u].executing = @ \ {op}]
        /\ sent \subseteq sent'
        /\ \A m \in sent' \ sent : m.type = "SingleReply"
    BY <1>3 DEF ExecutionCompletes, ExecutionFails
  <2>2. ASSUME NEW s \in Correct, NEW v \in Uuid
        PROVE  Mentions(messagesLog'[s][v]) \subseteq Mentions(messagesLog[s][v])
    <3>1. /\ messagesLog'[s][v].init = messagesLog[s][v].init
          /\ messagesLog'[s][v].echo = messagesLog[s][v].echo
          /\ messagesLog'[s][v].ready = messagesLog[s][v].ready
          /\ messagesLog'[s][v].accepted = messagesLog[s][v].accepted
      BY <2>1, SettlingKeeps, ClusterAssumption DEF BroadcastInv
    <3> QED
      BY <3>1 DEF Mentions
  <2> QED
    BY <2>1, <2>2, QuietSubmitted
<1>4. ASSUME UNCHANGED <<messagesLog, sent>> PROVE SubmissionInv'
  BY <1>4, QuietSubmitted
<1> QED
  BY <1>1, <1>2, <1>3, <1>4
     DEF Next, vars, DispatchClientOpRequest, Settle, AnswerAgain, StartRead,
         ReadCompletes, ReadFails

-----------------------------------------------------------------------------
(* Theorems *)

\* The invariant of the execution holds in every reachable state.
THEOREM ExecutionInvariance == Spec => [](ExecutionInv /\ AnswerInv)
<1>1. Init => ExecutionInv /\ AnswerInv
  BY DEF Init, ExecutionInv, ExecutingIsAccepted, LoggedIsDone, AtMostOnce,
         LastIsLogged, EmptyEntry, AnswerInv, ReadingIsAsked, AnsweredWasLogged
<1>2. BroadcastInv /\ ExecutionInv /\ AnswerInv /\ [Next]_vars
        => ExecutionInv' /\ AnswerInv'
  BY ExecutionInvStep, AnswerInvStep DEF ExecutionInv
<1> QED
  BY <1>1, <1>2, BroadcastInvariance, PTL DEF Spec

\* A replica executes an operation at most once, however often it is requested,
\* retransmitted or retried (server.ts:571-584).
THEOREM ExecutionAtMostOnce == Spec => []AtMostOnce
<1>1. ExecutionInv => AtMostOnce
  BY DEF ExecutionInv
<1> QED
  BY <1>1, ExecutionInvariance, PTL

\* A replica answers a request from its block chain, or as the read it was
\* asked for: a result it keeps is never another operation's
\* (server.ts:255-278, 585-598).
THEOREM AnswersFromTheLog == Spec => []AnsweredWasLogged
<1>1. AnswerInv => AnsweredWasLogged
  BY DEF AnswerInv
<1> QED
  BY <1>1, ExecutionInvariance, PTL

\* Whatever a correct replica accepts was submitted as a valid write, unless a
\* faulty one vouches for it: no stage makes an operation up, and an operation
\* is not altered on its way (server.ts:247-294, 412-604).
THEOREM AcceptingTheSubmitted == Spec => []AcceptedWasSubmitted
<1>1. Init => SubmissionInv
  BY OperationAssumption DEF Init, SubmissionInv, SentIsSubmitted, StoredIsSubmitted, Mentions,
         EmptyEntry, NoMessages
<1>2. BroadcastInv /\ SubmissionInv /\ [Next]_vars => SubmissionInv'
  BY SubmissionInvStep
<1>3. BroadcastInv /\ SubmissionInv => AcceptedWasSubmitted
  <2> SUFFICES ASSUME BroadcastInv, SubmissionInv, NEW r \in Correct,
                      NEW u \in Uuid, messagesLog[r][u].accepted # None
               PROVE  Submitted(messagesLog[r][u].accepted)
    BY DEF AcceptedWasSubmitted, Submitted
  <2>1. messagesLog[r][u].accepted \in Op
    BY DEF BroadcastInv, UuidMatches, EntryOf, OpsOf
  <2> QED
    BY <2>1 DEF SubmissionInv, StoredIsSubmitted, Mentions
<1> QED
  BY <1>1, <1>2, <1>3, BroadcastInvariance, PTL DEF Spec
=============================================================================
