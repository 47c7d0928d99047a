------------------------ MODULE LeaderRotationProofs ------------------------
(***************************************************************************)
(* Theorems about LeaderRotation, for every cluster of two servers or more *)
(* and every set of at most LowerBoundThreshold(N) faulty ones.            *)
(***************************************************************************)
EXTENDS LeaderRotation, FiniteSetTheorems, TLAPS

\* The vote of k for the leader of stage e.
VoteOf(vote, e, k) ==
  [type |-> "LeadershipVote", vote |-> vote, epoque |-> e, from |-> k]

\* A correct replica votes once its own timer has brought it to that stage, and
\* for the one candidate that stage has.
VotesAreTimely ==
  \A m \in sent :
    m.type = "LeadershipVote" =>
      /\ m.from \in Correct
      /\ m.epoque <= currentStage[m.from]
      /\ m.vote = NextLeader(m.epoque)

\* The correct replicas in the registry have cast the votes it says.
RegisteredWasCast ==
  \A r \in Correct, e \in Stage : \A k \in votesRegistry[r][e] \cap Correct :
    VoteOf(r, e, k) \in sent

\* Nobody proclaims itself without the votes that decide.
ClaimIsSupported == \A c \in Claims : Enough(c.voters)

RotationInv ==
  /\ TypeOK
  /\ VotesAreTimely
  /\ RegisteredWasCast
  /\ ClaimIsSupported
  /\ ClaimCarriesVotes

-----------------------------------------------------------------------------
\* The thresholds are numbers, and the one that decides exceeds the number of
\* faulty replicas (server.ts:172-178).
LEMMA ThresholdsOrdered ==
  /\ N \in Nat
  /\ LowerBoundThreshold(N) \in Nat /\ UpperBoundThreshold(N) \in Nat
  /\ UpperBoundThreshold(N) >= LowerBoundThreshold(N) + 1
BY RotationAssumption DEF LowerBoundThreshold, UpperBoundThreshold

\* There are finitely many replicas.
LEMMA ReplicaFinite ==
  /\ IsFiniteSet(Replica)
  /\ IsFiniteSet(Faulty) /\ Cardinality(Faulty) \in Nat
<1>1. IsFiniteSet(Replica)
  BY FS_Interval, RotationAssumption
<1> QED
  BY <1>1, FS_Subset, FS_CardinalityType, RotationAssumption

\* Of the votes that decide, all but LowerBoundThreshold(N) are from correct
\* replicas.
LEMMA VotersMostlyCorrect ==
  ASSUME NEW V \in SUBSET Replica, Enough(V)
  PROVE  /\ IsFiniteSet(V \cap Correct)
         /\ Cardinality(V \cap Correct) \in Nat
         /\ Cardinality(V \cap Correct)
              >= UpperBoundThreshold(N) - LowerBoundThreshold(N)
         /\ \E k \in V : k \in Correct
<1>1. IsFiniteSet(V) /\ IsFiniteSet(V \cap Faulty)
  BY ReplicaFinite, FS_Subset
<1>2. V \cap Correct = V \ Faulty
  BY DEF Correct
<1>3. /\ IsFiniteSet(V \ Faulty)
      /\ Cardinality(V \ Faulty) = Cardinality(V) - Cardinality(V \cap Faulty)
  BY <1>1, FS_Difference, FS_Subset
<1>4. Cardinality(V \cap Faulty) <= Cardinality(Faulty)
  BY <1>1, ReplicaFinite, FS_Subset
<1>5. /\ Cardinality(V) \in Nat /\ Cardinality(V \cap Faulty) \in Nat
      /\ Cardinality(V \ Faulty) \in Nat
  BY <1>1, <1>3, FS_CardinalityType
<1>6. Cardinality(V) >= UpperBoundThreshold(N)
  BY DEF Enough
<1>7. Cardinality(Faulty) <= LowerBoundThreshold(N)
  BY RotationAssumption
<1>8. Cardinality(V \ Faulty) >= UpperBoundThreshold(N) - LowerBoundThreshold(N)
  BY <1>3, <1>4, <1>5, <1>6, <1>7, ThresholdsOrdered, ReplicaFinite
<1>9. V \ Faulty # {}
  BY <1>8, ThresholdsOrdered, FS_EmptySet
<1> QED
  BY <1>2, <1>3, <1>5, <1>8, <1>9

\* The candidate of a stage is a remainder of it (server.ts:307).
LEMMA NextLeaderType ==
  ASSUME NEW e \in Stage PROVE NextLeader(e) \in 0..N
BY RotationAssumption DEF NextLeader, Stage

\* Every replica starts with a leader that is a replica (server.ts:204).
LEMMA InitialLeaderType ==
  ASSUME NEW r \in Replica PROVE InitialLeader(r) \in Replica
BY RotationAssumption DEF InitialLeader, FirstPeer

-----------------------------------------------------------------------------
\* The initial state satisfies the invariant.
LEMMA RotationInvInit == ASSUME Init PROVE RotationInv
<1>1. TypeOK
  <2>1. /\ currentStage \in [Correct -> Stage]
        /\ votesRegistry \in [Correct -> [Stage -> SUBSET Replica]]
    BY RotationAssumption DEF Init, Stage
  <2>2. currentLeaderId \in [Correct -> Replica]
    BY InitialLeaderType DEF Init, Correct
  <2> QED
    BY <2>1, <2>2 DEF Init, TypeOK
<1> QED
  BY <1>1 DEF Init, RotationInv, VotesAreTimely, RegisteredWasCast,
              ClaimIsSupported, ClaimCarriesVotes, Claims

\* The timer brings the replica to the stage it then votes for.
LEMMA TimeoutRotation ==
  ASSUME RotationInv, NEW r \in Correct, LeaderTimeout(r)
  PROVE  RotationInv'
<1> DEFINE e == currentStage[r] + 1
           v == VoteOf(NextLeader(e), e, r)
<1>1. /\ currentStage[r] \in Stage /\ e \in Stage /\ currentStage[r] <= e
      /\ currentStage'[r] = e
      /\ \A s \in Correct : s # r => currentStage'[s] = currentStage[s]
      /\ currentStage' \in [Correct -> Stage]
      /\ r \in Replica
  BY RotationAssumption
     DEF LeaderTimeout, RotationInv, TypeOK, Stage, Correct
<1>2. /\ sent' = sent \cup {v}
      /\ UNCHANGED <<currentLeaderId, votesRegistry, crashed>>
  BY <1>1 DEF LeaderTimeout, VoteOf
<1> HIDE DEF e
<1>3. v \in Vote /\ v.type = "LeadershipVote" /\ v.from = r /\ v.epoque = e
      /\ v.vote = NextLeader(e)
  BY <1>1, NextLeaderType DEF VoteOf, Vote
<1> HIDE DEF v
<1>4. TypeOK'
  BY <1>1, <1>2, <1>3 DEF RotationInv, TypeOK
<1>5. VotesAreTimely'
  <2> SUFFICES ASSUME NEW m \in sent', m.type = "LeadershipVote"
               PROVE  /\ m.from \in Correct
                      /\ m.epoque <= currentStage'[m.from]
                      /\ m.vote = NextLeader(m.epoque)
    BY DEF VotesAreTimely
  <2>1. CASE m = v
    BY <1>1, <1>3, <2>1 DEF Stage
  <2>2. CASE m \in sent
    <3>1. /\ m.from \in Correct /\ m.epoque <= currentStage[m.from]
          /\ m.vote = NextLeader(m.epoque)
      BY <2>2 DEF RotationInv, VotesAreTimely
    <3>2. m \in Vote
      BY <2>2 DEF RotationInv, TypeOK, Vote, Confirmation
    <3>3. m.epoque \in Int /\ currentStage[m.from] \in Int
      BY <3>1, <3>2 DEF RotationInv, TypeOK, Vote, Stage
    <3>4. currentStage'[m.from] \in Int /\ currentStage[m.from] <= currentStage'[m.from]
      BY <1>1, <3>1, <3>3 DEF Stage
    <3> QED
      BY <3>1, <3>3, <3>4
  <2> QED
    BY <1>2, <2>1, <2>2
<1>6. RegisteredWasCast'
  BY <1>2 DEF RotationInv, RegisteredWasCast
<1>7. Claims' = Claims
  BY <1>2, <1>3 DEF Claims
<1>8. ClaimIsSupported' /\ ClaimCarriesVotes'
  BY <1>2, <1>7 DEF RotationInv, ClaimIsSupported, ClaimCarriesVotes
<1> QED
  BY <1>4, <1>5, <1>6, <1>8 DEF RotationInv

\* A vote is registered for whoever has really cast it, and a confirmation
\* carries the registry.
LEMMA VoteRotation ==
  ASSUME RotationInv, NEW r \in Correct, NEW m \in sent \cup FaultyVotes,
         ReceiveLeadershipVote(r, m)
  PROVE  RotationInv'
<1> DEFINE claim == [type |-> "LeaderConfirmation", vote |-> r,
                     epoque |-> m.epoque, voters |-> votesRegistry'[r][m.epoque],
                     from |-> r]
<1>1. /\ r \in Replica /\ m.from \in Replica /\ m.epoque \in Stage
      /\ m.type = "LeadershipVote" /\ m.vote = r
      /\ m.from \in Correct => m \in sent
  BY RotationAssumption
     DEF ReceiveLeadershipVote, RotationInv, TypeOK, FaultyVotes, Vote,
         Confirmation, Correct
<1>2. m \in sent => m = VoteOf(r, m.epoque, m.from)
  <2> SUFFICES ASSUME m \in sent PROVE m = VoteOf(r, m.epoque, m.from)
    OBVIOUS
  <2>1. m \in Vote
    BY <1>1 DEF RotationInv, TypeOK, Vote, Confirmation
  <2> QED
    BY <1>1, <2>1 DEF Vote, VoteOf
<1>3. /\ votesRegistry' \in [Correct -> [Stage -> SUBSET Replica]]
      /\ votesRegistry'[r][m.epoque] = votesRegistry[r][m.epoque] \cup {m.from}
      /\ \A s \in Correct, e \in Stage :
           s # r \/ e # m.epoque => votesRegistry'[s][e] = votesRegistry[s][e]
      /\ UNCHANGED <<currentStage, currentLeaderId, crashed>>
  BY <1>1 DEF ReceiveLeadershipVote, RotationInv, TypeOK, Voters
<1>4. /\ sent \subseteq sent'
      /\ sent' \subseteq sent \cup {claim}
      /\ claim \in sent' => claim \in sent \/ Enough(claim.voters)
  BY DEF ReceiveLeadershipVote, Voters
<1>5. /\ claim \in Confirmation /\ claim.type = "LeaderConfirmation"
      /\ claim.from = r /\ claim.epoque = m.epoque
      /\ claim.voters = votesRegistry'[r][m.epoque]
  BY <1>1, <1>3 DEF Confirmation
<1> HIDE DEF claim
<1>6. TypeOK'
  BY <1>3, <1>4, <1>5 DEF RotationInv, TypeOK
<1>7. VotesAreTimely'
  BY <1>3, <1>4, <1>5 DEF RotationInv, VotesAreTimely
<1>8. RegisteredWasCast'
  <2> SUFFICES ASSUME NEW s \in Correct, NEW e \in Stage,
                      NEW k \in votesRegistry'[s][e] \cap Correct
               PROVE  VoteOf(s, e, k) \in sent'
    BY DEF RegisteredWasCast
  <2>1. CASE k \in votesRegistry[s][e]
    BY <1>4, <2>1 DEF RotationInv, RegisteredWasCast
  <2>2. CASE k \notin votesRegistry[s][e]
    <3>1. s = r /\ e = m.epoque /\ k = m.from
      BY <1>3, <2>2
    <3> QED
      BY <1>1, <1>2, <1>4, <3>1
  <2> QED
    BY <2>1, <2>2
<1>9. \A c \in Claims' : c \in Claims \/ c = claim
  BY <1>4 DEF Claims
<1>10. ClaimIsSupported'
  <2> SUFFICES ASSUME NEW c \in Claims' PROVE Enough(c.voters)
    BY DEF ClaimIsSupported, Enough, N
  <2>1. CASE c \in Claims
    BY <2>1 DEF RotationInv, ClaimIsSupported
  <2>2. CASE c \notin Claims
    BY <1>4, <1>9, <2>2 DEF Claims
  <2> QED
    BY <2>1, <2>2
<1>11. ClaimCarriesVotes'
  <2> SUFFICES ASSUME NEW c \in Claims', NEW k \in c.voters \cap Correct
               PROVE  VoteOf(c.from, c.epoque, k) \in sent'
    BY DEF ClaimCarriesVotes, VoteOf
  <2>1. CASE c \in Claims
    BY <1>4, <2>1 DEF RotationInv, ClaimCarriesVotes, VoteOf
  <2>2. CASE c = claim
    BY <1>1, <1>5, <1>8, <2>2 DEF RegisteredWasCast
  <2> QED
    BY <1>9, <2>1, <2>2
<1> QED
  BY <1>6, <1>7, <1>8, <1>10, <1>11 DEF RotationInv

\* A confirmation moves the receiver's stage forward, if at all.
LEMMA ConfirmationRotation ==
  ASSUME RotationInv, NEW r \in Correct, NEW m \in sent,
         ReceiveLeaderConfirmation(r, m)
  PROVE  RotationInv'
<1>1. m \in Confirmation /\ m.epoque \in Stage /\ m.vote \in Replica
      /\ m.epoque >= currentStage[r]
  BY DEF ReceiveLeaderConfirmation, IsEligible, RotationInv, TypeOK, Vote,
         Confirmation
<1>2. UNCHANGED <<votesRegistry, sent>>
  BY DEF ReceiveLeaderConfirmation
<1>3. /\ currentStage' \in [Correct -> Stage]
      /\ currentLeaderId' \in [Correct -> Replica]
      /\ crashed' \subseteq Correct
  BY <1>1 DEF ReceiveLeaderConfirmation, RotationInv, TypeOK
<1>4. \A s \in Correct : currentStage[s] <= currentStage'[s]
  BY <1>1 DEF ReceiveLeaderConfirmation, RotationInv, TypeOK, Stage
<1>5. TypeOK'
  BY <1>2, <1>3 DEF RotationInv, TypeOK
<1>6. VotesAreTimely'
  <2> SUFFICES ASSUME NEW v \in sent, v.type = "LeadershipVote"
               PROVE  /\ v.from \in Correct
                      /\ v.epoque <= currentStage'[v.from]
                      /\ v.vote = NextLeader(v.epoque)
    BY <1>2 DEF VotesAreTimely
  <2>1. /\ v.from \in Correct /\ v.epoque <= currentStage[v.from]
        /\ v.vote = NextLeader(v.epoque)
    BY DEF RotationInv, VotesAreTimely
  <2>2. v \in Vote
    BY DEF RotationInv, TypeOK, Vote, Confirmation
  <2>3. /\ v.epoque \in Int /\ currentStage[v.from] \in Int
        /\ currentStage'[v.from] \in Int
    BY <1>3, <2>1, <2>2 DEF RotationInv, TypeOK, Vote, Stage
  <2> QED
    BY <1>4, <2>1, <2>3
<1>7. RegisteredWasCast' /\ ClaimIsSupported' /\ ClaimCarriesVotes'
  BY <1>2 DEF RotationInv, RegisteredWasCast, ClaimIsSupported,
              ClaimCarriesVotes, Claims
<1> QED
  BY <1>5, <1>6, <1>7 DEF RotationInv

\* Every step preserves the invariant.
LEMMA RotationInvStep == ASSUME RotationInv, [Next]_vars PROVE RotationInv'
<1>1. CASE UNCHANGED vars
  BY <1>1 DEF vars, RotationInv, TypeOK, VotesAreTimely, RegisteredWasCast,
              ClaimIsSupported, ClaimCarriesVotes, Claims
<1> QED
  BY <1>1, TimeoutRotation, VoteRotation, ConfirmationRotation DEF Next

-----------------------------------------------------------------------------
\* The inductive invariant: votes are timely and cast as registered, and a
\* claim has enough of them (server.ts:301-318, 385-411).
THEOREM RotationInvariance == Spec => []RotationInv
BY RotationInvInit, RotationInvStep, PTL DEF Spec

\* Stages, leaders, registry and messages keep their types: the remainder that
\* names the next leader may be 0, which no vote can be cast by.
THEOREM RotationTypeCorrectness == Spec => []TypeOK
<1>1. RotationInv => TypeOK
  BY DEF RotationInv
<1> QED
  BY <1>1, RotationInvariance, PTL

\* A confirmation carries the votes that were really cast for that stage
\* (server.ts:385-411).
THEOREM ClaimCarrying == Spec => []ClaimCarriesVotes
<1>1. RotationInv => ClaimCarriesVotes
  BY DEF RotationInv
<1> QED
  BY <1>1, RotationInvariance, PTL

\* No two replicas proclaim themselves leader of one stage: the votes that
\* decide include a correct one, and a stage has one candidate a correct
\* replica votes for (server.ts:301-318, 385-411).
THEOREM ClaimUniqueness == Spec => []OneClaimPerStage
<1>1. ASSUME RotationInv, NEW c \in Claims
      PROVE  c.from = NextLeader(c.epoque)
  <2>1. c.voters \in SUBSET Replica
    BY <1>1 DEF RotationInv, TypeOK, Claims, Vote, Confirmation
  <2>2. PICK k \in c.voters : k \in Correct
    BY <1>1, <2>1, VotersMostlyCorrect DEF RotationInv, ClaimIsSupported
  <2>3. VoteOf(c.from, c.epoque, k) \in sent
    BY <1>1, <2>2 DEF RotationInv, ClaimCarriesVotes, VoteOf
  <2> QED
    BY <1>1, <2>3 DEF RotationInv, VotesAreTimely, VoteOf
<1>2. RotationInv => OneClaimPerStage
  BY <1>1 DEF OneClaimPerStage
<1> QED
  BY <1>2, RotationInvariance, PTL

\* A leader is proclaimed only for a stage that most of its voters have come to
\* by timers of their own (server.ts:301-318, 385-411).
THEOREM ClaimTimeliness == Spec => []ClaimIsTimely
<1>1. ASSUME RotationInv, NEW c \in Claims
      PROVE  Cardinality({k \in Correct : currentStage[k] >= c.epoque})
               >= UpperBoundThreshold(N) - LowerBoundThreshold(N)
  <2> DEFINE T == {k \in Correct : currentStage[k] >= c.epoque}
  <2>1. c.voters \in SUBSET Replica /\ c.epoque \in Int
    BY <1>1 DEF RotationInv, TypeOK, Claims, Vote, Confirmation, Stage
  <2>2. /\ IsFiniteSet(c.voters \cap Correct)
        /\ Cardinality(c.voters \cap Correct) \in Nat
        /\ Cardinality(c.voters \cap Correct)
             >= UpperBoundThreshold(N) - LowerBoundThreshold(N)
    BY <1>1, <2>1, VotersMostlyCorrect DEF RotationInv, ClaimIsSupported
  <2>3. ASSUME NEW k \in c.voters \cap Correct
        PROVE  currentStage[k] >= c.epoque
    <3>1. VoteOf(c.from, c.epoque, k) \in sent
      BY <1>1 DEF RotationInv, ClaimCarriesVotes, VoteOf
    <3>2. c.epoque <= currentStage[k]
      BY <1>1, <3>1 DEF RotationInv, VotesAreTimely, VoteOf
    <3>3. currentStage[k] \in Int
      BY <1>1 DEF RotationInv, TypeOK, Stage
    <3> QED
      BY <2>1, <3>2, <3>3
  <2>4. c.voters \cap Correct \subseteq T
    BY <2>3
  <2>5. IsFiniteSet(T)
    BY ReplicaFinite, FS_Subset DEF Correct
  <2>6. /\ Cardinality(T) \in Nat
        /\ Cardinality(c.voters \cap Correct) <= Cardinality(T)
    BY <2>4, <2>5, FS_Subset, FS_CardinalityType
  <2> HIDE DEF T
  <2>7. Cardinality(T) >= UpperBoundThreshold(N) - LowerBoundThreshold(N)
    BY <2>2, <2>6, ThresholdsOrdered
  <2> QED
    BY <2>7 DEF T
<1>2. RotationInv => ClaimIsTimely
  BY <1>1 DEF ClaimIsTimely
<1> QED
  BY <1>2, RotationInvariance, PTL
=============================================================================
