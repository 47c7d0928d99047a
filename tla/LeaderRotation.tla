--------------------------- MODULE LeaderRotation ---------------------------
(***************************************************************************)
(* The successive leader rotation of a Trebizond cluster                   *)
(* (trebizond-server/server.ts, class TrebizondServer): every replica      *)
(* counts stages with a timer of its own and votes for the leader of the   *)
(* next stage; the replica that gathers enough votes proclaims itself in a *)
(* LeaderConfirmation that carries them.                                   *)
(*                                                                         *)
(* A handler runs to its end before the next one starts.  Messages may be  *)
(* late, lost, reordered or duplicated.  Faulty replicas cast any vote;    *)
(* the confirmations they could make up are left out.                      *)
(***************************************************************************)
EXTENDS Thresholds, FiniteSets

CONSTANTS
  Replica,   \* the ids of the servers, numbers
  Faulty,    \* the replicas that do not follow the protocol
  MaxStage   \* a replica's timer is followed up to this stage (a bound)

N == Cardinality(Replica)
Correct == Replica \ Faulty
Stage == 0..MaxStage

\* trebizondRedisServer.ts accepts the ids 1 to n only.
ASSUME RotationAssumption ==
  /\ N \in Nat /\ N >= 2
  /\ Replica = 1..N
  /\ Faulty \subseteq Replica
  /\ Cardinality(Faulty) <= LowerBoundThreshold(N)
  /\ MaxStage \in Nat

VARIABLES
  currentStage,     \* the stage each replica has come to
  currentLeaderId,  \* the leader each replica believes in
  votesRegistry,    \* votesRegistry[r][e]: whose votes r has for stage e
  sent,             \* the votes and confirmations of the correct replicas
  crashed           \* the processes that an uncaught exception has ended

vars == <<currentStage, currentLeaderId, votesRegistry, sent, crashed>>

-----------------------------------------------------------------------------
Vote == [type : {"LeadershipVote"}, vote : 0..N, epoque : Stage,
         from : Replica]

Confirmation == [type : {"LeaderConfirmation"}, vote : Replica,
                 epoque : Stage, voters : SUBSET Replica, from : Replica]

TypeOK ==
  /\ currentStage \in [Correct -> Stage]
  /\ currentLeaderId \in [Correct -> Replica]
  /\ votesRegistry \in [Correct -> [Stage -> SUBSET Replica]]
  /\ sent \subseteq Vote \cup Confirmation
  /\ crashed \subseteq Correct

\* The signed text of a voter's LeadershipVote and of the "leader" record of a
\* confirmation: JSON.stringify keeps the order in which fields were written.
VoteText(vote, epoque, voter) ==
  <<"vote", vote, "epoque", epoque, "type", "LeadershipVote", "from", voter>>
LeaderText(vote, epoque, from) ==
  <<"type", "LeadershipVote", "vote", vote, "epoque", epoque, "from", from>>

\* The voters whose signature the receiver finds to match the confirmation.
Matching(m) ==
  {k \in m.voters :
     VoteText(m.vote, m.epoque, k) = LeaderText(m.vote, m.epoque, m.from)}

NextLeader(stage) == stage % N

\* Mutation: the votes of all stages count.
VotersOfAnyStage(r, epoque) == UNION {votesRegistry[r][e] : e \in 0..epoque}

\* Mutation: the threshold that tolerates faults, not the one that decides.
EnoughForSupport(voters) == Cardinality(voters) >= LowerBoundThreshold(N)

\* Mutation: one correct voter is enough.
EnoughWithOneCorrect(voters) == Cardinality(voters) > LowerBoundThreshold(N)

\* The votes r has registered for a stage, and whether votes suffice.
Voters(r, epoque) == votesRegistry[r][epoque]
Enough(voters) == Cardinality(voters) >= UpperBoundThreshold(N)

\* The router is connected to the other replicas only: messages to the replica
\* itself, or to an id that no replica has, are dropped.
Arrives(m, r) ==
  /\ m.from # r
  /\ \/ m \in sent /\ (m.type = "LeadershipVote" => m.vote = r)
     \/ m.from \in Faulty

-----------------------------------------------------------------------------
\* The timer goes off, whatever progress has been made, and is set again.
LeaderTimeout(r) ==
  /\ r \notin crashed
  /\ currentStage[r] < MaxStage
  /\ currentStage' = [currentStage EXCEPT ![r] = @ + 1]
  /\ sent' = sent \cup {[type |-> "LeadershipVote",
                         vote |-> NextLeader(currentStage'[r]),
                         epoque |-> currentStage'[r], from |-> r]}
  /\ UNCHANGED <<currentLeaderId, votesRegistry, crashed>>

\* A vote for r; from the last one needed on, each makes r proclaim itself.
ReceiveLeadershipVote(r, m) ==
  /\ r \notin crashed
  /\ m.type = "LeadershipVote" /\ Arrives(m, r)
  /\ m.vote = r
  /\ m.epoque >= currentStage[r]
  /\ m.from \notin Voters(r, m.epoque)
  /\ votesRegistry' = [votesRegistry EXCEPT ![r][m.epoque] = @ \cup {m.from}]
  /\ LET voters == Voters(r, m.epoque)'
     IN  sent' = sent \cup
           (IF Enough(voters)
            THEN {[type |-> "LeaderConfirmation", vote |-> r,
                   epoque |-> m.epoque, voters |-> voters, from |-> r]}
            ELSE {})
  /\ UNCHANGED <<currentStage, currentLeaderId, crashed>>

\* The receiver looks at the confirmation when it carries enough votes.
IsEligible(r, m) ==
  /\ m.vote = m.from
  /\ m.epoque >= currentStage[r]
  /\ Enough(m.voters)

\* It looks up the key of every voter, and has none for itself: the server
\* deleted its own entry from the topology, so the handler throws.
IsVoter(r, m) == r \in m.voters

ReceiveLeaderConfirmation(r, m) ==
  /\ r \notin crashed
  /\ m.type = "LeaderConfirmation" /\ Arrives(m, r)
  /\ IsEligible(r, m)
  /\ IF IsVoter(r, m)
     THEN /\ crashed' = crashed \cup {r}
          /\ UNCHANGED <<currentStage, currentLeaderId>>
     ELSE /\ IF Matching(m) = m.voters
             THEN /\ currentLeaderId' = [currentLeaderId EXCEPT ![r] = m.vote]
                  /\ currentStage' = [currentStage EXCEPT ![r] = m.epoque]
             ELSE UNCHANGED <<currentStage, currentLeaderId>>
          /\ UNCHANGED crashed
  /\ UNCHANGED <<votesRegistry, sent>>

-----------------------------------------------------------------------------
\* Mutation: the field keeps the value it is declared with.
InitialLeaderUnset(r) == 0

\* Object.keys(peersTopology).map(Number).sort()[0], once the network
\* controller has taken the server's own id out of the object.
InitialLeader(r) == FirstPeer(r, N)

Init ==
  /\ currentStage = [r \in Correct |-> 0]
  /\ currentLeaderId = [r \in Correct |-> InitialLeader(r)]
  /\ votesRegistry = [r \in Correct |-> [e \in Stage |-> {}]]
  /\ sent = {}
  /\ crashed = {}

FaultyVotes == [type : {"LeadershipVote"}, vote : Replica, epoque : Stage,
                from : Faulty]

Next ==
  \/ \E r \in Correct : LeaderTimeout(r)
  \/ \E r \in Correct, m \in sent \cup FaultyVotes : ReceiveLeadershipVote(r, m)
  \/ \E r \in Correct, m \in sent : ReceiveLeaderConfirmation(r, m)

Spec == Init /\ [][Next]_vars

-----------------------------------------------------------------------------
Claims == {m \in sent : m.type = "LeaderConfirmation"}

\* No two replicas proclaim themselves leader of one stage, although every
\* replica counts the stages alone and faulty ones vote for whom they like.
OneClaimPerStage ==
  \A c, d \in Claims : c.epoque = d.epoque => c.from = d.from

\* A leader is proclaimed only for a stage that most of its voters have come
\* to themselves: all but the F votes that faulty replicas may have cast.
ClaimIsTimely ==
  \A c \in Claims :
    Cardinality({k \in Correct : currentStage[k] >= c.epoque})
      >= UpperBoundThreshold(N) - LowerBoundThreshold(N)

\* A confirmation carries the votes that were really cast for that stage.
ClaimCarriesVotes ==
  \A c \in Claims : \A k \in c.voters \cap Correct :
    [type |-> "LeadershipVote", vote |-> c.from, epoque |-> c.epoque,
     from |-> k] \in sent

\* "Valid leadership confirmation for a stage equal or higher than the current
\* one. Current leader and stage identifiers are updated."
ConfirmationIsAdopted ==
  [][\A r \in Correct, m \in sent :
       ReceiveLeaderConfirmation(r, m) =>
         /\ currentLeaderId'[r] = m.vote
         /\ currentStage'[r] = m.epoque]_vars
=============================================================================
