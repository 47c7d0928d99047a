-------------------------- MODULE ThresholdsProofs --------------------------
(***************************************************************************)
(* What the thresholds of a Trebizond server mean for a cluster of n       *)
(* replicas of which f are silent.                                         *)
(***************************************************************************)
EXTENDS Thresholds, TLAPS

\* With n = 3f + 1 replicas the f silent ones are not needed: the others alone
\* reach every quorum of the broadcast and the replies (server.ts:172-178).
THEOREM SilenceTolerated ==
  ASSUME NEW f \in Nat
  PROVE  LET n == 3 * f + 1
         IN  /\ LowerBoundThreshold(n) = f
             /\ ReachesEchoQuorum(n - f, n)
             /\ ReachesReadyQuorum(n - f, n)
             /\ n - f >= UpperBoundThreshold(n)
BY DEF LowerBoundThreshold, UpperBoundThreshold, ReachesEchoQuorum,
       ReachesReadyQuorum

\* With n = 3f + 2 the server counts with f + 1 faulty replicas, one more than
\* n can bear, and f silent ones leave the ready quorum out of reach: a pair of
\* servers never accepts, five stop when one does (server.ts:172-174, 575).
THEOREM SilenceBlocks ==
  ASSUME NEW f \in Nat
  PROVE  LET n == 3 * f + 2
         IN  /\ LowerBoundThreshold(n) = f + 1
             /\ ~ReachesReadyQuorum(n - f, n)
BY DEF LowerBoundThreshold, ReachesReadyQuorum

\* Two sets of a and b echoes share at least a + b - n replicas.  When n plus
\* the threshold is odd, echo quorums share a correct replica; when it is even,
\* as for n = 3 and n = 6, they may share faulty ones only: the comparison is
\* >= where the overlap needs > (server.ts:520, 548).
THEOREM EchoQuorumOverlap ==
  ASSUME NEW n \in Nat, NEW a \in Nat, NEW b \in Nat,
         ReachesEchoQuorum(a, n), ReachesEchoQuorum(b, n)
  PROVE  /\ a + b - n >= LowerBoundThreshold(n)
         /\ (n + LowerBoundThreshold(n)) % 2 = 1
              => a + b - n >= LowerBoundThreshold(n) + 1
<1> DEFINE F == LowerBoundThreshold(n)
<1>1. F \in Nat
  BY DEF LowerBoundThreshold
<1>2. 2 * a >= n + F /\ 2 * b >= n + F
  BY DEF ReachesEchoQuorum
<1> HIDE DEF F
<1>3. a + b - n >= F
  BY <1>1, <1>2
<1>4. ASSUME (n + F) % 2 = 1
      PROVE  a + b - n >= F + 1
  <2>1. 2 * a # n + F /\ 2 * b # n + F
    BY <1>1, <1>4
  <2> QED
    BY <1>1, <1>2, <2>1
<1> QED
  BY <1>3, <1>4 DEF F
=============================================================================
