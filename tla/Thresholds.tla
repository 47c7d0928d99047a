----------------------------- MODULE Thresholds -----------------------------
(***************************************************************************)
(* What every Trebizond server derives from the size n of its cluster of   *)
(* the servers 1..n (server.ts): the vote and quorum thresholds, and the   *)
(* leader it starts with.  JavaScript computes the thresholds as Math.ceil *)
(* of a floating point division; for a natural n, ceil(a / 3) is           *)
(* (a + 2) \div 3.                                                         *)
(***************************************************************************)
EXTENDS Integers

\* ceil((n - 1) / 3): the number of faulty replicas the server counts with.
LowerBoundThreshold(n) == (n + 1) \div 3

\* ceil((2n + 1) / 3): the replies, or leadership votes, that decide.
UpperBoundThreshold(n) == (2 * n + 3) \div 3

\* Mutation: the echoes of more replicas than those that are surely correct.
EchoQuorumOfMore(count, n) == count > n - LowerBoundThreshold(n)

\* echoes >= (n + lowerBoundThreshold(n)) / 2, without the division by two.
ReachesEchoQuorum(count, n) == 2 * count >= n + LowerBoundThreshold(n)

\* Mutation: the faulty replicas alone may support a Ready.
ReadySupportOfFaulty(count, n) == count >= LowerBoundThreshold(n)

\* readies >= lowerBoundThreshold(n) + 1: one of them is from a correct replica.
ReachesReadySupport(count, n) == count >= LowerBoundThreshold(n) + 1

\* Mutation: one Ready less.
ReadyQuorumLessOne(count, n) == count >= 2 * LowerBoundThreshold(n)

\* readies >= 2 * lowerBoundThreshold(n) + 1: a majority of the correct ones.
ReachesReadyQuorum(count, n) == count >= 2 * LowerBoundThreshold(n) + 1

\* The first of the ids of r's peers, which sort() compares as strings: "1"
\* comes first, then "10", then, below that, "2".
FirstPeer(r, n) == IF r # 1 THEN 1 ELSE IF n >= 10 THEN 10 ELSE 2
=============================================================================
