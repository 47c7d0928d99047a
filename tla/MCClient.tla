------------------------------ MODULE MCClient ------------------------------
(***************************************************************************)
(* Instances of Client for TLC: the results that correct servers obtain.   *)
(***************************************************************************)
EXTENDS Client

\* Three correct servers: one differs on the write, another reads both results.
Differing ==
  << << {1}, {1, 2} >>, << {1}, {2} >>, << {2}, {2} >> >>

\* All correct servers have one result.
Unanimous == [s \in Correct |-> [u \in Uuid |-> {1}]]

\* No key but the servers' ids; two more that stand for the last server.
NoAliases == <<>>
AliasesOfLast == [k \in Alias |-> N]
=============================================================================
