---------------------------- MODULE RequestReply ----------------------------
(***************************************************************************)
(* What a SynchronousNetworkController promises to the server that uses it *)
(* (the interface of that name in networkController.ts): each request made *)
(* of a peer ends at most once, with a reply to that very request, with an *)
(* error or, if a timeout was given for it, with the timeout.              *)
(***************************************************************************)
EXTENDS Sequences, Naturals

CONSTANTS
  Peer,        \* the other servers of the cluster
  Faulty,      \* those that do not follow the protocol
  None         \* no outcome

VARIABLES
  addressees,  \* addressees[u]: the peer that request u was made of
  timed,       \* the requests that a timeout was given for
  outcomes     \* outcomes[u]: how request u has ended

vars == <<addressees, timed, outcomes>>

Reply(p, u) == [by |-> "reply", from |-> p, uuid |-> u]
Failure(kind) == [by |-> kind]

Init == addressees = <<>> /\ timed = {} /\ outcomes = <<>>

\* One or more requests are made.
Make ==
  /\ Len(addressees') > Len(addressees)
  /\ SubSeq(addressees', 1, Len(addressees)) = addressees
  /\ outcomes' = outcomes \o [i \in 1..(Len(addressees') - Len(addressees)) |->
                                None]
  /\ timed \subseteq timed'
  /\ timed' \ timed \subseteq DOMAIN addressees' \ DOMAIN addressees

\* A correct peer is the only one to reply for itself.
Repliers(u) == IF addressees[u] \in Faulty THEN Faulty ELSE {addressees[u]}

End(u) ==
  /\ outcomes[u] = None
  /\ \E o \in {Reply(p, u) : p \in Repliers(u)}
                \cup {Failure("error")}
                \cup {Failure("timeout") : v \in timed \cap {u}} :
       outcomes' = [outcomes EXCEPT ![u] = o]
  /\ UNCHANGED <<addressees, timed>>

Next == Make \/ \E u \in DOMAIN addressees : End(u)

Spec == Init /\ [][Next]_vars
=============================================================================
