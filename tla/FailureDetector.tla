-------------------------- MODULE FailureDetector ---------------------------
(***************************************************************************)
(* The failure detector (trebizond-server/failureDetector.ts) stands       *)
(* between the network controller and the server: it validates the         *)
(* operation messages that peers send, hands the valid ones and all other  *)
(* messages on, and accuses the senders of those that are not.             *)
(*                                                                         *)
(* Only a message whose "operation" is the client's operation itself is    *)
(* one.  Init, Echo and Ready carry the client's signed message, so they   *)
(* are handed on unseen; so are the accusations of others.                 *)
(***************************************************************************)
CONSTANTS
  Peer,          \* the other servers of the cluster
  Uuid           \* the serial uuids of messages

Kind == {"operation", "relay", "reply", "accusation"}

\* relay: an Init, Echo or Ready; valid: whether its operation is.
Message == [from : Peer, kind : Kind, valid : BOOLEAN, serialUUID : Uuid]

VARIABLES
  suspectNodes,  \* the peers under suspicion
  accused,       \* the peers accusations have been broadcast about (history)
  redirected     \* the uuids of messages handed on to the server (history)

detector == <<suspectNodes, accused, redirected>>

DetectorTypeOK ==
  /\ suspectNodes \subseteq Peer
  /\ accused \subseteq Peer
  /\ redirected \subseteq Uuid

DetectorInit ==
  /\ suspectNodes = {}
  /\ accused = {}
  /\ redirected = {}

\* Mutation: the operation inside the signed message of an Init, Echo or Ready
\* is looked for, too.
CarriesOperation(m) == m.kind \in {"operation", "relay"}

\* instanceOfOperationMessage
IsOperationMessage(m) == m.kind = "operation"

\* semanticValidation
IsValid(m) == IsOperationMessage(m) => m.valid

OnMessageRedirect(m) ==
  /\ IsValid(m)
  /\ redirected' = redirected \cup {m.serialUUID}
  /\ UNCHANGED <<suspectNodes, accused>>

\* The sender becomes a suspect only if it is one.
Accuse(m) ==
  /\ ~IsValid(m)
  /\ accused' = accused \cup {m.from}
  /\ suspectNodes' = suspectNodes \cup ({m.from} \cap suspectNodes)
  /\ UNCHANGED redirected

OnMessage(m) == OnMessageRedirect(m) \/ Accuse(m)
=============================================================================
