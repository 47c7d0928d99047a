------------------------- MODULE SynchronousNetwork -------------------------
(***************************************************************************)
(* The SynchronousServerNetworkController of one server                    *)
(* (trebizond-server/networkController.ts), the promises it gives          *)
(* (trebizond-common/deferred.ts) and the failure detector behind it.      *)
(*                                                                         *)
(* A request goes out under a fresh serial uuid; a message that comes with *)
(* the uuid of a pending request is its reply, and any other goes to the   *)
(* failure detector.  A promise is settled at once, its state says so only *)
(* when the microtasks run, and several messages may be handled before.    *)
(*                                                                         *)
(* Peers reply late, repeatedly or never.  The faulty ones share the uuids *)
(* of the requests made of them, and send what they like.                  *)
(***************************************************************************)
EXTENDS FailureDetector, Naturals, Sequences, FiniteSets

CONSTANTS
  Faulty,          \* the peers that do not follow the protocol
  MaxRequests,     \* the requests made (a bound)
  None             \* the uuid of no request, no outcome

Request == 1..MaxRequests

ASSUME NetworkAssumption ==
  /\ Peer \subseteq Nat
  /\ IsFiniteSet(Peer)
  /\ Faulty \subseteq Peer
  /\ MaxRequests \in Nat
  /\ None \notin Nat
  /\ Uuid = Request \cup {None}

VARIABLES
  addressees,      \* addressees[u]: the peer that request u was sent to
  timed,           \* requests that a timeout was given for
  timers,          \* those whose timer is set
  pendingReplies,  \* requests whose promise waits for a reply
  settlements,     \* settlements[u]: how u's promise was settled, each time
  settled          \* requests whose promise's state is no longer "pending"

vars == <<addressees, timed, timers, pendingReplies, settlements, settled,
          detector>>

Sent == DOMAIN addressees

RR == INSTANCE RequestReply WITH
        outcomes <- [u \in Sent |-> IF settlements[u] = <<>> THEN None
                                    ELSE settlements[u][Len(settlements[u])]]

Settlement == {RR!Reply(p, u) : p \in Peer, u \in Request}
                \cup {RR!Failure(kind) : kind \in {"error", "timeout"}}

TypeOK ==
  /\ addressees \in Seq(Peer) /\ Len(addressees) <= MaxRequests
  /\ timers \subseteq timed /\ timed \subseteq Sent
  /\ pendingReplies \subseteq Sent
  /\ settlements \in Seq(Seq(Settlement)) /\ DOMAIN settlements = Sent
  /\ settled \subseteq Sent
  /\ DetectorTypeOK

-----------------------------------------------------------------------------
\* Deferred

IsResolved(u) == settlements[u] # <<>>
IsPending(u) == u \notin settled

\* Both resolve and reject; the second time they throw.
Settle(u, how) == settlements' = [settlements EXCEPT ![u] = Append(@, how)]

\* A microtask reports the settlement to the promise's state.
PromiseSettles(u) ==
  /\ IsResolved(u) /\ IsPending(u)
  /\ settled' = settled \cup {u}
  /\ UNCHANGED <<addressees, timed, timers, pendingReplies, settlements,
                 detector>>

-----------------------------------------------------------------------------
\* Requests and how they end.

\* Mutation: only the last recipient of a multicast is timed.
TimedLast(uuids, timeout) ==
  {u \in uuids : timeout /\ u + 1 \notin uuids}

\* The timeout applies to every request of a multicast.
TimedBy(uuids, timeout) == IF timeout THEN uuids ELSE {}

\* Mutation: one uuid for all recipients keeps the promise of the last only.
RegisteredLast(uuids) == {u \in uuids : u + 1 \notin uuids}

\* Mutation: the promise is found under another frame of the envelope.
RegisteredByType(uuids) == {None}

\* Each request has a uuid of its own, and its promise is found under it.
Registered(uuids) == uuids

\* sendMessageSync is a multicast to one peer, sendBroadcastSync one to all;
\* the recipients are listed in an array, and are made one request each.
SendMulticastSync(to, timeout) ==
  LET uuids == (Len(addressees) + 1)..(Len(addressees) + Len(to))
  IN  /\ uuids \subseteq Request
      /\ addressees' = addressees \o to
      /\ settlements' = settlements \o [i \in DOMAIN to |-> <<>>]
      /\ pendingReplies' = pendingReplies \cup Registered(uuids)
      /\ timed' = timed \cup {u \in uuids : timeout}
      /\ timers' = timers \cup TimedBy(uuids, timeout)
      /\ UNCHANGED <<settled, detector>>

PendingWithout(u) == pendingReplies \ {u}

End(u, how) ==
  /\ Settle(u, how)
  /\ pendingReplies' = PendingWithout(u)
  /\ UNCHANGED <<addressees, timed, settled, detector>>

\* The timer of a request that is over does nothing.
TimerExpires(u) ==
  /\ u \in timers
  /\ timers' = timers \ {u}
  /\ IF IsResolved(u)
     THEN UNCHANGED <<addressees, timed, pendingReplies, settlements, settled,
                      detector>>
     ELSE End(u, RR!Failure("timeout"))

ManageDeliveryError(u) ==
  /\ u \in pendingReplies /\ IsPending(u)
  /\ End(u, RR!Failure("error"))
  /\ UNCHANGED timers

-----------------------------------------------------------------------------
\* Messages.

\* The requests whose uuid p may know.
KnownTo(p) ==
  {u \in Sent : IF p \in Faulty THEN addressees[u] \in Faulty
                ELSE addressees[u] = p}

\* Correct servers send no operation messages, and relay whatever they are sent.
Messages(p) ==
  {m \in [from : {p}, kind : Kind, valid : BOOLEAN,
          serialUUID : KnownTo(p) \cup {None}] :
     p \notin Faulty => /\ m.kind # "operation"
                        /\ m.serialUUID # None <=> m.kind = "reply"}

\* Mutation: a reply is matched with the requests made of its sender.
AnsweredOfSender(m) == {u \in pendingReplies : addressees[u] = m.from}

Answered(m) == pendingReplies \cap {m.serialUUID}

\* dispatchReplyMessage
DispatchReplyMessage(m) ==
  /\ \E u \in Answered(m) :
       /\ IsPending(u)
       /\ End(u, RR!Reply(m.from, m.serialUUID))
  /\ UNCHANGED timers

\* Whatever answers no pending request goes to the failure detector.
DispatchMessage(m) ==
  /\ Answered(m) = {}
  /\ OnMessage(m)
  /\ UNCHANGED <<addressees, timed, timers, pendingReplies, settlements,
                 settled>>

-----------------------------------------------------------------------------
Init ==
  /\ addressees = <<>>
  /\ timed = {}
  /\ timers = {}
  /\ pendingReplies = {}
  /\ settlements = <<>>
  /\ settled = {}
  /\ DetectorInit

Next ==
  \/ \E n \in Request : \E to \in [1..n -> Peer], timeout \in BOOLEAN :
       SendMulticastSync(to, timeout)
  \/ \E u \in Sent : \/ PromiseSettles(u)
                     \/ TimerExpires(u)
                     \/ ManageDeliveryError(u)
  \/ \E p \in Peer : \E m \in Messages(p) : \/ DispatchReplyMessage(m)
                                            \/ DispatchMessage(m)

Spec == Init /\ [][Next]_vars

\* Timers expire; nothing is assumed of the peers and the network.
Fairness == \A u \in Request : WF_vars(u \in Sent /\ TimerExpires(u))

FairSpec == Spec /\ Fairness

-----------------------------------------------------------------------------
\* The interface keeps its promises: a request ends once and by a reply to it,
\* an error or the timeout given for it, however these race with each other and
\* with the microtasks (networkController.ts:473-495, 527-573, deferred.ts:38-52).
ImplementsRequests == RR!Spec

\* A message that carries the uuid of a request reaches the server only when
\* that request is over, so that nothing takes a late reply for the reply to
\* another request (networkController.ts:484-489, 527-559).
RedirectedIsLate ==
  \A u \in redirected \ {None} : IsResolved(u)

\* A correct server is never accused: those that relay an invalid operation in
\* their Init, Echo or Ready are not taken for its author
\* (failureDetector.ts:57-102, 120-132).
AccusedIsFaulty == accused \subseteq Faulty

\* A request with a timeout ends, whatever the peer does
\* (networkController.ts:483-490).
TimedRequestsEnd == \A u \in Request : u \in timed ~> u \in Sent /\ IsResolved(u)

\* A promise is registered exactly as long as it is not settled.
PendingIsUnsettled == pendingReplies = {u \in Sent : ~IsResolved(u)}
=============================================================================
