---------------------- MODULE SynchronousNetworkProofs ----------------------
(***************************************************************************)
(* Theorems about SynchronousNetwork, for any peers and any number of      *)
(* requests, and their proofs.                                             *)
(***************************************************************************)
EXTENDS SynchronousNetwork, SequenceTheorems, TLAPS

-----------------------------------------------------------------------------
\* What the actions do to the requests.

\* Requests are numbered in the order in which they are made.
LEMMA SentFacts ==
  ASSUME TypeOK
  PROVE  /\ Len(addressees) \in Nat
         /\ Sent = 1..Len(addressees)
         /\ Sent \subseteq Request
         /\ Len(settlements) = Len(addressees)
<1>1. Len(addressees) \in Nat /\ Sent = 1..Len(addressees)
  BY DEF TypeOK, Sent
<1>2. Sent \subseteq Request
  BY <1>1, NetworkAssumption DEF TypeOK, Request
<1>3. Len(settlements) = Len(addressees)
  BY <1>1 DEF TypeOK
<1> QED
  BY <1>1, <1>2, <1>3

\* A multicast makes new requests and leaves the others alone.
LEMMA SendFacts ==
  ASSUME TypeOK, NEW n \in Request, NEW to \in [1..n -> Peer],
         NEW timeout \in BOOLEAN, SendMulticastSync(to, timeout)
  PROVE  /\ Len(to) = n /\ n \in Nat \ {0}
         /\ addressees' \in Seq(Peer)
         /\ Len(addressees') = Len(addressees) + n
         /\ Len(addressees') <= MaxRequests
         /\ Sent' = 1..(Len(addressees) + n)
         /\ \A u \in Sent : addressees'[u] = addressees[u]
         /\ settlements' \in Seq(Seq(Settlement))
         /\ DOMAIN settlements' = Sent'
         /\ \A u \in Sent : settlements'[u] = settlements[u]
         /\ \A u \in Sent' \ Sent : settlements'[u] = <<>>
<1>1. n \in Nat \ {0} /\ to \in Seq(Peer) /\ Len(to) = n
  BY NetworkAssumption DEF Request
<1>2. addressees' = addressees \o to /\ addressees \in Seq(Peer)
  BY DEF SendMulticastSync, TypeOK
<1>3. /\ addressees' \in Seq(Peer)
      /\ Len(addressees') = Len(addressees) + n
      /\ \A u \in 1..Len(addressees) : addressees'[u] = addressees[u]
  <2>1. Len(addressees) \in Nat
    BY <1>2, LenProperties
  <2>2. /\ addressees' \in Seq(Peer)
        /\ Len(addressees') = Len(addressees) + n
        /\ \A u \in 1..(Len(addressees) + n) : addressees'[u] =
             IF u <= Len(addressees) THEN addressees[u]
             ELSE to[u - Len(addressees)]
    BY <1>1, <1>2, ConcatProperties
  <2> QED
    BY <1>1, <2>1, <2>2
<1>4. Len(addressees') <= MaxRequests
  <2>1. Len(addressees) + n \in (Len(addressees) + 1)..(Len(addressees) + n)
    BY <1>1, SentFacts
  <2>2. Len(addressees) + n \in Request
    BY <1>1, <2>1 DEF SendMulticastSync
  <2> QED
    BY <1>3, <2>2, NetworkAssumption DEF Request
<1>5. Sent' = 1..(Len(addressees) + n)
  BY <1>3 DEF Sent
<1> DEFINE none == [i \in DOMAIN to |-> <<>>]
<1>6. none \in Seq(Seq(Settlement)) /\ Len(none) = n
      /\ \A i \in 1..n : none[i] = <<>>
  BY <1>1
<1>7. settlements' = settlements \o none /\ settlements \in Seq(Seq(Settlement))
  BY DEF SendMulticastSync, TypeOK
<1> HIDE DEF none
<1>8. /\ settlements' \in Seq(Seq(Settlement))
      /\ Len(settlements') = Len(settlements) + n
      /\ \A u \in 1..Len(settlements) : settlements'[u] = settlements[u]
      /\ \A u \in (Len(settlements) + 1)..(Len(settlements) + n) :
           settlements'[u] = <<>>
  <2>1. Len(settlements) \in Nat
    BY <1>7, LenProperties
  <2>2. /\ settlements' \in Seq(Seq(Settlement))
        /\ Len(settlements') = Len(settlements) + n
        /\ \A u \in 1..(Len(settlements) + n) : settlements'[u] =
             IF u <= Len(settlements) THEN settlements[u]
             ELSE none[u - Len(settlements)]
    BY <1>6, <1>7, ConcatProperties
  <2>3. ASSUME NEW u \in (Len(settlements) + 1)..(Len(settlements) + n)
        PROVE  settlements'[u] = <<>>
    <3>1. /\ u \in 1..(Len(settlements) + n) /\ ~(u <= Len(settlements))
          /\ u - Len(settlements) \in 1..n
      BY <1>1, <2>1
    <3> QED
      BY <1>6, <2>2, <3>1
  <2>4. \A u \in 1..Len(settlements) :
          u \in 1..(Len(settlements) + n) /\ u <= Len(settlements)
    BY <1>1, <2>1
  <2> QED
    BY <2>2, <2>3, <2>4
<1>9. DOMAIN settlements' = Sent'
  BY <1>5, <1>8, SentFacts
<1> QED
  BY <1>1, <1>3, <1>4, <1>5, <1>8, <1>9, SentFacts

\* The end of a request is recorded for it, and no other is touched.
LEMMA EndFacts ==
  ASSUME TypeOK, NEW u \in Sent, NEW how \in Settlement, End(u, how)
  PROVE  /\ addressees' = addressees /\ Sent' = Sent
         /\ pendingReplies' = pendingReplies \ {u}
         /\ settlements' \in Seq(Seq(Settlement))
         /\ DOMAIN settlements' = Sent
         /\ settlements'[u] # <<>>
         /\ settlements'[u][Len(settlements'[u])] = how
         /\ \A v \in Sent \ {u} : settlements'[v] = settlements[v]
<1>1. addressees' = addressees /\ Sent' = Sent
  BY DEF End, Sent
<1>2. pendingReplies' = pendingReplies \ {u}
  BY DEF End, PendingWithout
<1>3. /\ settlements \in Seq(Seq(Settlement)) /\ DOMAIN settlements = Sent
      /\ settlements[u] \in Seq(Settlement)
  BY DEF TypeOK
<1> DEFINE last == Append(settlements[u], how)
<1>4. /\ last \in Seq(Settlement) /\ last # <<>>
      /\ last[Len(last)] = how
  BY <1>3, AppendProperties
<1>5. settlements' = [settlements EXCEPT ![u] = last]
  BY DEF End, Settle
<1> HIDE DEF last
<1>6. /\ settlements' \in Seq(Seq(Settlement)) /\ DOMAIN settlements' = Sent
      /\ settlements'[u] = last
      /\ \A v \in Sent \ {u} : settlements'[v] = settlements[v]
  BY <1>3, <1>4, <1>5
<1> QED
  BY <1>1, <1>2, <1>4, <1>6

\* A message names no request, or one that its sender may reply to.
LEMMA MessageFacts ==
  ASSUME TypeOK, NEW p \in Peer, NEW m \in Messages(p)
  PROVE  /\ m.from = p
         /\ m.serialUUID \in Uuid
         /\ m.serialUUID \in Sent \cup {None}
         /\ m.serialUUID # None => p \in RR!Repliers(m.serialUUID)
         /\ p \notin Faulty => m.kind # "operation"
<1>1. /\ m.from = p /\ m.serialUUID \in KnownTo(p) \cup {None}
      /\ p \notin Faulty => m.kind # "operation"
  BY DEF Messages
<1>2. KnownTo(p) \subseteq Sent
  BY DEF KnownTo
<1>3. m.serialUUID \in Uuid
  BY <1>1, <1>2, SentFacts, NetworkAssumption
<1>4. ASSUME m.serialUUID # None
      PROVE  p \in RR!Repliers(m.serialUUID)
  BY <1>1, <1>4 DEF KnownTo, RR!Repliers
<1> QED
  BY <1>1, <1>2, <1>3, <1>4

-----------------------------------------------------------------------------
\* The three ways in which a request ends, each one for a request whose promise
\* waits for a reply.

\* Every promise that waits is registered, and what the server is handed has
\* the uuid of a request that is over, or none.
NetworkInv ==
  /\ TypeOK
  /\ PendingIsUnsettled
  /\ redirected \subseteq {u \in Sent : IsResolved(u)} \cup {None}

\* Request u ends as the interface has it.
Ends(u, how) ==
  /\ ~IsResolved(u) /\ u \in pendingReplies
  /\ how \in Settlement
  /\ \/ how \in {RR!Reply(p, u) : p \in RR!Repliers(u)}
     \/ how = RR!Failure("error")
     \/ how = RR!Failure("timeout") /\ u \in timed
  /\ timers' \subseteq timers
  /\ End(u, how)

\* A timer ends the request that it is set for, or nothing.
LEMMA TimerEnds ==
  ASSUME NetworkInv, NEW u \in Sent, TimerExpires(u)
  PROVE  \/ Ends(u, RR!Failure("timeout"))
         \/ /\ timers' \subseteq timers
            /\ UNCHANGED <<addressees, timed, pendingReplies, settlements,
                           settled, detector>>
<1>1. timers' \subseteq timers /\ u \in timed
  BY DEF TimerExpires, NetworkInv, TypeOK
<1>2. CASE IsResolved(u)
  BY <1>1, <1>2 DEF TimerExpires
<1>3. CASE ~IsResolved(u)
  <2>1. u \in pendingReplies
    BY <1>3 DEF NetworkInv, PendingIsUnsettled
  <2>2. RR!Failure("timeout") \in Settlement
    BY DEF Settlement
  <2> QED
    BY <1>1, <1>3, <2>1, <2>2 DEF TimerExpires, Ends
<1> QED
  BY <1>2, <1>3

\* An error of delivery ends the request that it is about.
LEMMA DeliveryErrorEnds ==
  ASSUME NetworkInv, NEW u \in Sent, ManageDeliveryError(u)
  PROVE  Ends(u, RR!Failure("error"))
<1>1. u \in pendingReplies /\ ~IsResolved(u)
  BY DEF ManageDeliveryError, NetworkInv, PendingIsUnsettled
<1>2. RR!Failure("error") \in Settlement
  BY DEF Settlement
<1> QED
  BY <1>1, <1>2 DEF ManageDeliveryError, Ends

\* A reply ends the request that it names.
LEMMA ReplyEnds ==
  ASSUME NetworkInv, NEW p \in Peer, NEW m \in Messages(p),
         DispatchReplyMessage(m)
  PROVE  \E u \in Sent : Ends(u, RR!Reply(p, u))
<1>1. PICK u \in Answered(m) : End(u, RR!Reply(m.from, m.serialUUID))
  BY DEF DispatchReplyMessage
<1>2. u = m.serialUUID /\ u \in pendingReplies
  BY <1>1 DEF Answered
<1>3. u \in Sent /\ ~IsResolved(u)
  BY <1>2 DEF NetworkInv, PendingIsUnsettled
<1>4. u # None /\ u \in Request
  BY <1>3, SentFacts, NetworkAssumption DEF NetworkInv, Request
<1>5. m.from = p /\ p \in RR!Repliers(u)
  BY <1>2, <1>4, MessageFacts DEF NetworkInv
<1>6. RR!Reply(p, u) \in Settlement
  BY <1>4 DEF Settlement
<1>7. timers' = timers
  BY DEF DispatchReplyMessage
<1> QED
  BY <1>1, <1>2, <1>3, <1>5, <1>6, <1>7 DEF Ends

-----------------------------------------------------------------------------
\* The invariant.

\* Nothing has been requested at first.
LEMMA InitInv == Init => NetworkInv
<1> SUFFICES ASSUME Init PROVE NetworkInv
  OBVIOUS
<1>1. Sent = {}
  BY DEF Init, Sent
<1>2. addressees \in Seq(Peer) /\ Len(addressees) <= MaxRequests
  BY NetworkAssumption DEF Init
<1>3. settlements \in Seq(Seq(Settlement)) /\ DOMAIN settlements = Sent
  BY <1>1 DEF Init
<1> QED
  BY <1>1, <1>2, <1>3
     DEF Init, NetworkInv, TypeOK, DetectorTypeOK, DetectorInit,
         PendingIsUnsettled

\* Sending leaves the requests made before as they are.
LEMMA SendInv ==
  ASSUME NetworkInv, NEW n \in Request, NEW to \in [1..n -> Peer],
         NEW timeout \in BOOLEAN, SendMulticastSync(to, timeout)
  PROVE  NetworkInv'
<1> DEFINE uuids == (Len(addressees) + 1)..(Len(addressees) + n)
<1>1. TypeOK
  BY DEF NetworkInv
<1>2. /\ addressees' \in Seq(Peer) /\ Len(addressees') <= MaxRequests
      /\ settlements' \in Seq(Seq(Settlement)) /\ DOMAIN settlements' = Sent'
      /\ Sent' = 1..(Len(addressees) + n) /\ n \in Nat \ {0} /\ Len(to) = n
      /\ \A u \in Sent : settlements'[u] = settlements[u]
      /\ \A u \in Sent' \ Sent : settlements'[u] = <<>>
  BY <1>1, SendFacts
<1>3. Sent = 1..Len(addressees) /\ Len(addressees) \in Nat
  BY <1>1, SentFacts
<1>4. Sent' = Sent \cup uuids /\ uuids = Sent' \ Sent
  BY <1>2, <1>3
<1>5. /\ pendingReplies' = pendingReplies \cup uuids
      /\ timed' \in {timed, timed \cup uuids}
      /\ timers' \subseteq timers \cup (timed' \cap uuids)
      /\ timed \subseteq timed'
      /\ settled' = settled /\ detector' = detector
  BY <1>2 DEF SendMulticastSync, Registered, TimedBy
<1> HIDE DEF uuids
<1>6. \A u \in Sent' : IsResolved(u)' <=> u \in Sent /\ IsResolved(u)
  BY <1>2 DEF IsResolved
<1>7. TypeOK'
  BY <1>1, <1>2, <1>4, <1>5 DEF TypeOK, DetectorTypeOK, detector
<1>8. PendingIsUnsettled'
  BY <1>4, <1>5, <1>6 DEF NetworkInv, PendingIsUnsettled
<1>9. redirected' \subseteq {u \in Sent' : IsResolved(u)'} \cup {None}
  BY <1>4, <1>5, <1>6 DEF NetworkInv, detector
<1> QED
  BY <1>7, <1>8, <1>9 DEF NetworkInv

\* Ending a request keeps the invariant.
LEMMA EndInv ==
  ASSUME NetworkInv, NEW u \in Sent, NEW how, Ends(u, how)
  PROVE  NetworkInv'
<1>1. TypeOK /\ how \in Settlement /\ End(u, how)
  BY DEF NetworkInv, Ends
<1>2. /\ addressees' = addressees /\ Sent' = Sent
      /\ pendingReplies' = pendingReplies \ {u}
      /\ settlements' \in Seq(Seq(Settlement)) /\ DOMAIN settlements' = Sent
      /\ settlements'[u] # <<>>
      /\ \A v \in Sent \ {u} : settlements'[v] = settlements[v]
  BY <1>1, EndFacts
<1>3. /\ timed' = timed /\ settled' = settled /\ detector' = detector
      /\ timers' \subseteq timers
  BY DEF Ends, End
<1>4. \A v \in Sent : IsResolved(v)' <=> v = u \/ IsResolved(v)
  BY <1>2 DEF IsResolved
<1>5. TypeOK'
  BY <1>1, <1>2, <1>3 DEF TypeOK, DetectorTypeOK, detector
<1>6. PendingIsUnsettled'
  BY <1>2, <1>4 DEF NetworkInv, PendingIsUnsettled
<1>7. redirected' \subseteq {v \in Sent' : IsResolved(v)'} \cup {None}
  BY <1>2, <1>3, <1>4 DEF NetworkInv, detector
<1> QED
  BY <1>5, <1>6, <1>7 DEF NetworkInv

\* A message that is not the reply to a pending request.
LEMMA DispatchInv ==
  ASSUME NetworkInv, NEW p \in Peer, NEW m \in Messages(p), DispatchMessage(m)
  PROVE  NetworkInv'
<1>1. /\ UNCHANGED <<addressees, timed, timers, pendingReplies, settlements,
                     settled>>
      /\ OnMessage(m) /\ m.serialUUID \notin pendingReplies
  BY DEF DispatchMessage, Answered
<1>2. /\ m.serialUUID \in Uuid /\ m.serialUUID \in Sent \cup {None}
      /\ m.from \in Peer
  BY MessageFacts DEF NetworkInv
<1>3. m.serialUUID \in {u \in Sent : IsResolved(u)} \cup {None}
  BY <1>1, <1>2 DEF NetworkInv, PendingIsUnsettled
<1>4. /\ redirected' \subseteq redirected \cup {m.serialUUID}
      /\ suspectNodes' = suspectNodes
      /\ accused' \subseteq accused \cup {m.from}
  BY <1>1 DEF OnMessage, OnMessageRedirect, Accuse
<1>5. Sent' = Sent /\ \A u \in Sent : IsResolved(u)' <=> IsResolved(u)
  BY <1>1 DEF Sent, IsResolved
<1>6. TypeOK'
  BY <1>1, <1>2, <1>4, <1>5 DEF NetworkInv, TypeOK, DetectorTypeOK
<1> QED
  BY <1>1, <1>3, <1>4, <1>5, <1>6 DEF NetworkInv, PendingIsUnsettled

\* What changes timers and the state of promises only.
LEMMA RestInv ==
  ASSUME NetworkInv, timers' \subseteq timers, settled' \subseteq Sent,
         UNCHANGED <<addressees, timed, pendingReplies, settlements, detector>>
  PROVE  NetworkInv'
<1>1. Sent' = Sent /\ \A u \in Sent : IsResolved(u)' <=> IsResolved(u)
  BY DEF Sent, IsResolved
<1> QED
  BY <1>1 DEF NetworkInv, TypeOK, DetectorTypeOK, detector, PendingIsUnsettled

\* Every step keeps the invariant.
LEMMA StepInv == NetworkInv /\ [Next]_vars => NetworkInv'
<1> SUFFICES ASSUME NetworkInv, [Next]_vars PROVE NetworkInv'
  OBVIOUS
<1>1. ASSUME NEW n \in Request, NEW to \in [1..n -> Peer],
             NEW timeout \in BOOLEAN, SendMulticastSync(to, timeout)
      PROVE  NetworkInv'
  BY <1>1, SendInv
<1>2. ASSUME NEW u \in Sent, PromiseSettles(u)
      PROVE  NetworkInv'
  BY <1>2, RestInv DEF PromiseSettles, NetworkInv, TypeOK
<1>3. ASSUME NEW u \in Sent, TimerExpires(u)
      PROVE  NetworkInv'
  BY <1>3, TimerEnds, EndInv, RestInv DEF NetworkInv, TypeOK
<1>4. ASSUME NEW u \in Sent, ManageDeliveryError(u)
      PROVE  NetworkInv'
  BY <1>4, DeliveryErrorEnds, EndInv
<1>5. ASSUME NEW p \in Peer, NEW m \in Messages(p), DispatchReplyMessage(m)
      PROVE  NetworkInv'
  BY <1>5, ReplyEnds, EndInv
<1>6. ASSUME NEW p \in Peer, NEW m \in Messages(p), DispatchMessage(m)
      PROVE  NetworkInv'
  BY <1>6, DispatchInv
<1>7. CASE UNCHANGED vars
  BY <1>7, RestInv DEF vars, NetworkInv, TypeOK
<1> QED
  BY <1>1, <1>2, <1>3, <1>4, <1>5, <1>6, <1>7 DEF Next

\* The inductive invariant of the controller.
LEMMA NetworkInvariance == Spec => []NetworkInv
  BY InitInv, StepInv, PTL DEF Spec

-----------------------------------------------------------------------------
\* Variables, timers and promises keep their types (networkController.ts:456-573,
\* deferred.ts:16-60).
THEOREM NetworkTypeCorrectness == Spec => []TypeOK
<1>1. NetworkInv => TypeOK
  BY DEF NetworkInv
<1> QED
  BY <1>1, NetworkInvariance, PTL

\* Whatever reaches the server with the uuid of a request is late: that request
\* is over (networkController.ts:484-489, 527-559).
THEOREM LateRedirection == Spec => []RedirectedIsLate
<1>1. NetworkInv => RedirectedIsLate
  BY DEF NetworkInv, RedirectedIsLate
<1> QED
  BY <1>1, NetworkInvariance, PTL

\* No correct server is accused (failureDetector.ts:57-102, 120-132).
THEOREM HonestAccusation == Spec => []AccusedIsFaulty
<1>1. Init => AccusedIsFaulty
  BY DEF Init, DetectorInit, AccusedIsFaulty
<1>2. NetworkInv /\ AccusedIsFaulty /\ [Next]_vars => AccusedIsFaulty'
  <2> SUFFICES ASSUME NetworkInv, AccusedIsFaulty, [Next]_vars
               PROVE  AccusedIsFaulty'
    OBVIOUS
  <2>1. ASSUME NEW p \in Peer, NEW m \in Messages(p), DispatchMessage(m)
        PROVE  AccusedIsFaulty'
    <3>1. m.from = p /\ (p \notin Faulty => m.kind # "operation")
      BY MessageFacts DEF NetworkInv
    <3> QED
      BY <2>1, <3>1
         DEF DispatchMessage, OnMessage, OnMessageRedirect, Accuse, IsValid,
             IsOperationMessage, AccusedIsFaulty
  <2>2. ASSUME UNCHANGED detector PROVE AccusedIsFaulty'
    BY <2>2 DEF detector, AccusedIsFaulty
  <2> QED
    BY <2>1, <2>2
       DEF Next, vars, SendMulticastSync, PromiseSettles, TimerExpires,
           ManageDeliveryError, DispatchReplyMessage, End
<1> QED
  BY <1>1, <1>2, NetworkInvariance, PTL DEF Spec

-----------------------------------------------------------------------------
\* The refinement of RequestReply.

\* The outcomes that the interface shows.
Outcomes == [u \in Sent |-> IF settlements[u] = <<>> THEN None
                            ELSE settlements[u][Len(settlements[u])]]

\* To send is to make a request.
LEMMA SendRefines ==
  ASSUME NetworkInv, NEW n \in Request, NEW to \in [1..n -> Peer],
         NEW timeout \in BOOLEAN, SendMulticastSync(to, timeout)
  PROVE  RR!Make
<1>1. TypeOK
  BY DEF NetworkInv
<1>2. /\ addressees' = addressees \o to /\ addressees \in Seq(Peer)
      /\ Len(to) = n /\ n \in Nat \ {0} /\ to \in Seq(Peer)
      /\ Len(addressees') = Len(addressees) + n
      /\ Sent' = 1..(Len(addressees) + n)
      /\ \A u \in Sent : settlements'[u] = settlements[u]
      /\ \A u \in Sent' \ Sent : settlements'[u] = <<>>
  <2>1. /\ addressees' = addressees \o to /\ addressees \in Seq(Peer)
        /\ to \in Seq(Peer)
    BY <1>1, NetworkAssumption DEF SendMulticastSync, TypeOK, Request
  <2> QED
    BY <1>1, <2>1, SendFacts
<1>3. Sent = 1..Len(addressees) /\ Len(addressees) \in Nat
  BY <1>1, SentFacts
<1>4. SubSeq(addressees', 1, Len(addressees)) = addressees
  BY <1>2
<1>5. Outcomes' = Outcomes \o [i \in 1..n |-> None]
  <2> DEFINE none == [i \in 1..n |-> None]
             last(u) == settlements[u][Len(settlements[u])]
             Value == {last(u) : u \in Sent} \cup {None}
  <2>1. /\ Outcomes \in Seq(Value) /\ none \in Seq(Value)
        /\ Len(Outcomes) = Len(addressees) /\ Len(none) = n
    BY <1>2, <1>3 DEF Outcomes
  <2>2. \A u \in Sent' : Outcomes'[u] = IF u \in Sent THEN Outcomes[u] ELSE None
    BY <1>2, <1>3 DEF Outcomes
  <2>3. \A i \in 1..n : none[i] = None
    OBVIOUS
  <2>4. Outcomes' = [u \in 1..(Len(addressees) + n) |-> Outcomes'[u]]
    BY <1>2 DEF Outcomes
  <2> HIDE DEF none, Value
  <2>5. /\ Outcomes \o none \in Seq(Value)
        /\ Len(Outcomes \o none) = Len(addressees) + n
        /\ \A u \in 1..(Len(addressees) + n) : (Outcomes \o none)[u] =
             IF u <= Len(addressees) THEN Outcomes[u]
             ELSE none[u - Len(addressees)]
    BY <2>1, ConcatProperties
  <2>6. \A u \in 1..(Len(addressees) + n) : (Outcomes \o none)[u] = Outcomes'[u]
    BY <1>2, <1>3, <2>2, <2>3, <2>5
  <2>7. Outcomes \o none = [u \in 1..(Len(addressees) + n) |->
                              (Outcomes \o none)[u]]
    BY <2>5, LenProperties
  <2> QED
    BY <2>4, <2>6, <2>7 DEF none
<1>6. timed \subseteq timed' /\ timed' \ timed \subseteq Sent' \ Sent
  BY <1>2, <1>3 DEF SendMulticastSync
<1>7. Len(addressees') - Len(addressees) = n
  BY <1>2, <1>3
<1>8. Len(addressees') > Len(addressees)
  BY <1>2, <1>3
<1>9. Outcomes' = Outcomes \o [i \in 1..(Len(addressees') - Len(addressees))
                                 |-> None]
  BY <1>5, <1>7
<1> QED
  BY <1>4, <1>6, <1>8, <1>9, Zenon DEF RR!Make, Outcomes, Sent

\* To end a request that is registered is to end one that has not ended.
LEMMA EndRefines ==
  ASSUME NetworkInv, NEW u \in Sent, NEW how, Ends(u, how)
  PROVE  RR!End(u)
<1>1. TypeOK /\ how \in Settlement /\ End(u, how) /\ ~IsResolved(u)
  BY DEF NetworkInv, Ends
<1>2. /\ addressees' = addressees /\ Sent' = Sent
      /\ settlements'[u] # <<>>
      /\ settlements'[u][Len(settlements'[u])] = how
      /\ \A v \in Sent \ {u} : settlements'[v] = settlements[v]
  BY <1>1, EndFacts
<1>3. timed' = timed
  BY <1>1 DEF End
<1>4. Outcomes[u] = None
  BY <1>1 DEF Outcomes, IsResolved
<1>5. Outcomes' = [Outcomes EXCEPT ![u] = how]
  BY <1>2 DEF Outcomes
<1>6. how \in {RR!Reply(p, u) : p \in RR!Repliers(u)}
                \cup {RR!Failure("error")}
                \cup {RR!Failure("timeout") : v \in timed \cap {u}}
  BY DEF Ends
<1> QED
  BY <1>2, <1>3, <1>4, <1>5, <1>6 DEF RR!End, Outcomes

\* Every step is a step of what the interface promises, or none of it.
LEMMA NetworkRefinementStep ==
  NetworkInv /\ [Next]_vars => RR!Next \/ UNCHANGED RR!vars
<1> SUFFICES ASSUME NetworkInv, [Next]_vars
             PROVE  RR!Next \/ UNCHANGED RR!vars
  OBVIOUS
<1>1. ASSUME NEW n \in Request, NEW to \in [1..n -> Peer],
             NEW timeout \in BOOLEAN, SendMulticastSync(to, timeout)
      PROVE  RR!Next
  BY <1>1, SendRefines DEF RR!Next
<1>2. ASSUME UNCHANGED <<addressees, timed, settlements>>
      PROVE  UNCHANGED RR!vars
  BY <1>2 DEF RR!vars, Sent
<1>3. ASSUME NEW u \in Sent, NEW how, Ends(u, how)
      PROVE  RR!Next
  BY <1>3, EndRefines DEF RR!Next, Sent
<1>4. ASSUME NEW u \in Sent, TimerExpires(u)
      PROVE  RR!Next \/ UNCHANGED RR!vars
  BY <1>2, <1>3, <1>4, TimerEnds
<1>5. ASSUME NEW u \in Sent, ManageDeliveryError(u)
      PROVE  RR!Next
  BY <1>3, <1>5, DeliveryErrorEnds
<1>6. ASSUME NEW p \in Peer, NEW m \in Messages(p), DispatchReplyMessage(m)
      PROVE  RR!Next
  BY <1>3, <1>6, ReplyEnds
<1> QED
  BY <1>1, <1>2, <1>4, <1>5, <1>6
     DEF Next, vars, PromiseSettles, DispatchMessage

\* The controller keeps the promises of its interface: a request ends once, by a
\* reply to it, an error or the timeout given for it, however these race
\* (networkController.ts:473-495, 527-573, deferred.ts:38-52).
THEOREM NetworkRefinement == Spec => ImplementsRequests
<1>1. Init => RR!Init
  <2> SUFFICES ASSUME Init PROVE RR!Init
    OBVIOUS
  <2>1. Sent = {}
    BY DEF Init, Sent
  <2>2. [u \in Sent |-> IF settlements[u] = <<>> THEN None
                        ELSE settlements[u][Len(settlements[u])]] = <<>>
    BY <2>1
  <2> QED
    BY <2>2 DEF Init, RR!Init
<1> QED
  BY <1>1, NetworkRefinementStep, NetworkInvariance, PTL
     DEF Spec, ImplementsRequests, RR!Spec
=============================================================================
