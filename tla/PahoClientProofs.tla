-------------------------- MODULE PahoClientProofs --------------------------
(***************************************************************************)
(* Proofs about PahoClient, for any publishers, limit and number of        *)
(* connection attempts.                                                    *)
(*                                                                         *)
(* ClosedHasReason is not inductive by itself: a callback and a trip close *)
(* the channel in a step of their own, so the invariant has to say that    *)
(* whoever is about to close has already set the reason of that attempt.   *)
(***************************************************************************)
EXTENDS PahoClient, TLAPS

\* Whoever is about to close a channel has set its reason.
CloserHasReason ==
  /\ \A c \in callbacks : reason[c[1]] # "none"
  /\ \A p \in Publishers : ppc[p] = "closing" => reason[pconn[p]] # "none"

\* From the dial on the client and connection are those of the attempt; a
\* publisher that is at work has found a client.
Owned ==
  /\ cpc \in {"handshake", "session"} => client = attempt /\ conn = attempt
  /\ cpc # "idle" => attempt > 0
  /\ \A p \in Publishers : ppc[p] # "idle" => pconn[p] > 0
  /\ client > 0 => attempt > 0

IInv == TypeOK /\ ClosedHasReason /\ CloserHasReason /\ Owned

\* Nothing has been tried and nobody publishes.
LEMMA InitInv == Init => IInv
<1> SUFFICES ASSUME Init PROVE IInv
    OBVIOUS
<1> USE PahoClientAssumption DEF Init
<1>1. TypeOK
  BY DEF TypeOK
<1>2. ClosedHasReason
  BY DEF ClosedHasReason
<1>3. CloserHasReason
  BY DEF CloserHasReason
<1>4. Owned
  BY DEF Owned
<1> QED
  BY <1>1, <1>2, <1>3, <1>4 DEF IInv

\* Whatever r is recorded for attempt a, it then has a reason and keeps the
\* one it had.
LEMMA SetReasonKeeps ==
  ASSUME TypeOK, NEW a \in Attempts, NEW r \in Reasons, SetReason(a, r)
  PROVE  /\ reason' \in [Attempts -> Reasons \cup {"none"}]
         /\ reason'[a] # "none"
         /\ \A b \in Attempts : reason[b] # "none" => reason'[b] = reason[b]
BY DEF SetReason, TypeOK, Reasons

\* The steps of Connect and of runSession preserve the invariant.
LEMMA ConnectPreserves ==
  ASSUME IInv, ConnectSteps \/ Disconnect \/ SessionEnds \/ BlackHole
  PROVE  IInv'
<1> USE PahoClientAssumption
    DEF IInv, ConnectSteps, BeginConnect, DialFails, DialSucceeds, HandshakeFails,
        HandshakeSucceeds, Disconnect, SessionEnds, BlackHole
<1>1. TypeOK'
  <2>1. attempt' \in 0 .. MaxAttempts /\ attempt <= attempt'
    BY DEF TypeOK, clientVars
  <2>2. client' \in 0 .. attempt' /\ conn' \in 0 .. attempt'
    BY <2>1 DEF TypeOK, clientVars
  <2>3. pubFailures' \in 0 .. MaxFailures - 1
    BY DEF TypeOK, clientVars
  <2>4. cpc' \in {"idle", "dialing", "handshake", "session"}
    BY DEF TypeOK
  <2>5. net' \in [Attempts -> {"none", "open", "dead", "closed"}]
    BY DEF TypeOK, Owned, Attempts
  <2>6. closed' \subseteq Attempts /\ released' \subseteq closed'
    <3>1. CASE Disconnect
      <4>1. attempt \in Attempts
        BY <3>1 DEF TypeOK, Owned, Attempts
      <4> QED
        BY <3>1, <4>1 DEF TypeOK
    <3>2. CASE UNCHANGED channelVars
      BY <3>2 DEF TypeOK, channelVars
    <3> QED
      BY <3>1, <3>2
  <2>7. UNCHANGED <<reason, callbacks, ppc, pconn, failedOn>>
    BY DEF channelVars, publisherVars
  <2>8. pconn' \in [Publishers -> 0 .. attempt']
    BY <2>1, <2>7 DEF TypeOK
  <2>9. failedOn' \subseteq 0 .. attempt'
    BY <2>1, <2>7 DEF TypeOK
  <2> QED
    BY <2>2, <2>1, <2>3, <2>4, <2>5, <2>6, <2>7, <2>8, <2>9 DEF TypeOK
<1>2. ClosedHasReason'
  BY DEF ClosedHasReason, channelVars
<1>3. CloserHasReason'
  BY DEF CloserHasReason, channelVars, publisherVars
<1>4. Owned'
  BY DEF Owned, TypeOK, clientVars, publisherVars, Attempts
<1> QED
  BY <1>1, <1>2, <1>3, <1>4

\* The library's callbacks preserve the invariant: the reason comes first.
LEMMA CallbackPreserves ==
  ASSUME IInv,
         \/ \E a \in Attempts : OnClientError(a)
         \/ OnServerDisconnect
         \/ \E c \in callbacks : CallbackCloses(c)
  PROVE  IInv'
<1> USE PahoClientAssumption DEF IInv
<1>1. ASSUME NEW a \in Attempts, NEW r \in Reasons, SetReason(a, r),
             net' = [net EXCEPT ![a] = "closed"],
             callbacks' = callbacks \cup {<<a, r>>},
             UNCHANGED <<clientVars, cpc, closed, released, publisherVars, failedOn>>
      PROVE  IInv'
  <2>1. /\ reason' \in [Attempts -> Reasons \cup {"none"}]
        /\ reason'[a] # "none"
        /\ \A b \in Attempts : reason[b] # "none" => reason'[b] = reason[b]
    BY <1>1, SetReasonKeeps
  <2>2. net' \in [Attempts -> {"none", "open", "dead", "closed"}]
    BY <1>1 DEF TypeOK
  <2>3. callbacks' \subseteq Attempts \X Reasons
    BY <1>1 DEF TypeOK
  <2>4. TypeOK'
    BY <1>1, <2>1, <2>2, <2>3 DEF TypeOK, clientVars, publisherVars
  <2>5. ClosedHasReason'
    BY <1>1, <2>1 DEF ClosedHasReason, TypeOK
  <2>6. \A c \in callbacks' : reason'[c[1]] # "none"
    BY <1>1, <2>1 DEF CloserHasReason, TypeOK
  <2>7. \A p \in Publishers : ppc'[p] = "closing" => reason'[pconn'[p]] # "none"
    <3>1. ASSUME NEW p \in Publishers, ppc[p] = "closing"
          PROVE  pconn[p] \in Attempts
      BY <3>1 DEF TypeOK, Owned, Attempts
    <3> QED
      BY <1>1, <2>1, <3>1 DEF CloserHasReason, publisherVars
  <2>8. Owned'
    BY <1>1 DEF Owned, clientVars, publisherVars
  <2> QED
    BY <2>4, <2>5, <2>6, <2>7, <2>8 DEF CloserHasReason
<1>2. ASSUME NEW a \in Attempts, OnClientError(a)
      PROVE  IInv'
  BY <1>1, <1>2 DEF OnClientError, Reasons
<1>3. CASE OnServerDisconnect
  <2>1. attempt \in Attempts
    BY <1>3 DEF OnServerDisconnect, Owned, TypeOK, Attempts
  <2> QED
    BY <1>1, <1>3, <2>1 DEF OnServerDisconnect, Reasons
<1>4. ASSUME NEW c \in callbacks, CallbackCloses(c)
      PROVE  IInv'
  <2>1. c[1] \in Attempts
    BY DEF TypeOK
  <2>2. TypeOK'
    BY <1>4, <2>1 DEF CallbackCloses, TypeOK, clientVars, publisherVars
  <2>3. ClosedHasReason'
    BY <1>4 DEF CallbackCloses, ClosedHasReason, CloserHasReason
  <2>4. CloserHasReason'
    BY <1>4 DEF CallbackCloses, CloserHasReason, publisherVars
  <2>5. Owned'
    BY <1>4 DEF CallbackCloses, Owned, clientVars, publisherVars
  <2> QED
    BY <2>2, <2>3, <2>4, <2>5
<1> QED
  BY <1>2, <1>3, <1>4

\* A publisher's steps preserve the invariant.
LEMMA PublisherPreserves ==
  ASSUME IInv, NEW p \in Publishers, Publisher(p)
  PROVE  IInv'
<1> USE PahoClientAssumption DEF IInv
<1>1. CASE BeginPublish(p) \/ PublishSucceeds(p) \/ PublishFails(p)
  <2> USE <1>1 DEF BeginPublish, PublishSucceeds, PublishFails
  <2>1. UNCHANGED <<clientVars, cpc, net, channelVars, callbacks>>
    OBVIOUS
  <2>2. ppc' \in [Publishers -> {"idle", "publishing", "succeeded", "failed",
                                "tripping", "declaring", "closing"}]
    BY DEF TypeOK
  <2>3. pconn' \in [Publishers -> 0 .. attempt]
    BY DEF TypeOK
  <2>4. failedOn' \subseteq 0 .. attempt
    <3>1. pconn[p] \in 0 .. attempt
      BY DEF TypeOK
    <3>2. failedOn' \in {failedOn, failedOn \cup {pconn[p]}}
      OBVIOUS
    <3> QED
      BY <3>1, <3>2, <2>1 DEF TypeOK, clientVars
  <2>5. TypeOK'
    BY <2>1, <2>2, <2>3, <2>4 DEF TypeOK, clientVars, channelVars
  <2>6. (ClosedHasReason /\ CloserHasReason)'
    BY <2>1 DEF ClosedHasReason, CloserHasReason, channelVars, TypeOK
  <2>7. Owned'
    BY <2>1 DEF Owned, clientVars, TypeOK
  <2> QED
    BY <2>5, <2>6, <2>7
<1>2. CASE RecordSuccess(p) \/ RecordFailure(p)
  <2> USE <1>2 DEF RecordSuccess, RecordFailure
  <2>1. UNCHANGED <<attempt, client, conn, cpc, net, channelVars, callbacks, pconn>>
    OBVIOUS
  <2>2. ppc' \in [Publishers -> {"idle", "publishing", "succeeded", "failed",
                                "tripping", "declaring", "closing"}]
    BY DEF TypeOK
  <2>3. pubFailures' \in 0 .. MaxFailures - 1
    BY DEF TypeOK
  <2>4. TypeOK'
    BY <2>1, <2>2, <2>3 DEF TypeOK, channelVars
  <2>5. (ClosedHasReason /\ CloserHasReason)'
    BY <2>1 DEF ClosedHasReason, CloserHasReason, channelVars, TypeOK
  <2>6. Owned'
    BY <2>1 DEF Owned, TypeOK
  <2> QED
    BY <2>4, <2>5, <2>6
<1>3. CASE TripClosesConn(p)
  <2> USE <1>3 DEF TripClosesConn
  <2>1. UNCHANGED <<clientVars, cpc, channelVars, callbacks>>
    OBVIOUS
  <2>2. attempt > 0
    BY DEF Owned, TypeOK
  <2>3. net' \in [Attempts -> {"none", "open", "dead", "closed"}]
    BY DEF TypeOK
  <2>4. TypeOK'
    BY <2>1, <2>3 DEF TypeOK, clientVars, channelVars
  <2>5. (ClosedHasReason /\ CloserHasReason)'
    BY <2>1 DEF ClosedHasReason, CloserHasReason, channelVars, TypeOK
  <2>6. Owned'
    BY <2>1, <2>2 DEF Owned, clientVars, TypeOK
  <2> QED
    BY <2>4, <2>5, <2>6
<1>4. CASE TripSetsReason(p)
  <2> USE <1>4 DEF TripSetsReason
  <2>1. pconn[p] \in Attempts
    BY DEF TypeOK, Owned, Attempts
  <2>2. /\ reason' \in [Attempts -> Reasons \cup {"none"}]
        /\ reason'[pconn[p]] # "none"
        /\ \A b \in Attempts : reason[b] # "none" => reason'[b] = reason[b]
    BY <2>1, SetReasonKeeps DEF Reasons
  <2>3. UNCHANGED <<clientVars, cpc, net, closed, released, callbacks, pconn>>
    OBVIOUS
  <2>4. TypeOK'
    BY <2>2, <2>3 DEF TypeOK, clientVars
  <2>5. ClosedHasReason'
    BY <2>2, <2>3 DEF ClosedHasReason, TypeOK
  <2>6. \A c \in callbacks' : reason'[c[1]] # "none"
    BY <2>2, <2>3 DEF CloserHasReason, TypeOK
  <2>7. \A q \in Publishers : ppc'[q] = "closing" => reason'[pconn'[q]] # "none"
    <3>1. ASSUME NEW q \in Publishers, ppc[q] = "closing"
          PROVE  pconn[q] \in Attempts
      BY <3>1 DEF TypeOK, Owned, Attempts
    <3> QED
      BY <2>2, <2>3, <3>1 DEF CloserHasReason, TypeOK
  <2>8. Owned'
    BY <2>3 DEF Owned, clientVars, TypeOK
  <2> QED
    BY <2>4, <2>5, <2>6, <2>7, <2>8 DEF CloserHasReason
<1>5. CASE TripClosesChannel(p)
  <2> USE <1>5 DEF TripClosesChannel
  <2>1. pconn[p] \in Attempts
    BY DEF TypeOK, Owned, Attempts
  <2>2. UNCHANGED <<clientVars, cpc, net, reason, released, callbacks, pconn>>
    OBVIOUS
  <2>3. TypeOK'
    BY <2>1, <2>2 DEF TypeOK, clientVars
  <2>4. (ClosedHasReason /\ CloserHasReason)'
    BY <2>2 DEF ClosedHasReason, CloserHasReason, TypeOK
  <2>5. Owned'
    BY <2>2 DEF Owned, clientVars, TypeOK
  <2> QED
    BY <2>3, <2>4, <2>5
<1> QED
  BY <1>1, <1>2, <1>3, <1>4, <1>5 DEF Publisher

\* The invariant holds throughout.
LEMMA Invariant == Spec => []IInv
<1>1. IInv /\ [Next]_vars => IInv'
  <2> SUFFICES ASSUME IInv, [Next]_vars
               PROVE  IInv'
      OBVIOUS
  <2>1. CASE UNCHANGED vars
    BY <2>1 DEF vars, clientVars, channelVars, publisherVars, IInv, TypeOK,
                ClosedHasReason, CloserHasReason, Owned
  <2> QED
    BY <2>1, ConnectPreserves, CallbackPreserves, PublisherPreserves DEF Next
<1> QED
  BY <1>1, InitInv, PTL DEF Spec

\* Every variable has its type, and the failure count stays below the limit.
THEOREM PahoTypes == Spec => []TypeOK
BY Invariant, PTL DEF IInv

\* A channel that was not closed by Disconnect is closed after its attempt's
\* reason was set, so that runSession can report it.
THEOREM ReasonBeforeClose == Spec => []ClosedHasReason
BY Invariant, PTL DEF IInv

\* A session's client and connection are those of its own Connect.
THEOREM SessionOwnsItsClient == Spec => []SessionOwnsClient
<1>1. IInv => SessionOwnsClient
  BY DEF IInv, Owned, SessionOwnsClient
<1> QED
  BY <1>1, Invariant, PTL

\* The first reason an attempt is given is never replaced.
THEOREM ReasonIsFirst == Spec => FirstReasonWins
<1>1. ASSUME IInv, [Next]_vars
      PROVE  [\A a \in Attempts : reason[a] # "none" => reason'[a] = reason[a]]_vars
  <2>1. CASE UNCHANGED reason
    BY <2>1
  <2>2. ASSUME NEW a \in Attempts, OnClientError(a)
        PROVE  \A b \in Attempts : reason[b] # "none" => reason'[b] = reason[b]
    BY <1>1, <2>2, SetReasonKeeps DEF OnClientError, IInv, Reasons
  <2>3. CASE OnServerDisconnect
    BY <1>1, <2>3, SetReasonKeeps
       DEF OnServerDisconnect, IInv, TypeOK, Owned, Reasons, Attempts
  <2>4. ASSUME NEW p \in Publishers, TripSetsReason(p)
        PROVE  \A b \in Attempts : reason[b] # "none" => reason'[b] = reason[b]
    <3>1. pconn[p] \in Attempts
      BY <1>1, <2>4, PahoClientAssumption
         DEF TripSetsReason, IInv, TypeOK, Owned, Attempts
    <3>2. SetReason(pconn[p], "publish") /\ "publish" \in Reasons
      BY <2>4 DEF TripSetsReason, Reasons
    <3> QED
      BY <1>1, <3>1, <3>2, SetReasonKeeps DEF IInv
  <2>5. \/ UNCHANGED reason
        \/ \E a \in Attempts : OnClientError(a)
        \/ OnServerDisconnect
        \/ \E p \in Publishers : TripSetsReason(p)
    BY <1>1 DEF Next, vars, channelVars, ConnectSteps, BeginConnect, DialFails,
       DialSucceeds, HandshakeFails, HandshakeSucceeds, Disconnect, SessionEnds,
       BlackHole, CallbackCloses, Publisher, BeginPublish, PublishSucceeds,
       PublishFails, RecordSuccess, RecordFailure, TripClosesConn,
       TripClosesChannel
  <2> QED
    BY <2>1, <2>2, <2>3, <2>4, <2>5
<1> QED
  BY <1>1, Invariant, PTL DEF Spec, FirstReasonWins

=============================================================================
