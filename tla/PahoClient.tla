----------------------------- MODULE PahoClient -----------------------------
(***************************************************************************)
(* PahoClient: the MQTT client's own state.  Each Connect makes a fresh    *)
(* disconnect channel, sync.Once and reason holder, dials and shakes hands *)
(* while it holds mu; the client library's callbacks, which must not take  *)
(* mu, use the three of their own attempt.  Publishers of all goroutines   *)
(* share one counter of consecutive failures; the one that reaches the     *)
(* limit declares the current connection dead.                             *)
(*                                                                         *)
(* An attempt's number stands for all that belongs to it: its channel,     *)
(* once, reason, connection and library client.  mu is held across steps   *)
(* only by Connect; every other critical section is one step that needs mu *)
(* to be free.                                                             *)
(***************************************************************************)
EXTENDS Integers, FiniteSets

CONSTANTS
  Publishers,    \* goroutines that publish
  MaxFailures,   \* maxConsecutivePublishFailures
  MaxAttempts    \* bound on calls of Connect

ASSUME PahoClientAssumption ==
  /\ MaxFailures \in Nat \ {0}
  /\ MaxAttempts \in Nat

Attempts == 1 .. MaxAttempts
Reasons == {"error", "server", "publish"}

VARIABLES
  attempt,       \* whose disconnCh, closeOnce, disconnectState are c's
  client,        \* whose c.client is, 0 for nil
  conn,          \* whose c.conn is, 0 for nil
  pubFailures,   \* c.pubFailures
  cpc,           \* runSession: "idle", "dialing", "handshake" or "session"
  net,           \* an attempt's connection: "none", "open", "dead" or "closed"
  reason,        \* an attempt's disconnectState, "none" for nil
  closed,        \* the attempts whose disconnCh is closed
  released,      \* the attempts given up by Disconnect
  callbacks,     \* library callbacks between their two statements
  ppc,           \* where a publisher is
  pconn,         \* the attempt a publisher works with
  failedOn       \* history: the attempts on whose connection a publish failed

clientVars == <<attempt, client, conn, pubFailures>>
channelVars == <<reason, closed, released>>
publisherVars == <<ppc, pconn>>
vars == <<clientVars, cpc, net, channelVars, callbacks, publisherVars, failedOn>>

\* Connect is not holding mu.
MuFree == cpc \in {"idle", "session"}

Init ==
  /\ attempt = 0 /\ client = 0 /\ conn = 0 /\ pubFailures = 0
  /\ cpc = "idle"
  /\ net = [a \in Attempts |-> "none"]
  /\ reason = [a \in Attempts |-> "none"]
  /\ closed = {} /\ released = {}
  /\ callbacks = {}
  /\ ppc = [p \in Publishers |-> "idle"]
  /\ pconn = [p \in Publishers |-> 0]
  /\ failedOn = {}

-----------------------------------------------------------------------------
(* Connect, as runSession calls it *)

\* mu is taken; fresh channel, once and reason.
BeginConnect ==
  /\ cpc = "idle"
  /\ attempt < MaxAttempts
  /\ attempt' = attempt + 1
  /\ cpc' = "dialing"
  /\ UNCHANGED <<client, conn, pubFailures, net, channelVars, callbacks,
                 publisherVars, failedOn>>

\* The last client and connection stay in place.
DialFails ==
  /\ cpc = "dialing"
  /\ cpc' = "idle"
  /\ UNCHANGED <<clientVars, net, channelVars, callbacks, publisherVars, failedOn>>

\* Mutant of DialSucceeds: a client that is there is kept.
DialKeepsClient ==
  /\ cpc = "dialing"
  /\ conn' = attempt
  /\ client' = IF client = 0 THEN attempt ELSE client
  /\ pubFailures' = 0
  /\ net' = [net EXCEPT ![attempt] = "open"]
  /\ cpc' = "handshake"
  /\ UNCHANGED <<attempt, channelVars, callbacks, publisherVars, failedOn>>

\* The connection is c's, a new library client is made, the count starts anew.
DialSucceeds ==
  /\ cpc = "dialing"
  /\ conn' = attempt
  /\ client' = attempt
  /\ pubFailures' = 0
  /\ net' = [net EXCEPT ![attempt] = "open"]
  /\ cpc' = "handshake"
  /\ UNCHANGED <<attempt, channelVars, callbacks, publisherVars, failedOn>>

\* The CONNECT fails or is rejected: the connection is closed before the
\* library has started to watch it.
HandshakeFails ==
  /\ cpc = "handshake"
  /\ net' = [net EXCEPT ![attempt] = "none"]
  /\ cpc' = "idle"
  /\ UNCHANGED <<clientVars, channelVars, callbacks, publisherVars, failedOn>>

\* mu is released, runSession goes on.
HandshakeSucceeds ==
  /\ cpc = "handshake"
  /\ cpc' = "session"
  /\ UNCHANGED <<clientVars, net, channelVars, callbacks, publisherVars, failedOn>>

\* runSession gives the session up (a Subscribe failed): Disconnect closes the
\* channel without a reason.
Disconnect ==
  /\ cpc = "session"
  /\ net' = [net EXCEPT ![attempt] = "closed"]
  /\ released' = released \cup {attempt}
  /\ closed' = closed \cup {attempt}
  /\ cpc' = "idle"
  /\ UNCHANGED <<clientVars, reason, callbacks, publisherVars, failedOn>>

\* runSession's loop finds its channel closed and returns the reason.
SessionEnds ==
  /\ cpc = "session"
  /\ attempt \in closed
  /\ cpc' = "idle"
  /\ UNCHANGED <<clientVars, net, channelVars, callbacks, publisherVars, failedOn>>

-----------------------------------------------------------------------------
(* The network and the client library *)

\* The connection is black-holed: no packet, no reset.
BlackHole ==
  /\ cpc = "session"
  /\ net[attempt] = "open"
  /\ net' = [net EXCEPT ![attempt] = "dead"]
  /\ UNCHANGED <<clientVars, cpc, channelVars, callbacks, publisherVars, failedOn>>

\* Mutant of SetReason: the last reason wins.
SetReasonAlways(a, r) == reason' = [reason EXCEPT ![a] = r]

\* disconnectState.set: the first reason wins.
SetReason(a, r) ==
  reason' = IF reason[a] = "none" THEN [reason EXCEPT ![a] = r] ELSE reason

\* Mutant of OnClientError: closes the channel first.
OnClientErrorClosesFirst(a) ==
  /\ net[a] \in {"dead", "closed"}
  /\ a \notin released
  /\ ~ \E r \in Reasons : <<a, r>> \in callbacks
  /\ reason[a] \notin {"error", "server"}
  /\ net' = [net EXCEPT ![a] = "closed"]
  /\ closed' = closed \cup {a}
  /\ callbacks' = callbacks \cup {<<a, "error">>}
  /\ UNCHANGED <<clientVars, cpc, reason, released, publisherVars, failedOn>>

\* The library's keepalive or a failed read or write finds a connection
\* unusable: first statement of OnClientError.
OnClientError(a) ==
  /\ net[a] \in {"dead", "closed"}
  /\ a \notin released
  /\ ~ \E r \in Reasons : <<a, r>> \in callbacks
  /\ reason[a] \notin {"error", "server"}
  /\ net' = [net EXCEPT ![a] = "closed"]
  /\ SetReason(a, "error")
  /\ callbacks' = callbacks \cup {<<a, "error">>}
  /\ UNCHANGED <<clientVars, cpc, closed, released, publisherVars, failedOn>>

\* The broker ends the session: first statement of OnServerDisconnect.
OnServerDisconnect ==
  /\ cpc = "session"
  /\ net[attempt] = "open"
  /\ net' = [net EXCEPT ![attempt] = "closed"]
  /\ SetReason(attempt, "server")
  /\ callbacks' = callbacks \cup {<<attempt, "server">>}
  /\ UNCHANGED <<clientVars, cpc, closed, released, publisherVars, failedOn>>

\* The callback's second statement: closeOnce.
CallbackCloses(c) ==
  /\ c \in callbacks
  /\ callbacks' = callbacks \ {c}
  /\ closed' = closed \cup {c[1]}
  /\ UNCHANGED <<clientVars, cpc, net, reason, released, publisherVars, failedOn>>

-----------------------------------------------------------------------------
(* Publish of goroutine p *)

\* The client is read under mu.  Without one the call fails and is not counted.
BeginPublish(p) ==
  /\ ppc[p] = "idle"
  /\ MuFree
  /\ client # 0
  /\ ppc' = [ppc EXCEPT ![p] = "publishing"]
  /\ pconn' = [pconn EXCEPT ![p] = client]
  /\ UNCHANGED <<clientVars, cpc, net, channelVars, callbacks, failedOn>>

\* The library's Publish succeeds only on an open connection.
PublishSucceeds(p) ==
  /\ ppc[p] = "publishing"
  /\ net[pconn[p]] = "open"
  /\ ppc' = [ppc EXCEPT ![p] = "succeeded"]
  /\ UNCHANGED <<clientVars, cpc, net, channelVars, callbacks, pconn, failedOn>>

\* It fails: on a connection that is gone or, when its context times out, on any.
PublishFails(p) ==
  /\ ppc[p] = "publishing"
  /\ ppc' = [ppc EXCEPT ![p] = "failed"]
  /\ failedOn' = failedOn \cup {pconn[p]}
  /\ UNCHANGED <<clientVars, cpc, net, channelVars, callbacks, pconn>>

\* A success resets the count.
RecordSuccess(p) ==
  /\ ppc[p] = "succeeded"
  /\ MuFree
  /\ pubFailures' = 0
  /\ ppc' = [ppc EXCEPT ![p] = "idle"]
  /\ UNCHANGED <<attempt, client, conn, cpc, net, channelVars, callbacks, pconn,
                 failedOn>>

\* Mutant of RecordFailure: the counter is not reset by a trip.
RecordFailureKeepsCount(p) ==
  /\ ppc[p] = "failed"
  /\ MuFree
  /\ pubFailures' = pubFailures + 1
  /\ ppc' = [ppc EXCEPT ![p] = IF pubFailures' = MaxFailures THEN "tripping" ELSE "idle"]
  /\ UNCHANGED <<attempt, client, conn, cpc, net, channelVars, callbacks, pconn,
                 failedOn>>

\* One more consecutive failure; the one that reaches the limit trips.
RecordFailure(p) ==
  /\ ppc[p] = "failed"
  /\ MuFree
  /\ IF pubFailures + 1 >= MaxFailures
       THEN pubFailures' = 0 /\ ppc' = [ppc EXCEPT ![p] = "tripping"]
       ELSE pubFailures' = pubFailures + 1 /\ ppc' = [ppc EXCEPT ![p] = "idle"]
  /\ UNCHANGED <<attempt, client, conn, cpc, net, channelVars, callbacks, pconn,
                 failedOn>>

\* tripDisconnect reads what is current now and closes the connection, which
\* may be that of an earlier attempt if a later one could not dial.
TripClosesConn(p) ==
  /\ ppc[p] = "tripping"
  /\ MuFree
  /\ net' = IF net[conn] = "none" THEN net ELSE [net EXCEPT ![conn] = "closed"]
  /\ pconn' = [pconn EXCEPT ![p] = attempt]
  /\ ppc' = [ppc EXCEPT ![p] = "declaring"]
  /\ UNCHANGED <<clientVars, cpc, channelVars, callbacks, failedOn>>

\* Mutant of TripSetsReason: leaves the rest to the library's callback.
TripLeavesItToPaho(p) ==
  /\ ppc[p] = "declaring"
  /\ ppc' = [ppc EXCEPT ![p] = "idle"]
  /\ UNCHANGED <<clientVars, cpc, net, channelVars, callbacks, pconn, failedOn>>

\* ... records the reason in the current holder,
TripSetsReason(p) ==
  /\ ppc[p] = "declaring"
  /\ SetReason(pconn[p], "publish")
  /\ ppc' = [ppc EXCEPT ![p] = "closing"]
  /\ UNCHANGED <<clientVars, cpc, net, closed, released, callbacks, pconn, failedOn>>

\* ... and closes the current channel, unless that is done.
TripClosesChannel(p) ==
  /\ ppc[p] = "closing"
  /\ closed' = closed \cup {pconn[p]}
  /\ ppc' = [ppc EXCEPT ![p] = "idle"]
  /\ UNCHANGED <<clientVars, cpc, net, reason, released, callbacks, pconn, failedOn>>

-----------------------------------------------------------------------------
ConnectSteps ==
  BeginConnect \/ DialFails \/ DialSucceeds \/ HandshakeFails \/ HandshakeSucceeds

Publisher(p) ==
  \/ BeginPublish(p) \/ PublishSucceeds(p) \/ PublishFails(p)
  \/ RecordSuccess(p) \/ RecordFailure(p)
  \/ TripClosesConn(p) \/ TripSetsReason(p) \/ TripClosesChannel(p)

Next ==
  \/ ConnectSteps
  \/ Disconnect
  \/ SessionEnds
  \/ BlackHole
  \/ \E a \in Attempts : OnClientError(a)
  \/ OnServerDisconnect
  \/ \E c \in callbacks : CallbackCloses(c)
  \/ \E p \in Publishers : Publisher(p)

Spec == Init /\ [][Next]_vars

\* Connect returns, callbacks finish, tickers and commands go on publishing
\* and each publish has a deadline.  The keepalive (OnClientError) is given
\* no fairness: the failure counter is there because it comes too late.
FairSpec ==
  /\ Spec
  /\ WF_vars(ConnectSteps)
  /\ WF_vars(SessionEnds)
  /\ WF_vars(\E c \in callbacks : CallbackCloses(c))
  /\ \A p \in Publishers : WF_vars(Publisher(p))

-----------------------------------------------------------------------------
(* Properties *)

\* Every variable has its type; a full count has tripped and was reset.
TypeOK ==
  /\ attempt \in 0 .. MaxAttempts
  /\ {client, conn} \subseteq 0 .. attempt
  /\ pubFailures \in 0 .. MaxFailures - 1
  /\ cpc \in {"idle", "dialing", "handshake", "session"}
  /\ net \in [Attempts -> {"none", "open", "dead", "closed"}]
  /\ reason \in [Attempts -> Reasons \cup {"none"}]
  /\ closed \subseteq Attempts /\ released \subseteq closed
  /\ callbacks \subseteq Attempts \X Reasons
  /\ ppc \in [Publishers -> {"idle", "publishing", "succeeded", "failed",
                             "tripping", "declaring", "closing"}]
  /\ pconn \in [Publishers -> 0 .. attempt]
  /\ failedOn \subseteq 0 .. attempt

\* When runSession finds its channel closed by a callback or a trip, the
\* reason is there to be logged.
ClosedHasReason == \A a \in closed : a \in released \/ reason[a] # "none"

\* The first reason stays, whatever a second callback or a trip reports.
FirstReasonWins ==
  [][\A a \in Attempts : reason[a] # "none" => reason'[a] = reason[a]]_vars

\* A session works with its own client and connection, although a failed
\* attempt before it left an older one in place.
SessionOwnsClient == cpc = "session" => client = attempt /\ conn = attempt

\* A black-holed session is declared dead by its failing publishes alone.
DeadSessionEnds ==
  \A a \in Attempts :
    (attempt = a /\ cpc = "session" /\ net[a] = "dead") ~> a \in closed

\* Claimed: only a connection on which publishes fail is force-tripped: failures of a
\* lost connection do not count towards the next one's limit.
HealthyNotTripped ==
  [][\A p \in Publishers :
       ppc[p] = "tripping" /\ ppc'[p] = "declaring" /\ cpc = "session"
         => conn \in failedOn]_vars

=============================================================================
