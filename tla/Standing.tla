------------------------------ MODULE Standing ------------------------------
(***************************************************************************)
(* Standing registrations: ubus_watch and ubus_listen start a goroutine    *)
(* that polls or streams until it is told to stop or the session ends.     *)
(* Both use the registry of stopregistry.go, a map from a key (watch_id,   *)
(* or one made of the target) to the goroutine's stop channel.  The        *)
(* backend sends a registration again every report cycle, so a second      *)
(* registration of a key must be a no-op while the first one runs.         *)
(*                                                                         *)
(* A task is one such goroutine; its number stands for its stop channel.   *)
(* Commands are handled from the first Subscribe of a session on, thus     *)
(* before runSession publishes the session's disconnect channel, and a     *)
(* handler that was queued may run after its session is gone.              *)
(***************************************************************************)
EXTENDS Integers, FiniteSets

CONSTANTS
  Keys,          \* the registry keys
  NoKey,         \* the key of a task not started
  MaxTasks,      \* bound on the goroutines started
  MaxSessions,   \* bound on the sessions
  MaxStops,      \* bound on the effective unwatch/unlisten commands
  MaxLate        \* bound on the handlers run after the connection is lost

ASSUME StandingAssumption ==
  /\ NoKey \notin Keys
  /\ MaxTasks \in Nat
  /\ MaxSessions \in Nat
  /\ MaxStops \in Nat
  /\ MaxLate \in Nat

Tasks == 1 .. MaxTasks

VARIABLES
  sess,              \* the last session, 0 before the first
  up,                \* its connection is not known to be lost
  mpc,               \* runSession: "idle", "setup" or "loop"
  sessionDisconnCh,  \* Agent.sessionDisconnCh: a session's channel or 0 (nil)
  registry,          \* Agent.watches / Agent.listens: the stop channel, or 0
  closing,           \* stop channels taken out and about to be closed
  stopped,           \* closed stop channels
  tpc,               \* where a task is
  tkey,              \* its key
  tchan,             \* its disconnCh
  tsess,             \* the session in which it was started
  stops,             \* effective stop commands so far
  late               \* handlers run late so far

sessionVars == <<sess, up, mpc, sessionDisconnCh>>
stopVars == <<closing, stopped, stops>>
taskVars == <<tpc, tkey, tchan, tsess>>
vars == <<sessionVars, registry, stopVars, taskVars, late>>

NewTask == {t \in Tasks : tpc[t] = "none" /\ \A u \in Tasks : u < t => tpc[u] # "none"}

\* The disconnect channel of session s is closed.
ChanClosed(s) == s < sess \/ ~ up

Init ==
  /\ sess = 0 /\ up = FALSE
  /\ mpc = "idle" /\ sessionDisconnCh = 0
  /\ registry = [k \in Keys |-> 0]
  /\ closing = {} /\ stopped = {} /\ stops = 0
  /\ tpc = [t \in Tasks |-> "none"]
  /\ tkey = [t \in Tasks |-> NoKey]
  /\ tchan = [t \in Tasks |-> 0]
  /\ tsess = [t \in Tasks |-> 0]
  /\ late = 0

-----------------------------------------------------------------------------
(* The session, as far as tasks see it *)

\* Connect and the Subscribe after which commands arrive.
Connect ==
  /\ mpc = "idle"
  /\ sess < MaxSessions
  /\ sess' = sess + 1
  /\ up' = TRUE
  /\ mpc' = "setup"
  /\ UNCHANGED <<sessionDisconnCh, registry, stopVars, taskVars, late>>

\* A later Subscribe fails: the client disconnects.  Not in the last session.
SetupFails ==
  /\ mpc = "setup"
  /\ sess < MaxSessions
  /\ up' = FALSE
  /\ mpc' = "idle"
  /\ UNCHANGED <<sess, sessionDisconnCh, registry, stopVars, taskVars, late>>

\* setSessionDisconnCh at the end of the setup.
EnterLoop ==
  /\ mpc = "setup"
  /\ sessionDisconnCh' = sess
  /\ mpc' = "loop"
  /\ UNCHANGED <<sess, up, registry, stopVars, taskVars, late>>

\* The connection is lost and its channel closed.  The last session modelled
\* stays up, so that the liveness properties speak of a network that recovers.
ConnectionLost ==
  /\ up
  /\ sess < MaxSessions
  /\ up' = FALSE
  /\ UNCHANGED <<sess, mpc, sessionDisconnCh, registry, stopVars, taskVars, late>>

\* Mutant of SessionEnds: the deferred call is missing.
SessionEndsKeepsChannel ==
  /\ mpc = "loop"
  /\ ~ up
  /\ mpc' = "idle"
  /\ UNCHANGED <<sess, up, sessionDisconnCh, registry, stopVars, taskVars, late>>

\* runSession sees the closed channel; its deferred call clears the field.
SessionEnds ==
  /\ mpc = "loop"
  /\ ~ up
  /\ mpc' = "idle"
  /\ sessionDisconnCh' = 0
  /\ UNCHANGED <<sess, up, registry, stopVars, taskVars, late>>

-----------------------------------------------------------------------------
(* Command handlers *)

\* A command arrived while connected; its handler runs then or later.
Handling ==
  /\ sess > 0
  /\ IF up THEN late' = late ELSE late < MaxLate /\ late' = late + 1

\* handleUbusWatch, handleUbusListen: an unregistered key is registered and
\* its goroutine started; a registered one changes nothing.
StartOrNoop(k) ==
  \E t \in NewTask :
    /\ Handling
    /\ registry[k] = 0
    /\ registry' = [registry EXCEPT ![k] = t]
    /\ tpc' = [tpc EXCEPT ![t] = "started"]
    /\ tkey' = [tkey EXCEPT ![t] = k]
    /\ tsess' = [tsess EXCEPT ![t] = sess]
    /\ UNCHANGED <<sessionVars, stopVars, tchan>>

\* Mutant of StopKey: the key stays in the map.
StopKeyKeeps(k) ==
  /\ Handling
  /\ registry[k] # 0
  /\ stops < MaxStops
  /\ stops' = stops + 1
  /\ closing' = closing \cup {registry[k]}
  /\ UNCHANGED <<sessionVars, registry, stopped, taskVars>>

\* handleUbusUnwatch, handleUbusUnlisten: the key is taken out of the map; an
\* unregistered one changes nothing.
StopKey(k) ==
  /\ Handling
  /\ registry[k] # 0
  /\ stops < MaxStops
  /\ stops' = stops + 1
  /\ registry' = [registry EXCEPT ![k] = 0]
  /\ closing' = closing \cup {registry[k]}
  /\ UNCHANGED <<sessionVars, stopped, taskVars>>

\* ... and its stop channel is closed outside the lock.
CloseStop(t) ==
  /\ t \in closing
  /\ closing' = closing \ {t}
  /\ stopped' = stopped \cup {t}
  /\ UNCHANGED <<sessionVars, registry, stops, taskVars, late>>

-----------------------------------------------------------------------------
(* The goroutine of task t: watchLoop, runUbusListen *)

\* getSessionDisconnCh, once.
ReadChannel(t) ==
  /\ tpc[t] = "started"
  /\ tchan' = [tchan EXCEPT ![t] = sessionDisconnCh]
  /\ tpc' = [tpc EXCEPT ![t] = "waiting"]
  /\ UNCHANGED <<sessionVars, registry, stopVars, tkey, tsess, late>>

\* The interval is over: a tick, however long it takes.  (For a listen: ubus
\* is being asked for its objects.)  Where several cases are ready select
\* takes any.
Tick(t) ==
  /\ tpc[t] = "waiting"
  /\ tpc' = [tpc EXCEPT ![t] = "ticking"]
  /\ UNCHANGED <<sessionVars, registry, stopVars, tkey, tchan, tsess, late>>

TickDone(t) ==
  /\ tpc[t] = "ticking"
  /\ tpc' = [tpc EXCEPT ![t] = "waiting"]
  /\ UNCHANGED <<sessionVars, registry, stopVars, tkey, tchan, tsess, late>>

\* Mutant of Leave: only a lost session ends the loop.
LeaveOnDisconnect(t) ==
  /\ tpc[t] = "waiting"
  /\ tchan[t] # 0 /\ ChanClosed(tchan[t])
  /\ tpc' = [tpc EXCEPT ![t] = "leaving"]
  /\ UNCHANGED <<sessionVars, registry, stopVars, tkey, tchan, tsess, late>>

\* The stop channel or the session's channel is closed.  A nil channel is
\* never ready.
Leave(t) ==
  /\ tpc[t] = "waiting"
  /\ t \in stopped \/ (tchan[t] # 0 /\ ChanClosed(tchan[t]))
  /\ tpc' = [tpc EXCEPT ![t] = "leaving"]
  /\ UNCHANGED <<sessionVars, registry, stopVars, tkey, tchan, tsess, late>>

\* Mutant of CleanupOwnEntry: deletes the key, whoever owns it.
CleanupAnyEntry(t) ==
  /\ tpc[t] = "leaving"
  /\ tpc' = [tpc EXCEPT ![t] = "done"]
  /\ registry' = [registry EXCEPT ![tkey[t]] = 0]
  /\ UNCHANGED <<sessionVars, stopVars, tkey, tchan, tsess, late>>

\* Mutant of CleanupOwnEntry: the goroutine returns without it.
NoCleanup(t) ==
  /\ tpc[t] = "leaving"
  /\ tpc' = [tpc EXCEPT ![t] = "done"]
  /\ UNCHANGED <<sessionVars, registry, stopVars, tkey, tchan, tsess, late>>

\* The deferred call, after the subprocess is stopped and its events are
\* published: the key is deleted if it is still this task's.
CleanupOwnEntry(t) ==
  /\ tpc[t] = "leaving"
  /\ tpc' = [tpc EXCEPT ![t] = "done"]
  /\ registry' = IF registry[tkey[t]] = t
                   THEN [registry EXCEPT ![tkey[t]] = 0] ELSE registry
  /\ UNCHANGED <<sessionVars, stopVars, tkey, tchan, tsess, late>>

-----------------------------------------------------------------------------
Session == Connect \/ SetupFails \/ EnterLoop \/ SessionEnds

Task(t) ==
  ReadChannel(t) \/ Tick(t) \/ TickDone(t) \/ Leave(t) \/ CleanupOwnEntry(t)

Next ==
  \/ Session
  \/ ConnectionLost
  \/ \E k \in Keys : StartOrNoop(k) \/ StopKey(k)
  \/ \E t \in Tasks : CloseStop(t) \/ Task(t)

Spec == Init /\ [][Next]_vars

\* Goroutines run, a select whose channel stays ready takes it in the end,
\* and the backend sends every registration again and again.
FairSpec ==
  /\ Spec
  /\ WF_vars(Session)
  /\ \A k \in Keys : WF_vars(StartOrNoop(k))
  /\ \A t \in Tasks :
       /\ WF_vars(CloseStop(t))
       /\ WF_vars(ReadChannel(t) \/ TickDone(t) \/ CleanupOwnEntry(t))
       /\ SF_vars(Leave(t))

-----------------------------------------------------------------------------
(* Properties *)

\* Every variable has its type; the field holds the channel of the session
\* whose loop runs, and no other.
TypeOK ==
  /\ sess \in 0 .. MaxSessions
  /\ up \in BOOLEAN
  /\ mpc \in {"idle", "setup", "loop"}
  /\ sessionDisconnCh = IF mpc = "loop" THEN sess ELSE 0
  /\ registry \in [Keys -> 0 .. MaxTasks]
  /\ closing \subseteq Tasks
  /\ stopped \subseteq Tasks
  /\ tpc \in [Tasks -> {"none", "started", "waiting", "ticking", "leaving", "done"}]
  /\ tkey \in [Tasks -> Keys \cup {NoKey}]
  /\ tchan \in [Tasks -> 0 .. MaxSessions]
  /\ tsess \in [Tasks -> 0 .. MaxSessions]
  /\ stops \in 0 .. MaxStops
  /\ late \in 0 .. MaxLate

Running(t) == tpc[t] \in {"started", "waiting", "ticking"}

\* A goroutine that goes on polling can be stopped: it is the one registered
\* for its key, or its stop channel is closed or about to be.  So no key has
\* two goroutines that poll unbidden.
NoOrphan ==
  \A t \in Tasks :
    Running(t) => registry[tkey[t]] = t \/ t \in closing \/ t \in stopped

\* A registered key has a goroutine of that key that has not returned and was
\* not told to stop.  The no-op answer to a repeated registration rests on it; one
\* that leaves because its session is lost stays registered until its cleanup.
RegisteredAlive ==
  \A k \in Keys :
    LET t == registry[k] IN
    t # 0 => /\ tpc[t] \notin {"none", "done"}
             /\ tkey[t] = k
             /\ t \notin closing \cup stopped

\* No stop channel is closed twice (a panic), although handlers of two
\* sessions may overlap.
StopClosedOnce == closing \cap stopped = {}

\* A goroutine told to stop returns.
StopStops == \A t \in Tasks : t \in stopped ~> tpc[t] = "done"

\* Whatever sessions and stop commands came before, a key the backend goes on
\* registering ends up with a running goroutine.
KeepsPolling ==
  \A k \in Keys : <>[](registry[k] # 0 /\ Running(registry[k]))

\* Claimed: a watch runs "until a matching ubus_unwatch arrives or the session ends":
\* one started in an earlier session is over in the end.
EndsWithSession ==
  \A t \in Tasks : tpc[t] # "none" /\ tsess[t] < sess ~> tpc[t] = "done"

=============================================================================
