----------------------------- MODULE ConfigApply -----------------------------
(***************************************************************************)
(* The commit-confirm core of the agent: the MQTT session lifecycle of     *)
(* Agent.runSession, the dispatch and broker redelivery of config_apply    *)
(* and config_confirm, handleConfigApply, its connectivity watchdog, the   *)
(* rollback, and the deferred rollback ack.                                *)
(*                                                                         *)
(* Processes: the Run goroutine (mpc), one handler invocation per          *)
(* config_apply that passes the duplicate check (hpc), the watchdog        *)
(* goroutine each of them starts (wpc), and the environment: the server,   *)
(* the broker's queue and the network.                                     *)
(*                                                                         *)
(* A job is one run of handleConfigApply past the duplicate check together *)
(* with its watchdog; jobs are numbered in the order they start.  A        *)
(* session is one successful Connect; its number stands for its disconnect *)
(* channel, and 0 stands for a nil channel.                                *)
(***************************************************************************)
EXTENDS Integers, Sequences, FiniteSets

CONSTANTS
  Cmds,         \* cmd_ids of the config_apply commands
  NoCmd,        \* the empty cmd_id
  Pkgs,         \* UCI packages
  Touches,      \* Touches[c]: the packages in the payload of c
  Base,         \* the content of a package before any command
  MaxSeen,      \* maxSeenConfigApplyIDs
  Window,       \* how many unacknowledged commands the server allows itself
  MaxJobs,      \* bound on handler invocations
  MaxSessions,  \* bound on successful connects
  MaxCrashes,   \* bound on restarts of the process
  DiskFaults    \* whether writing or removing a file may fail

ASSUME ConstantsAssumption ==
  /\ NoCmd \notin Cmds
  /\ Base \notin Cmds
  /\ Touches \in [Cmds -> SUBSET Pkgs]
  /\ MaxSeen \in Nat \ {0}
  /\ Window \in Nat \ {0}
  /\ MaxJobs \in Nat
  /\ MaxSessions \in Nat
  /\ MaxCrashes \in Nat
  /\ DiskFaults \in BOOLEAN

Jobs == 1 .. MaxJobs
Sessions == 1 .. MaxSessions
Configs == [Pkgs -> Cmds \cup {Base}]
Messages == [type : {"config_apply", "config_confirm"}, cmd : Cmds]

VARIABLES
  link,              \* the current connection: "up", "dead" (nobody noticed yet), "closed"
  sess,              \* number of the last established session
  mpc,               \* where the Run goroutine is in runSession
  sessionDisconnCh,  \* Agent.sessionDisconnCh
  mainAck,           \* the deferred ack the Run goroutine is publishing, or 0
  queue,             \* the commands the broker holds un-PUBACKed, oldest first
  sent,              \* the messages the server has published
  acks,              \* the acks the server has received: <<job, status>>
  dispatcher,        \* whether the session's dispatch goroutine is "free" or "handling"
  delivered,         \* messages handled in this session whose PUBACK is under way
  seen,              \* Agent.seenConfigApplyOrder
  confirmCmdID,      \* Agent.confirmCmdID
  confirmCh,         \* Agent.confirmCh: the job whose channel it is, or 0
  watchdogActive,    \* Agent.watchdogActive
  pendingAck,        \* Agent.pendingAck: the job it reports on, or 0
  njobs,             \* jobs started so far
  hpc,               \* where the handler of a job is
  jcmd,              \* cmd.CmdID of a job
  backup,            \* backupConfigFiles' result of a job
  committed,         \* the packages Applier.Apply committed for a job
  wpc,               \* where the watchdog goroutine of a job is
  watched,           \* the watchdog's disconnCh
  confirmed,         \* whether the job's confirm channel is closed
  verdict,           \* what the agent decided about a job
  disk,              \* the committed content of /etc/config
  crashes            \* restarts so far

netVars == <<link, sess>>
mainVars == <<mpc, sessionDisconnCh, mainAck>>
brokerVars == <<queue, sent, acks>>
confirmVars == <<confirmCmdID, confirmCh>>
handlerVars == <<hpc, jcmd, backup, committed>>
watchdogVars == <<wpc, watched, confirmed, verdict>>
dispatchVars == <<dispatcher, delivered>>
vars == <<netVars, mainVars, brokerVars, dispatchVars, seen, confirmVars,
          watchdogActive, pendingAck, njobs, handlerVars, watchdogVars,
          disk, crashes>>

-----------------------------------------------------------------------------
(* Helpers *)

\* The connection of session s is known to be lost: its channel is closed.
ChanClosed(s) == s < sess \/ link = "closed"

\* The recorded command ids.
SeenIDs == {seen[i] : i \in DOMAIN seen}

\* Mutant of Remember: the id is looked up and never recorded.
RememberNothing(c) == seen

\* wasConfigApplySeen's record after an unseen id: oldest dropped beyond MaxSeen.
Remember(c) ==
  IF Len(seen) < MaxSeen THEN Append(seen, c) ELSE Append(Tail(seen), c)

\* The commands the server has sent and got no ack for.
InFlight ==
  {m.cmd : m \in {n \in sent : n.type = "config_apply"}}
    \ {jcmd[a[1]] : a \in acks}

\* Some watchdog goroutine has been started for j and has not returned.
Running(j) == wpc[j] \in {"start", "waiting", "ackok", "restore", "restored", "exit"}

Init ==
  /\ link = "closed" /\ sess = 0
  /\ mpc = "idle" /\ sessionDisconnCh = 0 /\ mainAck = 0
  /\ queue = <<>> /\ sent = {} /\ acks = {}
  /\ dispatcher = "free" /\ delivered = 0
  /\ seen = <<>>
  /\ confirmCmdID = NoCmd /\ confirmCh = 0
  /\ watchdogActive = FALSE
  /\ pendingAck = 0
  /\ njobs = 0
  /\ hpc = [j \in Jobs |-> "none"]
  /\ jcmd = [j \in Jobs |-> NoCmd]
  /\ backup = [j \in Jobs |-> [p \in Pkgs |-> Base]]
  /\ committed = [j \in Jobs |-> {}]
  /\ wpc = [j \in Jobs |-> "none"]
  /\ watched = [j \in Jobs |-> 0]
  /\ confirmed = [j \in Jobs |-> FALSE]
  /\ verdict = [j \in Jobs |-> "none"]
  /\ disk = [p \in Pkgs |-> Base]
  /\ crashes = 0

-----------------------------------------------------------------------------
(* The environment: server, broker and network *)

\* The server publishes a config_apply, one command per cmd_id.
SendApply(c) ==
  LET m == [type |-> "config_apply", cmd |-> c] IN
  /\ m \notin sent
  /\ Cardinality(InFlight) < Window
  /\ sent' = sent \cup {m}
  /\ queue' = Append(queue, m)
  /\ UNCHANGED <<netVars, mainVars, acks, dispatchVars, seen, confirmVars,
                 watchdogActive, pendingAck, njobs, handlerVars, watchdogVars,
                 disk, crashes>>

\* The server confirms a config_apply it has sent, at most once.
SendConfirm(c) ==
  LET m == [type |-> "config_confirm", cmd |-> c] IN
  /\ [type |-> "config_apply", cmd |-> c] \in sent
  /\ m \notin sent
  /\ sent' = sent \cup {m}
  /\ queue' = Append(queue, m)
  /\ UNCHANGED <<netVars, mainVars, acks, dispatchVars, seen, confirmVars,
                 watchdogActive, pendingAck, njobs, handlerVars, watchdogVars,
                 disk, crashes>>

\* The network drops the connection without a trace (a reload of the network
\* the apply itself caused, for instance).  The last session is stable.
ConnectionDies ==
  /\ link = "up"
  /\ sess < MaxSessions
  /\ link' = "dead"
  /\ UNCHANGED <<sess, mainVars, brokerVars, dispatchVars, seen, confirmVars,
                 watchdogActive, pendingAck, njobs, handlerVars, watchdogVars,
                 disk, crashes>>

\* paho's error callback, the keepalive or three failed publishes notice it.
ConnectionLossDetected ==
  /\ link = "dead"
  /\ link' = "closed"
  /\ UNCHANGED <<sess, mainVars, brokerVars, dispatchVars, seen, confirmVars,
                 watchdogActive, pendingAck, njobs, handlerVars, watchdogVars,
                 disk, crashes>>

\* The broker drops the queue when no client came back within the session
\* expiry interval.
SessionExpires ==
  /\ mpc = "idle"
  /\ queue # <<>>
  /\ queue' = <<>>
  /\ dispatcher' = "free" /\ delivered' = 0
  /\ UNCHANGED <<netVars, mainVars, sent, acks, seen, confirmVars,
                 watchdogActive, pendingAck, njobs, handlerVars, watchdogVars,
                 disk, crashes>>

-----------------------------------------------------------------------------
(* The Run goroutine: runSession *)

\* Connect succeeds: a new channel, a new dispatch goroutine.  A failed
\* Connect changes nothing here.
Connect ==
  /\ mpc = "idle"
  /\ sess < MaxSessions
  /\ sess' = sess + 1
  /\ link' = "up"
  /\ mpc' = "connected"
  /\ dispatcher' = "free" /\ delivered' = 0
  /\ UNCHANGED <<sessionDisconnCh, mainAck, brokerVars, seen, confirmVars,
                 watchdogActive, pendingAck, njobs, handlerVars, watchdogVars,
                 disk, crashes>>

\* The command topic's handler is registered and subscribed: from here on
\* commands are dispatched.
SubscribeCommands ==
  /\ mpc = "connected"
  /\ link = "up"
  /\ mpc' = "subscribed"
  /\ UNCHANGED <<netVars, sessionDisconnCh, mainAck, brokerVars, dispatchVars,
                 seen, confirmVars, watchdogActive, pendingAck, njobs,
                 handlerVars, watchdogVars, disk, crashes>>

\* A subscription fails: subscribeOrDisconnect disconnects and runSession
\* returns before sessionDisconnCh was ever set.
SubscribeFails ==
  /\ mpc \in {"connected", "subscribed"}
  /\ link # "up"
  /\ link' = "closed"
  /\ mpc' = "idle"
  /\ UNCHANGED <<sess, sessionDisconnCh, mainAck, brokerVars, dispatchVars, seen,
                 confirmVars, watchdogActive, pendingAck, njobs, handlerVars,
                 watchdogVars, disk, crashes>>

\* The four other topics are subscribed.
SubscribeOthers ==
  /\ mpc = "subscribed"
  /\ link = "up"
  /\ mpc' = "setup"
  /\ UNCHANGED <<netVars, sessionDisconnCh, mainAck, brokerVars, dispatchVars,
                 seen, confirmVars, watchdogActive, pendingAck, njobs,
                 handlerVars, watchdogVars, disk, crashes>>

\* The retained status has been cleared (an error is only logged) and a
\* deferred rollback ack, if any, is taken to be published.
TakeAckAtStart ==
  /\ mpc = "setup"
  /\ mpc' = "reporting"
  /\ mainAck' = pendingAck
  /\ pendingAck' = 0
  /\ UNCHANGED <<netVars, sessionDisconnCh, brokerVars, dispatchVars, seen,
                 confirmVars, watchdogActive, njobs, handlerVars, watchdogVars,
                 disk, crashes>>

\* publishInfo and publishState have been tried (their errors are only
\* logged); only now is the session's channel published to the watchdogs.
EnterLoop ==
  /\ mpc = "reporting"
  /\ mainAck = 0
  /\ mpc' = "loop"
  /\ sessionDisconnCh' = sess
  /\ UNCHANGED <<netVars, mainAck, brokerVars, dispatchVars, seen, confirmVars,
                 watchdogActive, pendingAck, njobs, handlerVars, watchdogVars,
                 disk, crashes>>

\* Mutant of Heartbeat: without the safety net for a late deferred ack.
HeartbeatInfoOnly == mpc = "loop" /\ UNCHANGED vars

\* A heartbeat tick: publishInfo, then the safety net for a deferred ack that
\* was queued after the session started.
Heartbeat ==
  /\ mpc = "loop"
  /\ mainAck = 0
  /\ pendingAck # 0
  /\ mainAck' = pendingAck
  /\ pendingAck' = 0
  /\ UNCHANGED <<netVars, mpc, sessionDisconnCh, brokerVars, dispatchVars, seen,
                 confirmVars, watchdogActive, njobs, handlerVars, watchdogVars,
                 disk, crashes>>

\* publishAck of a taken ack succeeds within its three attempts.
DeferredAckSent ==
  /\ mainAck # 0
  /\ link = "up"
  /\ acks' = acks \cup {<<mainAck, "error">>}
  /\ mainAck' = 0
  /\ UNCHANGED <<netVars, mpc, sessionDisconnCh, queue, sent, dispatchVars, seen,
                 confirmVars, watchdogActive, pendingAck, njobs, handlerVars,
                 watchdogVars, disk, crashes>>

\* All three attempts fail: publishAckPayload gives up and the ack is gone.
DeferredAckGivenUp ==
  /\ mainAck # 0
  /\ link # "up"
  /\ mainAck' = 0
  /\ UNCHANGED <<netVars, mpc, sessionDisconnCh, brokerVars, dispatchVars, seen,
                 confirmVars, watchdogActive, pendingAck, njobs, handlerVars,
                 watchdogVars, disk, crashes>>

\* The select loop sees the closed channel; the deferred call clears
\* sessionDisconnCh and Run goes on to the next connect.
SessionEnds ==
  /\ mpc = "loop"
  /\ mainAck = 0
  /\ link = "closed"
  /\ mpc' = "idle"
  /\ sessionDisconnCh' = 0
  /\ UNCHANGED <<netVars, mainAck, brokerVars, dispatchVars, seen, confirmVars,
                 watchdogActive, pendingAck, njobs, handlerVars, watchdogVars,
                 disk, crashes>>

-----------------------------------------------------------------------------
(* The dispatch goroutine of the current session *)

\* The next message the session has not handled yet.
Current == queue[delivered + 1]

CanDispatch(type) ==
  /\ mpc \in {"subscribed", "setup", "reporting", "loop"}
  /\ link = "up"
  /\ dispatcher = "free"
  /\ delivered < Len(queue)
  /\ Current.type = type

\* Mutant of DropDuplicate: returns without the message being acknowledged.
DropDuplicateUnacked ==
  /\ CanDispatch("config_apply")
  /\ Current.cmd \in SeenIDs
  /\ UNCHANGED vars

\* handleConfigApply finds the cmd_id in its record and returns.
DropDuplicate ==
  /\ CanDispatch("config_apply")
  /\ Current.cmd \in SeenIDs
  /\ delivered' = delivered + 1
  /\ UNCHANGED <<netVars, mainVars, brokerVars, dispatcher, seen, confirmVars,
                 watchdogActive, pendingAck, njobs, handlerVars, watchdogVars,
                 disk, crashes>>

\* handleConfigApply records an unseen cmd_id and goes on.
StartApply ==
  LET c == Current.cmd
      j == njobs + 1
  IN
  /\ CanDispatch("config_apply")
  /\ c \notin SeenIDs
  /\ njobs < MaxJobs
  /\ seen' = Remember(c)
  /\ njobs' = j
  /\ jcmd' = [jcmd EXCEPT ![j] = c]
  /\ hpc' = [hpc EXCEPT ![j] = "begun"]
  /\ dispatcher' = "handling"
  /\ UNCHANGED <<netVars, mainVars, brokerVars, delivered, confirmVars,
                 watchdogActive, pendingAck, backup, committed, watchdogVars,
                 disk, crashes>>

\* Mutant of HandleConfirm: the registration is not cleared.
HandleConfirmStaysArmed ==
  /\ CanDispatch("config_confirm")
  /\ IF confirmCmdID = Current.cmd
       THEN confirmed' = [confirmed EXCEPT ![confirmCh] = TRUE]
       ELSE UNCHANGED confirmed
  /\ delivered' = delivered + 1
  /\ UNCHANGED <<netVars, mainVars, brokerVars, dispatcher, seen, confirmVars,
                 watchdogActive, pendingAck, njobs, handlerVars, wpc, watched,
                 verdict, disk, crashes>>

\* Mutant of HandleConfirm: the cmd_id is not compared.
HandleAnyConfirm ==
  /\ CanDispatch("config_confirm")
  /\ IF confirmCh # 0
       THEN /\ confirmed' = [confirmed EXCEPT ![confirmCh] = TRUE]
            /\ confirmCmdID' = NoCmd
            /\ confirmCh' = 0
       ELSE UNCHANGED <<confirmed, confirmVars>>
  /\ delivered' = delivered + 1
  /\ UNCHANGED <<netVars, mainVars, brokerVars, dispatcher, seen,
                 watchdogActive, pendingAck, njobs, handlerVars, wpc, watched,
                 verdict, disk, crashes>>

\* handleConfigConfirm: signalWatchdogConfirm closes the channel of the
\* watchdog registered under this cmd_id, if there is one.
HandleConfirm ==
  /\ CanDispatch("config_confirm")
  /\ IF confirmCmdID = Current.cmd
       THEN /\ confirmed' = [confirmed EXCEPT ![confirmCh] = TRUE]
            /\ confirmCmdID' = NoCmd
            /\ confirmCh' = 0
       ELSE UNCHANGED <<confirmed, confirmVars>>
  /\ delivered' = delivered + 1
  /\ UNCHANGED <<netVars, mainVars, brokerVars, dispatcher, seen,
                 watchdogActive, pendingAck, njobs, handlerVars, wpc, watched,
                 verdict, disk, crashes>>

\* Mutant of PubAckArrives: acknowledges a message nobody has handled.
PubAckUnhandled ==
  /\ link = "up"
  /\ queue # <<>>
  /\ queue' = Tail(queue)
  /\ delivered' = delivered - 1
  /\ UNCHANGED <<netVars, mainVars, sent, acks, dispatcher, seen, confirmVars,
                 watchdogActive, pendingAck, njobs, handlerVars, watchdogVars,
                 disk, crashes>>

\* The oldest PUBACK under way reaches the broker.
PubAckArrives ==
  /\ link = "up"
  /\ delivered > 0
  /\ queue' = Tail(queue)
  /\ delivered' = delivered - 1
  /\ UNCHANGED <<netVars, mainVars, sent, acks, dispatcher, seen, confirmVars,
                 watchdogActive, pendingAck, njobs, handlerVars, watchdogVars,
                 disk, crashes>>

\* The broker resumes the session right after the CONNACK; a message that
\* arrives before Subscribe has registered the handler is acknowledged by the
\* client library and handled by nobody.
UnroutedDelivery ==
  /\ mpc = "connected"
  /\ link = "up"
  /\ queue # <<>>
  /\ queue' = Tail(queue)
  /\ UNCHANGED <<netVars, mainVars, sent, acks, dispatchVars, seen, confirmVars,
                 watchdogActive, pendingAck, njobs, handlerVars, watchdogVars,
                 disk, crashes>>

-----------------------------------------------------------------------------
(* handleConfigApply of job j, past the duplicate check *)

\* The handler returns.  A dispatch goroutine that is handling is handling the
\* newest job; the handler of a lost session has no PUBACK to send.
ReturnFrom(j) ==
  IF dispatcher = "handling" /\ j = njobs
    THEN dispatcher' = "free" /\ delivered' = delivered + 1
    ELSE UNCHANGED dispatchVars

\* Mutant of BackUp: keeps a backup taken at startup.
BackUpOnce(j) ==
  /\ hpc[j] = "begun"
  /\ hpc' = [hpc EXCEPT ![j] = "backed_up"]
  /\ UNCHANGED <<netVars, mainVars, brokerVars, dispatchVars, seen, confirmVars,
                 watchdogActive, pendingAck, njobs, jcmd, backup, committed,
                 watchdogVars, disk, crashes>>

\* decodeOrAck and backupConfigFiles succeed.
BackUp(j) ==
  /\ hpc[j] = "begun"
  /\ backup' = [backup EXCEPT ![j] = disk]
  /\ hpc' = [hpc EXCEPT ![j] = "backed_up"]
  /\ UNCHANGED <<netVars, mainVars, brokerVars, dispatchVars, seen, confirmVars,
                 watchdogActive, pendingAck, njobs, jcmd, committed,
                 watchdogVars, disk, crashes>>

\* Mutant of RejectPayload: the return after the error ack is missing.
RejectAndGoOn(j) ==
  /\ hpc[j] = "begun"
  /\ hpc' = [hpc EXCEPT ![j] = "backed_up"]
  /\ verdict' = [verdict EXCEPT ![j] = "failed"]
  /\ UNCHANGED <<netVars, mainVars, brokerVars, dispatchVars, seen, confirmVars,
                 watchdogActive, pendingAck, njobs, jcmd, backup, committed,
                 wpc, watched, confirmed, disk, crashes>>

\* The payload does not decode, or a file cannot be read: nothing changed.
RejectPayload(j) ==
  /\ hpc[j] = "begun"
  /\ hpc' = [hpc EXCEPT ![j] = "nack"]
  /\ verdict' = [verdict EXCEPT ![j] = "failed"]
  /\ UNCHANGED <<netVars, mainVars, brokerVars, dispatchVars, seen, confirmVars,
                 watchdogActive, pendingAck, njobs, jcmd, backup, committed,
                 wpc, watched, confirmed, disk, crashes>>

WriteAll(c, ps) == [p \in Pkgs |-> IF p \in ps THEN c ELSE disk[p]]

\* Applier.Apply commits every package, and RunReloads reloads the services.
ApplySucceeds(j) ==
  /\ hpc[j] = "backed_up"
  /\ disk' = WriteAll(jcmd[j], Touches[jcmd[j]])
  /\ committed' = [committed EXCEPT ![j] = Touches[jcmd[j]]]
  /\ hpc' = [hpc EXCEPT ![j] = "applied"]
  /\ UNCHANGED <<netVars, mainVars, brokerVars, dispatchVars, seen, confirmVars,
                 watchdogActive, pendingAck, njobs, jcmd, backup,
                 watchdogVars, crashes>>

\* Applier.Apply fails: in the staging phase (nothing committed) or at a
\* commit (the packages before it stay committed, and its own if the commit
\* took effect before it reported the error).  Nothing is restored.
ApplyFails(j) ==
  /\ hpc[j] = "backed_up"
  /\ \E ps \in SUBSET Touches[jcmd[j]] : disk' = WriteAll(jcmd[j], ps)
  /\ hpc' = [hpc EXCEPT ![j] = "nack"]
  /\ verdict' = [verdict EXCEPT ![j] = "failed"]
  /\ UNCHANGED <<netVars, mainVars, brokerVars, dispatchVars, seen, confirmVars,
                 watchdogActive, pendingAck, njobs, jcmd, backup, committed,
                 wpc, watched, confirmed, crashes>>

\* The error ack of the handler is published, or given up on.
NackSent(j) ==
  /\ hpc[j] = "nack"
  /\ hpc' = [hpc EXCEPT ![j] = "done"]
  /\ acks' = IF link = "up" THEN acks \cup {<<j, "error">>} ELSE acks
  /\ ReturnFrom(j)
  /\ UNCHANGED <<netVars, mainVars, queue, sent, seen, confirmVars,
                 watchdogActive, pendingAck, njobs, jcmd, backup, committed,
                 watchdogVars, disk, crashes>>

\* setWatchdogConfirm, watchdogActive.Store(true) and the go statement, whose
\* arguments read sessionDisconnCh.
StartWatchdog(j) ==
  /\ hpc[j] = "applied"
  /\ confirmCmdID' = jcmd[j]
  /\ confirmCh' = j
  /\ watchdogActive' = TRUE
  /\ wpc' = [wpc EXCEPT ![j] = "start"]
  /\ watched' = [watched EXCEPT ![j] = sessionDisconnCh]
  /\ hpc' = [hpc EXCEPT ![j] = "publishing"]
  /\ UNCHANGED <<netVars, mainVars, brokerVars, dispatchVars, seen, pendingAck,
                 njobs, jcmd, backup, committed, confirmed, verdict, disk,
                 crashes>>

\* publishState("apply_success") has been tried and the handler returns.
StatePublished(j) ==
  /\ hpc[j] = "publishing"
  /\ hpc' = [hpc EXCEPT ![j] = "done"]
  /\ ReturnFrom(j)
  /\ UNCHANGED <<netVars, mainVars, brokerVars, seen, confirmVars,
                 watchdogActive, pendingAck, njobs, jcmd, backup, committed,
                 watchdogVars, disk, crashes>>

-----------------------------------------------------------------------------
(* runConnectivityWatchdog of job j *)

\* disconnCh is nil at the start: roll back at once.
RollBackAtStart(j) ==
  /\ wpc[j] = "start"
  /\ watched[j] = 0
  /\ wpc' = [wpc EXCEPT ![j] = "restore"]
  /\ UNCHANGED <<netVars, mainVars, brokerVars, dispatchVars, seen, confirmVars,
                 watchdogActive, pendingAck, njobs, handlerVars, watched,
                 confirmed, verdict, disk, crashes>>

\* The timer is started and the watchdog waits in its select.
BeginWait(j) ==
  /\ wpc[j] = "start"
  /\ watched[j] # 0
  /\ wpc' = [wpc EXCEPT ![j] = "waiting"]
  /\ UNCHANGED <<netVars, mainVars, brokerVars, dispatchVars, seen, confirmVars,
                 watchdogActive, pendingAck, njobs, handlerVars, watched,
                 confirmed, verdict, disk, crashes>>

\* The session drops: stop watching its channel, keep waiting.
NoticeDisconnect(j) ==
  /\ wpc[j] = "waiting"
  /\ watched[j] # 0
  /\ ChanClosed(watched[j])
  /\ watched' = [watched EXCEPT ![j] = 0]
  /\ UNCHANGED <<netVars, mainVars, brokerVars, dispatchVars, seen, confirmVars,
                 watchdogActive, pendingAck, njobs, handlerVars, wpc,
                 confirmed, verdict, disk, crashes>>

\* The confirm channel is closed: ack "ok".
ConfirmReceived(j) ==
  /\ wpc[j] = "waiting"
  /\ confirmed[j]
  /\ wpc' = [wpc EXCEPT ![j] = "ackok"]
  /\ verdict' = [verdict EXCEPT ![j] = "ok"]
  /\ UNCHANGED <<netVars, mainVars, brokerVars, dispatchVars, seen, confirmVars,
                 watchdogActive, pendingAck, njobs, handlerVars, watched,
                 confirmed, disk, crashes>>

\* Mutant of TimerConfirms: asks for the session the apply arrived in.
TimerConfirmsSameSession(j) ==
  /\ wpc[j] = "waiting"
  /\ sessionDisconnCh # 0
  /\ sessionDisconnCh = watched[j]
  /\ wpc' = [wpc EXCEPT ![j] = "ackok"]
  /\ verdict' = [verdict EXCEPT ![j] = "ok"]
  /\ UNCHANGED <<netVars, mainVars, brokerVars, dispatchVars, seen, confirmVars,
                 watchdogActive, pendingAck, njobs, handlerVars, watched,
                 confirmed, disk, crashes>>

\* The timer fires while a session is registered: ack "ok".
TimerConfirms(j) ==
  /\ wpc[j] = "waiting"
  /\ sessionDisconnCh # 0
  /\ wpc' = [wpc EXCEPT ![j] = "ackok"]
  /\ verdict' = [verdict EXCEPT ![j] = "ok"]
  /\ UNCHANGED <<netVars, mainVars, brokerVars, dispatchVars, seen, confirmVars,
                 watchdogActive, pendingAck, njobs, handlerVars, watched,
                 confirmed, disk, crashes>>

\* Mutant of TimerRollsBack: the ack is queued before the files are restored.
TimerAcksFirst(j) ==
  /\ wpc[j] = "waiting"
  /\ sessionDisconnCh = 0
  /\ wpc' = [wpc EXCEPT ![j] = "restore"]
  /\ pendingAck' = j
  /\ UNCHANGED <<netVars, mainVars, brokerVars, dispatchVars, seen, confirmVars,
                 watchdogActive, njobs, handlerVars, watched, confirmed,
                 verdict, disk, crashes>>

\* The timer fires while none is: roll back.
TimerRollsBack(j) ==
  /\ wpc[j] = "waiting"
  /\ sessionDisconnCh = 0
  /\ wpc' = [wpc EXCEPT ![j] = "restore"]
  /\ UNCHANGED <<netVars, mainVars, brokerVars, dispatchVars, seen, confirmVars,
                 watchdogActive, pendingAck, njobs, handlerVars, watched,
                 confirmed, verdict, disk, crashes>>

\* Mutant of OkAckSent: falls through to the rollback.
OkAckFallsThrough(j) ==
  /\ wpc[j] = "ackok"
  /\ wpc' = [wpc EXCEPT ![j] = "restore"]
  /\ acks' = IF link = "up" THEN acks \cup {<<j, "ok">>} ELSE acks
  /\ UNCHANGED <<netVars, mainVars, queue, sent, dispatchVars, seen, confirmVars,
                 watchdogActive, pendingAck, njobs, handlerVars, watched,
                 confirmed, verdict, disk, crashes>>

\* publishAck "ok" succeeds, or gives up after three attempts on a lost link.
OkAckSent(j) ==
  /\ wpc[j] = "ackok"
  /\ wpc' = [wpc EXCEPT ![j] = "exit"]
  /\ acks' = IF link = "up" THEN acks \cup {<<j, "ok">>} ELSE acks
  /\ UNCHANGED <<netVars, mainVars, queue, sent, dispatchVars, seen, confirmVars,
                 watchdogActive, pendingAck, njobs, handlerVars, watched,
                 confirmed, verdict, disk, crashes>>

\* Mutant of Restore: a file that did not exist before is not removed.
RestoreWithoutRemoval(j) ==
  /\ wpc[j] = "restore"
  /\ disk' = [p \in Pkgs |-> IF p \in committed[j] /\ backup[j][p] # Base
                               THEN backup[j][p] ELSE disk[p]]
  /\ verdict' = [verdict EXCEPT ![j] = "rolled_back"]
  /\ wpc' = [wpc EXCEPT ![j] = "restored"]
  /\ UNCHANGED <<netVars, mainVars, brokerVars, dispatchVars, seen, confirmVars,
                 watchdogActive, pendingAck, njobs, handlerVars, watched,
                 confirmed, crashes>>

\* configBackup.restore: every committed package is written back from the
\* backup or removed; a write that fails is only logged.
Restore(j) ==
  /\ wpc[j] = "restore"
  /\ \E ps \in IF DiskFaults THEN SUBSET committed[j] ELSE {committed[j]} :
       disk' = [p \in Pkgs |-> IF p \in ps THEN backup[j][p] ELSE disk[p]]
  /\ verdict' = [verdict EXCEPT ![j] = "rolled_back"]
  /\ wpc' = [wpc EXCEPT ![j] = "restored"]
  /\ UNCHANGED <<netVars, mainVars, brokerVars, dispatchVars, seen, confirmVars,
                 watchdogActive, pendingAck, njobs, handlerVars, watched,
                 confirmed, crashes>>

\* setPendingRollbackAck: one slot, whatever it holds is overwritten.
QueueRollbackAck(j) ==
  /\ wpc[j] = "restored"
  /\ pendingAck' = j
  /\ wpc' = [wpc EXCEPT ![j] = "exit"]
  /\ UNCHANGED <<netVars, mainVars, brokerVars, dispatchVars, seen, confirmVars,
                 watchdogActive, njobs, handlerVars, watched, confirmed,
                 verdict, disk, crashes>>

\* Mutant of WatchdogExits: watchdogActive is left set.
WatchdogExitsActive(j) ==
  /\ wpc[j] = "exit"
  /\ wpc' = [wpc EXCEPT ![j] = "done"]
  /\ IF confirmCmdID = jcmd[j]
       THEN confirmCmdID' = NoCmd /\ confirmCh' = 0
       ELSE UNCHANGED confirmVars
  /\ UNCHANGED <<netVars, mainVars, brokerVars, dispatchVars, seen,
                 watchdogActive, pendingAck, njobs, handlerVars, watched,
                 confirmed, verdict, disk, crashes>>

\* The deferred calls: clearWatchdogConfirm(cmdID), watchdogActive.Store(false).
WatchdogExits(j) ==
  /\ wpc[j] = "exit"
  /\ wpc' = [wpc EXCEPT ![j] = "done"]
  /\ IF confirmCmdID = jcmd[j]
       THEN confirmCmdID' = NoCmd /\ confirmCh' = 0
       ELSE UNCHANGED confirmVars
  /\ watchdogActive' = FALSE
  /\ UNCHANGED <<netVars, mainVars, brokerVars, dispatchVars, seen, pendingAck,
                 njobs, handlerVars, watched, confirmed, verdict, disk,
                 crashes>>

-----------------------------------------------------------------------------
\* The process dies and procd starts a new one: everything in memory is lost,
\* every goroutine is gone; the files, the broker's queue and what the server
\* knows remain.  The last session is stable.
Crash ==
  /\ crashes < MaxCrashes
  /\ sess < MaxSessions
  /\ crashes' = crashes + 1
  /\ link' = "closed"
  /\ mpc' = "idle" /\ sessionDisconnCh' = 0 /\ mainAck' = 0
  /\ dispatcher' = "free" /\ delivered' = 0
  /\ seen' = <<>>
  /\ confirmCmdID' = NoCmd /\ confirmCh' = 0
  /\ watchdogActive' = FALSE
  /\ pendingAck' = 0
  /\ hpc' = [j \in Jobs |-> IF hpc[j] = "none" THEN "none" ELSE "killed"]
  /\ wpc' = [j \in Jobs |-> IF hpc[j] = "none" THEN "none" ELSE "killed"]
  /\ UNCHANGED <<sess, brokerVars, njobs, jcmd, backup, committed, watched,
                 confirmed, verdict, disk>>

Environment ==
  \/ \E c \in Cmds : SendApply(c) \/ SendConfirm(c)
  \/ ConnectionDies
  \/ ConnectionLossDetected
  \/ SessionExpires
  \/ UnroutedDelivery

Session ==
  \/ Connect \/ SubscribeCommands \/ SubscribeFails \/ SubscribeOthers
  \/ TakeAckAtStart \/ EnterLoop \/ Heartbeat \/ DeferredAckSent \/ DeferredAckGivenUp
  \/ SessionEnds

Dispatch == DropDuplicate \/ StartApply \/ HandleConfirm \/ PubAckArrives

Handler(j) ==
  \/ BackUp(j) \/ RejectPayload(j) \/ ApplySucceeds(j) \/ ApplyFails(j)
  \/ NackSent(j) \/ StartWatchdog(j) \/ StatePublished(j)

Watchdog(j) ==
  \/ RollBackAtStart(j) \/ BeginWait(j) \/ NoticeDisconnect(j)
  \/ ConfirmReceived(j) \/ TimerConfirms(j) \/ TimerRollsBack(j)
  \/ OkAckSent(j) \/ Restore(j) \/ QueueRollbackAck(j) \/ WatchdogExits(j)

Next ==
  \/ Environment
  \/ Session
  \/ Dispatch
  \/ \E j \in Jobs : Handler(j) \/ Watchdog(j)
  \/ Crash

Spec == Init /\ [][Next]_vars

(***************************************************************************)
(* Every goroutine that can take a step eventually does, the network       *)
(* eventually notices a dead connection (keepalive, or three publish       *)
(* failures), and the last session is never dropped.  The server promises  *)
(* nothing, and nothing makes a session expire.                            *)
(***************************************************************************)
Fairness ==
  /\ WF_vars(ConnectionLossDetected)
  /\ WF_vars(Session)
  /\ WF_vars(Dispatch)
  /\ \A j \in Jobs : WF_vars(Handler(j)) /\ WF_vars(Watchdog(j))

FairSpec == Spec /\ Fairness

-----------------------------------------------------------------------------
(* Properties *)

\* Every variable has its type.
TypeOK ==
  /\ link \in {"up", "dead", "closed"}
  /\ sess \in 0 .. MaxSessions
  /\ mpc \in {"idle", "connected", "subscribed", "setup", "reporting", "loop"}
  /\ sessionDisconnCh \in {0} \cup Sessions
  /\ mainAck \in {0} \cup Jobs
  /\ queue \in Seq(Messages)
  /\ sent \subseteq Messages
  /\ acks \subseteq Jobs \X {"ok", "error"}
  /\ dispatcher \in {"free", "handling"}
  /\ delivered \in Nat
  /\ seen \in Seq(Cmds)
  /\ confirmCmdID \in Cmds \cup {NoCmd}
  /\ confirmCh \in {0} \cup Jobs
  /\ watchdogActive \in BOOLEAN
  /\ pendingAck \in {0} \cup Jobs
  /\ njobs \in 0 .. MaxJobs
  /\ hpc \in [Jobs -> {"none", "begun", "backed_up", "nack", "applied",
                       "publishing", "done", "killed"}]
  /\ jcmd \in [Jobs -> Cmds \cup {NoCmd}]
  /\ backup \in [Jobs -> Configs]
  /\ committed \in [Jobs -> SUBSET Pkgs]
  /\ wpc \in [Jobs -> {"none", "start", "waiting", "ackok", "restore",
                       "restored", "exit", "done", "killed"}]
  /\ watched \in [Jobs -> {0} \cup Sessions]
  /\ confirmed \in [Jobs -> BOOLEAN]
  /\ verdict \in [Jobs -> {"none", "failed", "ok", "rolled_back"}]
  /\ disk \in Configs
  /\ crashes \in 0 .. MaxCrashes

\* The client never acknowledges more messages than the broker has sent it:
\* the handled ones and the one being handled are at the head of its queue.
QueueOK ==
  /\ delivered + (IF dispatcher = "handling" THEN 1 ELSE 0) <= Len(queue)
  /\ mpc = "connected" => delivered = 0 /\ dispatcher = "free"

\* Jobs are started in the order of their numbers, and each has its command.
JobsOK ==
  \A j \in Jobs :
    /\ j <= njobs <=> hpc[j] # "none"
    /\ hpc[j] # "none" => jcmd[j] \in Cmds
    /\ hpc[j] = "none" => jcmd[j] = NoCmd /\ wpc[j] = "none"

Live(j) == hpc[j] \notin {"none", "killed"}

\* Within the life of a process no config_apply is handled twice, however often
\* the broker redelivers it and whether or not its watchdog is still in flight
\* (wasConfigApplySeen; the record must hold every command the broker may
\* still redeliver).
HandledOnce ==
  \A i, j \in Jobs : Live(i) /\ Live(j) /\ jcmd[i] = jcmd[j] => i = j

\* The server never gets both an "ok" and an "error" ack for one config_apply:
\* a redelivery, a late deferred ack or a second watchdog never contradicts
\* what the first one reported.
NoContradictoryAcks ==
  \A a, b \in acks : jcmd[a[1]] = jcmd[b[1]] => a[2] = b[2]

\* The registered confirm channel is that of a watchdog still running for the
\* registered cmd_id and is not closed yet, so that signalWatchdogConfirm
\* never closes a channel twice and never wakes another command's watchdog.
ConfirmChannelOpen ==
  confirmCmdID # NoCmd =>
    /\ confirmCh # 0
    /\ jcmd[confirmCh] = confirmCmdID
    /\ Running(confirmCh)
    /\ ~ confirmed[confirmCh]

\* A watchdog is confirmed only by a config_confirm the server sent for its
\* own command, even when two applies overlap.
ConfirmedByServer ==
  \A j \in Jobs : confirmed[j] =>
    [type |-> "config_confirm", cmd |-> jcmd[j]] \in sent

\* The fast reconnect of a config_apply never outlives the watchdogs: while
\* watchdogActive is set some watchdog goroutine has still to return.
ActiveOnlyWhileRunning == watchdogActive => \E j \in Jobs : Running(j)

\* Once a command has been rolled back, none of its content is in /etc/config
\* any more (what the deferred ack tells the server).
RolledBackStaysOut ==
  \A j \in Jobs : verdict[j] = "rolled_back" =>
    \A p \in Pkgs : disk[p] # jcmd[j]

\* A confirmed config is never undone by anybody else's rollback: every package
\* a confirmed command wrote has its content until a later command writes it.
ConfirmedStaysIn ==
  \A j \in Jobs : verdict[j] = "ok" =>
    \A p \in committed[j] :
      disk[p] # jcmd[j] => \E i \in Jobs : i > j /\ disk[p] = jcmd[i]

\* Claimed: the watchdog rolls back when there is no session.  It starts a
\* rollback, at its start or when the timer fires, only when there is no
\* connection.
RollbackOnlyOffline ==
  [][\A j \in Jobs :
       wpc[j] \in {"start", "waiting"} /\ wpc'[j] = "restore" => link # "up"]_vars

\* Claimed: when the timer fires, no session means rollback.  It confirms only
\* when there is a connection.
TimerConfirmsOnlyOnline ==
  [][\A j \in Jobs :
       wpc[j] = "waiting" /\ wpc'[j] = "ackok" /\ ~ confirmed[j] => link = "up"]_vars

\* Claimed: if the server's config_confirm has closed the channel the apply is
\* confirmed, not rolled back.
ConfirmHonoured == \A j \in Jobs : confirmed[j] => verdict[j] # "rolled_back"

\* Claimed: watchdogActive is set while a connectivity watchdog waits for its session.
ActiveWhileWaiting == (\E j \in Jobs : wpc[j] = "waiting") => watchdogActive

\* Claimed: a rollback ack, once queued, is in the slot, being published or delivered.
RollbackAckKept ==
  \A j \in Jobs : verdict[j] = "rolled_back" /\ wpc[j] \in {"exit", "done"} =>
    j \in {pendingAck, mainAck} \/ <<j, "error">> \in acks

\* Claimed: handling a command that was handled before changes nothing on disk.
ReapplyIsNoOp ==
  [][\A j \in Jobs :
       hpc[j] = "backed_up" /\ hpc'[j] = "applied"
         /\ (\E i \in 1 .. j - 1 : jcmd[i] = jcmd[j] /\ verdict[i] = "ok")
       => disk' = disk]_vars

\* Every watchdog that is started comes to a verdict and returns, whatever the
\* network does and whether or not the server confirms; only a restart of the
\* process ends it without one.
WatchdogResolves ==
  \A j \in Jobs : wpc[j] = "start" ~> wpc[j] \in {"done", "killed"}

\* A deferred rollback ack never stays in its slot for good, also when the
\* rollback races with a fast reconnect (the heartbeat's safety net).
PendingAckDrains == pendingAck # 0 ~> pendingAck = 0

\* Once the network is stable the broker gets rid of every command, including
\* those of sessions lost in the middle of a handler.
CommandsDrain == queue # <<>> ~> queue = <<>>

-----------------------------------------------------------------------------
(* Supporting invariants *)

\* Where the handler, the watchdog and the verdict of a job can be together.
PcOK ==
  \A j \in Jobs :
    \/ hpc[j] \in {"none", "begun", "backed_up", "applied"}
         /\ wpc[j] = "none" /\ verdict[j] = "none"
    \/ hpc[j] \in {"nack", "done"} /\ wpc[j] = "none" /\ verdict[j] = "failed"
    \/ hpc[j] \in {"publishing", "done"}
         /\ \/ wpc[j] \in {"start", "waiting", "restore"} /\ verdict[j] = "none"
            \/ wpc[j] = "ackok" /\ verdict[j] = "ok"
            \/ wpc[j] = "restored" /\ verdict[j] = "rolled_back"
            \/ wpc[j] \in {"exit", "done"} /\ verdict[j] \in {"ok", "rolled_back"}
    \/ hpc[j] = "killed" /\ wpc[j] = "killed"

\* Every ack received or deferred reports the verdict of its job.
ReportsOK ==
  /\ pendingAck # 0 => verdict[pendingAck] = "rolled_back"
  /\ mainAck # 0 => verdict[mainAck] = "rolled_back"
  /\ \A a \in acks :
       \/ a[2] = "ok" /\ verdict[a[1]] = "ok"
       \/ a[2] = "error" /\ verdict[a[1]] \in {"failed", "rolled_back"}

\* A confirm channel is not closed before its watchdog is registered.
FreshUnconfirmed == \A j \in Jobs : wpc[j] = "none" => ~ confirmed[j]

\* The broker holds only what the server has published.
QueueSent == \A i \in DOMAIN queue : queue[i] \in sent

\* The duplicate record has every command of this process life, once each.
SeenOK ==
  /\ \A j \in Jobs : Live(j) => jcmd[j] \in SeenIDs
  /\ \A a, b \in DOMAIN seen : seen[a] = seen[b] => a = b

-----------------------------------------------------------------------------
(* Refinement: the jobs implement CommitConfirm *)

phaseBar ==
  [j \in Jobs |->
     IF verdict[j] # "none" THEN verdict[j]
     ELSE CASE hpc[j] = "none" -> "none"
            [] hpc[j] = "killed" -> "abandoned"
            [] hpc[j] \in {"begun", "backed_up", "nack"} -> "applying"
            [] hpc[j] \notin {"none", "killed", "begun", "backed_up", "nack"} ->
                 IF wpc[j] = "restore" THEN "rolling_back" ELSE "tentative"]

CC == INSTANCE CommitConfirm WITH phase <- phaseBar, reports <- acks

\* Every job goes through the phases of CommitConfirm, and the server's acks
\* are those CommitConfirm allows: "ok" only for a confirmed job, "error" only
\* for a failed one or for one whose rollback has been carried out.
ImplementsCommitConfirm == CC!Spec

=============================================================================
