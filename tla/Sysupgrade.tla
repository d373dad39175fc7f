------------------------------ MODULE Sysupgrade ------------------------------
(***************************************************************************)
(* One firmware upgrade from the sysupgrade command to the first session   *)
(* after the reboot: handleSysupgrade, the clean-start sentinel, the       *)
(* bootstrap a factory reset makes necessary, and the connects of          *)
(* runSession that resume or discard the broker session.                   *)
(*                                                                         *)
(* The command is a QoS-1 message whose PUBACK follows the handler's       *)
(* return; a handler that flashes never returns, and one whose session is  *)
(* lost has no PUBACK to send: the broker delivers the command again.  A   *)
(* handler invocation runs on whatever happens to its session, so several  *)
(* may run at once; they share the image file.                             *)
(***************************************************************************)
EXTENDS Integers, FiniteSets

CONSTANTS
  KeepConfig,    \* the values of keep_config the server may send
  MaxHandlers,   \* bound on invocations of handleSysupgrade
  MaxDrops,      \* bound on lost sessions and failed connects or bootstraps
  MaxRestarts,   \* bound on restarts of the process other than by a flash
  MaxFailures    \* bound on writes of the sentinel that fail

ASSUME SysupgradeAssumption ==
  /\ KeepConfig \subseteq BOOLEAN
  /\ MaxHandlers \in Nat
  /\ MaxDrops \in Nat
  /\ MaxRestarts \in Nat
  /\ MaxFailures \in Nat

Handlers == 1 .. MaxHandlers

VARIABLES
  creds,            \* whether the credentials file exists
  token,            \* whether the bootstrap token file exists
  sentinel,         \* whether the clean-start sentinel file exists
  image,            \* /tmp/waverms-sysupgrade.bin: "none", "partial" or "whole"
  writer,           \* the invocation that truncated it last, or 0
  pc,               \* where main and the Run goroutine are
  needsCleanStart,  \* Agent.needsCleanStart
  cleanStart,       \* runSession's local of that name
  served,           \* whether this process has completed a connect
  queued,           \* whether the broker holds the command un-PUBACKed
  sent,             \* whether the server has sent it
  keep,             \* its keep_config
  hpc,              \* where each handler invocation is
  current,          \* the invocation the current session waits for, or 0
  flashes,          \* how often the firmware was flashed
  drops, restarts,  \* counters for the bounds
  failures,         \* and the failed writes of the sentinel
  faults            \* history, read by no action: what went wrong with a clean start

fileVars == <<creds, token, sentinel>>
imageVars == <<image, writer>>
runVars == <<pc, needsCleanStart, cleanStart, served>>
serverVars == <<sent, keep>>
counterVars == <<flashes, drops, restarts>>
faultVars == <<failures, faults>>
vars == <<fileVars, imageVars, runVars, queued, serverVars, hpc, current, counterVars,
          faultVars>>

Init ==
  /\ creds \in BOOLEAN /\ token = FALSE
  /\ sentinel = FALSE /\ image = "none" /\ writer = 0
  /\ pc = "boot" /\ needsCleanStart = FALSE /\ cleanStart = FALSE
  /\ served = FALSE
  /\ queued = FALSE /\ sent = FALSE /\ keep = FALSE
  /\ hpc = [h \in Handlers |-> "none"]
  /\ current = 0
  /\ flashes = 0 /\ drops = 0 /\ restarts = 0
  /\ failures = 0 /\ faults = {}

-----------------------------------------------------------------------------
(* The process starts; bootstrap *)

\* main loads the credentials, New looks for the sentinel, Run decides whether
\* to bootstrap.
Boot ==
  /\ pc = "boot"
  /\ needsCleanStart' = sentinel
  /\ pc' = IF creds THEN "idle" ELSE "bootstrap"
  /\ UNCHANGED <<fileVars, imageVars, cleanStart, served, queued, serverVars, hpc,
                 current, counterVars, faultVars>>

\* A DHCP hook writes the token a device without credentials needs.
DeliverToken ==
  /\ ~ creds /\ ~ token
  /\ token' = TRUE
  /\ UNCHANGED <<creds, sentinel, imageVars, runVars, queued, serverVars, hpc,
                 current, counterVars, faultVars>>

\* An attempt of bootstrap.Run finds the token.  One that polls in vain until
\* its timeout changes nothing and is made again.
FindToken ==
  /\ pc = "bootstrap"
  /\ token
  /\ pc' = "asking"
  /\ UNCHANGED <<fileVars, imageVars, needsCleanStart, cleanStart, served, queued,
                 serverVars, hpc, current, counterVars, faultVars>>

\* Connected with the token and subscribed to the answer, it publishes the request.
Register ==
  /\ pc = "asking"
  /\ pc' = "registered"
  /\ UNCHANGED <<fileVars, imageVars, needsCleanStart, cleanStart, served, queued,
                 serverVars, hpc, current, counterVars, faultVars>>

\* The attempt fails: on the way to the broker, without an answer, or with one
\* that cannot be saved.  Run makes another after a delay.
AttemptFails ==
  /\ pc \in {"asking", "registered"}
  /\ drops < MaxDrops
  /\ drops' = drops + 1
  /\ pc' = "bootstrap"
  /\ UNCHANGED <<fileVars, imageVars, needsCleanStart, cleanStart, served, queued,
                 serverVars, hpc, current, flashes, restarts, faultVars>>

\* The answer's credentials are renamed into place.  The server knows the
\* device by its MAC: a device that was enrolled before gets the same id, thus
\* the same MQTT session.
SaveCredentials ==
  /\ pc = "registered"
  /\ creds' = TRUE
  /\ pc' = "saved"
  /\ UNCHANGED <<token, sentinel, imageVars, needsCleanStart, cleanStart, served,
                 queued, serverVars, hpc, current, counterVars, faultVars>>

\* The token is removed, an error of that is ignored; the credentials are read back.
RemoveToken ==
  /\ pc = "saved"
  /\ token' = FALSE \/ UNCHANGED token
  /\ pc' = "enrolled"
  /\ UNCHANGED <<creds, sentinel, imageVars, needsCleanStart, cleanStart, served,
                 queued, serverVars, hpc, current, counterVars, faultVars>>

\* After a bootstrap the next connect is a clean one.
ForceCleanStart ==
  /\ pc = "enrolled"
  /\ needsCleanStart' = TRUE
  /\ pc' = "idle"
  /\ UNCHANGED <<fileVars, imageVars, cleanStart, served, queued, serverVars, hpc,
                 current, counterVars, faultVars>>

-----------------------------------------------------------------------------
(* runSession *)

\* Mutant of BeginConnect: reads the flag without clearing it.
BeginConnectNoSwap ==
  /\ pc = "idle"
  /\ cleanStart' = needsCleanStart
  /\ pc' = "connecting"
  /\ UNCHANGED <<fileVars, imageVars, needsCleanStart, served, queued, serverVars,
                 hpc, current, counterVars, faultVars>>

\* needsCleanStart.CompareAndSwap(true, false).
BeginConnect ==
  /\ pc = "idle"
  /\ cleanStart' = needsCleanStart
  /\ needsCleanStart' = FALSE
  /\ pc' = "connecting"
  /\ UNCHANGED <<fileVars, imageVars, served, queued, serverVars, hpc, current,
                 counterVars, faultVars>>

\* The broker resumes its session, or starts a new one without what it held.
ConnectSucceeds ==
  /\ pc = "connecting"
  /\ queued' = (queued /\ ~ cleanStart)
  /\ served' = TRUE
  /\ pc' = IF cleanStart THEN "clean" ELSE "online"
  /\ UNCHANGED <<fileVars, imageVars, needsCleanStart, cleanStart, serverVars, hpc,
                 current, counterVars, faultVars>>

\* Connect fails, perhaps after the broker has already dropped the session.
ConnectFails ==
  /\ pc = "connecting"
  /\ drops < MaxDrops
  /\ drops' = drops + 1
  /\ queued' \in {queued, queued /\ ~ cleanStart}
  /\ needsCleanStart' = (needsCleanStart \/ cleanStart)
  /\ pc' = "idle"
  /\ UNCHANGED <<fileVars, imageVars, cleanStart, served, serverVars, hpc, current,
                 flashes, restarts, faultVars>>

\* A clean connect has served its purpose.  An error of the removal is ignored.
RemoveSentinel ==
  /\ pc = "clean"
  /\ sentinel' = FALSE \/ UNCHANGED sentinel
  /\ pc' = "online"
  /\ UNCHANGED <<creds, token, imageVars, needsCleanStart, cleanStart, served,
                 queued, serverVars, hpc, current, counterVars, faultVars>>

\* The session is lost; a handler it waits for goes on without it.
SessionLost ==
  /\ pc = "online"
  /\ drops < MaxDrops
  /\ drops' = drops + 1
  /\ pc' = "idle"
  /\ current' = 0
  /\ UNCHANGED <<fileVars, imageVars, needsCleanStart, cleanStart, served, queued,
                 serverVars, hpc, flashes, restarts, faultVars>>

-----------------------------------------------------------------------------
(* The server and handleSysupgrade *)

\* The server sends the command, once, to an enrolled device.
SendUpgrade ==
  /\ ~ sent
  /\ creds
  /\ sent' = TRUE
  /\ queued' = TRUE
  /\ keep' \in KeepConfig
  /\ UNCHANGED <<fileVars, imageVars, runVars, hpc, current, counterVars, faultVars>>

\* The session's dispatch goroutine enters the handler.
Deliver(h) ==
  /\ pc = "online"
  /\ queued
  /\ current = 0
  /\ hpc[h] = "none"
  /\ \A i \in Handlers : i < h => hpc[i] # "none"
  /\ hpc' = [hpc EXCEPT ![h] = "begun"]
  /\ current' = h
  /\ UNCHANGED <<fileVars, imageVars, runVars, queued, serverVars, counterVars,
                 faultVars>>

\* The handler returns; its PUBACK takes the command off the broker's queue if
\* its session is still there.
Return(h) ==
  /\ hpc' = [hpc EXCEPT ![h] = "done"]
  /\ queued' = (queued /\ current # h)
  /\ current' = IF current = h THEN 0 ELSE current

\* The payload is incomplete or there is no space: an error ack.
Refuse(h) ==
  /\ hpc[h] = "begun"
  /\ Return(h)
  /\ UNCHANGED <<fileVars, imageVars, runVars, serverVars, counterVars, faultVars>>

\* The download truncates the file and starts to write it.
BeginDownload(h) ==
  /\ hpc[h] = "begun"
  /\ hpc' = [hpc EXCEPT ![h] = "downloading"]
  /\ image' = "partial" /\ writer' = h
  /\ UNCHANGED <<fileVars, runVars, queued, serverVars, current, counterVars,
                 faultVars>>

\* The checksum of what was downloaded is right.  The file holds it if no
\* other invocation has truncated or removed the file since.
FinishDownload(h) ==
  /\ hpc[h] = "downloading"
  /\ hpc' = [hpc EXCEPT ![h] = "downloaded"]
  /\ image' = IF writer = h THEN "whole" ELSE image
  /\ UNCHANGED <<fileVars, writer, runVars, queued, serverVars, current, counterVars,
                 faultVars>>

RemoveImage == image' = "none" /\ writer' = 0

\* The request, the download or its checksum fails: the file is removed, an error ack.
FailDownload(h) ==
  /\ hpc[h] \in {"begun", "downloading"}
  /\ RemoveImage
  /\ Return(h)
  /\ UNCHANGED <<fileVars, runVars, serverVars, counterVars, faultVars>>

\* sysupgrade --test accepts the file.
PassTest(h) ==
  /\ hpc[h] = "downloaded"
  /\ image = "whole"
  /\ hpc' = [hpc EXCEPT ![h] = "tested"]
  /\ UNCHANGED <<fileVars, imageVars, runVars, queued, serverVars, current,
                 counterVars, faultVars>>

\* sysupgrade --test refuses it: the file is removed, an error ack.
FailTest(h) ==
  /\ hpc[h] = "downloaded"
  /\ RemoveImage
  /\ Return(h)
  /\ UNCHANGED <<fileVars, runVars, serverVars, counterVars, faultVars>>

\* Mutant of WriteSentinel: the sentinel is left to the exec.
SkipSentinel(h) ==
  /\ hpc[h] = "tested"
  /\ hpc' = [hpc EXCEPT ![h] = "marked"]
  /\ UNCHANGED <<fileVars, imageVars, runVars, queued, serverVars, current,
                 counterVars, faultVars>>

\* The sentinel is written if the configuration will survive.
WriteSentinel(h) ==
  /\ hpc[h] = "tested"
  /\ sentinel' = (sentinel \/ keep)
  /\ hpc' = [hpc EXCEPT ![h] = "marked"]
  /\ UNCHANGED <<creds, token, imageVars, runVars, queued, serverVars, current,
                 counterVars, faultVars>>

\* The write fails, with or without creating the file.  That is only logged:
\* the handler goes on to flash.
WriteSentinelFails(h) ==
  /\ hpc[h] = "tested"
  /\ keep
  /\ failures < MaxFailures
  /\ failures' = failures + 1
  /\ sentinel' = TRUE \/ UNCHANGED sentinel
  /\ faults' = IF sentinel' THEN faults ELSE faults \cup {"unwritten"}
  /\ hpc' = [hpc EXCEPT ![h] = "marked"]
  /\ UNCHANGED <<creds, token, imageVars, runVars, queued, serverVars, current,
                 counterVars>>

\* The "started" ack has been tried, the second of grace is over.
AckStarted(h) ==
  /\ hpc[h] = "marked"
  /\ hpc' = [hpc EXCEPT ![h] = "acked"]
  /\ UNCHANGED <<fileVars, imageVars, runVars, queued, serverVars, current,
                 counterVars, faultVars>>

\* The process is gone, with all its goroutines; /etc and the broker remain.
ProcessGone ==
  /\ pc' = "boot"
  /\ needsCleanStart' = FALSE /\ cleanStart' = FALSE /\ served' = FALSE
  /\ hpc' = [h \in Handlers |-> IF hpc[h] = "none" THEN "none" ELSE "done"]
  /\ current' = 0
  /\ writer' = 0

\* syscall.Exec replaces the process.  A whole image is flashed and the device
\* reboots, without its configuration unless keep_config; otherwise sysupgrade
\* gives up and procd restarts the agent.
Exec(h) ==
  /\ hpc[h] = "acked"
  /\ ProcessGone
  /\ IF image = "whole"
       THEN /\ flashes' = flashes + 1
            /\ image' = "none"
            /\ creds' = (creds /\ keep)
            /\ sentinel' = (sentinel /\ keep)
            /\ token' = (token /\ keep)
       ELSE UNCHANGED <<flashes, image, fileVars>>
  /\ UNCHANGED <<queued, serverVars, drops, restarts, faultVars>>

\* The invocations whose flash is next.
Flashing == {h \in Handlers : hpc[h] \in {"marked", "acked"}}

\* Mutant of ExecFails: the handler waits for a process that is never replaced.
ExecFailsSilently(h) ==
  /\ hpc[h] = "acked"
  /\ sentinel' = FALSE
  /\ RemoveImage
  /\ hpc' = [hpc EXCEPT ![h] = "done"]
  /\ UNCHANGED <<creds, token, runVars, queued, serverVars, current, counterVars,
                 faultVars>>

\* syscall.Exec returns: nothing was flashed, the sentinel is taken back, another
\* invocation's too.  An error of the removal is ignored.
ExecFails(h) ==
  /\ hpc[h] = "acked"
  /\ sentinel' = FALSE \/ UNCHANGED sentinel
  /\ faults' = IF keep /\ ~ sentinel' /\ Flashing # {h} THEN faults \cup {"taken"}
                                                       ELSE faults
  /\ RemoveImage
  /\ Return(h)
  /\ UNCHANGED <<creds, token, runVars, serverVars, counterVars, failures>>

\* The only trace of the clean start that a flash has made necessary is in the
\* memory of this process: the token is used up, no sentinel was written.
OnlyInMemory ==
  /\ flashes > 0 /\ queued
  /\ creds /\ ~ sentinel
  /\ \/ pc \in {"saved", "enrolled"}
     \/ needsCleanStart
     \/ pc = "connecting" /\ cleanStart

\* The process dies or the device loses power, at any point; so it does when the
\* credentials just saved cannot be read back.
Restart ==
  /\ restarts < MaxRestarts
  /\ restarts' = restarts + 1
  /\ ProcessGone
  /\ image' \in {image, "none"}
  /\ faults' = IF OnlyInMemory THEN faults \cup {"forgotten"} ELSE faults
  /\ UNCHANGED <<fileVars, queued, serverVars, flashes, drops, failures>>

-----------------------------------------------------------------------------
Startup ==
  \/ Boot
  \/ FindToken \/ Register \/ AttemptFails \/ SaveCredentials
  \/ RemoveToken \/ ForceCleanStart

Session ==
  \/ BeginConnect \/ ConnectSucceeds \/ ConnectFails \/ RemoveSentinel
  \/ SessionLost

Handler(h) ==
  \/ Deliver(h) \/ Refuse(h)
  \/ BeginDownload(h) \/ FinishDownload(h) \/ FailDownload(h)
  \/ PassTest(h) \/ FailTest(h)
  \/ WriteSentinel(h) \/ WriteSentinelFails(h) \/ AckStarted(h)
  \/ Exec(h) \/ ExecFails(h)

Next ==
  \/ Startup
  \/ DeliverToken
  \/ Session
  \/ SendUpgrade
  \/ \E h \in Handlers : Handler(h)
  \/ Restart

Spec == Init /\ [][Next]_vars

\* Goroutines run, a network that stays up lets a connect or a bootstrap succeed,
\* and the DHCP server hands out tokens.
FairSpec ==
  /\ Spec
  /\ WF_vars(Startup)
  /\ WF_vars(DeliverToken)
  /\ WF_vars(Session)
  /\ \A h \in Handlers : WF_vars(Handler(h))

-----------------------------------------------------------------------------
(* Properties *)

\* Every variable has its type, and the session waits for a running handler.
TypeOK ==
  /\ creds \in BOOLEAN /\ token \in BOOLEAN /\ sentinel \in BOOLEAN
  /\ needsCleanStart \in BOOLEAN /\ cleanStart \in BOOLEAN /\ served \in BOOLEAN
  /\ queued \in BOOLEAN /\ sent \in BOOLEAN /\ keep \in BOOLEAN
  /\ image \in {"none", "partial", "whole"}
  /\ writer \in 0 .. MaxHandlers
  /\ pc \in {"boot", "bootstrap", "asking", "registered", "saved", "enrolled",
             "idle", "connecting", "clean", "online"}
  /\ hpc \in [Handlers -> {"none", "begun", "downloading", "downloaded", "tested",
                           "marked", "acked", "done"}]
  /\ current \in 0 .. MaxHandlers
  /\ current # 0 => hpc[current] \notin {"none", "done"}
  /\ flashes \in Nat
  /\ drops \in 0 .. MaxDrops
  /\ restarts \in 0 .. MaxRestarts
  /\ failures \in 0 .. MaxFailures
  /\ faults \subseteq {"unwritten", "taken", "forgotten"}

\* Claimed: one sysupgrade command flashes the device at most once, although it is never
\* PUBACKed and the broker delivers it again after the reboot: the sentinel,
\* or the bootstrap after a factory reset, makes the agent discard it first.
FlashedOnce == flashes <= 1

\* A second flash needs a lost clean start.  With the configuration kept, a
\* sentinel was not written (the handler only logs that) or was taken back by
\* another invocation whose exec failed.  After a factory reset, a restart forgot
\* the clean start between the new credentials and the connect.  Lost sessions,
\* redeliveries, overlapping handlers, failed connects and restarts at any other
\* point never make the device flash again.
FlashedAgainOnlyIfLost ==
  flashes > 1 => IF keep THEN faults \cap {"unwritten", "taken"} # {}
                         ELSE "forgotten" \in faults

\* Once this process has been connected, its reconnects resume the broker's
\* session: commands queued during a brief disconnect are not discarded.
ReconnectsResume == served /\ pc = "connecting" => ~ cleanStart

\* Claimed: what is flashed is the image that was downloaded and tested: at the exec it
\* is still whole ("downloads, verifies, tests, and flashes").
ExecsTestedImage ==
  [][\A h \in Handlers : hpc[h] = "acked" /\ pc' = "boot" /\ restarts' = restarts
       /\ (\A i \in Handlers : hpc[i] = "acked" => i = h)
       => image = "whole"]_vars

\* The command leaves the broker's queue for good: it is refused, fails, or is
\* discarded after the flash.  A device that can never write the sentinel flashes
\* the kept configuration again at each redelivery: at most MaxFailures writes fail.
UpgradeResolves == queued ~> ~ queued

=============================================================================
