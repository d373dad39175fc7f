# Verification of waverms-agent

TLA+ models of the WaveRMS agent: the program on an OpenWrt router that keeps
an MQTT session with its server, executes the server's commands, applies UCI
configurations under a commit-confirm watchdog, flashes firmware and streams
ubus data. TLC checks the models on small instances; TLAPS proves the theorems
for every value of the constants.

1. The system · 2. The modules · 3. The runs · 4. Fairness · 5. The proofs ·
6. What the models found · 7. What is not modelled · 8. Plan

How to run it, in this directory:

    tlc -workers 2 -config MCConfigApply_serial.cfg MCConfigApply
    tlapm ConfigApplyProofs.tla

`PROJECT.json` lists every run with its module and its properties, for every
definition the source lines it models, for every property a mutation of the
code that breaks it, the hazards and the findings.

## 1. The system

One process. `main.go` builds an `Agent` and calls `Run`, which bootstraps
credentials if there are none and then runs sessions for ever (`runSession`).
Everything else happens in goroutines:

* the **Run goroutine**: connect, subscribe, deferred ack, reports, then the
  heartbeat loop until the disconnect channel closes;
* the **dispatch goroutine** of the MQTT library, one per session: it calls
  the command handlers one after the other and sends a message's PUBACK after
  its handler has returned. When a session is lost, its handler goes on; the
  broker keeps the session, delivers what was not PUBACKed again, and the
  handler of the next session runs *beside* the old one;
* a **watchdog** goroutine per successful `config_apply`;
* a goroutine per **ubus_watch**, and a small pipeline of them per
  **ubus_listen**;
* the library's **callbacks**.

| component | state | operations | what is hard | what must hold |
|---|---|---|---|---|
| session loop (`agent.go` Run, runSession) | sessionDisconnCh, needsCleanStart, back-off | connect, subscribe, publish, end | commands arrive before the session's channel is published | a reconnect resumes the broker's session unless a clean start is owed |
| config_apply (`agent_handlers.go`) | seen cmd_ids | handle, drop a duplicate | redelivery while or after the first handling, overlapping applies | handled once per process; never an ok and an error for one command |
| watchdog (`rollback.go`) | confirm registration, watchdogActive, backup, pending ack | wait, confirm, roll back, defer the ack | confirm, timer, disconnect and reconnect race | tentative, then confirmed or rolled back; the ack says which |
| applier (`apply/applier.go`, `uci/`) | the UCI staging area of the device | stage all, commit each, revert | any of many calls fails, perhaps after taking effect; a shared staging area | all is staged before anything is committed; the result is what the payload means |
| reloads (`apply/reload*.go`) | none between calls | discover, gate, run | four sources with precedence, shared commands | each command once, failures do not stop the rest |
| sysupgrade (`sysupgrade.go`) | sentinel, image file | download, test, flash, discard on the next connect | a command that is never PUBACKed | flashed once, as long as the clean start is not lost |
| bootstrap, credentials | credentials file, token file | enrol, save | a crash between saving and the first connect | a clean start after enrolment |
| MQTT client (`mqtt/client.go`) | disconnect channel, once, reason, client, failure counter | Connect, Disconnect, Publish, callbacks | callbacks of an old connection, a black-holed connection | a dead session ends, a healthy one does not |
| standing registrations (`ubus_watch.go`, `stopregistry.go`) | a map from key to stop channel | register, stop, clean up | stop and start again while the old goroutine leaves | one goroutine per key, and it can be stopped |
| ubus_listen (`ubus_listen*.go`) | subprocess, pipe, two bounded queues | start, pump, filter, publish, restart, tear down | a slow publish, a dying subprocess | the pipe is drained, nothing is left behind |
| uci_set (`uci_set.go`) | the staging area, and nothing of its own | one line after the other | a line that fails in the middle, a redelivery, changes left staged for the next command | an ok means that every line did what it says |
| activity log (`activitylog.go`) | one file with a size cap, a temporary file | append, trim | no lock between goroutines; a crash or a full flash in a trim | the recent lines are there, in order; the cap holds |
| file, host key, TLS, transfer and password commands (`agent_handlers.go`, `file_transfer.go`, `passwd.go`, `filewriter/`) | the device's files, the remembered certificate paths | write, remove, fetch, download and rename | one of several files fails, two handlers share a temporary file, a restart forgets the paths | an ok means done; a replaced file is whole |
| other handlers (ubus, shell, services, log fetching) | none | one request, one reply | a timeout | see section 7 |

Components interact through the `Agent`'s fields (the session's channel is
read by watchdogs and watches, the deferred ack is written by the watchdog and
sent by the Run goroutine), through the broker's queue (commands in, PUBACKs
out), and through the device (`/etc/config` and its staging area, the image in
/tmp, the sentinel file).

## 2. The modules

**CommitConfirm** is the abstract specification: a job is accepted, fails or
becomes tentative, is confirmed or rolled back, and may then be reported with
the one status its outcome has. A restart abandons what is undecided.

**ConfigApply** is the detailed one. `mpc` is the program counter of
`runSession`, `hpc[j]` and `wpc[j]` those of the handler and the watchdog of
job `j` (a job is one run of `handleConfigApply` past the duplicate check, with
the watchdog it starts). `sessionDisconnCh`, `seen`, `confirmCmdID`,
`confirmCh`, `watchdogActive` and `pendingAck` are the `Agent`'s fields of these
names; a session's number stands for its channel, 0 for nil. The content of a
package is the command that wrote it last. The environment sends commands and
confirms, drops connections without a trace, and redelivers: the broker's queue
keeps a command until its PUBACK arrives. `Crash` is procd restarting the
process. `phaseBar` maps a job to its phase in CommitConfirm. The apply is one
`WriteAll` of some prefix of the packages here; module Applier has its calls.

**UciPackage** is the algorithm of the applier as pure operators: `StagePlan`
computes, from the sections read, the calls `stagePackage` makes, in order;
`Executed` is what rpcd does with a call. `Wanted` is an independent definition
of what a payload means for what a package says (`View`): exact sections,
options and types for what is mentioned, in merge mode everything else as it
was, in replace mode nothing else.

**Applier** is `Apply` as a state machine over flash and staging area: each
call is a step that may fail, also after taking effect (a timeout). Two history variables
limit what is promised: `misread`, the handlers that took a read error for a missing
package, and `kept`, the packages whose revert failed or that a `uci_set` has staged.
Handlers run one after the other (`Serial`) or overlap, as they do when a session is
lost in the middle.

**UciSet** extends Applier with the second kind of handler that uses the same staging
area: `uci_set` executes lines, each of which resolves an address, reads the package,
perhaps creates it, makes its calls, and may fail; the next line goes on all the same.
`Meaning` defines independently what a line means for what a package says, so that
`ScriptExact` compares the calls with it. It has a meaning for lines that address a section by
its name or as the n-th of a type (`Addressed`), not by an id that libuci has made up, which no
reader of the configuration sees; TLC evaluates that all lines of the run are such.

**Reload** is `RunReloads`. The device (triggers, ucitrack table, scripts,
enabled services) is chosen in the initial state. `ran` pairs each command that ran with the
package on whose account it ran. Three of the four tiers ask whether the service is enabled; the
procd tier does not, on purpose (`reload.go:86-96`: a live instance counts for more than the
enabled symlink).

**Sysupgrade** follows one sysupgrade from the command to the first session of
the flashed system: the wait for the token, bootstrap attempts and their retries,
saving the credentials and removing the token, sentinel, `needsCleanStart`, and handlers
of several sessions that share one image file and one sentinel. `DeliverToken` is the device's
DHCP hook. Everything that only logs its error may fail: the write of the sentinel
(`WriteSentinelFails`, after which the handler flashes all the same), its removal, and the exec.
`faults` is a history variable that no action reads: which clean start was lost, because a sentinel
was not written ("unwritten"), was taken back by another handler whose exec failed ("taken"), or
because a restart forgot the one owed to a bootstrap ("forgotten").

**ActivityLog** is `appendToActivityLog` and `trimActivityLog` for several goroutines
without a lock: every call (stat, read, create, write, sync, rename, open, append) is a
step that may fail (`StatFails`, `TrimFails`, `AppendFails`); a restart loses the goroutines, a
power cut also what was not synced. Lines are numbered, and files are the sequences of their lines.
A rename is taken to be on disk at once: the code does not sync the directory after it
(`activitylog.go:145`), so PostTrimSurvives holds on file systems that journal it.

**DeviceFiles** is the commands that change files: through rpcd, one call per file, or
through a temporary file that is checked and renamed. A file is a pair of chunks, so
that a file can be half of one command and half of another; a handler's descriptor
may belong to the temporary file, to the target (another handler has renamed it) or to
neither.

**Standing** is the registry of ubus_watch and ubus_listen with its goroutines
(tasks). **UbusListen** is what one listen task does inside. The two meet in
`told`: the stop channel or the session's channel is closed.

**PahoClient** is the state of the MQTT wrapper. What ConfigApply and Standing
take as one step (`ConnectionLossDetected`, a closed channel) is here callbacks,
publishers, counter and mutex. A publish may fail on a healthy connection too (its deadline);
`failedOn` is a history variable, the connections on which one has.

The `MC...` modules hold the instances, the `...Proofs` modules the theorems.

Assumptions on inputs: a payload names a section once per package; commands have
non-empty `cmd_id`s; the server sends a command id once and confirms only what
it has sent.

## 3. The runs

States are distinct states. `CHECK_DEADLOCK FALSE` is set everywhere, since
the environment of every instance is bounded and therefore really stops.

### Runs that hold

| run | instance | shows |
|---|---|---|
| serial (877,766) | 2 commands, 2 packages of which one is shared, one command in flight, 2 sessions | RolledBackStaysOut and ConfirmedStaysIn: a rollback takes out exactly its own command's content |
| overlap (3,159,219) | 2 commands for one package, both in flight, 2 sessions | no command handled twice or acked with both verdicts; the confirm channel and the flag stay consistent |
| recover (221,676) | 1 command and its confirm, 2 handlings, 3 sessions, 1 restart, failing disk writes | every job implements CommitConfirm, across a restart; watchdogs resolve, the deferred ack leaves, the queue empties |
| sysupgrade (243,348) | keeping the configuration or not, 10 handlers, 2 lost sessions or failed bootstraps, 2 restarts, 2 failed writes of the sentinel | FlashedAgainOnlyIfLost: a second flash needs a lost clean start; ReconnectsResume; the command leaves the queue for good once the sentinel can be written |
| standing (76,370) | 1 key, 5 goroutines, 2 sessions, 2 overlapping stops, 1 late handler | nothing orphaned, stale or closed twice; a stop stops, a key that is re-sent is polled |
| paho (247,250) | 2 attempts, 2 publishers, limit 3 | reasons, the channel, the client of a session; a black-holed session ends by failing publishes alone |
| listen (4,546) | matching, other and over-long lines, buffers of 2, publishes that may hang | the reader drains, nothing is left behind; a stop stops, a dead subprocess is restarted |
| apply (2,130,859) | 2 packages, 2 commands one after the other, each a config_apply or a uci_set of up to 3 lines, every call may fail or take effect late | the planned calls do what `Wanted` says; all staged before anything is committed; flash holds whole commands; nothing stays staged but what `kept` says; an acknowledged uci_set has done what its lines mean |
| reload (177,564) | 3 package lists and all combinations of 16 trigger sets, 9 tables, 3 sets of scripts, 4 of enabled services | a disabled service is reloaded only by a live procd trigger for that package; every command runs once, whatever failed before, unless its first package's service is disabled |
| activity_log (1,211,808) | 2 goroutines, a cap of 6 lines, 9 lines, 1 restart or power cut | the log is in order, has the recent lines and what a trim kept, and while no two trims overlap; it stays within the cap while no size check or trim fails |
| files (215,148) | 11 commands of 8 types, 2 handlers one after the other or overlapping, 1 restart | an acknowledged command that ran alone has done what it says; a replaced file is never partial or unverified |

Why the bounds suffice. The races are between two jobs, two sessions, two tasks
of a key or two connections: each bound admits two of them and, where the third
matters (a redelivery to a third session, the successor of a stopped task that
has a successor), three. The keys of the registry do not influence each other:
every action of Standing reads and writes the entry of one key, so one key is
enough for TLC, and the proofs cover any number. Packages do meet, in the two
phases of an apply, so `apply` and `serial` have two. A command finds what an earlier one
has left in the staging area, which takes two commands; the lines of a script are chosen so that
a line reads what the one before has written, and so that a commit or a revert follows a failed
line. Ten handlers, two drops, two restarts and two failed writes let a sysupgrade be redelivered
before the flash, overlap itself, flash again for each clean start that was lost, meet a restart at
any point of the bootstrap after it and another one after that; ten is more than these deliver it. A cap of six
lines is the smallest in which a trim keeps some lines and drops some, nine lines let a trim follow
a trim, and two goroutines suffice for every race on the temporary file. `MaxSeen` is 2
where all commands must fit, as 32 do in the code, and 1 where the record
overflows. The limit on publish failures is 3, as in the code. A buffer of 2 is
empty, partly filled and full. The files and payloads of `apply` have sections
of each kind (named, anonymous, none) in orders that make the reuse index and
the deletion differ from a naive one.

### Runs that are violated

`setup_rollback` checks a statement quoted from a comment of the code against what the
code does. Section 6 describes it, and the further counterexamples whose configurations are kept
beside it.

## 4. Fairness

* **ConfigApply**: weak fairness of the noticing of a dead connection
  (keepalive and publish failures), of the Run goroutine, of the dispatcher and of every
  handler and watchdog: Go schedules runnable goroutines, and every wait of theirs has a
  timer or a deadline. The last session of the bound is not dropped, which stands for
  "eventually the network is stable". Nothing is assumed of the server.
  The reload of the services has no deadline in the code; that it returns is an
  assumption of this run.
* **Sysupgrade**: start-up, the session and the handlers, and the delivery of a token
  to a device that waits for one (it polls for the file; without a token it waits for ever,
  and nothing could be said of its queue). Failed bootstraps and lost sessions are bounded,
  which stands for a server that answers in the end. So are failed writes of the sentinel: on a
  device whose overlay can never be written, a command that keeps the configuration is redelivered
  and flashed after every reboot, and UpgradeResolves would be false.
* **Applier, UciSet, Reload, ActivityLog, DeviceFiles**: no liveness is claimed and no
  fairness assumed: a handler is a straight line of calls. Those to ubus have a time limit; the
  reload commands (`reload.go:164`) have none.
* **Standing**: the session's steps, the tasks' steps, and the backend's
  re-sending of a registration in every report cycle; strong fairness of
  `Leave`, because Go's `select` picks among ready channels at random, so a
  ready stop channel is not passed over for ever.
* **PahoClient**: Connect, publishers and callbacks that have begun. None of the
  keepalive: the run shows that publish failures alone suffice.
* **UbusListen**: its goroutines, but not its publishes, which wait for the
  network. `ReaderKeepsUp` holds all the same; ListenStops and Restarts assume
  `PublishesReturn`, stated in the property (the MQTT client gives every publish a
  deadline), and Restarts also `UbusStarts`, that ubus can be started again in the end.

## 5. The proofs

Assumptions: the `ASSUME`s of the modules, which type the constants, and those a theorem
states itself.

**ConfigApplyProofs.** `TypeCorrectness` proves TypeOK with two strengthenings:
`JobsOK` (jobs are numbered in order and have a command) and `QueueOK` (the
PUBACKs under way never exceed the queue), without which neither the head of
the queue nor the new job is defined. `PcOK` says which places of handler, watchdog
and verdict go together; it carries all the rest:

* `ConfirmChannelAlwaysOpen`: the registered channel belongs to a running
  watchdog of the registered command and is open. TLC's invariant alone is not inductive:
  a new job must have an unclosed channel (`FreshUnconfirmed`).
* `AlwaysConfirmedByServer`: needs that the broker holds only what was sent
  (`QueueSent`) and the previous one.
* `AlwaysActiveOnlyWhileRunning`: from `PcOK`.
* `AlwaysHandledOnce`: *when the record can hold all commands*; `SeenOK` says that
  the record has the command of every job of this process.
* `AlwaysNoContradictoryAcks`: *without restarts*; from `ReportsOK` (every ack,
  delivered or deferred, reports its job's verdict) and `HandledOnce`.
* `AlwaysRolledBackStaysOut`, `AlwaysConfirmedStaysIn`: what a rollback takes out and leaves,
  for a server that has one unacknowledged command out (`OneAtATime`; the record holds every
  command, no restarts, no disk faults). No state of the files alone is inductive: a rollback
  writes a backup taken long before. The argument: two commands are never in flight
  (`SingleInFlight`), so a job starts only when all earlier ones have been acked and are decided
  (`OlderDecided`); hence only the newest job still writes, its backup is what the earlier
  jobs left (`TrueTo(backup, n - 1)`), and the files are that backup, or that backup
  with its own packages on top (`DiskTrue`). With a window of two both properties are false
  (`MCConfigApply_stale_restore`).
* `AgentImplementsCommitConfirm`: under `phaseBar`, initial states map to
  initial states and each action to the abstract action named in its step, or
  to a stutter.

**StandingProofs**: types, `NoOrphan`, `RegisteredAlive`, `StopClosedOnce`, by one
invariant over registry, `closing` and the tasks: an entry is owned by one
unstopped task, and a stop channel leaves the registry before it is closed. Of UbusListen:
types and capacities; `NothingLeftBehind` by what the stages of the teardown imply about the
goroutines they have waited for; `ListenIsATask`: whatever loop, pipeline and subprocess do, seen
from the registry a listen waits, ticks or leaves as a task of Standing does. It leaves only
from a `select`, when it is told to, and never comes back.

**PahoClientProofs**: types; `ClosedHasReason` by an invariant on the callbacks and
publishers that are between naming and closing; `SessionOwnsClient` by
what each stage of Connect has already replaced; `FirstReasonWins` as a step property.

**SysupgradeProofs**: types; `AlwaysResumes` by `ServedResumes` (a process that has
been connected owes no clean start, and only such a process runs handlers);
`FlashedOnceOnly` by following what a flash leaves to the next process: while the broker holds
the command and no clean start was lost (`Lost`), one is owed, first by the sentinel or the missing
credentials, then by `needsCleanStart`, and no process that owes one hands the command to a
handler. A failed write, another handler's failed exec and a restart at the one bad moment of the
bootstrap are steps of the theorem, and the only ones that make `Lost` true.

**UciSetProofs**, for handlers of both kinds and any payloads and scripts:
`StageErrorIsHarmless` (one handler after the other): until it commits, a handler has
changed no section on flash (`Uncommitting`); the strengthening says which results go with which
places. `StagingLeftClean`, which holds for overlapping handlers too: whatever package differs
between the staging area and flash is one that some handler has still to commit or to revert
(`Dirty`) or is in `kept`. It needs that the lists of a handler fit its place (`Listed`).
`ScriptsAreExact` (one handler after the other, lines that are `Addressed`, ids that do not run out:
`[]IdsLeft`, which also holds in the run): while no line has failed, the packages say what
the lines executed so far mean (`Progress`), the lines left are the last ones of the script
(`Scripted`), and the call that is next is the one planned on what is staged now (`Planning`); the
packages stay well formed, ids unique (`Wells`). What it rests on are facts about data: that the
positions a selection lists are all there and in order, shown by least counterexample for its
recursive function, so that a call on a section changes exactly one place of what the package says
(`AppendBare`, `ChangeNamed`, `DropBare`...), and that this place is the one the line means
(`LineMeans`). Handlers that are not running change nothing, and a script that has failed promises
nothing, whatever its remaining calls do.
`AppliesExactly` and `PackagesAreWhole` (one handler after the other, `[]IdsLeft`, payloads that
are `SoundConfig`: a known mode, each type and each section name once, options that are functions;
TLC evaluates that those of the runs are, `AllSound`). First, without states: making the calls of
`StagePlan` one after the other turns what the package says into `Wanted` (`PlanApplied`). It is
built up from the flattened plan (`LeadsFlat`: the calls of all parts are those of one part after
the other), the calls for a section (`NameApplied`, `PlaceApplied`, `AddApplied`), for a type
(what its first i sections have done, `SoFar`), for all types (`TypesDone`), and the deletions
before them, which leave exactly the wanted sections. Then the invariant (`HInv`): what is
planned for a package was planned on what was staged there when the command began, the calls made
and those left are that plan (`Underway`); a package that is staged says what is wanted
(`StagingHeld`); of the packages in order, flash has that of the committed ones and what it had
of the others (`CommitHeld`), also once the handler reverts and has returned (`EndHeld`). It needs
that the packages stay well formed (`Wells`), that options stay functions, and that a
package without a file is empty (`NoFile`), for such a package is read as one with no sections.

**ReloadProofs**: `GatedUnlessProcd` and `EachReloadedOnce` by what the loop has done with
the packages it has passed: their commands are the seen ones (`Met`), each has run at most
once and with an open gate (`Once`), and the first package of a command ran it if its gate was
open (`FirstRan`); each of them has a first one with its command (`Earliest`). Tier by tier, a
command with an open gate reloads an enabled service or comes from a live trigger.

**ActivityLogProofs**, for any number of goroutines, any cap and any crashes: types; order, recent lines
and the survival of a trim by one invariant (`IInv`): as long as no two trims had the temporary
file at once, it belongs to one goroutine (`Alone`), holds exactly what that goroutine has
read (`TmpComplete`), and that is a good log itself (`DataGood`), so the rename replaces a good
log by a good one. `AlwaysBounded`, with overlapping trims too: the log has room for a line of
each goroutine that will append without another look at the size (`ToAppend`); a goroutine whose
temporary file another one has renamed counts as one of them, for its own rename frees nothing.

**DeviceFilesProofs**, for any commands, paths and failures, any number of handlers, overlapping or
not, and any restarts: types (`FilesTypes`). `AlwaysVerified`, *when no path is both replaced and
written in place or removed* (`InPlaceElsewhere`; a `file_transfer` may name any path, and nothing
protects a key file from it): as long as two handlers have not had the temporary file
of a path at once, the one that has it finds in it what it has written, up to where it is
(`Written`, with `Exclusive`). `AlwaysAckedDone`: beside a handler that runs alone nothing runs
until another begins (`AloneOnly`), so every file it has passed is as it left it (`Progress`).

The refinement is proved with restarts and disk faults. Every invariant and every step
property of the passing runs is stated by a theorem. Only model-checked: the liveness properties,
for they and ENABLED are beyond the prover.

## 6. What the models found

One run of the project contradicts a comment of the code:

| run | property | the code |
|---|---|---|
| setup_rollback | RollbackOnlyOffline | a `config_apply` handled, or a timer that fires, while `runSession` still sets the session up finds no session channel and is rolled back although the connection is up |

The following are configurations to run by hand. Each states something one could
expect of the code, and TLC shows how it fails:

| configuration | property | the code |
|---|---|---|
| MCConfigApply_timer_confirm | TimerConfirmsOnlyOnline | the timer takes the channel of a dead connection for a live session |
| MCConfigApply_confirm_ignored | ConfirmHonoured | a confirm that arrives during the rollback is consumed and ignored |
| MCConfigApply_fast_reconnect | ActiveWhileWaiting | one `watchdogActive` for all watchdogs: the first to return clears it |
| MCConfigApply_ack_lost | RollbackAckKept | a deferred ack that cannot be published is gone |
| MCConfigApply_stale_restore | RolledBackStaysOut | two overlapping applies rolled back in order bring the first one's content back |
| MCConfigApply_redelivered | ReapplyIsNoOp | a command that fell out of the duplicate record overwrites a later one |
| Sysupgrade_reflash | FlashedOnce | after a factory reset, a restart between saving new credentials and the clean connect forgets the clean start and flashes again |
| Sysupgrade_torn_image | ExecsTestedImage | a redelivered sysupgrade rewrites the image the first handler is about to flash |
| MCStanding_outlives | EndsWithSession | a watch started during the setup is not ended by the session's end |
| MCPahoClient_stale_trip | HealthyNotTripped | failures of a lost connection trip the next one, on which no publish has failed; a trip already decided closes the connection that is current by then |
| UbusListen_long_line | PipeNeverStalls | a line above 64 KiB stops the pump while the pipe fills |
| MCUciSet_overlap | WholeCommands | the commit of one handler writes what another has half staged |
| MCUciSet_read_error | AppliedOrFailed | a read error is taken for a missing package, and the apply reports success |
| MCUciSet_staged | StagedStays | what a `uci_set` without a commit has staged is reverted with the next `config_apply` that fails |
| MCUciSet_redelivered | RedeliveredChangesNothing | a `uci_set` that is delivered twice adds its sections and list items twice |
| MCReload_shared | EveryPackageReloaded | a command skipped for a disabled service counts as run |
| ActivityLog_torn | NeverTorn | two trims share one temporary file, and the log no longer begins with what the last trim kept |
| MCDeviceFiles_torn | NeverTorn | two transfers to one path share one temporary file, and a mixture replaces the target |
| MCDeviceFiles_half_pushed | PairsMatch | a push whose second write fails leaves the new certificate with the old key |
| MCDeviceFiles_remove_forgets | RemovesPushed | after a restart `tls_cert_remove` removes the default pair, not the pushed one |

`Sysupgrade_reflash` is the instance for a factory reset. With `KeepConfig = {TRUE}` and
`MaxRestarts = 0` the configuration that is kept is flashed twice in two other ways: with
`MaxFailures = 1` because the sentinel could not be written (`sysupgrade.go:218` logs it and flashes
on), and with `MaxHandlers = 4` because the handler of a lost session, whose exec fails, removes the
sentinel that the next session's handler has written (`sysupgrade.go:230`). FlashedAgainOnlyIfLost
of `sysupgrade` says that there is no fourth.

`MCConfigApply_redelivered` uses a record of one entry where the code has 32; in the
code 32 other commands must pass before the redelivery.

## 7. What is not modelled

* Real time: the back-off of `Run`, the lengths of the watchdog and of timeouts. A timer may
  fire at any moment, which covers every length.
* The delays of bootstrap and the contents of its exchange with the server; every outcome of an
  attempt is modelled, its duration is not.
* A loss of power in DeviceFiles: its restarts end the process, and what was written stays. The
  code does not sync these files, so a power cut may lose or shorten a file that was just renamed.
  In ActivityLog the power may be cut; a rename is taken to survive it.
* What a value means: address parsing of `uci_set`, JSON decoding, which line of the shadow file
  changes, the checksum itself. A line or a payload is well formed or is not.
* ubus call and list, shell_exec, services, log forwarding and fetching:
  one request and one reply, no state between commands.
* Hardware identification, parsing, topic names, payload formats, `main`.
* The subscription routing of the MQTT wrapper and the Go mutexes: a critical
  section is one step, except Connect's, which lasts.

## 8. Plan

Order: what undoes or keeps a configuration first, then what decides about a
session, then what runs inside a session, then what commands leave on the device. Done:
all modules of section 2, and the theorems of section 5.

Left, to model:

1. The reload between commit and watchdog in ConfigApply, with a command that
   hangs: no watchdog protects that window.
2. `Run`'s back-off and the bypass during a watchdog, with time.
3. The rest of the Run goroutine's reports, once a property is about their order.

Left, to prove: nothing that a passing run checks as an invariant or a step property. Worth
stating, checking and proving next is what is left of AppliedExactly and PackageWhole when handlers
overlap whose payloads name different packages: both are false for the same one (MCUciSet_overlap).
