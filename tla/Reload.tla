-------------------------------- MODULE Reload ------------------------------
(***************************************************************************)
(* RunReloads: after the commit of a config_apply, find and run the reload *)
(* command of every committed package.  Four tiers are asked in turn: the  *)
(* static table, procd's live triggers, ucitrack.json, and an init script  *)
(* of the package's name.  A command is run once, and not at all when the  *)
(* init script it belongs to is disabled; a command that a live trigger of *)
(* procd names is run without asking.  Parsing is taken as done: triggers  *)
(* and track are the usable entries of the two sources.                    *)
(***************************************************************************)
EXTENDS Integers, Sequences, SequencesExt

\* The empty string of the code.
None == "none"

CONSTANTS
  PackageLists,   \* the committed packages, in order
  TriggerSets,    \* sets of <<package, command>>: procd's config.change rules
  TrackTables,    \* functions from packages to [init, exec], None where absent
  ScriptSets,     \* the init scripts on the device
  EnabledSets     \* the enabled ones

ASSUME ReloadAssumption ==
  /\ \A l \in PackageLists :
       /\ Len(l) \in Nat /\ DOMAIN l = 1 .. Len(l)
       /\ \A i \in DOMAIN l : l[i] # None
  /\ \A t \in TrackTables : \A p \in DOMAIN t : t[p].init # None \/ t[p].exec # None

Script(service) == <<"/etc/init.d", service>>

serviceMap ==
  [wireless |-> [cmd |-> <<"wifi", "reload">>, init |-> "network"],
   network  |-> [cmd |-> Script("network"), init |-> "network"],
   system   |-> [cmd |-> Script("system"), init |-> "system"],
   firewall |-> [cmd |-> Script("firewall"), init |-> "firewall"],
   dhcp     |-> [cmd |-> Script("dnsmasq"), init |-> "dnsmasq"]]

VARIABLES
  pkgs, triggers, track, scripts, enabled,   \* the device, fixed
  ubusTriggers,   \* what newReloadDiscovery got from procd
  trackEntries,   \* ... and from ucitrack.json
  pc,             \* "discover", "loop" or "done"
  next,           \* index of the package at hand
  seenCmd,        \* commands met so far
  ran,            \* what was run, in order: [pkg, cmd], cmd on account of pkg
  errs            \* commands that failed

deviceVars == <<pkgs, triggers, track, scripts, enabled>>
discoveryVars == <<ubusTriggers, trackEntries>>
vars == <<deviceVars, discoveryVars, pc, next, seenCmd, ran, errs>>

Init ==
  /\ pkgs \in PackageLists
  /\ triggers \in TriggerSets
  /\ track \in TrackTables
  /\ scripts \in ScriptSets
  /\ enabled \in EnabledSets
  /\ ubusTriggers = <<>> /\ trackEntries = <<>>
  /\ pc = "discover" /\ next = 1
  /\ seenCmd = {} /\ ran = <<>> /\ errs = {}

\* Services are visited in no particular order, so any of several rules for a
\* package may be the one that is kept.
ParsedTriggers ==
  LET triggered == {t[1] : t \in triggers}
      commands == {t[2] : t \in triggers}
  IN  {f \in [triggered -> commands] : \A p \in triggered : <<p, f[p]>> \in triggers}

\* Each of the two sources may be unavailable.
Discover ==
  /\ pc = "discover"
  /\ ubusTriggers' \in ParsedTriggers \cup {<<>>}
  /\ trackEntries' \in {track, <<>>}
  /\ pc' = "loop"
  /\ UNCHANGED <<deviceVars, next, seenCmd, ran, errs>>

Found(p) == p \in DOMAIN serviceMap \cup DOMAIN ubusTriggers \cup DOMAIN trackEntries \cup scripts

\* The command for p, and the init script whose state gates it (or None).
Resolve(p) ==
  CASE p \in DOMAIN serviceMap -> serviceMap[p]
    [] p \notin DOMAIN serviceMap /\ p \in DOMAIN ubusTriggers ->
         [cmd |-> ubusTriggers[p], init |-> None]
    [] p \notin DOMAIN serviceMap \cup DOMAIN ubusTriggers /\ p \in DOMAIN trackEntries ->
         LET e == trackEntries[p]
         IN  [cmd |-> IF e.exec = None THEN Script(e.init) ELSE <<e.exec>>,
              init |-> IF e.init = None THEN p ELSE e.init]
    [] OTHER -> [cmd |-> Script(p), init |-> p]

Command(p) == Resolve(p).cmd

\* Mutant of GateOpen: a disabled service is reloaded all the same.
AnyGate(p) == TRUE

GateOpen(p) == Resolve(p).init = None \/ Resolve(p).init \in enabled

Seen(p) == Command(p) \in seenCmd

Package == pkgs[next]
More == pc = "loop" /\ next <= Len(pkgs)

NoPath ==
  /\ More /\ ~ Found(Package)
  /\ next' = next + 1
  /\ UNCHANGED <<deviceVars, discoveryVars, pc, seenCmd, ran, errs>>

SkipSeen ==
  /\ More /\ Found(Package) /\ Seen(Package)
  /\ next' = next + 1
  /\ UNCHANGED <<deviceVars, discoveryVars, pc, seenCmd, ran, errs>>

\* The command is marked as seen before the service is looked at.
MarkSeen ==
  /\ More /\ Found(Package) /\ ~ Seen(Package)
  /\ seenCmd' = seenCmd \cup {Command(Package)}

SkipDisabled ==
  /\ MarkSeen
  /\ ~ GateOpen(Package)
  /\ next' = next + 1
  /\ UNCHANGED <<deviceVars, discoveryVars, pc, ran, errs>>

Run ==
  /\ MarkSeen
  /\ GateOpen(Package)
  /\ ran' = Append(ran, [pkg |-> Package, cmd |-> Command(Package)])
  /\ UNCHANGED <<deviceVars, discoveryVars>>

RunSucceeds ==
  /\ Run
  /\ next' = next + 1
  /\ UNCHANGED <<pc, errs>>

\* Mutant of RunFails: the first failure ends the loop.
RunFailsStops ==
  /\ Run
  /\ next' = Len(pkgs) + 1
  /\ errs' = errs \cup {Command(Package)}
  /\ UNCHANGED pc

RunFails ==
  /\ Run
  /\ next' = next + 1
  /\ errs' = errs \cup {Command(Package)}
  /\ UNCHANGED pc

Return ==
  /\ pc = "loop" /\ next > Len(pkgs)
  /\ pc' = "done"
  /\ UNCHANGED <<deviceVars, discoveryVars, next, seenCmd, ran, errs>>

Next ==
  \/ Discover
  \/ NoPath \/ SkipSeen \/ SkipDisabled \/ RunSucceeds \/ RunFails
  \/ Return

Spec == Init /\ [][Next]_vars

-----------------------------------------------------------------------------
(* Properties. *)

\* The services that cmd reloads when it is run for pkg: the one whose init script
\* it is, network for wifi, or the one ucitrack.json gives the package's command.
Reloads(pkg, cmd, service) ==
  \/ cmd = Script(service)
  \/ cmd = <<"wifi", "reload">> /\ service = "network"
  \/ /\ pkg \in DOMAIN track
     /\ cmd = <<track[pkg].exec>>
     /\ service = IF track[pkg].init = None THEN pkg ELSE track[pkg].init

\* A service that the operator disabled is reloaded on one ground only: procd has
\* answered, and a live trigger of its names the command for the very package,
\* which the static table does not know.  That tier is not gated on purpose (a
\* live instance counts for more than the enabled symlink); every other command
\* that ran reloads an enabled service.
DisabledOnlyByProcd ==
  \A i \in DOMAIN ran :
    \/ \E s \in enabled : Reloads(ran[i].pkg, ran[i].cmd, s)
    \/ /\ ran[i].pkg \in DOMAIN ubusTriggers \ DOMAIN serviceMap
       /\ <<ran[i].pkg, ran[i].cmd>> \in triggers

\* Packages up to the i-th with the same command.
Sharing(i) == {j \in 1 .. i : Found(pkgs[j]) /\ Command(pkgs[j]) = Command(pkgs[i])}

\* Whatever failed before it, the command of a package that may be reloaded is run,
\* exactly once however many packages share it, unless the first of them belongs
\* to a disabled service.
ReloadedUnlessFirstDisabled ==
  pc = "done" =>
    \A i \in DOMAIN pkgs :
      /\ Found(pkgs[i]) /\ GateOpen(pkgs[i])
      /\ \A j \in Sharing(i) :
           (\A k \in Sharing(i) : j <= k) => GateOpen(pkgs[j])
      => \E k \in DOMAIN ran :
           \A n \in DOMAIN ran : ran[n].cmd = Command(pkgs[i]) <=> n = k

\* Claimed: the command found for each given package is executed.
EveryPackageReloaded ==
  pc = "done" =>
    \A p \in ToSet(pkgs) :
      Found(p) /\ GateOpen(p) => \E k \in DOMAIN ran : ran[k].cmd = Command(p)
=============================================================================
