----------------------------- MODULE ReloadProofs ---------------------------
(***************************************************************************)
(* Proofs about Reload, for any packages, rules, tables and scripts.       *)
(*                                                                         *)
(* The loop is described by what it has done with the packages before next *)
(* (Met, Earliest, Once, FirstRan): their commands are the seen ones, each *)
(* command has a first package, and ran for that one if its gate was open. *)
(***************************************************************************)
EXTENDS Reload, SequenceTheorems, TLAPS

Before == {i \in 1 .. Len(pkgs) : i < next /\ Found(pkgs[i])}

\* The commands of the packages before next have been met, no others.
Met == seenCmd = {Command(pkgs[i]) : i \in Before}

\* The packages before next have a first one with their command.
FirstOf(j, i) ==
  /\ j <= i /\ Command(pkgs[j]) = Command(pkgs[i])
  /\ \A k \in Before : k < j => Command(pkgs[k]) # Command(pkgs[j])

Earliest == \A i \in Before : \E j \in Before : FirstOf(j, i)

\* What may have run: the command of a package whose gate is open, on its account.
Runnable ==
  {[pkg |-> pkgs[i], cmd |-> Command(pkgs[i])] : i \in {i \in Before : GateOpen(pkgs[i])}}

\* Nothing else has run, and no command twice.
Once ==
  /\ ran \in Seq(Runnable)
  /\ \A k, n \in DOMAIN ran : ran[k].cmd = ran[n].cmd => k = n

\* The first package of a command ran it if its gate was open.
FirstRan ==
  \A i \in Before :
    /\ GateOpen(pkgs[i])
    /\ \A j \in Before : j < i => Command(pkgs[j]) # Command(pkgs[i])
    => \E k \in DOMAIN ran : ran[k].cmd = Command(pkgs[i])

\* What the discovery may have found.
Discovered ==
  /\ ubusTriggers \in ParsedTriggers \cup {<<>>}
  /\ trackEntries \in {track, <<>>}

\* Every entry of the table names an init script or a command.
Usable == \A p \in DOMAIN track : track[p].init # None \/ track[p].exec # None

Places ==
  /\ Len(pkgs) \in Nat /\ DOMAIN pkgs = 1 .. Len(pkgs)
  /\ \A i \in DOMAIN pkgs : pkgs[i] # None
  /\ next \in 1 .. Len(pkgs) + 1
  /\ pc = "discover" => next = 1
  /\ pc = "done" => next = Len(pkgs) + 1

LoopInv == Places /\ Usable /\ Discovered /\ Met /\ Earliest /\ Once /\ FirstRan

-----------------------------------------------------------------------------
(* Commands of a single package. *)

\* The command of a package whose gate is open may run on its account.
LEMMA OpenMayRun ==
  ASSUME Discovered, Usable, NEW p, p # None, GateOpen(p)
  PROVE  \/ \E s \in enabled : Reloads(p, Command(p), s)
         \/ /\ p \in DOMAIN ubusTriggers \ DOMAIN serviceMap
            /\ <<p, Command(p)>> \in triggers
<1> USE DEF Reloads
<1>1. CASE p \in DOMAIN serviceMap
  <2>1. p \in {"wireless", "network", "system", "firewall", "dhcp"}
    BY <1>1 DEF serviceMap
  <2>2. Resolve(p) = serviceMap[p]
    BY <1>1 DEF Resolve
  <2>3. CASE p = "wireless"
    <3>1. Command(p) = <<"wifi", "reload">> /\ Resolve(p).init = "network"
      BY <2>2, <2>3 DEF Command, serviceMap
    <3>2. "network" \in enabled
      BY <3>1 DEF GateOpen, None
    <3> QED
      BY <3>1, <3>2
  <2>4. CASE p = "network"
    <3>1. Command(p) = Script("network") /\ Resolve(p).init = "network"
      BY <2>2, <2>4 DEF Command, serviceMap
    <3>2. "network" \in enabled
      BY <3>1 DEF GateOpen, None
    <3> QED
      BY <3>1, <3>2
  <2>5. CASE p = "system"
    <3>1. Command(p) = Script("system") /\ Resolve(p).init = "system"
      BY <2>2, <2>5 DEF Command, serviceMap
    <3>2. "system" \in enabled
      BY <3>1 DEF GateOpen, None
    <3> QED
      BY <3>1, <3>2
  <2>6. CASE p = "firewall"
    <3>1. Command(p) = Script("firewall") /\ Resolve(p).init = "firewall"
      BY <2>2, <2>6 DEF Command, serviceMap
    <3>2. "firewall" \in enabled
      BY <3>1 DEF GateOpen, None
    <3> QED
      BY <3>1, <3>2
  <2>7. CASE p = "dhcp"
    <3>1. Command(p) = Script("dnsmasq") /\ Resolve(p).init = "dnsmasq"
      BY <2>2, <2>7 DEF Command, serviceMap
    <3>2. "dnsmasq" \in enabled
      BY <3>1 DEF GateOpen, None
    <3> QED
      BY <3>1, <3>2
  <2> QED
    BY <2>1, <2>3, <2>4, <2>5, <2>6, <2>7
<1>2. CASE p \notin DOMAIN serviceMap /\ p \in DOMAIN ubusTriggers
  <2>1. Command(p) = ubusTriggers[p]
    BY <1>2 DEF Resolve, Command
  <2>2. <<p, ubusTriggers[p]>> \in triggers
    BY <1>2 DEF Discovered, ParsedTriggers
  <2> QED
    BY <1>2, <2>1, <2>2
<1>3. CASE p \notin DOMAIN serviceMap \cup DOMAIN ubusTriggers /\ p \in DOMAIN trackEntries
  <2>1. trackEntries = track
    BY <1>3 DEF Discovered
  <2>2. Resolve(p) =
          [cmd |-> IF track[p].exec = None THEN Script(track[p].init)
                                         ELSE <<track[p].exec>>,
           init |-> IF track[p].init = None THEN p ELSE track[p].init]
    BY <1>3, <2>1 DEF Resolve
  <2>3. Command(p) = (IF track[p].exec = None THEN Script(track[p].init)
                                           ELSE <<track[p].exec>>)
    BY <2>2 DEF Command
  <2>4. (IF track[p].init = None THEN p ELSE track[p].init) \in enabled
    BY <2>2 DEF GateOpen
  <2>5. CASE track[p].exec = None
    BY <1>3, <2>1, <2>3, <2>4, <2>5 DEF Usable
  <2>6. CASE track[p].exec # None
    BY <1>3, <2>1, <2>3, <2>4, <2>6
  <2> QED
    BY <2>5, <2>6
<1>4. CASE p \notin DOMAIN serviceMap \cup DOMAIN ubusTriggers \cup DOMAIN trackEntries
  <2>1. Resolve(p) = [cmd |-> Script(p), init |-> p]
    BY <1>4 DEF Resolve
  <2>2. Command(p) = Script(p) /\ p \in enabled
    BY <2>1 DEF Command, GateOpen
  <2> QED
    BY <2>2
<1> QED
  BY <1>1, <1>2, <1>3, <1>4

-----------------------------------------------------------------------------
(* The loop. *)

\* An appended command is the last one.
LEMMA AppendsOne ==
  ASSUME NEW S, NEW s \in Seq(S), NEW c
  PROVE  /\ Append(s, c) \in Seq(S \cup {c})
         /\ Len(s) \in Nat
         /\ DOMAIN s = 1 .. Len(s)
         /\ DOMAIN Append(s, c) = 1 .. Len(s) + 1
         /\ \A k \in 1 .. Len(s) : Append(s, c)[k] = s[k] /\ s[k] \in S
         /\ Append(s, c)[Len(s) + 1] = c
<1>1. s \in Seq(S \cup {c})
  BY SeqMonotonic
<1> QED
  BY <1>1

\* Nothing has been done before the discovery.
LEMMA InitLoop == Init => LoopInv
<1> SUFFICES ASSUME Init PROVE LoopInv
    OBVIOUS
<1>1. Places
  BY ReloadAssumption DEF Init, Places
<1>2. Usable
  BY ReloadAssumption DEF Init, Usable
<1>3. Discovered
  BY DEF Init, Discovered
<1>4. Before = {}
  BY <1>1 DEF Init, Before, Places
<1>5. Met
  BY <1>4 DEF Init, Met
<1>6. ran \in Seq(Runnable) /\ DOMAIN ran = {}
  BY DEF Init
<1>7. Once
  BY <1>6 DEF Once
<1>8. FirstRan /\ Earliest
  BY <1>4 DEF FirstRan, Earliest
<1> QED
  BY <1>1, <1>2, <1>3, <1>5, <1>7, <1>8 DEF LoopInv

\* The discovery fixes the commands before the first package is looked at.
LEMMA DiscoverKeeps == LoopInv /\ Discover => LoopInv'
<1> SUFFICES ASSUME LoopInv, Discover PROVE LoopInv'
    OBVIOUS
<1> USE DEF LoopInv, Discover, deviceVars
<1>1. Places' /\ Usable' /\ Discovered'
  BY DEF Places, Usable, Discovered, ParsedTriggers
<1>2. Before = {} /\ Before' = {}
  BY <1>1 DEF Before, Places
<1>3. Met' /\ FirstRan' /\ Earliest'
  BY <1>2 DEF Met, FirstRan, Earliest
<1>4. Runnable = {} /\ Runnable' = {}
  BY <1>2 DEF Runnable
<1>5. Once'
  BY <1>4 DEF Once
<1> QED
  BY <1>1, <1>3, <1>5

\* A step of the loop leaves what is found for a package as it is.
LEMMA SameResolution ==
  ASSUME UNCHANGED <<deviceVars, discoveryVars>>, NEW p
  PROVE  /\ Found(p)' <=> Found(p)
         /\ Command(p)' = Command(p)
         /\ GateOpen(p)' <=> GateOpen(p)
<1>1. UNCHANGED <<scripts, enabled, ubusTriggers, trackEntries>>
  BY DEF deviceVars, discoveryVars
<1>2. Found(p)' <=> Found(p)
  BY <1>1 DEF Found
<1>3. Resolve(p)' = Resolve(p)
  BY <1>1 DEF Resolve
<1> QED
  BY <1>1, <1>2, <1>3 DEF Command, GateOpen

\* A step to the next package: the packages before it are one more, if a
\* command was found for the one at hand.
LEMMA StepsOn ==
  ASSUME LoopInv, More, next' = next + 1, pc' = pc,
         UNCHANGED <<deviceVars, discoveryVars>>
  PROVE  /\ Places' /\ Usable' /\ Discovered'
         /\ next \notin Before
         /\ \A i \in Before : i < next
         /\ Found(Package) => Before' = Before \cup {next}
         /\ ~ Found(Package) => Before' = Before
         /\ \A i \in Before' : /\ Command(pkgs[i])' = Command(pkgs[i])
                               /\ GateOpen(pkgs[i])' <=> GateOpen(pkgs[i])
         /\ Earliest'
         /\ Runnable \subseteq Runnable'
<1> USE DEF LoopInv, Places
<1>1. UNCHANGED <<pkgs, triggers, track, ubusTriggers, trackEntries>>
  BY DEF deviceVars, discoveryVars
<1>2. next \in 1 .. Len(pkgs) /\ pc = "loop"
  BY DEF More
<1>3. Places' /\ Usable'
  BY <1>1, <1>2 DEF Usable
<1>4. Discovered'
  BY <1>1 DEF Discovered, ParsedTriggers
<1>5. next \notin Before /\ \A i \in Before : i < next
  BY <1>2 DEF Before
<1>6. \A i \in 1 .. Len(pkgs) : Found(pkgs[i])' <=> Found(pkgs[i])
  BY <1>1, SameResolution
<1>7. Before' = {i \in 1 .. Len(pkgs) : i < next + 1 /\ Found(pkgs[i])}
  BY <1>1, <1>6 DEF Before
<1>8. \A i \in Before' : /\ Command(pkgs[i])' = Command(pkgs[i])
                         /\ GateOpen(pkgs[i])' <=> GateOpen(pkgs[i])
  BY <1>1, SameResolution
<1>9. Found(Package) => Before' = Before \cup {next}
  BY <1>2, <1>7 DEF Before, Package
<1>10. ~ Found(Package) => Before' = Before
  BY <1>2, <1>7 DEF Before, Package
<1>11. Before' = Before \/ Before' = Before \cup {next}
  BY <1>9, <1>10
<1>12. \A i, j \in Before' :
         FirstOf(j, i)' <=>
           /\ j <= i /\ Command(pkgs[j]) = Command(pkgs[i])
           /\ \A k \in Before' : k < j => Command(pkgs[k]) # Command(pkgs[j])
  BY <1>8 DEF FirstOf
<1>13. Earliest'
  <2> SUFFICES ASSUME NEW i \in Before' PROVE \E j \in Before' : FirstOf(j, i)'
      BY DEF Earliest
  <2>1. ASSUME NEW g \in Before, g <= i, Command(pkgs[g]) = Command(pkgs[i])
        PROVE  \E j \in Before' : FirstOf(j, i)'
    <3>1. PICK j \in Before : FirstOf(j, g)
      BY <2>1 DEF Earliest
    <3>2. j \in Before' /\ j < next /\ j <= i
      BY <1>5, <1>11, <2>1, <3>1 DEF FirstOf, Before
    <3>3. \A k \in Before' : k < j => k \in Before
      BY <1>2, <1>11, <3>2 DEF Before
    <3> QED
      BY <1>12, <2>1, <3>1, <3>2, <3>3 DEF FirstOf
  <2>2. CASE i \in Before
    BY <2>1, <2>2 DEF Before
  <2>3. CASE i \notin Before /\ \E g \in Before : Command(pkgs[g]) = Command(pkgs[i])
    <3>1. i = next
      BY <1>11, <2>3
    <3> QED
      BY <2>1, <2>3, <3>1 DEF Before
  <2>4. CASE i \notin Before /\ \A g \in Before : Command(pkgs[g]) # Command(pkgs[i])
    <3>1. i = next /\ i <= i
      BY <1>2, <1>11, <2>4
    <3>2. \A k \in Before' : k < i => k \in Before
      BY <1>11, <3>1, <1>2
    <3> QED
      BY <1>12, <2>4, <3>1, <3>2
  <2> QED
    BY <2>2, <2>3, <2>4
<1>14. Runnable \subseteq Runnable'
  <2> SUFFICES ASSUME NEW i \in Before, GateOpen(pkgs[i])
               PROVE  [pkg |-> pkgs[i], cmd |-> Command(pkgs[i])] \in Runnable'
      BY DEF Runnable
  <2>1. i \in Before' /\ GateOpen(pkgs[i])'
    BY <1>8, <1>11
  <2>2. [pkg |-> pkgs[i], cmd |-> Command(pkgs[i])] =
          [pkg |-> pkgs[i]', cmd |-> Command(pkgs[i])']
    BY <1>1, <1>8, <2>1
  <2> QED
    BY <2>1, <2>2 DEF Runnable
<1> QED
  BY <1>3, <1>4, <1>5, <1>8, <1>9, <1>10, <1>13, <1>14

\* Going on without a command, or with one that was met, changes nothing.
LEMMA SkipKeeps == LoopInv /\ (NoPath \/ SkipSeen) => LoopInv'
<1> SUFFICES ASSUME LoopInv, NoPath \/ SkipSeen PROVE LoopInv'
    OBVIOUS
<1> USE DEF LoopInv
<1>1. /\ More /\ next' = next + 1 /\ pc' = pc
      /\ UNCHANGED <<deviceVars, discoveryVars>>
      /\ seenCmd' = seenCmd /\ ran' = ran /\ pkgs' = pkgs
  BY DEF NoPath, SkipSeen, deviceVars, discoveryVars
<1>2. /\ Places' /\ Usable' /\ Discovered'
      /\ \A i \in Before : i < next
      /\ Found(Package) => Before' = Before \cup {next}
      /\ ~ Found(Package) => Before' = Before
      /\ \A i \in Before' : /\ Command(pkgs[i])' = Command(pkgs[i])
                            /\ GateOpen(pkgs[i])' <=> GateOpen(pkgs[i])
      /\ Earliest' /\ Runnable \subseteq Runnable'
  BY <1>1, StepsOn
<1>3. Before \subseteq Before'
  BY <1>2
<1>4. \A i \in Before' : i \notin Before =>
        /\ i = next
        /\ \E j \in Before : Command(pkgs[j]) = Command(pkgs[i])
  <2>1. CASE ~ Found(Package)
    BY <1>2, <2>1
  <2>2. CASE Found(Package)
    <3>1. Command(pkgs[next]) \in seenCmd
      BY <2>2 DEF NoPath, SkipSeen, Seen, Package
    <3> QED
      BY <1>2, <2>2, <3>1 DEF Met
  <2> QED
    BY <2>1, <2>2
<1>5. Met'
  <2>1. {Command(pkgs[i]) : i \in Before'} = {Command(pkgs[i]) : i \in Before}
    BY <1>3, <1>4
  <2>2. {Command(pkgs[i]) : i \in Before}' = {Command(pkgs[i]) : i \in Before'}
    BY <1>1, <1>2
  <2> QED
    BY <1>1, <2>1, <2>2 DEF Met
<1>6. Once'
  BY <1>1, <1>2, SeqMonotonic DEF Once
<1>7. FirstRan'
  <2> SUFFICES ASSUME NEW i \in Before', GateOpen(pkgs[i]),
                      \A j \in Before' : j < i => Command(pkgs[j]) # Command(pkgs[i])
               PROVE  \E k \in DOMAIN ran : ran[k].cmd = Command(pkgs[i])
    BY <1>1, <1>2 DEF FirstRan
  <2>1. i \in Before
    BY <1>2, <1>3, <1>4
  <2> QED
    BY <1>3, <2>1 DEF FirstRan
<1> QED
  BY <1>2, <1>5, <1>6, <1>7

\* A disabled service is marked as seen only.
LEMMA SkipDisabledKeeps == LoopInv /\ SkipDisabled => LoopInv'
<1> SUFFICES ASSUME LoopInv, SkipDisabled PROVE LoopInv'
    OBVIOUS
<1> USE DEF LoopInv
<1>1. /\ More /\ next' = next + 1 /\ pc' = pc /\ Found(Package)
      /\ UNCHANGED <<deviceVars, discoveryVars>>
      /\ seenCmd' = seenCmd \cup {Command(Package)} /\ ran' = ran /\ pkgs' = pkgs
      /\ ~ GateOpen(Package)
  BY DEF SkipDisabled, MarkSeen, deviceVars, discoveryVars
<1>2. /\ Places' /\ Usable' /\ Discovered'
      /\ \A i \in Before : i < next
      /\ Before' = Before \cup {next}
      /\ \A i \in Before' : /\ Command(pkgs[i])' = Command(pkgs[i])
                            /\ GateOpen(pkgs[i])' <=> GateOpen(pkgs[i])
      /\ Earliest' /\ Runnable \subseteq Runnable'
  BY <1>1, StepsOn
<1>3. Met'
  <2>1. {Command(pkgs[i]) : i \in Before}' = {Command(pkgs[i]) : i \in Before'}
    BY <1>1, <1>2
  <2> QED
    BY <1>1, <1>2, <2>1 DEF Met, Package
<1>4. ran \in Seq(Runnable')
  BY <1>2, SeqMonotonic DEF Once
<1>5. Once'
  BY <1>1, <1>4 DEF Once
<1>6. FirstRan'
  BY <1>1, <1>2 DEF FirstRan, Package
<1> QED
  BY <1>2, <1>3, <1>5, <1>6

\* A command that runs, with whatever result, is a new one.
LEMMA RunKeeps == LoopInv /\ (RunSucceeds \/ RunFails) => LoopInv'
<1> SUFFICES ASSUME LoopInv, RunSucceeds \/ RunFails PROVE LoopInv'
    OBVIOUS
<1> USE DEF LoopInv
<1> DEFINE c == Command(Package)
           r == [pkg |-> Package, cmd |-> c]
<1>1. /\ More /\ next' = next + 1 /\ pc' = pc /\ Found(Package)
      /\ UNCHANGED <<deviceVars, discoveryVars>>
      /\ seenCmd' = seenCmd \cup {c} /\ c \notin seenCmd
      /\ ran' = Append(ran, r) /\ pkgs' = pkgs
      /\ GateOpen(Package)
  BY DEF RunSucceeds, RunFails, Run, MarkSeen, Seen, deviceVars, discoveryVars
<1>2. /\ Places' /\ Usable' /\ Discovered'
      /\ \A i \in Before : i < next
      /\ Before' = Before \cup {next}
      /\ \A i \in Before' : /\ Command(pkgs[i])' = Command(pkgs[i])
                            /\ GateOpen(pkgs[i])' <=> GateOpen(pkgs[i])
      /\ Earliest' /\ Runnable \subseteq Runnable'
  BY <1>1, StepsOn
<1>3. c = Command(pkgs[next]) /\ GateOpen(pkgs[next]) /\ Package = pkgs[next]
  BY <1>1 DEF Package
<1>4. r = [pkg |-> pkgs[next], cmd |-> c] /\ r.cmd = c
  BY <1>3
<1> HIDE DEF c, r
<1>5. Met'
  <2>1. {Command(pkgs[i]) : i \in Before}' = {Command(pkgs[i]) : i \in Before'}
    BY <1>1, <1>2
  <2> QED
    BY <1>1, <1>2, <1>3, <2>1 DEF Met
<1>6. /\ ran' \in Seq(Runnable \cup {r})
      /\ Len(ran) \in Nat
      /\ DOMAIN ran = 1 .. Len(ran)
      /\ DOMAIN ran' = 1 .. Len(ran) + 1
      /\ \A k \in 1 .. Len(ran) : ran'[k] = ran[k] /\ ran[k] \in Runnable
      /\ ran'[Len(ran) + 1] = r
  <2>1. ran \in Seq(Runnable)
    BY DEF Once
  <2> QED
    BY <1>1, <2>1, AppendsOne
<1>7. Once'
  <2>1. r \in Runnable'
    <3>1. ASSUME NEW i \in Before', GateOpen(pkgs[i])
          PROVE  [pkg |-> pkgs[i], cmd |-> Command(pkgs[i])] \in Runnable'
      <4>1. GateOpen(pkgs[i])' /\ Command(pkgs[i])' = Command(pkgs[i])
        BY <1>2, <3>1
      <4>2. [pkg |-> pkgs[i], cmd |-> Command(pkgs[i])] =
              [pkg |-> pkgs[i]', cmd |-> Command(pkgs[i])']
        BY <1>1, <4>1
      <4> QED
        BY <4>1, <4>2 DEF Runnable
    <3>2. next \in Before'
      BY <1>2, <1>1
    <3> QED
      BY <1>3, <1>4, <3>1, <3>2
  <2>2. ran' \in Seq(Runnable')
    <3>1. Runnable \cup {r} \subseteq Runnable'
      BY <1>2, <2>1
    <3> QED
      BY <1>6, <3>1, SeqMonotonic
  <2>3. \A k \in DOMAIN ran : ran[k].cmd \in seenCmd
    <3> SUFFICES ASSUME NEW k \in DOMAIN ran PROVE ran[k].cmd \in seenCmd
        OBVIOUS
    <3>1. PICK i \in Before : ran[k] = [pkg |-> pkgs[i], cmd |-> Command(pkgs[i])]
      BY <1>6 DEF Runnable
    <3> QED
      BY <3>1 DEF Met
  <2>4. \A k, n \in DOMAIN ran' : ran'[k].cmd = ran'[n].cmd => k = n
    BY <1>1, <1>4, <1>6, <2>3 DEF Once
  <2> QED
    BY <2>2, <2>4 DEF Once
<1>8. FirstRan'
  <2> SUFFICES ASSUME NEW i \in Before', GateOpen(pkgs[i]),
                      \A j \in Before' : j < i => Command(pkgs[j]) # Command(pkgs[i])
               PROVE  \E k \in DOMAIN ran' : ran'[k].cmd = Command(pkgs[i])
    BY <1>1, <1>2 DEF FirstRan
  <2>1. CASE i = next
    BY <1>3, <1>4, <1>6, <2>1
  <2>2. CASE i \in Before
    <3>1. PICK k \in DOMAIN ran : ran[k].cmd = Command(pkgs[i])
      BY <1>2, <2>2 DEF FirstRan
    <3> QED
      BY <1>6, <3>1
  <2> QED
    BY <1>2, <2>1, <2>2
<1> QED
  BY <1>2, <1>5, <1>7, <1>8

\* LoopInv is inductive.
LEMMA LoopPreserved == LoopInv /\ [Next]_vars => LoopInv'
<1> SUFFICES ASSUME LoopInv, [Next]_vars PROVE LoopInv'
    OBVIOUS
<1>1. CASE Discover
  BY <1>1, DiscoverKeeps
<1>2. CASE NoPath \/ SkipSeen
  BY <1>2, SkipKeeps
<1>3. CASE SkipDisabled
  BY <1>3, SkipDisabledKeeps
<1>4. CASE RunSucceeds \/ RunFails
  BY <1>4, RunKeeps
<1>5. CASE Return \/ UNCHANGED vars
  <2>1. UNCHANGED <<deviceVars, discoveryVars, next, seenCmd, ran>>
    BY <1>5 DEF Return, vars
  <2>2. UNCHANGED <<pkgs, triggers, track, ubusTriggers, trackEntries>>
    BY <2>1 DEF deviceVars, discoveryVars
  <2>3. Places'
    BY <1>5, <2>1, <2>2 DEF LoopInv, Places, Return, vars
  <2>4. Usable' /\ Discovered'
    BY <2>2 DEF LoopInv, Usable, Discovered, ParsedTriggers
  <2>5. \A p : /\ Found(p)' <=> Found(p)
               /\ Command(p)' = Command(p)
               /\ GateOpen(p)' <=> GateOpen(p)
    BY <2>1, SameResolution
  <2>6. Before' = Before
    BY <2>1, <2>2, <2>5 DEF Before
  <2>7. Met' /\ FirstRan'
    BY <2>1, <2>2, <2>5, <2>6 DEF LoopInv, Met, FirstRan
  <2>8. Earliest'
    BY <2>2, <2>5, <2>6 DEF LoopInv, Earliest, FirstOf
  <2>9. Once'
    <3>1. Runnable' = Runnable
      BY <2>2, <2>5, <2>6 DEF Runnable
    <3> QED
      BY <2>1, <3>1 DEF LoopInv, Once
  <2> QED
    BY <2>3, <2>4, <2>7, <2>8, <2>9 DEF LoopInv
<1> QED
  BY <1>1, <1>2, <1>3, <1>4, <1>5 DEF Next

-----------------------------------------------------------------------------
(* The properties. *)

\* What ran is the command of a package whose gate is open.
LEMMA LoopGates == LoopInv => DisabledOnlyByProcd
<1> SUFFICES ASSUME LoopInv, NEW k \in DOMAIN ran
             PROVE  \/ \E s \in enabled : Reloads(ran[k].pkg, ran[k].cmd, s)
                    \/ /\ ran[k].pkg \in DOMAIN ubusTriggers \ DOMAIN serviceMap
                       /\ <<ran[k].pkg, ran[k].cmd>> \in triggers
    BY DEF DisabledOnlyByProcd
<1>1. PICK i \in Before :
        ran[k] = [pkg |-> pkgs[i], cmd |-> Command(pkgs[i])] /\ GateOpen(pkgs[i])
  BY DEF LoopInv, Once, Runnable
<1>2. pkgs[i] # None
  BY DEF LoopInv, Places, Before
<1>3. ran[k].pkg = pkgs[i] /\ ran[k].cmd = Command(pkgs[i])
  BY <1>1
<1> QED
  BY <1>1, <1>2, <1>3, OpenMayRun DEF LoopInv

\* When the loop is over, every package is before next.
LEMMA LoopReloads == LoopInv => ReloadedUnlessFirstDisabled
<1> SUFFICES ASSUME LoopInv, pc = "done", NEW i \in DOMAIN pkgs,
                    Found(pkgs[i]), GateOpen(pkgs[i]),
                    \A j \in Sharing(i) :
                      (\A k \in Sharing(i) : j <= k) => GateOpen(pkgs[j])
             PROVE  \E k \in DOMAIN ran :
                      \A n \in DOMAIN ran : ran[n].cmd = Command(pkgs[i]) <=> n = k
    BY DEF ReloadedUnlessFirstDisabled
<1>1. Before = {j \in DOMAIN pkgs : Found(pkgs[j])} /\ DOMAIN pkgs = 1 .. Len(pkgs)
  BY DEF LoopInv, Places, Before
<1>2. PICK j \in Before : FirstOf(j, i)
  BY <1>1 DEF LoopInv, Earliest
<1>3. j \in Sharing(i) /\ \A k \in Sharing(i) : j <= k
  BY <1>1, <1>2 DEF Sharing, FirstOf, LoopInv, Places
<1>4. GateOpen(pkgs[j])
  BY <1>3
<1>5. PICK k \in DOMAIN ran : ran[k].cmd = Command(pkgs[i])
  BY <1>2, <1>4 DEF LoopInv, FirstRan, FirstOf
<1> QED
  BY <1>5 DEF LoopInv, Once

\* A command that ran reloads an enabled service, or a live trigger of procd names
\* it for the package on whose account it ran.
THEOREM GatedUnlessProcd == Spec => []DisabledOnlyByProcd
BY InitLoop, LoopPreserved, LoopGates, PTL DEF Spec

\* The command of a package that may be reloaded runs once, unless the first
\* package with that command belongs to a disabled service.
THEOREM EachReloadedOnce == Spec => []ReloadedUnlessFirstDisabled
BY InitLoop, LoopPreserved, LoopReloads, PTL DEF Spec

=============================================================================
