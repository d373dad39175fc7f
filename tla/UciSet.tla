------------------------------- MODULE UciSet -------------------------------
(***************************************************************************)
(* The uci_set command: a handler that executes uci lines one by one, in   *)
(* the staging area that the handlers of Applier use too.  A line that     *)
(* fails does not stop the next; nothing is committed but by a commit      *)
(* line, and nothing reverted but by a revert line.                        *)
(*                                                                         *)
(* A line has a verb, a package, an address (a name, or the n-th anonymous *)
(* section of a type), an option ("" for the section itself) and an        *)
(* argument; "bad" is one that does not parse or is not permitted.  Values *)
(* are sequences, a scalar being a list of one.                            *)
(***************************************************************************)
EXTENDS Applier

CONSTANT Scripts   \* the sequences of lines a command may carry

Adding == {"add", "set", "add_list"}               \* create a missing package
Reading == Adding \cup {"get", "delete", "del_list"}

\* A line that parses has a section for an address, but for add, commit and revert;
\* set carries a value, and the list verbs name an option.
Parsed(line) ==
  /\ line.verb \in Reading \cup {"commit", "revert", "bad"}
  /\ line.verb # "bad" => line.pkg \in Names
  /\ line.at.index \in Int
  /\ line.verb = "set" /\ line.opt # "" => line.arg # <<>>
  /\ line.verb \in {"add_list", "del_list"} => line.opt # ""

ASSUME ScriptsAssumption ==
  \A s \in Scripts : s \in Seq(ToSet(s)) /\ \A line \in ToSet(s) : Parsed(line)

VARIABLES
  script   \* of each handler: the lines, those not yet executed, whether one failed

uvars == <<vars, script>>

UInit ==
  /\ Init
  /\ script = [h \in Handlers |-> [all |-> <<>>, lines |-> <<>>, failed |-> FALSE]]

BeginScript(h) ==
  /\ MayBegin(h)
  /\ \E s \in Scripts :
       /\ script' = [script EXCEPT ![h].all = s, ![h].lines = s]
       /\ job' = [job EXCEPT ![h].pc = IF s = <<>> THEN "done" ELSE "line",
                             ![h].result = IF s = <<>> THEN "set_ok" ELSE @,
                             ![h].was = [flash |-> flash, work |-> work]]
  /\ UNCHANGED <<image, flash, work, faults>>

Line(h) == Head(script[h].lines)
At(h, pc) == job[h].pc = pc /\ script[h].lines # <<>>

\* The line's outcome goes into the status of the ack.
LineDone(h, ok) ==
  LET failed == script[h].failed \/ ~ ok
      end == Len(script[h].lines) = 1
  IN  /\ script' = [script EXCEPT ![h].lines = Tail(@), ![h].failed = failed]
      /\ job' = [job EXCEPT ![h].plan = <<>>,
                            ![h].pc = IF end THEN "done" ELSE "line",
                            ![h].result = IF end THEN IF failed THEN "set_error" ELSE "set_ok" ELSE @]

BadLine(h) ==
  /\ At(h, "line") /\ Line(h).verb = "bad"
  /\ LineDone(h, FALSE)
  /\ UNCHANGED <<image, flash, work, faults>>

-----------------------------------------------------------------------------
(* The calls of a line. *)

\* The section an address means, as a sequence of at most one id.
Resolve(secs, at) ==
  LET ids == AnonymousIDs(secs, at.type)
      n == IF at.index < 0 THEN Len(ids) + at.index ELSE at.index
  IN  IF at.type = "" THEN <<at.name>>
      ELSE IF n \in 0 .. Len(ids) - 1 THEN <<ids[n + 1]>> ELSE <<>>

ListOf(secs, id, opt) ==
  LET sec == Find(secs, id)
  IN  IF sec = <<>> \/ opt \notin DOMAIN sec[1].opts THEN <<>> ELSE sec[1].opts[opt]

\* A list without one of its values.
Without(list, arg) == SelectSeq(list, LAMBDA v : <<v>> # arg)

SetOption(id, opt, value) == <<Op("set", id, [o \in {opt} |-> value])>>

WriteList(id, opt, list) ==
  IF list = <<>> THEN <<Op("unset", id, {opt})>> ELSE SetOption(id, opt, list)

\* The calls of a line whose address means the section id.
LineCalls(secs, line, id) ==
  LET list == ListOf(secs, id, line.opt)
  IN  CASE line.verb = "set" /\ line.opt = "" -> CreateOrRetype(secs, id, line.arg)
        [] line.verb = "set" /\ line.opt # "" -> SetOption(id, line.opt, line.arg)
        [] line.verb = "delete" /\ line.opt = "" -> <<Op("delete", id, "")>>
        [] line.verb = "delete" /\ line.opt # "" -> <<Op("unset", id, {line.opt})>>
        [] line.verb = "add_list" -> WriteList(id, line.opt, list \o line.arg)
        [] line.verb = "del_list" -> WriteList(id, line.opt, Without(list, line.arg))
        [] OTHER -> <<>>

\* A get changes nothing and fails where there is nothing to get.
Gets(secs, line, id) ==
  LET sec == Find(secs, id)
  IN  line.verb = "get" => sec # <<>> /\ (line.opt # "" => line.opt \in DOMAIN sec[1].opts)

\* GetSections has returned secs.
Planned(h, secs) ==
  LET line == Line(h)
      id == Resolve(secs, line.at)
      calls == IF line.verb = "add" THEN <<Op("add", "", line.arg)>>
               ELSE LineCalls(secs, line, id[1])
  IN  IF line.verb # "add" /\ (id = <<>> \/ ~ Gets(secs, line, id[1]))
      THEN LineDone(h, FALSE)
      ELSE IF calls = <<>> THEN LineDone(h, TRUE)
      ELSE /\ job' = [job EXCEPT ![h].pc = "call", ![h].plan = calls]
           /\ UNCHANGED script

LineRead(h) ==
  /\ At(h, "line") \/ At(h, "reread")
  /\ Line(h).verb \in Reading
  /\ flash[Line(h).pkg].exists
  /\ Planned(h, work[Line(h).pkg])
  /\ UNCHANGED <<image, flash, work, faults>>

\* Mutant: a failed read makes the line that adds go on with an empty package.
LineReadAssumesEmpty(h) ==
  /\ At(h, "line") \/ At(h, "reread")
  /\ Line(h).verb \in Reading
  /\ IF Line(h).verb \in Adding THEN Planned(h, <<>>) ELSE LineDone(h, FALSE)
  /\ UNCHANGED <<image, flash, work, faults>>

\* A line that adds something creates the package, and reads once more.
LineReadFails(h) ==
  /\ At(h, "line") \/ At(h, "reread")
  /\ Line(h).verb \in Reading
  /\ IF Line(h).verb \in Adding /\ job[h].pc = "line"
     THEN job' = [job EXCEPT ![h].pc = "create"] /\ UNCHANGED script
     ELSE LineDone(h, FALSE)
  /\ UNCHANGED <<image, flash, work, faults>>

LineCreates(h) ==
  /\ At(h, "create")
  /\ flash' = [flash EXCEPT ![Line(h).pkg].exists = TRUE]
  /\ job' = [job EXCEPT ![h].pc = "reread"]
  /\ UNCHANGED <<image, work, faults, script>>

LineCreateFails(h) ==
  /\ At(h, "create")
  /\ LineDone(h, FALSE)
  /\ UNCHANGED <<image, flash, work, faults>>

-----------------------------------------------------------------------------
(* What a line changes: it stays staged until a commit or revert line. *)

MayCall(h) ==
  /\ At(h, "call")
  /\ flash[Line(h).pkg].exists
  /\ Executable(work[Line(h).pkg], Head(job[h].plan))

AfterLine(h) ==
  [work EXCEPT ![Line(h).pkg] = Executed(@, Head(job[h].plan), NewId(Line(h).pkg))]

LineCall(h) ==
  /\ MayCall(h)
  /\ work' = AfterLine(h)
  /\ kept' = kept \cup {Line(h).pkg}
  /\ LineDone(h, TRUE)
  /\ UNCHANGED <<image, flash, misread>>

LineCallFails(h) ==
  /\ At(h, "call")
  /\ work' = work \/ (MayCall(h) /\ work' = AfterLine(h))
  /\ kept' = kept \cup {Line(h).pkg}
  /\ LineDone(h, FALSE)
  /\ UNCHANGED <<image, flash, misread>>

LineCommit(h) ==
  /\ At(h, "line") /\ Line(h).verb = "commit"
  /\ flash' = AfterCommit(Line(h).pkg)
  /\ kept' = kept \ {Line(h).pkg}
  /\ LineDone(h, TRUE)
  /\ UNCHANGED <<image, work, misread>>

LineCommitFails(h) ==
  /\ At(h, "line") /\ Line(h).verb = "commit"
  /\ flash' = flash \/ flash' = AfterCommit(Line(h).pkg)
  /\ LineDone(h, FALSE)
  /\ UNCHANGED <<image, work, faults>>

LineRevert(h) ==
  /\ At(h, "line") /\ Line(h).verb = "revert"
  /\ work' = [work EXCEPT ![Line(h).pkg] = flash[Line(h).pkg].secs]
  /\ kept' = kept \ {Line(h).pkg}
  /\ LineDone(h, TRUE)
  /\ UNCHANGED <<image, flash, misread>>

LineRevertFails(h) ==
  /\ At(h, "line") /\ Line(h).verb = "revert"
  /\ work' = work \/ work' = [work EXCEPT ![Line(h).pkg] = flash[Line(h).pkg].secs]
  /\ LineDone(h, FALSE)
  /\ UNCHANGED <<image, flash, faults>>

-----------------------------------------------------------------------------
ScriptStep(h) ==
  \/ BeginScript(h) \/ BadLine(h)
  \/ LineRead(h) \/ LineReadFails(h) \/ LineCreates(h) \/ LineCreateFails(h)
  \/ LineCall(h) \/ LineCallFails(h)
  \/ LineCommit(h) \/ LineCommitFails(h) \/ LineRevert(h) \/ LineRevertFails(h)

UNext == (\E h \in Handlers : ScriptStep(h)) \/ (Next /\ UNCHANGED script)

USpec == UInit /\ [][UNext]_uvars

-----------------------------------------------------------------------------
(* The reference: what a line means for what a package says. *)

\* Where the n-th of a list is, n counting from 0 or from behind.
Place(list, n) == (IF n < 0 THEN Len(list) + n ELSE n) + 1

\* The options after a line on one of them.
NewOpts(opts, line) ==
  LET old == IF line.opt \in DOMAIN opts THEN opts[line.opt] ELSE <<>>
      new == CASE line.verb = "set" -> line.arg
               [] line.verb = "delete" -> <<>>
               [] line.verb = "add_list" -> old \o line.arg
               [] line.verb = "del_list" -> Without(old, line.arg)
  IN  [o \in (DOMAIN opts \cup {line.opt}) \ {x \in {line.opt} : new = <<>>} |->
         IF o = line.opt THEN new ELSE opts[o]]

\* What v says of the anonymous sections of a type, and v with another such list.
BareOf(v, t) == IF t \in DOMAIN v.anon THEN v.anon[t] ELSE <<>>

With(v, t, list) ==
  [v EXCEPT !.anon = [u \in {u \in DOMAIN @ \cup {t} : u # t \/ list # <<>>} |->
                        IF u = t THEN list ELSE @[u]]]

\* What a package that says v says after a line that changes it.
Meaning(v, line) ==
  LET type == line.at.type
      name == line.at.name
      bare == BareOf(v, type)
      opts == IF name \in DOMAIN v.named THEN v.named[name][2] ELSE <<>>
  IN  CASE line.verb = "get" -> v
        [] line.verb = "add" -> With(v, line.arg, Append(BareOf(v, line.arg), <<>>))
        [] line.verb = "set" /\ line.opt = "" ->
             [v EXCEPT !.named = [n \in DOMAIN @ \cup {name} |->
                                    IF n = name THEN <<line.arg, opts>> ELSE @[n]]]
        [] line.verb = "delete" /\ line.opt = "" /\ type = "" ->
             [v EXCEPT !.named = [n \in DOMAIN @ \ {name} |-> @[n]]]
        [] line.verb = "delete" /\ line.opt = "" /\ type # "" ->
             With(v, type, RemoveAt(bare, Place(bare, line.at.index)))
        [] OTHER ->
             IF type = "" THEN [v EXCEPT !.named[name] = <<@[1], NewOpts(@[2], line)>>]
             ELSE With(v, type, [bare EXCEPT ![Place(bare, line.at.index)] = NewOpts(@, line)])

\* The lines it has a meaning for: they address a section by its name or as the n-th
\* of a type, not by the id that libuci has made up, and only a named one is given a type.
IsName(name) == name # NoId /\ name \notin AnonIds

Addressed(line) ==
  line.verb \in Reading \ {"add", "get"} =>
    /\ line.at.type = "" => IsName(line.at.name)
    /\ line.verb = "set" /\ line.opt = "" => line.at.type = ""

AllAddressed == \A s \in Scripts : \A line \in ToSet(s) : Addressed(line)

\* The configurations that have a meaning: a mode that is known, each type and each
\* name once, no name being the id that libuci has made up.
IsList(s) == s \in Seq(ToSet(s))

SoundSections(ss) ==
  /\ IsList(ss)
  /\ \A i \in DOMAIN ss : IsFcn(ss[i].opts) /\ (ss[i].name = NoId \/ IsName(ss[i].name))
  /\ \A i, j \in DOMAIN ss : ss[i].name = ss[j].name /\ ss[i].name # NoId => i = j

SoundTypes(types) ==
  /\ IsList(types)
  /\ \A i \in DOMAIN types : SoundSections(types[i].sections)
  /\ \A i, j \in DOMAIN types : types[i].type = types[j].type => i = j
  /\ \A i, j \in DOMAIN types : \A k \in DOMAIN types[i].sections, l \in DOMAIN types[j].sections :
       LET n == types[i].sections[k].name
       IN  n = types[j].sections[l].name /\ n # NoId => i = j

SoundConfig(cfg) ==
  /\ Mode(cfg) = "replace" \/ Mode(cfg) = "merge"
  /\ SoundTypes(WantedTypes(cfg))

AllSound ==
  \A pl \in Payloads : \A p \in DOMAIN pl : (pl[p].bad => pl[p].delete) => SoundConfig(pl[p])

\* libuci has an id left for one more anonymous section.
IdsLeft ==
  \A p \in Names :
    \E id \in AnonIds : \A s \in ToSet(work[p]) \cup ToSet(flash[p].secs) : s.id # id

\* The staged and the committed configuration after a line.
After(views, line) ==
  CASE line.verb = "commit" -> [views EXCEPT !.flash[line.pkg] = views.work[line.pkg]]
    [] line.verb = "revert" -> [views EXCEPT !.work[line.pkg] = views.flash[line.pkg]]
    [] OTHER -> [views EXCEPT !.work[line.pkg] = Meaning(@, line)]

\* After the first n lines.
AfterLines(views, lines) ==
  LET v[n \in 0 .. Len(lines)] == IF n = 0 THEN views ELSE After(v[n - 1], lines[n])
  IN  v

Views(f, w) == [flash |-> [p \in Names |-> View(f[p].secs)], work |-> [p \in Names |-> View(w[p])]]

-----------------------------------------------------------------------------
(* Properties. *)

\* A uci_set that is acknowledged as ok has changed what is staged and what is
\* committed, in every package, as its lines mean one after the other: positions
\* counted when their line is executed, lists extended by what the line before has
\* left, a package that could not be read never taken for an empty one (one
\* handler after the other).
ScriptExact ==
  \A h \in Handlers :
    job[h].result = "set_ok" /\ Latest(h) =>
      Views(flash, work)
        = AfterLines(Views(job[h].was.flash, job[h].was.work), script[h].all)[Len(script[h].all)]

\* Claimed by its ack: what a uci_set without a commit line has staged is still
\* staged, or committed, when the next command has returned.
StagedStays ==
  \A h \in Handlers \ {1} :
    /\ job[h - 1].result = "set_ok" /\ script[h - 1].all[Len(script[h - 1].all)].verb = "set"
    /\ job[h].result = "stage_error" /\ Latest(h)
    => work = job[h].was.work

\* Claimed: a redelivered uci_set changes nothing more.
RedeliveredChangesNothing ==
  \A h \in Handlers \ {1} :
    /\ job[h].result = "set_ok" /\ job[h - 1].result = "set_ok" /\ Latest(h)
    /\ script[h].all = script[h - 1].all
    => Views(flash, work) = Views(job[h].was.flash, job[h].was.work)
=============================================================================
