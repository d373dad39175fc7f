------------------------------- MODULE Applier ------------------------------
(***************************************************************************)
(* Applier.Apply: stage every package of a config_apply, then commit them  *)
(* one by one.  Staging goes to the one staging area of the device's UCI,  *)
(* which every handler shares; a handler of a lost session may still run   *)
(* when the next session's begins (Serial = FALSE).  Any call may fail,    *)
(* and one that fails by its timeout may have taken effect.                *)
(***************************************************************************)
EXTENDS UciPackage

CONSTANTS
  Packages,      \* the package names, sorted
  AnonIds,       \* ids of anonymous sections, enough for every run
  Images,        \* the configurations a device may start with
  Payloads,      \* the payloads a command may carry
  MaxHandlers,   \* bound on the invocations of Apply
  Serial         \* a handler starts after the earlier ones have returned

Names == ToSet(Packages)

\* The id of a section that is being added.
NoId == ""

\* Sections have an id of their own; that of an anonymous one is made up by libuci.
WellFormed(secs) ==
  /\ secs \in Seq(ToSet(secs))
  /\ \A s \in ToSet(secs) :
       /\ DOMAIN s = {"id", "type", "anon", "opts"}
       /\ s.anon \in BOOLEAN /\ (s.anon => s.id \in AnonIds)
       /\ s.id # NoId
  /\ \A i, j \in DOMAIN secs : secs[i].id = secs[j].id => i = j

\* Options map names to values: they are functions.
IsFcn(f) == f = [x \in DOMAIN f |-> f[x]]

\* The packages are in an order, each once; a device's sections are well formed, and only
\* a package with a file has sections.
ASSUME ApplierAssumption ==
  /\ MaxHandlers \in Nat
  /\ Serial \in BOOLEAN
  /\ NoId \notin AnonIds
  /\ Packages \in Seq(Names) /\ IsInjective(Packages)
  /\ \A pl \in Payloads : DOMAIN pl \subseteq Names
  /\ \A i \in Images, p \in Names :
       /\ WellFormed(i[p].secs)
       /\ \A s \in ToSet(i[p].secs) : IsFcn(s.opts)
       /\ i[p].exists \/ i[p].secs = <<>>
  /\ \A i \in Images : i \in [Names -> [exists : BOOLEAN, secs : {i[p].secs : p \in Names}]]

\* The invocations of Apply, numbered in the order in which they begin.
Handlers == 1 .. MaxHandlers

VARIABLES
  image,     \* the configuration the device started with
  flash,     \* /etc/config: whether a package has a file, and its sections
  work,      \* the sections with what is staged on top
  job,       \* where each handler is
  \* History: the handlers that could not read a package that exists, and the
  \* packages that may have staged changes of a handler that has returned.
  misread, kept

faults == <<misread, kept>>
vars == <<image, flash, work, job, faults>>

Init ==
  /\ image \in Images
  /\ flash = image
  /\ work = [p \in Names |-> image[p].secs]
  /\ job = [h \in Handlers |->
              [pc |-> "idle", payload |-> <<>>, todo |-> <<>>, staged |-> <<>>,
               plan |-> <<>>, last |-> NoId, committed |-> <<>>, undo |-> <<>>,
               result |-> "none",
               was |-> [flash |-> flash, work |-> work]]]
  /\ misread = {} /\ kept = {}

Current(h) == Head(job[h].todo)
Config(h) == job[h].payload[Current(h)]

MayBegin(h) ==
  /\ job[h].pc = "idle"
  /\ \A g \in 1 .. h - 1 : job[g].pc # "idle"
  /\ Serial => \A g \in 1 .. h - 1 : job[g].pc = "done"

\* The payload is no map of packages: nothing is done.
Reject(h) ==
  /\ MayBegin(h)
  /\ job' = [job EXCEPT ![h].pc = "done", ![h].result = "rejected"]
  /\ UNCHANGED <<image, flash, work, faults>>

Begin(h) ==
  /\ MayBegin(h)
  /\ \E pl \in Payloads :
       LET todo == Selected(Packages, {i \in DOMAIN Packages : Packages[i] \in DOMAIN pl})
       IN  job' = [job EXCEPT ![h].pc = IF todo = <<>> THEN "commit" ELSE "stage",
                              ![h].payload = pl, ![h].todo = todo,
                              ![h].was = [flash |-> flash, work |-> work]]
  /\ UNCHANGED <<image, flash, work, faults>>

-----------------------------------------------------------------------------
(* Phase 1: stage. *)

\* Staging fails: revert the packages staged so far and the current one.
Undo(h) ==
  job' = [job EXCEPT ![h].pc = "revert", ![h].plan = <<>>, ![h].result = "stage_error",
                     ![h].undo = job[h].staged \o <<Current(h)>>]

ParseFails(h) ==
  /\ job[h].pc = "stage"
  /\ Config(h).bad /\ ~ Config(h).delete
  /\ Undo(h)
  /\ UNCHANGED <<image, flash, work, faults>>

MayRead(h) == job[h].pc = "stage" /\ (Config(h).bad => Config(h).delete)

PlanOn(h, secs) ==
  job' = [job EXCEPT ![h].pc = "exec", ![h].plan = StagePlan(secs, Config(h))]

Read(h) ==
  /\ MayRead(h)
  /\ flash[Current(h)].exists
  /\ PlanOn(h, work[Current(h)])
  /\ UNCHANGED <<image, flash, work, faults>>

\* GetSections fails, which is taken to mean that the package does not exist.
ReadFails(h) ==
  /\ MayRead(h)
  /\ misread' = IF flash[Current(h)].exists THEN misread \cup {h} ELSE misread
  /\ IF WantedTypes(Config(h)) = <<>>
     THEN PlanOn(h, <<>>)
     ELSE job' = [job EXCEPT ![h].pc = "ensure"]
  /\ UNCHANGED <<image, flash, work, kept>>

EnsurePackage(h) ==
  /\ job[h].pc = "ensure"
  /\ flash' = [flash EXCEPT ![Current(h)].exists = TRUE]
  /\ PlanOn(h, <<>>)
  /\ UNCHANGED <<image, work, faults>>

EnsureFails(h) ==
  /\ job[h].pc = "ensure"
  /\ Undo(h)
  /\ UNCHANGED <<image, flash, work, faults>>

\* The call at the head of the plan, its id "" standing for the section just added.
Call(h) ==
  LET op == Head(job[h].plan)
  IN  IF op.id = NoId /\ op.op # "add" THEN [op EXCEPT !.id = job[h].last] ELSE op

MayExec(h) ==
  /\ job[h].pc = "exec" /\ job[h].plan # <<>>
  /\ flash[Current(h)].exists
  /\ Executable(work[Current(h)], Call(h))

NewId(p) ==
  CHOOSE id \in AnonIds : \A s \in ToSet(work[p]) \cup ToSet(flash[p].secs) : s.id # id

AfterCall(h) ==
  [work EXCEPT ![Current(h)] = Executed(@, Call(h), NewId(Current(h)))]

ExecStep(h) ==
  /\ MayExec(h)
  /\ work' = AfterCall(h)
  /\ job' = [job EXCEPT ![h].plan = Tail(@),
                        ![h].last = IF Call(h).id = NoId THEN NewId(Current(h)) ELSE @]
  /\ UNCHANGED <<image, flash, faults>>

\* Mutant: the error of a call is ignored.
StepFailsIgnored(h) ==
  /\ job[h].pc = "exec" /\ job[h].plan # <<>>
  /\ job' = [job EXCEPT ![h].plan = Tail(@)]
  /\ UNCHANGED <<image, flash, work, faults>>

\* A call fails, possibly after it took effect.
StepFails(h) ==
  /\ job[h].pc = "exec" /\ job[h].plan # <<>>
  /\ Undo(h)
  /\ work' = work \/ (MayExec(h) /\ work' = AfterCall(h))
  /\ UNCHANGED <<image, flash, faults>>

\* Mutant: a package is committed as soon as it is staged.
PackageStagedCommits(h) ==
  /\ job[h].pc = "exec" /\ job[h].plan = <<>>
  /\ job' = [job EXCEPT ![h].staged = Append(@, Current(h)),
                        ![h].todo = Tail(@),
                        ![h].pc = IF Len(job[h].todo) = 1 THEN "commit" ELSE "stage"]
  /\ flash' = [flash EXCEPT ![Current(h)].secs = work[Current(h)]]
  /\ UNCHANGED <<image, work, faults>>

PackageStaged(h) ==
  /\ job[h].pc = "exec" /\ job[h].plan = <<>>
  /\ job' = [job EXCEPT ![h].staged = Append(@, Current(h)),
                        ![h].todo = Tail(@),
                        ![h].pc = IF Len(job[h].todo) = 1 THEN "commit" ELSE "stage"]
  /\ UNCHANGED <<image, flash, work, faults>>

-----------------------------------------------------------------------------
(* Phase 2: commit. *)

Uncommitted(h) == SubSeq(job[h].staged, Len(job[h].committed) + 1, Len(job[h].staged))

\* /etc/config once package p is committed; a package without a file stays without.
AfterCommit(p) == [flash EXCEPT ![p].secs = work[p]]

Commit(h) ==
  /\ job[h].pc = "commit" /\ Uncommitted(h) # <<>>
  /\ flash' = AfterCommit(Head(Uncommitted(h)))
  /\ job' = [job EXCEPT ![h].committed = Append(@, Head(Uncommitted(h)))]
  /\ kept' = kept \ {Head(Uncommitted(h))}
  /\ UNCHANGED <<image, work, misread>>

\* Mutant: the packages that are not committed stay staged.
CommitFailsLeaves(h) ==
  /\ job[h].pc = "commit" /\ Uncommitted(h) # <<>>
  /\ job' = [job EXCEPT ![h].pc = "done", ![h].result = "commit_error"]
  /\ UNCHANGED <<image, flash, work, faults>>

\* A commit fails, possibly after it took effect: revert this package and the rest.
CommitFails(h) ==
  /\ job[h].pc = "commit" /\ Uncommitted(h) # <<>>
  /\ flash' = flash \/ flash' = AfterCommit(Head(Uncommitted(h)))
  /\ job' = [job EXCEPT ![h].pc = "revert", ![h].result = "commit_error",
                        ![h].undo = Uncommitted(h)]
  /\ UNCHANGED <<image, work, faults>>

Finish(h) ==
  /\ job[h].pc = "commit" /\ Uncommitted(h) = <<>>
  /\ job' = [job EXCEPT ![h].pc = "done", ![h].result = "ok"]
  /\ UNCHANGED <<image, flash, work, faults>>

Reverted(h) ==
  job' = [job EXCEPT ![h].undo = Tail(@),
                     ![h].pc = IF Len(job[h].undo) = 1 THEN "done" ELSE "revert"]

Revert(h) ==
  /\ job[h].pc = "revert"
  /\ work' = [work EXCEPT ![Head(job[h].undo)] = flash[Head(job[h].undo)].secs]
  /\ Reverted(h)
  /\ kept' = kept \ {Head(job[h].undo)}
  /\ UNCHANGED <<image, flash, misread>>

\* The error of a Revert is ignored.
RevertFails(h) ==
  /\ job[h].pc = "revert"
  /\ Reverted(h)
  /\ kept' = kept \cup {Head(job[h].undo)}
  /\ UNCHANGED <<image, flash, work, misread>>

-----------------------------------------------------------------------------
Next ==
  \E h \in Handlers :
    \/ Reject(h) \/ Begin(h)
    \/ ParseFails(h) \/ Read(h) \/ ReadFails(h) \/ EnsurePackage(h) \/ EnsureFails(h)
    \/ ExecStep(h) \/ StepFails(h) \/ PackageStaged(h)
    \/ Commit(h) \/ CommitFails(h) \/ Finish(h)
    \/ Revert(h) \/ RevertFails(h)

Spec == Init /\ [][Next]_vars

-----------------------------------------------------------------------------
(* Properties. *)

\* No handler has begun after h.
Latest(h) == \A g \in Handlers : g > h => job[g].pc = "idle"

\* An Apply that succeeds leaves every package saying exactly what its payload
\* means for what the package said before, together with the changes an earlier
\* handler left staged: in replace mode nothing else, in merge mode exact sections
\* and everything unmentioned as it was.  Not where a read failed, which counts as
\* a missing package (one handler after the other).
AppliedExactly ==
  \A h \in Handlers \ misread :
    job[h].result = "ok" /\ Latest(h) =>
      \A p \in DOMAIN job[h].payload :
        View(flash[p].secs) = Wanted(View(job[h].was.work[p]), job[h].payload[p])

\* Claimed: a failed read changes nothing about that.
AppliedOrFailed ==
  \A h \in Handlers :
    job[h].result = "ok" =>
      \A p \in DOMAIN job[h].payload :
        View(flash[p].secs) = Wanted(View(job[h].was.work[p]), job[h].payload[p])

\* An Apply whose staging fails has changed no section of any package, those
\* staged before the failing one included: nothing is committed until all is
\* staged (one handler after the other; read and revert failures included).
StageErrorChangesNothing ==
  \A h \in Handlers :
    job[h].result = "stage_error" /\ Latest(h) =>
      \A p \in Names : flash[p].secs = job[h].was.flash[p].secs

\* Between two commands nothing is left in the staging area for the next
\* command's commit, however the last one failed, but what could not be reverted.
NothingLeftStaged ==
  (\A h \in Handlers : job[h].pc \in {"idle", "done"}) =>
    \A p \in Names \ kept : work[p] = flash[p].secs

\* At every moment, hence also after a power cut, every package on flash is what
\* it was or all of what the running or last command means: no commit writes a
\* half-staged configuration (where every read succeeded).
PackageWhole ==
  \A h \in Handlers \ misread :
    job[h].pc # "idle" /\ Latest(h) =>
      \A p \in DOMAIN job[h].payload :
        View(flash[p].secs) \in
          {View(job[h].was.flash[p].secs), Wanted(View(job[h].was.work[p]), job[h].payload[p])}

\* What a package may say: the result of some of the commands, each as a whole,
\* in some order.
WholeViews(p) ==
  LET begun == {h \in Handlers : p \in DOMAIN job[h].payload}
      orders == UNION {{o \in [1 .. n -> begun] : IsInjective(o)} : n \in 0 .. Cardinality(begun)}
  IN  {FoldLeft(LAMBDA v, h : Wanted(v, job[h].payload[p]), View(image[p].secs), o) : o \in orders}

\* Claimed: flash holds whole commands when handlers overlap, too.
WholeCommands ==
  misread = {} => \A p \in Names \ kept : View(flash[p].secs) \in WholeViews(p)
=============================================================================
