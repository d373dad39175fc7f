-------------------------- MODULE DeviceFilesProofs -------------------------
(***************************************************************************)
(* Proofs about DeviceFiles, for any commands, paths, failures, restarts   *)
(* and any number of handlers, one after the other or overlapping.         *)
(*                                                                         *)
(* A replaced file is whole because as long as two handlers have not had   *)
(* its temporary file at once, the one that has it finds in it what it has *)
(* written (Written, VInv).  A command does what its ack says because a    *)
(* handler that ran alone has dealt with every file it has passed (AInv).  *)
(***************************************************************************)
EXTENDS DeviceFiles, FunctionTheorems, FiniteSetTheorems, TLAPS

\* Every path a command may name.
Named == Paths \cup UNION {ToSet(c.files) : c \in Commands}

\* The fields of a handler.
Fields ==
  {"pc", "cmd", "todo", "all", "fd", "good", "failed", "left", "keys", "alone", "result"}

\* The functions and records have their domains.
Shape ==
  /\ DOMAIN job = Handlers
  /\ \A h \in Handlers : DOMAIN job[h] = Fields
  /\ DOMAIN disk = Paths /\ DOMAIN tmp = Replaced
  /\ shared \subseteq Replaced
  /\ pair \in Seq(Paths)
  /\ restarts \in 0 .. MaxRestarts

\* Where a handler deals with a file, and where it has its temporary file open.
AtFile == {"write", "remove", "fetch", "open", "first", "rest", "rename"}
AtTmp == {"first", "rest", "rename"}

\* The files a handler has to deal with, and its command, fit its place.
JobOK(h) ==
  /\ job[h].pc \in AtFile \cup {"idle", "restart", "ack", "done"}
  /\ job[h].result \in {"none", "ok", "error", "lost"}
  /\ job[h].result = "none" <=> job[h].pc # "done"
  /\ Active(h) \/ job[h].result = "ok" => job[h].cmd \in Commands
  /\ job[h].todo \in Seq(Named) /\ job[h].all \in Seq(Named)
  /\ job[h].pc \in AtFile => job[h].todo # <<>>
  /\ job[h].pc \in {"restart", "ack"} \/ job[h].result = "ok" => job[h].todo = <<>>
  /\ job[h].pc \in {"write", "remove", "fetch", "open"} => Start(Type(h)) = job[h].pc
  /\ job[h].pc \in AtTmp \cup {"open"} =>
       Type(h) \in ReplacingTypes /\ ToSet(job[h].todo) \subseteq Replaced
  /\ job[h].pc = "restart" => Start(Type(h)) \in {"write", "remove"}
  /\ job[h].pc = "remove" => ToSet(job[h].todo) \subseteq Paths
  /\ job[h].pc = "fetch" => ToSet(job[h].todo) \subseteq HostKeys

Jobs == \A h \in Handlers : JobOK(h)

TInv == Shape /\ Jobs

-----------------------------------------------------------------------------
\* A handler that runs or has run alone, and has not failed so far.
Single(h) == job[h].alone /\ (Active(h) \/ job[h].result = "ok")

\* Beside it nothing runs.
AloneOnly == \A h \in Handlers : Single(h) => \A g \in Handlers \ {h} : ~ Active(g)

\* Two handlers at the temporary file of one path have shared it.
Exclusive ==
  \A g, h \in Handlers :
    /\ g # h /\ job[g].pc \in AtTmp /\ job[h].pc \in AtTmp
    /\ Path(g) = Path(h)
    => Path(h) \in shared

\* What a handler writes: what it was to write, unless it received something else.
Value(h) == IF job[h].good THEN job[h].cmd.id ELSE Corrupt

\* A temporary file that is not shared is open and has what was written so far.
Written(h) ==
  job[h].pc \in AtTmp /\ (Path(h) \notin shared \/ Single(h)) =>
    /\ job[h].fd = "tmp"
    /\ job[h].pc = "rest" => tmp[Path(h)][1] = Value(h)
    /\ job[h].pc = "rename" => tmp[Path(h)] = Whole(Value(h))

WInv == AloneOnly /\ Exclusive /\ \A h \in Handlers : Written(h)

\* No path is both replaced and written in place or removed.
InPlaceElsewhere ==
  /\ \A c \in Commands : c.type \in InPlaceTypes => ToSet(c.files) \cap Replaced = {}
  /\ (HostKeys \cup ToSet(DefaultPair)) \cap Replaced = {}

\* Nor is one in the hands of a handler that does so, or of the certificate.
Apart ==
  /\ ToSet(pair) \cap Replaced = {}
  /\ \A h \in Handlers :
       job[h].pc \in {"write", "remove"} => ToSet(job[h].todo) \cap Replaced = {}

VInv == Apart /\ Verified

\* The files that a handler has dealt with.
Dealt(h) == ToSet(job[h].all) \ ToSet(job[h].todo)

\* What has been done to them.
Progress(h) ==
  /\ Start(Type(h)) # "fetch" => Dealt(h) \subseteq Paths
  /\ Start(Type(h)) \in {"write", "open"} /\ ~ job[h].failed =>
       \A p \in Dealt(h) : disk[p] = Own(h)
  /\ Start(Type(h)) = "remove" => \A p \in Dealt(h) \ job[h].left : disk[p] = NoFile
  /\ Start(Type(h)) = "fetch" =>
       /\ \A k \in job[h].keys : \E p \in HostKeys : k = <<p, disk[p]>> /\ disk[p] # NoFile
       /\ \A p \in HostKeys : p \in ToSet(job[h].todo) \/ disk[p] = NoFile
                                 \/ <<p, disk[p]>> \in job[h].keys

\* What the agent remembers of the certificate after a success.
PairOK(h) ==
  /\ Type(h) = "tls_cert_push" => pair \in {<<>>, job[h].cmd.files}
  /\ Type(h) = "tls_cert_remove" => pair = <<>>

AInv ==
  \A h \in Handlers :
    /\ job[h].pc = "idle" => job[h].keys = {}
    /\ job[h].result = "ok" => ~ job[h].failed
    /\ Single(h) => Progress(h)
    /\ Single(h) /\ job[h].result = "ok" => PairOK(h)

-----------------------------------------------------------------------------
(* Lists of paths. *)

\* What is in a list is one of its elements.
LEMMA Listed ==
  ASSUME NEW S, NEW s \in Seq(S)
  PROVE  \A i \in 1 .. Len(s) : s[i] \in S /\ s[i] \in ToSet(s)
BY DEF ToSet

\* The elements of a list and of its tail.
LEMMA Members ==
  ASSUME NEW S, NEW s \in Seq(S)
  PROVE  /\ ToSet(s) \subseteq S
         /\ s # <<>> => /\ Head(s) \in ToSet(s) /\ Tail(s) \in Seq(S)
                        /\ ToSet(Tail(s)) \subseteq ToSet(s)
                        /\ ToSet(s) = {Head(s)} \cup ToSet(Tail(s))
                        /\ Tail(s) = <<>> <=> Len(s) = 1
<1>1. \A i \in 1 .. Len(s) : s[i] \in S /\ s[i] \in ToSet(s)
  BY Listed
<1>2. ToSet(s) \subseteq S
  BY <1>1 DEF ToSet
<1>3. ASSUME s # <<>>
      PROVE  /\ Head(s) \in ToSet(s) /\ Tail(s) \in Seq(S)
             /\ ToSet(Tail(s)) \subseteq ToSet(s)
             /\ ToSet(s) = {Head(s)} \cup ToSet(Tail(s))
             /\ Tail(s) = <<>> <=> Len(s) = 1
  <2>1. Head(s) = s[1] /\ 1 \in 1 .. Len(s)
    BY <1>3
  <2>2. /\ Tail(s) \in Seq(S) /\ Len(Tail(s)) = Len(s) - 1
        /\ \A i \in 1 .. Len(s) - 1 : Tail(s)[i] = s[i + 1]
    BY <1>3
  <2>3. ToSet(Tail(s)) \subseteq ToSet(s)
    BY <1>1, <2>2 DEF ToSet
  <2>4. ASSUME NEW x \in ToSet(s), x # Head(s)
        PROVE  x \in ToSet(Tail(s))
    <3>1. PICK i \in 1 .. Len(s) : s[i] = x
      BY DEF ToSet
    <3>2. i - 1 \in 1 .. Len(Tail(s)) /\ Tail(s)[i - 1] = x
      BY <2>1, <2>2, <2>4, <3>1
    <3> QED
      BY <3>2, <2>2, Listed
  <2>5. Tail(s) = <<>> <=> Len(s) = 1
    BY <2>2
  <2> QED
    BY <1>1, <2>1, <2>2, <2>3, <2>4, <2>5
<1> QED
  BY <1>2, <1>3

\* The elements of a list are finitely many.
LEMMA ListFinite ==
  ASSUME NEW S, NEW s \in Seq(S)
  PROVE  IsFiniteSet(ToSet(s))
<1>1. s \in Surjection(1 .. Len(s), ToSet(s))
  BY DEF Surjection, ToSet
<1>2. IsFiniteSet(1 .. Len(s))
  BY FS_Interval
<1> QED
  BY <1>1, <1>2, FS_Surjection

\* An order of a finite set lists every element of it.
LEMMA OrderLists ==
  ASSUME NEW S, IsFiniteSet(S), NEW s \in SetToSeqs(S)
  PROVE  s \in Seq(S) /\ ToSet(s) = S /\ (S # {} => s # <<>>)
<1> DEFINE n == Cardinality(S)
<1>1. n \in Nat
  BY FS_CardinalityType
<1>2. s \in [1 .. n -> S] /\ \A i, j \in 1 .. n : i # j => s[i] # s[j]
  BY DEF SetToSeqs
<1>3. s \in Injection(1 .. n, S)
  BY <1>2 DEF Injection, IsInjective
<1>4. Cardinality(1 .. n) = n
  BY <1>1, FS_Interval
<1>5. s \in Surjection(1 .. n, S)
  BY <1>3, <1>4, FS_Injection
<1>6. s \in Seq(S) /\ Len(s) = n
  BY <1>1, <1>2
<1>7. ToSet(s) = S
  BY <1>2, <1>5 DEF Surjection, ToSet
<1>8. S # {} => s # <<>>
  BY <1>6, <1>7 DEF ToSet
<1> QED
  BY <1>6, <1>7, <1>8

-----------------------------------------------------------------------------
(* Types. *)

\* A handler leaves the first of its files.
LEMMA Passed ==
  ASSUME NEW h \in Handlers, Jobs, job[h].pc \in AtFile
  PROVE  /\ job[h].todo \in Seq(Named) /\ Tail(job[h].todo) \in Seq(Named)
         /\ Path(h) \in ToSet(job[h].todo) /\ Path(h) \in Named
         /\ ToSet(job[h].todo) = {Path(h)} \cup ToSet(Tail(job[h].todo))
         /\ Tail(job[h].todo) = <<>> <=> Len(job[h].todo) = 1
BY Members DEF Jobs, JobOK, Path

\* What Begin makes of the handler: any order of the command's files.
LEMMA Ordered ==
  ASSUME Shape, NEW c \in Commands, NEW todo \in Orders(c)
  PROVE  /\ todo \in Seq(Named) /\ todo # <<>>
         /\ Start(c.type) = "fetch" => ToSet(todo) = HostKeys
         /\ Start(c.type) = "remove" => ToSet(todo) \subseteq Paths
         /\ Start(c.type) = "open" => c.type \in ReplacingTypes /\ ToSet(todo) \subseteq Replaced
         /\ Start(c.type) \in {"write", "open"} => ToSet(todo) = ToSet(c.files)
         /\ c.type = "tls_cert_push" => todo = c.files
<1> USE CommandsAssumption, DeviceFilesAssumption
<1>1. HostKeys \subseteq Paths /\ Paths \subseteq Named /\ ToSet(c.files) \subseteq Named
  BY DEF Paths, Named
<1>2. CASE c.type = "host_key_restore"
  <2>1. todo \in SetToSeqs(ToSet(c.files))
    BY <1>2 DEF Orders
  <2>2. IsFiniteSet(ToSet(c.files)) /\ c.files \in Seq(ToSet(c.files)) /\ c.files # <<>>
    BY <1>2, ListFinite DEF InPlaceTypes
  <2>3. ToSet(c.files) # {}
    BY <2>2, Members
  <2>4. todo \in Seq(ToSet(c.files)) /\ ToSet(todo) = ToSet(c.files) /\ todo # <<>>
    BY <2>1, <2>2, <2>3, OrderLists
  <2>5. todo \in Seq(Named)
    BY <1>1, <2>4
  <2> QED
    BY <1>2, <2>4, <2>5 DEF Start, InPlaceTypes, RemovingTypes, ReplacingTypes
<1>3. CASE c.type \in {"host_key_remove", "host_key_fetch"}
  <2>1. todo \in SetToSeqs(HostKeys)
    BY <1>3 DEF Orders
  <2>2. todo \in Seq(HostKeys) /\ ToSet(todo) = HostKeys /\ todo # <<>>
    BY <2>1, OrderLists
  <2>3. todo \in Seq(Named)
    BY <1>1, <2>2
  <2> QED
    BY <1>1, <1>3, <2>2, <2>3 DEF Start, InPlaceTypes, RemovingTypes, ReplacingTypes
<1>4. CASE c.type = "tls_cert_remove"
  <2>1. todo = IF pair = <<>> THEN DefaultPair ELSE pair
    BY <1>4 DEF Orders
  <2>2. ToSet(DefaultPair) \subseteq Paths
    BY DEF Paths
  <2>3. DefaultPair \in Seq(Paths) /\ pair \in Seq(Paths)
    BY <2>2 DEF Shape
  <2>4. todo \in Seq(Paths) /\ todo # <<>>
    BY <2>1, <2>3
  <2>5. todo \in Seq(Named) /\ ToSet(todo) \subseteq Paths
    BY <1>1, <2>4, Members
  <2> QED
    BY <1>4, <2>4, <2>5 DEF Start, InPlaceTypes, RemovingTypes, ReplacingTypes
<1>5. CASE c.type \in {"file_write", "tls_cert_push"} \cup ReplacingTypes
  <2>1. todo = c.files
    BY <1>5 DEF Orders, ReplacingTypes
  <2>2. todo \in Seq(Named) /\ todo # <<>>
    BY <1>1, <1>5, <2>1 DEF InPlaceTypes
  <2> QED
    BY <1>5, <2>1, <2>2 DEF Start, InPlaceTypes, RemovingTypes, ReplacingTypes
<1> QED
  BY <1>2, <1>3, <1>4, <1>5 DEF InPlaceTypes, RemovingTypes

\* Initially no handler has begun.
LEMMA InitTypes == Init => TInv
<1> SUFFICES ASSUME Init PROVE TInv
    OBVIOUS
<1>1. Shape
  BY DeviceFilesAssumption DEF Init, Shape, Fields
<1>2. ASSUME NEW h \in Handlers
      PROVE  JobOK(h)
  <2>1. /\ job[h].pc = "idle" /\ job[h].result = "none"
        /\ job[h].todo = <<>> /\ job[h].all = <<>>
    BY DEF Init
  <2>2. <<>> \in Seq(Named)
    OBVIOUS
  <2> QED
    BY <2>1, <2>2 DEF JobOK, Active, AtFile, AtTmp
<1> QED
  BY <1>1, <1>2 DEF TInv, Jobs

\* A job that changes only in what its place does not depend on stays right.
LEMMA JobKept ==
  ASSUME NEW g \in Handlers, JobOK(g),
         \A f \in {"pc", "cmd", "todo", "all", "result"} : job'[g][f] = job[g][f]
  PROVE  JobOK(g)'
<1>1. /\ job'[g].pc = job[g].pc /\ job'[g].cmd = job[g].cmd /\ job'[g].todo = job[g].todo
      /\ job'[g].all = job[g].all /\ job'[g].result = job[g].result
  OBVIOUS
<1> QED
  BY <1>1 DEF JobOK, Active, Type

\* What becomes of a temporary file changes descriptors only, of handlers
\* that have it.
LEMMA DescriptorsOnly ==
  ASSUME Shape, NEW h \in Handlers, NEW p, NEW becomes, NEW g \in Handlers
  PROVE  /\ DOMAIN Descriptors(h, p, becomes)[g] = Fields
         /\ \A f \in Fields \ {"fd"} : Descriptors(h, p, becomes)[g][f] = job[g][f]
         /\ g = h \/ job[g].pc \notin AtTmp \/ Path(g) # p =>
              Descriptors(h, p, becomes)[g] = job[g]
<1> DEFINE others == Descriptors(h, p, becomes)
<1>1. DOMAIN job[g] = Fields
  BY DEF Shape
<1>2. CASE others[g] = job[g]
  BY <1>1, <1>2
<1>3. CASE g # h /\ job[g].pc \in AtTmp /\ Path(g) = p /\ Type(g) = Type(h)
  <2>1. PICK fd : others[g] = [job[g] EXCEPT !.fd = fd]
    BY <1>3 DEF Descriptors, AtTmp
  <2> HIDE DEF others
  <2>2. DOMAIN others[g] = Fields
    BY <1>1, <2>1
  <2>3. ASSUME NEW f \in Fields \ {"fd"}
        PROVE  others[g][f] = job[g][f]
    BY <1>1, <2>1, <2>3
  <2> QED
    BY <1>3, <2>2, <2>3 DEF others
<1>4. ~ (g # h /\ job[g].pc \in AtTmp /\ Path(g) = p /\ Type(g) = Type(h)) => others[g] = job[g]
  BY DEF Descriptors, AtTmp
<1> QED
  BY <1>2, <1>3, <1>4

\* The step of a handler changes its own place only.
LEMMA OthersKept ==
  ASSUME Shape, NEW h \in Handlers, Handler(h), NEW g \in Handlers \ {h}
  PROVE  \A f \in Fields \ {"alone", "fd"} : job'[g][f] = job[g][f]
<1> USE DEF Shape, Fields
<1>1. CASE Reject(h) \/ Begin(h)
  <2>1. job'[g] = [job[g] EXCEPT !.alone = FALSE]
    BY <1>1 DEF Reject, Begin
  <2> SUFFICES ASSUME NEW f \in Fields \ {"alone", "fd"}
               PROVE  job'[g][f] = job[g][f]
    OBVIOUS
  <2>2. DOMAIN job[g] = Fields /\ f # "alone"
    OBVIOUS
  <2> QED
    BY <2>1, <2>2
<1>2. CASE WriteFile(h) \/ WriteFails(h) \/ NameNotPermitted(h) \/ RemoveFile(h)
  BY <1>2 DEF WriteFile, WriteFails, NameNotPermitted, RemoveFile, Fail, FileDone
<1>3. CASE RemoveFails(h) \/ FetchKey(h) \/ FetchFails(h) \/ RestartService(h) \/ Succeed(h)
  BY <1>3 DEF RemoveFails, FetchKey, FetchFails, RestartService, Succeed, Fail
<1>4. CASE TargetFails(h) \/ OpenTmp(h) \/ CopyFirst(h) \/ CopyRest(h)
  BY <1>4 DEF TargetFails, OpenTmp, CopyFirst, CopyRest
<1>5. CASE TransferFails(h)
  <2> DEFINE others == Descriptors(h, Path(h), "none")
  <2>1. job'[g] = others[g] \/ job'[g] = job[g]
    BY <1>5 DEF TransferFails, Descriptors
  <2>2. \A f \in Fields \ {"fd"} : others[g][f] = job[g][f]
    BY DescriptorsOnly
  <2> HIDE DEF others
  <2> QED
    BY <2>1, <2>2
<1>6. CASE Rename(h)
  <2> DEFINE others == Descriptors(h, Path(h), "target")
  <2>1. job'[g] = others[g]
    BY <1>6 DEF Rename, Descriptors
  <2>2. \A f \in Fields \ {"fd"} : others[g][f] = job[g][f]
    BY DescriptorsOnly
  <2> HIDE DEF others
  <2> QED
    BY <2>1, <2>2
<1> QED
  BY <1>1, <1>2, <1>3, <1>4, <1>5, <1>6 DEF Handler

\* Every step keeps the domains.
LEMMA ShapeKept == TInv /\ [Next]_vars => Shape'
<1> SUFFICES ASSUME TInv, [Next]_vars
             PROVE  Shape'
    OBVIOUS
<1> USE DEF TInv, Shape, Fields
<1>1. ASSUME NEW h \in Handlers, Reject(h) \/ Begin(h)
      PROVE  Shape'
  BY <1>1 DEF Reject, Begin
<1>2. ASSUME NEW h \in Handlers,
             WriteFile(h) \/ WriteFails(h) \/ NameNotPermitted(h) \/ RemoveFile(h)
      PROVE  Shape'
  BY <1>2 DEF WriteFile, WriteFails, NameNotPermitted, RemoveFile, Fail, FileDone
<1>3. ASSUME NEW h \in Handlers,
             RemoveFails(h) \/ FetchKey(h) \/ FetchFails(h) \/ RestartService(h)
      PROVE  Shape'
  BY <1>3 DEF RemoveFails, FetchKey, FetchFails, RestartService, Fail
<1>4. ASSUME NEW h \in Handlers, Succeed(h)
      PROVE  Shape'
  <2>1. JobOK(h) /\ Active(h)
    BY <1>4 DEF Succeed, Jobs, Active
  <2>2. Type(h) = "tls_cert_push" => job[h].cmd.files \in Seq(Paths)
    BY <2>1, CommandsAssumption DEF JobOK, Type
  <2>3. pair' \in Seq(Paths)
    BY <1>4, <2>2 DEF Succeed, Remembered
  <2> QED
    BY <1>4, <2>3 DEF Succeed
<1>5. ASSUME NEW h \in Handlers,
             TargetFails(h) \/ OpenTmp(h) \/ CopyFirst(h) \/ CopyRest(h)
      PROVE  Shape'
  <2>1. Path(h) \in Replaced
    BY <1>5, Passed DEF TargetFails, OpenTmp, CopyFirst, CopyRest, Jobs, JobOK, AtFile, AtTmp
  <2> QED
    BY <1>5, <2>1 DEF TargetFails, OpenTmp, CopyFirst, CopyRest, WriteChunks
<1>6. ASSUME NEW h \in Handlers, TransferFails(h) \/ Rename(h)
      PROVE  Shape'
  BY <1>6 DEF TransferFails, Rename, Descriptors
<1>7. CASE Restart
  <2>1. DOMAIN job' = Handlers /\ \A h \in Handlers : DOMAIN job'[h] = Fields
    BY <1>7 DEF Restart
  <2>2. pair' = <<>> /\ restarts < MaxRestarts /\ restarts' = restarts + 1
    BY <1>7 DEF Restart
  <2>3. restarts' \in 0 .. MaxRestarts
    BY <2>2, DeviceFilesAssumption
  <2>4. pair' \in Seq(Paths)
    BY <2>2
  <2> QED
    BY <1>7, <2>1, <2>3, <2>4 DEF Restart
<1>8. CASE UNCHANGED vars
  BY <1>8 DEF vars
<1> QED
  BY <1>1, <1>2, <1>3, <1>4, <1>5, <1>6, <1>7, <1>8 DEF Next, Handler

\* The handler leaves a file, for the next one or, after the last, for its end.
Advances(h, again, after) ==
  /\ job'[h].todo = Tail(job[h].todo)
  /\ job'[h].pc = IF Len(job[h].todo) = 1 THEN after ELSE again
  /\ \A f \in {"cmd", "all", "good", "alone", "result"} : job'[h][f] = job[h][f]

\* What comes after a file.
LEMMA Advanced ==
  ASSUME NEW h \in Handlers, Handler(h), Shape
  PROVE  /\ WriteFile(h) =>
              Advances(h, "write", IF Type(h) = "file_write" THEN "ack" ELSE "restart")
         /\ RemoveFile(h) \/ RemoveFails(h) => Advances(h, "remove", "restart")
         /\ FetchKey(h) => Advances(h, "fetch", "ack")
         /\ TargetFails(h) \/ TransferFails(h) \/ Rename(h) => Advances(h, "open", "ack")
<1> USE DEF Shape, Fields, Advances
<1>1. WriteFile(h) =>
        Advances(h, "write", IF Type(h) = "file_write" THEN "ack" ELSE "restart")
  BY DEF WriteFile, FileDone
<1>2. RemoveFile(h) \/ RemoveFails(h) => Advances(h, "remove", "restart")
  <2>1. RemoveFile(h) => Advances(h, "remove", "restart")
    BY DEF RemoveFile, FileDone
  <2>2. RemoveFails(h) => Advances(h, "remove", "restart")
    BY DEF RemoveFails
  <2> QED
    BY <2>1, <2>2
<1>3. FetchKey(h) => Advances(h, "fetch", "ack")
  BY DEF FetchKey
<1>4. TargetFails(h) => Advances(h, "open", "ack")
  BY DEF TargetFails, NextFile
<1>5. TransferFails(h) \/ Rename(h) => Advances(h, "open", "ack")
  <2>1. \A becomes : /\ Descriptors(h, Path(h), becomes)[h] = job[h]
                     /\ DOMAIN Descriptors(h, Path(h), becomes) = Handlers
    BY DescriptorsOnly DEF Descriptors
  <2>2. ASSUME Rename(h)
        PROVE  Advances(h, "open", "ack")
    <3> DEFINE others == Descriptors(h, Path(h), "target")
    <3>1. others[h] = job[h] /\ DOMAIN others = Handlers
      BY <2>1
    <3>2. job' = [others EXCEPT ![h].todo = Tail(@), ![h].fd = "none", ![h].pc = NextFile(h)]
      BY <2>2 DEF Rename
    <3> HIDE DEF others
    <3> QED
      BY <3>1, <3>2 DEF NextFile
  <2>3. ASSUME TransferFails(h)
        PROVE  Advances(h, "open", "ack")
    <3> DEFINE others == Descriptors(h, Path(h), "none")
    <3>1. others[h] = job[h] /\ DOMAIN others = Handlers
      BY <2>1
    <3>2. PICK before \in {others, job} :
            job' = [before EXCEPT ![h].todo = Tail(@), ![h].failed = TRUE, ![h].fd = "none",
                                  ![h].pc = NextFile(h)]
      BY <2>3 DEF TransferFails
    <3> HIDE DEF others
    <3> QED
      BY <3>1, <3>2 DEF NextFile
  <2> QED
    BY <2>2, <2>3
<1> QED
  BY <1>1, <1>2, <1>3, <1>4, <1>5

\* A handler that leaves a file is where its remaining files put it.
LEMMA AdvanceKeeps ==
  ASSUME Jobs, NEW h \in Handlers, job[h].pc \in AtFile, NEW again, NEW after,
         Advances(h, again, after),
         \/ /\ again = job[h].pc /\ again \in {"write", "remove", "fetch"}
            /\ after = "ack" \/ (after = "restart" /\ again # "fetch")
         \/ job[h].pc \in AtTmp \cup {"open"} /\ again = "open" /\ after = "ack"
  PROVE  JobOK(h)'
<1> DEFINE rest == Tail(job[h].todo)
<1>1. /\ rest \in Seq(Named) /\ ToSet(rest) \subseteq ToSet(job[h].todo)
      /\ rest = <<>> <=> Len(job[h].todo) = 1
  BY Passed
<1>2. /\ job'[h].todo = rest /\ job'[h].cmd = job[h].cmd /\ job'[h].all = job[h].all
      /\ job'[h].result = job[h].result
      /\ job'[h].pc = IF rest = <<>> THEN after ELSE again
  BY <1>1 DEF Advances
<1>3. JobOK(h) /\ job[h].result = "none" /\ Active(h)
  BY DEF Jobs, JobOK, AtFile, Active
<1> HIDE DEF rest
<1>4. job[h].pc \in AtTmp \cup {"open"} => Start(Type(h)) = "open"
  BY <1>3 DEF JobOK, Start, InPlaceTypes, RemovingTypes, ReplacingTypes
<1> QED
  BY <1>1, <1>2, <1>3, <1>4 DEF JobOK, Active, Type, AtFile, AtTmp

\* The handler that takes a step is where its remaining files put it.
LEMMA OwnKept ==
  ASSUME TInv, NEW h \in Handlers, Handler(h)
  PROVE  JobOK(h)'
<1>1. Shape /\ Jobs /\ JobOK(h)
  BY DEF TInv, Jobs
<1>2. DOMAIN job = Handlers /\ DOMAIN job[h] = Fields
  BY <1>1 DEF Shape
<1>3. CASE Reject(h)
  <2>1. /\ job'[h].pc = "done" /\ job'[h].result = "error"
        /\ job'[h].todo = job[h].todo /\ job'[h].all = job[h].all
    BY <1>2, <1>3 DEF Reject, Fields
  <2> QED
    BY <1>1, <2>1 DEF JobOK, Active, AtFile, AtTmp
<1>4. CASE Begin(h)
  <2>0. PICK c \in Commands :
          \E todo \in Orders(c) :
            /\ job'[h].pc = Start(c.type) /\ job'[h].cmd = c /\ job'[h].todo = todo
            /\ job'[h].all = todo /\ job'[h].result = job[h].result
    BY <1>2, <1>4 DEF Begin, Fields
  <2>1. PICK todo \in Orders(c) :
          /\ job'[h].pc = Start(c.type) /\ job'[h].cmd = c /\ job'[h].todo = todo
          /\ job'[h].all = todo /\ job'[h].result = job[h].result
    BY <2>0
  <2>2. job[h].result = "none"
    BY <1>1, <1>4 DEF Begin, MayBegin, JobOK
  <2>3. Start(c.type) \in {"write", "remove", "fetch", "open"}
    BY DEF Start
  <2>4. /\ todo \in Seq(Named) /\ todo # <<>>
        /\ Start(c.type) = "fetch" => ToSet(todo) \subseteq HostKeys
        /\ Start(c.type) = "remove" => ToSet(todo) \subseteq Paths
        /\ Start(c.type) = "open" => c.type \in ReplacingTypes /\ ToSet(todo) \subseteq Replaced
    BY <1>1, Ordered
  <2> QED
    BY <2>1, <2>2, <2>3, <2>4 DEF JobOK, Active, Type, AtFile, AtTmp
<1>5. CASE WriteFails(h) \/ NameNotPermitted(h) \/ FetchFails(h)
  <2>1. /\ job'[h].pc = "done" /\ job'[h].result = "error"
        /\ job'[h].todo = job[h].todo /\ job'[h].all = job[h].all
    BY <1>2, <1>5 DEF WriteFails, NameNotPermitted, FetchFails, Fail, Fields
  <2> QED
    BY <1>1, <2>1 DEF JobOK, Active, AtFile, AtTmp
<1>6. CASE WriteFile(h)
  <2>1. job[h].pc = "write"
    BY <1>6 DEF WriteFile
  <2>2. Advances(h, "write", IF Type(h) = "file_write" THEN "ack" ELSE "restart")
    BY <1>1, <1>6, Advanced
  <2> QED
    BY <1>1, <2>1, <2>2, AdvanceKeeps DEF AtFile
<1>7. CASE RemoveFile(h) \/ RemoveFails(h)
  <2>1. job[h].pc = "remove"
    BY <1>7 DEF RemoveFile, RemoveFails
  <2>2. Advances(h, "remove", "restart")
    BY <1>1, <1>7, Advanced
  <2> QED
    BY <1>1, <2>1, <2>2, AdvanceKeeps DEF AtFile
<1>8. CASE FetchKey(h)
  <2>1. job[h].pc = "fetch"
    BY <1>8 DEF FetchKey
  <2>2. Advances(h, "fetch", "ack")
    BY <1>1, <1>8, Advanced
  <2>3. Jobs /\ job[h].pc \in AtFile
    BY <1>1, <2>1 DEF AtFile
  <2> QED
    BY <2>1, <2>2, <2>3, AdvanceKeeps
<1>9. CASE TargetFails(h) \/ TransferFails(h) \/ Rename(h)
  <2>1. job[h].pc \in AtTmp \cup {"open"}
    BY <1>9 DEF TargetFails, TransferFails, Rename, AtTmp
  <2>2. Advances(h, "open", "ack")
    BY <1>1, <1>9, Advanced
  <2> QED
    BY <1>1, <2>1, <2>2, AdvanceKeeps DEF AtFile, AtTmp
<1>10. CASE RestartService(h) \/ Succeed(h)
  <2>1. /\ RestartService(h) => job'[h].pc = "ack" /\ job'[h].result = job[h].result
        /\ Succeed(h) => job'[h].pc = "done" /\ job'[h].result \in {"ok", "error"}
        /\ job'[h].cmd = job[h].cmd
        /\ job'[h].todo = job[h].todo /\ job'[h].all = job[h].all
    BY <1>2, <1>10 DEF RestartService, Succeed, Fields
  <2>2. job[h].pc \in {"restart", "ack"}
    BY <1>10 DEF RestartService, Succeed
  <2> QED
    BY <1>1, <1>10, <2>1, <2>2 DEF JobOK, Active, Type, AtFile, AtTmp
<1>11. CASE OpenTmp(h) \/ CopyFirst(h) \/ CopyRest(h)
  <2>1. /\ job'[h].pc \in AtTmp /\ job'[h].cmd = job[h].cmd /\ job'[h].result = job[h].result
        /\ job'[h].todo = job[h].todo /\ job'[h].all = job[h].all
    BY <1>2, <1>11 DEF OpenTmp, CopyFirst, CopyRest, Fields, AtTmp
  <2>2. job[h].pc \in AtTmp \cup {"open"}
    BY <1>11 DEF OpenTmp, CopyFirst, CopyRest, AtTmp
  <2> QED
    BY <1>1, <2>1, <2>2 DEF JobOK, Active, Type, AtFile, AtTmp
<1> QED
  BY <1>3, <1>4, <1>5, <1>6, <1>7, <1>8, <1>9, <1>10, <1>11 DEF Handler

\* Every step keeps every handler where its files put it.
LEMMA JobsKept == TInv /\ [Next]_vars => Jobs'
<1> SUFFICES ASSUME TInv, [Next]_vars
             PROVE  Jobs'
    OBVIOUS
<1>1. ASSUME NEW h \in Handlers, Handler(h), NEW g \in Handlers
      PROVE  JobOK(g)'
  <2>1. CASE g = h
    BY <1>1, <2>1, OwnKept
  <2>2. CASE g # h
    <3>1. \A f \in {"pc", "cmd", "todo", "all", "result"} : job'[g][f] = job[g][f]
      BY <1>1, <2>2, OthersKept DEF TInv, Fields
    <3> QED
      BY <3>1, JobKept DEF TInv, Jobs
  <2> QED
    BY <2>1, <2>2
<1>2. ASSUME Restart, NEW g \in Handlers
      PROVE  JobOK(g)'
  <2>1. JobOK(g) /\ DOMAIN job[g] = Fields
    BY DEF TInv, Jobs, Shape
  <2>2. CASE Active(g)
    <3>1. /\ job'[g].pc = "done" /\ job'[g].result = "lost"
          /\ job'[g].todo = job[g].todo /\ job'[g].all = job[g].all
      BY <1>2, <2>1, <2>2 DEF Restart, Fields
    <3> QED
      BY <2>1, <3>1 DEF JobOK, Active, AtFile, AtTmp
  <2>3. CASE ~ Active(g)
    <3>1. job'[g] = job[g]
      BY <1>2, <2>3 DEF Restart
    <3> QED
      BY <2>1, <3>1, JobKept
  <2> QED
    BY <2>2, <2>3
<1>3. ASSUME UNCHANGED vars, NEW g \in Handlers
      PROVE  JobOK(g)'
  BY <1>3, JobKept DEF TInv, Jobs, vars
<1> QED
  BY <1>1, <1>2, <1>3 DEF Next, Jobs

\* Every handler is where its remaining files put it, and every path it is to
\* deal with is one of the device's or of a command.
THEOREM FilesTypes == Spec => []TInv
<1>1. TInv /\ [Next]_vars => TInv'
  BY ShapeKept, JobsKept DEF TInv
<1> QED
  BY InitTypes, <1>1, PTL DEF Spec

-----------------------------------------------------------------------------
(* What a step of a handler leaves alone. *)

\* A handler at work goes on with its command; one that is not begins.
LEMMA OwnStep ==
  ASSUME Shape, NEW h \in Handlers, Handler(h), ~ Begin(h)
  PROVE  /\ \A f \in {"cmd", "all", "alone"} : job'[h][f] = job[h][f]
         /\ Reject(h) => job'[h].pc = "done" /\ job'[h].result = "error"
         /\ ~ Reject(h) => Active(h)
<1> USE DEF Shape, Fields
<1>1. CASE Reject(h)
  BY <1>1 DEF Reject
<1>2. CASE WriteFile(h) \/ RemoveFile(h) \/ RemoveFails(h) \/ FetchKey(h)
           \/ TargetFails(h) \/ TransferFails(h) \/ Rename(h)
  <2>1. \A f \in {"cmd", "all", "alone"} : job'[h][f] = job[h][f]
    BY <1>2, Advanced DEF Advances
  <2>2. job[h].pc \in AtFile /\ ~ Reject(h)
    BY <1>2 DEF WriteFile, RemoveFile, RemoveFails, FetchKey, TargetFails, TransferFails,
                Rename, AtFile, Reject, MayBegin
  <2> QED
    BY <2>1, <2>2 DEF Active, AtFile
<1>3. CASE WriteFails(h) \/ NameNotPermitted(h) \/ FetchFails(h)
  BY <1>3 DEF WriteFails, NameNotPermitted, FetchFails, Fail, Active, Reject, MayBegin
<1>4. CASE RestartService(h) \/ Succeed(h)
  BY <1>4 DEF RestartService, Succeed, Active, Reject, MayBegin
<1>5. CASE OpenTmp(h) \/ CopyFirst(h) \/ CopyRest(h)
  BY <1>5 DEF OpenTmp, CopyFirst, CopyRest, Active, Reject, MayBegin
<1> QED
  BY <1>1, <1>2, <1>3, <1>4, <1>5 DEF Handler

\* A command that begins is alone with what runs no longer; the others lose their
\* descriptors only to one that has the same temporary file.
LEMMA OtherStep ==
  ASSUME Shape, NEW h \in Handlers, Handler(h), NEW g \in Handlers \ {h}
  PROVE  /\ job'[g].alone => job[g].alone
         /\ Reject(h) \/ Begin(h) => ~ job'[g].alone
         /\ \/ job'[g].fd = job[g].fd
            \/ job[h].pc \in AtTmp /\ job[g].pc \in AtTmp /\ Path(g) = Path(h)
<1> USE DEF Shape, Fields
<1>1. CASE Reject(h) \/ Begin(h)
  <2>1. job'[g] = [job[g] EXCEPT !.alone = FALSE]
    BY <1>1 DEF Reject, Begin
  <2>2. DOMAIN job[g] = Fields
    OBVIOUS
  <2>3. job'[g].alone = FALSE
    BY <2>1, <2>2
  <2>4. job'[g].fd = job[g].fd
    BY <2>1, <2>2
  <2> QED
    BY <2>3, <2>4
<1>2. CASE TransferFails(h) \/ Rename(h)
  <2> DEFINE others == Descriptors(h, Path(h), IF Rename(h) THEN "target" ELSE "none")
  <2>1. job[h].pc \in AtTmp /\ ~ Reject(h) /\ ~ Begin(h)
    BY <1>2 DEF TransferFails, Rename, AtTmp, Reject, Begin, MayBegin
  <2>2. job'[g] = others[g] \/ job'[g] = job[g]
    <3>1. CASE Rename(h)
      BY <3>1 DEF Rename, Descriptors
    <3>2. CASE TransferFails(h) /\ ~ Rename(h)
      BY <3>2 DEF TransferFails, Descriptors
    <3> QED
      BY <1>2, <3>1, <3>2
  <2>3. /\ others[g].alone = job[g].alone
        /\ job[g].pc \notin AtTmp \/ Path(g) # Path(h) => others[g] = job[g]
    BY DescriptorsOnly
  <2> HIDE DEF others
  <2> QED
    BY <2>1, <2>2, <2>3
<1>3. CASE ~ (Reject(h) \/ Begin(h) \/ TransferFails(h) \/ Rename(h))
  <2>1. job'[g] = job[g]
    BY <1>3 DEF Handler, WriteFile, WriteFails, NameNotPermitted, RemoveFile, RemoveFails, FetchKey,
                FetchFails, RestartService, Succeed, TargetFails, OpenTmp, CopyFirst,
                CopyRest, Fail, FileDone
  <2> QED
    BY <1>3, <2>1
<1> QED
  BY <1>1, <1>2, <1>3

\* Another handler is where it was, with the same files.
LEMMA OtherPlace ==
  ASSUME Shape, NEW h \in Handlers, Handler(h), NEW g \in Handlers \ {h}
  PROVE  /\ job'[g].pc = job[g].pc /\ job'[g].cmd = job[g].cmd /\ job'[g].todo = job[g].todo
         /\ job'[g].all = job[g].all /\ job'[g].good = job[g].good
         /\ job'[g].failed = job[g].failed /\ job'[g].left = job[g].left
         /\ job'[g].keys = job[g].keys /\ job'[g].result = job[g].result
         /\ Active(g)' = Active(g) /\ Path(g)' = Path(g)
         /\ Single(g)' => (Single(g) /\ ~ (Reject(h) \/ Begin(h)))
<1>1. /\ job'[g].pc = job[g].pc /\ job'[g].cmd = job[g].cmd /\ job'[g].todo = job[g].todo
      /\ job'[g].all = job[g].all /\ job'[g].good = job[g].good
      /\ job'[g].failed = job[g].failed /\ job'[g].left = job[g].left
      /\ job'[g].keys = job[g].keys /\ job'[g].result = job[g].result
  <2>1. {"pc", "cmd", "todo", "all", "good", "failed", "left", "keys", "result"}
          \subseteq Fields \ {"alone", "fd"}
    BY DEF Fields
  <2> QED
    BY <2>1, OthersKept
<1>2. /\ job'[g].alone => job[g].alone
      /\ Reject(h) \/ Begin(h) => ~ job'[g].alone
  BY OtherStep
<1> QED
  BY <1>1, <1>2 DEF Active, Path, Single

\* A temporary file changes by the handler that has it, or opens it.
LEMMA TmpStep ==
  ASSUME Shape, NEW h \in Handlers, Handler(h), NEW p \in Replaced
  PROVE  /\ \/ tmp'[p] = tmp[p]
            \/ p = Path(h) /\ (OpenTmp(h) \/ job[h].pc \in AtTmp)
         /\ shared \subseteq shared'
<1> USE DEF Shape
<1>1. CASE OpenTmp(h)
  BY <1>1 DEF OpenTmp
<1>2. CASE CopyFirst(h) \/ CopyRest(h)
  BY <1>2 DEF CopyFirst, CopyRest, WriteChunks, AtTmp
<1>3. CASE TransferFails(h) \/ Rename(h)
  BY <1>3 DEF TransferFails, Rename, AtTmp
<1>4. CASE ~ (OpenTmp(h) \/ CopyFirst(h) \/ CopyRest(h) \/ TransferFails(h) \/ Rename(h))
  <2>1. tmp' = tmp /\ shared' = shared
    BY <1>4 DEF Handler, Reject, Begin, WriteFile, WriteFails, NameNotPermitted, RemoveFile,
                RemoveFails, FetchKey, FetchFails, RestartService, Succeed, TargetFails
  <2> QED
    BY <2>1
<1> QED
  BY <1>1, <1>2, <1>3, <1>4

\* A file changes by the handler that is at it.
LEMMA DiskStep ==
  ASSUME Shape, NEW h \in Handlers, Handler(h), NEW p \in Paths
  PROVE  \/ disk'[p] = disk[p]
         \/ /\ p = Path(h)
            /\ \/ job[h].pc \in {"write", "remove"}
               \/ job[h].pc \in AtTmp /\ job[h].fd = "target"
               \/ Rename(h) /\ disk' = [disk EXCEPT ![p] = tmp[p]]
<1> USE DEF Shape
<1>1. CASE WriteFile(h) \/ WriteFails(h) \/ RemoveFile(h) \/ RemoveFails(h)
  BY <1>1 DEF WriteFile, WriteFails, RemoveFile, RemoveFails
<1>2. CASE CopyFirst(h) \/ CopyRest(h)
  BY <1>2 DEF CopyFirst, CopyRest, WriteChunks, AtTmp
<1>3. CASE Rename(h)
  BY <1>3 DEF Rename
<1>4. CASE ~ (WriteFile(h) \/ WriteFails(h) \/ RemoveFile(h) \/ RemoveFails(h) \/ CopyFirst(h)
              \/ CopyRest(h) \/ Rename(h))
  <2>1. disk' = disk
    BY <1>4 DEF Handler, Reject, Begin, NameNotPermitted, FetchKey, FetchFails, RestartService,
                Succeed, TargetFails, OpenTmp, TransferFails
  <2> QED
    BY <2>1
<1> QED
  BY <1>1, <1>2, <1>3, <1>4

-----------------------------------------------------------------------------
(* Temporary files. *)

\* A handler with a temporary file has just opened it, or goes on with it.
LEMMA AtTmpStep ==
  ASSUME TInv, NEW h \in Handlers, Handler(h), job'[h].pc \in AtTmp
  PROVE  /\ OpenTmp(h) \/ CopyFirst(h) \/ CopyRest(h)
         /\ job'[h].todo = job[h].todo /\ job'[h].cmd = job[h].cmd
         /\ Path(h)' = Path(h) /\ Path(h) \in Replaced
         /\ Single(h)' => Single(h)
         /\ OpenTmp(h) => job'[h].pc = "first" /\ job'[h].fd = "tmp"
         /\ ~ OpenTmp(h) => /\ job[h].pc \in AtTmp /\ job'[h].fd = job[h].fd
                            /\ job'[h].good = job[h].good /\ shared' = shared
<1>1. Shape /\ Jobs /\ JobOK(h)
  BY DEF TInv, Jobs
<1>2. DOMAIN job = Handlers /\ DOMAIN job[h] = Fields
  BY <1>1 DEF Shape
<1>3. OpenTmp(h) \/ CopyFirst(h) \/ CopyRest(h)
  <2>1. ~ (Reject(h) \/ Begin(h))
    <3>1. Begin(h) => job'[h].pc \in {"write", "remove", "fetch", "open"}
      BY <1>2 DEF Begin, Start, Fields
    <3> QED
      BY <1>1, <3>1, OwnStep DEF AtTmp
  <2>2. ~ (WriteFile(h) \/ RemoveFile(h) \/ RemoveFails(h) \/ FetchKey(h)
           \/ TargetFails(h) \/ TransferFails(h) \/ Rename(h))
    BY <1>1, Advanced DEF Advances, AtTmp
  <2>3. ~ (WriteFails(h) \/ NameNotPermitted(h) \/ FetchFails(h) \/ RestartService(h) \/ Succeed(h))
    BY <1>2 DEF WriteFails, NameNotPermitted, FetchFails, RestartService, Succeed, Fail, AtTmp, Fields
  <2> QED
    BY <2>1, <2>2, <2>3 DEF Handler
<1>4. /\ job'[h].todo = job[h].todo /\ job'[h].cmd = job[h].cmd
      /\ job'[h].alone = job[h].alone /\ job[h].pc \in AtTmp \cup {"open"}
  BY <1>2, <1>3 DEF OpenTmp, CopyFirst, CopyRest, AtTmp, Fields
<1>5. OpenTmp(h) => job'[h].pc = "first" /\ job'[h].fd = "tmp"
  BY <1>2 DEF OpenTmp, Fields
<1>6. ~ OpenTmp(h) => /\ job[h].pc \in AtTmp /\ job'[h].fd = job[h].fd
                     /\ job'[h].good = job[h].good /\ shared' = shared
  BY <1>2, <1>3 DEF CopyFirst, CopyRest, AtTmp, Fields
<1>7. Path(h)' = Path(h) /\ Path(h) \in Replaced
  BY <1>1, <1>4, Passed DEF Path, JobOK, AtFile, AtTmp
<1>8. Single(h)' => Single(h)
  BY <1>4 DEF Single, Active, AtTmp
<1> QED
  BY <1>3, <1>4, <1>5, <1>6, <1>7, <1>8

\* A handler that is alone stays so until another begins.
LEMMA AloneKept == TInv /\ WInv /\ [Next]_vars => AloneOnly'
<1> SUFFICES ASSUME TInv, WInv, [Next]_vars
             PROVE  AloneOnly'
    OBVIOUS
<1>1. Shape /\ Jobs /\ AloneOnly
  BY DEF TInv, WInv
<1>2. ASSUME NEW h \in Handlers, Handler(h), NEW k \in Handlers, Single(k)',
             NEW g \in Handlers \ {k}
      PROVE  ~ Active(g)'
  <2>1. CASE k = h
    <3>1. Active(g)' = Active(g)
      BY <1>1, <1>2, <2>1, OtherPlace
    <3>2. CASE Begin(h)
      <4>1. job'[h].alone = \A f \in Handlers : ~ Active(f)
        BY <1>1, <3>2 DEF Begin, Shape, Fields
      <4> QED
        BY <1>2, <2>1, <3>1, <4>1 DEF Single
    <3>3. CASE ~ Begin(h)
      <4>1. ~ Reject(h)
        BY <1>1, <1>2, <2>1, <3>3, OwnStep DEF Single, Active
      <4>2. Single(h)
        BY <1>1, <1>2, <2>1, <3>3, <4>1, OwnStep DEF Single
      <4> QED
        BY <1>1, <2>1, <3>1, <4>2 DEF AloneOnly
    <3> QED
      BY <3>2, <3>3
  <2>2. CASE k # h
    <3>1. Single(k) /\ ~ Begin(h) /\ ~ Reject(h)
      BY <1>1, <1>2, <2>2, OtherPlace
    <3>2. Active(h)
      BY <1>1, <1>2, <3>1, OwnStep
    <3> QED
      BY <1>1, <2>2, <3>1, <3>2 DEF AloneOnly
  <2> QED
    BY <2>1, <2>2
<1>3. ASSUME Restart, NEW g \in Handlers
      PROVE  ~ Active(g)'
  <2>1. DOMAIN job[g] = Fields
    BY <1>1 DEF Shape
  <2>2. job'[g] = IF Active(g) THEN [job[g] EXCEPT !.pc = "done", !.fd = "none", !.result = "lost"]
                  ELSE job[g]
    BY <1>3 DEF Restart
  <2> QED
    BY <2>1, <2>2 DEF Active, Fields
<1>4. ASSUME UNCHANGED vars
      PROVE  AloneOnly'
  BY <1>1, <1>4 DEF vars, AloneOnly, Single, Active
<1> QED
  BY <1>2, <1>3, <1>4 DEF Next, AloneOnly

\* Another handler with the same temporary file: the path is noted.
LEMMA SharedNoted ==
  ASSUME TInv, WInv, NEW h \in Handlers, Handler(h), NEW g \in Handlers \ {h},
         job'[h].pc \in AtTmp, job'[g].pc \in AtTmp, Path(g)' = Path(h)'
  PROVE  Path(h)' \in shared'
<1>1. Shape /\ Exclusive /\ Written(g)
  BY DEF TInv, WInv
<1>2. job[g].pc \in AtTmp /\ Path(g) = Path(h) /\ Path(h)' = Path(h)
  BY <1>1, AtTmpStep, OtherPlace
<1>3. CASE OpenTmp(h)
  <2>1. shared' = shared \cup {p \in {Path(h)} : \E f \in Handlers \ {h} : HasTmp(f, p)}
    BY <1>3 DEF OpenTmp
  <2>2. Path(g) \notin shared => HasTmp(g, Path(h))
    BY <1>1, <1>2 DEF Written, HasTmp, AtTmp
  <2> QED
    BY <1>2, <2>1, <2>2
<1>4. CASE ~ OpenTmp(h)
  <2>1. job[h].pc \in AtTmp /\ shared' = shared
    BY <1>4, AtTmpStep
  <2> QED
    BY <1>1, <1>2, <2>1 DEF Exclusive
<1> QED
  BY <1>3, <1>4

\* After a restart no handler has a temporary file.
LEMMA RestartLeaves ==
  ASSUME Shape, Restart, NEW g \in Handlers
  PROVE  /\ ~ Active(g)' /\ job'[g].pc \notin AtFile
         /\ Single(g)' => Single(g) /\ job'[g] = job[g] /\ job[g].result = "ok"
<1>1. DOMAIN job[g] = Fields
  BY DEF Shape
<1>2. job'[g] = IF Active(g) THEN [job[g] EXCEPT !.pc = "done", !.fd = "none", !.result = "lost"]
                ELSE job[g]
  BY DEF Restart
<1>3. CASE Active(g)
  <2>1. job'[g].pc = "done" /\ job'[g].result = "lost"
    BY <1>1, <1>2, <1>3 DEF Fields
  <2> QED
    BY <2>1 DEF Active, Single, AtFile
<1>4. CASE ~ Active(g)
  BY <1>2, <1>4 DEF Active, Single, AtFile
<1> QED
  BY <1>3, <1>4

LEMMA ExclusiveKept == TInv /\ WInv /\ [Next]_vars => Exclusive'
<1> SUFFICES ASSUME TInv, WInv, [Next]_vars
             PROVE  Exclusive'
    OBVIOUS
<1>1. Shape /\ Exclusive
  BY DEF TInv, WInv
<1>2. ASSUME NEW h \in Handlers, Handler(h), NEW f \in Handlers, NEW g \in Handlers, f # g,
             job'[f].pc \in AtTmp, job'[g].pc \in AtTmp, Path(f)' = Path(g)'
      PROVE  Path(g)' \in shared'
  <2>1. CASE f = h \/ g = h
    BY <1>2, <2>1, SharedNoted
  <2>2. CASE f # h /\ g # h
    <3>1. /\ job[f].pc \in AtTmp /\ job[g].pc \in AtTmp
          /\ Path(f)' = Path(f) /\ Path(g)' = Path(g)
      BY <1>1, <1>2, <2>2, OtherPlace
    <3>2. shared \subseteq shared'
      <4>1. Path(g) \in shared
        BY <1>1, <1>2, <3>1 DEF Exclusive
      <4>2. shared \subseteq Replaced
        BY <1>1 DEF Shape
      <4> QED
        BY <1>1, <1>2, <4>1, <4>2, TmpStep
    <3> QED
      BY <1>1, <1>2, <3>1, <3>2 DEF Exclusive
  <2> QED
    BY <2>1, <2>2
<1>3. CASE Restart
  BY <1>1, <1>3, RestartLeaves DEF Exclusive, AtFile, AtTmp
<1>4. CASE UNCHANGED vars
  BY <1>1, <1>4 DEF vars, Exclusive, Path
<1> QED
  BY <1>2, <1>3, <1>4 DEF Next, Exclusive

\* The chunks of a file: one after the other, or both at once.
LEMMA Chunks ==
  ASSUME NEW v, NEW file
  PROVE  /\ [i \in 1 .. 2 |-> IF i \in {1} THEN v ELSE file[i]][1] = v
         /\ [i \in 1 .. 2 |-> IF i \in {1, 2} THEN v ELSE file[i]] = Whole(v)
         /\ file[1] = v => [i \in 1 .. 2 |-> IF i \in {2} THEN v ELSE file[i]] = Whole(v)
<1>1. Whole(v) = [i \in 1 .. 2 |-> v]
  BY DEF Whole
<1>2. file[1] = v =>
        [i \in 1 .. 2 |-> IF i \in {2} THEN v ELSE file[i]] = [i \in 1 .. 2 |-> v]
  OBVIOUS
<1>3. [i \in 1 .. 2 |-> IF i \in {1, 2} THEN v ELSE file[i]] = [i \in 1 .. 2 |-> v]
  OBVIOUS
<1> QED
  BY <1>1, <1>2, <1>3

\* What the handler that takes the step has written.
LEMMA OwnWritten ==
  ASSUME TInv, WInv, NEW h \in Handlers, Handler(h)
  PROVE  Written(h)'
<1> SUFFICES ASSUME job'[h].pc \in AtTmp, Path(h)' \notin shared' \/ Single(h)'
             PROVE  /\ job'[h].fd = "tmp"
                    /\ job'[h].pc = "rest" => tmp'[Path(h)'][1] = Value(h)'
                    /\ job'[h].pc = "rename" => tmp'[Path(h)'] = Whole(Value(h)')
  BY DEF Written, Whole
<1>1. Shape /\ Written(h)
  BY DEF TInv, WInv
<1>2. DOMAIN job = Handlers /\ DOMAIN job[h] = Fields /\ DOMAIN tmp = Replaced
  BY <1>1 DEF Shape
<1>3. Path(h)' = Path(h) /\ Path(h) \in Replaced
  BY AtTmpStep
<1>4. CASE OpenTmp(h)
  BY <1>4, AtTmpStep
<1>5. CASE ~ OpenTmp(h)
  <2>1. /\ job[h].pc \in AtTmp /\ job'[h].fd = job[h].fd
        /\ job'[h].good = job[h].good /\ job'[h].cmd = job[h].cmd /\ shared' = shared
        /\ CopyFirst(h) \/ CopyRest(h)
        /\ Single(h)' => Single(h)
    BY <1>5, AtTmpStep
  <2>2. /\ job[h].fd = "tmp"
        /\ job[h].pc = "rest" => tmp[Path(h)][1] = Value(h)
    BY <1>1, <1>3, <2>1 DEF Written
  <2>3. Value(h)' = Value(h)
    BY <2>1 DEF Value
  <2> DEFINE new(chunks) ==
        [i \in 1 .. 2 |-> IF i \in chunks THEN Value(h) ELSE tmp[Path(h)][i]]
  <2>4. ASSUME NEW chunks, WriteChunks(h, chunks)
        PROVE  tmp'[Path(h)] = new(chunks)
    BY <1>2, <1>3, <2>2, <2>4 DEF WriteChunks, Value
  <2>5. CASE CopyFirst(h)
    <3>1. job'[h].pc = IF Type(h) = "set_password" THEN "rename" ELSE "rest"
      BY <1>2, <2>5 DEF CopyFirst, Fields
    <3>2. WriteChunks(h, IF Type(h) = "set_password" THEN {1, 2} ELSE {1})
      BY <2>5 DEF CopyFirst
    <3>3. tmp'[Path(h)] = IF Type(h) = "set_password" THEN new({1, 2}) ELSE new({1})
      BY <2>4, <3>2
    <3>4. new({1})[1] = Value(h) /\ new({1, 2}) = Whole(Value(h))
      BY Chunks
    <3> HIDE DEF new
    <3> QED
      BY <1>3, <2>1, <2>2, <2>3, <3>1, <3>3, <3>4
  <2>6. CASE CopyRest(h)
    <3>1. job'[h].pc = "rename" /\ job[h].pc = "rest"
      BY <1>2, <2>6 DEF CopyRest, Fields
    <3>2. tmp'[Path(h)] = new({2})
      BY <2>4, <2>6 DEF CopyRest
    <3>3. new({2}) = Whole(Value(h))
      BY <2>2, <3>1, Chunks
    <3> HIDE DEF new
    <3> QED
      BY <1>3, <2>1, <2>2, <2>3, <3>1, <3>2, <3>3
  <2> QED
    BY <2>1, <2>5, <2>6
<1> QED
  BY <1>4, <1>5

\* What another handler has written, unless the two share the file.
LEMMA OtherWritten ==
  ASSUME TInv, WInv, NEW h \in Handlers, Handler(h), NEW g \in Handlers \ {h}
  PROVE  Written(g)'
<1> SUFFICES ASSUME job'[g].pc \in AtTmp, Path(g)' \notin shared' \/ Single(g)'
             PROVE  /\ job'[g].fd = "tmp"
                    /\ job'[g].pc = "rest" => tmp'[Path(g)'][1] = Value(g)'
                    /\ job'[g].pc = "rename" => tmp'[Path(g)'] = Whole(Value(g)')
  BY DEF Written, Whole
<1>1. /\ Shape /\ Jobs /\ JobOK(g) /\ AloneOnly /\ Exclusive /\ Written(g)
  BY DEF TInv, Jobs, WInv
<1>2. /\ job'[g].pc = job[g].pc /\ job'[g].cmd = job[g].cmd /\ job'[g].good = job[g].good
      /\ Path(g)' = Path(g)
      /\ Single(g)' => (Single(g) /\ ~ (Reject(h) \/ Begin(h)))
  BY <1>1, OtherPlace
<1>3. job[g].pc \in AtTmp /\ Path(g) \in Replaced
  BY <1>1, <1>2, Passed DEF JobOK, AtFile, AtTmp
<1>4. ~ Single(g)'
  <2> SUFFICES ASSUME Single(g)'
               PROVE  FALSE
    OBVIOUS
  <2>1. Active(h)
    BY <1>1, <1>2, OwnStep
  <2> QED
    BY <1>1, <1>2, <2>1 DEF AloneOnly
<1>5. Path(g) \notin shared /\ Path(g) \notin shared'
  BY <1>1, <1>2, <1>3, <1>4, TmpStep
<1>6. job[g].fd = "tmp"
  BY <1>1, <1>3, <1>5 DEF Written
<1>7. ~ (job[h].pc \in AtTmp /\ Path(h) = Path(g))
  BY <1>1, <1>3, <1>5 DEF Exclusive
<1>8. ~ (OpenTmp(h) /\ Path(h) = Path(g))
  <2> SUFFICES ASSUME OpenTmp(h), Path(h) = Path(g)
               PROVE  FALSE
    OBVIOUS
  <2>1. HasTmp(g, Path(h))
    BY <1>3, <1>6 DEF HasTmp, AtTmp
  <2>2. Path(h) \in shared'
    BY <2>1 DEF OpenTmp
  <2> QED
    BY <1>5, <2>2
<1>9. tmp'[Path(g)] = tmp[Path(g)]
  BY <1>1, <1>3, <1>7, <1>8, TmpStep
<1>10. job'[g].fd = job[g].fd
  BY <1>1, <1>7, OtherStep
<1>11. Value(g)' = Value(g)
  BY <1>2 DEF Value
<1> QED
  BY <1>1, <1>2, <1>3, <1>5, <1>9, <1>10, <1>11 DEF Written

LEMMA WrittenKept == TInv /\ WInv /\ [Next]_vars => (\A g \in Handlers : Written(g))'
<1> SUFFICES ASSUME TInv, WInv, [Next]_vars, NEW g \in Handlers
             PROVE  Written(g)'
    OBVIOUS
<1>1. ASSUME NEW h \in Handlers, Handler(h)
      PROVE  Written(g)'
  BY <1>1, OwnWritten, OtherWritten
<1>2. CASE Restart
  BY <1>2, RestartLeaves DEF TInv, Written, AtFile, AtTmp
<1>3. CASE UNCHANGED vars
  BY <1>3 DEF WInv, vars, Written, Single, Active, Path, Value, Whole
<1> QED
  BY <1>1, <1>2, <1>3 DEF Next

\* A temporary file that only one handler has had holds what it has written, and
\* a handler that is alone stays so until another begins.
THEOREM TmpWritten == Spec => []WInv
<1>1. Init => WInv
  <2> SUFFICES ASSUME Init PROVE WInv
    OBVIOUS
  <2>1. \A h \in Handlers : job[h].pc = "idle" /\ job[h].result = "none"
    BY DEF Init
  <2> QED
    BY <2>1 DEF WInv, AloneOnly, Exclusive, Written, Single, Active, AtTmp
<1>2. TInv /\ WInv /\ [Next]_vars => WInv'
  BY AloneKept, ExclusiveKept, WrittenKept DEF WInv
<1> QED
  BY <1>1, <1>2, FilesTypes, PTL DEF Spec

-----------------------------------------------------------------------------
(* What replaces a file. *)

\* The files of a command that writes in place or removes are not replaced ones.
LEMMA OrdersApart ==
  ASSUME InPlaceElsewhere, Shape, ToSet(pair) \cap Replaced = {},
         NEW c \in Commands, NEW todo \in Orders(c), Start(c.type) \in {"write", "remove"}
  PROVE  ToSet(todo) \cap Replaced = {}
<1>1. CASE c.type \in InPlaceTypes
  <2>1. Start(c.type) = "write"
    BY <1>1 DEF Start, InPlaceTypes, RemovingTypes, ReplacingTypes
  <2>2. ToSet(todo) = ToSet(c.files)
    BY <2>1, Ordered
  <2> QED
    BY <1>1, <2>2 DEF InPlaceElsewhere
<1>2. CASE c.type = "host_key_remove"
  <2>1. todo \in SetToSeqs(HostKeys)
    BY <1>2 DEF Orders
  <2>2. ToSet(todo) = HostKeys
    BY <2>1, DeviceFilesAssumption, OrderLists
  <2> QED
    BY <2>2 DEF InPlaceElsewhere
<1>3. CASE c.type = "tls_cert_remove"
  <2>1. todo = DefaultPair \/ todo = pair
    BY <1>3 DEF Orders
  <2> QED
    BY <2>1 DEF InPlaceElsewhere
<1> QED
  BY <1>1, <1>2, <1>3, CommandsAssumption DEF Start, InPlaceTypes, RemovingTypes, ReplacingTypes

LEMMA ApartKept ==
  ASSUME InPlaceElsewhere
  PROVE  TInv /\ Apart /\ [Next]_vars => Apart'
<1> SUFFICES ASSUME TInv, Apart, [Next]_vars
             PROVE  Apart'
    OBVIOUS
<1>1. Shape /\ Jobs
  BY DEF TInv
<1>2. ASSUME NEW h \in Handlers, Handler(h)
      PROVE  ToSet(pair') \cap Replaced = {}
  <2>1. CASE Succeed(h) /\ Type(h) = "tls_cert_push"
    <3>1. pair' = job[h].cmd.files
      BY <2>1 DEF Succeed, Remembered
    <3>2. job[h].cmd \in Commands
      BY <1>1, <2>1 DEF Succeed, Jobs, JobOK, Active
    <3> QED
      BY <2>1, <3>1, <3>2 DEF InPlaceElsewhere, InPlaceTypes, Type
  <2>2. CASE Succeed(h) /\ Type(h) = "tls_cert_remove"
    <3>1. pair' = <<>>
      BY <2>2 DEF Succeed, Remembered
    <3> QED
      BY <3>1 DEF ToSet
  <2>3. CASE Succeed(h) /\ Type(h) \notin {"tls_cert_push", "tls_cert_remove"}
    <3>1. pair' = pair
      BY <2>3 DEF Succeed, Remembered
    <3> QED
      BY <3>1 DEF Apart
  <2>4. CASE ~ Succeed(h)
    <3>1. pair' = pair
      BY <1>2, <2>4 DEF Handler, Reject, Begin, WriteFile, WriteFails, NameNotPermitted, RemoveFile,
                  RemoveFails, FetchKey, FetchFails, RestartService, TargetFails, OpenTmp,
                  CopyFirst, CopyRest, TransferFails, Rename
    <3> QED
      BY <3>1 DEF Apart
  <2> QED
    BY <2>1, <2>2, <2>3, <2>4
<1>3. ASSUME NEW h \in Handlers, Handler(h), NEW g \in Handlers, job'[g].pc \in {"write", "remove"}
      PROVE  ToSet(job'[g].todo) \cap Replaced = {}
  <2>1. CASE g # h
    <3>1. job'[g].pc = job[g].pc /\ job'[g].todo = job[g].todo
      BY <1>1, <1>3, <2>1, OtherPlace
    <3> QED
      BY <1>3, <3>1 DEF Apart
  <2>2. CASE g = h /\ Begin(h)
    <3>1. PICK c \in Commands :
            \E todo \in Orders(c) : job'[h].pc = Start(c.type) /\ job'[h].todo = todo
      BY <1>1, <2>2 DEF Begin, Shape, Fields
    <3>2. PICK todo \in Orders(c) : job'[h].pc = Start(c.type) /\ job'[h].todo = todo
      BY <3>1
    <3> QED
      BY <1>1, <1>3, <2>2, <3>2, OrdersApart DEF Apart
  <2>3. CASE g = h /\ ~ Begin(h)
    <3>1. /\ job[h].pc \in {"write", "remove"} /\ job'[h].todo = Tail(job[h].todo)
      <4>1. ~ Reject(h)
        BY <1>1, <1>3, <2>3, OwnStep
      <4>2. ~ (WriteFails(h) \/ NameNotPermitted(h) \/ FetchFails(h) \/ RestartService(h)
               \/ Succeed(h) \/ OpenTmp(h) \/ CopyFirst(h) \/ CopyRest(h))
        BY <1>1, <1>3, <2>3 DEF WriteFails, NameNotPermitted, FetchFails, RestartService, Succeed,
                                OpenTmp, CopyFirst, CopyRest, Fail, Shape, Fields
      <4>3. ~ (FetchKey(h) \/ TargetFails(h) \/ TransferFails(h) \/ Rename(h))
        BY <1>1, <1>3, <2>3, Advanced DEF Advances
      <4>4. WriteFile(h) \/ RemoveFile(h) \/ RemoveFails(h)
        BY <1>3, <2>3, <4>1, <4>2, <4>3 DEF Handler
      <4> QED
        BY <1>1, <1>3, <4>4, Advanced DEF Advances, WriteFile, RemoveFile, RemoveFails
    <3>2. ToSet(Tail(job[h].todo)) \subseteq ToSet(job[h].todo)
      BY <1>1, <3>1, Passed DEF AtFile
    <3> QED
      BY <2>3, <3>1, <3>2 DEF Apart
  <2> QED
    BY <2>1, <2>2, <2>3
<1>4. CASE Restart
  <2>1. pair' = <<>>
    BY <1>4 DEF Restart
  <2>2. ToSet(pair') \cap Replaced = {}
    BY <2>1 DEF ToSet
  <2> QED
    BY <1>1, <1>4, <2>2, RestartLeaves DEF Apart, AtFile
<1>5. CASE UNCHANGED vars
  BY <1>5 DEF vars, Apart
<1> QED
  BY <1>2, <1>3, <1>4, <1>5 DEF Next, Apart

\* The only step that replaces a file that is not shared has it whole.
LEMMA VerifiedKept == TInv /\ WInv /\ VInv /\ [Next]_vars => Verified'
<1> SUFFICES ASSUME TInv, WInv, VInv, [Next]_vars
             PROVE  Verified'
    OBVIOUS
<1>1. Shape /\ Jobs /\ Apart /\ Verified
  BY DEF TInv, VInv
<1> DEFINE Known == {Whole(Factory)} \cup {Whole(c.id) : c \in Commands}
<1>2. ASSUME NEW h \in Handlers, Handler(h), NEW p \in Replaced \ shared'
      PROVE  disk'[p] \in Known
  <2>1. p \notin shared /\ p \in Paths
    BY <1>1, <1>2, TmpStep DEF Paths
  <2>2. disk[p] \in Known
    BY <1>1, <2>1 DEF Verified
  <2>3. CASE disk'[p] = disk[p]
    BY <2>2, <2>3
  <2>4. CASE disk'[p] # disk[p]
    <3>1. p = Path(h) /\ job[h].pc \in AtTmp \cup {"write", "remove"}
      BY <1>1, <1>2, <2>1, <2>4, DiskStep DEF Rename, AtTmp
    <3>2. job[h].pc \notin {"write", "remove"}
      BY <1>1, <3>1, Passed DEF Apart, AtFile
    <3>3. job[h].pc = "rename" => tmp[p] = Whole(Value(h))
      BY <2>1, <3>1, <3>2 DEF WInv, Written
    <3>4. job[h].fd = "tmp"
      BY <2>1, <3>1, <3>2 DEF WInv, Written
    <3>5. Rename(h) /\ disk' = [disk EXCEPT ![p] = tmp[p]]
      BY <1>1, <1>2, <2>1, <2>4, <3>2, <3>4, DiskStep
    <3>6. disk'[p] = Whole(job[h].cmd.id)
      BY <1>1, <2>1, <3>3, <3>5 DEF Rename, Value, Shape
    <3>7. job[h].cmd \in Commands
      BY <1>1, <3>1 DEF Jobs, JobOK, Active, AtTmp
    <3> QED
      BY <3>6, <3>7
  <2> QED
    BY <2>3, <2>4
<1>3. CASE Restart \/ UNCHANGED vars
  <2>1. disk' = disk /\ shared' = shared
    BY <1>3 DEF Restart, vars
  <2> QED
    BY <1>1, <2>1 DEF Verified, Whole
<1>4. ASSUME NEW h \in Handlers, Handler(h)
      PROVE  Verified'
  BY <1>2, <1>4 DEF Verified, Whole
<1> QED
  BY <1>3, <1>4 DEF Next

\* A file that is replaced is at every moment complete and verified, whatever
\* fails, and whenever handlers overlap or the process ends, as long as no two
\* handlers have its temporary file at once and no other command writes it.
THEOREM AlwaysVerified ==
  ASSUME InPlaceElsewhere
  PROVE  Spec => []Verified
<1>1. Init => VInv
  <2> SUFFICES ASSUME Init PROVE VInv
    OBVIOUS
  <2>1. Apart
    BY DEF Init, Apart, ToSet
  <2>2. Replaced \subseteq Paths
    BY DEF Paths
  <2>3. Verified
    BY <2>2 DEF Init, Verified
  <2> QED
    BY <2>1, <2>3 DEF VInv
<1>2. TInv /\ WInv /\ VInv /\ [Next]_vars => VInv'
  BY ApartKept, VerifiedKept DEF VInv
<1>3. VInv => Verified
  BY DEF VInv
<1> QED
  BY <1>1, <1>2, <1>3, FilesTypes, TmpWritten, PTL DEF Spec

-----------------------------------------------------------------------------
(* What an ack says. *)

\* A success is the last step of a command that has not failed.
LEMMA OkStep ==
  ASSUME TInv, NEW h \in Handlers, Handler(h), job'[h].result = "ok"
  PROVE  /\ Succeed(h) /\ job'[h].failed = job[h].failed /\ ~ job[h].failed
         /\ job'[h].cmd = job[h].cmd
<1>1. Shape /\ Jobs /\ JobOK(h)
  BY DEF TInv, Jobs
<1>2. DOMAIN job = Handlers /\ DOMAIN job[h] = Fields
  BY <1>1 DEF Shape
<1>3. job[h].result # "ok"
  <2>1. job[h].pc # "done"
    BY <1>1, OwnStep DEF Begin, Reject, MayBegin, Active
  <2> QED
    BY <1>1, <2>1 DEF JobOK
<1>4. Succeed(h)
  <2>1. ~ (Reject(h) \/ Begin(h))
    BY <1>2, <1>3 DEF Reject, Begin, Fields
  <2>2. ~ (WriteFile(h) \/ RemoveFile(h) \/ RemoveFails(h) \/ FetchKey(h)
           \/ TargetFails(h) \/ TransferFails(h) \/ Rename(h))
    BY <1>1, <1>3, Advanced DEF Advances
  <2>3. ~ (WriteFails(h) \/ NameNotPermitted(h) \/ FetchFails(h) \/ RestartService(h)
           \/ OpenTmp(h) \/ CopyFirst(h) \/ CopyRest(h))
    BY <1>2, <1>3 DEF WriteFails, NameNotPermitted, FetchFails, RestartService, Fail, OpenTmp,
                      CopyFirst, CopyRest, Fields
  <2> QED
    BY <2>1, <2>2, <2>3 DEF Handler
<1> QED
  BY <1>2, <1>4 DEF Succeed, Fields

\* The files dealt with are those of before and the one that is left.
LEMMA DealtStep ==
  ASSUME TInv, NEW h \in Handlers, job[h].pc \in AtFile,
         job'[h].all = job[h].all, job'[h].todo = Tail(job[h].todo)
  PROVE  Dealt(h)' \subseteq Dealt(h) \cup {Path(h)}
BY Passed DEF TInv, Dealt

\* A command that is alone and begins has dealt with none of its files.
LEMMA ProgressBegins ==
  ASSUME TInv, AInv, NEW h \in Handlers, Begin(h)
  PROVE  Progress(h)'
<1>1. Shape
  BY DEF TInv
<1>2. job[h].keys = {}
  BY DEF AInv, Begin, MayBegin
<1>3. PICK c \in Commands :
        \E todo \in Orders(c) : /\ job'[h].cmd = c /\ job'[h].todo = todo /\ job'[h].all = todo
                               /\ job'[h].keys = job[h].keys
  BY <1>1 DEF Begin, Shape, Fields
<1>4. PICK todo \in Orders(c) : /\ job'[h].cmd = c /\ job'[h].todo = todo /\ job'[h].all = todo
                                /\ job'[h].keys = {}
  BY <1>2, <1>3
<1>5. Dealt(h)' = {} /\ Type(h)' = c.type
  BY <1>4 DEF Dealt, Type
<1>6. Start(c.type) = "fetch" => ToSet(todo) = HostKeys
  BY <1>1, Ordered
<1> HIDE DEF Dealt
<1> QED
  BY <1>4, <1>5, <1>6 DEF Progress

\* A command that is alone has done its work on the files it has dealt with.
LEMMA ProgressStep ==
  ASSUME TInv, WInv, AInv, NEW h \in Handlers, Handler(h), ~ Begin(h), Single(h)'
  PROVE  Progress(h)'
<1>1. Shape /\ Jobs /\ JobOK(h) /\ Written(h)
  BY DEF TInv, Jobs, WInv
<1>2. /\ DOMAIN job = Handlers /\ DOMAIN job[h] = Fields /\ DOMAIN disk = Paths
      /\ Replaced \subseteq Paths
  BY <1>1 DEF Shape, Paths
<1>3. /\ job'[h].cmd = job[h].cmd /\ job'[h].all = job[h].all /\ job'[h].alone = job[h].alone
      /\ ~ Reject(h) /\ Active(h)
  BY <1>1, OwnStep DEF Single, Active
<1>4. Progress(h) /\ Single(h)
  BY <1>3 DEF AInv, Single
<1>5. Type(h)' = Type(h) /\ Own(h)' = Own(h)
  BY <1>3 DEF Type, Own, Whole
<1>6. CASE WriteFile(h)
  <2>1. /\ job[h].pc = "write" /\ Path(h) \in Paths /\ disk' = [disk EXCEPT ![Path(h)] = Own(h)]
        /\ job'[h].todo = Tail(job[h].todo) /\ job'[h].failed = job[h].failed
    BY <1>2, <1>6 DEF WriteFile, FileDone, Fields
  <2>2. Dealt(h)' \subseteq Dealt(h) \cup {Path(h)}
    BY <1>3, <2>1, DealtStep DEF AtFile
  <2>3. Start(Type(h)) = "write"
    BY <1>1, <2>1 DEF JobOK
  <2>4. Dealt(h)' \subseteq Paths
    BY <1>4, <2>1, <2>2, <2>3 DEF Progress
  <2>5. ASSUME NEW p \in Dealt(h)', ~ job[h].failed
        PROVE  disk'[p] = Own(h)
    <3>1. p = Path(h) \/ disk[p] = Own(h)
      BY <1>4, <2>2, <2>3, <2>5 DEF Progress
    <3>2. p \in Paths => disk'[p] = IF p = Path(h) THEN Own(h) ELSE disk[p]
      BY <1>2, <2>1
    <3> QED
      BY <2>5, <2>4, <3>1, <3>2
  <2> QED
    BY <1>5, <2>1, <2>3, <2>5, <2>4 DEF Progress
<1>7. CASE RemoveFile(h) \/ RemoveFails(h)
  <2>1. /\ job[h].pc = "remove" /\ job'[h].todo = Tail(job[h].todo)
        /\ job'[h].left = job[h].left \cup IF RemoveFile(h) THEN {} ELSE {Path(h)}
        /\ disk' = disk \/ disk' = [disk EXCEPT ![Path(h)] = NoFile]
        /\ RemoveFile(h) => disk' = [disk EXCEPT ![Path(h)] = NoFile]
    <3>1. CASE RemoveFile(h)
      BY <1>2, <3>1 DEF RemoveFile, FileDone, Fields
    <3>2. CASE RemoveFails(h) /\ ~ RemoveFile(h)
      BY <1>2, <3>2 DEF RemoveFails, Fields
    <3> QED
      BY <1>7, <3>1, <3>2
  <2>2. Dealt(h)' \subseteq Dealt(h) \cup {Path(h)}
    BY <1>3, <2>1, DealtStep DEF AtFile
  <2>3. Start(Type(h)) = "remove" /\ Path(h) \in Paths
    BY <1>1, <2>1, Passed DEF JobOK, AtFile
  <2>4. Dealt(h)' \subseteq Paths
    BY <1>4, <2>2, <2>3 DEF Progress
  <2>5. ASSUME NEW p \in Dealt(h)' \ job'[h].left
        PROVE  disk'[p] = NoFile
    <3>1. (p = Path(h) /\ RemoveFile(h)) \/ disk[p] = NoFile
      BY <1>4, <2>1, <2>2, <2>3, <2>5 DEF Progress
    <3>2. RemoveFile(h) => disk'[Path(h)] = NoFile
      BY <1>2, <2>1, <2>3
    <3>3. p # Path(h) => disk'[p] = disk[p]
      BY <1>2, <2>1, <2>5, <2>4
    <3>4. disk'[Path(h)] \in {disk[Path(h)], NoFile}
      BY <1>2, <2>1, <2>3
    <3> QED
      BY <3>1, <3>2, <3>3, <3>4
  <2> QED
    BY <1>5, <2>3, <2>5, <2>4 DEF Progress
<1>8. CASE FetchKey(h)
  <2>1. /\ job[h].pc = "fetch" /\ job'[h].todo = Tail(job[h].todo) /\ disk' = disk
        /\ job'[h].keys = IF disk[Path(h)] = NoFile THEN job[h].keys
                          ELSE job[h].keys \cup {<<Path(h), disk[Path(h)]>>}
    BY <1>2, <1>8 DEF FetchKey, Fields
  <2>2. ToSet(job[h].todo) = {Path(h)} \cup ToSet(Tail(job[h].todo))
    BY <1>1, <2>1, Passed DEF AtFile
  <2>3. Start(Type(h)) = "fetch"
    BY <1>1, <2>1 DEF JobOK
  <2>4. ASSUME NEW k \in job'[h].keys
        PROVE  \E p \in HostKeys : k = <<p, disk[p]>> /\ disk[p] # NoFile
    <3>1. CASE k \in job[h].keys
      BY <1>4, <2>3, <3>1 DEF Progress
    <3>2. CASE k = <<Path(h), disk[Path(h)]>> /\ disk[Path(h)] # NoFile
      <4>1. Path(h) \in HostKeys
        BY <1>1, <2>1, Passed DEF TInv, Jobs, JobOK, AtFile
      <4> QED
        BY <3>2, <4>1
    <3> QED
      BY <2>1, <2>4, <3>1, <3>2
  <2>5. ASSUME NEW p \in HostKeys, p \notin ToSet(job'[h].todo), disk[p] # NoFile
        PROVE  <<p, disk[p]>> \in job'[h].keys
    BY <1>4, <2>1, <2>2, <2>3, <2>5 DEF Progress
  <2> QED
    BY <1>5, <2>1, <2>3, <2>4, <2>5 DEF Progress
<1>9. CASE TargetFails(h) \/ TransferFails(h)
  <2>1. job'[h].failed = TRUE
    <3>1. CASE TargetFails(h)
      BY <1>2, <3>1 DEF TargetFails, Fields
    <3>2. CASE TransferFails(h)
      <4>1. Descriptors(h, Path(h), "none")[h] = job[h]
        BY <1>1, DescriptorsOnly
      <4>2. DOMAIN Descriptors(h, Path(h), "none") = Handlers
        BY DEF Descriptors
      <4> QED
        BY <1>2, <3>2, <4>1, <4>2 DEF TransferFails, Fields
    <3> QED
      BY <1>9, <3>1, <3>2
  <2>2. job[h].pc \in AtTmp \cup {"open"} /\ job[h].pc \in AtFile
    BY <1>9 DEF TargetFails, TransferFails, AtTmp, AtFile
  <2>3. Start(Type(h)) = "open" /\ Path(h) \in Paths
    BY <1>1, <1>2, <2>2, Passed
       DEF JobOK, AtTmp, AtFile, Start, InPlaceTypes, RemovingTypes, ReplacingTypes
  <2>4. job'[h].todo = Tail(job[h].todo)
    BY <1>1, <1>9, Advanced DEF Advances
  <2>5. Dealt(h)' \subseteq Paths
    BY <1>3, <1>4, <2>2, <2>3, <2>4, DealtStep DEF Progress
  <2> QED
    BY <1>5, <2>1, <2>3, <2>5 DEF Progress
<1>10. CASE Rename(h)
  <2>1. /\ job[h].pc = "rename" /\ job[h].good /\ disk' = [disk EXCEPT ![Path(h)] = tmp[Path(h)]]
        /\ job'[h].todo = Tail(job[h].todo) /\ job'[h].failed = job[h].failed
    <3>1. Descriptors(h, Path(h), "target")[h] = job[h]
      BY <1>1, DescriptorsOnly
    <3>2. DOMAIN Descriptors(h, Path(h), "target") = Handlers
      BY DEF Descriptors
    <3> QED
      BY <1>2, <1>10, <3>1, <3>2 DEF Rename, Fields
  <2>2. Dealt(h)' \subseteq Dealt(h) \cup {Path(h)}
    BY <1>3, <2>1, DealtStep DEF AtFile
  <2>3. Start(Type(h)) = "open" /\ Path(h) \in Paths
    BY <1>1, <1>2, <2>1, Passed
       DEF JobOK, AtTmp, AtFile, Start, InPlaceTypes, RemovingTypes, ReplacingTypes
  <2>4. tmp[Path(h)] = Own(h)
    BY <1>1, <1>4, <2>1 DEF Written, AtTmp, Value, Own
  <2>5. Dealt(h)' \subseteq Paths
    BY <1>4, <2>2, <2>3 DEF Progress
  <2>6. ASSUME NEW p \in Dealt(h)', ~ job[h].failed
        PROVE  disk'[p] = Own(h)
    <3>1. p = Path(h) \/ disk[p] = Own(h)
      BY <1>4, <2>2, <2>3, <2>6 DEF Progress
    <3>2. disk'[Path(h)] = Own(h)
      BY <1>2, <2>1, <2>3, <2>4
    <3>3. p # Path(h) => disk'[p] = disk[p]
      BY <1>2, <2>1, <2>6, <2>5
    <3> QED
      BY <3>1, <3>2, <3>3
  <2> QED
    BY <1>5, <2>1, <2>3, <2>6, <2>5 DEF Progress
<1>11. CASE RestartService(h) \/ Succeed(h) \/ OpenTmp(h) \/ CopyFirst(h) \/ CopyRest(h)
  <2>1. /\ job'[h].todo = job[h].todo /\ job'[h].failed = job[h].failed
        /\ job'[h].left = job[h].left /\ job'[h].keys = job[h].keys
    BY <1>2, <1>11 DEF RestartService, Succeed, OpenTmp, CopyFirst, CopyRest, Fields
  <2>2. disk' = disk
    BY <1>1, <1>4, <1>11 DEF RestartService, Succeed, OpenTmp, CopyFirst, CopyRest, WriteChunks,
                             Written, AtTmp
  <2>3. Dealt(h)' = Dealt(h)
    BY <1>3, <2>1 DEF Dealt
  <2> QED
    BY <1>4, <1>5, <2>1, <2>2, <2>3 DEF Progress
<1>12. ~ (WriteFails(h) \/ NameNotPermitted(h) \/ FetchFails(h))
  <2> SUFFICES ASSUME WriteFails(h) \/ NameNotPermitted(h) \/ FetchFails(h)
               PROVE  FALSE
    OBVIOUS
  <2>1. job'[h].pc = "done" /\ job'[h].result = "error"
    BY <1>2 DEF WriteFails, NameNotPermitted, FetchFails, Fail, Fields
  <2> QED
    BY <2>1 DEF Single, Active
<1> QED
  BY <1>3, <1>6, <1>7, <1>8, <1>9, <1>10, <1>11, <1>12 DEF Handler

\* What the agent remembers of the certificate is by the last success.
LEMMA PairStep ==
  ASSUME NEW h \in Handlers, Succeed(h), job'[h].cmd = job[h].cmd
  PROVE  PairOK(h)'
BY DEF Succeed, Remembered, PairOK, Type

LEMMA AcksKept == TInv /\ WInv /\ AInv /\ [Next]_vars => AInv'
<1> SUFFICES ASSUME TInv, WInv, AInv, [Next]_vars
             PROVE  AInv'
    OBVIOUS
<1> DEFINE Right(k) == /\ job[k].pc = "idle" => job[k].keys = {}
                       /\ job[k].result = "ok" => ~ job[k].failed
                       /\ Single(k) => Progress(k)
                       /\ Single(k) /\ job[k].result = "ok" => PairOK(k)
<1>1. Shape /\ Jobs /\ AloneOnly /\ \A k \in Handlers : Right(k)
  BY DEF TInv, WInv, AInv
<1>2. ASSUME NEW h \in Handlers, Handler(h)
      PROVE  Right(h)'
  <2>1. job'[h].pc # "idle"
    <3>1. Begin(h) => job'[h].pc # "idle"
      <4>1. Begin(h) => \E c \in Commands : job'[h].pc = Start(c.type)
        BY <1>1 DEF Begin, Shape, Fields
      <4>2. \A c \in Commands : Start(c.type) # "idle"
        BY DEF Start
      <4> QED
        BY <4>1, <4>2
    <3>2. WriteFile(h) \/ RemoveFile(h) \/ RemoveFails(h) \/ FetchKey(h)
          \/ TargetFails(h) \/ TransferFails(h) \/ Rename(h) => job'[h].pc # "idle"
      BY <1>1, <1>2, Advanced DEF Advances
    <3>3. Reject(h) \/ WriteFails(h) \/ NameNotPermitted(h) \/ FetchFails(h) => job'[h].pc # "idle"
      BY <1>1 DEF Reject, WriteFails, NameNotPermitted, FetchFails, Fail, Shape, Fields
    <3>4. RestartService(h) \/ Succeed(h) => job'[h].pc # "idle"
      BY <1>1 DEF RestartService, Succeed, Shape, Fields
    <3>5. OpenTmp(h) \/ CopyFirst(h) \/ CopyRest(h) => job'[h].pc # "idle"
      BY <1>1 DEF OpenTmp, CopyFirst, CopyRest, Shape, Fields
    <3> QED
      BY <1>2, <3>1, <3>2, <3>3, <3>4, <3>5 DEF Handler
  <2>2. job'[h].result = "ok" =>
          Succeed(h) /\ ~ job'[h].failed /\ job'[h].cmd = job[h].cmd
    BY <1>2, OkStep
  <2>3. Single(h)' => Progress(h)'
    BY <1>2, ProgressBegins, ProgressStep
  <2>4. job'[h].result = "ok" => PairOK(h)'
    BY <2>2, PairStep
  <2> QED
    BY <2>1, <2>2, <2>3, <2>4
<1>3. ASSUME NEW h \in Handlers, Handler(h), NEW g \in Handlers \ {h}
      PROVE  Right(g)'
  <2>1. /\ job'[g].pc = job[g].pc /\ job'[g].keys = job[g].keys
        /\ job'[g].result = job[g].result /\ job'[g].failed = job[g].failed
        /\ Single(g)' => (Single(g) /\ ~ (Reject(h) \/ Begin(h)))
    BY <1>1, <1>3, OtherPlace
  <2>2. ~ Single(g)'
    BY <1>1, <1>3, <2>1, OwnStep DEF AloneOnly
  <2> QED
    BY <1>1, <2>1, <2>2
<1>4. ASSUME Restart, NEW g \in Handlers
      PROVE  Right(g)'
  <2>1. DOMAIN job[g] = Fields
    BY <1>1 DEF Shape
  <2>2. job'[g] = IF Active(g) THEN [job[g] EXCEPT !.pc = "done", !.fd = "none", !.result = "lost"]
                  ELSE job[g]
    BY <1>4 DEF Restart
  <2>3. CASE Active(g)
    <3>1. job'[g].pc = "done" /\ job'[g].result = "lost"
      BY <2>1, <2>2, <2>3 DEF Fields
    <3> QED
      BY <3>1 DEF Single, Active
  <2>4. CASE ~ Active(g)
    <3>1. job'[g] = job[g] /\ disk' = disk /\ pair' = <<>>
      BY <1>4, <2>2, <2>4 DEF Restart
    <3>2. Single(g)' <=> Single(g)
      BY <3>1 DEF Single, Active
    <3>3. Progress(g)' <=> Progress(g)
      BY <3>1 DEF Progress, Dealt, Type, Own, Whole, NoFile
    <3>4. PairOK(g)'
      BY <3>1 DEF PairOK
    <3> QED
      BY <1>1, <3>1, <3>2, <3>3, <3>4
  <2> QED
    BY <2>3, <2>4
<1>5. ASSUME UNCHANGED vars
      PROVE  AInv'
  BY <1>1, <1>5 DEF vars, AInv, Single, Active, Progress, Dealt, Type, Own, Whole, NoFile, PairOK
<1> HIDE DEF Right
<1>6. ASSUME Next, NEW k \in Handlers
      PROVE  Right(k)'
  BY <1>2, <1>3, <1>4, <1>6 DEF Next
<1> QED
  BY <1>5, <1>6 DEF Right, AInv

\* What a command that is alone has done says what its ack does.
LEMMA AcksSay == TInv /\ AInv => AckedDone
<1> SUFFICES ASSUME TInv, AInv, NEW h \in Handlers, job[h].result = "ok", job[h].alone
             PROVE  LET files == ToSet(job[h].all)
                    IN  CASE Start(Type(h)) \in {"write", "open"} ->
                               /\ \A p \in files : disk[p] = Own(h)
                               /\ Type(h) = "tls_cert_push" => pair \in {<<>>, job[h].cmd.files}
                          [] Start(Type(h)) = "remove" ->
                               /\ \A p \in files \ job[h].left : disk[p] = NoFile
                               /\ Type(h) = "tls_cert_remove" => pair = <<>>
                          [] OTHER -> job[h].keys = {<<p, disk[p]>> : p \in {p \in HostKeys : disk[p] # NoFile}}
  BY DEF AckedDone
<1>1. Single(h) /\ Progress(h) /\ PairOK(h) /\ ~ job[h].failed
  BY DEF Single, AInv
<1>2. job[h].todo = <<>>
  BY DEF TInv, Jobs, JobOK
<1>3. ToSet(job[h].todo) = {} /\ Dealt(h) = ToSet(job[h].all)
  BY <1>2 DEF ToSet, Dealt
<1>4. Start(Type(h)) \in {"write", "remove", "fetch", "open"}
  BY DEF Start
<1>5. CASE Start(Type(h)) \in {"write", "open"}
  BY <1>1, <1>3, <1>5 DEF Progress, PairOK
<1>6. CASE Start(Type(h)) = "remove"
  BY <1>1, <1>3, <1>6 DEF Progress, PairOK
<1>7. CASE Start(Type(h)) = "fetch"
  <2>1. job[h].keys = {<<p, disk[p]>> : p \in {p \in HostKeys : disk[p] # NoFile}}
    BY <1>1, <1>3, <1>7 DEF Progress
  <2> QED
    BY <1>7, <2>1
<1> QED
  BY <1>4, <1>5, <1>6, <1>7

\* A command acknowledged as ok has done what it says to every one of its files,
\* unless another handler ran beside it or after it.
THEOREM AlwaysAckedDone == Spec => []AckedDone
<1>1. Init => AInv
  <2> SUFFICES ASSUME Init PROVE AInv
    OBVIOUS
  <2>1. \A h \in Handlers : job[h].pc = "idle" /\ job[h].result = "none" /\ job[h].keys = {}
    BY DEF Init
  <2> QED
    BY <2>1 DEF AInv, Single, Active
<1>2. TInv /\ WInv /\ AInv /\ [Next]_vars => AInv'
  BY AcksKept
<1> QED
  BY <1>1, <1>2, AcksSay, FilesTypes, TmpWritten, PTL DEF Spec
=============================================================================
