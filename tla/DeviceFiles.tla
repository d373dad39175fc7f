----------------------------- MODULE DeviceFiles ----------------------------
(***************************************************************************)
(* The commands that change files of the device: file_write, the host key  *)
(* and TLS certificate commands, which call rpcd's file object once per    *)
(* file, and file_transfer and set_password, which write a temporary file  *)
(* beside the target and rename it.  Handlers of one session run one after *)
(* the other; one of a lost session runs beside those of the next.  Any    *)
(* call may fail, and one that fails by its timeout may have taken effect. *)
(*                                                                         *)
(* A file is a pair of chunks: the command that wrote each, Hole where     *)
(* nothing is written, Corrupt for what does not have the checksum.        *)
(***************************************************************************)
EXTENDS Integers, Sequences, FiniteSets, SequencesExt

CONSTANTS
  Commands,      \* [id, type, files], files being the paths in the payload
  HostKeys,      \* allowedHostKeyFilenamesByDaemon
  DefaultPair,   \* <<defaultTLSCertPath, defaultTLSKeyPath>>
  Replaced,      \* the paths written through a temporary file
  OtherPaths,    \* the other paths of commands
  MaxHandlers,   \* bound on the handlers that run
  MaxRestarts,   \* bound on restarts of the process
  Hole, Corrupt, Factory

Handlers == 1 .. MaxHandlers
Paths == HostKeys \cup ToSet(DefaultPair) \cup Replaced \cup OtherPaths

InPlaceTypes == {"file_write", "host_key_restore", "tls_cert_push"}
RemovingTypes == {"host_key_remove", "tls_cert_remove"}
ReplacingTypes == {"file_transfer", "set_password"}

ASSUME DeviceFilesAssumption ==
  /\ MaxHandlers \in Nat /\ MaxRestarts \in Nat
  /\ IsFiniteSet(HostKeys) /\ HostKeys # {}
  /\ DefaultPair \in Seq(ToSet(DefaultPair)) /\ DefaultPair # <<>>

\* A payload names the files it writes; a certificate's paths are checked first.
ASSUME CommandsAssumption ==
  \A c \in Commands :
    /\ c.type \in InPlaceTypes \cup RemovingTypes \cup ReplacingTypes \cup {"host_key_fetch"}
    /\ c.files \in Seq(ToSet(c.files))
    /\ c.type \in InPlaceTypes \cup ReplacingTypes => c.files # <<>>
    /\ c.type = "tls_cert_push" => ToSet(c.files) \subseteq Paths
    /\ c.type \in ReplacingTypes => ToSet(c.files) \subseteq Replaced

NoFile == <<>>
Whole(id) == <<id, id>>

VARIABLES
  disk,     \* the file at each path
  tmp,      \* the temporary file of each path in Replaced
  pair,     \* tlsCertPath and tlsKeyPath, <<>> while they are ""
  job,      \* where each handler is
  \* History: the paths whose temporary file two handlers had at once, the restarts.
  shared, restarts

vars == <<disk, tmp, pair, job, shared, restarts>>

Init ==
  /\ disk \in [Paths -> {Whole(Factory)}]
  /\ tmp = [p \in Replaced |-> NoFile]
  /\ pair = <<>>
  /\ job = [h \in Handlers |->
              [pc |-> "idle", cmd |-> [id |-> 0, type |-> "none", files |-> <<>>], todo |-> <<>>,
               all |-> <<>>, fd |-> "none", good |-> TRUE, failed |-> FALSE, left |-> {},
               keys |-> {}, alone |-> TRUE, result |-> "none"]]
  /\ shared = {} /\ restarts = 0

Active(h) == job[h].pc \notin {"idle", "done"}
Type(h) == job[h].cmd.type
Path(h) == Head(job[h].todo)
Own(h) == Whole(job[h].cmd.id)

\* Where each command begins.
Start(type) ==
  CASE type \in InPlaceTypes -> "write"
    [] type \in RemovingTypes -> "remove"
    [] type = "host_key_fetch" -> "fetch"
    [] OTHER -> "open"

-----------------------------------------------------------------------------
(* Dispatch. *)

MayBegin(h) == job[h].pc = "idle" /\ \A g \in 1 .. h - 1 : job[g].pc # "idle"

\* The payload does not decode, or names a path that is not allowed (a file name
\* that is not is found in the middle of a host_key_restore).
Reject(h) ==
  /\ MayBegin(h)
  /\ job' = [g \in Handlers |-> IF g = h THEN [job[h] EXCEPT !.pc = "done", !.result = "error"]
                                ELSE [job[g] EXCEPT !.alone = FALSE]]
  /\ UNCHANGED <<disk, tmp, pair, shared, restarts>>

\* The files in the order in which they are handled: a Go map is walked in any order.
Orders(c) ==
  CASE c.type = "host_key_restore" -> SetToSeqs(ToSet(c.files))
    [] c.type \in {"host_key_remove", "host_key_fetch"} -> SetToSeqs(HostKeys)
    [] c.type = "tls_cert_remove" -> {IF pair = <<>> THEN DefaultPair ELSE pair}
    [] OTHER -> {c.files}

Begin(h) ==
  /\ MayBegin(h)
  /\ \E c \in Commands : \E todo \in Orders(c) :
       job' = [g \in Handlers |->
         IF g = h
         THEN [job[h] EXCEPT !.pc = Start(c.type), !.cmd = c, !.todo = todo, !.all = todo,
                             !.alone = \A f \in Handlers : ~ Active(f)]
         ELSE [job[g] EXCEPT !.alone = FALSE]]
  /\ UNCHANGED <<disk, tmp, pair, shared, restarts>>

Fail(h) == job' = [job EXCEPT ![h].pc = "done", ![h].result = "error"]

\* On to the next file; after the last one the commands differ.
FileDone(h, after) ==
  job' = [job EXCEPT ![h].todo = Tail(@), ![h].pc = IF Len(job[h].todo) = 1 THEN after ELSE @]

-----------------------------------------------------------------------------
(* Through rpcd: file_write, host_key_restore, tls_cert_push. *)

\* Mutant: an error of the second write of a push is ignored.
WriteErrorIgnored(h) ==
  /\ job[h].pc = "write" /\ Path(h) \in Paths
  /\ FileDone(h, "restart")
  /\ UNCHANGED <<disk, tmp, pair, shared, restarts>>

WriteFile(h) ==
  /\ job[h].pc = "write" /\ Path(h) \in Paths
  /\ disk' = [disk EXCEPT ![Path(h)] = Own(h)]
  /\ FileDone(h, IF Type(h) = "file_write" THEN "ack" ELSE "restart")
  /\ UNCHANGED <<tmp, pair, shared, restarts>>

\* The mkdir or the write fails; the write may be done all the same, or in part.
WriteFails(h) ==
  /\ job[h].pc = "write" /\ Path(h) \in Paths
  /\ \E new \in {disk[Path(h)], Own(h), <<job[h].cmd.id, Hole>>} :
       disk' = [disk EXCEPT ![Path(h)] = new]
  /\ Fail(h)
  /\ UNCHANGED <<tmp, pair, shared, restarts>>

\* A name that the SSH daemon does not use: the files before it are written.
NameNotPermitted(h) ==
  /\ job[h].pc = "write" /\ Path(h) \notin Paths
  /\ Fail(h)
  /\ UNCHANGED <<disk, tmp, pair, shared, restarts>>

(* host_key_remove and tls_cert_remove; a failure is only logged. *)

RemoveFile(h) ==
  /\ job[h].pc = "remove"
  /\ disk' = [disk EXCEPT ![Path(h)] = NoFile]
  /\ FileDone(h, "restart")
  /\ UNCHANGED <<tmp, pair, shared, restarts>>

RemoveFails(h) ==
  /\ job[h].pc = "remove"
  /\ disk' = disk \/ disk' = [disk EXCEPT ![Path(h)] = NoFile]
  /\ job' = [job EXCEPT ![h].todo = Tail(@), ![h].left = @ \cup {Path(h)},
                        ![h].pc = IF Len(job[h].todo) = 1 THEN "restart" ELSE @]
  /\ UNCHANGED <<tmp, pair, shared, restarts>>

(* host_key_fetch: what does not exist is skipped. *)

FetchKey(h) ==
  /\ job[h].pc = "fetch"
  /\ job' = [job EXCEPT ![h].todo = Tail(@),
                        ![h].keys = IF disk[Path(h)] = NoFile THEN @ ELSE @ \cup {<<Path(h), disk[Path(h)]>>},
                        ![h].pc = IF Len(job[h].todo) = 1 THEN "ack" ELSE @]
  /\ UNCHANGED <<disk, tmp, pair, shared, restarts>>

FetchFails(h) ==
  /\ job[h].pc = "fetch"
  /\ Fail(h)
  /\ UNCHANGED <<disk, tmp, pair, shared, restarts>>

\* The daemon is restarted, or that fails, which is only logged.
RestartService(h) ==
  /\ job[h].pc = "restart"
  /\ job' = [job EXCEPT ![h].pc = "ack"]
  /\ UNCHANGED <<disk, tmp, pair, shared, restarts>>

\* What the agent remembers of the certificate when a command succeeds.
Remembered(h) ==
  pair' = CASE Type(h) = "tls_cert_push" -> job[h].cmd.files
            [] Type(h) = "tls_cert_remove" -> <<>>
            [] OTHER -> pair

Succeed(h) ==
  /\ job[h].pc = "ack"
  /\ Remembered(h)
  /\ job' = [job EXCEPT ![h].pc = "done", ![h].result = IF job[h].failed THEN "error" ELSE "ok"]
  /\ UNCHANGED <<disk, tmp, shared, restarts>>

-----------------------------------------------------------------------------
(* Through a temporary file beside the target: file_transfer (each file on its  *)
(* own, over HTTP) and set_password (the entry of one user in the file read).   *)

NextFile(h) == IF Len(job[h].todo) = 1 THEN "ack" ELSE "open"

\* The request, the target's directory, or the file to change: nothing is opened.
TargetFails(h) ==
  /\ job[h].pc = "open"
  /\ job' = [job EXCEPT ![h].todo = Tail(@), ![h].failed = TRUE, ![h].pc = NextFile(h)]
  /\ UNCHANGED <<disk, tmp, pair, shared, restarts>>

HasTmp(h, p) == job[h].pc \in {"first", "rest", "rename"} /\ Path(h) = p /\ job[h].fd = "tmp"

\* O_CREATE with O_TRUNC: a handler that has the temporary file open now has
\* this one.  set_password needs the user's entry in the file.
OpenTmp(h) ==
  /\ job[h].pc = "open"
  /\ Type(h) = "set_password" => disk[Path(h)] # NoFile /\ Hole \notin ToSet(disk[Path(h)])
  /\ tmp' = [tmp EXCEPT ![Path(h)] = <<Hole, Hole>>]
  /\ shared' = shared \cup {p \in {Path(h)} : \E g \in Handlers \ {h} : HasTmp(g, p)}
  /\ \E good \in BOOLEAN :
       job' = [job EXCEPT ![h].pc = "first", ![h].fd = "tmp",
                          ![h].good = good \/ Type(h) = "set_password"]
  /\ UNCHANGED <<disk, pair, restarts>>

\* Chunks are written to the file h has open, which a rename of another handler
\* may have made the target, or another one replaced.
WriteChunks(h, chunks) ==
  LET p == Path(h)
      value == IF job[h].good THEN job[h].cmd.id ELSE Corrupt
      new(file) == [i \in 1 .. 2 |-> IF i \in chunks THEN value ELSE file[i]]
  IN  /\ tmp' = IF job[h].fd = "tmp" THEN [tmp EXCEPT ![p] = new(@)] ELSE tmp
      /\ disk' = IF job[h].fd = "target" THEN [disk EXCEPT ![p] = new(@)] ELSE disk

CopyFirst(h) ==
  /\ job[h].pc = "first"
  /\ WriteChunks(h, IF Type(h) = "set_password" THEN {1, 2} ELSE {1})
  /\ job' = [job EXCEPT ![h].pc = IF Type(h) = "set_password" THEN "rename" ELSE "rest"]
  /\ UNCHANGED <<pair, shared, restarts>>

CopyRest(h) ==
  /\ job[h].pc = "rest"
  /\ WriteChunks(h, {2})
  /\ job' = [job EXCEPT ![h].pc = "rename"]
  /\ UNCHANGED <<pair, shared, restarts>>

\* The descriptors once the temporary file of p has become the target (target),
\* or is gone (none).
Descriptors(h, p, becomes) ==
  [g \in Handlers |->
     IF g # h /\ job[g].pc \in {"first", "rest", "rename"} /\ Path(g) = p /\ Type(g) = Type(h)
     THEN [job[g] EXCEPT !.fd = IF @ = "tmp" THEN becomes ELSE IF becomes = "target" THEN "none" ELSE @]
     ELSE job[g]]

\* The copy, the checksum of what was received, the chmod or the rename fails:
\* the temporary file is removed, whosever it is (set_password leaves it there
\* when the write has failed).
TransferFails(h) ==
  LET p == Path(h)
      others == Descriptors(h, p, "none")
      remove == Type(h) = "file_transfer" \/ job[h].pc = "rename"
  IN  /\ job[h].pc \in {"first", "rest", "rename"}
      /\ tmp' = IF remove THEN [tmp EXCEPT ![p] = NoFile] ELSE tmp
      /\ job' = [IF remove THEN others ELSE job EXCEPT
                   ![h].todo = Tail(@), ![h].failed = TRUE, ![h].fd = "none", ![h].pc = NextFile(h)]
      /\ UNCHANGED <<disk, pair, shared, restarts>>

\* Mutant: the checksum is not compared.
RenameUnverified(h) ==
  LET p == Path(h)
      others == Descriptors(h, p, "target")
  IN  /\ job[h].pc = "rename"
      /\ tmp[p] # NoFile
      /\ disk' = [disk EXCEPT ![p] = tmp[p]]
      /\ tmp' = [tmp EXCEPT ![p] = NoFile]
      /\ job' = [others EXCEPT ![h].todo = Tail(@), ![h].fd = "none", ![h].pc = NextFile(h)]
      /\ UNCHANGED <<pair, shared, restarts>>

\* What was received has the checksum: the temporary file, whosever it is,
\* replaces the target.
Rename(h) ==
  LET p == Path(h)
      others == Descriptors(h, p, "target")
  IN  /\ job[h].pc = "rename" /\ job[h].good
      /\ tmp[p] # NoFile
      /\ disk' = [disk EXCEPT ![p] = tmp[p]]
      /\ tmp' = [tmp EXCEPT ![p] = NoFile]
      /\ job' = [others EXCEPT ![h].todo = Tail(@), ![h].fd = "none", ![h].pc = NextFile(h)]
      /\ UNCHANGED <<pair, shared, restarts>>

-----------------------------------------------------------------------------
\* The process ends and is started again: files are as they are.
Restart ==
  /\ restarts < MaxRestarts /\ restarts' = restarts + 1
  /\ job' = [h \in Handlers |->
               IF Active(h) THEN [job[h] EXCEPT !.pc = "done", !.fd = "none", !.result = "lost"]
               ELSE job[h]]
  /\ pair' = <<>>
  /\ UNCHANGED <<disk, tmp, shared>>

Handler(h) ==
  \/ Reject(h) \/ Begin(h)
  \/ WriteFile(h) \/ WriteFails(h) \/ NameNotPermitted(h)
  \/ RemoveFile(h) \/ RemoveFails(h) \/ FetchKey(h) \/ FetchFails(h)
  \/ RestartService(h) \/ Succeed(h)
  \/ TargetFails(h) \/ OpenTmp(h) \/ CopyFirst(h) \/ CopyRest(h) \/ TransferFails(h) \/ Rename(h)

Next == (\E h \in Handlers : Handler(h)) \/ Restart

Spec == Init /\ [][Next]_vars

-----------------------------------------------------------------------------
(* Properties. *)

\* A command acknowledged as ok has done what it says, unless another handler
\* ran beside it or after it: every file of a write, restore, push, transfer or
\* new password is on disk, whole, and the certificate's paths are remembered until
\* a restart; every file that was removed is gone unless the log has a warning, and
\* nothing is remembered; a fetch has reported the keys there are.
AckedDone ==
  \A h \in Handlers :
    job[h].result = "ok" /\ job[h].alone =>
      LET files == ToSet(job[h].all)
      IN  CASE Start(Type(h)) \in {"write", "open"} ->
                 /\ \A p \in files : disk[p] = Own(h)
                 /\ Type(h) = "tls_cert_push" => pair \in {<<>>, job[h].cmd.files}
            [] Start(Type(h)) = "remove" ->
                 /\ \A p \in files \ job[h].left : disk[p] = NoFile
                 /\ Type(h) = "tls_cert_remove" => pair = <<>>
            [] OTHER -> job[h].keys = {<<p, disk[p]>> : p \in {p \in HostKeys : disk[p] # NoFile}}

\* A file that is replaced is at every moment complete and verified, a new one or
\* the one before, whatever fails and whenever the process ends, as long as no
\* two handlers have its temporary file at once.
Verified ==
  \A p \in Replaced \ shared :
    disk[p] \in {Whole(Factory)} \cup {Whole(c.id) : c \in Commands}

\* Claimed: a transferred file is whole whatever other handlers do.
NeverTorn ==
  \A p \in Replaced : disk[p] \in {Whole(Factory)} \cup {Whole(c.id) : c \in Commands}

\* Claimed: certificate and key belong together when nothing is running.
PairsMatch ==
  (\A h \in Handlers : ~ Active(h)) =>
    \A c \in Commands : c.type = "tls_cert_push" => disk[c.files[1]] = disk[c.files[2]]

\* Claimed: a removal acknowledged as ok leaves nothing of the last push.
RemovesPushed ==
  \A h \in Handlers \ {1} :
    /\ job[h].result = "ok" /\ Type(h) = "tls_cert_remove" /\ job[h].alone /\ job[h].left = {}
    /\ job[h - 1].result = "ok" /\ Type(h - 1) = "tls_cert_push"
    => \A p \in ToSet(job[h - 1].cmd.files) : disk[p] = NoFile
=============================================================================
