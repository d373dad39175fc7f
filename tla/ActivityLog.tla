----------------------------- MODULE ActivityLog ----------------------------
(***************************************************************************)
(* The persistent activity log: every goroutine that logs appends its      *)
(* record to one file with a size cap, and trims it first when the record  *)
(* would not fit.  No lock keeps two of them apart: both may trim through  *)
(* the one temporary file, and append while another one trims.  The        *)
(* process may be restarted and the power cut between any two calls.       *)
(*                                                                         *)
(* Every line has the same length, the unit of all sizes.  A line is named *)
(* by a number, in the order in which lines are written.                   *)
(***************************************************************************)
EXTENDS Integers, Sequences, FiniteSets, SequencesExt

CONSTANTS
  Writers,      \* the goroutines that log
  MaxSize,      \* activityLogMaxSize
  MaxLines,     \* bound on the lines ever written
  MaxCrashes,   \* bound on restarts and power cuts
  NoFile        \* the temporary file does not exist

ASSUME ActivityLogAssumption ==
  /\ MaxSize \in Nat \ {0, 1, 2, 3} /\ MaxLines \in Nat /\ MaxCrashes \in Nat
  /\ IsFiniteSet(Writers)
  /\ NoFile \notin Seq(Nat)

VARIABLES
  enabled,    \* ActivityLogHandler.enabled
  log,        \* agent.log
  tmp,        \* agent.log.tmp
  synced,     \* how many leading lines of each file a power cut leaves
  pc,         \* where each goroutine is in appendToActivityLog
  fd,         \* the file a goroutine has open; "gone" when a rename has replaced it
  data,       \* what trimActivityLog is going to keep
  \* History: the number of the last line, the lines that need not be in the log
  \* (written during a trim, or lost by a power cut), whether two trims ever had
  \* the temporary file at the same time, whether a size check or a trim has failed,
  \* what the last trim kept, and the crashes.
  last, raced, overlapped, failed, kept, crashes

files == <<log, tmp, synced>>
threads == <<pc, fd, data>>
history == <<last, raced, overlapped, failed, kept, crashes>>
vars == <<enabled, files, threads, history>>

Places == {"idle", "stat", "read", "create", "write", "sync", "rename", "open", "append"}
Trimming == {"create", "write", "sync", "rename"}   \* has read, has not renamed
HasTmp == {"write", "sync", "rename"}

\* Lines of the log that survive a trim: those that begin after the first
\* newline of its last half.
Keep == MaxSize \div 2 - 1

Numbered(n) == [i \in 1 .. n |-> i]

\* An earlier process has left a log, and perhaps the temporary file of a trim
\* it did not finish.
Init ==
  /\ enabled = TRUE
  /\ \E n \in 0 .. MaxSize :
       /\ last = n /\ log = Numbered(n)
       /\ tmp \in {NoFile} \cup {Numbered(m) : m \in {k \in 0 .. MaxSize \div 2 : k <= n}}
       /\ synced = [log |-> n, tmp |-> 0]
  /\ pc = [w \in Writers |-> "idle"]
  /\ fd = [w \in Writers |-> "gone"]
  /\ data = [w \in Writers |-> <<>>]
  /\ raced = {} /\ overlapped = FALSE /\ failed = FALSE /\ kept = <<>> /\ crashes = 0

Goto(w, place) == pc' = [pc EXCEPT ![w] = place]

-----------------------------------------------------------------------------
(* The control topic, and the handler of a record. *)

SetEnabled ==
  /\ enabled' = ~ enabled
  /\ UNCHANGED <<files, threads, history>>

Handle(w) ==
  /\ pc[w] = "idle" /\ enabled /\ last < MaxLines
  /\ Goto(w, "stat")
  /\ UNCHANGED <<enabled, files, fd, data, history>>

\* Mutant: the check forgets the line that is about to be appended.
StatForgetsLine(w) ==
  /\ pc[w] = "stat"
  /\ Goto(w, IF Len(log) > MaxSize THEN "read" ELSE "open")
  /\ UNCHANGED <<enabled, files, fd, data, history>>

Stat(w) ==
  /\ pc[w] = "stat"
  /\ Goto(w, IF Len(log) + 1 > MaxSize THEN "read" ELSE "open")
  /\ UNCHANGED <<enabled, files, fd, data, history>>

\* The size cannot be read: the line is appended without a trim.
StatFails(w) ==
  /\ pc[w] = "stat"
  /\ failed' = TRUE
  /\ Goto(w, "open")
  /\ UNCHANGED <<enabled, files, fd, data, last, raced, overlapped, kept, crashes>>

-----------------------------------------------------------------------------
(* trimActivityLog. *)

\* Mutant: the oldest half is kept.
KeepsOldest(lines) ==
  IF Len(lines) > MaxSize \div 2 THEN SubSeq(lines, 1, Keep) ELSE lines

\* The last half of the file, from its first newline on.
Trimmed(lines) ==
  IF Len(lines) > MaxSize \div 2
  THEN SubSeq(lines, Len(lines) - Keep + 1, Len(lines))
  ELSE lines

Read(w) ==
  /\ pc[w] = "read"
  /\ data' = [data EXCEPT ![w] = Trimmed(log)]
  /\ Goto(w, "create")
  /\ UNCHANGED <<enabled, files, fd, history>>

\* Mutant: a temporary file that exists is not truncated.
CreateNoTruncate(w) ==
  /\ pc[w] = "create"
  /\ tmp' = IF tmp = NoFile THEN <<>> ELSE tmp
  /\ synced' = [synced EXCEPT !.tmp = 0]
  /\ fd' = [fd EXCEPT ![w] = "tmp"]
  /\ overlapped' = (overlapped \/ \E v \in Writers \ {w} : pc[v] \in HasTmp)
  /\ Goto(w, "write")
  /\ UNCHANGED <<enabled, log, data, last, raced, failed, kept, crashes>>

\* O_CREATE with O_TRUNC: who has the temporary file open now has this one.
Create(w) ==
  /\ pc[w] = "create"
  /\ tmp' = <<>>
  /\ synced' = [synced EXCEPT !.tmp = 0]
  /\ fd' = [fd EXCEPT ![w] = "tmp"]
  /\ overlapped' = (overlapped \/ \E v \in Writers \ {w} : pc[v] \in HasTmp)
  /\ Goto(w, "write")
  /\ UNCHANGED <<enabled, log, data, last, raced, failed, kept, crashes>>

\* A file after a write of lines at its start.
Overlay(file, lines) == lines \o SubSeq(file, Len(lines) + 1, Len(file))

\* Lines are written at the start of the file w has open, which a rename of
\* another goroutine may have made the log.
WriteLines(w, lines) ==
  /\ log' = IF fd[w] = "log" THEN Overlay(log, lines) ELSE log
  /\ tmp' = IF fd[w] = "tmp" THEN Overlay(tmp, lines) ELSE tmp
  /\ synced' = [log |-> IF fd[w] = "log" THEN 0 ELSE synced.log,
                tmp |-> IF fd[w] = "tmp" THEN 0 ELSE synced.tmp]

Write(w) ==
  /\ pc[w] = "write"
  /\ WriteLines(w, data[w])
  /\ Goto(w, "sync")
  /\ UNCHANGED <<enabled, fd, data, history>>

\* Mutant: the temporary file is renamed without having been synced.
SyncSkipped(w) ==
  /\ pc[w] = "sync"
  /\ Goto(w, "rename")
  /\ UNCHANGED <<enabled, files, fd, data, history>>

Sync(w) ==
  /\ pc[w] = "sync"
  /\ synced' = [log |-> IF fd[w] = "log" THEN Len(log) ELSE synced.log,
                tmp |-> IF fd[w] = "tmp" THEN Len(tmp) ELSE synced.tmp]
  /\ Goto(w, "rename")
  /\ UNCHANGED <<enabled, log, tmp, fd, data, history>>

\* By path: it replaces the log by the temporary file there is, whosever that
\* is, and does nothing when there is none.
Rename(w) ==
  /\ pc[w] = "rename"
  /\ IF tmp = NoFile
     THEN UNCHANGED <<files, kept>> /\ fd' = [fd EXCEPT ![w] = "gone"]
     ELSE /\ log' = tmp /\ tmp' = NoFile
          /\ synced' = [log |-> synced.tmp, tmp |-> 0]
          /\ fd' = [v \in Writers |-> IF fd[v] = "tmp" /\ v # w THEN "log" ELSE "gone"]
          /\ kept' = data[w]
  /\ data' = [data EXCEPT ![w] = <<>>]
  /\ Goto(w, "open")
  /\ UNCHANGED <<enabled, last, raced, overlapped, failed, crashes>>

\* Any error ends the trim: a write may leave its first lines, and the temporary
\* file stays.  The line is appended all the same.
TrimFails(w) ==
  /\ pc[w] \in {"read"} \cup Trimming
  /\ IF pc[w] = "write"
     THEN \E n \in 0 .. Len(data[w]) : WriteLines(w, SubSeq(data[w], 1, n))
     ELSE UNCHANGED files
  /\ fd' = [fd EXCEPT ![w] = "gone"]
  /\ data' = [data EXCEPT ![w] = <<>>]
  /\ failed' = TRUE
  /\ Goto(w, "open")
  /\ UNCHANGED <<enabled, last, raced, overlapped, kept, crashes>>

-----------------------------------------------------------------------------
(* The append. *)

Open(w) ==
  /\ pc[w] = "open"
  /\ fd' = [fd EXCEPT ![w] = "log"]
  /\ Goto(w, "append")
  /\ UNCHANGED <<enabled, files, data, history>>

\* O_APPEND; a line written to a file that was replaced is gone, and so is one
\* that another goroutine's trim has not read and is going to replace.
AppendLine(w) ==
  /\ pc[w] = "append"
  /\ last' = last + 1
  /\ log' = IF fd[w] = "log" THEN Append(log, last + 1) ELSE log
  /\ raced' = IF fd[w] = "gone" \/ \E v \in Writers : pc[v] \in Trimming
              THEN raced \cup {last + 1} ELSE raced
  /\ fd' = [fd EXCEPT ![w] = "gone"]
  /\ Goto(w, "idle")
  /\ UNCHANGED <<enabled, tmp, synced, data, overlapped, failed, kept, crashes>>

\* Opening or writing fails: the line is dropped.
AppendFails(w) ==
  /\ pc[w] \in {"open", "append"}
  /\ fd' = [fd EXCEPT ![w] = "gone"]
  /\ Goto(w, "idle")
  /\ UNCHANGED <<enabled, files, data, history>>

-----------------------------------------------------------------------------
(* Crashes. *)

Reset ==
  /\ crashes < MaxCrashes /\ crashes' = crashes + 1
  /\ enabled' = TRUE
  /\ pc' = [w \in Writers |-> "idle"]
  /\ fd' = [w \in Writers |-> "gone"]
  /\ data' = [w \in Writers |-> <<>>]

\* The process ends; the files are as they are.
Restart ==
  /\ Reset
  /\ UNCHANGED <<files, last, raced, overlapped, failed, kept>>

\* The power is cut: what was not synced may be lost.  A rename is taken
\* to be on disk at once: the code does not sync the directory.
PowerCut ==
  /\ Reset
  /\ \E n \in synced.log .. Len(log) :
       /\ log' = SubSeq(log, 1, n)
       /\ raced' = raced \cup {log[i] : i \in n + 1 .. Len(log)}
       /\ \E m \in IF tmp = NoFile THEN {0} ELSE synced.tmp .. Len(tmp) :
            /\ tmp' = IF tmp = NoFile THEN NoFile ELSE SubSeq(tmp, 1, m)
            /\ synced' = [log |-> n, tmp |-> m]
  /\ UNCHANGED <<last, overlapped, failed, kept>>

-----------------------------------------------------------------------------
Thread(w) ==
  \/ Handle(w) \/ Stat(w) \/ StatFails(w)
  \/ Read(w) \/ Create(w) \/ Write(w) \/ Sync(w) \/ Rename(w) \/ TrimFails(w)
  \/ Open(w) \/ AppendLine(w) \/ AppendFails(w)

Next == (\E w \in Writers : Thread(w)) \/ SetEnabled \/ Restart \/ PowerCut

Spec == Init /\ [][Next]_vars

-----------------------------------------------------------------------------
(* Properties. *)

TypeOK ==
  /\ enabled \in BOOLEAN
  /\ log \in Seq(Nat) /\ tmp \in Seq(Nat) \cup {NoFile}
  /\ synced \in [log : 0 .. Len(log), tmp : Nat]
  /\ tmp # NoFile => synced.tmp \in 0 .. Len(tmp)
  /\ pc \in [Writers -> Places]
  /\ fd \in [Writers -> {"log", "tmp", "gone"}]
  /\ data \in [Writers -> Seq(Nat)]
  /\ last \in Nat /\ raced \subseteq Nat /\ crashes \in Nat
  /\ overlapped \in BOOLEAN /\ failed \in BOOLEAN
  /\ kept \in Seq(Nat)

\* The log never holds a line twice, nor an older one after a newer one, however
\* appends and trims interleave and whatever a crash leaves behind, unless two
\* trims had the temporary file at once.
InOrder ==
  ~ overlapped =>
    \A i, j \in DOMAIN log : i < j => log[i] < log[j]

\* The most recent lines are in the log: trims of other goroutines, failed trims
\* and restarts take out only what is older, except a line that was written
\* during a trim or was not yet on disk when the power was cut.
RecentKept ==
  ~ overlapped =>
    \A n \in 1 .. last : n > last - Keep => n \in raced \cup ToSet(log)

\* What a trim has kept is in the log after every crash: the log was replaced by
\* a file that was complete and on disk (unless two trims had it at once).
PostTrimSurvives == ~ overlapped => IsPrefix(kept, log)

\* The file exceeds its cap by at most one line for each goroutine but one, as
\* long as no size check and no trim fails: each checks the size once before it
\* appends.
Bounded == ~ failed => Len(log) <= MaxSize + Cardinality(Writers) - 1

\* Claimed by trimActivityLog: a crash leaves the complete log before or after
\* the trim, whatever other goroutines do.
NeverTorn == IsPrefix(kept, log)
=============================================================================
