-------------------------- MODULE ActivityLogProofs -------------------------
(***************************************************************************)
(* Proofs about ActivityLog, for any number of goroutines, any cap and any *)
(* number of lines and crashes.                                            *)
(*                                                                         *)
(* The argument is about the one goroutine that has the temporary file, as *)
(* long as there is only one (Alone): what it has open is the temporary    *)
(* file and nothing else, and before the rename that file is exactly what  *)
(* it has read, and on disk (TmpComplete).  What it is going to keep is a  *)
(* good log itself (DataGood), so the rename replaces a good log by one.   *)
(***************************************************************************)
EXTENDS ActivityLog, SequenceTheorems, FiniteSetTheorems, TLAPS

\* Line numbers ascend, by at least one from each line to the next.
Ascends(s) == \A i, j \in DOMAIN s : i <= j => s[i] + (j - i) <= s[j]

\* A file the log may be when n is the last line written and the lines of r are
\* excused: it ascends, has nothing newer, and has the recent lines.
Good(s, n, r) ==
  /\ Ascends(s)
  /\ \A i \in DOMAIN s : s[i] <= n
  /\ \A k \in 1 .. n : k > n - Keep => k \in r \/ \E i \in DOMAIN s : s[i] = k

\* Who has the temporary file open has a file open.
FdTmp == \A w \in Writers : fd[w] = "tmp" => tmp # NoFile

LogGood == Good(log, last, raced)

DataGood == \A w \in Writers : pc[w] \in Trimming => Good(data[w], last, raced)

Alone ==
  /\ \A v, w \in Writers : pc[v] \in HasTmp /\ pc[w] \in HasTmp => v = w
  /\ \A w \in Writers : pc[w] \in HasTmp <=> fd[w] = "tmp"

TmpComplete ==
  \A w \in Writers :
    /\ pc[w] = "write" => tmp = <<>>
    /\ pc[w] \in {"sync", "rename"} => tmp = data[w]
    /\ pc[w] = "rename" => synced.tmp = Len(tmp)

KeptThere == Len(kept) <= synced.log /\ IsPrefix(kept, log)

Sound == LogGood /\ DataGood /\ Alone /\ TmpComplete /\ KeptThere

IInv == ~ overlapped => Sound

-----------------------------------------------------------------------------
(* Files. *)

\* Trimmed keeps a part at the end of a log, with its last Keep lines.
LEMMA TrimmedIsEnd ==
  ASSUME NEW s \in Seq(Nat)
  PROVE  /\ Trimmed(s) \in Seq(Nat)
         /\ \E k \in 0 .. Len(s) :
              /\ Len(Trimmed(s)) = Len(s) - k
              /\ k > 0 => Len(Trimmed(s)) = Keep
              /\ \A i \in 1 .. Len(s) - k : Trimmed(s)[i] = s[i + k]
<1>1. Keep \in Nat /\ Keep < MaxSize \div 2 /\ MaxSize \div 2 \in Nat
  BY ActivityLogAssumption DEF Keep
<1>2. CASE Len(s) > MaxSize \div 2
  <2>1. Trimmed(s) = SubSeq(s, Len(s) - Keep + 1, Len(s))
    BY <1>2 DEF Trimmed
  <2>2. Len(s) - Keep \in 0 .. Len(s)
    BY <1>1, <1>2
  <2>3. Trimmed(s) \in Seq(Nat) /\ Len(Trimmed(s)) = Keep
    BY <1>1, <1>2, <2>1
  <2>4. \A i \in 1 .. Keep : Trimmed(s)[i] = s[i + (Len(s) - Keep)]
    BY <1>1, <1>2, <2>1
  <2> DEFINE k == Len(s) - Keep
  <2>5. /\ Len(Trimmed(s)) = Len(s) - k
        /\ k > 0 => Len(Trimmed(s)) = Keep
        /\ \A i \in 1 .. Len(s) - k : Trimmed(s)[i] = s[i + k]
    BY <1>1, <2>3, <2>4
  <2> QED
    BY <2>2, <2>3, <2>5
<1>3. CASE ~ Len(s) > MaxSize \div 2
  BY <1>3 DEF Trimmed
<1> QED
  BY <1>2, <1>3

\* The end of a good log is a good log when it is long enough.
LEMMA EndGood ==
  ASSUME NEW n \in Nat, NEW r, NEW s \in Seq(Nat), Good(s, n, r), NEW t \in Seq(Nat),
         NEW k \in 0 .. Len(s), Len(t) = Len(s) - k, k > 0 => Len(t) = Keep,
         \A i \in 1 .. Len(s) - k : t[i] = s[i + k]
  PROVE  Good(t, n, r)
<1>1. \A i \in DOMAIN t : i + k \in DOMAIN s /\ t[i] = s[i + k] /\ i \in Nat
  <2>1. DOMAIN t = 1 .. Len(s) - k /\ DOMAIN s = 1 .. Len(s) /\ Len(s) \in Nat
    OBVIOUS
  <2>2. k \in Nat /\ k <= Len(s)
    BY <2>1
  <2>3. \A i \in 1 .. Len(s) - k : i + k \in 1 .. Len(s) /\ i \in Nat
    BY <2>1, <2>2
  <2> QED
    BY <2>1, <2>3
<1>2. Ascends(t)
  <2> SUFFICES ASSUME NEW i \in DOMAIN t, NEW j \in DOMAIN t, i <= j
               PROVE  t[i] + (j - i) <= t[j]
    BY DEF Ascends
  <2>1. i + k \in DOMAIN s /\ j + k \in DOMAIN s /\ i \in Nat /\ j \in Nat
    BY <1>1
  <2>0. \A a, b \in DOMAIN s : a <= b => s[a] + (b - a) <= s[b]
    BY DEF Good, Ascends
  <2>2. s[i + k] + ((j + k) - (i + k)) <= s[j + k]
    BY <2>0, <2>1
  <2>3. t[i] = s[i + k] /\ t[j] = s[j + k]
    BY <1>1
  <2> QED
    BY <2>1, <2>2, <2>3
<1>3. \A i \in DOMAIN t : t[i] <= n
  BY <1>1 DEF Good
<1>4. ASSUME NEW l \in 1 .. n, l > n - Keep, l \notin r
      PROVE  \E i \in DOMAIN t : t[i] = l
  <2>1. PICK i \in DOMAIN s : s[i] = l
    BY <1>4 DEF Good
  <2>2. Len(s) \in DOMAIN s /\ i \in 1 .. Len(s) /\ s[Len(s)] \in Nat
    BY <2>1
  <2>3. s[i] + (Len(s) - i) <= s[Len(s)] /\ s[Len(s)] <= n
    BY <2>2 DEF Good, Ascends
  <2>4. Keep \in Nat
    BY ActivityLogAssumption DEF Keep
  <2>5. Len(s) - i < Keep
    BY <1>4, <2>1, <2>2, <2>3, <2>4
  <2>6. i - k \in DOMAIN t
    BY <2>2, <2>4, <2>5
  <2> QED
    BY <1>1, <2>1, <2>2, <2>6
<1> QED
  BY <1>2, <1>3, <1>4 DEF Good

\* What a trim keeps of a good log is a good log.
LEMMA TrimmedGood ==
  ASSUME NEW n \in Nat, NEW r, NEW s \in Seq(Nat), Good(s, n, r)
  PROVE  Good(Trimmed(s), n, r)
BY TrimmedIsEnd, EndGood

\* Excusing more lines.
LEMMA ExcuseMore ==
  ASSUME NEW n, NEW r, NEW s, NEW t, Good(s, n, r), r \subseteq t
  PROVE  Good(s, n, t)
BY DEF Good

\* One more line, appended or excused.
LEMMA AppendGood ==
  ASSUME NEW n \in Nat, NEW r, NEW s \in Seq(Nat), Good(s, n, r)
  PROVE  Good(Append(s, n + 1), n + 1, r)
<1> DEFINE t == Append(s, n + 1)
<1>1. /\ t \in Seq(Nat) /\ DOMAIN t = 1 .. Len(s) + 1 /\ DOMAIN s = 1 .. Len(s)
      /\ \A i \in 1 .. Len(s) : t[i] = s[i] /\ s[i] \in Nat
      /\ t[Len(s) + 1] = n + 1 /\ Len(s) \in Nat
  OBVIOUS
<1> HIDE DEF t
<1>0. /\ \A i, j \in 1 .. Len(s) : i <= j => s[i] + (j - i) <= s[j]
      /\ \A i \in 1 .. Len(s) : s[i] <= n
  BY <1>1 DEF Good, Ascends
<1>2. Ascends(t)
  <2> SUFFICES ASSUME NEW i \in 1 .. Len(s) + 1, NEW j \in 1 .. Len(s) + 1, i <= j
               PROVE  t[i] + (j - i) <= t[j]
    BY <1>1 DEF Ascends
  <2>1. CASE j <= Len(s)
    <3>1. i \in 1 .. Len(s) /\ j \in 1 .. Len(s)
      BY <1>1, <2>1
    <3> QED
      BY <1>0, <1>1, <3>1
  <2>2. CASE j = Len(s) + 1 /\ i <= Len(s)
    <3>2. i \in 1 .. Len(s) /\ Len(s) \in 1 .. Len(s) /\ i <= Len(s)
      BY <1>1, <2>2
    <3>1. s[i] + (Len(s) - i) <= s[Len(s)] /\ s[Len(s)] <= n
      BY <1>0, <3>2
    <3> QED
      BY <1>1, <2>2, <3>1, <3>2
  <2>3. CASE i = Len(s) + 1
    BY <1>1, <2>3
  <2> QED
    BY <1>1, <2>1, <2>2, <2>3
<1>3. ASSUME NEW i \in DOMAIN t
      PROVE  t[i] <= n + 1
  <2>1. CASE i \in 1 .. Len(s)
    <3>1. t[i] = s[i] /\ s[i] \in Nat /\ s[i] <= n
      BY <1>0, <1>1, <2>1
    <3> QED
      BY ONLY <3>1, n \in Nat
  <2>2. CASE i = Len(s) + 1
    <3>1. t[i] = n + 1
      BY <1>1, <2>2
    <3> QED
      BY ONLY <3>1, n \in Nat
  <2> QED
    BY <1>1, <2>1, <2>2
<1>4. ASSUME NEW k \in 1 .. n + 1, k > (n + 1) - Keep, k \notin r
      PROVE  \E i \in DOMAIN t : t[i] = k
  <2>1. Keep \in Nat
    BY ActivityLogAssumption DEF Keep
  <2>2. CASE k = n + 1
    BY <1>1, <2>2
  <2>3. CASE k \in 1 .. n
    <3>1. PICK i \in DOMAIN s : s[i] = k
      BY <1>4, <2>1, <2>3 DEF Good
    <3> QED
      BY <1>1, <3>1
  <2> QED
    BY <2>2, <2>3
<1> QED
  <2>1. Good(t, n + 1, r)
    BY ONLY <1>2, <1>3, <1>4 DEF Good
  <2> QED
    BY <2>1 DEF t

LEMMA ExcuseNext ==
  ASSUME NEW n \in Nat, NEW r, NEW s \in Seq(Nat), Good(s, n, r)
  PROVE  Good(s, n + 1, r \cup {n + 1})
<1>1. Keep \in Nat
  BY ActivityLogAssumption DEF Keep
<1>2. \A i \in DOMAIN s : s[i] \in Nat /\ s[i] <= n + 1
  BY DEF Good
<1>3. ASSUME NEW k \in 1 .. n + 1, k > (n + 1) - Keep, k \notin r \cup {n + 1}
      PROVE  \E i \in DOMAIN s : s[i] = k
  <2>1. k \in 1 .. n /\ k > n - Keep
    BY <1>1, <1>3
  <2> QED
    BY <1>3, <2>1 DEF Good
<1>4. Ascends(s)
  BY DEF Good
<1> QED
  BY ONLY <1>2, <1>3, <1>4 DEF Good

\* The first lines of a log, the others being excused.
LEMMA CutGood ==
  ASSUME NEW n \in Nat, NEW r, NEW s \in Seq(Nat), Good(s, n, r), NEW m \in 0 .. Len(s)
  PROVE  Good(SubSeq(s, 1, m), n, r \cup {s[i] : i \in m + 1 .. Len(s)})
<1> DEFINE t == SubSeq(s, 1, m)
<1>1. /\ t \in Seq(Nat) /\ DOMAIN t = 1 .. m /\ DOMAIN s = 1 .. Len(s)
      /\ Len(s) \in Nat /\ \A i \in 1 .. m : t[i] = s[i] /\ i \in DOMAIN s
  OBVIOUS
<1> HIDE DEF t
<1>2. Ascends(t)
  BY <1>1 DEF Good, Ascends
<1>3. \A i \in DOMAIN t : t[i] <= n
  BY <1>1 DEF Good
<1>4. ASSUME NEW k \in 1 .. n, k > n - Keep,
             k \notin r \cup {s[i] : i \in m + 1 .. Len(s)}
      PROVE  \E i \in DOMAIN t : t[i] = k
  <2>1. PICK i \in DOMAIN s : s[i] = k
    BY <1>4 DEF Good
  <2>2. i \in 1 .. m
    BY <1>1, <1>4, <2>1
  <2> QED
    BY <1>1, <2>1, <2>2
<1> QED
  BY <1>2, <1>3, <1>4 DEF Good, t

\* Prefixes, element by element.
LEMMA PrefixIs ==
  ASSUME NEW s \in Seq(Nat), NEW t \in Seq(Nat)
  PROVE  IsPrefix(s, t) <=> Len(s) <= Len(t) /\ \A i \in 1 .. Len(s) : s[i] = t[i]
<1>1. SubSeq(s, 1, Len(s)) = s
  OBVIOUS
<1>2. ASSUME Len(s) <= Len(t)
      PROVE  /\ SubSeq(t, 1, Len(s)) \in Seq(Nat)
             /\ Len(SubSeq(t, 1, Len(s))) = Len(s)
             /\ \A i \in 1 .. Len(s) : SubSeq(t, 1, Len(s))[i] = t[i]
  BY <1>2
<1>3. ASSUME Len(s) <= Len(t), \A i \in 1 .. Len(s) : s[i] = t[i]
      PROVE  s = SubSeq(t, 1, Len(s))
  BY <1>2, <1>3, SeqEqual
<1> QED
  BY <1>1, <1>2, <1>3 DEF IsPrefix

\* The first lines of a file are a file.
LEMMA FirstLines ==
  ASSUME NEW s \in Seq(Nat), NEW n \in 0 .. Len(s)
  PROVE  /\ SubSeq(s, 1, n) \in Seq(Nat)
         /\ Len(SubSeq(s, 1, n)) = n
         /\ \A i \in 1 .. n : SubSeq(s, 1, n)[i] = s[i]
OBVIOUS

LEMMA OverlayType ==
  ASSUME NEW f \in Seq(Nat), NEW s \in Seq(Nat)
  PROVE  Overlay(f, s) \in Seq(Nat) /\ Len(Overlay(f, s)) >= Len(s)
<1>1. SubSeq(f, Len(s) + 1, Len(f)) \in Seq(Nat)
  OBVIOUS
<1> QED
  BY <1>1 DEF Overlay

\* Writing to an empty file.
LEMMA OverlayEmpty ==
  ASSUME NEW s \in Seq(Nat)
  PROVE  Overlay(<<>>, s) = s
<1>1. SubSeq(<<>>, Len(s) + 1, Len(<<>>)) = <<>>
  OBVIOUS
<1> QED
  BY <1>1 DEF Overlay

LEMMA WriteType ==
  ASSUME TypeOK, FdTmp, NEW w \in Writers, NEW s \in Seq(Nat), WriteLines(w, s)
  PROVE  /\ log' \in Seq(Nat) /\ tmp' \in Seq(Nat) \cup {NoFile}
         /\ synced' \in [log : 0 .. Len(log'), tmp : Nat]
         /\ tmp' # NoFile => synced'.tmp \in 0 .. Len(tmp')
         /\ tmp' = NoFile <=> tmp = NoFile
<1>1. log' \in Seq(Nat) /\ (fd[w] # "log" => log' = log)
  BY OverlayType DEF WriteLines, TypeOK
<1>2. CASE fd[w] = "tmp"
  <2>1. tmp \in Seq(Nat) /\ tmp' \in Seq(Nat)
    BY <1>2, OverlayType DEF WriteLines, TypeOK, FdTmp
  <2>2. synced' = [log |-> synced.log, tmp |-> 0] /\ log' = log
    BY <1>1, <1>2 DEF WriteLines
  <2> QED
    BY <1>1, <2>1, <2>2, ActivityLogAssumption DEF TypeOK
<1>3. CASE fd[w] # "tmp"
  <2>1. tmp' = tmp /\ synced'.tmp = synced.tmp
    BY <1>3 DEF WriteLines
  <2>2. synced' \in [log : 0 .. Len(log'), tmp : Nat]
    BY <1>1, <1>3 DEF WriteLines, TypeOK
  <2> QED
    BY <1>1, <2>1, <2>2 DEF TypeOK
<1> QED
  BY <1>2, <1>3

LEMMA InitType == Init => TypeOK /\ FdTmp
<1> SUFFICES ASSUME Init PROVE TypeOK /\ FdTmp
  OBVIOUS
<1> USE ActivityLogAssumption DEF Init
<1>1. PICK n \in 0 .. MaxSize :
        /\ last = n /\ log = Numbered(n)
        /\ tmp \in {NoFile} \cup {Numbered(m) : m \in {k \in 0 .. MaxSize \div 2 : k <= n}}
        /\ synced = [log |-> n, tmp |-> 0]
  OBVIOUS
<1>2. \A m \in Nat : Numbered(m) \in Seq(Nat) /\ Len(Numbered(m)) = m
  BY DEF Numbered
<1>3. MaxSize \div 2 \in Nat
  OBVIOUS
<1>4. log \in Seq(Nat) /\ Len(log) = n /\ last \in Nat
  BY <1>1, <1>2
<1>5. tmp \in Seq(Nat) \cup {NoFile}
  BY <1>1, <1>2, <1>3
<1>6. synced \in [log : 0 .. Len(log), tmp : Nat]
  BY <1>1, <1>4
<1>7. tmp # NoFile => synced.tmp \in 0 .. Len(tmp)
  BY <1>1, <1>5
<1>8. pc \in [Writers -> Places] /\ fd \in [Writers -> {"log", "tmp", "gone"}]
      /\ data \in [Writers -> Seq(Nat)]
  BY DEF Places
<1>9. /\ enabled \in BOOLEAN /\ raced \subseteq Nat /\ crashes \in Nat
      /\ overlapped \in BOOLEAN /\ failed \in BOOLEAN /\ kept \in Seq(Nat)
  <2>1. enabled = TRUE /\ raced = {} /\ overlapped = FALSE /\ failed = FALSE
        /\ kept = <<>> /\ crashes = 0
    OBVIOUS
  <2>2. raced \subseteq Nat /\ crashes \in Nat
    BY ONLY <2>1
  <2>3. kept \in Seq(Nat)
    BY ONLY <2>1
  <2>4. enabled \in BOOLEAN /\ overlapped \in BOOLEAN /\ failed \in BOOLEAN
    BY ONLY <2>1
  <2> QED
    BY ONLY <2>2, <2>3, <2>4
<1>10. FdTmp
  BY DEF FdTmp
<1> QED
  BY <1>4, <1>5, <1>6, <1>7, <1>8, <1>9, <1>10 DEF TypeOK

\* Types, and a goroutine that has the temporary file open has a file open.
LEMMA NextType == TypeOK /\ FdTmp /\ [Next]_vars => TypeOK' /\ FdTmp'
<1> SUFFICES ASSUME TypeOK, FdTmp, [Next]_vars PROVE TypeOK' /\ FdTmp'
  OBVIOUS
<1> USE DEF Goto, threads, files, history
<1>1. ASSUME NEW w \in Writers, Handle(w) \/ Stat(w) \/ StatFails(w)
      PROVE  TypeOK' /\ FdTmp'
  BY <1>1 DEF TypeOK, FdTmp, Handle, Stat, StatFails, Places
<1>2. ASSUME NEW w \in Writers, Read(w)
      PROVE  TypeOK' /\ FdTmp'
  <2>1. data' \in [Writers -> Seq(Nat)]
    BY <1>2, TrimmedIsEnd DEF TypeOK, Read
  <2>2. pc' \in [Writers -> Places]
    BY <1>2 DEF TypeOK, Read, Places
  <2> QED
    BY <1>2, <2>1, <2>2 DEF TypeOK, FdTmp, Read
<1>3. ASSUME NEW w \in Writers, Create(w)
      PROVE  TypeOK' /\ FdTmp'
  <2>0. tmp' = <<>> /\ log' = log /\ synced' = [synced EXCEPT !.tmp = 0]
    BY <1>3 DEF Create
  <2>1. tmp' \in Seq(Nat) /\ log' = log /\ tmp' # NoFile /\ Len(tmp') = 0
    <3>1. <<>> \in Seq(Nat) /\ Len(<<>>) = 0
      OBVIOUS
    <3>2. NoFile \notin Seq(Nat)
      BY ActivityLogAssumption
    <3>3. <<>> # NoFile
      BY <3>1, <3>2
    <3> QED
      BY <2>0, <3>1, <3>3
  <2>2. synced' \in [log : 0 .. Len(log), tmp : Nat] /\ synced'.tmp = 0
    BY <2>0 DEF TypeOK
  <2>3. pc' \in [Writers -> Places] /\ fd' \in [Writers -> {"log", "tmp", "gone"}]
    BY <1>3 DEF TypeOK, Create, Places
  <2>4. overlapped' \in BOOLEAN
    BY <1>3 DEF TypeOK, Create
  <2>5. UNCHANGED <<enabled, data, last, raced, failed, kept, crashes>>
    BY <1>3 DEF Create
  <2> QED
    BY <2>1, <2>2, <2>3, <2>4, <2>5 DEF TypeOK, FdTmp
<1>4. ASSUME NEW w \in Writers, Write(w)
      PROVE  TypeOK' /\ FdTmp'
  <2>1. /\ log' \in Seq(Nat) /\ tmp' \in Seq(Nat) \cup {NoFile}
        /\ synced' \in [log : 0 .. Len(log'), tmp : Nat]
        /\ tmp' # NoFile => synced'.tmp \in 0 .. Len(tmp')
        /\ tmp' = NoFile <=> tmp = NoFile
    BY <1>4, WriteType DEF Write, TypeOK
  <2>2. pc' \in [Writers -> Places]
    BY <1>4 DEF Write, TypeOK, Places
  <2>3. UNCHANGED <<enabled, fd, data, history>>
    BY <1>4 DEF Write
  <2> QED
    BY <2>1, <2>2, <2>3 DEF TypeOK, FdTmp
<1>5. ASSUME NEW w \in Writers, Sync(w)
      PROVE  TypeOK' /\ FdTmp'
  <2>1. /\ synced' \in [log : 0 .. Len(log), tmp : Nat]
        /\ tmp # NoFile => synced'.tmp \in 0 .. Len(tmp)
    BY <1>5 DEF TypeOK, FdTmp, Sync
  <2>2. pc' \in [Writers -> Places]
    BY <1>5 DEF TypeOK, Sync, Places
  <2>3. UNCHANGED <<enabled, log, tmp, fd, data, history>>
    BY <1>5 DEF Sync
  <2> QED
    BY <2>1, <2>2, <2>3 DEF TypeOK, FdTmp
<1>6. ASSUME NEW w \in Writers, Rename(w)
      PROVE  TypeOK' /\ FdTmp'
  <2>1. CASE tmp = NoFile
    <3>1. UNCHANGED <<enabled, files, kept, last, raced, overlapped, failed, crashes>>
      BY <1>6, <2>1 DEF Rename
    <3>2. /\ fd' = [fd EXCEPT ![w] = "gone"] /\ data' = [data EXCEPT ![w] = <<>>]
          /\ pc' = [pc EXCEPT ![w] = "open"]
      BY <1>6, <2>1 DEF Rename
    <3>3. /\ pc' \in [Writers -> Places] /\ data' \in [Writers -> Seq(Nat)]
          /\ fd' \in [Writers -> {"log", "tmp", "gone"}]
          /\ \A v \in Writers : fd'[v] = "tmp" => fd[v] = "tmp"
      BY <3>2 DEF TypeOK, Places
    <3> QED
      BY <3>1, <3>3 DEF TypeOK, FdTmp
  <2>2. CASE tmp # NoFile
    <3>1. log' = tmp /\ tmp' = NoFile /\ tmp \in Seq(Nat)
      BY <1>6, <2>2 DEF Rename, TypeOK
    <3>2. synced' \in [log : 0 .. Len(log'), tmp : Nat]
      BY <1>6, <2>2, <3>1 DEF Rename, TypeOK
    <3>3. fd' \in [Writers -> {"log", "tmp", "gone"}] /\ \A v \in Writers : fd'[v] # "tmp"
      BY <1>6, <2>2 DEF Rename
    <3>4. /\ pc' \in [Writers -> Places] /\ kept' \in Seq(Nat)
          /\ data' \in [Writers -> Seq(Nat)]
      BY <1>6, <2>2 DEF Rename, TypeOK, Places
    <3> QED
      BY <1>6, <3>1, <3>2, <3>3, <3>4 DEF TypeOK, FdTmp, Rename
  <2> QED
    BY <2>1, <2>2
<1>7. ASSUME NEW w \in Writers, TrimFails(w)
      PROVE  TypeOK' /\ FdTmp'
  <2>1. /\ log' \in Seq(Nat) /\ tmp' \in Seq(Nat) \cup {NoFile}
        /\ synced' \in [log : 0 .. Len(log'), tmp : Nat]
        /\ tmp' # NoFile => synced'.tmp \in 0 .. Len(tmp')
        /\ tmp' = NoFile <=> tmp = NoFile
    <3>1. CASE pc[w] = "write"
      <4>1. PICK n \in 0 .. Len(data[w]) : WriteLines(w, SubSeq(data[w], 1, n))
        BY <1>7, <3>1 DEF TrimFails
      <4>2. SubSeq(data[w], 1, n) \in Seq(Nat)
        BY FirstLines DEF TypeOK
      <4> QED
        BY <4>1, <4>2, WriteType
    <3>2. CASE pc[w] # "write"
      BY <1>7, <3>2 DEF TrimFails, TypeOK
    <3> QED
      BY <3>1, <3>2
  <2>2. /\ pc' \in [Writers -> Places] /\ data' \in [Writers -> Seq(Nat)]
        /\ fd' \in [Writers -> {"log", "tmp", "gone"}]
        /\ \A v \in Writers : fd'[v] = "tmp" => fd[v] = "tmp"
    BY <1>7 DEF TrimFails, TypeOK, Places
  <2> QED
    BY <1>7, <2>1, <2>2 DEF TypeOK, FdTmp, TrimFails
<1>8. ASSUME NEW w \in Writers, Open(w) \/ AppendFails(w)
      PROVE  TypeOK' /\ FdTmp'
  BY <1>8 DEF TypeOK, FdTmp, Open, AppendFails, Places
<1>9. ASSUME NEW w \in Writers, AppendLine(w)
      PROVE  TypeOK' /\ FdTmp'
  <2>1. log' \in Seq(Nat) /\ Len(log') >= Len(log) /\ last' \in Nat /\ raced' \subseteq Nat
    BY <1>9 DEF AppendLine, TypeOK
  <2>2. synced' \in [log : 0 .. Len(log'), tmp : Nat]
    BY <1>9, <2>1 DEF AppendLine, TypeOK
  <2> QED
    BY <1>9, <2>1, <2>2 DEF TypeOK, FdTmp, AppendLine, Places
<1>10. CASE Restart
  BY <1>10 DEF TypeOK, FdTmp, Restart, Reset, Places
<1>11. CASE PowerCut
  <2>1. PICK n \in synced.log .. Len(log) :
          /\ log' = SubSeq(log, 1, n)
          /\ raced' = raced \cup {log[i] : i \in n + 1 .. Len(log)}
          /\ \E m \in IF tmp = NoFile THEN {0} ELSE synced.tmp .. Len(tmp) :
               /\ tmp' = IF tmp = NoFile THEN NoFile ELSE SubSeq(tmp, 1, m)
               /\ synced' = [log |-> n, tmp |-> m]
    BY <1>11 DEF PowerCut
  <2>2. PICK m \in IF tmp = NoFile THEN {0} ELSE synced.tmp .. Len(tmp) :
               /\ tmp' = IF tmp = NoFile THEN NoFile ELSE SubSeq(tmp, 1, m)
               /\ synced' = [log |-> n, tmp |-> m]
    BY <2>1
  <2>3. n \in 0 .. Len(log) /\ log' \in Seq(Nat) /\ Len(log') = n
    BY <2>1, FirstLines DEF TypeOK
  <2>4. tmp' \in Seq(Nat) \cup {NoFile} /\ m \in Nat /\ (tmp' # NoFile => m \in 0 .. Len(tmp'))
    BY <2>2, FirstLines DEF TypeOK
  <2>5. raced' \subseteq Nat
    <3>1. \A i \in n + 1 .. Len(log) : i \in DOMAIN log
      BY DEF TypeOK
    <3>2. \A i \in DOMAIN log : log[i] \in Nat
      BY DEF TypeOK
    <3> QED
      BY <2>1, <3>1, <3>2 DEF TypeOK
  <2>6. synced' \in [log : 0 .. Len(log'), tmp : Nat] /\ synced'.tmp = m
    BY <2>2, <2>3, <2>4
  <2>7. /\ pc' \in [Writers -> Places] /\ fd' \in [Writers -> {"log", "tmp", "gone"}]
        /\ data' \in [Writers -> Seq(Nat)] /\ enabled' \in BOOLEAN /\ crashes' \in Nat
        /\ \A w \in Writers : fd'[w] # "tmp"
    BY <1>11 DEF TypeOK, PowerCut, Reset, Places
  <2>8. UNCHANGED <<last, overlapped, failed, kept>>
    BY <1>11 DEF PowerCut
  <2> QED
    BY <2>3, <2>4, <2>5, <2>6, <2>7, <2>8 DEF TypeOK, FdTmp
<1>12. CASE SetEnabled \/ UNCHANGED vars
  BY <1>12 DEF TypeOK, FdTmp, SetEnabled, vars
<1> QED
  BY <1>1, <1>2, <1>3, <1>4, <1>5, <1>6, <1>7, <1>8, <1>9, <1>10, <1>11, <1>12
  DEF Next, Thread

\* The variables of the activity log keep their types in every behaviour.
THEOREM TypeCorrectness == Spec => []TypeOK
<1> DEFINE T == TypeOK /\ FdTmp
<1>1. Init => T
  BY InitType
<1>2. T /\ [Next]_vars => T'
  BY NextType
<1> QED
  BY <1>1, <1>2, PTL DEF Spec

-----------------------------------------------------------------------------
(* One trim at a time. *)

LEMMA InitSound == Init => IInv
<1> SUFFICES ASSUME Init PROVE Sound
  BY DEF IInv
<1>1. TypeOK
  BY InitType
<1>2. PICK n \in 0 .. MaxSize : last = n /\ log = Numbered(n) /\ synced.log = n
  BY DEF Init
<1>3. log \in Seq(Nat) /\ Len(log) = n /\ \A i \in 1 .. n : log[i] = i
  BY <1>2, ActivityLogAssumption DEF Numbered
<1>4. LogGood
  BY <1>2, <1>3 DEF LogGood, Good, Ascends
<1>5. \A w \in Writers : pc[w] = "idle" /\ fd[w] = "gone"
  BY DEF Init
<1>6. DataGood /\ Alone /\ TmpComplete
  BY <1>5 DEF DataGood, Alone, TmpComplete, Trimming, HasTmp
<1>7. KeptThere
  <2>1. kept = <<>>
    BY DEF Init
  <2>2. <<>> \in Seq(Nat) /\ Len(<<>>) = 0
    OBVIOUS
  <2>3. IsPrefix(<<>>, log)
    <3>1. SubSeq(<<>>, 1, 0) = <<>> /\ SubSeq(log, 1, 0) = <<>>
      BY <1>3
    <3> QED
      BY <1>3, <2>2, <3>1 DEF IsPrefix
  <2> QED
    BY <1>2, <2>1, <2>2, <2>3 DEF KeptThere
<1> QED
  BY <1>4, <1>6, <1>7 DEF Sound

\* A step that leaves the files, what was kept and the history alone, and moves
\* a goroutine between places where it has neither read nor a temporary file.
LEMMA QuietStep ==
  ASSUME TypeOK, Sound, UNCHANGED <<files, data, last, raced, kept>>,
         NEW w \in Writers, NEW place \in Places \ Trimming, Goto(w, place),
         pc[w] \notin Trimming,
         \A v \in Writers : fd'[v] = "tmp" <=> fd[v] = "tmp"
  PROVE  Sound'
<1>1. \A v \in Writers : pc'[v] = IF v = w THEN place ELSE pc[v]
  BY DEF Goto, TypeOK
<1>2. HasTmp \subseteq Trimming /\ {"write", "sync", "rename"} \subseteq Trimming
  BY DEF HasTmp, Trimming
<1>3. UNCHANGED <<log, tmp, synced, data, last, raced, kept>>
  BY DEF files
<1>4. (LogGood /\ KeptThere)'
  BY <1>3 DEF Sound, LogGood, KeptThere
<1>5. DataGood'
  BY <1>1, <1>3 DEF Sound, DataGood
<1>6. Alone'
  BY <1>1, <1>2 DEF Sound, Alone
<1>7. TmpComplete'
  BY <1>1, <1>2, <1>3 DEF Sound, TmpComplete
<1> QED
  BY <1>4, <1>5, <1>6, <1>7 DEF Sound

\* One goroutine's step, while no two trims meet.
LEMMA ThreadSound ==
  ASSUME TypeOK, FdTmp, Sound, NEW w \in Writers, Thread(w), ~ overlapped'
  PROVE  Sound'
<1> USE DEF Goto
<1>1. CASE Handle(w) \/ Stat(w) \/ StatFails(w)
  BY <1>1, QuietStep DEF Handle, Stat, StatFails, Places, Trimming, history
<1>2. CASE Open(w) \/ AppendFails(w)
  <2>1. fd[w] # "tmp"
    BY <1>2 DEF Open, AppendFails, Sound, Alone, HasTmp
  <2>2. \A v \in Writers : fd'[v] = "tmp" <=> fd[v] = "tmp"
    BY <1>2, <2>1 DEF Open, AppendFails, TypeOK
  <2> QED
    BY <1>2, <2>2, QuietStep DEF Open, AppendFails, Places, Trimming, history
<1>3. CASE Read(w)
  <2>1. /\ UNCHANGED <<log, tmp, synced, fd, last, raced, kept>>
        /\ data' = [data EXCEPT ![w] = Trimmed(log)] /\ pc[w] = "read"
        /\ pc' = [pc EXCEPT ![w] = "create"]
    BY <1>3 DEF Read, files, history
  <2>2. Good(Trimmed(log), last, raced)
    BY TrimmedGood DEF Sound, LogGood, TypeOK
  <2>3. DataGood'
    BY <2>1, <2>2 DEF Sound, DataGood, TypeOK
  <2>4. Alone' /\ TmpComplete'
    BY <2>1 DEF Sound, Alone, TmpComplete, HasTmp, TypeOK
  <2> QED
    BY <2>1, <2>3, <2>4 DEF Sound, LogGood, KeptThere
<1>4. CASE Create(w)
  <2>1. /\ UNCHANGED <<log, data, last, raced, kept>>
        /\ tmp' = <<>> /\ synced' = [synced EXCEPT !.tmp = 0] /\ pc[w] = "create"
        /\ pc' = [pc EXCEPT ![w] = "write"] /\ fd' = [fd EXCEPT ![w] = "tmp"]
    BY <1>4 DEF Create
  <2>2. \A v \in Writers \ {w} : pc[v] \notin HasTmp
    BY <1>4 DEF Create
  <2>3. DataGood'
    BY <2>1 DEF Sound, DataGood, TypeOK, Trimming
  <2>4. Alone'
    BY <2>1, <2>2 DEF Sound, Alone, HasTmp, TypeOK
  <2>5. TmpComplete'
    BY <2>1, <2>2 DEF Sound, TmpComplete, HasTmp, TypeOK
  <2>6. KeptThere'
    BY <2>1 DEF Sound, KeptThere, TypeOK
  <2> QED
    BY <2>1, <2>3, <2>4, <2>5, <2>6 DEF Sound, LogGood
<1>5. CASE Write(w)
  <2>1. fd[w] = "tmp" /\ tmp = <<>> /\ pc[w] = "write"
    BY <1>5 DEF Write, Sound, Alone, TmpComplete, HasTmp
  <2>2. data[w] \in Seq(Nat) /\ WriteLines(w, data[w])
    BY <1>5 DEF Write, TypeOK
  <2>3. log' = log /\ tmp' = data[w] /\ synced'.log = synced.log
    BY <2>1, <2>2, OverlayEmpty DEF WriteLines
  <2>4. UNCHANGED <<fd, data, last, raced, kept>> /\ pc' = [pc EXCEPT ![w] = "sync"]
    BY <1>5 DEF Write, history
  <2>5. DataGood'
    BY <2>1, <2>4 DEF Sound, DataGood, TypeOK, Trimming
  <2>6. Alone'
    BY <2>1, <2>4 DEF Sound, Alone, HasTmp, TypeOK
  <2>7. TmpComplete'
    BY <2>1, <2>3, <2>4 DEF Sound, Alone, TmpComplete, HasTmp, TypeOK
  <2> QED
    BY <2>3, <2>4, <2>5, <2>6, <2>7 DEF Sound, LogGood, KeptThere
<1>6. CASE Sync(w)
  <2>1. fd[w] = "tmp" /\ pc[w] = "sync" /\ tmp = data[w]
    BY <1>6 DEF Sync, Sound, Alone, TmpComplete, HasTmp
  <2>2. /\ UNCHANGED <<log, tmp, fd, data, last, raced, kept>>
        /\ synced' = [log |-> synced.log, tmp |-> Len(tmp)]
        /\ pc' = [pc EXCEPT ![w] = "rename"]
    BY <1>6, <2>1 DEF Sync, history
  <2>3. DataGood'
    BY <2>1, <2>2 DEF Sound, DataGood, TypeOK, Trimming
  <2>4. Alone'
    BY <2>1, <2>2 DEF Sound, Alone, HasTmp, TypeOK
  <2>5. TmpComplete'
    BY <2>1, <2>2 DEF Sound, Alone, TmpComplete, HasTmp, TypeOK
  <2> QED
    BY <2>2, <2>3, <2>4, <2>5 DEF Sound, LogGood, KeptThere
<1>7. CASE Rename(w)
  <2>1. pc[w] = "rename" /\ fd[w] = "tmp" /\ tmp = data[w] /\ synced.tmp = Len(tmp)
    BY <1>7 DEF Rename, Sound, Alone, TmpComplete, HasTmp
  <2>2. tmp # NoFile /\ data[w] \in Seq(Nat)
    BY <2>1 DEF FdTmp, TypeOK
  <2>3. \A v \in Writers : fd[v] = "tmp" => v = w
    BY <2>1 DEF Sound, Alone, HasTmp
  <2>4. /\ log' = data[w] /\ synced'.log = Len(data[w]) /\ kept' = data[w]
        /\ fd' = [v \in Writers |-> "gone"]
        /\ data' = [data EXCEPT ![w] = <<>>] /\ pc' = [pc EXCEPT ![w] = "open"]
        /\ UNCHANGED <<last, raced>>
    BY <1>7, <2>1, <2>2, <2>3 DEF Rename
  <2>5. LogGood' /\ KeptThere'
    <3>1. Good(data[w], last, raced)
      BY <2>1 DEF Sound, DataGood, Trimming
    <3>2. IsPrefix(data[w], data[w])
      BY <2>2, PrefixIs
    <3> QED
      BY <2>2, <2>4, <3>1, <3>2 DEF LogGood, KeptThere
  <2>6. \A v \in Writers : pc'[v] \in HasTmp => FALSE
    BY <2>1, <2>3, <2>4 DEF Sound, Alone, HasTmp, TypeOK
  <2>7. Alone' /\ TmpComplete'
    BY <2>4, <2>6 DEF Alone, TmpComplete, HasTmp
  <2>8. DataGood'
    BY <2>4 DEF Sound, DataGood, Trimming, TypeOK
  <2> QED
    BY <2>5, <2>7, <2>8 DEF Sound
<1>8. CASE TrimFails(w)
  <2>1. /\ UNCHANGED <<last, raced, kept>> /\ pc[w] \in {"read"} \cup Trimming
        /\ fd' = [fd EXCEPT ![w] = "gone"] /\ data' = [data EXCEPT ![w] = <<>>]
        /\ pc' = [pc EXCEPT ![w] = "open"]
    BY <1>8 DEF TrimFails
  <2>2. log' = log /\ synced'.log = synced.log
    <3>1. CASE pc[w] = "write"
      <4>1. fd[w] = "tmp"
        BY <3>1 DEF Sound, Alone, HasTmp
      <4> QED
        BY <1>8, <3>1, <4>1 DEF TrimFails, WriteLines
    <3>2. CASE pc[w] # "write"
      BY <1>8, <3>2 DEF TrimFails, files
    <3> QED
      BY <3>1, <3>2
  <2>3. pc[w] \in HasTmp \/ UNCHANGED <<tmp, synced>>
    BY <1>8 DEF TrimFails, files, HasTmp
  <2>4. DataGood' /\ Alone'
    BY <2>1 DEF Sound, DataGood, Alone, Trimming, HasTmp, TypeOK
  <2>5. TmpComplete'
    BY <2>1, <2>3 DEF Sound, Alone, TmpComplete, HasTmp, TypeOK
  <2> QED
    BY <2>1, <2>2, <2>4, <2>5 DEF Sound, LogGood, KeptThere
<1>9. CASE AppendLine(w)
  <2>1. /\ pc[w] = "append" /\ last' = last + 1 /\ pc' = [pc EXCEPT ![w] = "idle"]
        /\ log' = IF fd[w] = "log" THEN Append(log, last + 1) ELSE log
        /\ raced' = IF fd[w] = "gone" \/ \E v \in Writers : pc[v] \in Trimming
                    THEN raced \cup {last + 1} ELSE raced
        /\ fd' = [fd EXCEPT ![w] = "gone"]
        /\ UNCHANGED <<tmp, synced, data, kept>>
    BY <1>9 DEF AppendLine
  <2>2. fd[w] \in {"log", "gone"} /\ log \in Seq(Nat) /\ last \in Nat
    BY <2>1 DEF Sound, Alone, HasTmp, TypeOK
  <2>3. raced \subseteq raced'
    BY <2>1
  <2>4. LogGood'
    <3>1. CASE fd[w] = "log"
      <4>1. Good(Append(log, last + 1), last + 1, raced)
        BY <2>2, AppendGood DEF Sound, LogGood
      <4> QED
        BY <2>1, <2>3, <3>1, <4>1, ExcuseMore DEF LogGood
    <3>2. CASE fd[w] = "gone"
      <4>1. Good(log, last + 1, raced \cup {last + 1})
        BY <2>2, ExcuseNext DEF Sound, LogGood
      <4> QED
        BY <2>1, <3>2, <4>1 DEF LogGood
    <3> QED
      BY <2>2, <3>1, <3>2
  <2>5. DataGood'
    <3> SUFFICES ASSUME NEW v \in Writers, pc'[v] \in Trimming
                 PROVE  Good(data[v], last + 1, raced')
      BY <2>1 DEF DataGood
    <3>1. pc[v] \in Trimming
      BY <2>1 DEF TypeOK, Trimming
    <3>2. raced' = raced \cup {last + 1}
      BY <2>1, <3>1
    <3>3. Good(data[v], last, raced) /\ data[v] \in Seq(Nat)
      BY <3>1 DEF Sound, DataGood, TypeOK
    <3> QED
      BY <2>2, <3>2, <3>3, ExcuseNext
  <2>6. Alone' /\ TmpComplete'
    BY <2>1 DEF Sound, Alone, TmpComplete, HasTmp, TypeOK
  <2>7. KeptThere'
    <3>1. kept \in Seq(Nat) /\ Append(log, last + 1) \in Seq(Nat)
      BY <2>2 DEF TypeOK
    <3>2. Len(kept) <= Len(log) /\ \A i \in 1 .. Len(kept) : kept[i] = log[i]
      BY <2>2, <3>1, PrefixIs DEF Sound, KeptThere
    <3>3. /\ Len(kept) <= Len(Append(log, last + 1))
          /\ \A i \in 1 .. Len(kept) : kept[i] = Append(log, last + 1)[i]
      BY <2>2, <3>1, <3>2
    <3>4. IsPrefix(kept, Append(log, last + 1))
      BY <3>1, <3>3, PrefixIs
    <3> QED
      BY <2>1, <3>4 DEF Sound, KeptThere
  <2> QED
    BY <2>4, <2>5, <2>6, <2>7 DEF Sound
<1> QED
  BY <1>1, <1>2, <1>3, <1>4, <1>5, <1>6, <1>7, <1>8, <1>9 DEF Thread

LEMMA CrashSound ==
  ASSUME TypeOK, Sound, Restart \/ PowerCut
  PROVE  Sound'
<1>1. \A w \in Writers : pc'[w] = "idle" /\ fd'[w] = "gone"
  BY DEF Restart, PowerCut, Reset
<1>2. DataGood' /\ Alone' /\ TmpComplete'
  BY <1>1 DEF DataGood, Alone, TmpComplete, Trimming, HasTmp
<1>3. CASE Restart
  BY <1>2, <1>3 DEF Restart, files, Sound, LogGood, KeptThere
<1>4. CASE PowerCut
  <2>1. PICK n \in synced.log .. Len(log) :
          /\ log' = SubSeq(log, 1, n)
          /\ raced' = raced \cup {log[i] : i \in n + 1 .. Len(log)}
          /\ synced'.log = n
    BY <1>4 DEF PowerCut
  <2>2. UNCHANGED <<last, kept>>
    BY <1>4 DEF PowerCut
  <2>3. n \in 0 .. Len(log) /\ log \in Seq(Nat) /\ kept \in Seq(Nat) /\ last \in Nat
        /\ Len(kept) <= n
    BY DEF TypeOK, Sound, KeptThere
  <2>4. LogGood'
    BY <2>1, <2>2, <2>3, CutGood DEF Sound, LogGood
  <2>5. IsPrefix(kept, SubSeq(log, 1, n))
    <3>1. SubSeq(log, 1, n) \in Seq(Nat) /\ Len(SubSeq(log, 1, n)) = n
          /\ \A i \in 1 .. n : SubSeq(log, 1, n)[i] = log[i]
      BY <2>3, FirstLines
    <3>2. \A i \in 1 .. Len(kept) : kept[i] = log[i] /\ i \in 1 .. n
      BY <2>3, PrefixIs DEF Sound, KeptThere
    <3> QED
      BY <2>3, <3>1, <3>2, PrefixIs
  <2> QED
    BY <1>2, <2>1, <2>2, <2>3, <2>4, <2>5 DEF Sound, KeptThere
<1> QED
  BY <1>3, <1>4

LEMMA NextSound == TypeOK /\ FdTmp /\ IInv /\ [Next]_vars => IInv'
<1> SUFFICES ASSUME TypeOK, FdTmp, IInv, [Next]_vars, ~ overlapped'
             PROVE  Sound'
  BY DEF IInv
<1>1. ~ overlapped
  <2>1. ASSUME NEW w \in Writers, Thread(w) PROVE ~ overlapped
    BY <2>1 DEF Thread, Handle, Stat, StatFails, Read, Create, Write, Sync, Rename,
                TrimFails, Open, AppendLine, AppendFails, history
  <2>2. CASE SetEnabled \/ Restart \/ PowerCut \/ UNCHANGED vars
    BY <2>2 DEF SetEnabled, Restart, PowerCut, vars, history
  <2> QED
    BY <2>1, <2>2 DEF Next
<1>2. Sound
  BY <1>1 DEF IInv
<1>3. ASSUME NEW w \in Writers, Thread(w)
      PROVE  Sound'
  BY <1>2, <1>3, ThreadSound
<1>4. CASE Restart \/ PowerCut
  BY <1>2, <1>4, CrashSound
<1>5. CASE SetEnabled \/ UNCHANGED vars
  BY <1>2, <1>5 DEF SetEnabled, vars, files, threads, history, Sound, LogGood, DataGood,
     Alone, TmpComplete, KeptThere
<1> QED
  BY <1>3, <1>4, <1>5 DEF Next

LEMMA Invariance == Spec => [](TypeOK /\ IInv)
<1> DEFINE T == TypeOK /\ FdTmp /\ IInv
<1>1. Init => T
  BY InitType, InitSound
<1>2. T /\ [Next]_vars => T'
  BY NextType, NextSound
<1>3. T => TypeOK /\ IInv
  OBVIOUS
<1> QED
  BY <1>1, <1>2, <1>3, PTL DEF Spec

\* Lines are never repeated or reordered, whatever the interleaving and the
\* crashes, unless two trims had the temporary file at once.
THEOREM AlwaysInOrder == Spec => []InOrder
<1>1. TypeOK /\ IInv => InOrder
  <2> SUFFICES ASSUME TypeOK, Good(log, last, raced), NEW i \in DOMAIN log,
                      NEW j \in DOMAIN log, i < j
               PROVE  log[i] < log[j]
    BY DEF IInv, Sound, LogGood, InOrder
  <2>1. log[i] + (j - i) <= log[j] /\ log[i] \in Nat /\ log[j] \in Nat
        /\ i \in Nat /\ j \in Nat
    BY DEF TypeOK, Good, Ascends
  <2> QED
    BY <2>1
<1> QED
  BY <1>1, Invariance, PTL

\* The recent lines are in the log, except those written during a trim or lost
\* with the power.
THEOREM AlwaysRecentKept == Spec => []RecentKept
<1>1. TypeOK /\ IInv => RecentKept
  BY DEF IInv, Sound, LogGood, Good, RecentKept, ToSet
<1> QED
  BY <1>1, Invariance, PTL

\* What a trim has kept survives every crash.
THEOREM TrimSurvives == Spec => []PostTrimSurvives
<1>1. IInv => PostTrimSurvives
  BY DEF IInv, Sound, KeptThere, PostTrimSurvives
<1> QED
  BY <1>1, Invariance, PTL

-----------------------------------------------------------------------------
(* The cap *)

\* The goroutines that will append without another look at the size: those that
\* are past the check, and those whose temporary file another one has renamed,
\* so that their own rename takes nothing out of the log.
ToAppend ==
  {w \in Writers : \/ pc[w] \in {"open", "append"}
                   \/ pc[w] \in HasTmp /\ fd[w] # "tmp"}

\* No trim keeps more than half of the cap.
HalfKept ==
  /\ tmp # NoFile => Len(tmp) <= MaxSize \div 2
  /\ \A w \in Writers : Len(data[w]) <= MaxSize \div 2

\* The log has room for a line of each goroutine that is bound to append.
Room ==
  ~ failed =>
    Len(log) + Cardinality(ToAppend) <= MaxSize + Cardinality(Writers) - 1

\* The cap, half of it, and the number of goroutines.
LEMMA Sizes ==
  /\ MaxSize \in Nat /\ MaxSize \div 2 \in Nat /\ MaxSize \div 2 + 1 <= MaxSize
  /\ IsFiniteSet(Writers) /\ Cardinality(Writers) \in Nat
<1>1. Cardinality(Writers) \in Nat
  BY ActivityLogAssumption, FS_CardinalityType
<1> QED
  BY <1>1, ActivityLogAssumption

\* Some of the goroutines are no more than all of them.
LEMMA SomeWriters ==
  ASSUME NEW S \in SUBSET Writers, NEW T \in SUBSET S
  PROVE  /\ IsFiniteSet(S) /\ Cardinality(S) \in Nat /\ Cardinality(T) \in Nat
         /\ Cardinality(T) <= Cardinality(S)
         /\ Cardinality(S) <= Cardinality(Writers)
<1>1. IsFiniteSet(S) /\ Cardinality(S) <= Cardinality(Writers)
  BY Sizes, FS_Subset
<1>2. IsFiniteSet(T) /\ Cardinality(T) <= Cardinality(S)
  BY <1>1, FS_Subset
<1> QED
  BY <1>1, <1>2, FS_CardinalityType

\* A write never shortens a file, and lengthens it only to what is written.
LEMMA OverlayLength ==
  ASSUME NEW f \in Seq(Nat), NEW s \in Seq(Nat)
  PROVE  Len(Overlay(f, s)) = IF Len(f) >= Len(s) THEN Len(f) ELSE Len(s)
<1> DEFINE t == SubSeq(f, Len(s) + 1, Len(f))
<1>1. /\ t \in Seq(Nat)
      /\ Len(t) = IF Len(f) >= Len(s) THEN Len(f) - Len(s) ELSE 0
  <2>1. CASE Len(f) >= Len(s)
    BY <2>1
  <2>2. CASE Len(f) < Len(s)
    BY <2>2
  <2> QED
    BY <2>1, <2>2
<1>2. Len(s \o t) = Len(s) + Len(t)
  BY <1>1
<1> QED
  BY <1>1, <1>2 DEF Overlay

\* Writing what a trim keeps leaves the temporary file within half of the cap,
\* and lengthens the log to no more than that.
LEMMA WriteLength ==
  ASSUME TypeOK, FdTmp, HalfKept, NEW w \in Writers, NEW s \in Seq(Nat),
         Len(s) <= MaxSize \div 2, WriteLines(w, s)
  PROVE  /\ tmp' # NoFile => Len(tmp') <= MaxSize \div 2
         /\ Len(log') <= Len(log) \/ Len(log') <= MaxSize \div 2
<1>1. CASE fd[w] = "tmp"
  <2>1. tmp \in Seq(Nat) /\ Len(tmp) <= MaxSize \div 2
    BY <1>1 DEF TypeOK, FdTmp, HalfKept
  <2>2. tmp' = Overlay(tmp, s) /\ log' = log
    BY <1>1 DEF WriteLines
  <2> QED
    BY <2>1, <2>2, OverlayLength DEF TypeOK
<1>2. CASE fd[w] # "tmp"
  <2>1. tmp' = tmp
    BY <1>2 DEF WriteLines
  <2>2. log' = log \/ log' = Overlay(log, s)
    BY DEF WriteLines
  <2> QED
    BY <2>1, <2>2, OverlayLength DEF TypeOK, HalfKept
<1> QED
  BY <1>1, <1>2

\* A step keeps what a trim keeps within half of the cap.
LEMMA HalfKeptStep == TypeOK /\ FdTmp /\ HalfKept /\ [Next]_vars => HalfKept'
<1> SUFFICES ASSUME TypeOK, FdTmp, HalfKept, [Next]_vars PROVE HalfKept'
  OBVIOUS
<1> USE DEF Goto, threads, files, history
<1>1. ASSUME UNCHANGED <<tmp, data>>
      PROVE  HalfKept'
  BY <1>1 DEF HalfKept
<1>2. ASSUME NEW w \in Writers, \/ Handle(w) \/ Stat(w) \/ StatFails(w) \/ Sync(w)
                                \/ Open(w) \/ AppendLine(w) \/ AppendFails(w)
      PROVE  HalfKept'
  BY <1>1, <1>2 DEF Handle, Stat, StatFails, Sync, Open, AppendLine, AppendFails
<1>3. ASSUME NEW w \in Writers, Read(w)
      PROVE  HalfKept'
  <2>1. Len(Trimmed(log)) <= MaxSize \div 2
    <3>1. log \in Seq(Nat) /\ Keep \in Nat /\ Keep <= MaxSize \div 2
      BY ActivityLogAssumption DEF Keep, TypeOK
    <3>2. CASE Len(log) > MaxSize \div 2
      BY <3>1, <3>2, Sizes, TrimmedIsEnd DEF Trimmed
    <3>3. CASE ~ Len(log) > MaxSize \div 2
      BY <3>1, <3>3, Sizes DEF Trimmed
    <3> QED
      BY <3>2, <3>3
  <2>2. data' = [data EXCEPT ![w] = Trimmed(log)] /\ tmp' = tmp
    BY <1>3 DEF Read
  <2> QED
    BY <2>1, <2>2 DEF HalfKept, TypeOK
<1>4. ASSUME NEW w \in Writers, Create(w)
      PROVE  HalfKept'
  <2>1. tmp' = <<>> /\ data' = data /\ Len(<<>>) = 0
    BY <1>4 DEF Create
  <2> QED
    BY <2>1, Sizes DEF HalfKept
<1>5. ASSUME NEW w \in Writers, Write(w)
      PROVE  HalfKept'
  BY <1>5, WriteLength DEF Write, HalfKept, TypeOK
<1>6. ASSUME NEW w \in Writers, Rename(w)
      PROVE  HalfKept'
  <2>1. data' = [data EXCEPT ![w] = <<>>] /\ Len(<<>>) = 0
    BY <1>6 DEF Rename
  <2>2. tmp' = tmp \/ tmp' = NoFile
    BY <1>6 DEF Rename
  <2> QED
    BY <2>1, <2>2, Sizes DEF HalfKept, TypeOK
<1>7. ASSUME NEW w \in Writers, TrimFails(w)
      PROVE  HalfKept'
  <2>1. data' = [data EXCEPT ![w] = <<>>] /\ Len(<<>>) = 0
    BY <1>7 DEF TrimFails
  <2>2. tmp' # NoFile => Len(tmp') <= MaxSize \div 2
    <3>1. CASE pc[w] = "write"
      <4>1. PICK n \in 0 .. Len(data[w]) : WriteLines(w, SubSeq(data[w], 1, n))
        BY <1>7, <3>1 DEF TrimFails
      <4>2. data[w] \in Seq(Nat) /\ Len(data[w]) <= MaxSize \div 2
        BY DEF TypeOK, HalfKept
      <4>3. /\ SubSeq(data[w], 1, n) \in Seq(Nat)
            /\ Len(SubSeq(data[w], 1, n)) = n
        BY <4>2, FirstLines
      <4>4. n <= MaxSize \div 2
        BY <4>2, Sizes
      <4> QED
        BY <4>1, <4>3, <4>4, WriteLength
    <3>2. CASE pc[w] # "write"
      BY <1>7, <3>2 DEF TrimFails, HalfKept
    <3> QED
      BY <3>1, <3>2
  <2> QED
    BY <2>1, <2>2, Sizes DEF HalfKept, TypeOK
<1>8. CASE Restart \/ PowerCut
  <2>1. \A w \in Writers : data'[w] = <<>> /\ Len(<<>>) = 0
    BY <1>8 DEF Restart, PowerCut, Reset
  <2>2. tmp' # NoFile => Len(tmp') <= MaxSize \div 2
    <3>1. CASE Restart
      BY <3>1 DEF Restart, HalfKept
    <3>2. CASE PowerCut
      <4>1. PICK m \in IF tmp = NoFile THEN {0} ELSE synced.tmp .. Len(tmp) :
              tmp' = IF tmp = NoFile THEN NoFile ELSE SubSeq(tmp, 1, m)
        BY <3>2 DEF PowerCut
      <4>2. CASE tmp # NoFile
        <5>1. tmp \in Seq(Nat) /\ m \in 0 .. Len(tmp) /\ Len(tmp) <= MaxSize \div 2
          BY <4>1, <4>2 DEF TypeOK, HalfKept
        <5>2. Len(SubSeq(tmp, 1, m)) = m
          BY <5>1, FirstLines
        <5> QED
          BY <4>1, <4>2, <5>1, <5>2, Sizes
      <4>3. CASE tmp = NoFile
        BY <4>1, <4>3
      <4> QED
        BY <4>2, <4>3
    <3> QED
      BY <1>8, <3>1, <3>2
  <2> QED
    BY <2>1, <2>2, Sizes DEF HalfKept
<1>9. CASE SetEnabled \/ UNCHANGED vars
  BY <1>1, <1>9 DEF SetEnabled, vars
<1> QED
  BY <1>2, <1>3, <1>4, <1>5, <1>6, <1>7, <1>8, <1>9 DEF Next, Thread

\* A step keeps room for the lines of those that are bound to append.
LEMMA RoomStep ==
  TypeOK /\ FdTmp /\ HalfKept /\ Room /\ [Next]_vars => Room'
<1> SUFFICES ASSUME TypeOK, FdTmp, HalfKept, Room, [Next]_vars, ~ failed'
             PROVE  Len(log') + Cardinality(ToAppend')
                      <= MaxSize + Cardinality(Writers) - 1
  BY DEF Room
<1> DEFINE N == Cardinality(Writers)
           Goal == Len(log') + Cardinality(ToAppend') <= MaxSize + N - 1
<1> USE DEF Goto, threads, files, history
<1>t. /\ log' \in Seq(Nat) /\ Len(log') \in Nat /\ Len(log) \in Nat
      /\ MaxSize \in Nat /\ N \in Nat /\ MaxSize \div 2 \in Nat
      /\ MaxSize \div 2 + 1 <= MaxSize
  BY NextType, Sizes DEF TypeOK
<1>c. /\ Cardinality(ToAppend') \in Nat /\ Cardinality(ToAppend') <= N
      /\ Cardinality(ToAppend) \in Nat /\ Cardinality(ToAppend) <= N
  <2>1. ToAppend \in SUBSET Writers /\ ToAppend' \in SUBSET Writers
    BY DEF ToAppend
  <2> QED
    BY <2>1, SomeWriters
<1>h. ASSUME ~ failed
      PROVE  Len(log) + Cardinality(ToAppend) <= MaxSize + N - 1
  BY <1>h DEF Room
\* There is room for all after a trim, and for all after a successful check.
<1>s. ASSUME Len(log') + 1 <= MaxSize
      PROVE  Goal
  BY <1>s, <1>t, <1>c
<1>m. ASSUME ~ failed, ToAppend' \subseteq ToAppend,
             Len(log') <= Len(log) \/ Len(log') <= MaxSize \div 2
      PROVE  Goal
  <2>1. Cardinality(ToAppend') <= Cardinality(ToAppend)
    <3>1. ToAppend \in SUBSET Writers
      BY DEF ToAppend
    <3> QED
      BY <1>m, <3>1, SomeWriters
  <2>2. CASE Len(log') <= Len(log)
    BY <1>h, <1>m, <1>t, <1>c, <2>1, <2>2
  <2>3. CASE Len(log') <= MaxSize \div 2
    BY <1>s, <1>t, <2>3
  <2> QED
    BY <1>m, <2>2, <2>3
<1> HIDE DEF N, Goal
<1>1. ASSUME NEW w \in Writers, Handle(w) \/ Read(w) \/ Create(w) \/ Sync(w)
                                \/ Open(w) \/ AppendFails(w)
      PROVE  Goal
  <2>1. log' = log /\ ~ failed
    BY <1>1 DEF Handle, Read, Create, Sync, Open, AppendFails
  <2>2. ToAppend' \subseteq ToAppend
    <3>1. \A v \in Writers \ {w} : pc'[v] = pc[v] /\ fd'[v] = fd[v]
      BY <1>1 DEF Handle, Read, Create, Sync, Open, AppendFails, TypeOK
    <3>2. w \in ToAppend' => w \in ToAppend
      BY <1>1 DEF Handle, Read, Create, Sync, Open, AppendFails, TypeOK,
                  ToAppend, HasTmp
    <3> QED
      BY <3>1, <3>2 DEF ToAppend
  <2> QED
    BY <1>m, <1>t, <2>1, <2>2
<1>2. ASSUME NEW w \in Writers, Stat(w)
      PROVE  Goal
  <2>1. log' = log /\ ~ failed
    BY <1>2 DEF Stat
  <2>2. CASE Len(log) + 1 > MaxSize
    <3>1. pc' = [pc EXCEPT ![w] = "read"] /\ fd' = fd
      BY <1>2, <2>2 DEF Stat
    <3>2. ToAppend' \subseteq ToAppend
      BY <3>1 DEF ToAppend, TypeOK, HasTmp
    <3> QED
      BY <1>m, <1>t, <2>1, <3>2
  <2>3. CASE ~ Len(log) + 1 > MaxSize
    BY <1>s, <1>t, <2>1, <2>3
  <2> QED
    BY <2>2, <2>3
<1>3. ASSUME NEW w \in Writers, Write(w)
      PROVE  Goal
  <2>1. Len(log') <= Len(log) \/ Len(log') <= MaxSize \div 2
    BY <1>3, WriteLength DEF Write, HalfKept, TypeOK
  <2>2. ~ failed /\ ToAppend' \subseteq ToAppend
    BY <1>3 DEF Write, ToAppend, TypeOK, HasTmp
  <2> QED
    BY <1>m, <2>1, <2>2
<1>4. ASSUME NEW w \in Writers, Rename(w)
      PROVE  Goal
  <2>1. CASE tmp = NoFile
    <3>1. log' = log /\ ~ failed
      BY <1>4, <2>1 DEF Rename
    <3>2. w \in ToAppend
      BY <1>4, <2>1 DEF Rename, ToAppend, HasTmp, FdTmp
    <3>3. \A v \in Writers \ {w} : pc'[v] = pc[v] /\ fd'[v] = fd[v]
      BY <1>4, <2>1 DEF Rename, TypeOK
    <3>4. ToAppend' \subseteq ToAppend
      BY <3>2, <3>3 DEF ToAppend
    <3> QED
      BY <1>m, <1>t, <3>1, <3>4
  <2>2. CASE tmp # NoFile
    <3>1. log' = tmp
      BY <1>4, <2>2 DEF Rename
    <3>2. Len(log') <= MaxSize \div 2
      BY <2>2, <3>1 DEF HalfKept
    <3> QED
      BY <1>s, <1>t, <3>2
  <2> QED
    BY <2>1, <2>2
<1>5. ASSUME NEW w \in Writers, StatFails(w) \/ TrimFails(w)
      PROVE  FALSE
  BY <1>5 DEF StatFails, TrimFails
<1>6. ASSUME NEW w \in Writers, AppendLine(w)
      PROVE  Goal
  <2>1. ~ failed /\ w \in ToAppend /\ Len(log') <= Len(log) + 1
    <3>1. log' = log \/ log' = Append(log, last + 1)
      BY <1>6 DEF AppendLine
    <3>2. Len(Append(log, last + 1)) = Len(log) + 1
      BY DEF TypeOK
    <3> QED
      BY <1>6, <1>t, <3>1, <3>2 DEF AppendLine, ToAppend
  <2>2. ToAppend' = ToAppend \ {w}
    BY <1>6 DEF AppendLine, ToAppend, TypeOK, HasTmp
  <2>3. Cardinality(ToAppend') = Cardinality(ToAppend) - 1
    <3>1. ToAppend \in SUBSET Writers
      BY DEF ToAppend
    <3>2. IsFiniteSet(ToAppend)
      BY <3>1, SomeWriters
    <3> QED
      BY <2>1, <2>2, <3>2, FS_RemoveElement
  <2> QED
    BY <1>h, <1>t, <1>c, <2>1, <2>3 DEF Goal
<1>7. CASE Restart \/ PowerCut
  <2>1. ~ failed /\ ToAppend' \subseteq ToAppend
    <3>1. \A w \in Writers : pc'[w] = "idle"
      BY <1>7 DEF Restart, PowerCut, Reset
    <3>2. failed' = failed
      BY <1>7 DEF Restart, PowerCut
    <3> QED
      BY <3>1, <3>2 DEF ToAppend, HasTmp
  <2>2. Len(log') <= Len(log)
    <3>1. CASE Restart
      BY <1>t, <3>1 DEF Restart
    <3>2. CASE PowerCut
      <4>1. PICK n \in synced.log .. Len(log) : log' = SubSeq(log, 1, n)
        BY <3>2 DEF PowerCut
      <4>2. n \in 0 .. Len(log) /\ log \in Seq(Nat)
        BY <4>1 DEF TypeOK
      <4> QED
        BY <1>t, <4>1, <4>2, FirstLines
    <3> QED
      BY <1>7, <3>1, <3>2
  <2> QED
    BY <1>m, <2>1, <2>2 DEF Goal, N
<1>8. CASE SetEnabled \/ UNCHANGED vars
  <2>1. log' = log /\ failed' = failed /\ ToAppend' = ToAppend
    BY <1>8 DEF SetEnabled, vars, ToAppend
  <2> QED
    BY <1>m, <1>t, <2>1 DEF Goal, N
<1> QED
  BY <1>1, <1>2, <1>3, <1>4, <1>5, <1>6, <1>7, <1>8 DEF Next, Thread, Goal, N

\* The file exceeds its cap by at most one line for each goroutine but one, as
\* long as no size check and no trim fails: what is past the check, or trims in
\* vain, is counted.
THEOREM AlwaysBounded ==
  ASSUME Writers # {}
  PROVE  Spec => []Bounded
<1> DEFINE T == TypeOK /\ FdTmp /\ HalfKept /\ Room
<1>1. Init => T
  <2> SUFFICES ASSUME Init PROVE T
    OBVIOUS
  <2>1. TypeOK /\ FdTmp
    BY InitType
  <2>2. /\ Len(log) <= MaxSize /\ Len(log) \in Nat
        /\ tmp # NoFile => Len(tmp) <= MaxSize \div 2
    <3>1. PICK n \in 0 .. MaxSize :
            /\ log = Numbered(n)
            /\ tmp \in {NoFile} \cup {Numbered(m) : m \in {k \in 0 .. MaxSize \div 2 : k <= n}}
      BY DEF Init
    <3>2. \A m \in Nat : Len(Numbered(m)) = m
      BY DEF Numbered
    <3> QED
      BY <3>1, <3>2, Sizes
  <2>3. HalfKept
    <3>1. \A w \in Writers : data[w] = <<>> /\ Len(<<>>) = 0
      BY DEF Init
    <3> QED
      BY <2>2, <3>1, Sizes DEF HalfKept
  <2>4. ToAppend = {}
    BY DEF Init, ToAppend, HasTmp
  <2>5. Cardinality(ToAppend) = 0 /\ Cardinality(Writers) # 0
    BY <2>4, Writers # {}, Sizes, FS_EmptySet
  <2>6. Room
    BY <2>2, <2>5, Sizes DEF Room
  <2> QED
    BY <2>1, <2>3, <2>6
<1>2. T /\ [Next]_vars => T'
  BY NextType, HalfKeptStep, RoomStep
<1>3. T => Bounded
  <2> SUFFICES ASSUME TypeOK, Room, ~ failed
               PROVE  Len(log) <= MaxSize + Cardinality(Writers) - 1
    BY DEF Bounded
  <2>1. Cardinality(ToAppend) \in Nat /\ Len(log) \in Nat
    <3>1. ToAppend \in SUBSET Writers
      BY DEF ToAppend
    <3>2. Cardinality(ToAppend) \in Nat
      BY <3>1, SomeWriters
    <3>3. Len(log) \in Nat
      BY DEF TypeOK
    <3> QED
      BY <3>2, <3>3
  <2> QED
    BY <2>1, Sizes DEF Room
<1> QED
  BY <1>1, <1>2, <1>3, PTL DEF Spec
=============================================================================
