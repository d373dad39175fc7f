----------------------------- MODULE UciSetProofs ---------------------------
(***************************************************************************)
(* Proofs about the handlers on the staging area (Applier and UciSet), for *)
(* any packages, payloads, scripts and failures.                           *)
(*                                                                         *)
(* An Apply commits nothing before it has staged everything, so with one   *)
(* handler after the other a staging error leaves flash as it was (Inv).   *)
(* What differs between the staging area and flash is what a handler has   *)
(* staged and still has to commit or to revert (Dirty), or what a failed   *)
(* revert or a uci_set has left (kept): handlers that overlap keep that    *)
(* too (CInv).                                                             *)
(*                                                                         *)
(* And while no line of a uci_set has failed, the packages say what the    *)
(* lines executed so far mean (SInv).  That rests on what every call makes *)
(* of what a package says, which the first sections prove: of a list of    *)
(* positions, of the sections at them, of a call, of a line.               *)
(*                                                                         *)
(* An Apply plans its calls from what it has read.  That the calls of the  *)
(* plan make of it what the configuration means (PlanApplied) is proved    *)
(* from a call to a section, to a type, to all types; that a handler       *)
(* carries this through staging and commits to flash, package by package,  *)
(* whatever fails, is the last invariant (HInv).                           *)
(***************************************************************************)
EXTENDS UciSet, FiniteSetTheorems, SequenceTheorems, NaturalsInduction, WellFoundedInduction, TLAPS

-----------------------------------------------------------------------------
(* Lists of numbers in order. *)

\* A set of numbers has a least one.
LEMMA Least ==
  ASSUME NEW T \in SUBSET Nat, T # {}
  PROVE  \E m \in T : \A n \in T : m <= n
<1> DEFINE R == {ss \in Nat \X Nat : ss[1] < ss[2]}
<1>1. IsWellFoundedOn(R, Nat)
  BY NatLessThanWellFounded DEF OpToRel
<1>2. PICK m \in T : \A n \in T : ~ (<<n, m>> \in R)
  <2> HIDE DEF R
  <2> QED
    BY <1>1, WFMin, Zenon
<1>3. \A n \in T : m <= n
  <2> SUFFICES ASSUME NEW n \in T
               PROVE  m <= n
      OBVIOUS
  <2>1. n \in Nat /\ m \in Nat /\ ~ (n < m)
    BY <1>2
  <2> QED
    BY <2>1
<1> QED
  BY <1>3

\* A list of the members of K in ascending order.
InOrder(a, K) ==
  /\ a \in [1 .. Len(a) -> K] /\ Len(a) \in Nat
  /\ \A i, j \in 1 .. Len(a) : i < j => a[i] < a[j]
  /\ \A k \in K : \E i \in 1 .. Len(a) : a[i] = k

\* There is one such list.
LEMMA OrderUnique ==
  ASSUME NEW K \in SUBSET Int, NEW a, NEW b, InOrder(a, K), InOrder(b, K)
  PROVE  a = b
<1> USE DEF InOrder
<1>1. ASSUME NEW k \in 1 .. Len(a), k <= Len(b)
      PROVE  a[k] = b[k]
  <2> DEFINE T == {i \in 1 .. Len(a) : i <= Len(b) /\ a[i] # b[i]}
  <2>1. SUFFICES ASSUME T # {}
                 PROVE  FALSE
    BY <1>1
  <2>2. PICK i \in T : \A j \in T : i <= j
    <3>1. T \in SUBSET Nat
      OBVIOUS
    <3> HIDE DEF T
    <3> QED
      BY <2>1, <3>1, Least
  <2>3. /\ i \in 1 .. Len(a) /\ i \in 1 .. Len(b) /\ a[i] # b[i]
        /\ \A j \in 1 .. Len(a) : j < i /\ j <= Len(b) => a[j] = b[j]
    BY <2>2
  <2> HIDE DEF T
  <2>4. a[i] \in K /\ b[i] \in K /\ a[i] \in Int /\ b[i] \in Int
    BY <2>3
  <2>5. CASE a[i] < b[i]
    <3>1. PICK j \in 1 .. Len(b) : b[j] = a[i]
      BY <2>4
    <3>2. CASE j < i
      BY <2>3, <2>4, <3>1, <3>2
    <3>3. CASE j >= i
      BY <2>3, <2>4, <2>5, <3>1, <3>3
    <3> QED
      BY <3>2, <3>3, <2>3
  <2>6. CASE b[i] < a[i]
    <3>1. PICK j \in 1 .. Len(a) : a[j] = b[i]
      BY <2>4
    <3>2. CASE j < i
      BY <2>3, <2>4, <3>1, <3>2
    <3>3. CASE j >= i
      BY <2>3, <2>4, <2>6, <3>1, <3>3
    <3> QED
      BY <3>2, <3>3, <2>3
  <2> QED
    BY <2>3, <2>4, <2>5, <2>6
<1>2. ~ (Len(a) < Len(b))
  <2> SUFFICES ASSUME Len(a) < Len(b)
               PROVE  FALSE
      OBVIOUS
  <2> DEFINE m == Len(a) + 1
  <2>1. m \in 1 .. Len(b) /\ b[m] \in K
    OBVIOUS
  <2>2. PICK j \in 1 .. Len(a) : a[j] = b[m]
    BY <2>1
  <2>3. b[j] = b[m] /\ j < m /\ j \in 1 .. Len(b)
    BY <1>1, <2>2
  <2>4. b[j] < b[m] /\ b[m] \in Int
    BY <2>3, <2>1
  <2> QED
    BY <2>3, <2>4
<1>3. ~ (Len(b) < Len(a))
  <2> SUFFICES ASSUME Len(b) < Len(a)
               PROVE  FALSE
      OBVIOUS
  <2> DEFINE m == Len(b) + 1
  <2>1. m \in 1 .. Len(a) /\ a[m] \in K
    OBVIOUS
  <2>2. PICK j \in 1 .. Len(b) : b[j] = a[m]
    BY <2>1
  <2>3. a[j] = a[m] /\ j < m /\ j \in 1 .. Len(a)
    BY <1>1, <2>2
  <2>4. a[j] < a[m] /\ a[m] \in Int
    BY <2>3, <2>1
  <2> QED
    BY <2>3, <2>4
<1>4. Len(a) = Len(b)
  <2>1. Len(a) \in Int /\ Len(b) \in Int
    OBVIOUS
  <2> HIDE DEF InOrder
  <2> QED
    BY <1>2, <1>3, <2>1
<1> QED
  BY <1>1, <1>4

\* The function that Ascending defines.
Ascent(n, I) ==
  CHOOSE f : f = [m \in 0 .. n |->
    IF m = 0 THEN <<>> ELSE IF m \in I THEN Append(f[m - 1], m) ELSE f[m - 1]]

\* Ascending is the last value of its recursion.
LEMMA AscendingIsAscent == \A n, I : Ascending(n, I) = Ascent(n, I)[n]
  BY DEF Ascending, Ascent

\* The recursion of Ascending has a solution.
LEMMA AscentDef ==
  ASSUME NEW n \in Nat, NEW I
  PROVE  Ascent(n, I) = [m \in 0 .. n |->
           IF m = 0 THEN <<>>
           ELSE IF m \in I THEN Append(Ascent(n, I)[m - 1], m) ELSE Ascent(n, I)[m - 1]]
<1> DEFINE Step(f, m) == IF m = 0 THEN <<>> ELSE IF m \in I THEN Append(f[m - 1], m) ELSE f[m - 1]
           Solved(k) == \E f : f = [m \in 0 .. k |-> Step(f, m)]
           T == {k \in Nat : ~ Solved(k)}
<1>1. SUFFICES T = {}
  BY DEF Ascent
<1>2. SUFFICES ASSUME T # {}
               PROVE  FALSE
  OBVIOUS
<1>3. PICK k \in Nat : ~ Solved(k) /\ \A j \in Nat : ~ Solved(j) => k <= j
  <2>1. T \in SUBSET Nat
    OBVIOUS
  <2>2. PICK k \in T : \A j \in T : k <= j
    <3> HIDE DEF T
    <3> QED
      BY <1>2, <2>1, Least
  <2> HIDE DEF Solved
  <2> QED
    BY <2>2
<1>4. k # 0
  <2>1. [m \in 0 .. 0 |-> <<>>] = [m \in 0 .. 0 |-> Step([j \in 0 .. 0 |-> <<>>], m)]
    OBVIOUS
  <2> QED
    BY <1>3, <2>1
<1>5. PICK f : f = [m \in 0 .. k - 1 |-> Step(f, m)]
  <2>1. Solved(k - 1)
    <3> HIDE DEF Solved
    <3> QED
      BY <1>3, <1>4
  <2> QED
    BY <2>1
<1> DEFINE g == [m \in 0 .. k |-> IF m < k THEN f[m] ELSE Step(f, k)]
<1>6. ASSUME NEW m \in 0 .. k
      PROVE  g[m] = Step(g, m)
  <2>1. m # 0 => g[m - 1] = f[m - 1]
    BY <1>3
  <2>2. Step(g, m) = Step(f, m)
    BY <2>1
  <2>3. m < k => f[m] = Step(f, m)
    <3>1. m < k => m \in 0 .. k - 1
      BY <1>3
    <3> HIDE DEF Step
    <3> QED
      BY <1>5, <3>1
  <2> QED
    BY <2>2, <2>3, <1>3
<1>7. g = [m \in 0 .. k |-> Step(g, m)]
  BY <1>6
<1> QED
  BY <1>3, <1>7

\* A list in order is a sequence.
LEMMA InOrderSeq ==
  ASSUME NEW a, NEW K, InOrder(a, K)
  PROVE  a \in Seq(K) /\ Len(a) \in Nat /\ DOMAIN a = 1 .. Len(a)
  BY DEF InOrder

\* A list in order, and one number more.
LEMMA AppendInOrder ==
  ASSUME NEW K \in SUBSET Int, NEW a, InOrder(a, K), NEW m \in Int, \A k \in K : k < m
  PROVE  InOrder(Append(a, m), K \cup {m})
<1> DEFINE b == Append(a, m)
           L == K \cup {m}
<1>1. a \in Seq(L) /\ m \in L
  <2>1. a \in Seq(K)
    BY InOrderSeq
  <2> QED
    BY <2>1
<1>2. /\ b \in Seq(L) /\ Len(b) = Len(a) + 1 /\ Len(a) \in Nat
      /\ \A i \in 1 .. Len(a) : b[i] = a[i]
      /\ b[Len(a) + 1] = m
  BY <1>1, AppendProperties
<1> HIDE DEF b
<1>3. b \in [1 .. Len(b) -> L] /\ Len(b) \in Nat
  BY <1>2
<1>4. ASSUME NEW i \in 1 .. Len(b), NEW j \in 1 .. Len(b), i < j
      PROVE  b[i] < b[j]
  <2>1. i \in 1 .. Len(a) /\ b[i] = a[i] /\ a[i] \in K
    BY <1>2, <1>4 DEF InOrder
  <2>2. CASE j = Len(a) + 1
    BY <2>1, <2>2, <1>2
  <2>3. CASE j # Len(a) + 1
    <3>1. j \in 1 .. Len(a) /\ b[j] = a[j]
      BY <1>2, <2>3
    <3> QED
      BY <2>1, <3>1, <1>4 DEF InOrder
  <2> QED
    BY <2>2, <2>3
<1>5. ASSUME NEW k \in L
      PROVE  \E i \in 1 .. Len(b) : b[i] = k
  <2>1. CASE k = m
    BY <2>1, <1>2
  <2>2. CASE k \in K
    <3>1. PICK i \in 1 .. Len(a) : a[i] = k
      BY <2>2 DEF InOrder
    <3> QED
      BY <3>1, <1>2
  <2> QED
    BY <2>1, <2>2
<1>6. InOrder(b, L)
  <2> HIDE DEF L
  <2> QED
    BY <1>3, <1>4, <1>5 DEF InOrder
<1> QED
  BY <1>6 DEF b

\* The positions that Ascending lists.
LEMMA AscendingInOrder ==
  ASSUME NEW n \in Nat, NEW I
  PROVE  InOrder(Ascending(n, I), I \cap (1 .. n))
<1> DEFINE f == Ascent(n, I)
           Good(m) == InOrder(f[m], I \cap (1 .. m))
           T == {m \in 0 .. n : ~ Good(m)}
<1>1. f[0] = <<>> /\ \A m \in 1 .. n : f[m] = IF m \in I THEN Append(f[m - 1], m) ELSE f[m - 1]
  <2> HIDE DEF f
  <2>1. f = [m \in 0 .. n |->
              IF m = 0 THEN <<>> ELSE IF m \in I THEN Append(f[m - 1], m) ELSE f[m - 1]]
    BY AscentDef, Zenon DEF f
  <2>2. 0 \in 0 .. n /\ \A m \in 1 .. n : m # 0 /\ m \in 0 .. n
    OBVIOUS
  <2> QED
    BY <2>1, <2>2
<1> HIDE DEF f
<1>2. SUFFICES ASSUME T # {}
               PROVE  FALSE
  <2>1. T = {} => Good(n)
    <3> HIDE DEF Good
    <3> QED
      OBVIOUS
  <2> QED
    BY <1>2, <2>1, AscendingIsAscent DEF f
<1>3. PICK m \in T : \A j \in T : m <= j
  <2>1. T \in SUBSET Nat
    OBVIOUS
  <2> HIDE DEF T
  <2> QED
    BY <1>2, <2>1, Least
<1>4. m \in 0 .. n /\ ~ Good(m) /\ (m # 0 => Good(m - 1))
  <2> HIDE DEF Good
  <2> QED
    BY <1>3
<1>5. m # 0
  <2>1. InOrder(<<>>, {})
    BY DEF InOrder
  <2>2. I \cap (1 .. 0) = {}
    OBVIOUS
  <2> QED
    BY <1>1, <1>4, <2>1, <2>2
<1>6. CASE m \in I
  <2>1. InOrder(Append(f[m - 1], m), (I \cap (1 .. m - 1)) \cup {m})
    <3>1. I \cap (1 .. m - 1) \in SUBSET Int /\ \A k \in I \cap (1 .. m - 1) : k < m
      BY <1>4
    <3> QED
      BY <1>4, <1>5, <3>1, AppendInOrder
  <2>2. (I \cap (1 .. m - 1)) \cup {m} = I \cap (1 .. m)
    BY <1>4, <1>5, <1>6
  <2>3. m \in 1 .. n
    BY <1>4, <1>5
  <2>4. f[m] = Append(f[m - 1], m)
    BY <1>1, <1>6, <2>3
  <2> QED
    BY <1>4, <2>1, <2>2, <2>4
<1>7. CASE m \notin I
  <2>1. I \cap (1 .. m - 1) = I \cap (1 .. m)
    BY <1>4, <1>5, <1>7
  <2>3. m \in 1 .. n
    BY <1>4, <1>5
  <2>2. f[m] = f[m - 1]
    BY <1>1, <1>7, <2>3
  <2> QED
    BY <1>4, <1>5, <2>1, <2>2
<1> QED
  BY <1>6, <1>7

\* A list without its k-th element.
LEMMA Removed ==
  ASSUME NEW S, NEW a \in Seq(S), NEW k \in 1 .. Len(a)
  PROVE  /\ RemoveAt(a, k) \in Seq(S) /\ Len(RemoveAt(a, k)) = Len(a) - 1
         /\ \A i \in 1 .. Len(a) - 1 :
              RemoveAt(a, k)[i] = IF i < k THEN a[i] ELSE a[i + 1]
<1> DEFINE u == SubSeq(a, 1, k - 1)
           v == SubSeq(a, k + 1, Len(a))
<1>1. Len(a) \in Nat /\ k \in Int /\ \A i \in 1 .. Len(a) : a[i] \in S
  BY LenProperties
<1>2. u \in Seq(S) /\ Len(u) = k - 1 /\ \A i \in 1 .. k - 1 : u[i] = a[i]
  <2>1. \A i \in 1 .. k - 1 : a[i] \in S
    BY <1>1
  <2>2. 1 \in Int /\ k - 1 \in Int
    BY <1>1
  <2> HIDE DEF u
  <2>3. /\ u \in Seq(S) /\ Len(u) = (IF 1 <= k - 1 THEN k - 1 - 1 + 1 ELSE 0)
        /\ \A i \in 1 .. k - 1 - 1 + 1 : u[i] = a[1 + i - 1]
    BY <2>1, <2>2, SubSeqProperties DEF u
  <2> QED
    BY <2>3, <1>1
<1>3. /\ v \in Seq(S) /\ Len(v) = Len(a) - k
      /\ \A i \in 1 .. Len(a) - k : v[i] = a[k + i]
  <2>1. \A i \in k + 1 .. Len(a) : a[i] \in S
    BY <1>1
  <2>2. k + 1 \in Int /\ Len(a) \in Int
    BY <1>1
  <2> HIDE DEF v
  <2>3. /\ v \in Seq(S) /\ Len(v) = (IF k + 1 <= Len(a) THEN Len(a) - (k + 1) + 1 ELSE 0)
        /\ \A i \in 1 .. Len(a) - (k + 1) + 1 : v[i] = a[k + 1 + i - 1]
    BY <2>1, <2>2, SubSeqProperties DEF v
  <2> QED
    BY <2>3, <1>1
<1>4. RemoveAt(a, k) = u \o v
  BY DEF RemoveAt
<1> HIDE DEF u, v
<1>5. /\ u \o v \in Seq(S) /\ Len(u \o v) = Len(u) + Len(v)
      /\ \A i \in 1 .. Len(u) + Len(v) : (u \o v)[i] = IF i <= Len(u) THEN u[i] ELSE v[i - Len(u)]
  BY <1>2, <1>3, ConcatProperties
<1> QED
  BY <1>1, <1>2, <1>3, <1>4, <1>5

\* A list in order without one of its members.
LEMMA DropInOrder ==
  ASSUME NEW K \in SUBSET Int, NEW a, InOrder(a, K), NEW k \in 1 .. Len(a)
  PROVE  InOrder(RemoveAt(a, k), K \ {a[k]})
<1> DEFINE b == RemoveAt(a, k)
<1>1. /\ b \in Seq(K) /\ Len(b) = Len(a) - 1
      /\ \A i \in 1 .. Len(b) : b[i] = IF i < k THEN a[i] ELSE a[i + 1]
  BY Removed, InOrderSeq
<1> HIDE DEF b
<1>2. /\ Len(a) \in Nat /\ \A i \in 1 .. Len(a) : a[i] \in K /\ a[i] \in Int
      /\ \A i, j \in 1 .. Len(a) : i < j => a[i] < a[j]
      /\ \A m \in K : \E i \in 1 .. Len(a) : a[i] = m
  BY DEF InOrder
<1>3. \A i \in 1 .. Len(a) : i # k => a[i] # a[k]
  BY <1>2
<1>4. b \in [1 .. Len(b) -> K \ {a[k]}] /\ Len(b) \in Nat
  <2>1. \A i \in 1 .. Len(b) : b[i] \in K \ {a[k]}
    BY <1>1, <1>2, <1>3
  <2> QED
    BY <2>1, <1>1, <1>2
<1>5. ASSUME NEW i \in 1 .. Len(b), NEW j \in 1 .. Len(b), i < j
      PROVE  b[i] < b[j]
  <2>1. /\ i \in 1 .. Len(a) /\ i + 1 \in 1 .. Len(a)
        /\ j \in 1 .. Len(a) /\ j + 1 \in 1 .. Len(a)
    BY <1>1, <1>2
  <2>2. a[i] < a[j] /\ a[i] < a[j + 1] /\ a[i + 1] < a[j + 1]
    BY <2>1, <1>2, <1>5
  <2>3. j < k => i < k
    BY <1>5
  <2> QED
    BY <1>1, <2>2, <2>3
<1>6. ASSUME NEW m \in K \ {a[k]}
      PROVE  \E i \in 1 .. Len(b) : b[i] = m
  <2>1. PICK i \in 1 .. Len(a) : a[i] = m
    BY <1>2
  <2>2. CASE i < k
    <3>1. i \in 1 .. Len(b) /\ b[i] = m
      BY <2>1, <2>2, <1>1, <1>2
    <3> QED
      BY <3>1
  <2>3. CASE i > k
    <3>1. i - 1 \in 1 .. Len(b) /\ b[i - 1] = m
      BY <2>1, <2>3, <1>1, <1>2
    <3> QED
      BY <3>1
  <2>4. i # k
    BY <2>1
  <2> QED
    BY <2>2, <2>3, <2>4
<1>7. InOrder(b, K \ {a[k]})
  <2> DEFINE L == K \ {a[k]}
  <2> HIDE DEF L
  <2> QED
    BY <1>4, <1>5, <1>6 DEF InOrder, L
<1> QED
  BY <1>7 DEF b

-----------------------------------------------------------------------------
(* What a package says. *)

\* What a sequence's elements at some positions are.
LEMMA SelectedIs ==
  ASSUME NEW s, Len(s) \in Nat, DOMAIN s = 1 .. Len(s), NEW I
  PROVE  /\ InOrder(Ascending(Len(s), I), I \cap DOMAIN s)
         /\ Len(Ascending(Len(s), I)) \in Nat
         /\ DOMAIN Selected(s, I) = 1 .. Len(Ascending(Len(s), I))
         /\ Len(Selected(s, I)) = Len(Ascending(Len(s), I))
<1> DEFINE at == Ascending(Len(s), I)
<1>1. InOrder(at, I \cap DOMAIN s)
  BY AscendingInOrder
<1>2. DOMAIN at = 1 .. Len(at) /\ Len(at) \in Nat
  BY <1>1 DEF InOrder
<1>3. Selected(s, I) = [k \in 1 .. Len(at) |-> s[at[k]]]
  BY <1>2 DEF Selected
<1> HIDE DEF at
<1> QED
  BY <1>1, <1>2, <1>3 DEF at

\* The elements that Selected lists are those at the positions, in order.
LEMMA SelectedAt ==
  ASSUME NEW s, Len(s) \in Nat, DOMAIN s = 1 .. Len(s), NEW I
  PROVE  \A k \in 1 .. Len(Ascending(Len(s), I)) : Selected(s, I)[k] = s[Ascending(Len(s), I)[k]]
<1>1. InOrder(Ascending(Len(s), I), I \cap DOMAIN s)
  BY AscendingInOrder
<1> QED
  BY <1>1 DEF Selected, InOrder

\* A well-formed package is a sequence.
LEMMA Sections ==
  ASSUME NEW secs, WellFormed(secs)
  PROVE  /\ secs \in Seq(ToSet(secs)) /\ Len(secs) \in Nat /\ DOMAIN secs = 1 .. Len(secs)
         /\ \A i \in DOMAIN secs : secs[i] \in ToSet(secs)
         /\ \A i \in DOMAIN secs :
              /\ DOMAIN secs[i] = {"id", "type", "anon", "opts"}
              /\ secs[i].anon \in BOOLEAN /\ (secs[i].anon => secs[i].id \in AnonIds)
              /\ secs[i].id # NoId
         /\ \A i, j \in DOMAIN secs : secs[i].id = secs[j].id => i = j
<1>1. secs \in Seq(ToSet(secs))
  BY DEF WellFormed
<1>2. Len(secs) \in Nat /\ DOMAIN secs = 1 .. Len(secs)
  BY <1>1, LenProperties
<1>3. \A i \in DOMAIN secs : secs[i] \in ToSet(secs)
  BY DEF ToSet
<1> QED
  BY <1>1, <1>2, <1>3 DEF WellFormed

\* Find finds the section with an id.
LEMMA Found ==
  ASSUME NEW secs, WellFormed(secs)
  PROVE  /\ \A i \in DOMAIN secs : Find(secs, secs[i].id) = <<secs[i]>>
         /\ \A id : Find(secs, id) # <<>> => \E i \in DOMAIN secs : secs[i].id = id
<1>1. ASSUME NEW i \in DOMAIN secs
      PROVE  Find(secs, secs[i].id) = <<secs[i]>>
  <2>1. {s \in ToSet(secs) : s.id = secs[i].id} = {secs[i]}
    <3>1. ASSUME NEW s \in ToSet(secs), s.id = secs[i].id
          PROVE  s = secs[i]
      <4>1. PICK j \in DOMAIN secs : s = secs[j]
        BY DEF ToSet
      <4> QED
        BY <3>1, <4>1, Sections
    <3>2. secs[i] \in ToSet(secs)
      BY Sections
    <3> QED
      BY <3>1, <3>2
  <2> QED
    BY <2>1 DEF Find
<1>2. ASSUME NEW id, Find(secs, id) # <<>>
      PROVE  \E i \in DOMAIN secs : secs[i].id = id
  <2>1. {s \in ToSet(secs) : s.id = id} # {}
    BY <1>2 DEF Find
  <2> QED
    BY <2>1 DEF ToSet
<1> QED
  BY <1>1, <1>2

\* The positions of the anonymous sections of a type, and their options.
AnonAt(secs, t) == {i \in DOMAIN secs : secs[i].anon /\ secs[i].type = t}
Places(secs, t) == Ascending(Len(secs), AnonAt(secs, t))
Bare(secs, t) == [k \in 1 .. Len(Places(secs, t)) |-> secs[Places(secs, t)[k]].opts]

\* The named sections.
Naming(secs) == View(secs).named

\* The places of the anonymous sections of a type are in order.
LEMMA PlacesInOrder ==
  ASSUME NEW secs, WellFormed(secs), NEW t
  PROVE  /\ InOrder(Places(secs, t), AnonAt(secs, t))
         /\ AnonAt(secs, t) \in SUBSET Int
         /\ Len(Places(secs, t)) \in Nat
         /\ \A k \in 1 .. Len(Places(secs, t)) : Places(secs, t)[k] \in AnonAt(secs, t)
<1>1. Len(secs) \in Nat /\ AnonAt(secs, t) \cap (1 .. Len(secs)) = AnonAt(secs, t)
      /\ AnonAt(secs, t) \in SUBSET Int
  BY Sections DEF AnonAt
<1>2. InOrder(Places(secs, t), AnonAt(secs, t))
  BY <1>1, AscendingInOrder DEF Places
<1> QED
  BY <1>1, <1>2 DEF InOrder

\* The anonymous sections of a type, as Anonymous lists them.
LEMMA AnonymousIs ==
  ASSUME NEW secs, WellFormed(secs), NEW t
  PROVE  /\ DOMAIN Anonymous(secs, t) = 1 .. Len(Places(secs, t))
         /\ Len(Anonymous(secs, t)) = Len(Places(secs, t))
         /\ \A k \in 1 .. Len(Places(secs, t)) : Anonymous(secs, t)[k] = secs[Places(secs, t)[k]]
<1>1. Anonymous(secs, t) = Selected(secs, AnonAt(secs, t))
  BY DEF Anonymous, AnonAt
<1>2. Len(secs) \in Nat /\ DOMAIN secs = 1 .. Len(secs)
  BY Sections
<1>3. DOMAIN Selected(secs, AnonAt(secs, t)) = 1 .. Len(Places(secs, t))
  BY <1>2, SelectedIs DEF Places
<1>4. Len(Selected(secs, AnonAt(secs, t))) = Len(Places(secs, t))
  BY <1>2, SelectedIs DEF Places
<1>5. \A k \in 1 .. Len(Places(secs, t)) :
        Selected(secs, AnonAt(secs, t))[k] = secs[Places(secs, t)[k]]
  BY <1>2, SelectedAt DEF Places
<1> QED
  BY <1>1, <1>3, <1>4, <1>5

\* A type has a bare section where it has an anonymous one.
LEMMA BareEmpty ==
  ASSUME NEW secs, WellFormed(secs), NEW t
  PROVE  /\ Bare(secs, t) = <<>> <=> AnonAt(secs, t) = {}
         /\ DOMAIN Bare(secs, t) = 1 .. Len(Places(secs, t))
         /\ Len(Bare(secs, t)) = Len(Places(secs, t))
<1>1. Len(Places(secs, t)) = 0 <=> AnonAt(secs, t) = {}
  BY PlacesInOrder DEF InOrder
<1>2. Len(Places(secs, t)) \in Nat
  BY PlacesInOrder
<1>3. DOMAIN Bare(secs, t) = 1 .. Len(Places(secs, t)) /\ Len(Bare(secs, t)) = Len(Places(secs, t))
  BY <1>2 DEF Bare
<1>4. Len(Places(secs, t)) = 0 => Bare(secs, t) = <<>>
  BY DEF Bare
<1>5. Bare(secs, t) = <<>> => Len(Places(secs, t)) = 0
  BY <1>3
<1> QED
  BY <1>1, <1>3, <1>4, <1>5

\* The parts of a view.
LEMMA ViewParts ==
  ASSUME NEW secs, WellFormed(secs)
  PROVE  /\ View(secs) = [named |-> Naming(secs),
                          anon |-> [t \in {u \in {s.type : s \in ToSet(secs)} : Bare(secs, u) # <<>>} |-> Bare(secs, t)]]
         /\ Naming(secs) = [n \in DOMAIN Naming(secs) |-> Naming(secs)[n]]
         /\ \A n : n \in DOMAIN Naming(secs) <=> \E i \in DOMAIN secs : ~ secs[i].anon /\ secs[i].id = n
         /\ \A i \in DOMAIN secs :
              ~ secs[i].anon => Naming(secs)[secs[i].id] = <<secs[i].type, secs[i].opts>>
<1> DEFINE ids == {s.id : s \in {x \in ToSet(secs) : ~ x.anon}}
           N == [n \in ids |-> <<Find(secs, n)[1].type, Find(secs, n)[1].opts>>]
           types == {s.type : s \in {x \in ToSet(secs) : x.anon}}
           list(t) == [i \in DOMAIN Anonymous(secs, t) |-> Anonymous(secs, t)[i].opts]
           A == [t \in types |-> list(t)]
           B == [t \in {u \in {s.type : s \in ToSet(secs)} : Bare(secs, u) # <<>>} |-> Bare(secs, t)]
<1>1. View(secs) = [named |-> N, anon |-> A]
  BY DEF View
<1>2. \A n : n \in ids <=> \E i \in DOMAIN secs : ~ secs[i].anon /\ secs[i].id = n
  BY DEF ToSet
<1>3. \A t : list(t) = Bare(secs, t)
  BY AnonymousIs DEF Bare
<1>4. types = {u \in {s.type : s \in ToSet(secs)} : Bare(secs, u) # <<>>}
  <2>1. \A t : t \in types <=> AnonAt(secs, t) # {}
    BY DEF AnonAt, ToSet
  <2>2. \A t : t \in types => t \in {s.type : s \in ToSet(secs)}
    OBVIOUS
  <2> QED
    BY <2>1, <2>2, BareEmpty
<1>5. A = B
  <2> HIDE DEF types, list
  <2> QED
    BY <1>3, <1>4
<1>6. Naming(secs) = N
  BY <1>1 DEF Naming
<1>7. \A i \in DOMAIN secs : ~ secs[i].anon => N[secs[i].id] = <<secs[i].type, secs[i].opts>>
  <2> SUFFICES ASSUME NEW i \in DOMAIN secs, ~ secs[i].anon
               PROVE  N[secs[i].id] = <<secs[i].type, secs[i].opts>>
      OBVIOUS
  <2>1. secs[i].id \in ids
    BY <1>2
  <2>2. Find(secs, secs[i].id)[1] = secs[i]
    BY Found
  <2> HIDE DEF ids
  <2> QED
    BY <2>1, <2>2
<1> HIDE DEF ids, A, B, types, list
<1> QED
  BY <1>1, <1>2, <1>5, <1>6, <1>7 DEF B

\* A package says what its named sections and its bare ones say.
LEMMA ViewIs ==
  ASSUME NEW secs, WellFormed(secs), NEW N, NEW A,
         Naming(secs) = N, A = [t \in DOMAIN A |-> A[t]],
         \A t : t \in DOMAIN A <=> Bare(secs, t) # <<>>,
         \A t \in DOMAIN A : A[t] = Bare(secs, t)
  PROVE  View(secs) = [named |-> N, anon |-> A]
<1> DEFINE D == {u \in {s.type : s \in ToSet(secs)} : Bare(secs, u) # <<>>}
<1>1. View(secs) = [named |-> Naming(secs), anon |-> [t \in D |-> Bare(secs, t)]]
  BY ViewParts
<1>2. D = DOMAIN A
  <2>1. \A t : Bare(secs, t) # <<>> => t \in {s.type : s \in ToSet(secs)}
    BY BareEmpty DEF AnonAt, ToSet
  <2> QED
    BY <2>1
<1> HIDE DEF D
<1>3. [t \in D |-> Bare(secs, t)] = A
  BY <1>2
<1> QED
  BY <1>1, <1>3

\* What the named sections say.
LEMMA NamingIs ==
  ASSUME NEW secs, WellFormed(secs), NEW N, N = [n \in DOMAIN N |-> N[n]],
         \A n : n \in DOMAIN N <=> \E i \in DOMAIN secs : ~ secs[i].anon /\ secs[i].id = n,
         \A i \in DOMAIN secs : ~ secs[i].anon => N[secs[i].id] = <<secs[i].type, secs[i].opts>>
  PROVE  Naming(secs) = N
<1>1. DOMAIN Naming(secs) = DOMAIN N
  <2>1. \A n : n \in DOMAIN Naming(secs) <=> \E i \in DOMAIN secs : ~ secs[i].anon /\ secs[i].id = n
    BY ViewParts
  <2>2. \A n : n \in DOMAIN Naming(secs) <=> n \in DOMAIN N
    BY <2>1
  <2> QED
    BY <2>2
<1>2. ASSUME NEW n \in DOMAIN N
      PROVE  Naming(secs)[n] = N[n]
  <2>1. PICK i \in DOMAIN secs : ~ secs[i].anon /\ secs[i].id = n
    OBVIOUS
  <2> QED
    BY <2>1, ViewParts
<1>3. Naming(secs) = [n \in DOMAIN Naming(secs) |-> Naming(secs)[n]]
  BY ViewParts
<1> QED
  BY <1>1, <1>2, <1>3

\* The parts of a view, as the reference looks at them.
LEMMA ViewFields ==
  ASSUME NEW secs, WellFormed(secs)
  PROVE  /\ View(secs) = [named |-> Naming(secs), anon |-> View(secs).anon]
         /\ \A t : t \in DOMAIN View(secs).anon <=> Bare(secs, t) # <<>>
         /\ \A t \in DOMAIN View(secs).anon : View(secs).anon[t] = Bare(secs, t)
         /\ View(secs).anon = [t \in DOMAIN View(secs).anon |-> View(secs).anon[t]]
<1> DEFINE D == {u \in {s.type : s \in ToSet(secs)} : Bare(secs, u) # <<>>}
<1>1. View(secs) = [named |-> Naming(secs), anon |-> [t \in D |-> Bare(secs, t)]]
  BY ViewParts
<1>2. \A t : t \in D <=> Bare(secs, t) # <<>>
  <2>1. \A t : Bare(secs, t) # <<>> => t \in {s.type : s \in ToSet(secs)}
    BY BareEmpty DEF AnonAt, ToSet
  <2> QED
    BY <2>1
<1> HIDE DEF D
<1>3. View(secs).anon = [t \in D |-> Bare(secs, t)]
  BY <1>1
<1> QED
  BY <1>1, <1>2, <1>3

\* A change of the anonymous sections of one type.
LEMMA WithView ==
  ASSUME NEW a, NEW b, WellFormed(a), WellFormed(b), NEW t,
         Naming(b) = Naming(a), \A u : u # t => Bare(b, u) = Bare(a, u)
  PROVE  View(b) = With(View(a), t, Bare(b, t))
<1> DEFINE old == View(a).anon
           A == [u \in {u \in DOMAIN old \cup {t} : u # t \/ Bare(b, t) # <<>>} |->
                   IF u = t THEN Bare(b, t) ELSE old[u]]
<1>1. View(a) = [named |-> Naming(a), anon |-> old]
  BY ViewFields
<1>2. With(View(a), t, Bare(b, t)) = [named |-> Naming(a), anon |-> A]
  <2> HIDE DEF old
  <2>1. View(a).anon = old
    BY DEF old
  <2> QED
    BY <1>1, <2>1 DEF With
<1>3. \A u : u \in DOMAIN A <=> Bare(b, u) # <<>>
  BY ViewFields
<1>4. \A u \in DOMAIN A : A[u] = Bare(b, u)
  BY ViewFields
<1>5. A = [u \in DOMAIN A |-> A[u]]
  OBVIOUS
<1> HIDE DEF A
<1>6. View(b) = [named |-> Naming(a), anon |-> A]
  BY <1>3, <1>4, <1>5, ViewIs
<1> QED
  BY <1>2, <1>6

\* A change of the named sections.
LEMMA NamedView ==
  ASSUME NEW a, NEW b, WellFormed(a), WellFormed(b), \A u : Bare(b, u) = Bare(a, u)
  PROVE  View(b) = [View(a) EXCEPT !.named = Naming(b)]
<1> DEFINE A == View(a).anon
<1>1. View(a) = [named |-> Naming(a), anon |-> A]
  BY ViewFields
<1>2. /\ \A u : u \in DOMAIN A <=> Bare(b, u) # <<>>
      /\ \A u \in DOMAIN A : A[u] = Bare(b, u)
  BY ViewFields
<1>3. A = [u \in DOMAIN A |-> A[u]]
  BY ViewFields
<1> HIDE DEF A
<1>4. View(b) = [named |-> Naming(b), anon |-> A]
  BY <1>2, <1>3, ViewIs
<1> QED
  BY <1>1, <1>4

-----------------------------------------------------------------------------
(* What a call does to a package, and to what it says. *)

\* A package is well formed if its sections are, place by place.
LEMMA WellFormedBy ==
  ASSUME NEW secs, secs = [i \in 1 .. Len(secs) |-> secs[i]], Len(secs) \in Nat,
         \A i \in 1 .. Len(secs) :
           /\ DOMAIN secs[i] = {"id", "type", "anon", "opts"}
           /\ secs[i].anon \in BOOLEAN /\ (secs[i].anon => secs[i].id \in AnonIds)
           /\ secs[i].id # NoId,
         \A i, j \in 1 .. Len(secs) : secs[i].id = secs[j].id => i = j
  PROVE  WellFormed(secs)
<1>1. DOMAIN secs = 1 .. Len(secs)
  OBVIOUS
<1>2. \A i \in 1 .. Len(secs) : secs[i] \in ToSet(secs)
  BY <1>1 DEF ToSet
<1>3. secs \in Seq(ToSet(secs))
  <2> DEFINE T == ToSet(secs)
  <2> HIDE DEF T
  <2>1. secs \in [1 .. Len(secs) -> T]
    BY <1>1, <1>2 DEF T
  <2> QED
    BY <2>1 DEF T
<1>4. \A s \in ToSet(secs) : \E i \in 1 .. Len(secs) : s = secs[i]
  BY <1>1 DEF ToSet
<1>5. \A s \in ToSet(secs) :
           /\ DOMAIN s = {"id", "type", "anon", "opts"}
           /\ s.anon \in BOOLEAN /\ (s.anon => s.id \in AnonIds)
           /\ s.id # NoId
  <2> SUFFICES ASSUME NEW s \in ToSet(secs)
               PROVE  /\ DOMAIN s = {"id", "type", "anon", "opts"}
                      /\ s.anon \in BOOLEAN /\ (s.anon => s.id \in AnonIds)
                      /\ s.id # NoId
      OBVIOUS
  <2>1. PICK i \in 1 .. Len(secs) : s = secs[i]
    BY <1>4
  <2> QED
    BY <2>1
<1> QED
  BY <1>1, <1>3, <1>5, Zenon DEF WellFormed

\* A package is a function.
LEMMA SectionsFcn ==
  ASSUME NEW secs, WellFormed(secs)
  PROVE  secs = [i \in 1 .. Len(secs) |-> secs[i]]
<1>1. secs \in Seq(ToSet(secs))
  BY Sections
<1> DEFINE T == ToSet(secs)
<1> HIDE DEF T
<1>2. secs \in [1 .. Len(secs) -> T]
  BY <1>1, LenProperties DEF T
<1> QED
  BY <1>2

\* One more section.
LEMMA AppendIs ==
  ASSUME NEW a, WellFormed(a), NEW x
  PROVE  /\ Len(Append(a, x)) = Len(a) + 1 /\ DOMAIN Append(a, x) = 1 .. Len(a) + 1
         /\ \A i \in 1 .. Len(a) : Append(a, x)[i] = a[i]
         /\ Append(a, x)[Len(a) + 1] = x
         /\ Append(a, x) = [i \in 1 .. Len(a) + 1 |-> Append(a, x)[i]]
<1> DEFINE T == ToSet(a) \cup {x}
<1>1. a \in Seq(T) /\ x \in T
  <2>1. a \in Seq(ToSet(a))
    BY Sections
  <2> QED
    BY <2>1, SeqMonotonic
<1> HIDE DEF T
<1>2. Append(a, x) \in Seq(T) /\ Len(Append(a, x)) = Len(a) + 1
  BY <1>1, AppendProperties
<1>3. \A i \in 1 .. Len(a) : Append(a, x)[i] = a[i]
  BY <1>1, AppendProperties
<1>4. Append(a, x)[Len(a) + 1] = x
  BY <1>1, AppendProperties
<1>5. DOMAIN Append(a, x) = 1 .. Len(a) + 1
  BY <1>2, LenProperties
<1>6. Append(a, x) \in [1 .. Len(a) + 1 -> T]
  BY <1>2, LenProperties
<1> QED
  BY <1>2, <1>3, <1>4, <1>5, <1>6

\* One more section, of a new id, keeps a package well formed.
LEMMA AppendWell ==
  ASSUME NEW a, WellFormed(a), NEW x,
         DOMAIN x = {"id", "type", "anon", "opts"}, x.anon \in BOOLEAN,
         x.anon => x.id \in AnonIds, x.id # NoId, \A i \in DOMAIN a : a[i].id # x.id
  PROVE  WellFormed(Append(a, x))
<1> DEFINE b == Append(a, x)
           n == Len(a) + 1
<1>1. /\ Len(b) = n /\ DOMAIN b = 1 .. n
      /\ \A i \in 1 .. Len(a) : b[i] = a[i]
      /\ b[n] = x
      /\ b = [i \in 1 .. n |-> b[i]]
  BY AppendIs
<1>2. /\ Len(a) \in Nat /\ DOMAIN a = 1 .. Len(a)
      /\ \A i \in DOMAIN a :
           /\ DOMAIN a[i] = {"id", "type", "anon", "opts"}
           /\ a[i].anon \in BOOLEAN /\ (a[i].anon => a[i].id \in AnonIds)
           /\ a[i].id # NoId
      /\ \A i, j \in DOMAIN a : a[i].id = a[j].id => i = j
  BY Sections
<1> HIDE DEF b
<1>3. \A i \in 1 .. n : i = n \/ i \in DOMAIN a
  BY <1>2
<1>4. \A i \in 1 .. n :
        /\ DOMAIN b[i] = {"id", "type", "anon", "opts"}
        /\ b[i].anon \in BOOLEAN /\ (b[i].anon => b[i].id \in AnonIds)
        /\ b[i].id # NoId
  BY <1>1, <1>2, <1>3
<1>5. ASSUME NEW i \in 1 .. n, NEW j \in 1 .. n, b[i].id = b[j].id
      PROVE  i = j
  <2>1. i # n => i \in DOMAIN a /\ b[i] = a[i]
    BY <1>1, <1>2, <1>3
  <2>2. j # n => j \in DOMAIN a /\ b[j] = a[j]
    BY <1>1, <1>2, <1>3
  <2>3. b[n].id = x.id
    BY <1>1
  <2> HIDE DEF n
  <2>4. CASE i = n
    BY <1>5, <2>2, <2>3, <2>4
  <2>5. CASE j = n
    BY <1>5, <2>1, <2>3, <2>5
  <2>6. CASE i # n /\ j # n
    BY <1>2, <1>5, <2>1, <2>2, <2>6
  <2> QED
    BY <2>4, <2>5, <2>6
<1>6. n \in Nat
  BY <1>2
<1> HIDE DEF n
<1> QED
  BY <1>1, <1>4, <1>5, <1>6, WellFormedBy DEF b

\* Sections changed in their places.
LEMMA ChangeWell ==
  ASSUME NEW a, WellFormed(a), NEW b, DOMAIN b = DOMAIN a, b = [i \in DOMAIN a |-> b[i]],
         \A i \in DOMAIN a :
           b[i].id = a[i].id /\ b[i].anon = a[i].anon /\ DOMAIN b[i] = DOMAIN a[i]
  PROVE  WellFormed(b) /\ Len(b) = Len(a)
<1>1. Len(a) \in Nat /\ DOMAIN a = 1 .. Len(a)
  BY Sections
<1>2. Len(b) = Len(a)
  BY <1>1
<1> QED
  BY <1>1, <1>2, Sections, WellFormedBy

\* A selection of the sections.
LEMMA DropWell ==
  ASSUME NEW a, WellFormed(a), NEW I
  PROVE  WellFormed(Selected(a, I))
<1> DEFINE b == Selected(a, I)
           at == Ascending(Len(a), I)
<1>1. Len(a) \in Nat /\ DOMAIN a = 1 .. Len(a)
  BY Sections
<1>2. InOrder(at, I \cap DOMAIN a) /\ Len(at) \in Nat /\ DOMAIN b = 1 .. Len(at) /\ Len(b) = Len(at)
  BY <1>1, SelectedIs
<1>3. \A k \in 1 .. Len(at) : b[k] = a[at[k]]
  BY <1>1, SelectedAt
<1>4. b = [k \in 1 .. Len(b) |-> b[k]]
  <2>1. b = [k \in DOMAIN at |-> a[at[k]]]
    BY DEF Selected
  <2> HIDE DEF b, at
  <2>2. DOMAIN b = DOMAIN at
    BY <2>1
  <2> QED
    BY <1>2, <2>1, <2>2
<1> HIDE DEF b, at
<1>5. /\ \A k \in 1 .. Len(at) : at[k] \in DOMAIN a
      /\ \A j, k \in 1 .. Len(at) : at[j] = at[k] => j = k
  <2>1. /\ \A k \in 1 .. Len(at) : at[k] \in DOMAIN a /\ at[k] \in Int
        /\ \A j, k \in 1 .. Len(at) : j < k => at[j] < at[k]
    BY <1>1, <1>2 DEF InOrder
  <2> QED
    BY <1>2, <2>1
<1>6. \A i, j \in DOMAIN a : a[i].id = a[j].id => i = j
  BY Sections
<1>7. \A i, j \in 1 .. Len(b) : b[i].id = b[j].id => i = j
  BY <1>2, <1>3, <1>5, <1>6
<1>8. \A i \in DOMAIN a :
           /\ DOMAIN a[i] = {"id", "type", "anon", "opts"}
           /\ a[i].anon \in BOOLEAN /\ (a[i].anon => a[i].id \in AnonIds)
           /\ a[i].id # NoId
  BY Sections
<1>9. \A i \in 1 .. Len(b) :
        /\ DOMAIN b[i] = {"id", "type", "anon", "opts"}
        /\ b[i].anon \in BOOLEAN /\ (b[i].anon => b[i].id \in AnonIds)
        /\ b[i].id # NoId
  BY <1>2, <1>3, <1>5, <1>8
<1> QED
  BY <1>2, <1>4, <1>7, <1>9, WellFormedBy DEF b

\* The bare sections of a type that stay where they were, and what they were.
LEMMA SameBare ==
  ASSUME NEW a, NEW b, WellFormed(a), WellFormed(b), NEW u,
         AnonAt(b, u) = AnonAt(a, u), \A i \in AnonAt(a, u) : b[i].opts = a[i].opts
  PROVE  Bare(b, u) = Bare(a, u)
<1>1. Places(b, u) = Places(a, u)
  BY PlacesInOrder, OrderUnique
<1>2. \A k \in 1 .. Len(Places(a, u)) : Places(a, u)[k] \in AnonAt(a, u)
  BY PlacesInOrder
<1> QED
  BY <1>1, <1>2 DEF Bare

\* One more named section.
LEMMA AppendNamed ==
  ASSUME NEW a, WellFormed(a), NEW x, WellFormed(Append(a, x)), ~ x.anon
  PROVE  View(Append(a, x))
           = [View(a) EXCEPT !.named = [n \in DOMAIN @ \cup {x.id} |->
                                          IF n = x.id THEN <<x.type, x.opts>> ELSE @[n]]]
<1> DEFINE b == Append(a, x)
           N == [n \in DOMAIN Naming(a) \cup {x.id} |->
                   IF n = x.id THEN <<x.type, x.opts>> ELSE Naming(a)[n]]
           m == Len(a) + 1
<1>1. /\ Len(a) \in Nat /\ DOMAIN a = 1 .. Len(a) /\ DOMAIN b = 1 .. m
      /\ \A i \in 1 .. Len(a) : b[i] = a[i]
      /\ b[m] = x
  BY AppendIs, Sections
<1>0. WellFormed(b)
  OBVIOUS
<1> HIDE DEF b
<1>2. \A i \in DOMAIN b : i = m \/ i \in DOMAIN a
  BY <1>1
<1>3. \A i \in DOMAIN a : i \in DOMAIN b
  BY <1>1
<1>4. m \in DOMAIN b
  BY <1>1
<1> HIDE DEF m
<1>5. \A u : Bare(b, u) = Bare(a, u)
  <2> SUFFICES ASSUME NEW u
               PROVE  Bare(b, u) = Bare(a, u)
      OBVIOUS
  <2>1. AnonAt(b, u) = AnonAt(a, u)
    BY <1>1, <1>2, <1>3 DEF AnonAt
  <2>2. \A i \in AnonAt(a, u) : b[i].opts = a[i].opts
    BY <1>1 DEF AnonAt
  <2> QED
    BY <1>0, <2>1, <2>2, SameBare
<1>6. Naming(b) = N
  <2>1. \A n : n \in DOMAIN Naming(a) <=> \E i \in DOMAIN a : ~ a[i].anon /\ a[i].id = n
    BY ViewParts
  <2>2. ASSUME NEW n
        PROVE  n \in DOMAIN N <=> \E i \in DOMAIN b : ~ b[i].anon /\ b[i].id = n
    <3>1. CASE n = x.id
      BY <3>1, <1>1, <1>4
    <3>2. CASE n # x.id
      <4>1. (\E i \in DOMAIN b : ~ b[i].anon /\ b[i].id = n)
              <=> (\E i \in DOMAIN a : ~ a[i].anon /\ a[i].id = n)
        BY <1>1, <1>2, <1>3, <3>2
      <4>2. n \in DOMAIN N <=> n \in DOMAIN Naming(a)
        BY <3>2
      <4> QED
        BY <2>1, <4>1, <4>2
    <3> QED
      BY <3>1, <3>2
  <2>3. ASSUME NEW i \in DOMAIN b, ~ b[i].anon
        PROVE  N[b[i].id] = <<b[i].type, b[i].opts>>
    <3>1. b[i].id \in DOMAIN N
      BY <2>2, <2>3
    <3>2. CASE i = m
      BY <3>1, <3>2, <1>1
    <3>3. CASE i # m
      <4>1. i \in DOMAIN a /\ b[i] = a[i]
        BY <1>1, <1>2, <3>3
      <4>2. Naming(a)[a[i].id] = <<a[i].type, a[i].opts>>
        BY <2>3, <4>1, ViewParts
      <4>3. a[i].id # x.id
        <5>1. \A j, k \in DOMAIN b : b[j].id = b[k].id => j = k
          BY <1>0, Sections
        <5> QED
          BY <5>1, <1>1, <1>4, <3>3, <4>1
      <4> HIDE DEF N
      <4>4. N[a[i].id] = Naming(a)[a[i].id]
        BY <3>1, <4>1, <4>3 DEF N
      <4> QED
        BY <4>1, <4>2, <4>4
    <3> QED
      BY <3>2, <3>3
  <2>4. N = [n \in DOMAIN N |-> N[n]]
    OBVIOUS
  <2> HIDE DEF N
  <2> QED
    BY <1>0, <2>2, <2>3, <2>4, NamingIs
<1>7. View(b) = [View(a) EXCEPT !.named = Naming(b)]
  BY <1>5, NamedView, <1>0
<1>8. View(a).named = Naming(a)
  BY DEF Naming
<1>9. [View(a) EXCEPT !.named = [n \in DOMAIN @ \cup {x.id} |->
                                          IF n = x.id THEN <<x.type, x.opts>> ELSE @[n]]]
        = [View(a) EXCEPT !.named = N]
  BY <1>8
<1> HIDE DEF N
<1> QED
  BY <1>6, <1>7, <1>9 DEF b

\* One more anonymous section, the last of its type.
LEMMA AppendBare ==
  ASSUME NEW a, WellFormed(a), NEW x, WellFormed(Append(a, x)), x.anon
  PROVE  View(Append(a, x)) = With(View(a), x.type, Append(Bare(a, x.type), x.opts))
<1> DEFINE b == Append(a, x)
           t == x.type
           m == Len(a) + 1
<1>1. /\ Len(a) \in Nat /\ DOMAIN a = 1 .. Len(a) /\ DOMAIN b = 1 .. m
      /\ \A i \in 1 .. Len(a) : b[i] = a[i]
      /\ b[m] = x
  BY AppendIs, Sections
<1>0. WellFormed(b)
  OBVIOUS
<1> HIDE DEF b
<1>2. \A i \in DOMAIN b : i = m \/ i \in DOMAIN a
  BY <1>1
<1>3. \A i \in DOMAIN a : i \in DOMAIN b
  BY <1>1
<1>4. m \in DOMAIN b /\ m \notin DOMAIN a /\ m \in Int
  BY <1>1
<1>5. \A i \in DOMAIN a : i < m
  BY <1>1
<1> HIDE DEF m
<1>6. \A u : u # t => Bare(b, u) = Bare(a, u)
  <2> SUFFICES ASSUME NEW u, u # t
               PROVE  Bare(b, u) = Bare(a, u)
      OBVIOUS
  <2>1. AnonAt(b, u) = AnonAt(a, u)
    BY <1>1, <1>2, <1>3 DEF AnonAt
  <2>2. \A i \in AnonAt(a, u) : b[i].opts = a[i].opts
    BY <1>1 DEF AnonAt
  <2> QED
    BY <1>0, <2>1, <2>2, SameBare
<1>7. Naming(b) = Naming(a)
  <2>1. \A n : n \in DOMAIN Naming(a) <=> \E i \in DOMAIN a : ~ a[i].anon /\ a[i].id = n
    BY ViewParts
  <2>2. \A n : n \in DOMAIN Naming(a) <=> \E i \in DOMAIN b : ~ b[i].anon /\ b[i].id = n
    BY <1>1, <1>2, <1>3, <2>1
  <2>3. \A i \in DOMAIN b : ~ b[i].anon => i \in DOMAIN a /\ b[i] = a[i]
    BY <1>1, <1>2
  <2>6. \A i \in DOMAIN a : ~ a[i].anon => Naming(a)[a[i].id] = <<a[i].type, a[i].opts>>
    BY ViewParts
  <2>4. \A i \in DOMAIN b : ~ b[i].anon => Naming(a)[b[i].id] = <<b[i].type, b[i].opts>>
    BY <2>3, <2>6
  <2>5. Naming(a) = [n \in DOMAIN Naming(a) |-> Naming(a)[n]]
    BY ViewParts
  <2> QED
    BY <1>0, <2>2, <2>4, <2>5, NamingIs
<1>8. Bare(b, t) = Append(Bare(a, t), x.opts)
  <2>1. AnonAt(b, t) = AnonAt(a, t) \cup {m}
    BY <1>1, <1>2, <1>3, <1>4 DEF AnonAt
  <2>2. Places(b, t) = Append(Places(a, t), m)
    <3>1. InOrder(Append(Places(a, t), m), AnonAt(a, t) \cup {m})
      <4>1. \A k \in AnonAt(a, t) : k < m
        BY <1>5 DEF AnonAt
      <4> QED
        BY <4>1, <1>4, PlacesInOrder, AppendInOrder
    <3>2. InOrder(Places(b, t), AnonAt(a, t) \cup {m})
      BY <2>1, PlacesInOrder, <1>0
    <3>3. AnonAt(a, t) \cup {m} \in SUBSET Int
      BY <1>4, PlacesInOrder
    <3> QED
      BY <3>1, <3>2, <3>3, OrderUnique
  <2> DEFINE q == Places(a, t)
             r == Places(b, t)
             n == Len(q)
  <2>3. q \in Seq(Int) /\ n \in Nat /\ \A k \in 1 .. n : q[k] \in AnonAt(a, t)
    <3>1. q \in [1 .. Len(q) -> AnonAt(a, t)] /\ AnonAt(a, t) \in SUBSET Int /\ Len(q) \in Nat
      BY PlacesInOrder DEF InOrder
    <3> HIDE DEF q
    <3> QED
      BY <3>1
  <2> HIDE DEF q
  <2>4. Len(r) = n + 1 /\ (\A k \in 1 .. n : r[k] = q[k]) /\ r[n + 1] = m
    BY <2>2, <2>3, <1>4, AppendProperties DEF q
  <2> HIDE DEF r
  <2>5. Bare(b, t) = [k \in 1 .. n + 1 |-> b[r[k]].opts]
    BY <2>4 DEF Bare, r
  <2>6. Bare(a, t) = [k \in 1 .. n |-> a[q[k]].opts]
    BY DEF Bare, q
  <2>7. \A k \in 1 .. n : b[r[k]].opts = a[q[k]].opts
    BY <1>1, <2>3, <2>4 DEF AnonAt
  <2>8. b[r[n + 1]].opts = x.opts
    BY <1>1, <2>4
  <2>9. Append(Bare(a, t), x.opts) = [k \in 1 .. n + 1 |-> IF k = n + 1 THEN x.opts ELSE a[q[k]].opts]
    <3> DEFINE B == Bare(a, t)
               T == {a[q[k]].opts : k \in 1 .. n} \cup {x.opts}
    <3>1. B \in Seq(T) /\ x.opts \in T /\ Len(B) = n
      BY <2>3, <2>6
    <3>2. \A k \in 1 .. n : B[k] = a[q[k]].opts
      BY <2>6
    <3> HIDE DEF B, T
    <3>3. /\ Len(Append(B, x.opts)) = n + 1
          /\ \A k \in 1 .. n : Append(B, x.opts)[k] = B[k]
          /\ Append(B, x.opts)[n + 1] = x.opts
      BY <3>1, AppendProperties
    <3>4. Append(B, x.opts) \in [1 .. n + 1 -> T]
      BY <3>1, <3>3, AppendProperties, LenProperties
    <3> QED
      BY <3>2, <3>3, <3>4 DEF B
  <2>10. n \in Nat
    BY <2>3
  <2> HIDE DEF n
  <2>11. \A k \in 1 .. n + 1 : b[r[k]].opts = IF k = n + 1 THEN x.opts ELSE a[q[k]].opts
    BY <2>7, <2>8, <2>10
  <2> QED
    BY <2>5, <2>9, <2>11
<1> QED
  BY <1>0, <1>6, <1>7, <1>8, WithView DEF b

\* One named section changed in its place.
LEMMA ChangeNamed ==
  ASSUME NEW a, WellFormed(a), NEW b, WellFormed(b), DOMAIN b = DOMAIN a,
         NEW p \in DOMAIN a, ~ a[p].anon, ~ b[p].anon, b[p].id = a[p].id,
         \A i \in DOMAIN a : i # p => b[i] = a[i]
  PROVE  View(b) = [View(a) EXCEPT !.named[a[p].id] = <<b[p].type, b[p].opts>>]
<1> DEFINE N == [Naming(a) EXCEPT ![a[p].id] = <<b[p].type, b[p].opts>>]
<1>1. \A u : Bare(b, u) = Bare(a, u)
  <2> SUFFICES ASSUME NEW u
               PROVE  Bare(b, u) = Bare(a, u)
      OBVIOUS
  <2>1. AnonAt(b, u) = AnonAt(a, u) /\ \A i \in AnonAt(a, u) : b[i].opts = a[i].opts
    BY DEF AnonAt
  <2> QED
    BY <2>1, SameBare
<1>2. \A n : n \in DOMAIN Naming(a) <=> \E i \in DOMAIN a : ~ a[i].anon /\ a[i].id = n
  BY ViewParts
<1>3. \A i \in DOMAIN a : ~ a[i].anon => Naming(a)[a[i].id] = <<a[i].type, a[i].opts>>
  BY ViewParts
<1>4. Naming(b) = N
  <2>1. DOMAIN N = DOMAIN Naming(a)
    OBVIOUS
  <2>2. \A n : n \in DOMAIN N <=> \E i \in DOMAIN b : ~ b[i].anon /\ b[i].id = n
    BY <1>2, <2>1
  <2>3. ASSUME NEW i \in DOMAIN b, ~ b[i].anon
        PROVE  N[b[i].id] = <<b[i].type, b[i].opts>>
    <3>1. b[i].id \in DOMAIN Naming(a)
      BY <2>1, <2>2, <2>3
    <3>2. CASE i = p
      BY <3>1, <3>2
    <3>3. CASE i # p
      <4>1. b[i] = a[i] /\ a[i].id # a[p].id
        BY <3>3, Sections
      <4>2. N[a[i].id] = Naming(a)[a[i].id]
        BY <3>1, <4>1
      <4> QED
        BY <1>3, <2>3, <4>1, <4>2
    <3> QED
      BY <3>2, <3>3
  <2>4. N = [n \in DOMAIN N |-> N[n]]
    BY ViewParts
  <2> HIDE DEF N
  <2> QED
    BY <2>2, <2>3, <2>4, NamingIs
<1>5. View(b) = [View(a) EXCEPT !.named = Naming(b)]
  BY <1>1, NamedView
<1>6. View(a).named = Naming(a)
  BY DEF Naming
<1> QED
  BY <1>4, <1>5, <1>6

\* One anonymous section changed in its place.
LEMMA ChangeBare ==
  ASSUME NEW a, WellFormed(a), NEW b, WellFormed(b), DOMAIN b = DOMAIN a, NEW t,
         NEW k \in 1 .. Len(Places(a, t)), NEW p, p = Places(a, t)[k],
         b[p].anon, b[p].type = t,
         \A i \in DOMAIN a : i # p => b[i] = a[i]
  PROVE  View(b) = With(View(a), t, [Bare(a, t) EXCEPT ![k] = b[p].opts])
<1>0. p \in AnonAt(a, t)
  BY PlacesInOrder
<1>1. p \in AnonAt(a, t) /\ p \in DOMAIN a /\ a[p].anon /\ a[p].type = t
  BY <1>0 DEF AnonAt
<1>2. \A u : AnonAt(b, u) = AnonAt(a, u)
  BY <1>1 DEF AnonAt
<1>3. \A u : u # t => Bare(b, u) = Bare(a, u)
  <2> SUFFICES ASSUME NEW u, u # t
               PROVE  Bare(b, u) = Bare(a, u)
      OBVIOUS
  <2>1. \A i \in AnonAt(a, u) : b[i].opts = a[i].opts
    BY <1>1 DEF AnonAt
  <2> QED
    BY <1>2, <2>1, SameBare
<1>4. Naming(b) = Naming(a)
  <2>1. \A n : n \in DOMAIN Naming(a) <=> \E i \in DOMAIN a : ~ a[i].anon /\ a[i].id = n
    BY ViewParts
  <2>2. \A i \in DOMAIN a : ~ a[i].anon => Naming(a)[a[i].id] = <<a[i].type, a[i].opts>>
    BY ViewParts
  <2>3. \A n : n \in DOMAIN Naming(a) <=> \E i \in DOMAIN b : ~ b[i].anon /\ b[i].id = n
    BY <1>1, <2>1
  <2>4. \A i \in DOMAIN b : ~ b[i].anon => Naming(a)[b[i].id] = <<b[i].type, b[i].opts>>
    BY <1>1, <2>2
  <2>5. Naming(a) = [n \in DOMAIN Naming(a) |-> Naming(a)[n]]
    BY ViewParts
  <2> QED
    BY <2>3, <2>4, <2>5, NamingIs
<1>5. Bare(b, t) = [Bare(a, t) EXCEPT ![k] = b[p].opts]
  <2> DEFINE q == Places(a, t)
  <2>1. Places(b, t) = q
    BY <1>2, PlacesInOrder, OrderUnique
  <2>2. /\ \A j \in 1 .. Len(q) : q[j] \in AnonAt(a, t)
        /\ \A j \in 1 .. Len(q) : q[j] = p => j = k
    <3>1. /\ q \in [1 .. Len(q) -> AnonAt(a, t)] /\ AnonAt(a, t) \in SUBSET Int /\ Len(q) \in Nat
          /\ \A i, j \in 1 .. Len(q) : i < j => q[i] < q[j]
      BY PlacesInOrder DEF InOrder
    <3> HIDE DEF q
    <3>2. \A j \in 1 .. Len(q) : q[j] \in AnonAt(a, t) /\ q[j] \in Int
      BY <3>1
    <3> QED
      BY <3>1, <3>2 DEF q
  <2>3. Bare(b, t) = [j \in 1 .. Len(q) |-> b[q[j]].opts]
    BY <2>1 DEF Bare
  <2>4. Bare(a, t) = [j \in 1 .. Len(q) |-> a[q[j]].opts]
    BY DEF Bare
  <2>5. \A j \in 1 .. Len(q) : b[q[j]].opts = IF j = k THEN b[p].opts ELSE a[q[j]].opts
    BY <2>2 DEF AnonAt
  <2> HIDE DEF q
  <2>6. k \in 1 .. Len(q)
    BY DEF q
  <2>7. Bare(b, t) = [j \in 1 .. Len(q) |-> IF j = k THEN b[p].opts ELSE a[q[j]].opts]
    BY <2>3, <2>5
  <2>8. [Bare(a, t) EXCEPT ![k] = b[p].opts]
          = [j \in 1 .. Len(q) |-> IF j = k THEN b[p].opts ELSE a[q[j]].opts]
    BY <2>4, <2>6
  <2> QED
    BY <2>7, <2>8
<1>6. View(b) = With(View(a), t, Bare(b, t))
  BY <1>3, <1>4, WithView
<1> QED
  BY <1>5, <1>6

\* The package without the section at a position.
Others(a, p) == {i \in DOMAIN a : a[i].id # a[p].id}
Less(a, p) == Selected(a, Others(a, p))

\* The options of the sections at some places.
OptsAt(a, c) == [k \in 1 .. Len(c) |-> a[c[k]].opts]
\* It has the sections at the places at, which are all but p.
IsLess(b, at, a, p) ==
  /\ WellFormed(b) /\ DOMAIN b = 1 .. Len(at) /\ InOrder(at, DOMAIN a \ {p})
  /\ \A k \in DOMAIN b : at[k] \in DOMAIN a \ {p}
  /\ \A k \in DOMAIN b : b[k] = a[at[k]]
  /\ \A i \in DOMAIN a : i # p => \E k \in DOMAIN b : at[k] = i

\* The package without the section at p is the others, in their order.
LEMMA Dropped ==
  ASSUME NEW a, WellFormed(a), NEW p \in DOMAIN a
  PROVE  IsLess(Less(a, p), Ascending(Len(a), Others(a, p)), a, p)
<1> DEFINE at == Ascending(Len(a), Others(a, p))
           b == Less(a, p)
<1>0. b = Selected(a, Others(a, p))
  BY DEF Less
<1> HIDE DEF b
<1>1. Len(a) \in Nat /\ DOMAIN a = 1 .. Len(a) /\ \A i \in DOMAIN a : a[i].id = a[p].id => i = p
  BY Sections
<1>2. Others(a, p) = DOMAIN a \ {p}
  BY <1>1 DEF Others
<1>3. InOrder(at, (DOMAIN a \ {p}) \cap DOMAIN a)
  BY <1>1, <1>2, SelectedIs
<1>4. InOrder(at, DOMAIN a \ {p})
  <2>1. (DOMAIN a \ {p}) \cap DOMAIN a = DOMAIN a \ {p}
    OBVIOUS
  <2> QED
    BY <1>3, <2>1
<1>5. DOMAIN b = 1 .. Len(at)
  BY <1>0, <1>1, SelectedIs
<1>6. \A k \in 1 .. Len(at) : b[k] = a[at[k]]
  BY <1>0, <1>1, SelectedAt
<1>7. WellFormed(b)
  BY <1>0, DropWell
<1> HIDE DEF at
<1>8. \A k \in DOMAIN b : at[k] \in DOMAIN a \ {p}
  BY <1>4, <1>5 DEF InOrder
<1>9. \A i \in DOMAIN a : i # p => \E k \in DOMAIN b : at[k] = i
  BY <1>4, <1>5 DEF InOrder
<1> QED
  BY <1>4, <1>5, <1>6, <1>7, <1>8, <1>9 DEF at, b, IsLess

\* The places of the anonymous sections in what is left.
LEMMA DroppedPlaces ==
  ASSUME NEW a, WellFormed(a), NEW p \in DOMAIN a, NEW u
  PROVE  \E c : InOrder(c, AnonAt(a, u) \ {p}) /\ Bare(Less(a, p), u) = OptsAt(a, c)
<1> DEFINE at == Ascending(Len(a), Others(a, p))
           b == Less(a, p)
           q == Places(b, u)
           c == [k \in 1 .. Len(q) |-> at[q[k]]]
<1>1. /\ WellFormed(b) /\ DOMAIN b = 1 .. Len(at) /\ InOrder(at, DOMAIN a \ {p})
      /\ \A k \in DOMAIN b : at[k] \in DOMAIN a \ {p}
      /\ \A k \in DOMAIN b : b[k] = a[at[k]]
      /\ \A i \in DOMAIN a : i # p => \E k \in DOMAIN b : at[k] = i
  <2>1. IsLess(b, at, a, p)
    BY Dropped
  <2> HIDE DEF at, b
  <2> QED
    BY <2>1 DEF IsLess
<1> HIDE DEF at, b
<1>2. /\ InOrder(q, AnonAt(b, u)) /\ Len(q) \in Nat
      /\ \A k \in 1 .. Len(q) : q[k] \in AnonAt(b, u) /\ q[k] \in DOMAIN b
  <2>1. /\ InOrder(q, AnonAt(b, u)) /\ Len(q) \in Nat
        /\ \A k \in 1 .. Len(q) : q[k] \in AnonAt(b, u)
    BY <1>1, PlacesInOrder
  <2>2. \A k \in AnonAt(b, u) : k \in DOMAIN b
    BY DEF AnonAt
  <2> QED
    BY <2>1, <2>2
<1>3. Bare(b, u) = [k \in 1 .. Len(q) |-> b[q[k]].opts]
  BY DEF Bare
<1> HIDE DEF q
<1>4. Len(c) = Len(q) /\ c = [k \in 1 .. Len(c) |-> at[q[k]]]
  BY <1>2
<1>5. \A k \in DOMAIN b : k \in AnonAt(b, u) <=> at[k] \in AnonAt(a, u) \ {p}
  BY <1>1 DEF AnonAt
<1>6. \A k \in 1 .. Len(c) : c[k] \in AnonAt(a, u) \ {p}
  BY <1>2, <1>4, <1>5
<1>7. ASSUME NEW i \in 1 .. Len(c), NEW j \in 1 .. Len(c), i < j
      PROVE  c[i] < c[j]
  <2>1. q[i] < q[j] /\ q[i] \in 1 .. Len(at) /\ q[j] \in 1 .. Len(at)
    BY <1>1, <1>2, <1>4, <1>7 DEF InOrder
  <2>2. at[q[i]] < at[q[j]]
    BY <1>1, <2>1 DEF InOrder
  <2> QED
    BY <1>4, <2>2
<1>8. ASSUME NEW m \in AnonAt(a, u) \ {p}
      PROVE  \E i \in 1 .. Len(c) : c[i] = m
  <2>1. PICK k \in DOMAIN b : at[k] = m
    BY <1>1 DEF AnonAt
  <2>2. k \in AnonAt(b, u)
    BY <1>5, <2>1
  <2>3. PICK i \in 1 .. Len(q) : q[i] = k
    BY <1>2, <2>2 DEF InOrder
  <2> QED
    BY <1>4, <2>1, <2>3
<1>9. InOrder(c, AnonAt(a, u) \ {p})
  <2> DEFINE K == AnonAt(a, u) \ {p}
  <2>1. c \in [1 .. Len(c) -> K] /\ Len(c) \in Nat
    BY <1>2, <1>4, <1>6
  <2> HIDE DEF K
  <2> QED
    BY <1>7, <1>8, <2>1 DEF InOrder, K
<1>10. Bare(b, u) = OptsAt(a, c)
  BY <1>1, <1>2, <1>3, <1>4 DEF OptsAt
<1> QED
  BY <1>9, <1>10 DEF b

\* What is left has the sections of other ids.
LEMMA DroppedSections ==
  ASSUME NEW a, WellFormed(a), NEW p \in DOMAIN a
  PROVE  /\ \A i \in DOMAIN a : i # p => \E k \in DOMAIN Less(a, p) : Less(a, p)[k] = a[i]
         /\ \A k \in DOMAIN Less(a, p) : \E i \in DOMAIN a : i # p /\ Less(a, p)[k] = a[i]
<1> DEFINE at == Ascending(Len(a), Others(a, p))
           b == Less(a, p)
<1>1. /\ \A k \in DOMAIN b : at[k] \in DOMAIN a \ {p}
      /\ \A k \in DOMAIN b : b[k] = a[at[k]]
      /\ \A i \in DOMAIN a : i # p => \E k \in DOMAIN b : at[k] = i
  <2>1. IsLess(b, at, a, p)
    BY Dropped
  <2> HIDE DEF at, b
  <2> QED
    BY <2>1 DEF IsLess
<1> HIDE DEF at, b
<1>2. ASSUME NEW i \in DOMAIN a, i # p
      PROVE  \E k \in DOMAIN b : b[k] = a[i]
  BY <1>1, <1>2
<1>3. \A k \in DOMAIN b : \E i \in DOMAIN a : i # p /\ b[k] = a[i]
  BY <1>1
<1> QED
  BY <1>2, <1>3 DEF b

\* One named section less.
LEMMA DropNamed ==
  ASSUME NEW a, WellFormed(a), NEW p \in DOMAIN a, ~ a[p].anon
  PROVE  View(Less(a, p)) = [View(a) EXCEPT !.named = [n \in DOMAIN @ \ {a[p].id} |-> @[n]]]
<1> DEFINE N == [n \in DOMAIN Naming(a) \ {a[p].id} |-> Naming(a)[n]]
           b == Less(a, p)
<1>1. WellFormed(b)
  BY Dropped DEF IsLess
<1>2. /\ \A i \in DOMAIN a : i # p => \E k \in DOMAIN b : b[k] = a[i]
      /\ \A k \in DOMAIN b : \E i \in DOMAIN a : i # p /\ b[k] = a[i]
  BY DroppedSections
<1>7. \A u : \E c : InOrder(c, AnonAt(a, u) \ {p}) /\ Bare(b, u) = OptsAt(a, c)
  BY DroppedPlaces
<1> HIDE DEF b
<1>3. \A u : Bare(b, u) = Bare(a, u)
  <2> SUFFICES ASSUME NEW u
               PROVE  Bare(b, u) = Bare(a, u)
      OBVIOUS
  <2>1. PICK c : InOrder(c, AnonAt(a, u) \ {p}) /\ Bare(b, u) = OptsAt(a, c)
    BY <1>7
  <2>2. AnonAt(a, u) \ {p} = AnonAt(a, u)
    BY DEF AnonAt
  <2>3. c = Places(a, u)
    BY <2>1, <2>2, PlacesInOrder, OrderUnique
  <2> QED
    BY <2>1, <2>3 DEF Bare, OptsAt
<1>4. Naming(b) = N
  <2>1. \A n : n \in DOMAIN Naming(a) <=> \E i \in DOMAIN a : ~ a[i].anon /\ a[i].id = n
    BY ViewParts
  <2>2. \A i \in DOMAIN a : ~ a[i].anon => Naming(a)[a[i].id] = <<a[i].type, a[i].opts>>
    BY ViewParts
  <2>3. \A i \in DOMAIN a : i # p => a[i].id # a[p].id
    BY Sections
  <2>4. ASSUME NEW n
        PROVE  n \in DOMAIN N <=> \E i \in DOMAIN b : ~ b[i].anon /\ b[i].id = n
    <3>1. ASSUME n \in DOMAIN N
          PROVE  \E i \in DOMAIN b : ~ b[i].anon /\ b[i].id = n
      <4>1. n \in DOMAIN Naming(a) /\ n # a[p].id
        BY <3>1
      <4>2. PICK i \in DOMAIN a : ~ a[i].anon /\ a[i].id = n
        BY <2>1, <4>1
      <4>3. PICK k \in DOMAIN b : b[k] = a[i]
        BY <1>2, <4>1, <4>2
      <4> QED
        BY <4>2, <4>3
    <3>2. ASSUME NEW k \in DOMAIN b, ~ b[k].anon, b[k].id = n
          PROVE  n \in DOMAIN N
      <4>1. PICK i \in DOMAIN a : i # p /\ b[k] = a[i]
        BY <1>2
      <4>2. ~ a[i].anon /\ a[i].id = n /\ n # a[p].id
        BY <2>3, <3>2, <4>1
      <4>3. n \in DOMAIN Naming(a)
        BY <2>1, <4>2
      <4> QED
        BY <4>2, <4>3
    <3> HIDE DEF N
    <3> QED
      BY <3>1, <3>2
  <2>5. ASSUME NEW k \in DOMAIN b, ~ b[k].anon
        PROVE  N[b[k].id] = <<b[k].type, b[k].opts>>
    <3>1. PICK i \in DOMAIN a : i # p /\ b[k] = a[i]
      BY <1>2
    <3>2. b[k].id \in DOMAIN N
      <4> HIDE DEF N
      <4> QED
        BY <2>4, <2>5
    <3>3. N[b[k].id] = Naming(a)[b[k].id]
      BY <3>2
    <3> HIDE DEF N
    <3> QED
      BY <2>2, <2>5, <3>1, <3>3
  <2>6. N = [n \in DOMAIN N |-> N[n]]
    OBVIOUS
  <2> HIDE DEF N
  <2> QED
    BY <1>1, <2>4, <2>5, <2>6, NamingIs
<1>5. View(b) = [View(a) EXCEPT !.named = Naming(b)]
  BY <1>1, <1>3, NamedView
<1>6. View(a).named = Naming(a)
  BY DEF Naming
<1> QED
  BY <1>4, <1>5, <1>6 DEF b

\* One anonymous section less.
LEMMA DropBare ==
  ASSUME NEW a, WellFormed(a), NEW t, NEW k \in 1 .. Len(Places(a, t)),
         NEW p, p = Places(a, t)[k]
  PROVE  View(Less(a, p)) = With(View(a), t, RemoveAt(Bare(a, t), k))
<1>0. p \in AnonAt(a, t)
  BY PlacesInOrder
<1>1. p \in DOMAIN a /\ a[p].anon /\ a[p].type = t
  BY <1>0 DEF AnonAt
<1> DEFINE b == Less(a, p)
<1>2. WellFormed(b)
  BY <1>1, Dropped DEF IsLess
<1>3. /\ \A i \in DOMAIN a : i # p => \E j \in DOMAIN b : b[j] = a[i]
      /\ \A j \in DOMAIN b : \E i \in DOMAIN a : i # p /\ b[j] = a[i]
  BY <1>1, DroppedSections
<1>8. \A u : \E c : InOrder(c, AnonAt(a, u) \ {p}) /\ Bare(b, u) = OptsAt(a, c)
  BY <1>1, DroppedPlaces
<1> HIDE DEF b
<1>4. \A u : u # t => Bare(b, u) = Bare(a, u)
  <2> SUFFICES ASSUME NEW u, u # t
               PROVE  Bare(b, u) = Bare(a, u)
      OBVIOUS
  <2>1. PICK c : InOrder(c, AnonAt(a, u) \ {p}) /\ Bare(b, u) = OptsAt(a, c)
    BY <1>8
  <2>2. AnonAt(a, u) \ {p} = AnonAt(a, u)
    BY <1>1 DEF AnonAt
  <2>3. c = Places(a, u)
    BY <2>1, <2>2, PlacesInOrder, OrderUnique
  <2> QED
    BY <2>1, <2>3 DEF Bare, OptsAt
<1>5. Naming(b) = Naming(a)
  <2>1. \A n : n \in DOMAIN Naming(a) <=> \E i \in DOMAIN a : ~ a[i].anon /\ a[i].id = n
    BY ViewParts
  <2>2. \A i \in DOMAIN a : ~ a[i].anon => Naming(a)[a[i].id] = <<a[i].type, a[i].opts>>
    BY ViewParts
  <2>3. ASSUME NEW n
        PROVE  n \in DOMAIN Naming(a) <=> \E i \in DOMAIN b : ~ b[i].anon /\ b[i].id = n
    <3>1. ASSUME n \in DOMAIN Naming(a)
          PROVE  \E i \in DOMAIN b : ~ b[i].anon /\ b[i].id = n
      <4>1. PICK i \in DOMAIN a : ~ a[i].anon /\ a[i].id = n
        BY <2>1, <3>1
      <4>2. PICK j \in DOMAIN b : b[j] = a[i]
        BY <1>1, <1>3, <4>1
      <4> QED
        BY <4>1, <4>2
    <3>2. ASSUME NEW j \in DOMAIN b, ~ b[j].anon, b[j].id = n
          PROVE  n \in DOMAIN Naming(a)
      <4>1. PICK i \in DOMAIN a : i # p /\ b[j] = a[i]
        BY <1>3
      <4> QED
        BY <2>1, <3>2, <4>1
    <3> QED
      BY <3>1, <3>2
  <2>4. ASSUME NEW j \in DOMAIN b, ~ b[j].anon
        PROVE  Naming(a)[b[j].id] = <<b[j].type, b[j].opts>>
    <3>1. PICK i \in DOMAIN a : i # p /\ b[j] = a[i]
      BY <1>3
    <3> QED
      BY <2>2, <2>4, <3>1
  <2>5. Naming(a) = [n \in DOMAIN Naming(a) |-> Naming(a)[n]]
    BY ViewParts
  <2> QED
    BY <1>2, <2>3, <2>4, <2>5, NamingIs
<1>6. Bare(b, t) = RemoveAt(Bare(a, t), k)
  <2> DEFINE q == Places(a, t)
             r == RemoveAt(q, k)
             n == Len(q)
  <2>1. PICK c : InOrder(c, AnonAt(a, t) \ {p}) /\ Bare(b, t) = OptsAt(a, c)
    BY <1>8
  <2>2. InOrder(q, AnonAt(a, t)) /\ AnonAt(a, t) \in SUBSET Int /\ n \in Nat
    BY PlacesInOrder
  <2>3. InOrder(r, AnonAt(a, t) \ {p})
    BY <2>2, DropInOrder
  <2>4. c = r
    <3> HIDE DEF q, r
    <3>1. AnonAt(a, t) \ {p} \in SUBSET Int
      BY <2>2
    <3> QED
      BY <2>1, <2>3, <3>1, OrderUnique
  <2>5. /\ Len(r) = n - 1
        /\ \A j \in 1 .. n - 1 : r[j] = IF j < k THEN q[j] ELSE q[j + 1]
    <3>1. q \in Seq(AnonAt(a, t))
      BY <2>2, InOrderSeq
    <3> QED
      BY <3>1, Removed
  <2> DEFINE B == Bare(a, t)
             T == {B[j] : j \in 1 .. n}
  <2>6. B = [j \in 1 .. n |-> a[q[j]].opts]
    BY DEF Bare
  <2>7. B \in Seq(T) /\ Len(B) = n
    BY <2>2, <2>6
  <2>8. /\ RemoveAt(B, k) \in Seq(T) /\ Len(RemoveAt(B, k)) = n - 1
        /\ \A j \in 1 .. n - 1 : RemoveAt(B, k)[j] = IF j < k THEN B[j] ELSE B[j + 1]
    <3> HIDE DEF T, B
    <3>1. k \in 1 .. Len(B)
      BY <2>7
    <3> QED
      BY <2>7, <3>1, Removed
  <2>9. RemoveAt(B, k) = [j \in 1 .. n - 1 |-> RemoveAt(B, k)[j]]
    <3> HIDE DEF T, B
    <3> QED
      BY <2>2, <2>8
  <2>10. \A j \in 1 .. n - 1 : a[r[j]].opts = RemoveAt(B, k)[j]
    <3> SUFFICES ASSUME NEW j \in 1 .. n - 1
                 PROVE  a[r[j]].opts = RemoveAt(B, k)[j]
        OBVIOUS
    <3>1. j \in 1 .. n /\ j + 1 \in 1 .. n
      BY <2>2
    <3>2. B[j] = a[q[j]].opts /\ B[j + 1] = a[q[j + 1]].opts
      BY <2>6, <3>1
    <3> HIDE DEF B, r, q
    <3> QED
      BY <2>5, <2>8, <3>2
  <2> HIDE DEF r, n, q, B
  <2>11. Bare(b, t) = [j \in 1 .. n - 1 |-> a[r[j]].opts]
    BY <2>1, <2>4, <2>5 DEF OptsAt
  <2> QED
    BY <2>9, <2>10, <2>11 DEF B
<1>7. View(b) = With(View(a), t, Bare(b, t))
  BY <1>2, <1>4, <1>5, WithView
<1> QED
  BY <1>6, <1>7 DEF b

\* What a call makes of the section it is about.
Changed(s, op) ==
  IF s.id # op.id THEN s
  ELSE IF op.op \in {"add", "retype"} THEN [s EXCEPT !.type = op.arg]
  ELSE IF op.op = "set" THEN [s EXCEPT !.opts = Overwrite(@, op.arg)]
  ELSE [s EXCEPT !.opts = [o \in DOMAIN @ \ op.arg |-> @[o]]]

\* The section an adding call adds.
Added(op, newId) ==
  [id |-> IF op.id = "" THEN newId ELSE op.id, type |-> op.arg, anon |-> op.id = "", opts |-> <<>>]

\* What Executed does, by kinds of calls.
LEMMA ExecutedDelete ==
  ASSUME NEW a, NEW op, NEW newId, op.op = "delete"
  PROVE  Executed(a, op, newId) = Selected(a, {i \in DOMAIN a : a[i].id # op.id})
  BY DEF Executed

\* A call for a section that is not there adds it.
LEMMA ExecutedAdd ==
  ASSUME NEW a, NEW op, NEW newId, op.op \in {"add", "retype"}, Find(a, op.id) = <<>>
  PROVE  Executed(a, op, newId) = Append(a, Added(op, newId))
  BY DEF Executed, Added

\* The other calls change the section they are about.
LEMMA ExecutedChange ==
  ASSUME NEW a, NEW op, NEW newId, op.op # "delete",
         op.op \in {"add", "retype"} => Find(a, op.id) # <<>>
  PROVE  Executed(a, op, newId) = [i \in DOMAIN a |-> Changed(a[i], op)]
<1> DEFINE change(s) ==
        IF s.id # op.id THEN s
        ELSE CASE op.op \in {"add", "retype"} -> [s EXCEPT !.type = op.arg]
               [] op.op = "set" -> [s EXCEPT !.opts = Overwrite(@, op.arg)]
               [] OTHER -> [s EXCEPT !.opts = [o \in DOMAIN @ \ op.arg |-> @[o]]]
<1>1. \A s : change(s) = Changed(s, op)
  BY DEF Changed
<1>2. Executed(a, op, newId) = [i \in DOMAIN a |-> change(a[i])]
  BY DEF Executed
<1> HIDE DEF change
<1> QED
  BY <1>1, <1>2

\* A call changes no id, and not which sections are anonymous.
LEMMA ChangedKeeps ==
  ASSUME NEW s, NEW op, DOMAIN s = {"id", "type", "anon", "opts"}
  PROVE  /\ DOMAIN Changed(s, op) = DOMAIN s
         /\ Changed(s, op).id = s.id /\ Changed(s, op).anon = s.anon
  BY DEF Changed

\* Every call keeps a package well formed.
LEMMA ExecutedWell ==
  ASSUME NEW a, WellFormed(a), NEW op, NEW newId,
         newId \in AnonIds, newId # NoId, \A i \in DOMAIN a : a[i].id # newId
  PROVE  WellFormed(Executed(a, op, newId))
<1>1. CASE op.op = "delete"
  <2> DEFINE I == {i \in DOMAIN a : a[i].id # op.id}
  <2>1. Executed(a, op, newId) = Selected(a, I)
    BY <1>1, ExecutedDelete
  <2> HIDE DEF I
  <2> QED
    BY <2>1, DropWell
<1>2. CASE op.op \in {"add", "retype"} /\ Find(a, op.id) = <<>>
  <2> DEFINE x == Added(op, newId)
  <2>1. /\ DOMAIN x = {"id", "type", "anon", "opts"} /\ x.anon \in BOOLEAN
        /\ (x.anon => x.id \in AnonIds) /\ x.id # NoId
    BY DEF Added, NoId
  <2>2. \A i \in DOMAIN a : a[i].id # op.id
    <3>1. \A i \in DOMAIN a : Find(a, a[i].id) # <<>>
      BY Found
    <3> QED
      BY <1>2, <3>1
  <2>3. \A i \in DOMAIN a : a[i].id # x.id
    BY <2>2 DEF Added
  <2>4. Executed(a, op, newId) = Append(a, x)
    BY <1>2, ExecutedAdd
  <2> HIDE DEF x
  <2>5. WellFormed(Append(a, x))
    BY <2>1, <2>3, AppendWell
  <2> QED
    BY <2>4, <2>5
<1>3. CASE op.op # "delete" /\ (op.op \in {"add", "retype"} => Find(a, op.id) # <<>>)
  <2> DEFINE b == [i \in DOMAIN a |-> Changed(a[i], op)]
  <2>1. \A i \in DOMAIN a :
          b[i].id = a[i].id /\ b[i].anon = a[i].anon /\ DOMAIN b[i] = DOMAIN a[i]
    BY Sections, ChangedKeeps
  <2>2. DOMAIN b = DOMAIN a /\ b = [i \in DOMAIN a |-> b[i]]
    OBVIOUS
  <2> HIDE DEF b
  <2>3. WellFormed(b)
    BY <2>1, <2>2, ChangeWell
  <2> QED
    BY <1>3, <2>3, ExecutedChange DEF b
<1> QED
  BY <1>1, <1>2, <1>3

\* A call about the section at p changes that one only.
LEMMA ExecutedAt ==
  ASSUME NEW a, WellFormed(a), NEW op, NEW newId, op.op # "delete",
         NEW p \in DOMAIN a, a[p].id = op.id, NEW b, b = Executed(a, op, newId)
  PROVE  /\ WellFormed(b) /\ DOMAIN b = DOMAIN a
         /\ b[p] = Changed(a[p], op) /\ b[p].id = a[p].id /\ b[p].anon = a[p].anon
         /\ \A i \in DOMAIN a : i # p => b[i] = a[i]
<1>1. Find(a, op.id) # <<>>
  BY Found
<1>2. b = [i \in DOMAIN a |-> Changed(a[i], op)]
  BY <1>1, ExecutedChange
<1>3. \A i \in DOMAIN a :
        b[i].id = a[i].id /\ b[i].anon = a[i].anon /\ DOMAIN b[i] = DOMAIN a[i]
  BY <1>2, Sections, ChangedKeeps
<1>4. DOMAIN b = DOMAIN a /\ b = [i \in DOMAIN a |-> b[i]]
  BY <1>2
<1>5. WellFormed(b)
  BY <1>3, <1>4, ChangeWell
<1>6. \A i \in DOMAIN a : i # p => b[i] = a[i]
  BY <1>2, Sections DEF Changed
<1> QED
  BY <1>2, <1>3, <1>4, <1>5, <1>6

-----------------------------------------------------------------------------
(* What a line does to a package, and what it means. *)

\* What the reference sees of the anonymous sections of a type.
LEMMA BareOfIs ==
  ASSUME NEW a, WellFormed(a), NEW t
  PROVE  BareOf(View(a), t) = Bare(a, t)
  BY ViewFields DEF BareOf

\* The fields of a call.
LEMMA OpFields ==
  ASSUME NEW verb, NEW id, NEW arg
  PROVE  Op(verb, id, arg).op = verb /\ Op(verb, id, arg).id = id /\ Op(verb, id, arg).arg = arg
  BY DEF Op

\* A call with no id adds an anonymous section, the last of its type.
LEMMA AddMeans ==
  ASSUME NEW a, WellFormed(a), NEW t, NEW newId,
         newId \in AnonIds, newId # NoId, \A i \in DOMAIN a : a[i].id # newId
  PROVE  View(Executed(a, Op("add", NoId, t), newId)) = With(View(a), t, Append(BareOf(View(a), t), <<>>))
<1> DEFINE op == Op("add", NoId, t)
           x == Added(op, newId)
<1>1. op.op = "add" /\ op.id = NoId /\ op.arg = t
  BY DEF Op
<1>2. Find(a, op.id) = <<>>
  <2>1. \A i \in DOMAIN a : a[i].id # NoId
    BY Sections
  <2> QED
    BY <1>1, <2>1, Found
<1>3. Executed(a, op, newId) = Append(a, x)
  BY <1>1, <1>2, ExecutedAdd
<1>4. WellFormed(Executed(a, op, newId))
  BY ExecutedWell
<1>5. x.anon /\ x.type = t /\ x.opts = <<>>
  BY <1>1 DEF Added, NoId
<1> HIDE DEF x, op
<1>6. View(Append(a, x)) = With(View(a), t, Append(Bare(a, t), <<>>))
  BY <1>3, <1>4, <1>5, AppendBare
<1> QED
  BY <1>3, <1>6, BareOfIs DEF op

\* The section a name in an address means.
LEMMA NameMeans ==
  ASSUME NEW a, WellFormed(a), NEW name, IsName(name)
  PROVE  /\ \A i \in DOMAIN a : a[i].id = name => ~ a[i].anon
         /\ Find(a, name) = <<>> <=> name \notin DOMAIN View(a).named
         /\ Find(a, name) # <<>> =>
              /\ \E i \in DOMAIN a : a[i].id = name
              /\ \A i \in DOMAIN a : a[i].id = name =>
                   Find(a, name) = <<a[i]>> /\ View(a).named[name] = <<a[i].type, a[i].opts>>
<1>1. \A i \in DOMAIN a : a[i].id = name => ~ a[i].anon
  BY Sections DEF IsName
<1>2. /\ \A i \in DOMAIN a : Find(a, a[i].id) = <<a[i]>>
      /\ \A id : Find(a, id) # <<>> => \E i \in DOMAIN a : a[i].id = id
  BY Found
<1>3. /\ \A n : n \in DOMAIN View(a).named <=> \E i \in DOMAIN a : ~ a[i].anon /\ a[i].id = n
      /\ \A i \in DOMAIN a :
              ~ a[i].anon => View(a).named[a[i].id] = <<a[i].type, a[i].opts>>
  BY ViewParts DEF Naming
<1>4. Find(a, name) = <<>> <=> name \notin DOMAIN View(a).named
  <2>1. ASSUME NEW i \in DOMAIN a, a[i].id = name
        PROVE  Find(a, name) # <<>> /\ name \in DOMAIN View(a).named
    BY <1>1, <1>2, <1>3, <2>1
  <2> QED
    BY <1>2, <1>3, <2>1
<1> QED
  BY <1>1, <1>2, <1>3, <1>4

\* A view with another named section, and with what it says of a name changed.
NamedToo(v, name, x) ==
  [v EXCEPT !.named = [n \in DOMAIN @ \cup {name} |-> IF n = name THEN x ELSE @[n]]]
NamedNow(v, name, x) == [v EXCEPT !.named[name] = x]

\* A named section is added.
LEMMA AddNameMeans ==
  ASSUME NEW a, WellFormed(a), NEW t, NEW name, IsName(name), Find(a, name) = <<>>, NEW newId,
         newId \in AnonIds, newId # NoId, \A i \in DOMAIN a : a[i].id # newId
  PROVE  View(Executed(a, Op("add", name, t), newId)) = NamedToo(View(a), name, <<t, <<>>>>)
<1> DEFINE op == Op("add", name, t)
           x == Added(op, newId)
<1>1. op.op = "add" /\ op.id = name /\ op.arg = t
  BY DEF Op
<1>3. Executed(a, op, newId) = Append(a, x)
  BY <1>1, ExecutedAdd
<1>4. WellFormed(Executed(a, op, newId))
  BY ExecutedWell
<1>5. ~ x.anon /\ x.id = name /\ x.type = t /\ x.opts = <<>>
  BY <1>1 DEF Added, NoId, IsName
<1> HIDE DEF x, op
<1>6. View(Append(a, x))
           = [View(a) EXCEPT !.named = [n \in DOMAIN @ \cup {x.id} |->
                                          IF n = x.id THEN <<x.type, x.opts>> ELSE @[n]]]
  BY <1>3, <1>4, <1>5, AppendNamed
<1> QED
  BY <1>3, <1>5, <1>6 DEF op, NamedToo

\* A section is given a type.
LEMMA RetypeMeans ==
  ASSUME NEW a, WellFormed(a), NEW t, NEW p \in DOMAIN a, IsName(a[p].id), NEW newId
  PROVE  View(Executed(a, Op("retype", a[p].id, t), newId)) = NamedNow(View(a), a[p].id, <<t, a[p].opts>>)
<1> DEFINE op == Op("retype", a[p].id, t)
           b == Executed(a, op, newId)
<1>1. op.op = "retype" /\ op.id = a[p].id /\ op.arg = t
  BY DEF Op
<1> HIDE DEF op
<1>2. /\ WellFormed(b) /\ DOMAIN b = DOMAIN a
      /\ b[p] = Changed(a[p], op) /\ b[p].id = a[p].id /\ b[p].anon = a[p].anon
      /\ \A i \in DOMAIN a : i # p => b[i] = a[i]
  BY <1>1, ExecutedAt
<1> HIDE DEF b
<1>3. ~ a[p].anon
  BY NameMeans
<1>4. b[p].type = t /\ b[p].opts = a[p].opts
  <2>1. DOMAIN a[p] = {"id", "type", "anon", "opts"}
    BY Sections
  <2>2. b[p] = [a[p] EXCEPT !.type = t]
    BY <1>1, <1>2 DEF Changed
  <2> QED
    BY <2>1, <2>2
<1>5. View(b) = [View(a) EXCEPT !.named[a[p].id] = <<b[p].type, b[p].opts>>]
  BY <1>2, <1>3, ChangeNamed
<1> QED
  BY <1>4, <1>5 DEF b, op, NamedNow

\* What a section line means.
SectionMeant(v, name, t) ==
  LET opts == IF name \in DOMAIN v.named THEN v.named[name][2] ELSE <<>>
  IN  [v EXCEPT !.named = [n \in DOMAIN @ \cup {name} |-> IF n = name THEN <<t, opts>> ELSE @[n]]]

\* A view is a record of two functions.
LEMMA ViewRecord ==
  ASSUME NEW a, WellFormed(a)
  PROVE  /\ View(a) = [named |-> View(a).named, anon |-> View(a).anon]
         /\ View(a).named = [n \in DOMAIN View(a).named |-> View(a).named[n]]
<1>1. View(a).named = Naming(a)
  BY DEF Naming
<1>2. View(a) = [named |-> Naming(a), anon |-> View(a).anon]
  BY ViewFields
<1>3. Naming(a) = [n \in DOMAIN Naming(a) |-> Naming(a)[n]]
  BY ViewParts
<1> QED
  BY <1>1, <1>2, <1>3

\* A line that gives a named section its type: the section is added, or changed.
LEMMA SectionLine ==
  ASSUME NEW a, WellFormed(a), NEW t, NEW name, IsName(name), NEW newId,
         newId \in AnonIds, newId # NoId, \A i \in DOMAIN a : a[i].id # newId
  PROVE  LET calls == CreateOrRetype(a, name, t)
         IN  SectionMeant(View(a), name, t)
               = IF calls = <<>> THEN View(a) ELSE View(Executed(a, Head(calls), newId))
<1> DEFINE N == View(a).named
           A == View(a).anon
<1>1. View(a) = [named |-> N, anon |-> A] /\ N = [n \in DOMAIN N |-> N[n]]
  BY ViewRecord
<1>2. CASE Find(a, name) = <<>>
  <2>1. CreateOrRetype(a, name, t) = <<Op("add", name, t)>>
    BY <1>2 DEF CreateOrRetype
  <2>2. View(Executed(a, Op("add", name, t), newId)) = NamedToo(View(a), name, <<t, <<>>>>)
    BY <1>2, AddNameMeans
  <2>3. name \notin DOMAIN N
    BY <1>2, NameMeans
  <2>4. SectionMeant(View(a), name, t) = NamedToo(View(a), name, <<t, <<>>>>)
    BY <2>3 DEF SectionMeant, NamedToo
  <2> QED
    BY <2>1, <2>2, <2>4
<1>3. CASE Find(a, name) # <<>>
  <2>1. PICK p \in DOMAIN a : a[p].id = name
    BY <1>3, NameMeans
  <2>2. Find(a, name) = <<a[p]>> /\ N[name] = <<a[p].type, a[p].opts>> /\ name \in DOMAIN N
    BY <1>3, <2>1, NameMeans
  <2> HIDE DEF N, A
  <2>3. SectionMeant(View(a), name, t) = NamedNow(View(a), name, <<t, a[p].opts>>)
    <3>1. DOMAIN N \cup {name} = DOMAIN N /\ N[name][2] = a[p].opts
      BY <2>2
    <3>2. [n \in DOMAIN N \cup {name} |-> IF n = name THEN <<t, a[p].opts>> ELSE N[n]]
            = [N EXCEPT ![name] = <<t, a[p].opts>>]
      BY <1>1, <3>1
    <3>3. View(a).named = N
      BY DEF N
    <3> QED
      BY <2>2, <3>1, <3>2, <3>3 DEF SectionMeant, NamedNow
  <2>4. CASE a[p].type = t
    <3>1. CreateOrRetype(a, name, t) = <<>>
      BY <2>2, <2>4 DEF CreateOrRetype
    <3>2. [N EXCEPT ![name] = <<t, a[p].opts>>] = N
      BY <1>1, <2>2, <2>4
    <3>3. NamedNow(View(a), name, <<t, a[p].opts>>) = View(a)
      BY <1>1, <3>2 DEF NamedNow
    <3> QED
      BY <2>3, <3>1, <3>3
  <2>5. CASE a[p].type # t
    <3>1. CreateOrRetype(a, name, t) = <<Op("retype", name, t)>>
      BY <2>2, <2>5 DEF CreateOrRetype
    <3>2. View(Executed(a, Op("retype", name, t), newId)) = NamedNow(View(a), name, <<t, a[p].opts>>)
      BY <2>1, RetypeMeans
    <3> QED
      BY <2>3, <3>1, <3>2
  <2> QED
    BY <2>4, <2>5
<1> QED
  BY <1>2, <1>3

\* A named section is deleted.
LEMMA DeleteNameMeans ==
  ASSUME NEW a, WellFormed(a), NEW name, IsName(name), Find(a, name) # <<>>, NEW newId, NEW arg
  PROVE  View(Executed(a, Op("delete", name, arg), newId))
           = [View(a) EXCEPT !.named = [n \in DOMAIN @ \ {name} |-> @[n]]]
<1>1. PICK p \in DOMAIN a : a[p].id = name
  BY NameMeans
<1>2. ~ a[p].anon
  BY <1>1, NameMeans
<1>3. Executed(a, Op("delete", name, arg), newId) = Less(a, p)
  BY <1>1, ExecutedDelete DEF Op, Less, Others
<1> QED
  BY <1>1, <1>2, <1>3, DropNamed

\* An anonymous section is deleted.
LEMMA DeletePlaceMeans ==
  ASSUME NEW a, WellFormed(a), NEW t, NEW k \in 1 .. Len(Places(a, t)), NEW newId, NEW arg
  PROVE  View(Executed(a, Op("delete", a[Places(a, t)[k]].id, arg), newId))
           = With(View(a), t, RemoveAt(BareOf(View(a), t), k))
<1> DEFINE p == Places(a, t)[k]
<1>1. Executed(a, Op("delete", a[p].id, arg), newId) = Less(a, p)
  BY ExecutedDelete DEF Op, Less, Others
<1>2. View(Less(a, p)) = With(View(a), t, RemoveAt(Bare(a, t), k))
  BY DropBare
<1> QED
  BY <1>1, <1>2, BareOfIs

\* A call changes the options of its section as a line says.
DoesMean(a, op, line) ==
  \A i \in DOMAIN a : a[i].id = op.id =>
    Changed(a[i], op) = [a[i] EXCEPT !.opts = NewOpts(a[i].opts, line)]

\* The options of one section are changed.
LEMMA OptionNameMeans ==
  ASSUME NEW a, WellFormed(a), NEW name, IsName(name), Find(a, name) # <<>>, NEW newId,
         NEW op, op.op \in {"set", "unset"}, op.id = name, NEW line,
         DoesMean(a, op, line)
  PROVE  View(Executed(a, op, newId)) = [View(a) EXCEPT !.named[name] = <<@[1], NewOpts(@[2], line)>>]
<1>1. PICK p \in DOMAIN a : a[p].id = name
  BY NameMeans
<1>2. ~ a[p].anon /\ View(a).named[name] = <<a[p].type, a[p].opts>>
  BY <1>1, NameMeans
<1> DEFINE b == Executed(a, op, newId)
<1>3. /\ WellFormed(b) /\ DOMAIN b = DOMAIN a
      /\ b[p] = Changed(a[p], op) /\ b[p].id = a[p].id /\ b[p].anon = a[p].anon
      /\ \A i \in DOMAIN a : i # p => b[i] = a[i]
  BY <1>1, ExecutedAt
<1> HIDE DEF b
<1>4. b[p].type = a[p].type /\ b[p].opts = NewOpts(a[p].opts, line)
  <2>1. DOMAIN a[p] = {"id", "type", "anon", "opts"}
    BY Sections
  <2>2. b[p] = [a[p] EXCEPT !.opts = NewOpts(a[p].opts, line)]
    BY <1>1, <1>3, <2>1 DEF DoesMean
  <2> QED
    BY <2>1, <2>2
<1>5. View(b) = [View(a) EXCEPT !.named[a[p].id] = <<b[p].type, b[p].opts>>]
  BY <1>2, <1>3, ChangeNamed
<1> QED
  BY <1>1, <1>2, <1>4, <1>5 DEF b

\* The same for an anonymous section, in its place.
LEMMA OptionPlaceMeans ==
  ASSUME NEW a, WellFormed(a), NEW t, NEW k \in 1 .. Len(Places(a, t)), NEW newId,
         NEW op, op.op \in {"set", "unset"}, op.id = a[Places(a, t)[k]].id, NEW line,
         DoesMean(a, op, line)
  PROVE  View(Executed(a, op, newId))
           = With(View(a), t, [BareOf(View(a), t) EXCEPT ![k] = NewOpts(@, line)])
<1>0. Places(a, t)[k] \in AnonAt(a, t)
  BY PlacesInOrder
<1>1. PICK p \in DOMAIN a :
        /\ p = Places(a, t)[k] /\ a[p].anon /\ a[p].type = t
        /\ op.id = a[p].id /\ Bare(a, t)[k] = a[p].opts
  BY <1>0 DEF AnonAt, Bare
<1> DEFINE b == Executed(a, op, newId)
<1>2. /\ WellFormed(b) /\ DOMAIN b = DOMAIN a
      /\ b[p] = Changed(a[p], op) /\ b[p].id = a[p].id /\ b[p].anon = a[p].anon
      /\ \A i \in DOMAIN a : i # p => b[i] = a[i]
  <2>1. op.op # "delete" /\ a[p].id = op.id /\ p \in DOMAIN a
    BY <1>1
  <2> QED
    BY <2>1, ExecutedAt
<1> HIDE DEF b
<1>3. b[p].anon /\ b[p].type = t /\ b[p].opts = NewOpts(a[p].opts, line)
  <2>1. DOMAIN a[p] = {"id", "type", "anon", "opts"}
    BY <1>1, Sections
  <2>2. b[p] = [a[p] EXCEPT !.opts = NewOpts(a[p].opts, line)]
    BY <1>1, <1>2, <2>1 DEF DoesMean
  <2> QED
    BY <1>1, <1>2, <2>1, <2>2
<1>4. View(b) = With(View(a), t, [Bare(a, t) EXCEPT ![k] = b[p].opts])
  BY <1>1, <1>2, <1>3, ChangeBare
<1> QED
  BY <1>1, <1>3, <1>4, BareOfIs DEF b

\* An address is a position.
Placed(at) == at.type # ""

\* The section that a position means.
LEMMA Resolved ==
  ASSUME NEW a, WellFormed(a), NEW at, Placed(at), at.index \in Int, NEW id, Resolve(a, at) = <<id>>
  PROVE  \E k \in 1 .. Len(Places(a, at.type)) :
           /\ k = Place(BareOf(View(a), at.type), at.index)
           /\ id = a[Places(a, at.type)[k]].id
           /\ Places(a, at.type)[k] \in DOMAIN a
<1> DEFINE t == at.type
           ids == AnonymousIDs(a, t)
           m == Len(Places(a, t))
           n == IF at.index < 0 THEN Len(ids) + at.index ELSE at.index
<1>1. ids = [i \in 1 .. m |-> Anonymous(a, t)[i].id]
  BY AnonymousIs DEF AnonymousIDs
<1>2. m \in Nat
  BY PlacesInOrder
<1>3. Len(ids) = m /\ DOMAIN ids = 1 .. m
  <2> HIDE DEF ids, m
  <2> QED
    BY <1>1, <1>2
<1>4. \A k \in 1 .. m : ids[k] = a[Places(a, t)[k]].id
  BY <1>1, AnonymousIs
<1>5. BareOf(View(a), t) = Bare(a, t) /\ Len(Bare(a, t)) = m
  BY BareOfIs, BareEmpty
<1>6. n \in 0 .. Len(ids) - 1 /\ Resolve(a, at) = <<ids[n + 1]>>
  <2>1. Resolve(a, at) = IF n \in 0 .. Len(ids) - 1 THEN <<ids[n + 1]>> ELSE <<>>
    BY DEF Resolve, Placed
  <2> HIDE DEF ids, n
  <2> QED
    BY <2>1
<1>7. n + 1 = Place(BareOf(View(a), t), at.index)
  <2> HIDE DEF ids, m
  <2> QED
    BY <1>3, <1>5 DEF Place
<1>9. n \in 0 .. m - 1
  BY <1>3, <1>6
<1> HIDE DEF ids, m, n
<1>8. n + 1 \in 1 .. m
  BY <1>2, <1>9
<1>10. Places(a, t)[n + 1] \in DOMAIN a
  <2>1. Places(a, t)[n + 1] \in AnonAt(a, t)
    BY <1>8, PlacesInOrder DEF m
  <2> QED
    BY <2>1 DEF AnonAt
<1>11. id = a[Places(a, t)[n + 1]].id
  BY <1>4, <1>6, <1>8
<1> QED
  BY <1>7, <1>8, <1>10, <1>11 DEF m

\* The call of a line about an option does what the line says.
LEMMA OptionCall ==
  ASSUME NEW a, WellFormed(a), NEW p \in DOMAIN a, NEW line, Parsed(line),
         line.verb \in {"set", "delete", "add_list", "del_list"}, line.opt # ""
  PROVE  \E op : /\ LineCalls(a, line, a[p].id) = <<op>>
                 /\ op.op \in {"set", "unset"} /\ op.id = a[p].id
                 /\ DoesMean(a, op, line)
<1> DEFINE opts == a[p].opts
           opt == line.opt
           old == IF opt \in DOMAIN opts THEN opts[opt] ELSE <<>>
           Puts(op, new) == op = Op("set", a[p].id, [o \in {opt} |-> new])
           Takes(op) == op = Op("unset", a[p].id, {opt})
<1>1. DOMAIN a[p] = {"id", "type", "anon", "opts"} /\ \A i \in DOMAIN a : a[i].id = a[p].id => i = p
  BY Sections
<1>2. ListOf(a, a[p].id, opt) = old
  <2> DEFINE sec == Find(a, a[p].id)
  <2>1. sec = <<a[p]>>
    BY Found
  <2> HIDE DEF sec
  <2>2. sec # <<>> /\ sec[1] = a[p]
    BY <2>1
  <2> QED
    BY <2>2 DEF ListOf, sec
<1>3. ASSUME NEW op, NEW new, Puts(op, new), new # <<>>,
             NewOpts(opts, line) = [o \in DOMAIN opts \cup {opt} |-> IF o = opt THEN new ELSE opts[o]]
      PROVE  op.op \in {"set", "unset"} /\ op.id = a[p].id /\ DoesMean(a, op, line)
  <2>1. op.op = "set" /\ op.id = a[p].id /\ op.arg = [o \in {opt} |-> new]
    BY <1>3 DEF Op
  <2>2. Overwrite(opts, op.arg) = [o \in DOMAIN opts \cup {opt} |-> IF o = opt THEN new ELSE opts[o]]
    BY <2>1 DEF Overwrite
  <2>3. Changed(a[p], op) = [a[p] EXCEPT !.opts = NewOpts(opts, line)]
    BY <1>3, <2>1, <2>2 DEF Changed
  <2> QED
    BY <1>1, <2>1, <2>3 DEF DoesMean
<1>4. ASSUME NEW op, Takes(op),
             NewOpts(opts, line) = [o \in DOMAIN opts \ {opt} |-> opts[o]]
      PROVE  op.op \in {"set", "unset"} /\ op.id = a[p].id /\ DoesMean(a, op, line)
  <2>1. op.op = "unset" /\ op.id = a[p].id /\ op.arg = {opt}
    BY <1>4 DEF Op
  <2>2. Changed(a[p], op) = [a[p] EXCEPT !.opts = [o \in DOMAIN opts \ {opt} |-> opts[o]]]
    BY <2>1 DEF Changed
  <2> QED
    BY <1>1, <1>4, <2>1, <2>2 DEF DoesMean
<1>5. ASSUME NEW new,
             NewOpts(opts, line)
               = [o \in (DOMAIN opts \cup {opt}) \ {x \in {opt} : new = <<>>} |->
                    IF o = opt THEN new ELSE opts[o]]
      PROVE  /\ new # <<>> => NewOpts(opts, line)
                                = [o \in DOMAIN opts \cup {opt} |-> IF o = opt THEN new ELSE opts[o]]
             /\ new = <<>> => NewOpts(opts, line) = [o \in DOMAIN opts \ {opt} |-> opts[o]]
  <2>1. CASE new # <<>>
    <3>1. (DOMAIN opts \cup {opt}) \ {x \in {opt} : new = <<>>} = DOMAIN opts \cup {opt}
      BY <2>1
    <3> QED
      BY <1>5, <2>1, <3>1
  <2>2. CASE new = <<>>
    <3>1. (DOMAIN opts \cup {opt}) \ {x \in {opt} : new = <<>>} = DOMAIN opts \ {opt}
      BY <2>2
    <3> QED
      BY <1>5, <2>2, <3>1
  <2> QED
    BY <2>1, <2>2
<1>6. ASSUME NEW new, LineCalls(a, line, a[p].id) = WriteList(a[p].id, opt, new),
             NewOpts(opts, line)
               = [o \in (DOMAIN opts \cup {opt}) \ {x \in {opt} : new = <<>>} |->
                    IF o = opt THEN new ELSE opts[o]]
      PROVE  \E op : /\ LineCalls(a, line, a[p].id) = <<op>>
                     /\ op.op \in {"set", "unset"} /\ op.id = a[p].id
                     /\ DoesMean(a, op, line)
  <2>1. CASE new = <<>>
    <3> DEFINE op == Op("unset", a[p].id, {opt})
    <3>1. LineCalls(a, line, a[p].id) = <<op>>
      BY <1>6, <2>1 DEF WriteList
    <3>2. NewOpts(opts, line) = [o \in DOMAIN opts \ {opt} |-> opts[o]]
      BY <1>5, <1>6, <2>1
    <3> QED
      BY <1>4, <3>1, <3>2
  <2>2. CASE new # <<>>
    <3> DEFINE op == Op("set", a[p].id, [o \in {opt} |-> new])
    <3>1. LineCalls(a, line, a[p].id) = <<op>>
      BY <1>6, <2>2 DEF WriteList, SetOption
    <3>2. NewOpts(opts, line) = [o \in DOMAIN opts \cup {opt} |-> IF o = opt THEN new ELSE opts[o]]
      BY <1>5, <1>6, <2>2
    <3> QED
      BY <1>3, <2>2, <3>1, <3>2
  <2> QED
    BY <2>1, <2>2
<1>7. CASE line.verb = "set"
  <2>1. LineCalls(a, line, a[p].id) = WriteList(a[p].id, opt, line.arg)
    BY <1>7 DEF LineCalls, WriteList, Parsed
  <2>2. NewOpts(opts, line)
               = [o \in (DOMAIN opts \cup {opt}) \ {x \in {opt} : line.arg = <<>>} |->
                    IF o = opt THEN line.arg ELSE opts[o]]
    BY <1>7 DEF NewOpts
  <2> QED
    BY <1>6, <2>1, <2>2
<1>8. CASE line.verb = "delete"
  <2>1. LineCalls(a, line, a[p].id) = WriteList(a[p].id, opt, <<>>)
    BY <1>8 DEF LineCalls, WriteList
  <2>2. NewOpts(opts, line)
               = [o \in (DOMAIN opts \cup {opt}) \ {x \in {opt} : <<>> = <<>>} |->
                    IF o = opt THEN <<>> ELSE opts[o]]
    BY <1>8 DEF NewOpts
  <2> QED
    BY <1>6, <2>1, <2>2
<1>9. CASE line.verb = "add_list"
  <2>1. LineCalls(a, line, a[p].id) = WriteList(a[p].id, opt, old \o line.arg)
    BY <1>2, <1>9 DEF LineCalls
  <2>2. NewOpts(opts, line)
               = [o \in (DOMAIN opts \cup {opt}) \ {x \in {opt} : old \o line.arg = <<>>} |->
                    IF o = opt THEN old \o line.arg ELSE opts[o]]
    BY <1>9 DEF NewOpts
  <2> QED
    BY <1>6, <2>1, <2>2
<1>10. CASE line.verb = "del_list"
  <2>1. LineCalls(a, line, a[p].id) = WriteList(a[p].id, opt, Without(old, line.arg))
    BY <1>2, <1>10 DEF LineCalls
  <2>2. NewOpts(opts, line)
               = [o \in (DOMAIN opts \cup {opt}) \ {x \in {opt} : Without(old, line.arg) = <<>>} |->
                    IF o = opt THEN Without(old, line.arg) ELSE opts[o]]
    BY <1>10 DEF NewOpts
  <2> QED
    BY <1>6, <2>1, <2>2
<1> QED
  BY <1>7, <1>8, <1>9, <1>10

\* A line is about an option, or about a section.
OfOption(line) == line.opt # ""

\* The calls of a line whose address means the section id.
CallsOf(a, line, id) ==
  IF line.verb = "add" THEN <<Op("add", "", line.arg)>> ELSE LineCalls(a, line, id)

\* A new id is one that no section of the package has.
IsNew(a, newId) == newId \in AnonIds /\ newId # NoId /\ \A i \in DOMAIN a : a[i].id # newId

\* A line about an option has one call, to set or to unset it.
LEMMA AnOption ==
  ASSUME NEW a, NEW line, OfOption(line), NEW id,
         line.verb \in {"set", "delete", "add_list", "del_list"}
  PROVE  \E op : LineCalls(a, line, id) = <<op>> /\ op.op \in {"set", "unset"} /\ op.id = id
<1>1. ASSUME NEW list
      PROVE  \E op : WriteList(id, line.opt, list) = <<op>> /\ op.op \in {"set", "unset"} /\ op.id = id
  BY OpFields DEF WriteList, SetOption
<1>2. ASSUME NEW value
      PROVE  \E op : SetOption(id, line.opt, value) = <<op>> /\ op.op \in {"set", "unset"} /\ op.id = id
  BY OpFields DEF SetOption
<1>3. CASE line.verb = "set"
  <2>1. LineCalls(a, line, id) = SetOption(id, line.opt, line.arg)
    BY <1>3 DEF LineCalls, OfOption
  <2> QED
    BY <1>2, <2>1
<1>4. CASE line.verb = "delete"
  <2>1. LineCalls(a, line, id) = <<Op("unset", id, {line.opt})>>
    BY <1>4 DEF LineCalls, OfOption
  <2> QED
    BY <2>1, OpFields
<1>5. CASE line.verb = "add_list"
  <2>1. LineCalls(a, line, id) = WriteList(id, line.opt, ListOf(a, id, line.opt) \o line.arg)
    BY <1>5 DEF LineCalls
  <2> QED
    BY <1>1, <2>1
<1>6. CASE line.verb = "del_list"
  <2>1. LineCalls(a, line, id) = WriteList(id, line.opt, Without(ListOf(a, id, line.opt), line.arg))
    BY <1>6 DEF LineCalls
  <2> QED
    BY <1>1, <2>1
<1> QED
  BY <1>3, <1>4, <1>5, <1>6

\* A line about an option: at a name, and at a position.
LEMMA OptionLineAtName ==
  ASSUME NEW a, WellFormed(a), NEW line, Parsed(line), Addressed(line),
         line.verb \in {"set", "delete", "add_list", "del_list"}, OfOption(line), ~ Placed(line.at),
         NEW newId, Executable(a, Head(LineCalls(a, line, line.at.name)))
  PROVE  /\ LineCalls(a, line, line.at.name) # <<>>
         /\ View(Executed(a, Head(LineCalls(a, line, line.at.name)), newId)) = Meaning(View(a), line)
<1> DEFINE name == line.at.name
           calls == LineCalls(a, line, name)
<1>1. IsName(name)
  BY DEF Addressed, Placed, Reading, Adding
<1>2. \E op : calls = <<op>> /\ op.op \in {"set", "unset"} /\ op.id = name
  BY AnOption
<1>2a. calls # <<>> /\ Head(calls).op \in {"set", "unset"} /\ Head(calls).id = name
  <2> HIDE DEF calls
  <2> QED
    BY <1>2
<1>3. Find(a, name) # <<>>
  BY <1>2a DEF Executable
<1>4. PICK p \in DOMAIN a : a[p].id = name
  BY <1>1, <1>3, NameMeans
<1>5. PICK op : /\ LineCalls(a, line, a[p].id) = <<op>>
                /\ op.op \in {"set", "unset"} /\ op.id = a[p].id
                /\ DoesMean(a, op, line)
  BY OptionCall DEF OfOption
<1>6. Head(calls) = op
  BY <1>4, <1>5
<1>7. View(Executed(a, op, newId)) = [View(a) EXCEPT !.named[name] = <<@[1], NewOpts(@[2], line)>>]
  BY <1>1, <1>3, <1>4, <1>5, OptionNameMeans
<1>8. Meaning(View(a), line) = [View(a) EXCEPT !.named[name] = <<@[1], NewOpts(@[2], line)>>]
  BY DEF Meaning, OfOption, Placed
<1> QED
  BY <1>2a, <1>6, <1>7, <1>8

\* The same for a line that addresses a section by its position.
LEMMA OptionLineAtPlace ==
  ASSUME NEW a, WellFormed(a), NEW line, Parsed(line),
         line.verb \in {"set", "delete", "add_list", "del_list"}, OfOption(line), Placed(line.at),
         NEW id, Resolve(a, line.at) = <<id>>, NEW newId
  PROVE  /\ LineCalls(a, line, id) # <<>>
         /\ View(Executed(a, Head(LineCalls(a, line, id)), newId)) = Meaning(View(a), line)
<1> DEFINE t == line.at.type
           calls == LineCalls(a, line, id)
<1>1. PICK k \in 1 .. Len(Places(a, t)) :
           /\ k = Place(BareOf(View(a), t), line.at.index)
           /\ id = a[Places(a, t)[k]].id
           /\ Places(a, t)[k] \in DOMAIN a
  <2>1. line.at.index \in Int
    BY DEF Parsed
  <2> QED
    BY <2>1, Resolved
<1>2. id = a[Places(a, t)[k]].id /\ Places(a, t)[k] \in DOMAIN a
  BY <1>1
<1>5. PICK op : /\ LineCalls(a, line, id) = <<op>>
                /\ op.op \in {"set", "unset"} /\ op.id = id
                /\ DoesMean(a, op, line)
  BY <1>2, OptionCall DEF OfOption
<1>7. View(Executed(a, op, newId)) = With(View(a), t, [BareOf(View(a), t) EXCEPT ![k] = NewOpts(@, line)])
  BY <1>2, <1>5, OptionPlaceMeans
<1>8. Meaning(View(a), line) = With(View(a), t, [BareOf(View(a), t) EXCEPT ![k] = NewOpts(@, line)])
  BY <1>1 DEF Meaning, OfOption, Placed
<1> QED
  BY <1>5, <1>7, <1>8

\* A line about a section: delete, at a name and at a position, and set.
LEMMA DeleteLine ==
  ASSUME NEW a, WellFormed(a), NEW line, Parsed(line), Addressed(line),
         line.verb = "delete", ~ OfOption(line),
         NEW id, Resolve(a, line.at) = <<id>>, NEW newId,
         Executable(a, Head(LineCalls(a, line, id)))
  PROVE  /\ LineCalls(a, line, id) # <<>>
         /\ View(Executed(a, Head(LineCalls(a, line, id)), newId)) = Meaning(View(a), line)
<1> DEFINE t == line.at.type
           op == Op("delete", id, NoId)
<1>1. LineCalls(a, line, id) = <<op>>
  BY DEF LineCalls, OfOption, NoId
<1>4. op.op = "delete" /\ op.id = id
  BY OpFields
<1>2. CASE Placed(line.at)
  <2>1. PICK k \in 1 .. Len(Places(a, t)) :
           /\ k = Place(BareOf(View(a), t), line.at.index)
           /\ id = a[Places(a, t)[k]].id
           /\ Places(a, t)[k] \in DOMAIN a
    <3>1. line.at.index \in Int
      BY DEF Parsed
    <3> QED
      BY <1>2, <3>1, Resolved
  <2>3. View(Executed(a, op, newId)) = With(View(a), t, RemoveAt(BareOf(View(a), t), k))
    BY <2>1, DeletePlaceMeans
  <2>4. Meaning(View(a), line) = With(View(a), t, RemoveAt(BareOf(View(a), t), k))
    BY <1>2, <2>1 DEF Meaning, OfOption, Placed
  <2> QED
    BY <1>1, <2>3, <2>4
<1>3. CASE ~ Placed(line.at)
  <2>1. id = line.at.name /\ IsName(id)
    BY <1>3 DEF Resolve, Addressed, Placed, Reading, Adding
  <2>2. Find(a, id) # <<>>
    BY <1>1, <1>4 DEF Executable
  <2>3. View(Executed(a, op, newId)) = [View(a) EXCEPT !.named = [n \in DOMAIN @ \ {id} |-> @[n]]]
    BY <2>1, <2>2, DeleteNameMeans
  <2>4. Meaning(View(a), line) = [View(a) EXCEPT !.named = [n \in DOMAIN @ \ {id} |-> @[n]]]
    BY <1>3, <2>1 DEF Meaning, OfOption, Placed
  <2> QED
    BY <1>1, <2>3, <2>4
<1> QED
  BY <1>2, <1>3

\* A line that gives a section its type.
LEMMA SetLine ==
  ASSUME NEW a, WellFormed(a), NEW line, Parsed(line), Addressed(line),
         line.verb = "set", ~ OfOption(line),
         NEW id, Resolve(a, line.at) = <<id>>, NEW newId, IsNew(a, newId)
  PROVE  Meaning(View(a), line)
           = IF LineCalls(a, line, id) = <<>> THEN View(a)
             ELSE View(Executed(a, Head(LineCalls(a, line, id)), newId))
<1>1. id = line.at.name /\ IsName(id)
  BY DEF Resolve, Addressed, OfOption, Reading, Adding
<1>2. LineCalls(a, line, id) = CreateOrRetype(a, id, line.arg)
  BY DEF LineCalls, OfOption
<1>3. Meaning(View(a), line) = SectionMeant(View(a), id, line.arg)
  BY <1>1 DEF Meaning, SectionMeant, OfOption
<1> QED
  BY <1>1, <1>2, <1>3, SectionLine DEF IsNew

\* A line that calls does what it says.
LEMMA LineMeans ==
  ASSUME NEW a, WellFormed(a), NEW line, Parsed(line), Addressed(line), line.verb \in Reading,
         NEW id, line.verb # "add" => Resolve(a, line.at) = <<id>>, NEW newId, IsNew(a, newId),
         CallsOf(a, line, id) # <<>>, Executable(a, Head(CallsOf(a, line, id)))
  PROVE  View(Executed(a, Head(CallsOf(a, line, id)), newId)) = Meaning(View(a), line)
<1>1. CASE line.verb = "add"
  <2>3. CallsOf(a, line, id) = <<Op("add", NoId, line.arg)>>
    BY <1>1 DEF CallsOf, NoId
  <2>1. Head(CallsOf(a, line, id)) = Op("add", NoId, line.arg)
    BY <2>3
  <2>2. Meaning(View(a), line) = With(View(a), line.arg, Append(BareOf(View(a), line.arg), <<>>))
    BY <1>1 DEF Meaning
  <2> QED
    BY <2>1, <2>2, AddMeans DEF IsNew
<1>2. CASE line.verb = "get"
  BY <1>2 DEF CallsOf, LineCalls
<1>3. CASE line.verb = "set" /\ ~ OfOption(line)
  BY <1>3, SetLine DEF CallsOf
<1>4. CASE line.verb = "delete" /\ ~ OfOption(line)
  BY <1>4, DeleteLine DEF CallsOf
<1>5. CASE line.verb \in {"set", "delete", "add_list", "del_list"} /\ OfOption(line)
  <2>1. CASE Placed(line.at)
    BY <1>5, <2>1, OptionLineAtPlace DEF CallsOf
  <2>2. CASE ~ Placed(line.at)
    <3>1. id = line.at.name
      BY <1>5, <2>2 DEF Resolve, Placed
    <3> QED
      BY <1>5, <2>2, <3>1, OptionLineAtName DEF CallsOf
  <2> QED
    BY <2>1, <2>2
<1>6. line.verb \in {"add_list", "del_list"} => OfOption(line)
  BY DEF Parsed, OfOption
<1> QED
  BY <1>1, <1>2, <1>3, <1>4, <1>5, <1>6 DEF Reading, Adding

\* A line that has nothing to call says what the package says already.
LEMMA NothingMeans ==
  ASSUME NEW a, WellFormed(a), NEW line, Parsed(line), Addressed(line), line.verb \in Reading,
         NEW id, line.verb # "add" => Resolve(a, line.at) = <<id>>, NEW newId, IsNew(a, newId),
         CallsOf(a, line, id) = <<>>
  PROVE  Meaning(View(a), line) = View(a)
<1>1. line.verb # "add"
  BY DEF CallsOf
<1>2. CASE line.verb = "get"
  BY <1>2 DEF Meaning
<1>3. CASE line.verb = "set" /\ ~ OfOption(line)
  BY <1>3, SetLine DEF CallsOf
<1>4. CASE line.verb = "delete" /\ ~ OfOption(line)
  BY <1>4 DEF CallsOf, LineCalls, OfOption
<1>5. CASE line.verb \in {"set", "delete", "add_list", "del_list"} /\ OfOption(line)
  BY <1>5 DEF CallsOf, LineCalls, WriteList, SetOption, OfOption
<1>6. line.verb \in {"add_list", "del_list"} => OfOption(line)
  BY DEF Parsed, OfOption
<1> QED
  BY <1>1, <1>2, <1>3, <1>4, <1>5, <1>6 DEF Reading, Adding

-----------------------------------------------------------------------------
(* Handlers on the staging area. *)

\* The fields of a handler.
Fields ==
  {"pc", "payload", "todo", "staged", "plan", "last", "committed", "undo", "result", "was"}

\* The functions and records have their domains.
Shape ==
  /\ DOMAIN job = Handlers
  /\ \A h \in Handlers : DOMAIN job[h] = Fields
  /\ DOMAIN flash = Names /\ DOMAIN work = Names
  /\ \A p \in Names : DOMAIN flash[p] = {"exists", "secs"}

\* A handler that has begun is the only one that may be running.
OneAtATime ==
  \A g, h \in Handlers : g < h /\ job[h].pc # "idle" => job[g].pc = "done"

\* Where a handler is while it stages a package.
Staging == {"stage", "ensure", "exec"}

\* A result comes with the end of a handler; a staging error with its reverts.
Results ==
  \A h \in Handlers :
    /\ job[h].pc = "idle" => job[h].result = "none"
    /\ job[h].result = "stage_error" => job[h].pc \in {"revert", "done"}

\* Until it commits, and once its staging has failed, a handler has changed no
\* section on flash.
Uncommitting ==
  \A h \in Handlers :
    Latest(h) /\ (job[h].pc \in Staging \/ job[h].result = "stage_error") =>
      \A p \in Names : flash[p].secs = job[h].was.flash[p].secs

-----------------------------------------------------------------------------
(* The domains. *)

\* A step of handler h, of either kind.
AStep(h) ==
  \/ ScriptStep(h)
  \/ Reject(h) \/ Begin(h)
  \/ ParseFails(h) \/ Read(h) \/ ReadFails(h) \/ EnsurePackage(h) \/ EnsureFails(h)
  \/ ExecStep(h) \/ StepFails(h) \/ PackageStaged(h)
  \/ Commit(h) \/ CommitFails(h) \/ Finish(h)
  \/ Revert(h) \/ RevertFails(h)

\* What Planned does: the line is done, or its calls are to be made.
LEMMA PlannedEffect ==
  ASSUME NEW h \in Handlers, NEW secs, Planned(h, secs)
  PROVE  \/ LineDone(h, TRUE) \/ LineDone(h, FALSE)
         \/ \E calls : job' = [job EXCEPT ![h].pc = "call", ![h].plan = calls]
<1> DEFINE id == Resolve(secs, Line(h).at)
           calls == IF Line(h).verb = "add" THEN <<Op("add", "", Line(h).arg)>>
                    ELSE LineCalls(secs, Line(h), id[1])
           fails == Line(h).verb # "add" /\ (id = <<>> \/ ~ Gets(secs, Line(h), id[1]))
<1>1. IF fails THEN LineDone(h, FALSE)
      ELSE IF calls = <<>> THEN LineDone(h, TRUE)
      ELSE job' = [job EXCEPT ![h].pc = "call", ![h].plan = calls] /\ UNCHANGED script
  BY Zenon DEF Planned
<1> HIDE DEF calls, fails
<1> QED
  BY <1>1

\* Every step keeps the domains.
LEMMA ShapeKept == Shape /\ (\E h \in Handlers : AStep(h)) => Shape'
<1> SUFFICES ASSUME Shape, NEW h \in Handlers, AStep(h)
             PROVE  Shape'
    OBVIOUS
<1> USE DEF Shape, Fields
<1>1. CASE Reject(h)
  BY <1>1 DEF Reject, MayBegin, At
<1>2. CASE Begin(h)
  BY <1>2 DEF Begin, MayBegin, At
<1>3. CASE ParseFails(h)
  BY <1>3 DEF ParseFails, Undo, MayBegin, At
<1>4. CASE Read(h)
  BY <1>4 DEF Read, PlanOn, MayBegin, At
<1>5. CASE ReadFails(h)
  BY <1>5 DEF ReadFails, PlanOn, MayBegin, At
<1>6. CASE EnsurePackage(h)
  BY <1>6 DEF EnsurePackage, PlanOn, MayBegin, At
<1>7. CASE EnsureFails(h)
  BY <1>7 DEF EnsureFails, Undo, MayBegin, At
<1>8. CASE ExecStep(h)
  BY <1>8 DEF ExecStep, AfterCall, MayBegin, At
<1>9. CASE StepFails(h)
  BY <1>9 DEF StepFails, Undo, AfterCall, MayBegin, At
<1>10. CASE PackageStaged(h)
  BY <1>10 DEF PackageStaged, MayBegin, At
<1>11. CASE Commit(h)
  BY <1>11 DEF Commit, AfterCommit, MayBegin, At
<1>12. CASE CommitFails(h)
  BY <1>12 DEF CommitFails, AfterCommit, MayBegin, At
<1>13. CASE Finish(h)
  BY <1>13 DEF Finish, MayBegin, At
<1>14. CASE Revert(h)
  BY <1>14 DEF Revert, Reverted, MayBegin, At
<1>15. CASE RevertFails(h)
  BY <1>15 DEF RevertFails, Reverted, MayBegin, At
<1>16. CASE BeginScript(h)
  BY <1>16 DEF BeginScript, MayBegin, At
<1>17. CASE BadLine(h)
  BY <1>17 DEF BadLine, LineDone, MayBegin, At
<1>18. CASE LineRead(h)
  <2>1. Planned(h, work[Line(h).pkg])
    BY <1>18 DEF LineRead
  <2>2. UNCHANGED <<flash, work>> /\ job[h].pc \in {"line", "reread"}
    BY <1>18 DEF LineRead, At
  <2>3. CASE LineDone(h, TRUE) \/ LineDone(h, FALSE)
    BY <2>2, <2>3 DEF LineDone
  <2>4. ASSUME NEW calls, job' = [job EXCEPT ![h].pc = "call", ![h].plan = calls]
        PROVE  Shape'
    BY <2>2, <2>4
  <2> QED
    BY <2>1, <2>3, <2>4, PlannedEffect
<1>19. CASE LineReadFails(h)
  BY <1>19 DEF LineReadFails, Planned, LineDone, MayBegin, At
<1>20. CASE LineCreates(h)
  BY <1>20 DEF LineCreates, MayBegin, At
<1>21. CASE LineCreateFails(h)
  BY <1>21 DEF LineCreateFails, LineDone, MayBegin, At
<1>22. CASE LineCall(h)
  BY <1>22 DEF LineCall, LineDone, AfterLine, MayBegin, At
<1>23. CASE LineCallFails(h)
  BY <1>23 DEF LineCallFails, LineDone, AfterLine, MayBegin, At
<1>24. CASE LineCommit(h)
  BY <1>24 DEF LineCommit, LineDone, AfterCommit, MayBegin, At
<1>25. CASE LineCommitFails(h)
  BY <1>25 DEF LineCommitFails, LineDone, AfterCommit, MayBegin, At
<1>26. CASE LineRevert(h)
  BY <1>26 DEF LineRevert, LineDone, MayBegin, At
<1>27. CASE LineRevertFails(h)
  BY <1>27 DEF LineRevertFails, LineDone, MayBegin, At
<1> QED
  BY <1>1, <1>2, <1>3, <1>4, <1>5, <1>6, <1>7, <1>8, <1>9, <1>10, <1>11, <1>12, <1>13,
     <1>14, <1>15, <1>16, <1>17, <1>18, <1>19, <1>20, <1>21, <1>22, <1>23, <1>24, <1>25,
     <1>26, <1>27 DEF AStep, ScriptStep

\* What LineDone does to the jobs.
LEMMA LineEnds ==
  ASSUME Shape, NEW h \in Handlers, LineDone(h, TRUE) \/ LineDone(h, FALSE)
  PROVE  /\ DOMAIN job' = Handlers
         /\ \A g \in Handlers : g # h => job'[g] = job[g]
         /\ job'[h].pc \in {"done", "line"}
         /\ job'[h].result \in {"set_ok", "set_error", job[h].result}
         /\ job'[h].was = job[h].was
         /\ DOMAIN job'[h] = Fields
<1> USE DEF Shape, Fields
<1>1. PICK ok \in BOOLEAN : LineDone(h, ok)
  OBVIOUS
<1> DEFINE failed == script[h].failed \/ ~ ok
           end == Len(script[h].lines) = 1
           pc == IF end THEN "done" ELSE "line"
           result == IF end THEN IF failed THEN "set_error" ELSE "set_ok" ELSE job[h].result
<1>2. job' = [job EXCEPT ![h].plan = <<>>, ![h].pc = pc, ![h].result = result]
  BY <1>1 DEF LineDone
<1>3. pc \in {"done", "line"} /\ result \in {"set_ok", "set_error", job[h].result}
  OBVIOUS
<1> HIDE DEF pc, result
<1> QED
  BY <1>2, <1>3

\* A line that leaves flash alone, and does not end otherwise than lines end.
LEMMA LineKeeps ==
  ASSUME Shape, OneAtATime, Results, Uncommitting, NEW h \in Handlers,
         job[h].pc \notin Staging \cup {"idle", "done", "revert"},
         \A p \in Names : flash'[p].secs = flash[p].secs,
         \A g \in Handlers : g # h => job'[g] = job[g],
         job'[h].pc \notin Staging \cup {"idle"},
         job'[h].result \in {"set_ok", "set_error", job[h].result}
  PROVE  (OneAtATime /\ Results /\ Uncommitting)'
<1>1. OneAtATime'
  BY DEF OneAtATime
<1>2. Results' /\ job'[h].result # "stage_error"
  BY DEF Results
<1>3. \A g \in Handlers : Latest(g)' => Latest(g)
  BY DEF Latest
<1>4. Uncommitting'
  BY <1>2, <1>3 DEF Uncommitting
<1> QED
  BY <1>1, <1>2, <1>4

-----------------------------------------------------------------------------
(* Nothing is committed before all is staged. *)

\* Every step keeps what StageErrorIsHarmless rests on, one handler after the other.
LEMMA UncKept ==
  Serial /\ Shape /\ OneAtATime /\ Results /\ Uncommitting /\ (\E h \in Handlers : AStep(h))
    => OneAtATime' /\ Results' /\ Uncommitting'
<1> SUFFICES ASSUME Serial, Shape, OneAtATime, Results, Uncommitting, NEW h \in Handlers, AStep(h)
             PROVE  (OneAtATime /\ Results /\ Uncommitting)'
    OBVIOUS
<1> USE DEF Shape, Fields, OneAtATime, Results, Uncommitting, Latest, Staging, Handlers
<1>1. CASE Reject(h)
  BY <1>1 DEF Reject, MayBegin, At
<1>2. CASE Begin(h)
  <2>1. PICK todo, payload :
          job' = [job EXCEPT ![h].pc = IF todo = <<>> THEN "commit" ELSE "stage",
                             ![h].payload = payload, ![h].todo = todo,
                             ![h].was = [flash |-> flash, work |-> work]]
    BY <1>2, ZenonT(30) DEF Begin
  <2>2. UNCHANGED flash /\ MayBegin(h)
    BY <1>2 DEF Begin
  <2>3. \A g \in Handlers : g # h => job'[g] = job[g]
    BY <2>1
  <2>4. /\ job'[h].pc \in {"commit", "stage"}
        /\ job'[h].result = job[h].result
        /\ job'[h].was = [flash |-> flash, work |-> work]
    BY <2>1
  <2> QED
    BY <2>2, <2>3, <2>4 DEF MayBegin
<1>3. CASE ParseFails(h)
  BY <1>3 DEF ParseFails, Undo, MayBegin, At
<1>4. CASE Read(h)
  <2>1. UNCHANGED flash /\ job[h].pc = "stage"
    BY <1>4 DEF Read, MayRead
  <2>2. \A g \in Handlers : g # h => job'[g] = job[g]
    BY <1>4 DEF Read, PlanOn
  <2>3. job'[h].pc = "exec" /\ job'[h].result = job[h].result /\ job'[h].was = job[h].was
    BY <1>4 DEF Read, PlanOn
  <2> QED
    BY <2>1, <2>2, <2>3
<1>5. CASE ReadFails(h)
  <2>1. UNCHANGED flash /\ job[h].pc = "stage"
    BY <1>5 DEF ReadFails, MayRead
  <2>2. \A g \in Handlers : g # h => job'[g] = job[g]
    BY <1>5 DEF ReadFails, PlanOn
  <2>3. /\ job'[h].pc \in {"exec", "ensure"}
        /\ job'[h].result = job[h].result /\ job'[h].was = job[h].was
    <3>1. CASE WantedTypes(Config(h)) = <<>>
      <4>1. PlanOn(h, <<>>)
        BY <1>5, <3>1 DEF ReadFails
      <4> QED
        BY <4>1 DEF PlanOn
    <3>2. CASE WantedTypes(Config(h)) # <<>>
      <4>1. job' = [job EXCEPT ![h].pc = "ensure"]
        BY <1>5, <3>2 DEF ReadFails
      <4> QED
        BY <4>1
    <3> QED
      BY <3>1, <3>2
  <2> QED
    BY <2>1, <2>2, <2>3
<1>6. CASE EnsurePackage(h)
  BY <1>6 DEF EnsurePackage, PlanOn, MayBegin, At
<1>7. CASE EnsureFails(h)
  BY <1>7 DEF EnsureFails, Undo, MayBegin, At
<1>8. CASE ExecStep(h)
  BY <1>8 DEF ExecStep, AfterCall, MayBegin, At
<1>9. CASE StepFails(h)
  BY <1>9 DEF StepFails, Undo, AfterCall, MayBegin, At
<1>10. CASE PackageStaged(h)
  BY <1>10 DEF PackageStaged, MayBegin, At
<1>11. CASE Commit(h)
  BY <1>11 DEF Commit, AfterCommit, MayBegin, At
<1>12. CASE CommitFails(h)
  BY <1>12 DEF CommitFails, AfterCommit, MayBegin, At
<1>13. CASE Finish(h)
  BY <1>13 DEF Finish, MayBegin, At
<1>14. CASE Revert(h)
  BY <1>14 DEF Revert, Reverted, MayBegin, At
<1>15. CASE RevertFails(h)
  BY <1>15 DEF RevertFails, Reverted, MayBegin, At
<1>16. CASE BeginScript(h)
  BY <1>16 DEF BeginScript, MayBegin, At
<1>17. CASE BadLine(h)
  BY <1>17 DEF BadLine, LineDone, MayBegin, At
<1>18. CASE LineRead(h)
  <2>1. Planned(h, work[Line(h).pkg])
    BY <1>18 DEF LineRead
  <2>2. UNCHANGED <<flash, work>> /\ job[h].pc \in {"line", "reread"}
    BY <1>18 DEF LineRead, At
  <2>3. CASE LineDone(h, TRUE) \/ LineDone(h, FALSE)
    BY <2>2, <2>3, LineEnds, LineKeeps
  <2>4. ASSUME NEW calls, job' = [job EXCEPT ![h].pc = "call", ![h].plan = calls]
        PROVE  (OneAtATime /\ Results /\ Uncommitting)'
    BY <2>2, <2>4
  <2> QED
    BY <2>1, <2>3, <2>4, PlannedEffect
<1>19. CASE LineReadFails(h)
  <2>1. UNCHANGED <<flash, work>> /\ job[h].pc \in {"line", "reread"}
    BY <1>19 DEF LineReadFails, At
  <2>2. CASE LineDone(h, FALSE)
    BY <2>1, <2>2, LineEnds, LineKeeps
  <2>3. CASE job' = [job EXCEPT ![h].pc = "create"]
    BY <2>1, <2>3
  <2> QED
    BY <1>19, <2>2, <2>3 DEF LineReadFails
<1>20. CASE LineCreates(h)
  BY <1>20 DEF LineCreates, MayBegin, At
<1>21. CASE LineCreateFails(h)
  BY <1>21 DEF LineCreateFails, LineDone, MayBegin, At
<1>22. CASE LineCall(h)
  BY <1>22 DEF LineCall, LineDone, AfterLine, MayBegin, At
<1>23. CASE LineCallFails(h)
  BY <1>23 DEF LineCallFails, LineDone, AfterLine, MayBegin, At
<1>24. CASE LineCommit(h)
  BY <1>24 DEF LineCommit, LineDone, AfterCommit, MayBegin, At
<1>25. CASE LineCommitFails(h)
  BY <1>25 DEF LineCommitFails, LineDone, AfterCommit, MayBegin, At
<1>26. CASE LineRevert(h)
  BY <1>26 DEF LineRevert, LineDone, MayBegin, At
<1>27. CASE LineRevertFails(h)
  BY <1>27 DEF LineRevertFails, LineDone, MayBegin, At
<1> QED
  BY <1>1, <1>2, <1>3, <1>4, <1>5, <1>6, <1>7, <1>8, <1>9, <1>10, <1>11, <1>12, <1>13,
     <1>14, <1>15, <1>16, <1>17, <1>18, <1>19, <1>20, <1>21, <1>22, <1>23, <1>24, <1>25,
     <1>26, <1>27 DEF AStep, ScriptStep

-----------------------------------------------------------------------------
\* The inductive invariant of StageErrorIsHarmless.
Inv == Shape /\ OneAtATime /\ Results /\ Uncommitting

\* The initial states satisfy the invariant.
LEMMA InitInv == UInit => Inv
<1> SUFFICES ASSUME UInit
             PROVE  Inv
    OBVIOUS
<1>1. Shape
  BY ApplierAssumption DEF Shape, Init, UInit, Fields
<1>2. OneAtATime /\ Results
  BY DEF OneAtATime, Results, UInit, Init
<1>3. Uncommitting
  BY DEF Uncommitting, UInit, Init
<1> QED
  BY <1>1, <1>2, <1>3 DEF Inv

\* Every step keeps the invariant.
LEMMA NextInv == Serial /\ Inv /\ [UNext]_uvars => Inv'
<1> SUFFICES ASSUME Serial, Inv, [UNext]_uvars
             PROVE  Inv'
    OBVIOUS
<1>1. CASE UNext
  <2>1. \E h \in Handlers : AStep(h)
    BY <1>1 DEF UNext, Next, AStep
  <2> QED
    BY <2>1, ShapeKept, UncKept DEF Inv
<1>2. CASE UNCHANGED uvars
  BY <1>2 DEF uvars, vars, Inv, Shape, OneAtATime, Results, Uncommitting, Latest
<1> QED
  BY <1>1, <1>2

\* With one handler after the other, an Apply whose staging fails has changed no
\* section of any package on flash, whatever the payload, the reads, calls and
\* reverts that fail, and the uci_set commands before it.
THEOREM StageErrorIsHarmless == Serial => (USpec => []StageErrorChangesNothing)
<1> SUFFICES ASSUME Serial
             PROVE  USpec => []StageErrorChangesNothing
    OBVIOUS
<1>1. UInit => Inv
  BY InitInv
<1>2. Inv /\ [UNext]_uvars => Inv'
  BY NextInv
<1>3. Inv => StageErrorChangesNothing
  BY DEF Inv, Uncommitting, StageErrorChangesNothing
<1> QED
  BY <1>1, <1>2, <1>3, PTL DEF USpec

-----------------------------------------------------------------------------
(* What is staged and is not on flash. *)

\* The packages that a handler has staged and has to commit or to revert.
Dirty(j) ==
  CASE j.pc \in Staging -> ToSet(j.staged) \cup {Head(j.todo)}
    [] j.pc = "commit" -> ToSet(SubSeq(j.staged, Len(j.committed) + 1, Len(j.staged)))
    [] j.pc = "revert" -> ToSet(j.undo)
    [] OTHER -> {}

\* The lists of a handler fit where it is.
Listed(j) ==
  /\ IsList(j.staged) /\ IsList(j.committed) /\ IsList(j.undo)
  /\ j.pc = "idle" => j.staged = <<>>
  /\ j.pc \in Staging \cup {"idle"} => j.committed = <<>>
  /\ j.pc = "commit" => Len(j.committed) <= Len(j.staged)
  /\ j.pc = "revert" => j.undo # <<>>

Lists == \A h \in Handlers : Listed(job[h])

\* A package whose staged sections are not those on flash is one that a handler
\* still has to commit or to revert, or one that was left so.
Accounted ==
  \A p \in Names \ kept : work[p] # flash[p].secs => \E h \in Handlers : p \in Dirty(job[h])

\* The inductive invariant of StagingLeftClean.
CInv == Shape /\ Lists /\ Accounted

\* The members of a list are its elements.
LEMMA Members ==
  ASSUME NEW S, NEW s \in Seq(S)
  PROVE  /\ \A i \in 1 .. Len(s) : s[i] \in ToSet(s)
         /\ \A x \in ToSet(s) : \E i \in 1 .. Len(s) : x = s[i]
         /\ IsList(s)
<1>1. DOMAIN s = 1 .. Len(s) /\ Len(s) \in Nat
  OBVIOUS
<1>2. /\ \A i \in 1 .. Len(s) : s[i] \in ToSet(s)
      /\ \A x \in ToSet(s) : \E i \in 1 .. Len(s) : x = s[i]
  BY <1>1, Zenon DEF ToSet
<1>3. s \in [1 .. Len(s) -> ToSet(s)]
  BY <1>1, <1>2
<1> QED
  BY <1>1, <1>2, <1>3 DEF IsList

\* A list with one more element.
LEMMA Appended ==
  ASSUME NEW s, IsList(s), NEW e
  PROVE  /\ IsList(Append(s, e)) /\ ToSet(Append(s, e)) = ToSet(s) \cup {e}
         /\ Len(Append(s, e)) = Len(s) + 1
<1> DEFINE S == ToSet(s) \cup {e}
<1>1. s \in Seq(S) /\ e \in S
  BY DEF IsList
<1>2. Append(s, e) \in Seq(S) /\ Len(Append(s, e)) = Len(s) + 1
  BY <1>1
<1>3. /\ \A i \in 1 .. Len(s) : Append(s, e)[i] = s[i]
      /\ Append(s, e)[Len(s) + 1] = e
  BY <1>1
<1>0. \A i \in 1 .. Len(Append(s, e)) : Append(s, e)[i] \in ToSet(Append(s, e))
  BY <1>2, Members
<1>4. \A i \in 1 .. Len(s) : s[i] \in ToSet(Append(s, e))
  BY <1>0, <1>1, <1>2, <1>3
<1>5. e \in ToSet(Append(s, e))
  BY <1>0, <1>1, <1>2, <1>3
<1>6. \A x \in ToSet(Append(s, e)) : x \in S
  <2>1. \A i \in 1 .. Len(Append(s, e)) : Append(s, e)[i] \in S
    BY <1>2
  <2> SUFFICES ASSUME NEW x \in ToSet(Append(s, e))
               PROVE  x \in S
      OBVIOUS
  <2>2. PICK i \in 1 .. Len(Append(s, e)) : Append(s, e)[i] = x
    BY <1>2, Members
  <2> QED
    BY <2>1, <2>2
<1>7. \A x \in ToSet(s) : x \in ToSet(Append(s, e))
  BY <1>1, <1>4, Members
<1> QED
  BY <1>2, <1>5, <1>6, <1>7, Members

\* A list that loses its first element.
LEMMA Headed ==
  ASSUME NEW s, IsList(s), s # <<>>
  PROVE  /\ IsList(Tail(s)) /\ ToSet(s) \subseteq {Head(s)} \cup ToSet(Tail(s))
         /\ Len(s) = 1 => ToSet(s) = {Head(s)}
         /\ Len(s) # 1 => Tail(s) # <<>>
<1> DEFINE S == ToSet(s)
<1>1. s \in Seq(S) /\ Len(s) \in Nat \ {0}
  BY EmptySeq DEF IsList
<1>2. Tail(s) \in Seq(S) /\ Len(Tail(s)) = Len(s) - 1 /\ Head(s) = s[1]
  BY <1>1
<1>3. \A i \in 1 .. Len(s) - 1 : Tail(s)[i] = s[i + 1]
  BY <1>1
<1>4. \A i \in 1 .. Len(s) : i # 1 => s[i] = Tail(s)[i - 1] /\ i - 1 \in 1 .. Len(Tail(s))
  BY <1>1, <1>2, <1>3
<1>5. ToSet(s) \subseteq {Head(s)} \cup ToSet(Tail(s))
  <2> SUFFICES ASSUME NEW i \in 1 .. Len(s), i # 1
               PROVE  s[i] \in ToSet(Tail(s))
      BY <1>1, <1>2, Members
  <2> QED
    BY <1>2, <1>4, Members
<1>6. Len(s) = 1 => ToSet(s) = {Head(s)}
  BY <1>1, <1>2, Members
<1>8. IsList(Tail(s))
  BY <1>2, Members
<1> QED
  BY <1>1, <1>2, <1>5, <1>6, <1>8

\* The uncommitted packages, before and after the first of them is committed.
LEMMA Rest ==
  ASSUME NEW s, IsList(s), NEW n \in Nat, n <= Len(s)
  PROVE  LET rest == SubSeq(s, n + 1, Len(s))
         IN  /\ IsList(rest)
             /\ rest # <<>> => /\ n + 1 <= Len(s)
                              /\ ToSet(rest) \subseteq
                                   {Head(rest)} \cup ToSet(SubSeq(s, n + 2, Len(s)))
             /\ rest = <<>> => ToSet(rest) = {}
             /\ n = 0 => rest = s
<1> DEFINE rest == SubSeq(s, n + 1, Len(s))
           next == SubSeq(s, n + 2, Len(s))
           S == ToSet(s)
<1>1. s \in Seq(S) /\ Len(s) \in Nat
  BY DEF IsList
<1>2. /\ rest \in Seq(S) /\ Len(rest) = Len(s) - n
      /\ \A i \in 1 .. Len(s) - n : rest[i] = s[n + i]
  BY <1>1
<1>3. rest # <<>> => /\ n + 1 <= Len(s)
                    /\ next \in Seq(S) /\ Len(next) = Len(s) - n - 1
                    /\ \A i \in 1 .. Len(s) - n - 1 : next[i] = s[n + 1 + i]
                    /\ Head(rest) = s[n + 1]
  BY <1>1, <1>2
<1>4. ASSUME rest # <<>>
      PROVE  ToSet(rest) \subseteq {Head(rest)} \cup ToSet(next)
  <2>1. \A i \in 1 .. Len(s) - n : i # 1 => rest[i] = next[i - 1] /\ i - 1 \in 1 .. Len(next)
    BY <1>1, <1>2, <1>3, <1>4
  <2>2. \A i \in 1 .. Len(next) : next[i] \in ToSet(next)
    BY <1>3, <1>4, Members
  <2>3. rest[1] = Head(rest)
    BY <1>2, <1>3, <1>4
  <2>4. \A i \in 1 .. Len(rest) : rest[i] \in {Head(rest)} \cup ToSet(next)
    BY <1>1, <1>2, <2>1, <2>2, <2>3
  <2>5. \A x \in ToSet(rest) : \E i \in 1 .. Len(rest) : x = rest[i]
    BY <1>2, Members
  <2> QED
    BY <2>4, <2>5
<1>5. IsList(rest)
  BY <1>2, Members
<1>6. rest = <<>> => ToSet(rest) = {}
  BY DEF ToSet
<1>7. n = 0 => rest = s
  BY <1>1, <1>2
<1> QED
  BY <1>3, <1>4, <1>5, <1>6, <1>7

\* A step of h that leaves nothing behind that is not accounted for.
LEMMA StepAccounts ==
  ASSUME Accounted, NEW h \in Handlers,
         \A g \in Handlers : g # h => job'[g] = job[g],
         \A p \in Names \ kept' :
           work'[p] # flash'[p].secs =>
             \/ p \in Dirty(job'[h])
             \/ p \notin Dirty(job[h]) /\ p \notin kept /\ work[p] # flash[p].secs
  PROVE  Accounted'
<1> HIDE DEF Dirty
<1> QED
  BY DEF Accounted

\* A line that ends leaves the lists alone, and has nothing to commit or revert.
LEMMA LineLists ==
  ASSUME Shape, NEW h \in Handlers, LineDone(h, TRUE) \/ LineDone(h, FALSE),
         Listed(job[h]), job[h].pc \notin Staging \cup {"idle", "commit", "revert"}
  PROVE  /\ \A g \in Handlers : g # h => job'[g] = job[g]
         /\ Listed(job'[h]) /\ Dirty(job'[h]) = Dirty(job[h])
<1>1. PICK ok \in BOOLEAN : LineDone(h, ok)
  OBVIOUS
<1> DEFINE failed == script[h].failed \/ ~ ok
           end == Len(script[h].lines) = 1
           pc == IF end THEN "done" ELSE "line"
           result == IF end THEN IF failed THEN "set_error" ELSE "set_ok" ELSE job[h].result
<1>2. job' = [job EXCEPT ![h].plan = <<>>, ![h].pc = pc, ![h].result = result]
  BY <1>1 DEF LineDone
<1>3. pc \in {"done", "line"}
  OBVIOUS
<1> HIDE DEF pc, result
<1>4. /\ job'[h].pc \in {"done", "line"}
      /\ job'[h].staged = job[h].staged /\ job'[h].committed = job[h].committed
      /\ job'[h].undo = job[h].undo
      /\ \A g \in Handlers : g # h => job'[g] = job[g]
  BY <1>2, <1>3 DEF Shape, Fields
<1> QED
  BY <1>4 DEF Listed, Dirty, Staging

\* What StepAccounts asks of a step of h.
Covered(h) ==
  \A p \in Names \ kept' :
    work'[p] # flash'[p].secs =>
      \/ p \in Dirty(job'[h])
      \/ p \notin Dirty(job[h]) /\ p \notin kept /\ work[p] # flash[p].secs

\* The other handlers stand still, and h accounts for what it leaves.
Kept(h) ==
  /\ \A g \in Handlers : g # h => job'[g] = job[g]
  /\ Listed(job'[h])
  /\ Covered(h)

\* Staging goes on: it changes only the package it is at.
LEMMA StagingCovers ==
  ASSUME NEW h \in Handlers, Listed(job[h]),
         \A g \in Handlers : g # h => job'[g] = job[g],
         job[h].pc \in Staging, job'[h].pc \in Staging,
         job'[h].staged = job[h].staged, job'[h].committed = job[h].committed,
         job'[h].undo = job[h].undo, job'[h].todo = job[h].todo,
         kept' = kept, \A p \in Names : flash'[p].secs = flash[p].secs,
         \A p \in Names : p # Head(job[h].todo) => work'[p] = work[p]
  PROVE  Kept(h)
<1>1. Listed(job'[h])
  BY DEF Listed, Staging
<1>2. Dirty(job'[h]) = Dirty(job[h]) /\ Head(job[h].todo) \in Dirty(job[h])
  BY DEF Dirty, Staging
<1> HIDE DEF Dirty
<1>3. Covered(h)
  BY <1>2 DEF Covered
<1> QED
  BY <1>1, <1>3 DEF Kept

\* Staging fails: all that was staged is to be reverted.
LEMMA UndoCovers ==
  ASSUME Shape, NEW h \in Handlers, Listed(job[h]), Undo(h), job[h].pc \in Staging,
         kept' = kept, flash' = flash,
         \A p \in Names : p # Current(h) => work'[p] = work[p]
  PROVE  Kept(h)
<1> DEFINE undo == job[h].staged \o <<Current(h)>>
<1>1. /\ \A g \in Handlers : g # h => job'[g] = job[g]
      /\ job'[h].pc = "revert" /\ job'[h].undo = undo
      /\ job'[h].staged = job[h].staged /\ job'[h].committed = job[h].committed
  BY DEF Undo, Shape, Fields
<1>2. undo = Append(job[h].staged, Current(h))
  BY DEF Listed, IsList
<1>3. IsList(undo) /\ ToSet(undo) = ToSet(job[h].staged) \cup {Current(h)} /\ undo # <<>>
  <2>1. IsList(undo) /\ ToSet(undo) = ToSet(job[h].staged) \cup {Current(h)}
    BY <1>2, Appended DEF Listed
  <2>2. Len(undo) = Len(job[h].staged) + 1 /\ Len(job[h].staged) \in Nat
    BY <1>2, Appended DEF Listed, IsList
  <2> QED
    BY <2>1, <2>2
<1> HIDE DEF undo
<1>4. Listed(job'[h])
  BY <1>1, <1>3 DEF Listed, Staging
<1>5. Dirty(job[h]) = ToSet(undo) /\ Dirty(job'[h]) = ToSet(undo) /\ Current(h) \in ToSet(undo)
  BY <1>1, <1>3 DEF Dirty, Staging, Current
<1>6. Covered(h)
  BY <1>5 DEF Covered
<1> QED
  BY <1>1, <1>4, <1>6 DEF Kept

\* A line that ends.
LEMMA LineCovers ==
  ASSUME Shape, NEW h \in Handlers, Listed(job[h]), LineDone(h, TRUE) \/ LineDone(h, FALSE),
         job[h].pc \in {"line", "reread", "create", "call"},
         \A p \in Names \ kept' :
           work'[p] # flash'[p].secs => p \notin kept /\ work[p] # flash[p].secs
  PROVE  Kept(h)
<1>1. job[h].pc \notin Staging \cup {"idle", "commit", "revert"}
  BY DEF Staging
<1>2. Dirty(job[h]) = {}
  BY <1>1 DEF Dirty
<1> QED
  BY <1>1, <1>2, LineLists DEF Kept, Covered

\* Every step of a handler is covered, action by action.
LEMMA AccountsKept ==
  ASSUME CInv, NEW h \in Handlers, AStep(h)
  PROVE  Kept(h)
<1>a. Shape /\ Listed(job[h]) /\ Accounted
  BY DEF CInv, Lists
<1> USE <1>a DEF Shape, Fields, faults
<1>1. CASE Reject(h)
  BY <1>1 DEF Reject, Kept, Covered, Listed, Dirty, Staging, At, MayBegin, MayRead, MayExec
<1>2. CASE Begin(h)
  <2>1. PICK todo, payload :
          job' = [job EXCEPT ![h].pc = IF todo = <<>> THEN "commit" ELSE "stage",
                             ![h].payload = payload, ![h].todo = todo,
                             ![h].was = [flash |-> flash, work |-> work]]
    BY <1>2, Zenon DEF Begin
  <2>2. /\ \A g \in Handlers : g # h => job'[g] = job[g]
        /\ job'[h].pc \in {"commit", "stage"}
        /\ job'[h].staged = job[h].staged /\ job'[h].committed = job[h].committed
        /\ job'[h].undo = job[h].undo
    BY <2>1
  <2>3. UNCHANGED <<flash, work, kept>> /\ job[h].pc = "idle"
    BY <1>2 DEF Begin, MayBegin
  <2>4. Listed(job'[h])
    BY <2>2, <2>3, EmptySeq DEF Listed, Staging, IsList
  <2>5. Dirty(job[h]) = {}
    BY <2>3 DEF Dirty, Staging
  <2> QED
    BY <2>2, <2>3, <2>4, <2>5 DEF Kept, Covered
<1>3. CASE ParseFails(h)
  <2>1. Undo(h) /\ job[h].pc \in {"stage", "ensure", "exec"}
    BY <1>3 DEF ParseFails
  <2>2. /\ \A p \in Names : p # Current(h) => work'[p] = work[p]
        /\ kept' = kept /\ flash' = flash
    BY <1>3 DEF ParseFails, AfterCall
  <2> QED
    BY <2>1, <2>2, UndoCovers DEF Staging
<1>4. CASE Read(h)
  <2>1. /\ \A g \in Handlers : g # h => job'[g] = job[g]
        /\ job[h].pc \in Staging /\ job'[h].pc \in Staging
        /\ job'[h].staged = job[h].staged /\ job'[h].committed = job[h].committed
        /\ job'[h].undo = job[h].undo /\ job'[h].todo = job[h].todo
    BY <1>4 DEF Read, MayRead, MayExec, PlanOn, Staging
  <2>2. /\ kept' = kept
        /\ \A p \in Names : flash'[p].secs = flash[p].secs
        /\ \A p \in Names : p # Head(job[h].todo) => work'[p] = work[p]
    BY <1>4 DEF Read, AfterCall, Current
  <2> QED
    BY <2>1, <2>2, StagingCovers
<1>5. CASE ReadFails(h)
  <2>1. /\ \A g \in Handlers : g # h => job'[g] = job[g]
        /\ job[h].pc \in Staging /\ job'[h].pc \in Staging
        /\ job'[h].staged = job[h].staged /\ job'[h].committed = job[h].committed
        /\ job'[h].undo = job[h].undo /\ job'[h].todo = job[h].todo
    BY <1>5 DEF ReadFails, MayRead, MayExec, PlanOn, Staging
  <2>2. /\ kept' = kept
        /\ \A p \in Names : flash'[p].secs = flash[p].secs
        /\ \A p \in Names : p # Head(job[h].todo) => work'[p] = work[p]
    BY <1>5 DEF ReadFails, AfterCall, Current
  <2> QED
    BY <2>1, <2>2, StagingCovers
<1>6. CASE EnsurePackage(h)
  <2>1. /\ \A g \in Handlers : g # h => job'[g] = job[g]
        /\ job[h].pc \in Staging /\ job'[h].pc \in Staging
        /\ job'[h].staged = job[h].staged /\ job'[h].committed = job[h].committed
        /\ job'[h].undo = job[h].undo /\ job'[h].todo = job[h].todo
    BY <1>6 DEF EnsurePackage, MayRead, MayExec, PlanOn, Staging
  <2>2. /\ kept' = kept
        /\ \A p \in Names : flash'[p].secs = flash[p].secs
        /\ \A p \in Names : p # Head(job[h].todo) => work'[p] = work[p]
    BY <1>6 DEF EnsurePackage, AfterCall, Current
  <2> QED
    BY <2>1, <2>2, StagingCovers
<1>7. CASE EnsureFails(h)
  <2>1. Undo(h) /\ job[h].pc \in {"stage", "ensure", "exec"}
    BY <1>7 DEF EnsureFails
  <2>2. /\ \A p \in Names : p # Current(h) => work'[p] = work[p]
        /\ kept' = kept /\ flash' = flash
    BY <1>7 DEF EnsureFails, AfterCall
  <2> QED
    BY <2>1, <2>2, UndoCovers DEF Staging
<1>8. CASE ExecStep(h)
  <2>1. /\ \A g \in Handlers : g # h => job'[g] = job[g]
        /\ job[h].pc \in Staging /\ job'[h].pc \in Staging
        /\ job'[h].staged = job[h].staged /\ job'[h].committed = job[h].committed
        /\ job'[h].undo = job[h].undo /\ job'[h].todo = job[h].todo
    BY <1>8 DEF ExecStep, MayRead, MayExec, PlanOn, Staging
  <2>2. /\ kept' = kept
        /\ \A p \in Names : flash'[p].secs = flash[p].secs
        /\ \A p \in Names : p # Head(job[h].todo) => work'[p] = work[p]
    BY <1>8 DEF ExecStep, AfterCall, Current
  <2> QED
    BY <2>1, <2>2, StagingCovers
<1>9. CASE StepFails(h)
  <2>1. Undo(h) /\ job[h].pc \in {"stage", "ensure", "exec"}
    BY <1>9 DEF StepFails
  <2>2. /\ \A p \in Names : p # Current(h) => work'[p] = work[p]
        /\ kept' = kept /\ flash' = flash
    BY <1>9 DEF StepFails, AfterCall
  <2> QED
    BY <2>1, <2>2, UndoCovers DEF Staging
<1>10. CASE PackageStaged(h)
  <2> DEFINE staged == Append(job[h].staged, Current(h))
  <2>1. /\ \A g \in Handlers : g # h => job'[g] = job[g]
        /\ job'[h].pc = IF Len(job[h].todo) = 1 THEN "commit" ELSE "stage"
        /\ job'[h].committed = job[h].committed
        /\ job'[h].staged = staged /\ job'[h].undo = job[h].undo
    BY <1>10 DEF PackageStaged
  <2>2. job[h].pc = "exec" /\ UNCHANGED <<flash, work, kept>>
    BY <1>10 DEF PackageStaged
  <2>3. /\ IsList(staged) /\ ToSet(staged) = ToSet(job[h].staged) \cup {Current(h)}
        /\ Len(staged) \in Nat
    BY Appended DEF Listed, IsList
  <2> HIDE DEF staged
  <2>4. job[h].committed = <<>> /\ Len(job[h].committed) = 0
    BY <2>2 DEF Listed, Staging
  <2>5. Listed(job'[h])
    BY <2>1, <2>2, <2>3, <2>4 DEF Listed, Staging
  <2>6. Dirty(job[h]) = ToSet(staged)
    BY <2>2, <2>3 DEF Dirty, Staging, Current
  <2>7. SubSeq(staged, 1, Len(staged)) = staged
    BY <2>3 DEF IsList
  <2>8. ToSet(staged) \subseteq Dirty(job'[h])
    <3>1. CASE Len(job[h].todo) = 1
      <4>1. /\ job'[h].pc = "commit" /\ job'[h].staged = staged
            /\ Len(job'[h].committed) + 1 = 1
        BY <2>1, <2>4, <3>1
      <4> QED
        BY <2>7, <4>1 DEF Dirty, Staging
    <3>2. CASE Len(job[h].todo) # 1
      BY <2>1, <3>2 DEF Dirty, Staging
    <3> QED
      BY <3>1, <3>2
  <2> QED
    BY <2>1, <2>2, <2>5, <2>6, <2>8 DEF Kept, Covered
<1>11. CASE Commit(h)
  <2> DEFINE rest == Uncommitted(h)
             p == Head(rest)
  <2>1. /\ job[h].pc = "commit" /\ rest # <<>>
        /\ flash' = [flash EXCEPT ![p].secs = work[p]] /\ work' = work /\ kept' = kept \ {p}
        /\ job' = [job EXCEPT ![h].committed = Append(@, p)]
    BY <1>11 DEF Commit, AfterCommit
  <2>2. /\ \A g \in Handlers : g # h => job'[g] = job[g]
        /\ job'[h].pc = "commit" /\ job'[h].committed = Append(job[h].committed, p)
        /\ job'[h].staged = job[h].staged /\ job'[h].undo = job[h].undo
    BY <2>1
  <2>3. /\ IsList(Append(job[h].committed, p))
        /\ Len(Append(job[h].committed, p)) = Len(job[h].committed) + 1
        /\ Len(job[h].committed) \in Nat
    BY Appended DEF Listed, IsList
  <2>4. /\ Len(job[h].committed) + 1 <= Len(job[h].staged)
        /\ ToSet(rest) \subseteq
             {p} \cup ToSet(SubSeq(job[h].staged, Len(job[h].committed) + 2, Len(job[h].staged)))
    BY <2>1, <2>3, Rest DEF Uncommitted, Listed
  <2> HIDE DEF p, rest
  <2>5. Listed(job'[h])
    BY <2>1, <2>2, <2>3, <2>4 DEF Listed, Staging
  <2>6. Dirty(job[h]) = ToSet(rest)
    BY <2>1 DEF Dirty, Staging, Uncommitted, rest
  <2>7. Dirty(job'[h]) = ToSet(SubSeq(job[h].staged, Len(job[h].committed) + 2, Len(job[h].staged)))
    BY <2>2, <2>3 DEF Dirty, Staging
  <2>8. \A q \in Names : q # p => flash'[q] = flash[q]
    BY <2>1
  <2>9. p \in Names => flash'[p].secs = work'[p]
    BY <2>1
  <2>10. Dirty(job[h]) \subseteq {p} \cup Dirty(job'[h])
    BY <2>4, <2>6, <2>7
  <2>11. Covered(h)
    BY <2>1, <2>8, <2>9, <2>10 DEF Covered
  <2> QED
    BY <2>2, <2>5, <2>11 DEF Kept
<1>12. CASE CommitFails(h)
  <2> DEFINE rest == Uncommitted(h)
  <2>1. /\ job[h].pc = "commit" /\ rest # <<>> /\ work' = work /\ kept' = kept
        /\ job' = [job EXCEPT ![h].pc = "revert", ![h].result = "commit_error", ![h].undo = rest]
        /\ \A p \in Names : work'[p] # flash'[p].secs => work[p] # flash[p].secs
    BY <1>12 DEF CommitFails, AfterCommit
  <2>2. /\ \A g \in Handlers : g # h => job'[g] = job[g]
        /\ job'[h].pc = "revert" /\ job'[h].committed = job[h].committed
        /\ job'[h].staged = job[h].staged /\ job'[h].undo = rest
    BY <2>1
  <2>3. Len(job[h].committed) \in Nat
    BY DEF Listed, IsList
  <2>4. IsList(rest)
    BY <2>1, <2>3, Rest DEF Uncommitted, Listed
  <2>5. Dirty(job[h]) = ToSet(rest)
    BY <2>1 DEF Dirty, Staging, Uncommitted
  <2> HIDE DEF rest
  <2>6. Listed(job'[h])
    BY <2>1, <2>2, <2>4 DEF Listed, Staging
  <2>7. Dirty(job'[h]) = ToSet(rest)
    BY <2>2 DEF Dirty, Staging
  <2>8. Covered(h)
    BY <2>1, <2>5, <2>7 DEF Covered
  <2> QED
    BY <2>2, <2>6, <2>8 DEF Kept
<1>13. CASE Finish(h)
  <2>1. /\ \A g \in Handlers : g # h => job'[g] = job[g]
        /\ job'[h].pc = "done" /\ job'[h].committed = job[h].committed
        /\ job'[h].staged = job[h].staged /\ job'[h].undo = job[h].undo
    BY <1>13 DEF Finish
  <2>2. /\ job[h].pc = "commit" /\ Uncommitted(h) = <<>> /\ UNCHANGED <<flash, work, kept>>
    BY <1>13 DEF Finish
  <2>3. Dirty(job[h]) = {}
    <3>1. Len(job[h].committed) \in Nat /\ Len(job[h].committed) <= Len(job[h].staged)
      BY <2>2 DEF Listed, IsList
    <3>2. ToSet(Uncommitted(h)) = {}
      BY <2>2, <3>1, Rest DEF Uncommitted, Listed
    <3> QED
      BY <2>2, <3>2 DEF Dirty, Staging, Uncommitted
  <2>4. Listed(job'[h])
    BY <2>1 DEF Listed, Staging
  <2> QED
    BY <2>1, <2>2, <2>3, <2>4 DEF Kept, Covered
<1>14. CASE Revert(h)
  <2> DEFINE undo == job[h].undo
  <2>1. /\ \A g \in Handlers : g # h => job'[g] = job[g]
        /\ job'[h].pc = IF Len(undo) = 1 THEN "done" ELSE "revert"
        /\ job'[h].committed = job[h].committed
        /\ job'[h].staged = job[h].staged /\ job'[h].undo = Tail(undo)
    BY <1>14 DEF Revert, Reverted
  <2>2. job[h].pc = "revert" /\ undo # <<>> /\ IsList(undo)
    BY <1>14 DEF Revert, Listed
  <2>3. /\ IsList(Tail(undo)) /\ ToSet(undo) \subseteq {Head(undo)} \cup ToSet(Tail(undo))
        /\ Len(undo) = 1 => ToSet(undo) = {Head(undo)}
        /\ Len(undo) # 1 => Tail(undo) # <<>>
    BY <2>2, Headed
  <2> HIDE DEF undo
  <2>4. Listed(job'[h])
    BY <2>1, <2>3 DEF Listed, Staging
  <2>5. Dirty(job[h]) = ToSet(undo)
    BY <2>2 DEF Dirty, Staging, undo
  <2>6. Len(undo) # 1 => Dirty(job'[h]) = ToSet(Tail(undo))
    BY <2>1 DEF Dirty, Staging
  <2>7. Dirty(job[h]) \subseteq {Head(undo)} \cup Dirty(job'[h])
    BY <2>3, <2>5, <2>6
  <2>8. \A p \in Names \ kept' :
          work'[p] # flash'[p].secs => p # Head(undo) /\ p \notin kept /\ work[p] # flash[p].secs
    BY <1>14 DEF Revert, undo
  <2>9. Covered(h)
    BY <2>7, <2>8 DEF Covered
  <2> QED
    BY <2>1, <2>4, <2>9 DEF Kept
<1>15. CASE RevertFails(h)
  <2> DEFINE undo == job[h].undo
  <2>1. /\ \A g \in Handlers : g # h => job'[g] = job[g]
        /\ job'[h].pc = IF Len(undo) = 1 THEN "done" ELSE "revert"
        /\ job'[h].committed = job[h].committed
        /\ job'[h].staged = job[h].staged /\ job'[h].undo = Tail(undo)
    BY <1>15 DEF RevertFails, Reverted
  <2>2. job[h].pc = "revert" /\ undo # <<>> /\ IsList(undo)
    BY <1>15 DEF RevertFails, Listed
  <2>3. /\ IsList(Tail(undo)) /\ ToSet(undo) \subseteq {Head(undo)} \cup ToSet(Tail(undo))
        /\ Len(undo) = 1 => ToSet(undo) = {Head(undo)}
        /\ Len(undo) # 1 => Tail(undo) # <<>>
    BY <2>2, Headed
  <2> HIDE DEF undo
  <2>4. Listed(job'[h])
    BY <2>1, <2>3 DEF Listed, Staging
  <2>5. Dirty(job[h]) = ToSet(undo)
    BY <2>2 DEF Dirty, Staging, undo
  <2>6. Len(undo) # 1 => Dirty(job'[h]) = ToSet(Tail(undo))
    BY <2>1 DEF Dirty, Staging
  <2>7. Dirty(job[h]) \subseteq {Head(undo)} \cup Dirty(job'[h])
    BY <2>3, <2>5, <2>6
  <2>8. \A p \in Names \ kept' :
          work'[p] # flash'[p].secs => p # Head(undo) /\ p \notin kept /\ work[p] # flash[p].secs
    BY <1>15 DEF RevertFails, undo
  <2>9. Covered(h)
    BY <2>7, <2>8 DEF Covered
  <2> QED
    BY <2>1, <2>4, <2>9 DEF Kept
<1>16. CASE BeginScript(h)
  BY <1>16 DEF BeginScript, Kept, Covered, Listed, Dirty, Staging, At, MayBegin, MayRead,
     MayExec
<1>17. CASE BadLine(h)
  <2>1. LineDone(h, TRUE) \/ LineDone(h, FALSE)
    BY <1>17 DEF BadLine
  <2>2. job[h].pc \in {"line", "reread", "create", "call"}
    BY <1>17 DEF BadLine, At, MayCall
  <2>3. \A p \in Names \ kept' :
          work'[p] # flash'[p].secs => p \notin kept /\ work[p] # flash[p].secs
    BY <1>17 DEF BadLine, AfterLine, AfterCommit
  <2> QED
    BY <2>1, <2>2, <2>3, LineCovers
<1>18. CASE LineRead(h)
  <2>1. Planned(h, work[Line(h).pkg]) /\ UNCHANGED <<flash, work, kept>>
    BY <1>18 DEF LineRead
  <2>2. job[h].pc \in {"line", "reread"}
    BY <1>18 DEF LineRead, At
  <2>3. CASE LineDone(h, TRUE) \/ LineDone(h, FALSE)
    BY <2>1, <2>2, <2>3, LineCovers
  <2>4. ASSUME NEW calls, job' = [job EXCEPT ![h].pc = "call", ![h].plan = calls]
        PROVE  Kept(h)
    BY <2>1, <2>2, <2>4 DEF Kept, Covered, Listed, Dirty, Staging
  <2> QED
    BY <2>1, <2>3, <2>4, PlannedEffect
<1>19. CASE LineReadFails(h)
  <2>1. UNCHANGED <<flash, work, kept>> /\ job[h].pc \in {"line", "reread"}
    BY <1>19 DEF LineReadFails, At
  <2>2. CASE LineDone(h, FALSE)
    BY <2>1, <2>2, LineCovers
  <2>3. CASE job' = [job EXCEPT ![h].pc = "create"]
    BY <2>1, <2>3 DEF Kept, Covered, Listed, Dirty, Staging
  <2> QED
    BY <1>19, <2>2, <2>3 DEF LineReadFails
<1>20. CASE LineCreates(h)
  BY <1>20 DEF LineCreates, Kept, Covered, Listed, Dirty, Staging, At, MayBegin, MayRead,
     MayExec
<1>21. CASE LineCreateFails(h)
  <2>1. LineDone(h, TRUE) \/ LineDone(h, FALSE)
    BY <1>21 DEF LineCreateFails
  <2>2. job[h].pc \in {"line", "reread", "create", "call"}
    BY <1>21 DEF LineCreateFails, At, MayCall
  <2>3. \A p \in Names \ kept' :
          work'[p] # flash'[p].secs => p \notin kept /\ work[p] # flash[p].secs
    BY <1>21 DEF LineCreateFails, AfterLine, AfterCommit
  <2> QED
    BY <2>1, <2>2, <2>3, LineCovers
<1>22. CASE LineCall(h)
  <2>1. LineDone(h, TRUE) \/ LineDone(h, FALSE)
    BY <1>22 DEF LineCall
  <2>2. job[h].pc \in {"line", "reread", "create", "call"}
    BY <1>22 DEF LineCall, At, MayCall
  <2>3. \A p \in Names \ kept' :
          work'[p] # flash'[p].secs => p \notin kept /\ work[p] # flash[p].secs
    BY <1>22 DEF LineCall, AfterLine, AfterCommit
  <2> QED
    BY <2>1, <2>2, <2>3, LineCovers
<1>23. CASE LineCallFails(h)
  <2>1. LineDone(h, TRUE) \/ LineDone(h, FALSE)
    BY <1>23 DEF LineCallFails
  <2>2. job[h].pc \in {"line", "reread", "create", "call"}
    BY <1>23 DEF LineCallFails, At, MayCall
  <2>3. \A p \in Names \ kept' :
          work'[p] # flash'[p].secs => p \notin kept /\ work[p] # flash[p].secs
    BY <1>23 DEF LineCallFails, AfterLine, AfterCommit
  <2> QED
    BY <2>1, <2>2, <2>3, LineCovers
<1>24. CASE LineCommit(h)
  <2>1. LineDone(h, TRUE) \/ LineDone(h, FALSE)
    BY <1>24 DEF LineCommit
  <2>2. job[h].pc \in {"line", "reread", "create", "call"}
    BY <1>24 DEF LineCommit, At, MayCall
  <2>3. \A p \in Names \ kept' :
          work'[p] # flash'[p].secs => p \notin kept /\ work[p] # flash[p].secs
    BY <1>24 DEF LineCommit, AfterLine, AfterCommit
  <2> QED
    BY <2>1, <2>2, <2>3, LineCovers
<1>25. CASE LineCommitFails(h)
  <2>1. LineDone(h, TRUE) \/ LineDone(h, FALSE)
    BY <1>25 DEF LineCommitFails
  <2>2. job[h].pc \in {"line", "reread", "create", "call"}
    BY <1>25 DEF LineCommitFails, At, MayCall
  <2>3. \A p \in Names \ kept' :
          work'[p] # flash'[p].secs => p \notin kept /\ work[p] # flash[p].secs
    BY <1>25 DEF LineCommitFails, AfterLine, AfterCommit
  <2> QED
    BY <2>1, <2>2, <2>3, LineCovers
<1>26. CASE LineRevert(h)
  <2>1. LineDone(h, TRUE) \/ LineDone(h, FALSE)
    BY <1>26 DEF LineRevert
  <2>2. job[h].pc \in {"line", "reread", "create", "call"}
    BY <1>26 DEF LineRevert, At, MayCall
  <2>3. \A p \in Names \ kept' :
          work'[p] # flash'[p].secs => p \notin kept /\ work[p] # flash[p].secs
    BY <1>26 DEF LineRevert, AfterLine, AfterCommit
  <2> QED
    BY <2>1, <2>2, <2>3, LineCovers
<1>27. CASE LineRevertFails(h)
  <2>1. LineDone(h, TRUE) \/ LineDone(h, FALSE)
    BY <1>27 DEF LineRevertFails
  <2>2. job[h].pc \in {"line", "reread", "create", "call"}
    BY <1>27 DEF LineRevertFails, At, MayCall
  <2>3. \A p \in Names \ kept' :
          work'[p] # flash'[p].secs => p \notin kept /\ work[p] # flash[p].secs
    BY <1>27 DEF LineRevertFails, AfterLine, AfterCommit
  <2> QED
    BY <2>1, <2>2, <2>3, LineCovers
<1> QED
  BY <1>1, <1>2, <1>3, <1>4, <1>5, <1>6, <1>7, <1>8, <1>9, <1>10, <1>11, <1>12, <1>13,
     <1>14, <1>15, <1>16, <1>17, <1>18, <1>19, <1>20, <1>21, <1>22, <1>23, <1>24, <1>25,
     <1>26, <1>27 DEF AStep, ScriptStep

\* Every step keeps CInv.
LEMMA NextCInv == CInv /\ [UNext]_uvars => CInv'
<1> SUFFICES ASSUME CInv, [UNext]_uvars
             PROVE  CInv'
    OBVIOUS
<1>1. CASE UNext
  <2>1. PICK h \in Handlers : AStep(h)
    BY <1>1 DEF UNext, Next, AStep
  <2>2. Kept(h)
    BY <2>1, AccountsKept
  <2>3. Shape'
    BY <2>1, ShapeKept DEF CInv
  <2>4. Lists'
    BY <2>2 DEF Kept, CInv, Lists
  <2>5. Accounted'
    BY <2>2, StepAccounts DEF Kept, Covered, CInv
  <2> QED
    BY <2>3, <2>4, <2>5 DEF CInv
<1>2. CASE UNCHANGED uvars
  BY <1>2 DEF uvars, vars, faults, CInv, Shape, Lists, Listed, Accounted, Dirty
<1> QED
  BY <1>1, <1>2

\* The initial states satisfy CInv.
LEMMA InitCInv == UInit => CInv
<1> SUFFICES ASSUME UInit
             PROVE  CInv
    OBVIOUS
<1>1. Shape
  BY InitInv DEF Inv
<1>2. IsList(<<>>)
  BY EmptySeq DEF IsList
<1>3. Lists
  BY <1>2 DEF Lists, Listed, Staging, UInit, Init
<1>4. Accounted
  BY DEF Accounted, UInit, Init
<1> QED
  BY <1>1, <1>3, <1>4 DEF CInv

\* Between two commands, however handlers overlapped and whatever failed, a package
\* says on flash what it says staged, unless a revert failed for it or a uci_set
\* left it so.
THEOREM StagingLeftClean == USpec => []NothingLeftStaged
<1>1. UInit => CInv
  BY InitCInv
<1>2. CInv /\ [UNext]_uvars => CInv'
  BY NextCInv
<1>3. CInv => NothingLeftStaged
  BY DEF CInv, Accounted, Dirty, Staging, NothingLeftStaged
<1> QED
  BY <1>1, <1>2, <1>3, PTL DEF USpec

-----------------------------------------------------------------------------
(* The reference, line after line. *)

\* The function that AfterLines defines.
LEMMA AfterLinesDef ==
  ASSUME NEW views, NEW lines, Len(lines) \in Nat
  PROVE  /\ AfterLines(views, lines)[0] = views
         /\ \A n \in 1 .. Len(lines) :
              AfterLines(views, lines)[n] = After(AfterLines(views, lines)[n - 1], lines[n])
<1> DEFINE Step(f, n) == IF n = 0 THEN views ELSE After(f[n - 1], lines[n])
           Solved(k) == \E f : f = [n \in 0 .. k |-> Step(f, n)]
           T == {k \in Nat : ~ Solved(k)}
<1>1. T = {}
  <2>1. SUFFICES ASSUME T # {}
                 PROVE  FALSE
    OBVIOUS
  <2>2. PICK k \in Nat : ~ Solved(k) /\ \A j \in Nat : ~ Solved(j) => k <= j
    <3>1. T \in SUBSET Nat
      OBVIOUS
    <3>2. PICK k \in T : \A j \in T : k <= j
      <4> HIDE DEF T
      <4> QED
        BY <2>1, <3>1, Least
    <3> HIDE DEF Solved
    <3> QED
      BY <3>2
  <2>3. k # 0
    <3>1. [n \in 0 .. 0 |-> views] = [n \in 0 .. 0 |-> Step([j \in 0 .. 0 |-> views], n)]
      OBVIOUS
    <3> QED
      BY <2>2, <3>1
  <2>4. PICK f : f = [n \in 0 .. k - 1 |-> Step(f, n)]
    <3>1. Solved(k - 1)
      <4> HIDE DEF Solved
      <4> QED
        BY <2>2, <2>3
    <3> QED
      BY <3>1
  <2> DEFINE g == [n \in 0 .. k |-> IF n < k THEN f[n] ELSE Step(f, k)]
  <2>5. ASSUME NEW n \in 0 .. k
        PROVE  g[n] = Step(g, n)
    <3>1. n # 0 => g[n - 1] = f[n - 1]
      BY <2>2
    <3>2. Step(g, n) = Step(f, n)
      BY <3>1
    <3>3. n < k => f[n] = Step(f, n)
      <4>1. n < k => n \in 0 .. k - 1
        BY <2>2
      <4> HIDE DEF Step
      <4> QED
        BY <2>4, <4>1
    <3> QED
      BY <3>2, <3>3, <2>2
  <2>6. g = [n \in 0 .. k |-> Step(g, n)]
    BY <2>5
  <2> QED
    BY <2>2, <2>6
<1>2. Solved(Len(lines))
  <2> HIDE DEF Solved
  <2> QED
    BY <1>1
<1> DEFINE f == AfterLines(views, lines)
<1>3. f = [n \in 0 .. Len(lines) |-> Step(f, n)]
  BY <1>2 DEF AfterLines
<1> HIDE DEF f
<1>4. f[0] = views
  BY <1>3
<1>5. \A n \in 1 .. Len(lines) : f[n] = After(f[n - 1], lines[n])
  <2> SUFFICES ASSUME NEW n \in 1 .. Len(lines)
               PROVE  f[n] = After(f[n - 1], lines[n])
      OBVIOUS
  <2>1. n \in 0 .. Len(lines) /\ n # 0
    OBVIOUS
  <2>2. f[n] = Step(f, n)
    <3> HIDE DEF Step
    <3> QED
      BY <1>3, <2>1
  <2> QED
    BY <2>1, <2>2
<1> QED
  BY <1>4, <1>5 DEF f

-----------------------------------------------------------------------------
(* The packages stay well formed. *)

\* What is staged and what is on flash.
Wells == \A p \in Names : WellFormed(work[p]) /\ WellFormed(flash[p].secs)

\* The id of an added section is new.
LEMMA Fresh ==
  ASSUME IdsLeft, Wells, NEW p \in Names
  PROVE  IsNew(work[p], NewId(p))
<1> DEFINE ss == ToSet(work[p]) \cup ToSet(flash[p].secs)
<1>1. PICK id \in AnonIds : \A s \in ss : s.id # id
  BY DEF IdsLeft
<1>2. NewId(p) \in AnonIds /\ \A s \in ss : s.id # NewId(p)
  <2> HIDE DEF ss
  <2>1. NewId(p) = CHOOSE x \in AnonIds : \A s \in ss : s.id # x
    BY DEF NewId, ss
  <2> QED
    BY <1>1, <2>1, Zenon
<1>3. NewId(p) # NoId
  BY <1>2, ApplierAssumption
<1>4. \A i \in DOMAIN work[p] : work[p][i] \in ss
  BY Sections DEF Wells
<1> QED
  BY <1>2, <1>3, <1>4 DEF IsNew

\* A step leaves what is staged in a package, makes it what is on flash, or makes
\* a call; it leaves what is on flash, or makes it what is staged.
Moved ==
  \A p \in Names :
    /\ \/ work'[p] = work[p] \/ work'[p] = flash[p].secs
       \/ \E op : work'[p] = Executed(work[p], op, NewId(p))
    /\ flash'[p].secs = flash[p].secs \/ flash'[p].secs = work[p]

\* Every step moves so.
LEMMA StepMoves ==
  ASSUME Shape, NEW h \in Handlers, AStep(h)
  PROVE  Moved
<1>1. ASSUME UNCHANGED <<flash, work>>
      PROVE  Moved
  BY <1>1 DEF Moved
<1>2. CASE Reject(h) \/ Begin(h) \/ ParseFails(h) \/ Read(h) \/ ReadFails(h)
  BY <1>1, <1>2 DEF Reject, Begin, ParseFails, Read, ReadFails
<1>3. CASE EnsurePackage(h)
  BY <1>3 DEF EnsurePackage, Moved, Shape
<1>4. CASE EnsureFails(h) \/ PackageStaged(h) \/ Finish(h) \/ RevertFails(h)
  BY <1>1, <1>4 DEF EnsureFails, PackageStaged, Finish, RevertFails
<1>5. CASE ExecStep(h)
  BY <1>5 DEF ExecStep, AfterCall, Moved, Shape
<1>6. CASE StepFails(h)
  BY <1>6 DEF StepFails, AfterCall, Moved, Shape
<1>7. CASE Commit(h)
  BY <1>7 DEF Commit, AfterCommit, Moved, Shape
<1>8. CASE CommitFails(h)
  BY <1>8 DEF CommitFails, AfterCommit, Moved, Shape
<1>9. CASE Revert(h)
  BY <1>9 DEF Revert, Moved, Shape
<1>10. CASE BeginScript(h) \/ BadLine(h) \/ LineRead(h) \/ LineReadFails(h) \/ LineCreateFails(h)
  BY <1>1, <1>10 DEF BeginScript, BadLine, LineRead, LineReadFails, LineCreateFails
<1>11. CASE LineCreates(h)
  BY <1>11 DEF LineCreates, Moved, Shape
<1>12. CASE LineCall(h)
  BY <1>12 DEF LineCall, AfterLine, Moved, Shape
<1>13. CASE LineCallFails(h)
  BY <1>13 DEF LineCallFails, AfterLine, Moved, Shape
<1>14. CASE LineCommit(h)
  BY <1>14 DEF LineCommit, AfterCommit, Moved, Shape
<1>15. CASE LineCommitFails(h)
  BY <1>15 DEF LineCommitFails, AfterCommit, Moved, Shape
<1>16. CASE LineRevert(h)
  BY <1>16 DEF LineRevert, Moved, Shape
<1>17. CASE LineRevertFails(h)
  BY <1>17 DEF LineRevertFails, Moved, Shape
<1> QED
  BY <1>2, <1>3, <1>4, <1>5, <1>6, <1>7, <1>8, <1>9, <1>10, <1>11, <1>12, <1>13, <1>14,
     <1>15, <1>16, <1>17 DEF AStep, ScriptStep

\* Every step keeps the packages well formed.
LEMMA WellsKept ==
  ASSUME IdsLeft, Shape, Wells, NEW h \in Handlers, AStep(h)
  PROVE  Wells'
<1> SUFFICES ASSUME NEW p \in Names
             PROVE  WellFormed(work'[p]) /\ WellFormed(flash'[p].secs)
    BY DEF Wells, WellFormed
<1>1. WellFormed(work[p]) /\ WellFormed(flash[p].secs)
  BY DEF Wells
<1>2. /\ \/ work'[p] = work[p] \/ work'[p] = flash[p].secs
         \/ \E op : work'[p] = Executed(work[p], op, NewId(p))
      /\ flash'[p].secs = flash[p].secs \/ flash'[p].secs = work[p]
  BY StepMoves DEF Moved
<1>3. IsNew(work[p], NewId(p))
  BY Fresh
<1>4. \A op : WellFormed(Executed(work[p], op, NewId(p)))
  BY <1>1, <1>3, ExecutedWell DEF IsNew
<1> QED
  BY <1>1, <1>2, <1>4

-----------------------------------------------------------------------------
(* How far a script is. *)

\* Where a handler is while it executes a script.
LinePcs == {"line", "create", "reread", "call"}

\* The lines left are the last ones of the script.
Suffix(all, lines) ==
  /\ all \in Scripts /\ lines \in Seq(ToSet(all)) /\ Len(lines) <= Len(all)
  /\ \A i \in 1 .. Len(lines) : lines[i] = all[Len(all) - Len(lines) + i]

\* What is staged and committed once the lines before those left are executed.
Meant(h) ==
  AfterLines(Views(job[h].was.flash, job[h].was.work), script[h].all)
    [Len(script[h].all) - Len(script[h].lines)]

\* The lines left are those of the script, and a result comes at their end.
Scripted(h) ==
  /\ job[h].pc \in LinePcs => Suffix(script[h].all, script[h].lines) /\ script[h].lines # <<>>
  /\ job[h].result = "set_ok" =>
       /\ job[h].pc = "done"
       /\ Suffix(script[h].all, script[h].lines) /\ script[h].lines = <<>>

\* While no line has failed, the packages say what the lines so far mean.
Progress(h) ==
  Latest(h) /\ (job[h].result = "set_ok" \/ (job[h].pc \in LinePcs /\ ~ script[h].failed)) =>
    Views(flash, work) = Meant(h)

\* The call that is next is the one planned on what is staged.
Planning(h) ==
  job[h].pc = "call" =>
    \E id : /\ Line(h).verb \in Reading
            /\ Line(h).verb # "add" => Resolve(work[Line(h).pkg], Line(h).at) = <<id>>
            /\ job[h].plan = CallsOf(work[Line(h).pkg], Line(h), id) /\ job[h].plan # <<>>

ScriptShape ==
  /\ DOMAIN script = Handlers
  /\ \A h \in Handlers : DOMAIN script[h] = {"all", "lines", "failed"}

\* The inductive invariant of ScriptsAreExact.
SInv ==
  /\ Inv /\ Wells /\ ScriptShape
  /\ \A h \in Handlers : Scripted(h) /\ Progress(h) /\ Planning(h)

\* The first line left, and the lines left after it.
LEMMA SuffixTail ==
  ASSUME NEW all, NEW lines, Suffix(all, lines), lines # <<>>
  PROVE  /\ Suffix(all, Tail(lines)) /\ Len(Tail(lines)) = Len(lines) - 1
         /\ Len(lines) \in Nat \ {0} /\ Len(all) \in Nat /\ Len(lines) <= Len(all)
         /\ Head(lines) = all[Len(all) - Len(lines) + 1]
         /\ Head(lines) \in ToSet(all)
         /\ Len(lines) = 1 => Tail(lines) = <<>>
<1> DEFINE S == ToSet(all)
           t == Tail(lines)
<1>1. all \in Seq(S) /\ lines \in Seq(S)
  BY ScriptsAssumption DEF Suffix
<1>2. Len(lines) \in Nat \ {0} /\ Len(all) \in Nat
  <2> HIDE DEF S
  <2> QED
    BY <1>1, EmptySeq
<1>3. t \in Seq(S) /\ Len(t) = Len(lines) - 1 /\ (\A i \in 1 .. Len(t) : t[i] = lines[i + 1])
      /\ Head(lines) = lines[1] /\ lines[1] \in S
  <2> HIDE DEF S
  <2> QED
    BY <1>1, <1>2
<1>4. lines[1] = all[Len(all) - Len(lines) + 1] /\ Len(lines) <= Len(all)
  BY <1>2 DEF Suffix
<1>5. ASSUME NEW i \in 1 .. Len(t)
      PROVE  t[i] = all[Len(all) - Len(t) + i]
  <2>1. t[i] = lines[i + 1] /\ i + 1 \in 1 .. Len(lines)
    BY <1>2, <1>3
  <2>2. lines[i + 1] = all[Len(all) - Len(lines) + (i + 1)]
    BY <2>1 DEF Suffix
  <2>3. Len(all) - Len(lines) + (i + 1) = Len(all) - Len(t) + i
    BY <1>2, <1>3
  <2> QED
    BY <2>1, <2>2, <2>3
<1> HIDE DEF t
<1>6. Suffix(all, t)
  BY <1>2, <1>3, <1>4, <1>5 DEF Suffix
<1>7. Len(lines) = 1 => t = <<>>
  <2> HIDE DEF S
  <2> QED
    BY <1>3, EmptySeq
<1> QED
  BY <1>2, <1>3, <1>4, <1>6, <1>7 DEF t

\* What is meant after one more line.
LEMMA MeantNext ==
  ASSUME NEW views, NEW all, NEW lines, Suffix(all, lines), lines # <<>>
  PROVE  AfterLines(views, all)[Len(all) - Len(Tail(lines))]
           = After(AfterLines(views, all)[Len(all) - Len(lines)], Head(lines))
<1> DEFINE n == Len(all) - Len(lines) + 1
<1>1. /\ Len(all) \in Nat /\ n \in 1 .. Len(all)
      /\ n - 1 = Len(all) - Len(lines) /\ n = Len(all) - Len(Tail(lines))
      /\ Head(lines) = all[n]
  BY SuffixTail
<1> HIDE DEF n
<1>2. AfterLines(views, all)[n] = After(AfterLines(views, all)[n - 1], all[n])
  BY <1>1, AfterLinesDef
<1> QED
  BY <1>1, <1>2

\* What a line that is done makes of its handler.
LEMMA LineDoneIs ==
  ASSUME Shape, ScriptShape, NEW h \in Handlers, NEW ok \in BOOLEAN, LineDone(h, ok)
  PROVE  /\ \A g \in Handlers : g # h => job'[g] = job[g] /\ script'[g] = script[g]
         /\ ScriptShape'
         /\ script'[h].all = script[h].all /\ script'[h].lines = Tail(script[h].lines)
         /\ script'[h].failed = (script[h].failed \/ ~ ok)
         /\ job'[h].was = job[h].was
         /\ job'[h].pc = IF Len(script[h].lines) = 1 THEN "done" ELSE "line"
         /\ job'[h].result = IF Len(script[h].lines) # 1 THEN job[h].result
                             ELSE IF script[h].failed \/ ~ ok THEN "set_error" ELSE "set_ok"
<1> DEFINE failed == script[h].failed \/ ~ ok
           pc == IF Len(script[h].lines) = 1 THEN "done" ELSE "line"
           result == IF Len(script[h].lines) = 1
                     THEN IF failed THEN "set_error" ELSE "set_ok" ELSE job[h].result
<1>1. job' = [job EXCEPT ![h].plan = <<>>, ![h].pc = pc, ![h].result = result]
  BY DEF LineDone
<1>2. script' = [script EXCEPT ![h].lines = Tail(script[h].lines), ![h].failed = failed]
  BY DEF LineDone, ScriptShape
<1>3. job'[h].pc = pc /\ job'[h].result = result /\ job'[h].was = job[h].was
  <2> HIDE DEF pc, result
  <2> QED
    BY <1>1 DEF Shape, Fields
<1>4. /\ ScriptShape'
      /\ script'[h].all = script[h].all /\ script'[h].lines = Tail(script[h].lines)
      /\ script'[h].failed = failed
  <2> HIDE DEF failed
  <2> QED
    BY <1>2 DEF ScriptShape
<1>5. \A g \in Handlers : g # h => job'[g] = job[g] /\ script'[g] = script[g]
  <2> HIDE DEF pc, result, failed
  <2> QED
    BY <1>1, <1>2 DEF Shape, ScriptShape
<1> QED
  BY <1>3, <1>4, <1>5

\* A line that is done has done what it means, or has failed.
LEMMA LineProgress ==
  ASSUME Shape, ScriptShape, NEW h \in Handlers, Scripted(h), Progress(h), job[h].pc \in LinePcs,
         NEW ok \in BOOLEAN, LineDone(h, ok),
         ok => Views(flash', work') = After(Views(flash, work), Line(h))
  PROVE  Scripted(h)' /\ Progress(h)' /\ Planning(h)'
<1> DEFINE all == script[h].all
           lines == script[h].lines
           was == Views(job[h].was.flash, job[h].was.work)
<1>1. /\ \A g \in Handlers : g # h => job'[g] = job[g] /\ script'[g] = script[g]
      /\ script'[h].all = all /\ script'[h].lines = Tail(lines)
      /\ script'[h].failed = (script[h].failed \/ ~ ok)
      /\ job'[h].was = job[h].was
      /\ job'[h].pc = IF Len(lines) = 1 THEN "done" ELSE "line"
      /\ job'[h].result = IF Len(lines) # 1 THEN job[h].result
                          ELSE IF script[h].failed \/ ~ ok THEN "set_error" ELSE "set_ok"
  BY LineDoneIs
<1>2. Suffix(all, lines) /\ lines # <<>>
  BY DEF Scripted
<1>3. job[h].result # "set_ok"
  BY DEF Scripted, LinePcs
<1>4. /\ Suffix(all, Tail(lines)) /\ Len(Tail(lines)) = Len(lines) - 1
      /\ Len(lines) \in Nat \ {0} /\ (Len(lines) = 1 => Tail(lines) = <<>>)
  BY <1>2, SuffixTail
<1>5. Len(lines) # 1 => Tail(lines) # <<>>
  <2>1. Len(<<>>) = 0
    OBVIOUS
  <2> DEFINE t == Tail(lines)
             n == Len(lines)
  <2>2. n \in Nat \ {0} /\ Len(t) = n - 1
    BY <1>4
  <2> HIDE DEF t, n
  <2>3. n # 1 => t # <<>>
    BY <2>1, <2>2
  <2> QED
    BY <2>3 DEF t, n
<1>6. Scripted(h)'
  BY <1>1, <1>3, <1>4, <1>5 DEF Scripted, LinePcs
<1>7. Planning(h)'
  BY <1>1 DEF Planning
<1>8. ASSUME Latest(h)', job'[h].result = "set_ok" \/ (job'[h].pc \in LinePcs /\ ~ script'[h].failed)
      PROVE  Views(flash', work') = Meant(h)'
  <2>1. Latest(h)
    BY <1>1, <1>8 DEF Latest, Handlers
  <2>2. ~ script[h].failed /\ ok
    <3>1. CASE Len(lines) = 1
      BY <1>1, <1>8, <3>1 DEF LinePcs
    <3>2. CASE Len(lines) # 1
      BY <1>1, <1>3, <1>8, <3>2
    <3> QED
      BY <3>1, <3>2
  <2>3. Views(flash, work) = Meant(h)
    BY <2>1, <2>2 DEF Progress
  <2>4. Meant(h)' = AfterLines(was, all)[Len(all) - Len(Tail(lines))]
    BY <1>1 DEF Meant
  <2>5. Meant(h) = AfterLines(was, all)[Len(all) - Len(lines)]
    BY DEF Meant
  <2>6. Meant(h)' = After(Meant(h), Line(h))
    <3>1. AfterLines(was, all)[Len(all) - Len(Tail(lines))]
            = After(AfterLines(was, all)[Len(all) - Len(lines)], Head(lines))
      <4> HIDE DEF was, all, lines
      <4> QED
        BY <1>2, MeantNext
    <3>2. Head(lines) = Line(h)
      BY DEF Line
    <3> HIDE DEF was, all, lines
    <3> QED
      BY <2>4, <2>5, <3>1, <3>2
  <2> QED
    BY <2>2, <2>3, <2>6
<1>9. Progress(h)'
  BY <1>8 DEF Progress
<1> QED
  BY <1>6, <1>7, <1>9

\* What the packages say after a step.
LEMMA ViewsCall ==
  ASSUME Shape, NEW line, line.verb \in Reading, line.pkg \in Names, NEW x,
         View(x) = Meaning(View(work[line.pkg]), line),
         flash' = flash, work' = [work EXCEPT ![line.pkg] = x]
  PROVE  Views(flash', work') = After(Views(flash, work), line)
<1> DEFINE q == line.pkg
           m == Meaning(View(work[q]), line)
<1>1. /\ \A p \in Names : p # q => work'[p] = work[p]
      /\ View(work'[q]) = m
  BY DEF Shape
<1>2. After(Views(flash, work), line) = [Views(flash, work) EXCEPT !.work[q] = Meaning(@, line)]
  BY DEF After, Reading, Adding
<1>3. Views(flash, work).work[q] = View(work[q])
  BY DEF Views
<1>4. After(Views(flash, work), line) = [Views(flash, work) EXCEPT !.work[q] = m]
  BY <1>2, <1>3 DEF Views
<1> HIDE DEF m
<1>5. [p \in Names |-> View(work'[p])] = [[p \in Names |-> View(work[p])] EXCEPT ![q] = m]
  <2> DEFINE w(p) == View(work'[p])
  <2>1. \A p \in Names : w(p) = IF p = q THEN m ELSE View(work[p])
    BY <1>1
  <2> HIDE DEF w
  <2>2. [p \in Names |-> w(p)] = [[p \in Names |-> View(work[p])] EXCEPT ![q] = m]
    BY <2>1
  <2> QED
    BY <2>2 DEF w
<1> QED
  BY <1>4, <1>5 DEF Views

\* A line that means nothing changes nothing.
LEMMA ViewsSame ==
  ASSUME NEW line, line.verb \in Reading, line.pkg \in Names,
         View(work[line.pkg]) = Meaning(View(work[line.pkg]), line)
  PROVE  Views(flash, work) = After(Views(flash, work), line)
<1> DEFINE q == line.pkg
           v == Views(flash, work)
<1>1. v.work[q] = Meaning(v.work[q], line)
  BY DEF Views
<1>2. v = [flash |-> v.flash, work |-> v.work] /\ v.work = [p \in Names |-> v.work[p]]
  BY DEF Views
<1> HIDE DEF v
<1>3. After(v, line) = [v EXCEPT !.work[q] = Meaning(@, line)]
  BY DEF After, Reading, Adding
<1> DEFINE m == Meaning(v.work[q], line)
<1>4. [v EXCEPT !.work[q] = Meaning(@, line)] = [v EXCEPT !.work[q] = m]
  BY <1>2
<1> HIDE DEF m
<1>5. [v EXCEPT !.work[q] = m] = v
  BY <1>1, <1>2 DEF m
<1> QED
  BY <1>3, <1>4, <1>5 DEF v

\* What the packages say after a commit.
LEMMA ViewsCommit ==
  ASSUME Shape, NEW line, line.verb = "commit", line.pkg \in Names,
         work' = work, flash' = AfterCommit(line.pkg)
  PROVE  Views(flash', work') = After(Views(flash, work), line)
<1> DEFINE q == line.pkg
<1>1. \A p \in Names : flash'[p].secs = IF p = q THEN work[q] ELSE flash[p].secs
  BY DEF Shape, AfterCommit
<1>2. After(Views(flash, work), line) = [Views(flash, work) EXCEPT !.flash[q] = View(work[q])]
  BY DEF After, Views
<1>3. [p \in Names |-> View(flash'[p].secs)]
        = [[p \in Names |-> View(flash[p].secs)] EXCEPT ![q] = View(work[q])]
  BY <1>1
<1> QED
  BY <1>2, <1>3 DEF Views

\* What the packages say after a revert.
LEMMA ViewsRevert ==
  ASSUME Shape, NEW line, line.verb = "revert", line.pkg \in Names,
         flash' = flash, work' = [work EXCEPT ![line.pkg] = flash[line.pkg].secs]
  PROVE  Views(flash', work') = After(Views(flash, work), line)
<1> DEFINE q == line.pkg
<1>1. \A p \in Names : work'[p] = IF p = q THEN flash[q].secs ELSE work[p]
  BY DEF Shape
<1>2. After(Views(flash, work), line) = [Views(flash, work) EXCEPT !.work[q] = View(flash[q].secs)]
  BY DEF After, Views
<1>3. [p \in Names |-> View(work'[p])]
        = [[p \in Names |-> View(work[p])] EXCEPT ![q] = View(flash[q].secs)]
  <2> DEFINE w(p) == View(work'[p])
  <2>1. \A p \in Names : w(p) = IF p = q THEN View(flash[q].secs) ELSE View(work[p])
    BY <1>1
  <2> HIDE DEF w
  <2>2. [p \in Names |-> w(p)]
          = [[p \in Names |-> View(work[p])] EXCEPT ![q] = View(flash[q].secs)]
    BY <2>1
  <2> QED
    BY <2>2 DEF w
<1> QED
  BY <1>2, <1>3 DEF Views

\* A step of an Apply is the step of a handler that executes no script.
Applies(h) ==
  /\ \A g \in Handlers : g # h => job'[g] = job[g]
  /\ job[h].pc \notin LinePcs \cup {"done"}
  /\ job'[h].pc \notin LinePcs \cup {"idle"}
  /\ job'[h].result \in {job[h].result, "rejected", "stage_error", "commit_error", "ok"}

\* Every step of an Apply is one.
LEMMA ApplySteps ==
  ASSUME Shape, NEW h \in Handlers, AStep(h), ~ ScriptStep(h)
  PROVE  Applies(h)
<1> USE DEF Shape, Fields, Applies, LinePcs
<1>1. CASE Reject(h)
  BY <1>1 DEF Reject, MayBegin
<1>2. CASE Begin(h)
  <2>1. PICK todo, payload :
          job' = [job EXCEPT ![h].pc = IF todo = <<>> THEN "commit" ELSE "stage",
                             ![h].payload = payload, ![h].todo = todo,
                             ![h].was = [flash |-> flash, work |-> work]]
    BY <1>2, ZenonT(30) DEF Begin
  <2>2. MayBegin(h)
    BY <1>2 DEF Begin
  <2>3. \A g \in Handlers : g # h => job'[g] = job[g]
    BY <2>1
  <2>4. job'[h].pc \in {"commit", "stage"} /\ job'[h].result = job[h].result
    BY <2>1
  <2> QED
    BY <2>2, <2>3, <2>4 DEF MayBegin
<1>3. CASE ParseFails(h)
  BY <1>3 DEF ParseFails, Undo
<1>4. CASE Read(h)
  <2>1. job[h].pc = "stage"
    BY <1>4 DEF Read, MayRead
  <2>2. \A g \in Handlers : g # h => job'[g] = job[g]
    BY <1>4 DEF Read, PlanOn
  <2>3. job'[h].pc = "exec" /\ job'[h].result = job[h].result
    BY <1>4 DEF Read, PlanOn
  <2> QED
    BY <2>1, <2>2, <2>3
<1>5. CASE ReadFails(h)
  <2>1. job[h].pc = "stage"
    BY <1>5 DEF ReadFails, MayRead
  <2>2. \A g \in Handlers : g # h => job'[g] = job[g]
    BY <1>5 DEF ReadFails, PlanOn
  <2>3. job'[h].pc \in {"exec", "ensure"} /\ job'[h].result = job[h].result
    <3>1. CASE WantedTypes(Config(h)) = <<>>
      <4>1. PlanOn(h, <<>>)
        BY <1>5, <3>1 DEF ReadFails
      <4> QED
        BY <4>1 DEF PlanOn
    <3>2. CASE WantedTypes(Config(h)) # <<>>
      <4>1. job' = [job EXCEPT ![h].pc = "ensure"]
        BY <1>5, <3>2 DEF ReadFails
      <4> QED
        BY <4>1
    <3> QED
      BY <3>1, <3>2
  <2> QED
    BY <2>1, <2>2, <2>3
<1>6. CASE EnsurePackage(h)
  BY <1>6 DEF EnsurePackage, PlanOn
<1>7. CASE EnsureFails(h)
  BY <1>7 DEF EnsureFails, Undo
<1>8. CASE ExecStep(h)
  BY <1>8 DEF ExecStep, MayExec
<1>9. CASE StepFails(h)
  BY <1>9 DEF StepFails, Undo
<1>10. CASE PackageStaged(h)
  BY <1>10 DEF PackageStaged
<1>11. CASE Commit(h)
  BY <1>11 DEF Commit
<1>12. CASE CommitFails(h)
  BY <1>12 DEF CommitFails
<1>13. CASE Finish(h)
  BY <1>13 DEF Finish
<1>14. CASE Revert(h)
  BY <1>14 DEF Revert, Reverted
<1>15. CASE RevertFails(h)
  BY <1>15 DEF RevertFails, Reverted
<1> QED
  BY <1>1, <1>2, <1>3, <1>4, <1>5, <1>6, <1>7, <1>8, <1>9, <1>10, <1>11, <1>12, <1>13,
     <1>14, <1>15 DEF AStep

\* A step of a script leaves the other handlers alone, and keeps what is said of its own.
ScriptGoesOn(h) ==
  /\ \A g \in Handlers : g # h => job'[g] = job[g] /\ script'[g] = script[g]
  /\ ScriptShape'
  /\ job[h].pc # "done" /\ job'[h].pc # "idle"
  /\ Scripted(h)' /\ Progress(h)' /\ Planning(h)'

\* A line that is done.
LEMMA LineGoesOn ==
  ASSUME Shape, ScriptShape, NEW h \in Handlers, Scripted(h), Progress(h), job[h].pc \in LinePcs,
         NEW ok \in BOOLEAN, LineDone(h, ok),
         ok => Views(flash', work') = After(Views(flash, work), Line(h))
  PROVE  ScriptGoesOn(h)
<1>1. Scripted(h)' /\ Progress(h)' /\ Planning(h)'
  BY LineProgress
<1>2. /\ \A g \in Handlers : g # h => job'[g] = job[g] /\ script'[g] = script[g]
      /\ ScriptShape' /\ job'[h].pc # "idle"
  BY LineDoneIs
<1> QED
  BY <1>1, <1>2 DEF ScriptGoesOn, LinePcs

\* The line that is executed is one of its script.
LEMMA LineIs ==
  ASSUME AllAddressed, NEW h \in Handlers, Scripted(h), job[h].pc \in LinePcs
  PROVE  Parsed(Line(h)) /\ Addressed(Line(h))
<1>1. Suffix(script[h].all, script[h].lines) /\ script[h].lines # <<>>
  BY DEF Scripted
<1>2. script[h].all \in Scripts /\ Line(h) \in ToSet(script[h].all)
  BY <1>1, SuffixTail DEF Line, Suffix
<1> QED
  BY <1>2, ScriptsAssumption DEF AllAddressed

\* A line that fails: whatever else it does.
LEMMA LineFails ==
  ASSUME Shape, ScriptShape, NEW h \in Handlers, Scripted(h), Progress(h), job[h].pc \in LinePcs,
         LineDone(h, FALSE)
  PROVE  ScriptGoesOn(h)
  BY LineGoesOn

\* What Planned does where no line is done: the calls are planned.
LEMMA PlannedIs ==
  ASSUME NEW h \in Handlers, NEW secs, Planned(h, secs)
  PROVE  \/ LineDone(h, FALSE)
         \/ \E id : /\ Line(h).verb # "add" => Resolve(secs, Line(h).at) = <<id>>
                    /\ IF CallsOf(secs, Line(h), id) = <<>> THEN LineDone(h, TRUE)
                       ELSE /\ job' = [job EXCEPT ![h].pc = "call", ![h].plan = CallsOf(secs, Line(h), id)]
                            /\ UNCHANGED script
<1> DEFINE r == Resolve(secs, Line(h).at)
           calls == IF Line(h).verb = "add" THEN <<Op("add", "", Line(h).arg)>>
                    ELSE LineCalls(secs, Line(h), r[1])
           fails == Line(h).verb # "add" /\ (r = <<>> \/ ~ Gets(secs, Line(h), r[1]))
<1>1. IF fails THEN LineDone(h, FALSE)
      ELSE IF calls = <<>> THEN LineDone(h, TRUE)
      ELSE job' = [job EXCEPT ![h].pc = "call", ![h].plan = calls] /\ UNCHANGED script
  BY Zenon DEF Planned
<1>2. calls = CallsOf(secs, Line(h), r[1])
  BY Zenon DEF CallsOf
<1>3. Line(h).verb # "add" /\ r # <<>> => r = <<r[1]>>
  BY DEF Resolve
<1>4. ~ fails => (Line(h).verb # "add" => r # <<>>)
  OBVIOUS
<1> HIDE DEF calls, fails, r
<1>5. CASE fails
  BY <1>1, <1>5
<1>6. CASE ~ fails
  <2>1. Line(h).verb # "add" => r = <<r[1]>>
    BY <1>3, <1>4, <1>6
  <2>2. IF calls = <<>> THEN LineDone(h, TRUE)
        ELSE job' = [job EXCEPT ![h].pc = "call", ![h].plan = calls] /\ UNCHANGED script
    BY <1>1, <1>6
  <2> QED
    BY <1>2, <2>1, <2>2 DEF r
<1> QED
  BY <1>5, <1>6

\* A script that begins means nothing yet.
LEMMA BeginGoesOn ==
  ASSUME Shape, ScriptShape, Results, NEW h \in Handlers, BeginScript(h)
  PROVE  ScriptGoesOn(h)
<1>1. PICK s \in Scripts :
        /\ script' = [script EXCEPT ![h].all = s, ![h].lines = s]
        /\ job' = [job EXCEPT ![h].pc = IF s = <<>> THEN "done" ELSE "line",
                             ![h].result = IF s = <<>> THEN "set_ok" ELSE job[h].result,
                             ![h].was = [flash |-> flash, work |-> work]]
  BY DEF BeginScript, Shape, Fields
<1>2. /\ \A g \in Handlers : g # h => job'[g] = job[g] /\ script'[g] = script[g]
      /\ ScriptShape' /\ script'[h].all = s /\ script'[h].lines = s
  BY <1>1 DEF Shape, ScriptShape
<1>3. /\ job'[h].pc = IF s = <<>> THEN "done" ELSE "line"
      /\ job'[h].result = IF s = <<>> THEN "set_ok" ELSE job[h].result
      /\ job'[h].was = [flash |-> flash, work |-> work]
  BY <1>1 DEF Shape, Fields
<1>4. job[h].pc = "idle" /\ job[h].result = "none"
  BY DEF BeginScript, MayBegin, Results
<1>5. s \in Seq(ToSet(s)) /\ Len(s) \in Nat
  <2>1. s \in Seq(ToSet(s))
    BY ScriptsAssumption
  <2> QED
    BY <2>1, LenProperties
<1>6. Suffix(s, s)
  BY <1>5 DEF Suffix
<1>7. Scripted(h)'
  BY <1>2, <1>3, <1>4, <1>6 DEF Scripted, LinePcs
<1>8. Planning(h)'
  BY <1>3 DEF Planning
<1>9. Views(flash', work') = Meant(h)'
  <2>1. flash' = flash /\ work' = work
    BY DEF BeginScript
  <2>2. Meant(h)' = AfterLines(Views(flash, work), s)[Len(s) - Len(s)]
    BY <1>2, <1>3 DEF Meant
  <2>3. AfterLines(Views(flash, work), s)[0] = Views(flash, work)
    BY <1>5, AfterLinesDef
  <2>4. Len(s) - Len(s) = 0
    BY <1>5
  <2> QED
    BY <2>1, <2>2, <2>3, <2>4
<1>10. Progress(h)'
  BY <1>9 DEF Progress
<1> QED
  BY <1>2, <1>3, <1>4, <1>7, <1>8, <1>10 DEF ScriptGoesOn

\* A line on its way is no further.
LEMMA OnTheWay ==
  ASSUME Shape, ScriptShape, NEW h \in Handlers, Scripted(h), Progress(h),
         job[h].pc \in LinePcs, NEW pc \in LinePcs \ {"call"}, job' = [job EXCEPT ![h].pc = pc],
         script' = script, work' = work, \A p \in Names : flash'[p].secs = flash[p].secs
  PROVE  ScriptGoesOn(h)
<1>1. /\ \A g \in Handlers : g # h => job'[g] = job[g]
      /\ job'[h].pc = pc /\ job'[h].result = job[h].result /\ job'[h].was = job[h].was
  BY DEF Shape, Fields
<1>2. Scripted(h)' /\ job[h].result # "set_ok"
  BY <1>1 DEF Scripted, LinePcs
<1>3. Planning(h)'
  BY <1>1 DEF Planning
<1>4. Views(flash', work') = Views(flash, work) /\ Meant(h)' = Meant(h)
  BY <1>1 DEF Views, Meant
<1>5. Latest(h)' => Latest(h)
  BY <1>1 DEF Latest, Handlers
<1>6. Progress(h)'
  BY <1>1, <1>2, <1>4, <1>5 DEF Progress
<1> QED
  BY <1>1, <1>2, <1>3, <1>6 DEF ScriptGoesOn, ScriptShape, LinePcs

\* A line that is read, and planned on what is staged.
LEMMA ReadGoesOn ==
  ASSUME IdsLeft, AllAddressed, Shape, ScriptShape, Wells,
         NEW h \in Handlers, Scripted(h), Progress(h), LineRead(h)
  PROVE  ScriptGoesOn(h)
<1> DEFINE line == Line(h)
           a == work[line.pkg]
<1>1. /\ Planned(h, a) /\ line.verb \in Reading
      /\ flash' = flash /\ work' = work /\ job[h].pc \in LinePcs
  BY DEF LineRead, At, LinePcs
<1>2. Parsed(line) /\ Addressed(line)
  BY <1>1, LineIs
<1>3. line.pkg \in Names
  BY <1>1, <1>2 DEF Parsed, Reading, Adding
<1>4. WellFormed(a) /\ IsNew(a, NewId(line.pkg))
  BY <1>3, Fresh DEF Wells
<1>5. CASE LineDone(h, FALSE)
  BY <1>1, <1>5, LineFails
<1>6. ASSUME NEW id, line.verb # "add" => Resolve(a, line.at) = <<id>>,
             CallsOf(a, line, id) = <<>>, LineDone(h, TRUE)
      PROVE  ScriptGoesOn(h)
  <2>1. Meaning(View(a), line) = View(a)
    BY <1>1, <1>2, <1>4, <1>6, NothingMeans
  <2>2. Views(flash, work) = After(Views(flash, work), line)
    BY <1>1, <1>3, <2>1, ViewsSame
  <2> QED
    BY <1>1, <1>6, <2>2, LineGoesOn
<1>7. ASSUME NEW id, line.verb # "add" => Resolve(a, line.at) = <<id>>,
             CallsOf(a, line, id) # <<>>, UNCHANGED script,
             job' = [job EXCEPT ![h].pc = "call", ![h].plan = CallsOf(a, line, id)]
      PROVE  ScriptGoesOn(h)
  <2>1. /\ \A g \in Handlers : g # h => job'[g] = job[g]
        /\ job'[h].pc = "call" /\ job'[h].plan = CallsOf(a, line, id)
        /\ job'[h].result = job[h].result /\ job'[h].was = job[h].was
    BY <1>7 DEF Shape, Fields
  <2>2. Scripted(h)' /\ job[h].result # "set_ok"
    BY <1>1, <1>7, <2>1 DEF Scripted, LinePcs
  <2>3. Planning(h)'
    BY <1>1, <1>7, <2>1 DEF Planning, Line
  <2>4. Views(flash', work') = Views(flash, work) /\ Meant(h)' = Meant(h)
    BY <1>1, <1>7, <2>1 DEF Meant
  <2>5. Latest(h)' => Latest(h)
    BY <2>1 DEF Latest, Handlers
  <2>6. Progress(h)'
    BY <1>1, <1>7, <2>1, <2>2, <2>4, <2>5 DEF Progress
  <2> QED
    BY <1>1, <1>7, <2>1, <2>2, <2>3, <2>6 DEF ScriptGoesOn, ScriptShape, LinePcs
<1>8. \/ LineDone(h, FALSE)
      \/ \E id : /\ line.verb # "add" => Resolve(a, line.at) = <<id>>
                 /\ IF CallsOf(a, line, id) = <<>> THEN LineDone(h, TRUE)
                    ELSE /\ job' = [job EXCEPT ![h].pc = "call", ![h].plan = CallsOf(a, line, id)]
                         /\ UNCHANGED script
  BY <1>1, PlannedIs
<1> HIDE DEF line, a
<1> QED
  BY <1>5, <1>6, <1>7, <1>8

\* The call of a line.
LEMMA CallGoesOn ==
  ASSUME IdsLeft, AllAddressed, Shape, ScriptShape, Wells,
         NEW h \in Handlers, Scripted(h), Progress(h), Planning(h), LineCall(h)
  PROVE  ScriptGoesOn(h)
<1> DEFINE line == Line(h)
           q == line.pkg
           a == work[q]
           op == Head(job[h].plan)
<1>1. /\ job[h].pc = "call" /\ job[h].pc \in LinePcs /\ LineDone(h, TRUE) /\ flash' = flash
      /\ work' = AfterLine(h) /\ Executable(a, op)
  BY DEF LineCall, MayCall, At, LinePcs
<1>2. PICK id : /\ line.verb \in Reading
                /\ line.verb # "add" => Resolve(a, line.at) = <<id>>
                /\ job[h].plan = CallsOf(a, line, id) /\ job[h].plan # <<>>
  BY <1>1 DEF Planning
<1>3. Parsed(line) /\ Addressed(line)
  BY <1>1, LineIs
<1>4. q \in Names
  BY <1>2, <1>3 DEF Parsed, Reading, Adding
<1>5. WellFormed(a) /\ IsNew(a, NewId(q))
  BY <1>4, Fresh DEF Wells
<1>6. View(Executed(a, op, NewId(q))) = Meaning(View(a), line)
  BY <1>1, <1>2, <1>3, <1>5, LineMeans
<1>7. work' = [work EXCEPT ![q] = Executed(a, op, NewId(q))]
  BY <1>1, <1>4 DEF AfterLine, Shape
<1>8. Views(flash', work') = After(Views(flash, work), line)
  BY <1>1, <1>2, <1>4, <1>6, <1>7, ViewsCall
<1> QED
  BY <1>1, <1>8, LineGoesOn

\* A commit line and a revert line.
LEMMA CommitGoesOn ==
  ASSUME AllAddressed, Shape, ScriptShape, NEW h \in Handlers, Scripted(h), Progress(h),
         LineCommit(h) \/ LineRevert(h)
  PROVE  ScriptGoesOn(h)
<1> DEFINE line == Line(h)
<1>1. job[h].pc \in LinePcs /\ LineDone(h, TRUE)
  BY DEF LineCommit, LineRevert, At, LinePcs
<1>2. line.verb \in {"commit", "revert"}
  BY DEF LineCommit, LineRevert
<1>3. line.pkg \in Names
  BY <1>1, <1>2, LineIs DEF Parsed
<1>4. CASE LineCommit(h)
  <2>1. line.verb = "commit" /\ work' = work /\ flash' = AfterCommit(line.pkg)
    BY <1>4 DEF LineCommit
  <2>2. Views(flash', work') = After(Views(flash, work), line)
    BY <1>3, <2>1, ViewsCommit
  <2> QED
    BY <1>1, <2>2, LineGoesOn
<1>5. CASE LineRevert(h)
  <2>1. /\ line.verb = "revert" /\ flash' = flash
        /\ work' = [work EXCEPT ![line.pkg] = flash[line.pkg].secs]
    BY <1>5 DEF LineRevert
  <2>2. Views(flash', work') = After(Views(flash, work), line)
    BY <1>3, <2>1, ViewsRevert
  <2> QED
    BY <1>1, <2>2, LineGoesOn
<1> QED
  BY <1>4, <1>5

\* Every step of a script.
LEMMA ScriptSteps ==
  ASSUME IdsLeft, AllAddressed, Shape, ScriptShape, Results, Wells,
         NEW h \in Handlers, Scripted(h), Progress(h), Planning(h), ScriptStep(h)
  PROVE  ScriptGoesOn(h)
<1>1. CASE BeginScript(h)
  BY <1>1, BeginGoesOn
<1>2. CASE BadLine(h)
  BY <1>2, LineFails DEF BadLine, At, LinePcs
<1>3. CASE LineRead(h)
  BY <1>3, ReadGoesOn
<1>4. CASE LineReadFails(h)
  <2>1. /\ job[h].pc \in LinePcs /\ UNCHANGED <<flash, work>>
        /\ LineDone(h, FALSE) \/ (job' = [job EXCEPT ![h].pc = "create"] /\ script' = script)
    BY <1>4 DEF LineReadFails, At, LinePcs
  <2>2. CASE LineDone(h, FALSE)
    BY <2>1, <2>2, LineFails
  <2>3. CASE job' = [job EXCEPT ![h].pc = "create"] /\ script' = script
    BY <2>1, <2>3, OnTheWay DEF LinePcs
  <2> QED
    BY <2>1, <2>2, <2>3
<1>5. CASE LineCreates(h)
  <2>1. /\ job[h].pc \in LinePcs /\ script' = script /\ work' = work
        /\ job' = [job EXCEPT ![h].pc = "reread"]
        /\ \A p \in Names : flash'[p].secs = flash[p].secs
    BY <1>5 DEF LineCreates, At, LinePcs, Shape
  <2> QED
    BY <2>1, OnTheWay DEF LinePcs
<1>6. CASE LineCreateFails(h)
  BY <1>6, LineFails DEF LineCreateFails, At, LinePcs
<1>7. CASE LineCall(h)
  BY <1>7, CallGoesOn
<1>8. CASE LineCallFails(h)
  BY <1>8, LineFails DEF LineCallFails, At, LinePcs
<1>9. CASE LineCommit(h) \/ LineRevert(h)
  BY <1>9, CommitGoesOn
<1>10. CASE LineCommitFails(h)
  BY <1>10, LineFails DEF LineCommitFails, At, LinePcs
<1>11. CASE LineRevertFails(h)
  BY <1>11, LineFails DEF LineRevertFails, At, LinePcs
<1> QED
  BY <1>1, <1>2, <1>3, <1>4, <1>5, <1>6, <1>7, <1>8, <1>9, <1>10, <1>11 DEF ScriptStep

-----------------------------------------------------------------------------
(* One handler after the other. *)

\* A step leaves the other handlers alone, and the earlier ones have returned.
OthersRest(h) ==
  \A g \in Handlers : g # h =>
    /\ job'[g] = job[g] /\ script'[g] = script[g]
    /\ job[g].pc \in {"idle", "done"}
    /\ Latest(g)' => job[g].pc = "idle"

\* What is said of a handler that is not running stays so.
LEMMA OthersKept ==
  ASSUME SInv, NEW h \in Handlers, OthersRest(h), NEW g \in Handlers, g # h
  PROVE  Scripted(g)' /\ Progress(g)' /\ Planning(g)'
<1>1. /\ job'[g] = job[g] /\ script'[g] = script[g] /\ job[g].pc \in {"idle", "done"}
      /\ Latest(g)' => job[g].pc = "idle"
  BY DEF OthersRest
<1>2. Scripted(g) /\ (job[g].pc = "idle" => job[g].result = "none")
  BY DEF SInv, Inv, Results
<1>3. Scripted(g)'
  BY <1>1, <1>2 DEF Scripted
<1>4. Progress(g)'
  BY <1>1, <1>2 DEF Progress, LinePcs
<1>5. Planning(g)'
  BY <1>1 DEF Planning
<1> QED
  BY <1>3, <1>4, <1>5

\* A handler that takes a step is the only one running.
LEMMA StepsAlone ==
  ASSUME Inv, Inv', NEW h \in Handlers,
         \A g \in Handlers : g # h => job'[g] = job[g] /\ script'[g] = script[g],
         job[h].pc # "done", job'[h].pc # "idle"
  PROVE  OthersRest(h)
<1> SUFFICES ASSUME NEW g \in Handlers, g # h
             PROVE  job[g].pc \in {"idle", "done"} /\ (Latest(g)' => job[g].pc = "idle")
    BY DEF OthersRest
<1>1. g \in Int /\ h \in Int
  BY DEF Handlers
<1>2. CASE g < h
  <2>1. job'[g].pc = "done" /\ job'[g] = job[g]
    BY <1>2 DEF Inv, OneAtATime
  <2>2. ~ Latest(g)'
    BY <1>2 DEF Latest
  <2> QED
    BY <2>1, <2>2
<1>3. CASE h < g
  BY <1>3 DEF Inv, OneAtATime
<1> QED
  BY <1>1, <1>2, <1>3

\* Every step keeps the invariant.
LEMMA NextSInv ==
  Serial /\ AllAddressed /\ SInv /\ IdsLeft /\ [UNext]_uvars => SInv'
<1> SUFFICES ASSUME Serial, AllAddressed, SInv, IdsLeft, [UNext]_uvars
             PROVE  SInv'
    OBVIOUS
<1>1. Inv'
  BY NextInv DEF SInv
<1>2. CASE UNext
  <2>1. PICK h \in Handlers : AStep(h) /\ (ScriptStep(h) \/ (~ ScriptStep(h) /\ script' = script))
    BY <1>2 DEF UNext, Next, AStep
  <2>2. Wells'
    BY <2>1, WellsKept DEF SInv, Inv
  <2>3. /\ ScriptShape' /\ Scripted(h)' /\ Progress(h)' /\ Planning(h)'
        /\ \A g \in Handlers : g # h => job'[g] = job[g] /\ script'[g] = script[g]
        /\ job[h].pc # "done" /\ job'[h].pc # "idle"
    <3>1. CASE ScriptStep(h)
      <4>1. ScriptGoesOn(h)
        BY <3>1, ScriptSteps DEF SInv, Inv
      <4> QED
        BY <4>1 DEF ScriptGoesOn
    <3>2. CASE ~ ScriptStep(h) /\ script' = script
      <4>1. Applies(h)
        BY <2>1, <3>2, ApplySteps DEF SInv, Inv
      <4>2. job[h].result # "set_ok"
        BY <4>1 DEF SInv, Scripted, Applies
      <4>3. job'[h].pc \notin LinePcs /\ job'[h].result # "set_ok"
        BY <4>1, <4>2 DEF Applies
      <4>4. Scripted(h)' /\ Progress(h)' /\ Planning(h)'
        BY <4>3 DEF Scripted, Progress, Planning, LinePcs
      <4> QED
        BY <3>2, <4>1, <4>4 DEF Applies, SInv, ScriptShape
    <3> QED
      BY <2>1, <3>1, <3>2
  <2>4. OthersRest(h)
    BY <1>1, <2>3, StepsAlone DEF SInv
  <2> QED
    BY <1>1, <2>2, <2>3, <2>4, OthersKept DEF SInv
<1>3. CASE UNCHANGED uvars
  <2>1. flash' = flash /\ work' = work /\ job' = job /\ script' = script
    BY <1>3 DEF uvars, vars
  <2>2. Wells' /\ ScriptShape'
    BY <2>1 DEF SInv, Wells, ScriptShape
  <2>3. ASSUME NEW g \in Handlers
        PROVE  Scripted(g)' /\ Progress(g)' /\ Planning(g)'
    <3>1. Scripted(g) /\ Progress(g) /\ Planning(g)
      BY DEF SInv
    <3>2. Scripted(g)' /\ Planning(g)'
      BY <2>1, <3>1 DEF Scripted, Planning, Line
    <3>3. Progress(g)'
      BY <2>1, <3>1 DEF Progress, Meant, Latest
    <3> QED
      BY <3>2, <3>3
  <2> QED
    BY <1>1, <2>2, <2>3 DEF SInv
<1> QED
  BY <1>2, <1>3

\* The initial states satisfy the invariant.
LEMMA InitSInv == UInit => SInv
<1> SUFFICES ASSUME UInit
             PROVE  SInv
    OBVIOUS
<1>1. Wells
  BY ApplierAssumption DEF Wells, UInit, Init
<1>2. ScriptShape
  BY DEF ScriptShape, UInit
<1>3. \A h \in Handlers : job[h].pc = "idle" /\ job[h].result = "none"
  BY DEF UInit, Init
<1>4. \A h \in Handlers : Scripted(h) /\ Progress(h) /\ Planning(h)
  BY <1>3 DEF Scripted, Progress, Planning, LinePcs
<1> QED
  BY <1>1, <1>2, <1>4, InitInv DEF SInv

\* What a script means is what the packages say at its end.
LEMMA SInvExact == SInv => ScriptExact
<1> SUFFICES ASSUME SInv, NEW h \in Handlers, job[h].result = "set_ok", Latest(h)
             PROVE  Views(flash, work)
                      = AfterLines(Views(job[h].was.flash, job[h].was.work), script[h].all)
                          [Len(script[h].all)]
    BY DEF ScriptExact
<1> DEFINE all == script[h].all
<1>1. Views(flash, work) = Meant(h)
  BY DEF SInv, Progress
<1>2. Suffix(all, script[h].lines) /\ script[h].lines = <<>>
  BY DEF SInv, Scripted
<1>3. Len(all) - Len(script[h].lines) = Len(all)
  <2>1. all \in Seq(ToSet(all))
    BY <1>2, ScriptsAssumption DEF Suffix
  <2>2. Len(all) \in Nat
    BY <2>1, LenProperties
  <2> QED
    BY <1>2, <2>2
<1> QED
  BY <1>1, <1>3 DEF Meant

\* With one handler after the other, a uci_set acknowledged as ok has changed what
\* is staged and what is committed, in every package, as its lines mean one after
\* the other, whatever the packages said, the commands before it, and the reads,
\* creations and calls that failed.  The lines are those Addressed has a meaning
\* for, and libuci does not run out of ids.
THEOREM ScriptsAreExact ==
  Serial /\ AllAddressed => (USpec /\ []IdsLeft => []ScriptExact)
<1> SUFFICES ASSUME Serial, AllAddressed
             PROVE  USpec /\ []IdsLeft => []ScriptExact
    OBVIOUS
<1>1. UInit => SInv
  BY InitSInv
<1>2. SInv /\ IdsLeft /\ [UNext]_uvars => SInv'
  BY NextSInv
<1>3. SInv => ScriptExact
  BY SInvExact
<1> QED
  BY <1>1, <1>2, <1>3, PTL DEF USpec

-----------------------------------------------------------------------------
(* A list of calls. *)

\* A list is a function.
LEMMA ListIs ==
  ASSUME NEW a
  PROVE  /\ IsList(a) => /\ Len(a) \in Nat /\ DOMAIN a = 1 .. Len(a)
                         /\ a = [i \in 1 .. Len(a) |-> a[i]]
         /\ \A n \in Nat : a = [i \in 1 .. n |-> a[i]] => IsList(a) /\ Len(a) = n
<1>1. ASSUME IsList(a)
      PROVE  Len(a) \in Nat /\ DOMAIN a = 1 .. Len(a) /\ a = [i \in 1 .. Len(a) |-> a[i]]
  <2> DEFINE S == ToSet(a)
  <2>1. a \in Seq(S)
    BY <1>1 DEF IsList
  <2> HIDE DEF S
  <2> QED
    BY <2>1
<1>2. ASSUME NEW n \in Nat, a = [i \in 1 .. n |-> a[i]]
      PROVE  IsList(a) /\ Len(a) = n
  <2> DEFINE S == ToSet(a)
  <2>1. DOMAIN a = 1 .. n
    BY <1>2
  <2>2. \A i \in 1 .. n : a[i] \in S
    BY <2>1 DEF ToSet
  <2> HIDE DEF S
  <2>3. a \in [1 .. n -> S]
    BY <1>2, <2>2
  <2>4. a \in Seq(S) /\ Len(a) = n
    BY <2>3
  <2> QED
    BY <2>4 DEF IsList, S
<1> QED
  BY <1>1, <1>2

\* Two lists, one after the other.
LEMMA Joined ==
  ASSUME NEW a, NEW b, IsList(a), IsList(b)
  PROVE  /\ IsList(a \o b) /\ Len(a \o b) = Len(a) + Len(b)
         /\ Len(a) \in Nat /\ Len(b) \in Nat
         /\ \A i \in 1 .. Len(a) : (a \o b)[i] = a[i]
         /\ \A i \in 1 .. Len(b) : (a \o b)[Len(a) + i] = b[i]
<1> DEFINE S == ToSet(a) \cup ToSet(b)
<1>1. a \in Seq(S) /\ b \in Seq(S)
  BY DEF IsList
<1> HIDE DEF S
<1>2. /\ a \o b \in Seq(S) /\ Len(a \o b) = Len(a) + Len(b)
      /\ Len(a) \in Nat /\ Len(b) \in Nat
      /\ \A i \in 1 .. Len(a) : (a \o b)[i] = a[i]
      /\ \A i \in 1 .. Len(b) : (a \o b)[Len(a) + i] = b[i]
  BY <1>1
<1>3. IsList(a \o b)
  BY <1>2, Members
<1> QED
  BY <1>2, <1>3

\* The empty list, and a list of one.
LEMMA ShortLists ==
  /\ IsList(<<>>) /\ Len(<<>>) = 0
  /\ \A x : IsList(<<x>>) /\ Len(<<x>>) = 1 /\ <<x>>[1] = x
<1>1. IsList(<<>>) /\ Len(<<>>) = 0
  BY EmptySeq DEF IsList
<1>2. ASSUME NEW x
      PROVE  IsList(<<x>>)
  <2>1. <<x>> = [i \in 1 .. 1 |-> <<x>>[i]]
    OBVIOUS
  <2> QED
    BY <2>1, ListIs
<1> QED
  BY <1>1, <1>2

\* The call that a planned one is: its id "" stands for the section just added.
CallAs(op, last) == IF op.id = NoId /\ op.op # "add" THEN [op EXCEPT !.id = last] ELSE op

\* A call, with whatever id libuci makes up, from the sections and the id last made up
\* to those after it.
Makes(x, op, y) ==
  LET call == CallAs(op, x.last)
  IN  \E id : /\ IsNew(x.secs, id) /\ Executable(x.secs, call)
              /\ y = [secs |-> Executed(x.secs, call, id),
                      last |-> IF call.id = NoId THEN id ELSE x.last]

\* A list of calls.
Leads(x, plan, y) ==
  \E f : /\ f[0] = x /\ f[Len(plan)] = y
         /\ \A i \in 1 .. Len(plan) : Makes(f[i - 1], plan[i], f[i])

\* Nothing, and one call.
LEMMA LeadsShort ==
  ASSUME NEW x, NEW y
  PROVE  /\ Leads(x, <<>>, x)
         /\ Leads(x, <<>>, y) => y = x
         /\ \A op : Leads(x, <<op>>, y) => Makes(x, op, y)
<1> USE ShortLists
<1>1. Leads(x, <<>>, x)
  <2> DEFINE f == [i \in {0} |-> x]
  <2>1. f[0] = x
    OBVIOUS
  <2> HIDE DEF f
  <2> QED
    BY <2>1 DEF Leads
<1>2. Leads(x, <<>>, y) => y = x
  BY DEF Leads
<1>3. ASSUME NEW op, Leads(x, <<op>>, y)
      PROVE  Makes(x, op, y)
  <2>1. PICK f : f[0] = x /\ f[1] = y /\ \A i \in 1 .. 1 : Makes(f[i - 1], <<op>>[i], f[i])
    BY <1>3 DEF Leads
  <2>2. Makes(f[1 - 1], <<op>>[1], f[1])
    BY <2>1
  <2>3. 1 - 1 = 0
    OBVIOUS
  <2> QED
    BY <2>1, <2>2, <2>3
<1> QED
  BY <1>1, <1>2, <1>3

\* Two lists of calls.
LEMMA LeadsSplit ==
  ASSUME NEW a, NEW b, IsList(a), IsList(b), NEW x, NEW z, Leads(x, a \o b, z)
  PROVE  \E y : Leads(x, a, y) /\ Leads(y, b, z)
<1> DEFINE c == a \o b
           m == Len(a)
           n == Len(b)
<1>1. /\ Len(c) = m + n /\ m \in Nat /\ n \in Nat
      /\ \A i \in 1 .. m : c[i] = a[i]
      /\ \A i \in 1 .. n : c[m + i] = b[i]
  BY Joined
<1>2. PICK f : /\ f[0] = x /\ f[Len(c)] = z
               /\ \A i \in 1 .. Len(c) : Makes(f[i - 1], c[i], f[i])
  BY DEF Leads
<1> HIDE DEF c
<1>3. Leads(x, a, f[m])
  <2>1. \A i \in 1 .. m : Makes(f[i - 1], a[i], f[i])
    BY <1>1, <1>2
  <2> QED
    BY <1>2, <2>1 DEF Leads
<1>4. Leads(f[m], b, z)
  <2> DEFINE g == [i \in 0 .. n |-> f[m + i]]
  <2>1. g[0] = f[m] /\ g[n] = z
    BY <1>1, <1>2
  <2>2. ASSUME NEW i \in 1 .. n
        PROVE  Makes(g[i - 1], b[i], g[i])
    <3>1. m + i \in 1 .. Len(c) /\ i - 1 \in 0 .. n /\ i \in 0 .. n /\ m + (i - 1) = m + i - 1
      BY <1>1
    <3>2. Makes(f[m + i - 1], c[m + i], f[m + i])
      BY <1>2, <3>1
    <3>3. g[i - 1] = f[m + i - 1] /\ g[i] = f[m + i]
      BY <3>1
    <3> QED
      BY <1>1, <3>2, <3>3
  <2> HIDE DEF g
  <2> QED
    BY <2>1, <2>2 DEF Leads
<1> QED
  BY <1>3, <1>4

\* One more call.
LEMMA LeadsOn ==
  ASSUME NEW a, IsList(a), NEW x, NEW y, NEW z, NEW op, Leads(x, a, y), Makes(y, op, z)
  PROVE  Leads(x, Append(a, op), z)
<1> DEFINE n == Len(a)
<1>1. PICK f : f[0] = x /\ f[n] = y /\ \A i \in 1 .. n : Makes(f[i - 1], a[i], f[i])
  BY DEF Leads
<1>2. /\ n \in Nat /\ Len(Append(a, op)) = n + 1
      /\ \A i \in 1 .. n : Append(a, op)[i] = a[i]
      /\ Append(a, op)[n + 1] = op
  <2> DEFINE S == ToSet(a) \cup {op}
  <2>1. a \in Seq(S) /\ op \in S
    BY DEF IsList
  <2> HIDE DEF S
  <2> QED
    BY <2>1
<1> DEFINE g == [i \in 0 .. n + 1 |-> IF i <= n THEN f[i] ELSE z]
           b == Append(a, op)
<1>3. g[0] = x /\ g[n + 1] = z
  BY <1>1, <1>2
<1>4. ASSUME NEW i \in 1 .. n + 1
      PROVE  Makes(g[i - 1], b[i], g[i])
  <2>1. i - 1 \in 0 .. n + 1 /\ i \in 0 .. n + 1 /\ i - 1 <= n
    BY <1>2
  <2>2. g[i - 1] = f[i - 1] /\ g[i] = IF i <= n THEN f[i] ELSE z
    BY <2>1
  <2> HIDE DEF g, b
  <2>3. CASE i <= n
    <3>1. i \in 1 .. n
      BY <1>2, <2>3
    <3> QED
      BY <1>1, <1>2, <2>2, <2>3, <3>1 DEF b
  <2>4. CASE i = n + 1
    <3>1. i - 1 = n /\ ~ (i <= n)
      BY <1>2, <2>4
    <3>2. g[i - 1] = y /\ g[i] = z /\ b[i] = op
      BY <1>1, <1>2, <2>2, <2>4, <3>1 DEF b
    <3> QED
      BY <3>2
  <2> QED
    BY <1>2, <2>3, <2>4
<1> HIDE DEF g
<1> QED
  BY <1>2, <1>3, <1>4 DEF Leads

-----------------------------------------------------------------------------
(* Lists of lists. *)

AreLists(ss) == IsList(ss) /\ \A i \in DOMAIN ss : IsList(ss[i])

\* The function that FlattenSeq defines: the lists up to each one, joined.
Flat(ss) ==
  CHOOSE f : f = [i \in 1 .. Len(ss) |-> IF i = 1 THEN ss[i] ELSE f[i - 1] \o ss[i]]

\* Flat goes through the lists as FlattenSeq does.
LEMMA FlattenIs == \A ss : FlattenSeq(ss) = IF Len(ss) = 0 THEN ss ELSE Flat(ss)[Len(ss)]
  BY Zenon DEF FlattenSeq, Flat

\* The recursion has a solution.
LEMMA FlatDef ==
  ASSUME NEW ss, Len(ss) \in Nat
  PROVE  Flat(ss) = [i \in 1 .. Len(ss) |-> IF i = 1 THEN ss[i] ELSE Flat(ss)[i - 1] \o ss[i]]
<1> DEFINE Step(f, m) == IF m = 1 THEN ss[m] ELSE f[m - 1] \o ss[m]
           Solved(k) == \E f : f = [m \in 1 .. k |-> Step(f, m)]
           T == {k \in Nat : ~ Solved(k)}
<1>1. SUFFICES T = {}
  BY DEF Flat
<1>2. SUFFICES ASSUME T # {}
               PROVE  FALSE
  OBVIOUS
<1>3. PICK k \in Nat : ~ Solved(k) /\ \A j \in Nat : ~ Solved(j) => k <= j
  <2>1. T \in SUBSET Nat
    OBVIOUS
  <2>2. PICK k \in T : \A j \in T : k <= j
    <3> HIDE DEF T
    <3> QED
      BY <1>2, <2>1, Least
  <2> HIDE DEF Solved
  <2> QED
    BY <2>2
<1>4. k # 0
  <2>1. [m \in 1 .. 0 |-> 0] = [m \in 1 .. 0 |-> Step([j \in 1 .. 0 |-> 0], m)]
    OBVIOUS
  <2> QED
    BY <1>3, <2>1
<1>5. PICK f : f = [m \in 1 .. k - 1 |-> Step(f, m)]
  <2>1. Solved(k - 1)
    <3> HIDE DEF Solved
    <3> QED
      BY <1>3, <1>4
  <2> QED
    BY <2>1
<1> DEFINE g == [m \in 1 .. k |-> IF m < k THEN f[m] ELSE Step(f, k)]
<1>6. ASSUME NEW m \in 1 .. k
      PROVE  g[m] = Step(g, m)
  <2>1. m # 1 => g[m - 1] = f[m - 1]
    BY <1>3
  <2>2. Step(g, m) = Step(f, m)
    BY <2>1
  <2>3. m < k => f[m] = Step(f, m)
    <3>1. m < k => m \in 1 .. k - 1
      BY <1>3
    <3> HIDE DEF Step
    <3> QED
      BY <1>5, <3>1
  <2> QED
    BY <2>2, <2>3, <1>3
<1>7. g = [m \in 1 .. k |-> Step(g, m)]
  BY <1>6
<1> QED
  BY <1>3, <1>7

\* The values of the function.
LEMMA FlatAt ==
  ASSUME NEW ss, Len(ss) \in Nat, NEW i \in 1 .. Len(ss)
  PROVE  Flat(ss)[i] = IF i = 1 THEN ss[i] ELSE Flat(ss)[i - 1] \o ss[i]
<1> DEFINE f == Flat(ss)
           v(m) == IF m = 1 THEN ss[m] ELSE f[m - 1] \o ss[m]
<1>1. f = [m \in 1 .. Len(ss) |-> v(m)]
  BY FlatDef
<1> HIDE DEF f, v
<1>2. f[i] = v(i)
  BY <1>1
<1> QED
  BY <1>2 DEF f, v

\* What is joined has the elements of its parts, and no others.
Elements(a, ss, k) ==
  /\ \A j \in DOMAIN a : \E i \in 1 .. k : \E n \in DOMAIN ss[i] : ss[i][n] = a[j]
  /\ \A i \in 1 .. k : \A n \in DOMAIN ss[i] : \E j \in DOMAIN a : ss[i][n] = a[j]

\* The elements of two lists that are joined.
LEMMA JoinedElements ==
  ASSUME NEW ss, NEW k \in Nat, k >= 1, NEW a, IsList(a), IsList(ss[k]), Elements(a, ss, k - 1)
  PROVE  IsList(a \o ss[k]) /\ Elements(a \o ss[k], ss, k)
<1> DEFINE b == ss[k]
           c == a \o b
<1>1. /\ IsList(c) /\ Len(c) = Len(a) + Len(b)
      /\ Len(a) \in Nat /\ Len(b) \in Nat
      /\ \A i \in 1 .. Len(a) : c[i] = a[i]
      /\ \A i \in 1 .. Len(b) : c[Len(a) + i] = b[i]
  BY Joined
<1>2. DOMAIN a = 1 .. Len(a) /\ DOMAIN b = 1 .. Len(b) /\ DOMAIN c = 1 .. Len(c)
  BY <1>1, ListIs
<1> HIDE DEF c
<1>3. ASSUME NEW j \in DOMAIN c
      PROVE  \E i \in 1 .. k : \E n \in DOMAIN ss[i] : ss[i][n] = c[j]
  <2>1. CASE j <= Len(a)
    <3>1. j \in DOMAIN a /\ c[j] = a[j]
      BY <1>1, <1>2, <2>1
    <3>2. PICK i \in 1 .. k - 1 : \E n \in DOMAIN ss[i] : ss[i][n] = a[j]
      BY <3>1 DEF Elements
    <3> QED
      BY <3>1, <3>2
  <2>2. CASE ~ (j <= Len(a))
    <3> DEFINE n == j - Len(a)
    <3>1. n \in 1 .. Len(b) /\ Len(a) + n = j
      BY <1>1, <1>2, <2>2
    <3>2. n \in DOMAIN ss[k] /\ ss[k][n] = c[j]
      BY <1>1, <1>2, <3>1
    <3> QED
      BY <3>2
  <2> QED
    BY <2>1, <2>2
<1>4. ASSUME NEW i \in 1 .. k, NEW n \in DOMAIN ss[i]
      PROVE  \E j \in DOMAIN c : ss[i][n] = c[j]
  <2>1. CASE i = k
    <3>1. Len(a) + n \in DOMAIN c /\ c[Len(a) + n] = b[n]
      BY <1>1, <1>2, <2>1
    <3> QED
      BY <2>1, <3>1
  <2>2. CASE i # k
    <3>1. i \in 1 .. k - 1
      BY <2>2
    <3>2. PICK j \in DOMAIN a : ss[i][n] = a[j]
      BY <3>1 DEF Elements
    <3>3. j \in DOMAIN c /\ c[j] = a[j]
      BY <1>1, <1>2
    <3> QED
      BY <3>2, <3>3
  <2> QED
    BY <2>1, <2>2
<1> QED
  BY <1>1, <1>3, <1>4 DEF Elements, c

\* The first k lists, one after the other, have the elements of these lists.
LEMMA FlatElements ==
  ASSUME NEW ss, AreLists(ss), NEW k \in 1 .. Len(ss)
  PROVE  IsList(Flat(ss)[k]) /\ Elements(Flat(ss)[k], ss, k)
<1> DEFINE Good(n) == n \in 1 .. Len(ss) => IsList(Flat(ss)[n]) /\ Elements(Flat(ss)[n], ss, n)
           T == {n \in Nat : ~ Good(n)}
<1>0. Len(ss) \in Nat /\ \A i \in 1 .. Len(ss) : IsList(ss[i])
  BY ListIs DEF AreLists
<1>1. SUFFICES ASSUME T # {}
               PROVE  FALSE
  BY <1>0
<1>2. PICK n \in Nat : ~ Good(n) /\ \A j \in Nat : ~ Good(j) => n <= j
  <2>1. T \in SUBSET Nat
    OBVIOUS
  <2>2. PICK n \in T : \A j \in T : n <= j
    <3> HIDE DEF T
    <3> QED
      BY <1>1, <2>1, Least
  <2> HIDE DEF Good
  <2> QED
    BY <2>2
<1>3. n \in 1 .. Len(ss)
  BY <1>2
<1>4. Flat(ss)[n] = IF n = 1 THEN ss[n] ELSE Flat(ss)[n - 1] \o ss[n]
  BY <1>0, <1>3, FlatAt
<1>5. CASE n = 1
  <2>1. Flat(ss)[1] = ss[1] /\ IsList(ss[1])
    BY <1>0, <1>3, <1>4, <1>5
  <2>2. Elements(ss[1], ss, 1)
    BY DEF Elements
  <2> QED
    BY <1>2, <1>5, <2>1, <2>2
<1>6. CASE n # 1
  <2>1. n - 1 \in 1 .. Len(ss) /\ n - 1 \in Nat /\ n >= 1
    BY <1>0, <1>3, <1>6
  <2>2. Good(n - 1)
    <3> HIDE DEF Good
    <3> QED
      BY <1>2, <2>1
  <2>3. IsList(Flat(ss)[n - 1]) /\ Elements(Flat(ss)[n - 1], ss, n - 1)
    BY <2>1, <2>2
  <2>4. IsList(ss[n])
    BY <1>0, <1>3
  <2>5. IsList(Flat(ss)[n - 1] \o ss[n]) /\ Elements(Flat(ss)[n - 1] \o ss[n], ss, n)
    BY <2>1, <2>3, <2>4, JoinedElements
  <2> QED
    BY <1>2, <1>4, <1>6, <2>5
<1> QED
  BY <1>5, <1>6

\* A flattened list.
LEMMA Flattened ==
  ASSUME NEW ss, AreLists(ss)
  PROVE  IsList(FlattenSeq(ss)) /\ Elements(FlattenSeq(ss), ss, Len(ss))
<1>1. Len(ss) \in Nat /\ FlattenSeq(ss) = IF Len(ss) = 0 THEN ss ELSE Flat(ss)[Len(ss)]
  BY FlattenIs, ListIs DEF AreLists
<1>2. CASE Len(ss) = 0
  <2>1. IsList(ss) /\ DOMAIN ss = {}
    BY <1>2, ListIs DEF AreLists
  <2> QED
    BY <1>1, <1>2, <2>1 DEF Elements
<1>3. CASE Len(ss) # 0
  BY <1>1, <1>3, FlatElements
<1> QED
  BY <1>2, <1>3

\* A flattened list of calls: from part to part.
Parts(x, ss, k, y, g) ==
  /\ g[0] = x /\ g[k] = y
  /\ \A i \in 1 .. k : Leads(g[i - 1], ss[i], g[i])

\* The calls of one more part.
LEMMA OnePart ==
  ASSUME NEW ss, NEW k \in Nat, NEW x, NEW y, NEW z, NEW g, Parts(x, ss, k, y, g),
         Leads(y, ss[k + 1], z)
  PROVE  \E f : Parts(x, ss, k + 1, z, f)
<1> DEFINE f == [i \in 0 .. k + 1 |-> IF i <= k THEN g[i] ELSE z]
<1>1. f[0] = x /\ f[k + 1] = z
  BY DEF Parts
<1>2. ASSUME NEW i \in 1 .. k + 1
      PROVE  Leads(f[i - 1], ss[i], f[i])
  <2>1. i - 1 \in 0 .. k + 1 /\ i \in 0 .. k + 1 /\ i - 1 <= k
    OBVIOUS
  <2>2. f[i - 1] = g[i - 1] /\ f[i] = IF i <= k THEN g[i] ELSE z
    BY <2>1
  <2> HIDE DEF f
  <2>3. CASE i <= k
    BY <2>2, <2>3 DEF Parts
  <2>4. CASE i = k + 1
    <3>1. f[i - 1] = y /\ f[i] = z
      BY <2>2, <2>4 DEF Parts
    <3> QED
      BY <2>4, <3>1
  <2> QED
    BY <2>3, <2>4
<1> HIDE DEF f
<1> QED
  BY <1>1, <1>2 DEF Parts

\* The calls of all parts, one part after the other.
LEMMA LeadsFlat ==
  ASSUME NEW ss, AreLists(ss), NEW x, NEW y, Leads(x, FlattenSeq(ss), y)
  PROVE  \E g : Parts(x, ss, Len(ss), y, g)
<1> DEFINE Good(n) == n \in 1 .. Len(ss) => \A z : Leads(x, Flat(ss)[n], z) => \E g : Parts(x, ss, n, z, g)
           T == {n \in Nat : ~ Good(n)}
<1>0. Len(ss) \in Nat /\ \A i \in 1 .. Len(ss) : IsList(ss[i])
  BY ListIs DEF AreLists
<1>1. \A g : g[0] = x => Parts(x, ss, 0, x, g)
  BY DEF Parts
<1>2. \E g : Parts(x, ss, 0, x, g)
  <2> DEFINE g == [i \in {0} |-> x]
  <2>1. g[0] = x
    OBVIOUS
  <2> HIDE DEF g
  <2> QED
    BY <1>1, <2>1
<1>3. T = {}
  <2>1. SUFFICES ASSUME T # {}
                 PROVE  FALSE
    OBVIOUS
  <2>2. PICK n \in Nat : ~ Good(n) /\ \A j \in Nat : ~ Good(j) => n <= j
    <3>1. T \in SUBSET Nat
      OBVIOUS
    <3>2. PICK n \in T : \A j \in T : n <= j
      <4> HIDE DEF T
      <4> QED
        BY <2>1, <3>1, Least
    <3> HIDE DEF Good
    <3> QED
      BY <3>2
  <2>3. n \in 1 .. Len(ss)
    BY <2>2
  <2>4. PICK z : Leads(x, Flat(ss)[n], z) /\ ~ \E g : Parts(x, ss, n, z, g)
    BY <2>2
  <2>5. Flat(ss)[n] = IF n = 1 THEN ss[n] ELSE Flat(ss)[n - 1] \o ss[n]
    BY <1>0, <2>3, FlatAt
  <2>6. CASE n = 1
    <3>1. Leads(x, ss[0 + 1], z) /\ 0 + 1 = n
      BY <2>4, <2>5, <2>6
    <3> QED
      BY <1>2, <2>4, <3>1, OnePart
  <2>7. CASE n # 1
    <3>1. n - 1 \in 1 .. Len(ss) /\ n - 1 \in Nat /\ (n - 1) + 1 = n
      BY <1>0, <2>3, <2>7
    <3>2. Good(n - 1)
      <4> HIDE DEF Good
      <4> QED
        BY <2>2, <3>1
    <3>3. IsList(Flat(ss)[n - 1]) /\ IsList(ss[n])
      BY <1>0, <2>3, <3>1, FlatElements
    <3>4. PICK m : Leads(x, Flat(ss)[n - 1], m) /\ Leads(m, ss[n], z)
      BY <2>4, <2>5, <2>7, <3>3, LeadsSplit
    <3>5. PICK g : Parts(x, ss, n - 1, m, g)
      BY <3>1, <3>2, <3>4
    <3> QED
      BY <2>4, <3>1, <3>4, <3>5, OnePart
  <2> QED
    BY <2>6, <2>7
<1>4. FlattenSeq(ss) = IF Len(ss) = 0 THEN ss ELSE Flat(ss)[Len(ss)]
  BY FlattenIs
<1>5. CASE Len(ss) = 0
  <2>1. y = x
    BY <1>4, <1>5 DEF Leads
  <2> QED
    BY <1>2, <1>5, <2>1
<1>6. CASE Len(ss) # 0
  <2>1. Good(Len(ss))
    <3> HIDE DEF Good
    <3> QED
      BY <1>0, <1>3
  <2> QED
    BY <1>0, <1>4, <1>6, <2>1
<1> QED
  BY <1>5, <1>6

-----------------------------------------------------------------------------
(* What an apply in replace mode deletes. *)

\* A list has the elements of another one at some positions.
Selects(b, a, I) ==
  /\ IsList(b) /\ DOMAIN b = 1 .. Len(b)
  /\ \A k \in DOMAIN b : \E i \in DOMAIN a : i \in I /\ b[k] = a[i]
  /\ \A i \in DOMAIN a : i \in I => \E k \in DOMAIN b : b[k] = a[i]

\* A selection has the selected elements.
LEMMA SelectedElements ==
  ASSUME NEW a, Len(a) \in Nat, DOMAIN a = 1 .. Len(a), NEW I
  PROVE  Selects(Selected(a, I), a, I)
<1> DEFINE at == Ascending(Len(a), I)
           b == Selected(a, I)
<1>1. /\ InOrder(at, I \cap DOMAIN a) /\ Len(at) \in Nat
      /\ DOMAIN b = 1 .. Len(at) /\ Len(b) = Len(at)
  BY SelectedIs
<1>2. \A k \in 1 .. Len(at) : b[k] = a[at[k]]
  BY SelectedAt
<1>3. b = [k \in 1 .. Len(at) |-> b[k]]
  BY <1>1 DEF Selected
<1> HIDE DEF at, b
<1>4. IsList(b)
  BY <1>1, <1>3, ListIs
<1>5. \A k \in 1 .. Len(at) : at[k] \in I /\ at[k] \in DOMAIN a
  BY <1>1 DEF InOrder
<1>6. \A i \in DOMAIN a : i \in I => \E k \in 1 .. Len(at) : at[k] = i
  BY <1>1 DEF InOrder
<1> QED
  BY <1>1, <1>2, <1>4, <1>5, <1>6 DEF b, Selects

\* Every section has its type among the types.
LEMMA TypesListed ==
  ASSUME NEW a, WellFormed(a)
  PROVE  /\ IsList(SectionTypes(a))
         /\ \A i \in DOMAIN a : \E k \in DOMAIN SectionTypes(a) : SectionTypes(a)[k] = a[i].type
<1> DEFINE I == {i \in DOMAIN a : \A j \in 1 .. i - 1 : a[j].type # a[i].type}
           first == Selected(a, I)
           types == [i \in DOMAIN first |-> first[i].type]
<1>1. Len(a) \in Nat /\ DOMAIN a = 1 .. Len(a)
  BY Sections
<1>2. /\ IsList(first) /\ DOMAIN first = 1 .. Len(first)
      /\ \A i \in DOMAIN a : i \in I => \E k \in DOMAIN first : first[k] = a[i]
  <2> HIDE DEF I
  <2> QED
    BY <1>1, SelectedElements DEF Selects
<1>3. SectionTypes(a) = types
  BY DEF SectionTypes
<1>4. ASSUME NEW i \in DOMAIN a
      PROVE  \E k \in DOMAIN types : types[k] = a[i].type
  <2> DEFINE T == {j \in Nat : j \in DOMAIN a /\ a[j].type = a[i].type}
  <2>1. T \in SUBSET Nat /\ T # {}
    BY <1>1
  <2>2. PICK j \in T : \A m \in T : j <= m
    <3> HIDE DEF T
    <3> QED
      BY <2>1, Least
  <2>3. j \in I /\ a[j].type = a[i].type
    BY <1>1, <2>2
  <2> HIDE DEF I, first, T
  <2>4. PICK k \in DOMAIN first : first[k] = a[j]
    BY <1>2, <2>2, <2>3 DEF T
  <2> QED
    BY <2>3, <2>4
<1>5. IsList(types)
  <2> HIDE DEF first
  <2>1. Len(first) \in Nat
    BY <1>2, ListIs
  <2>2. types = [i \in 1 .. Len(first) |-> types[i]]
    BY <1>2
  <2> HIDE DEF types
  <2> QED
    BY <2>1, <2>2, ListIs
<1> HIDE DEF types
<1> QED
  BY <1>3, <1>4, <1>5

\* The calls that delete the sections that are not kept.
Deletes(op, s) == op.op = "delete" /\ op.id = s.id
Unwanted(s, keep) == s.anon \/ s.id \notin keep

\* The calls that delete the unwanted sections, and nothing else.
LEMMA DeletesAll ==
  ASSUME NEW a, WellFormed(a), NEW keep
  PROVE  LET D == DeleteUnwanted(a, keep)
         IN  /\ IsList(D)
             /\ \A j \in DOMAIN D : \E i \in DOMAIN a : Unwanted(a[i], keep) /\ Deletes(D[j], a[i])
             /\ \A i \in DOMAIN a : Unwanted(a[i], keep) => \E j \in DOMAIN D : Deletes(D[j], a[i])
<1> DEFINE types == SectionTypes(a)
           I(t) == {i \in DOMAIN a : LET s == a[i] IN s.type = t /\ (s.anon \/ s.id \notin keep)}
           unwanted(t) == Selected(a, I(t))
           deletes(t) == [i \in DOMAIN unwanted(t) |-> Op("delete", unwanted(t)[i].id, "")]
           ss == [i \in DOMAIN types |-> deletes(types[i])]
           D == DeleteUnwanted(a, keep)
<1>1. Len(a) \in Nat /\ DOMAIN a = 1 .. Len(a)
  BY Sections
<1>2. D = FlattenSeq(ss)
  BY DEF DeleteUnwanted
<1>3. /\ IsList(types) /\ DOMAIN types = 1 .. Len(types) /\ Len(types) \in Nat
      /\ \A i \in DOMAIN a : \E k \in DOMAIN types : types[k] = a[i].type
  BY TypesListed, ListIs
<1>4. ASSUME NEW t
      PROVE  /\ IsList(deletes(t)) /\ DOMAIN deletes(t) = DOMAIN unwanted(t)
             /\ \A n \in DOMAIN deletes(t) : \E i \in DOMAIN a : Unwanted(a[i], keep) /\ Deletes(deletes(t)[n], a[i])
             /\ \A i \in DOMAIN a : Unwanted(a[i], keep) /\ a[i].type = t =>
                  \E n \in DOMAIN deletes(t) : Deletes(deletes(t)[n], a[i])
  <2> DEFINE u == unwanted(t)
             d == deletes(t)
  <2>1. /\ IsList(u) /\ DOMAIN u = 1 .. Len(u)
        /\ \A k \in DOMAIN u : \E i \in DOMAIN a : i \in I(t) /\ u[k] = a[i]
        /\ \A i \in DOMAIN a : i \in I(t) => \E k \in DOMAIN u : u[k] = a[i]
    <3>1. Selects(u, a, I(t))
      BY <1>1, SelectedElements
    <3> HIDE DEF I, u
    <3> QED
      BY <3>1 DEF Selects
  <2>2. \A i \in DOMAIN a : i \in I(t) <=> a[i].type = t /\ Unwanted(a[i], keep)
    BY DEF Unwanted
  <2> HIDE DEF u, I
  <2>3. DOMAIN d = DOMAIN u /\ \A k \in DOMAIN u : d[k] = Op("delete", u[k].id, "")
    BY DEF u
  <2>4. \A k \in DOMAIN u : d[k].op = "delete" /\ d[k].id = u[k].id
    <3> HIDE DEF d
    <3>1. PICK none : \A k \in DOMAIN u : d[k] = Op("delete", u[k].id, none)
      BY <2>3
    <3>2. \A id : Op("delete", id, none).op = "delete" /\ Op("delete", id, none).id = id
      BY OpFields
    <3> QED
      BY <3>1, <3>2
  <2>5. Len(u) \in Nat /\ d = [k \in 1 .. Len(u) |-> d[k]]
    BY <2>1, ListIs DEF u
  <2> HIDE DEF d
  <2>6. IsList(d)
    BY <2>5, ListIs
  <2> HIDE DEF unwanted, deletes
  <2>7. DOMAIN d = DOMAIN u
    BY <2>3
  <2>8. ASSUME NEW n \in DOMAIN d
        PROVE  \E i \in DOMAIN a : Unwanted(a[i], keep) /\ Deletes(d[n], a[i])
    <3>1. PICK i \in DOMAIN a : i \in I(t) /\ u[n] = a[i]
      BY <2>1, <2>7
    <3> QED
      BY <2>2, <2>4, <2>7, <3>1 DEF Deletes
  <2>9. ASSUME NEW i \in DOMAIN a, Unwanted(a[i], keep), a[i].type = t
        PROVE  \E n \in DOMAIN d : Deletes(d[n], a[i])
    <3>1. PICK k \in DOMAIN u : u[k] = a[i]
      BY <2>1, <2>2, <2>9
    <3> QED
      BY <2>4, <2>7, <3>1 DEF Deletes
  <2> QED
    BY <2>6, <2>7, <2>8, <2>9 DEF d, u
<1> HIDE DEF types, deletes
<1>5. DOMAIN ss = DOMAIN types /\ \A k \in DOMAIN types : ss[k] = deletes(types[k])
  OBVIOUS
<1>6. ss = [k \in 1 .. Len(types) |-> ss[k]]
  BY <1>3
<1> HIDE DEF ss
<1>7. IsList(ss) /\ Len(ss) = Len(types)
  BY <1>3, <1>6, ListIs
<1>8. AreLists(ss)
  BY <1>4, <1>5, <1>7 DEF AreLists
<1>9. IsList(D) /\ Elements(D, ss, Len(ss))
  BY <1>2, <1>8, Flattened
<1> HIDE DEF D
<1>10. ASSUME NEW j \in DOMAIN D
       PROVE  \E i \in DOMAIN a : Unwanted(a[i], keep) /\ Deletes(D[j], a[i])
  <2>1. PICK k \in 1 .. Len(ss) : \E n \in DOMAIN ss[k] : ss[k][n] = D[j]
    BY <1>9 DEF Elements
  <2>2. k \in DOMAIN types /\ ss[k] = deletes(types[k])
    BY <1>3, <1>5, <1>7
  <2> QED
    BY <1>4, <2>1, <2>2
<1>11. ASSUME NEW i \in DOMAIN a, Unwanted(a[i], keep)
       PROVE  \E j \in DOMAIN D : Deletes(D[j], a[i])
  <2>1. PICK k \in DOMAIN types : types[k] = a[i].type
    BY <1>3
  <2>2. PICK n \in DOMAIN deletes(types[k]) : Deletes(deletes(types[k])[n], a[i])
    BY <1>4, <1>11, <2>1
  <2>3. k \in 1 .. Len(ss) /\ ss[k] = deletes(types[k])
    BY <1>3, <1>5, <1>7
  <2>4. PICK j \in DOMAIN D : ss[k][n] = D[j]
    BY <1>9, <2>2, <2>3 DEF Elements
  <2> QED
    BY <2>2, <2>3, <2>4
<1> QED
  BY <1>9, <1>10, <1>11 DEF D

\* A call that deletes leaves the other sections.
LosesId(a, b, id) ==
  /\ WellFormed(b)
  /\ \A k \in DOMAIN b : \E i \in DOMAIN a : a[i] = b[k] /\ a[i].id # id
  /\ \A i \in DOMAIN a : a[i].id # id => \E k \in DOMAIN b : b[k] = a[i]

\* A call that deletes a section takes its id away.
LEMMA DeletedOne ==
  ASSUME NEW x, NEW y, WellFormed(x.secs), NEW op, op.op = "delete", op.id # NoId, Makes(x, op, y)
  PROVE  LosesId(x.secs, y.secs, op.id)
<1> DEFINE a == x.secs
           I == {i \in DOMAIN a : a[i].id # op.id}
<1>1. Len(a) \in Nat /\ DOMAIN a = 1 .. Len(a)
  BY Sections
<1>2. CallAs(op, x.last) = op
  BY DEF CallAs
<1>3. y.secs = Selected(a, I)
  <2>1. PICK id : y.secs = Executed(a, op, id)
    BY <1>2 DEF Makes
  <2> QED
    BY <2>1, ExecutedDelete
<1>4. Selects(Selected(a, I), a, I)
  BY <1>1, SelectedElements
<1>5. WellFormed(y.secs)
  BY <1>3, DropWell
<1>6. \A i \in DOMAIN a : i \in I <=> a[i].id # op.id
  OBVIOUS
<1> HIDE DEF I, a
<1>7. /\ \A k \in DOMAIN y.secs : \E i \in DOMAIN a : a[i] = y.secs[k] /\ i \in I
      /\ \A i \in DOMAIN a : i \in I => \E k \in DOMAIN y.secs : y.secs[k] = a[i]
  BY <1>3, <1>4 DEF Selects
<1> QED
  BY <1>5, <1>6, <1>7 DEF LosesId, a

\* A list of such calls leaves the sections it does not name.
Spared(s, D, n) == \A i \in 1 .. n : D[i].id # s.id
Left(a, b, D, n) ==
  /\ WellFormed(b)
  /\ \A k \in DOMAIN b : \E i \in DOMAIN a : a[i] = b[k] /\ Spared(a[i], D, n)
  /\ \A i \in DOMAIN a : Spared(a[i], D, n) => \E k \in DOMAIN b : b[k] = a[i]

\* So do all of them.
LEMMA DeletedAll ==
  ASSUME NEW x, NEW y, WellFormed(x.secs), NEW D, IsList(D), Leads(x, D, y),
         \A j \in DOMAIN D : D[j].op = "delete" /\ D[j].id # NoId
  PROVE  Left(x.secs, y.secs, D, Len(D))
<1>1. PICK f : /\ f[0] = x /\ f[Len(D)] = y
               /\ \A i \in 1 .. Len(D) : Makes(f[i - 1], D[i], f[i])
  BY DEF Leads
<1>2. Len(D) \in Nat /\ DOMAIN D = 1 .. Len(D)
  BY ListIs
<1> DEFINE Good(n) == n \in 0 .. Len(D) => Left(x.secs, f[n].secs, D, n)
           T == {n \in Nat : ~ Good(n)}
<1>3. T = {}
  <2>1. SUFFICES ASSUME T # {}
                 PROVE  FALSE
    OBVIOUS
  <2>2. PICK n \in Nat : ~ Good(n) /\ \A j \in Nat : ~ Good(j) => n <= j
    <3>1. T \in SUBSET Nat
      OBVIOUS
    <3>2. PICK n \in T : \A j \in T : n <= j
      <4> HIDE DEF T
      <4> QED
        BY <2>1, <3>1, Least
    <3> HIDE DEF Good
    <3> QED
      BY <3>2
  <2>3. n \in 0 .. Len(D)
    BY <2>2
  <2>4. CASE n = 0
    <3>1. \A s : Spared(s, D, 0)
      BY DEF Spared
    <3>2. Left(x.secs, x.secs, D, 0)
      BY <3>1 DEF Left
    <3> QED
      BY <1>1, <2>2, <2>4, <3>2
  <2>5. CASE n # 0
    <3>1. n - 1 \in Nat /\ n - 1 \in 0 .. Len(D) /\ n \in 1 .. Len(D)
      BY <1>2, <2>3, <2>5
    <3>2. Good(n - 1)
      <4> HIDE DEF Good
      <4> QED
        BY <2>2, <3>1
    <3>3. Left(x.secs, f[n - 1].secs, D, n - 1)
      BY <3>1, <3>2
    <3>4. Makes(f[n - 1], D[n], f[n]) /\ D[n].op = "delete" /\ D[n].id # NoId
      BY <1>1, <1>2, <3>1
    <3>5. LosesId(f[n - 1].secs, f[n].secs, D[n].id)
      BY <3>3, <3>4, DeletedOne DEF Left
    <3>6. \A s : Spared(s, D, n) <=> Spared(s, D, n - 1) /\ D[n].id # s.id
      BY <3>1 DEF Spared
    <3> DEFINE a == x.secs
               b == f[n - 1].secs
               c == f[n].secs
    <3> HIDE DEF a, b, c, Good
    <3>7. \A k \in DOMAIN c : \E i \in DOMAIN a : a[i] = c[k] /\ Spared(a[i], D, n)
      <4> SUFFICES ASSUME NEW k \in DOMAIN c
                   PROVE  \E i \in DOMAIN a : a[i] = c[k] /\ Spared(a[i], D, n)
          OBVIOUS
      <4>1. PICK j \in DOMAIN b : b[j] = c[k] /\ b[j].id # D[n].id
        BY <3>5 DEF b, c, LosesId
      <4>2. PICK i \in DOMAIN a : a[i] = b[j] /\ Spared(a[i], D, n - 1)
        BY <3>3 DEF Left, a, b
      <4> QED
        BY <3>6, <4>1, <4>2
    <3>8. \A i \in DOMAIN a : Spared(a[i], D, n) => \E k \in DOMAIN c : c[k] = a[i]
      <4> SUFFICES ASSUME NEW i \in DOMAIN a, Spared(a[i], D, n)
                   PROVE  \E k \in DOMAIN c : c[k] = a[i]
          OBVIOUS
      <4>1. Spared(a[i], D, n - 1) /\ D[n].id # a[i].id
        BY <3>6
      <4>2. PICK j \in DOMAIN b : b[j] = a[i]
        BY <3>3, <4>1 DEF Left, a, b
      <4> QED
        BY <3>5, <4>1, <4>2 DEF b, c, LosesId
    <3> QED
      BY <2>2, <3>5, <3>7, <3>8 DEF Left, LosesId, Good, a, c
  <2> QED
    BY <2>4, <2>5
<1>4. Good(Len(D))
  <2> HIDE DEF Good
  <2> QED
    BY <1>2, <1>3
<1> QED
  BY <1>1, <1>2, <1>4

\* Two packages say the same of a name.
SameName(a, b, n) ==
  /\ n \in DOMAIN View(a).named <=> n \in DOMAIN View(b).named
  /\ n \in DOMAIN View(a).named => View(a).named[n] = View(b).named[n]

\* What is left is the named sections that are kept, as they were.
LEMMA Swept ==
  ASSUME NEW x, NEW y, WellFormed(x.secs), NEW keep, Leads(x, DeleteUnwanted(x.secs, keep), y)
  PROVE  /\ WellFormed(y.secs)
         /\ \A n \in keep : SameName(x.secs, y.secs, n)
         /\ \A n \in DOMAIN View(y.secs).named : n \in keep
         /\ \A t : BareOf(View(y.secs), t) = <<>>
<1> DEFINE D == DeleteUnwanted(x.secs, keep)
           a == x.secs
           b == y.secs
<1>1. /\ IsList(D)
      /\ \A j \in DOMAIN D : \E i \in DOMAIN a : Unwanted(a[i], keep) /\ Deletes(D[j], a[i])
      /\ \A i \in DOMAIN a : Unwanted(a[i], keep) => \E j \in DOMAIN D : Deletes(D[j], a[i])
  BY DeletesAll
<1> HIDE DEF D
<1>2. Len(D) \in Nat /\ DOMAIN D = 1 .. Len(D)
  BY <1>1, ListIs
<1>3. /\ \A i \in DOMAIN a : a[i].id # NoId /\ a[i].anon \in BOOLEAN
      /\ \A i, j \in DOMAIN a : a[i].id = a[j].id => i = j
  BY Sections
<1>4. \A j \in DOMAIN D : D[j].op = "delete" /\ D[j].id # NoId
  BY <1>1, <1>3 DEF Deletes
<1>5. Left(a, b, D, Len(D))
  BY <1>1, <1>4, DeletedAll DEF D
<1>6. \A i \in DOMAIN a : Spared(a[i], D, Len(D)) <=> ~ Unwanted(a[i], keep)
  <2> SUFFICES ASSUME NEW i \in DOMAIN a
               PROVE  Spared(a[i], D, Len(D)) <=> ~ Unwanted(a[i], keep)
      OBVIOUS
  <2>1. Unwanted(a[i], keep) => ~ Spared(a[i], D, Len(D))
    BY <1>1, <1>2 DEF Spared, Deletes
  <2>2. ASSUME ~ Unwanted(a[i], keep), NEW j \in DOMAIN D, D[j].id = a[i].id
        PROVE  FALSE
    <3>1. PICK m \in DOMAIN a : Unwanted(a[m], keep) /\ D[j].id = a[m].id
      BY <1>1 DEF Deletes
    <3>2. m = i
      BY <1>3, <2>2, <3>1
    <3> QED
      BY <2>2, <3>1, <3>2
  <2> QED
    BY <1>2, <2>1, <2>2 DEF Spared
<1>7. WellFormed(b)
  BY <1>5 DEF Left
<1>8. \A k \in DOMAIN b : \E i \in DOMAIN a : a[i] = b[k] /\ ~ a[i].anon /\ a[i].id \in keep
  BY <1>3, <1>5, <1>6 DEF Left, Unwanted
<1>9. \A i \in DOMAIN a : ~ a[i].anon /\ a[i].id \in keep => \E k \in DOMAIN b : b[k] = a[i]
  BY <1>3, <1>5, <1>6 DEF Left, Unwanted
<1>10. /\ \A n : n \in DOMAIN Naming(a) <=> \E i \in DOMAIN a : ~ a[i].anon /\ a[i].id = n
       /\ \A i \in DOMAIN a : ~ a[i].anon => Naming(a)[a[i].id] = <<a[i].type, a[i].opts>>
       /\ \A n : n \in DOMAIN Naming(b) <=> \E i \in DOMAIN b : ~ b[i].anon /\ b[i].id = n
       /\ \A i \in DOMAIN b : ~ b[i].anon => Naming(b)[b[i].id] = <<b[i].type, b[i].opts>>
  BY <1>7, ViewParts
<1> HIDE DEF a, b
<1>11. \A n \in DOMAIN Naming(b) : n \in keep
  BY <1>8, <1>10
<1>12. ASSUME NEW n \in keep
       PROVE  SameName(a, b, n)
  <2>1. ASSUME n \in DOMAIN Naming(a)
        PROVE  n \in DOMAIN Naming(b) /\ Naming(a)[n] = Naming(b)[n]
    <3>1. PICK i \in DOMAIN a : ~ a[i].anon /\ a[i].id = n
      BY <1>10, <2>1
    <3>2. PICK k \in DOMAIN b : b[k] = a[i]
      BY <1>9, <3>1
    <3> QED
      BY <1>10, <3>1, <3>2
  <2>2. ASSUME n \in DOMAIN Naming(b)
        PROVE  n \in DOMAIN Naming(a)
    <3>1. PICK i \in DOMAIN b : ~ b[i].anon /\ b[i].id = n
      BY <1>10, <2>2
    <3> QED
      BY <1>8, <1>10, <3>1
  <2> QED
    BY <2>1, <2>2 DEF SameName, Naming
<1>13. ASSUME NEW t
       PROVE  BareOf(View(b), t) = <<>>
  <2>1. AnonAt(b, t) = {}
    BY <1>8 DEF AnonAt
  <2> QED
    BY <1>7, <2>1, BareEmpty, BareOfIs DEF b
<1> QED
  BY <1>7, <1>11, <1>12, <1>13 DEF a, b, Naming

-----------------------------------------------------------------------------
(* What the calls for one wanted section do. *)

\* The anonymous sections keep their places and their ids.
Extends(a, b) ==
  \A u : \A k \in 1 .. Len(Places(a, u)) :
    k \in 1 .. Len(Places(b, u)) /\ b[Places(b, u)[k]].id = a[Places(a, u)[k]].id

\* One named section is made, or changed, to what x says.
NameSet(a, b, name, x) ==
  /\ WellFormed(b) /\ Extends(a, b)
  /\ \A u : Bare(b, u) = Bare(a, u)
  /\ name \in DOMAIN Naming(b) /\ Naming(b)[name] = x
  /\ \A n : n # name => SameName(a, b, n)

\* The anonymous sections of one type say what the list says.
BareSet(a, b, t, list) ==
  /\ WellFormed(b) /\ Extends(a, b) /\ Naming(b) = Naming(a)
  /\ Bare(b, t) = list
  /\ \A u : u # t => Bare(b, u) = Bare(a, u)

\* Sections that are changed keep their places.
LEMMA PlacesStay ==
  ASSUME NEW a, NEW b, WellFormed(a), WellFormed(b), DOMAIN b = DOMAIN a,
         \A i \in DOMAIN a : /\ b[i].id = a[i].id /\ b[i].anon = a[i].anon
                             /\ a[i].anon => b[i].type = a[i].type
  PROVE  Extends(a, b)
<1> SUFFICES ASSUME NEW u, NEW k \in 1 .. Len(Places(a, u))
             PROVE  k \in 1 .. Len(Places(b, u)) /\ b[Places(b, u)[k]].id = a[Places(a, u)[k]].id
    BY DEF Extends
<1>1. AnonAt(b, u) = AnonAt(a, u)
  <2>1. \A i \in DOMAIN a : b[i].anon /\ b[i].type = u <=> a[i].anon /\ a[i].type = u
    <3>1. \A i \in DOMAIN a : a[i].anon \in BOOLEAN
      BY Sections
    <3> QED
      BY <3>1
  <2> QED
    BY <2>1 DEF AnonAt
<1>2. Places(b, u) = Places(a, u)
  BY <1>1, PlacesInOrder, OrderUnique
<1>3. Places(a, u)[k] \in DOMAIN a
  BY PlacesInOrder DEF AnonAt
<1> QED
  BY <1>2, <1>3

\* So do they when one is added.
LEMMA PlacesGrow ==
  ASSUME NEW a, WellFormed(a), NEW x, WellFormed(Append(a, x))
  PROVE  Extends(a, Append(a, x))
<1> DEFINE b == Append(a, x)
           m == Len(a) + 1
<1>1. /\ Len(a) \in Nat /\ DOMAIN a = 1 .. Len(a) /\ DOMAIN b = 1 .. m
      /\ \A i \in 1 .. Len(a) : b[i] = a[i]
  BY AppendIs, Sections
<1>0. WellFormed(b)
  OBVIOUS
<1> HIDE DEF b
<1>2. m \in DOMAIN b /\ m \notin DOMAIN a /\ m \in Int
  BY <1>1
<1>3. \A i \in DOMAIN a : i < m /\ i \in DOMAIN b /\ b[i] = a[i]
  BY <1>1
<1>4. \A i \in DOMAIN b : i = m \/ i \in DOMAIN a
  BY <1>1
<1> HIDE DEF m
<1>5. SUFFICES ASSUME NEW u
               PROVE  \A k \in 1 .. Len(Places(a, u)) :
                        k \in 1 .. Len(Places(b, u)) /\ b[Places(b, u)[k]].id = a[Places(a, u)[k]].id
  BY DEF Extends, b
<1> DEFINE q == Places(a, u)
<1>6. /\ q \in Seq(Int) /\ Len(q) \in Nat
      /\ \A k \in 1 .. Len(q) : q[k] \in DOMAIN a /\ b[q[k]] = a[q[k]]
  <2>1. q \in [1 .. Len(q) -> AnonAt(a, u)] /\ AnonAt(a, u) \in SUBSET Int /\ Len(q) \in Nat
    BY PlacesInOrder DEF InOrder
  <2>2. \A i \in AnonAt(a, u) : i \in DOMAIN a
    BY DEF AnonAt
  <2> HIDE DEF q
  <2> QED
    BY <1>3, <2>1, <2>2
<1>7. CASE b[m].anon /\ b[m].type = u
  <2>1. AnonAt(b, u) = AnonAt(a, u) \cup {m}
    BY <1>2, <1>3, <1>4, <1>7 DEF AnonAt
  <2>2. Places(b, u) = Append(q, m)
    <3>1. InOrder(Append(q, m), AnonAt(a, u) \cup {m})
      <4>1. \A k \in AnonAt(a, u) : k < m
        BY <1>3 DEF AnonAt
      <4> QED
        BY <4>1, <1>2, PlacesInOrder, AppendInOrder
    <3>2. InOrder(Places(b, u), AnonAt(a, u) \cup {m})
      BY <1>0, <2>1, PlacesInOrder
    <3>3. AnonAt(a, u) \cup {m} \in SUBSET Int
      BY <1>2, PlacesInOrder
    <3> QED
      BY <3>1, <3>2, <3>3, OrderUnique
  <2> HIDE DEF q
  <2>3. Len(Append(q, m)) = Len(q) + 1 /\ \A k \in 1 .. Len(q) : Append(q, m)[k] = q[k]
    BY <1>2, <1>6, AppendProperties
  <2> QED
    BY <1>6, <2>2, <2>3 DEF q
<1>8. CASE ~ (b[m].anon /\ b[m].type = u)
  <2>1. AnonAt(b, u) = AnonAt(a, u)
    BY <1>2, <1>3, <1>4, <1>8 DEF AnonAt
  <2>2. Places(b, u) = q
    BY <1>0, <2>1, PlacesInOrder, OrderUnique
  <2> QED
    BY <1>6, <2>2
<1> QED
  BY <1>7, <1>8

\* From what is extended to what is extended again.
LEMMA ExtendsOn ==
  ASSUME NEW a, NEW b, NEW c, Extends(a, b), Extends(b, c)
  PROVE  Extends(a, c) /\ Extends(a, a)
BY DEF Extends

\* What views say of names and of anonymous sections.
LEMMA NamedSays ==
  ASSUME NEW a, NEW b, WellFormed(a), WellFormed(b), NEW N, View(b) = [View(a) EXCEPT !.named = N]
  PROVE  Naming(b) = N /\ \A u : Bare(b, u) = Bare(a, u)
<1>1. View(a) = [named |-> View(a).named, anon |-> View(a).anon]
  BY ViewRecord
<1>2. View(b) = [named |-> N, anon |-> View(a).anon]
  BY <1>1
<1>3. Naming(b) = N /\ View(b).anon = View(a).anon
  BY <1>2 DEF Naming
<1>4. \A u : BareOf(View(b), u) = BareOf(View(a), u)
  BY <1>3 DEF BareOf
<1> QED
  BY <1>3, <1>4, BareOfIs

\* What a configuration with another list of anonymous sections of one type says.
LEMMA WithSays ==
  ASSUME NEW a, NEW b, WellFormed(a), WellFormed(b), NEW t, NEW list, View(b) = With(View(a), t, list)
  PROVE  Naming(b) = Naming(a) /\ Bare(b, t) = list /\ \A u : u # t => Bare(b, u) = Bare(a, u)
<1> DEFINE A == View(a).anon
           B == [u \in {u \in DOMAIN A \cup {t} : u # t \/ list # <<>>} |-> IF u = t THEN list ELSE A[u]]
<1>1. View(a) = [named |-> View(a).named, anon |-> A]
  BY ViewRecord
<1>2. With(View(a), t, list) = [View(a) EXCEPT !.anon = B]
  BY DEF With
<1> HIDE DEF B
<1>3. View(b).named = View(a).named /\ View(b).anon = B
  BY <1>1, <1>2
<1>4. BareOf(View(b), t) = list
  BY <1>3 DEF BareOf, B
<1>5. \A u : u # t => BareOf(View(b), u) = BareOf(View(a), u)
  BY <1>3 DEF BareOf, B
<1> QED
  BY <1>3, <1>4, <1>5, BareOfIs DEF Naming

\* A call for a named section that exists.
LEMMA CallAtName ==
  ASSUME NEW a, WellFormed(a), NEW op, op.op # "delete", NEW newId,
         NEW p \in DOMAIN a, ~ a[p].anon, a[p].id = op.id
  PROVE  LET c == Changed(a[p], op)
         IN  NameSet(a, Executed(a, op, newId), op.id, <<c.type, c.opts>>)
<1> DEFINE b == Executed(a, op, newId)
           x == <<b[p].type, b[p].opts>>
           N == [Naming(a) EXCEPT ![op.id] = x]
<1>1. /\ WellFormed(b) /\ DOMAIN b = DOMAIN a
      /\ b[p] = Changed(a[p], op) /\ b[p].id = a[p].id /\ b[p].anon = a[p].anon
      /\ \A i \in DOMAIN a : i # p => b[i] = a[i]
  BY ExecutedAt
<1> HIDE DEF b
<1>2. View(b) = [View(a) EXCEPT !.named[a[p].id] = x]
  BY <1>1, ChangeNamed
<1>3. View(b) = [View(a) EXCEPT !.named = N]
  <2>1. View(a) = [named |-> Naming(a), anon |-> View(a).anon]
    BY ViewRecord DEF Naming
  <2> QED
    BY <1>2, <2>1
<1>4. Naming(b) = N /\ \A u : Bare(b, u) = Bare(a, u)
  BY <1>1, <1>3, NamedSays
<1>5. op.id \in DOMAIN Naming(a)
  BY ViewParts
<1>6. op.id \in DOMAIN Naming(b) /\ Naming(b)[op.id] = x
  BY <1>4, <1>5
<1>7. \A n : n # op.id => SameName(a, b, n)
  <2>1. \A n : n # op.id => (n \in DOMAIN Naming(a) <=> n \in DOMAIN Naming(b))
    BY <1>4
  <2>2. \A n : n # op.id /\ n \in DOMAIN Naming(a) => Naming(b)[n] = Naming(a)[n]
    BY <1>4
  <2> QED
    BY <2>1, <2>2 DEF SameName, Naming
<1>8. Extends(a, b)
  BY <1>1, PlacesStay
<1> QED
  BY <1>1, <1>4, <1>6, <1>7, <1>8 DEF NameSet, b

\* A named section is added.
LEMMA NameAdded ==
  ASSUME NEW a, WellFormed(a), NEW t, NEW name, IsName(name), Find(a, name) = <<>>,
         NEW newId, IsNew(a, newId)
  PROVE  NameSet(a, Executed(a, Op("add", name, t), newId), name, <<t, <<>>>>)
<1> DEFINE op == Op("add", name, t)
           b == Executed(a, op, newId)
           x == <<t, <<>>>>
           N == [n \in DOMAIN Naming(a) \cup {name} |-> IF n = name THEN x ELSE Naming(a)[n]]
<1>1. op.op = "add" /\ op.id = name
  BY OpFields
<1>2. View(b) = NamedToo(View(a), name, x)
  BY AddNameMeans DEF IsNew
<1>3. WellFormed(b)
  BY ExecutedWell DEF IsNew
<1>4. b = Append(a, Added(op, newId))
  <2> HIDE DEF op
  <2> QED
    BY <1>1, ExecutedAdd
<1>5. Extends(a, b)
  BY <1>3, <1>4, PlacesGrow
<1> HIDE DEF b, x
<1>6. View(b) = [View(a) EXCEPT !.named = N]
  BY <1>2 DEF NamedToo, Naming
<1> HIDE DEF N
<1>7. Naming(b) = N /\ \A u : Bare(b, u) = Bare(a, u)
  BY <1>3, <1>6, NamedSays
<1>8. name \in DOMAIN Naming(b) /\ Naming(b)[name] = x
  BY <1>7 DEF N
<1>9. \A n : n # name => (n \in DOMAIN Naming(a) <=> n \in DOMAIN Naming(b))
  BY <1>7 DEF N
<1>10. \A n : n # name /\ n \in DOMAIN Naming(a) => Naming(a)[n] = Naming(b)[n]
  BY <1>7 DEF N
<1>11. \A n : n # name => SameName(a, b, n)
  BY <1>9, <1>10 DEF SameName, Naming
<1> QED
  BY <1>3, <1>5, <1>7, <1>8, <1>11 DEF NameSet, b, x

\* Nothing is done, or one thing after another, to a named section.
LEMMA NameSetOn ==
  ASSUME NEW a, NEW b, NEW c, NEW name, NEW x, NEW y
  PROVE  /\ WellFormed(a) /\ name \in DOMAIN Naming(a) => NameSet(a, a, name, Naming(a)[name])
         /\ NameSet(a, b, name, x) /\ NameSet(b, c, name, y) => NameSet(a, c, name, y)
<1>1. ASSUME WellFormed(a), name \in DOMAIN Naming(a)
      PROVE  NameSet(a, a, name, Naming(a)[name])
  BY <1>1 DEF NameSet, Extends, SameName
<1>2. ASSUME NameSet(a, b, name, x), NameSet(b, c, name, y)
      PROVE  NameSet(a, c, name, y)
  <2>1. Extends(a, c)
    BY <1>2, ExtendsOn DEF NameSet
  <2>2. \A n : n # name => SameName(a, c, n)
    BY <1>2 DEF NameSet, SameName
  <2> QED
    BY <1>2, <2>1, <2>2 DEF NameSet
<1> QED
  BY <1>1, <1>2

\* Options as SetValues and CleanStaleOptions leave them.
Valued(old, opts) == IF DOMAIN opts = {} THEN old ELSE Overwrite(old, opts)
Cleaned(now, stale) == IF stale = {} THEN now ELSE [o \in DOMAIN now \ stale |-> now[o]]

\* They are those wanted.
LEMMA OptionsSet ==
  ASSUME NEW old, IsFcn(old), NEW opts, IsFcn(opts)
  PROVE  Cleaned(Valued(old, opts), DOMAIN old \ DOMAIN opts) = opts
<1> DEFINE now == Valued(old, opts)
           stale == DOMAIN old \ DOMAIN opts
<1>1. opts = [o \in DOMAIN opts |-> opts[o]] /\ old = [o \in DOMAIN old |-> old[o]]
  BY DEF IsFcn
<1>2. CASE DOMAIN opts = {}
  <2>1. now = old /\ stale = DOMAIN old
    BY <1>2 DEF Valued
  <2> HIDE DEF now, stale
  <2>2. CASE stale = {}
    <3>1. Cleaned(now, stale) = old /\ DOMAIN old = {}
      BY <2>1, <2>2 DEF Cleaned
    <3> QED
      BY <1>1, <1>2, <3>1 DEF now, stale
  <2>3. CASE stale # {}
    <3>1. Cleaned(now, stale) = [o \in {} |-> old[o]]
      BY <2>1, <2>3 DEF Cleaned
    <3> QED
      BY <1>1, <1>2, <3>1 DEF now, stale
  <2> QED
    BY <2>2, <2>3
<1>3. CASE DOMAIN opts # {}
  <2>1. now = [o \in DOMAIN old \cup DOMAIN opts |-> IF o \in DOMAIN opts THEN opts[o] ELSE old[o]]
    BY <1>3 DEF Valued, Overwrite
  <2> HIDE DEF now
  <2>2. DOMAIN now = DOMAIN old \cup DOMAIN opts /\ \A o \in DOMAIN opts : now[o] = opts[o]
    BY <2>1
  <2>3. CASE stale = {}
    <3>1. DOMAIN now = DOMAIN opts
      BY <2>2, <2>3
    <3> QED
      BY <1>1, <2>1, <2>2, <2>3, <3>1 DEF Cleaned, now
  <2>4. CASE stale # {}
    <3>1. DOMAIN now \ stale = DOMAIN opts
      BY <2>2
    <3>2. Cleaned(now, stale) = [o \in DOMAIN opts |-> now[o]]
      BY <2>4, <3>1 DEF Cleaned
    <3> QED
      BY <1>1, <2>2, <3>2 DEF now
  <2> QED
    BY <2>3, <2>4
<1> QED
  BY <1>2, <1>3

\* What a call makes of a section's options.
LEMMA CallOptions ==
  ASSUME NEW s, DOMAIN s = {"id", "type", "anon", "opts"}
  PROVE  /\ \A arg : LET c == Changed(s, Op("set", s.id, arg))
                     IN  c = [s EXCEPT !.opts = Overwrite(s.opts, arg)]
                         /\ c.type = s.type /\ c.opts = Overwrite(s.opts, arg)
         /\ \A arg : LET c == Changed(s, Op("unset", s.id, arg))
                     IN  c.type = s.type /\ c.opts = [o \in DOMAIN s.opts \ arg |-> s.opts[o]]
         /\ \A arg : LET c == Changed(s, Op("retype", s.id, arg))
                     IN  c.type = arg /\ c.opts = s.opts
<1>1. ASSUME NEW arg
      PROVE  LET op == Op("set", s.id, arg)
                 c == Changed(s, op)
             IN  c = [s EXCEPT !.opts = Overwrite(s.opts, arg)]
                 /\ c.type = s.type /\ c.opts = Overwrite(s.opts, arg)
  <2> DEFINE op == Op("set", s.id, arg)
  <2>1. op.op = "set" /\ op.id = s.id /\ op.arg = arg
    BY OpFields
  <2> HIDE DEF op
  <2>2. Changed(s, op) = [s EXCEPT !.opts = Overwrite(s.opts, arg)]
    BY <2>1 DEF Changed
  <2> QED
    BY <2>2 DEF op
<1>2. ASSUME NEW arg
      PROVE  LET c == Changed(s, Op("unset", s.id, arg))
             IN  c.type = s.type /\ c.opts = [o \in DOMAIN s.opts \ arg |-> s.opts[o]]
  <2> DEFINE op == Op("unset", s.id, arg)
  <2>1. op.op = "unset" /\ op.id = s.id /\ op.arg = arg
    BY OpFields
  <2> HIDE DEF op
  <2>2. Changed(s, op) = [s EXCEPT !.opts = [o \in DOMAIN s.opts \ arg |-> s.opts[o]]]
    BY <2>1 DEF Changed
  <2> QED
    BY <2>2 DEF op
<1>3. ASSUME NEW arg
      PROVE  LET c == Changed(s, Op("retype", s.id, arg))
             IN  c.type = arg /\ c.opts = s.opts
  <2> DEFINE op == Op("retype", s.id, arg)
  <2>1. op.op = "retype" /\ op.id = s.id /\ op.arg = arg
    BY OpFields
  <2> HIDE DEF op
  <2>2. Changed(s, op) = [s EXCEPT !.type = arg]
    BY <2>1 DEF Changed
  <2> QED
    BY <2>2 DEF op
<1> QED
  BY <1>1, <1>2, <1>3

\* A call, planned for a section that has a name.
LEMMA NameCalls ==
  ASSUME NEW x, WellFormed(x.secs), NEW name, IsName(name), NEW t, NEW o,
         name \in DOMAIN Naming(x.secs), Naming(x.secs)[name] = <<t, o>>, NEW y
  PROVE  /\ \A arg : Makes(x, Op("set", name, arg), y) =>
              NameSet(x.secs, y.secs, name, <<t, Overwrite(o, arg)>>)
         /\ \A arg : Makes(x, Op("unset", name, arg), y) =>
              NameSet(x.secs, y.secs, name, <<t, [n \in DOMAIN o \ arg |-> o[n]]>>)
         /\ \A arg : Makes(x, Op("retype", name, arg), y) =>
              NameSet(x.secs, y.secs, name, <<arg, o>>)
<1> DEFINE a == x.secs
<1>1. PICK p \in DOMAIN a : a[p].id = name
  BY NameMeans DEF Naming
<1>2. ~ a[p].anon /\ a[p].type = t /\ a[p].opts = o
  <2>1. Find(a, name) # <<>>
    BY NameMeans DEF Naming
  <2>2. View(a).named[name] = <<a[p].type, a[p].opts>>
    BY <1>1, <2>1, NameMeans
  <2> QED
    BY <1>1, <2>2, NameMeans DEF Naming
<1>3. ASSUME NEW op, op.op # "delete", op.id = name, Makes(x, op, y)
      PROVE  LET c == Changed(a[p], op) IN NameSet(a, y.secs, name, <<c.type, c.opts>>)
  <2>1. CallAs(op, x.last) = op
    BY <1>3 DEF CallAs, IsName
  <2>2. PICK id : y.secs = Executed(a, op, id)
    BY <1>3, <2>1 DEF Makes
  <2> QED
    BY <1>1, <1>2, <1>3, <2>2, CallAtName
<1>4. DOMAIN a[p] = {"id", "type", "anon", "opts"}
  BY Sections
<1> HIDE DEF a
<1>5. \A arg : Makes(x, Op("set", name, arg), y) => NameSet(a, y.secs, name, <<t, Overwrite(o, arg)>>)
  <2> SUFFICES ASSUME NEW arg, Makes(x, Op("set", name, arg), y)
               PROVE  NameSet(a, y.secs, name, <<t, Overwrite(o, arg)>>)
      OBVIOUS
  <2>1. PICK op : op = Op("set", name, arg)
    OBVIOUS
  <2>2. op.op = "set" /\ op.id = name
    BY <2>1, OpFields
  <2>3. PICK c : c = Changed(a[p], op)
    OBVIOUS
  <2>4. NameSet(a, y.secs, name, <<c.type, c.opts>>)
    BY <1>3, <2>1, <2>2, <2>3
  <2>5. c.type = t /\ c.opts = Overwrite(o, arg)
    BY <1>1, <1>2, <1>4, <2>1, <2>3, CallOptions
  <2> QED
    BY <2>4, <2>5
<1>6. \A arg : Makes(x, Op("unset", name, arg), y) =>
        NameSet(a, y.secs, name, <<t, [n \in DOMAIN o \ arg |-> o[n]]>>)
  <2> SUFFICES ASSUME NEW arg, Makes(x, Op("unset", name, arg), y)
               PROVE  NameSet(a, y.secs, name, <<t, [n \in DOMAIN o \ arg |-> o[n]]>>)
      OBVIOUS
  <2>1. PICK op : op = Op("unset", name, arg)
    OBVIOUS
  <2>2. op.op = "unset" /\ op.id = name
    BY <2>1, OpFields
  <2>3. PICK c : c = Changed(a[p], op)
    OBVIOUS
  <2>4. NameSet(a, y.secs, name, <<c.type, c.opts>>)
    BY <1>3, <2>1, <2>2, <2>3
  <2>5. c.type = t /\ c.opts = [n \in DOMAIN o \ arg |-> o[n]]
    BY <1>1, <1>2, <1>4, <2>1, <2>3, CallOptions
  <2> QED
    BY <2>4, <2>5
<1>7. \A arg : Makes(x, Op("retype", name, arg), y) => NameSet(a, y.secs, name, <<arg, o>>)
  <2> SUFFICES ASSUME NEW arg, Makes(x, Op("retype", name, arg), y)
               PROVE  NameSet(a, y.secs, name, <<arg, o>>)
      OBVIOUS
  <2>1. PICK op : op = Op("retype", name, arg)
    OBVIOUS
  <2>2. op.op = "retype" /\ op.id = name
    BY <2>1, OpFields
  <2>3. PICK c : c = Changed(a[p], op)
    OBVIOUS
  <2>4. NameSet(a, y.secs, name, <<c.type, c.opts>>)
    BY <1>3, <2>1, <2>2, <2>3
  <2>5. c.type = arg /\ c.opts = o
    BY <1>1, <1>2, <1>4, <2>1, <2>3, CallOptions
  <2> QED
    BY <2>4, <2>5
<1> QED
  BY <1>5, <1>6, <1>7 DEF a

\* The calls that clear options.
Clearing(id, stale) == IF stale = {} THEN <<>> ELSE <<Op("unset", id, stale)>>

\* The options of a section that has a name are set.
LEMMA NameOptions ==
  ASSUME NEW x, WellFormed(x.secs), NEW name, IsName(name), NEW t, NEW o, IsFcn(o),
         name \in DOMAIN Naming(x.secs), Naming(x.secs)[name] = <<t, o>>, NEW y,
         NEW opts, IsFcn(opts),
         NEW m, Leads(x, SetValues(name, opts), m), Leads(m, Clearing(name, DOMAIN o \ DOMAIN opts), y)
  PROVE  NameSet(x.secs, y.secs, name, <<t, opts>>)
<1> DEFINE now == Valued(o, opts)
           stale == DOMAIN o \ DOMAIN opts
<1>1. NameSet(x.secs, m.secs, name, <<t, now>>)
  <2>1. CASE DOMAIN opts = {}
    <3>1. m = x
      BY <2>1, LeadsShort DEF SetValues
    <3> QED
      BY <2>1, <3>1, NameSetOn DEF Valued
  <2>2. CASE DOMAIN opts # {}
    <3>1. Makes(x, Op("set", name, opts), m)
      BY <2>2, LeadsShort DEF SetValues
    <3>2. NameSet(x.secs, m.secs, name, <<t, Overwrite(o, opts)>>)
      BY <3>1, NameCalls
    <3> QED
      BY <2>2, <3>2 DEF Valued
  <2> QED
    BY <2>1, <2>2
<1> HIDE DEF now, stale
<1>2. NameSet(m.secs, y.secs, name, <<t, Cleaned(now, stale)>>)
  <2>0. WellFormed(m.secs) /\ name \in DOMAIN Naming(m.secs) /\ Naming(m.secs)[name] = <<t, now>>
    BY <1>1 DEF NameSet
  <2>1. CASE stale = {}
    <3>1. y = m
      BY <2>1, LeadsShort DEF Clearing, stale
    <3> QED
      BY <2>0, <2>1, <3>1, NameSetOn DEF Cleaned
  <2>2. CASE stale # {}
    <3>1. Makes(m, Op("unset", name, stale), y)
      BY <2>2, LeadsShort DEF Clearing, stale
    <3>2. NameSet(m.secs, y.secs, name, <<t, [n \in DOMAIN now \ stale |-> now[n]]>>)
      BY <2>0, <3>1, NameCalls
    <3> QED
      BY <2>2, <3>2 DEF Cleaned
  <2> QED
    BY <2>1, <2>2
<1>3. Cleaned(now, stale) = opts
  BY OptionsSet DEF now, stale
<1> QED
  BY <1>1, <1>2, <1>3, NameSetOn

\* The options of the sections are functions.
OptsAre(secs) == \A i \in DOMAIN secs : IsFcn(secs[i].opts)

\* The options that a section with a name has in a list of sections.
OldOpts(secs, id) == IF Find(secs, id) = <<>> THEN <<>> ELSE Find(secs, id)[1].opts

\* The calls that clear what a section has and should not.
LEMMA CleansAre ==
  ASSUME NEW secs, NEW id, NEW opts
  PROVE  CleanStaleOptions(secs, id, opts) = Clearing(id, DOMAIN OldOpts(secs, id) \ DOMAIN opts)
<1>1. CASE Find(secs, id) = <<>>
  <2>1. DOMAIN <<>> = {}
    OBVIOUS
  <2>2. DOMAIN OldOpts(secs, id) \ DOMAIN opts = {}
    BY <1>1, <2>1 DEF OldOpts
  <2> QED
    BY <1>1, <2>2 DEF CleanStaleOptions, Clearing
<1>2. CASE Find(secs, id) # <<>>
  BY <1>2 DEF CleanStaleOptions, Clearing, OldOpts
<1> QED
  BY <1>1, <1>2

\* The lists of calls are lists.
LEMMA CallLists ==
  ASSUME NEW secs, NEW id, NEW t, NEW opts, NEW stale
  PROVE  /\ IsList(CreateOrRetype(secs, id, t))
         /\ IsList(SetValues(id, opts))
         /\ IsList(Clearing(id, stale))
<1>1. IsList(<<>>) /\ \A op : IsList(<<op>>)
  BY ShortLists
<1>2. \A verb, arg : IsList(<<Op(verb, id, arg)>>)
  BY <1>1
<1>3. IsList(CreateOrRetype(secs, id, t))
  <2>1. CASE Find(secs, id) = <<>>
    BY <1>2, <2>1 DEF CreateOrRetype
  <2>2. CASE Find(secs, id) # <<>> /\ Find(secs, id)[1].type # t
    BY <1>2, <2>2 DEF CreateOrRetype
  <2>3. CASE Find(secs, id) # <<>> /\ Find(secs, id)[1].type = t
    BY <1>1, <2>3 DEF CreateOrRetype
  <2> QED
    BY <2>1, <2>2, <2>3
<1>4. IsList(SetValues(id, opts)) /\ IsList(Clearing(id, stale))
  BY <1>1, <1>2 DEF SetValues, Clearing
<1> QED
  BY <1>3, <1>4

\* A wanted section that has a name: whatever was done to other sections since the
\* package was read, it is as wanted.
LEMMA NameApplied ==
  ASSUME NEW e, WellFormed(e), OptsAre(e), NEW x, WellFormed(x.secs), NEW y, NEW t, NEW w,
         IsName(w.name), IsFcn(w.opts), SameName(e, x.secs, w.name), NEW reuse,
         Leads(x, ApplySection(e, t, w, reuse), y)
  PROVE  NameSet(x.secs, y.secs, w.name, <<t, w.opts>>)
<1> DEFINE name == w.name
           opts == w.opts
           A == CreateOrRetype(e, name, t)
           B == SetValues(name, opts)
           old == OldOpts(e, name)
           C == Clearing(name, DOMAIN old \ DOMAIN opts)
<1>1. ApplySection(e, t, w, reuse) = (A \o B) \o C
  <2>1. name # ""
    BY DEF IsName, NoId
  <2> QED
    BY <2>1, CleansAre DEF ApplySection
<1>2. IsList(A) /\ IsList(B) /\ IsList(C) /\ IsList(A \o B)
  <2>1. IsList(A) /\ IsList(B) /\ IsList(C)
    BY CallLists
  <2> HIDE DEF A, B, C
  <2> QED
    BY <2>1, Joined
<1> HIDE DEF A, B, C
<1>3. PICK n : Leads(x, A \o B, n) /\ Leads(n, C, y)
  BY <1>1, <1>2, LeadsSplit
<1>4. PICK m : Leads(x, A, m) /\ Leads(m, B, n)
  BY <1>2, <1>3, LeadsSplit
<1>5. NameSet(x.secs, m.secs, name, <<t, old>>) /\ IsFcn(old)
  <2>1. CASE Find(e, name) = <<>>
    <3>1. Find(x.secs, name) = <<>>
      BY <2>1, NameMeans DEF SameName
    <3>2. Makes(x, Op("add", name, t), m)
      BY <1>4, <2>1, LeadsShort DEF A, CreateOrRetype
    <3>3. PICK op : op = Op("add", name, t)
      OBVIOUS
    <3>4. CallAs(op, x.last) = op
      BY <3>3, OpFields DEF CallAs, IsName
    <3>5. PICK id : IsNew(x.secs, id) /\ m.secs = Executed(x.secs, op, id)
      BY <3>2, <3>3, <3>4 DEF Makes
    <3>6. NameSet(x.secs, m.secs, name, <<t, <<>>>>)
      BY <3>1, <3>3, <3>5, NameAdded
    <3>7. old = <<>>
      BY <2>1 DEF OldOpts
    <3>8. IsFcn(<<>>)
      BY DEF IsFcn
    <3> QED
      BY <3>6, <3>7, <3>8
  <2>2. CASE Find(e, name) # <<>>
    <3>1. PICK i \in DOMAIN e : e[i].id = name
      BY <2>2, NameMeans
    <3>2. Find(e, name) = <<e[i]>> /\ View(e).named[name] = <<e[i].type, e[i].opts>>
      BY <2>2, <3>1, NameMeans
    <3>3. /\ name \in DOMAIN Naming(x.secs)
          /\ Naming(x.secs)[name] = <<e[i].type, e[i].opts>>
      BY <2>2, <3>2, NameMeans DEF SameName, Naming
    <3>4. Find(e, name)[1] = e[i]
      BY <3>2
    <3>5. old = e[i].opts /\ IsFcn(old)
      BY <2>2, <3>4 DEF OldOpts, OptsAre
    <3>6. CASE e[i].type = t
      <4>1. A = <<>>
        BY <2>2, <3>4, <3>6 DEF A, CreateOrRetype
      <4>2. m = x
        BY <1>4, <4>1, LeadsShort
      <4> QED
        BY <3>3, <3>5, <3>6, <4>2, NameSetOn
    <3>7. CASE e[i].type # t
      <4>1. A = <<Op("retype", name, t)>>
        BY <2>2, <3>4, <3>7 DEF A, CreateOrRetype
      <4>2. Makes(x, Op("retype", name, t), m)
        BY <1>4, <4>1, LeadsShort
      <4> QED
        BY <3>3, <3>5, <4>2, NameCalls
    <3> QED
      BY <3>6, <3>7
  <2> QED
    BY <2>1, <2>2
<1>6. NameSet(m.secs, y.secs, name, <<t, opts>>)
  <2>1. WellFormed(m.secs) /\ name \in DOMAIN Naming(m.secs) /\ Naming(m.secs)[name] = <<t, old>>
    BY <1>5 DEF NameSet
  <2> HIDE DEF old
  <2> QED
    BY <1>3, <1>4, <1>5, <2>1, NameOptions DEF B, C
<1> QED
  BY <1>5, <1>6, NameSetOn

\* The k-th anonymous section of a type has an id and options.
PlaceSays(a, t, k, id, o) ==
  /\ k \in 1 .. Len(Places(a, t))
  /\ a[Places(a, t)[k]].id = id /\ Bare(a, t)[k] = o

\* The options of the k-th one become o.
PlaceSet(a, b, t, k, o) == BareSet(a, b, t, [Bare(a, t) EXCEPT ![k] = o])

\* Nothing is done, or one thing after another, to an anonymous section.
LEMMA PlaceSetOn ==
  ASSUME NEW a, NEW b, NEW c, WellFormed(a), NEW t, NEW k, NEW id, NEW n, PlaceSays(a, t, k, id, n),
         NEW o, NEW oo
  PROVE  /\ PlaceSet(a, a, t, k, n)
         /\ PlaceSet(a, b, t, k, o) => PlaceSays(b, t, k, id, o)
         /\ PlaceSet(a, b, t, k, o) /\ PlaceSet(b, c, t, k, oo) => PlaceSet(a, c, t, k, oo)
<1>0. k \in DOMAIN Bare(a, t) /\ Bare(a, t) = [i \in DOMAIN Bare(a, t) |-> Bare(a, t)[i]]
  BY BareEmpty DEF PlaceSays, Bare
<1>1. PlaceSet(a, a, t, k, n)
  <2>1. [Bare(a, t) EXCEPT ![k] = n] = Bare(a, t)
    BY <1>0 DEF PlaceSays
  <2> QED
    BY <2>1 DEF PlaceSet, BareSet, Extends
<1>2. ASSUME PlaceSet(a, b, t, k, o)
      PROVE  PlaceSays(b, t, k, id, o)
  <2>1. Bare(b, t)[k] = o
    BY <1>0, <1>2 DEF PlaceSet, BareSet
  <2>2. k \in 1 .. Len(Places(b, t)) /\ b[Places(b, t)[k]].id = a[Places(a, t)[k]].id
    BY <1>2 DEF PlaceSet, BareSet, Extends, PlaceSays
  <2> QED
    BY <2>1, <2>2 DEF PlaceSays
<1>3. ASSUME PlaceSet(a, b, t, k, o), PlaceSet(b, c, t, k, oo)
      PROVE  PlaceSet(a, c, t, k, oo)
  <2>1. Extends(a, c)
    BY <1>3, ExtendsOn DEF PlaceSet, BareSet
  <2>2. Bare(c, t) = [[Bare(a, t) EXCEPT ![k] = o] EXCEPT ![k] = oo]
    BY <1>3 DEF PlaceSet, BareSet
  <2>3. Bare(c, t) = [Bare(a, t) EXCEPT ![k] = oo]
    BY <1>0, <2>2
  <2>4. /\ WellFormed(c) /\ Naming(c) = Naming(a)
        /\ \A u : u # t => Bare(c, u) = Bare(a, u)
    BY <1>3 DEF PlaceSet, BareSet
  <2> QED
    BY <2>1, <2>3, <2>4 DEF PlaceSet, BareSet
<1> QED
  BY <1>1, <1>2, <1>3

\* A call, planned for an anonymous section.
LEMMA PlaceCall ==
  ASSUME NEW x, WellFormed(x.secs), NEW t, NEW k, NEW id, NEW o, PlaceSays(x.secs, t, k, id, o),
         NEW op, op.op = "set" \/ op.op = "unset", op.id = id, NEW y, Makes(x, op, y)
  PROVE  /\ op.op = "set" => PlaceSet(x.secs, y.secs, t, k, Overwrite(o, op.arg))
         /\ op.op = "unset" => PlaceSet(x.secs, y.secs, t, k, [n \in DOMAIN o \ op.arg |-> o[n]])
<1> DEFINE a == x.secs
           p == Places(a, t)[k]
<1>1. /\ k \in 1 .. Len(Places(a, t)) /\ p \in DOMAIN a /\ a[p].anon /\ a[p].type = t
      /\ a[p].id = id /\ id # NoId
      /\ DOMAIN a[p] = {"id", "type", "anon", "opts"}
  <2>1. p \in AnonAt(a, t)
    BY PlacesInOrder DEF PlaceSays
  <2> QED
    BY <2>1, Sections DEF PlaceSays, AnonAt
<1>2. a[p].opts = o
  BY <1>1 DEF PlaceSays, Bare
<1>3. PICK new : y.secs = Executed(a, op, new)
  <2>1. CallAs(op, x.last) = op
    BY <1>1 DEF CallAs
  <2> QED
    BY <2>1 DEF Makes
<1> HIDE DEF a, p
<1>9. PICK b : b = Executed(a, op, new)
  OBVIOUS
<1>0. WellFormed(a) /\ op.op # "delete" /\ p = Places(a, t)[k]
  BY DEF a, p
<1>8. p \in DOMAIN a /\ a[p].id = op.id
  BY <1>1
<1>4. /\ WellFormed(b) /\ DOMAIN b = DOMAIN a
      /\ b[p] = Changed(a[p], op) /\ b[p].id = a[p].id /\ b[p].anon = a[p].anon
      /\ \A i \in DOMAIN a : i # p => b[i] = a[i]
  BY <1>0, <1>8, <1>9, ExecutedAt
<1>5. PICK c : c = Changed(a[p], op)
  OBVIOUS
<1>6. /\ c.type = t
      /\ op.op = "set" => c.opts = Overwrite(o, op.arg)
      /\ op.op = "unset" => c.opts = [n \in DOMAIN o \ op.arg |-> o[n]]
  <2>1. CASE op.op = "set"
    <3>1. c = [a[p] EXCEPT !.opts = Overwrite(o, op.arg)]
      BY <1>1, <1>2, <1>5, <2>1 DEF Changed
    <3> QED
      BY <1>1, <2>1, <3>1
  <2>2. CASE op.op = "unset"
    <3>1. c = [a[p] EXCEPT !.opts = [n \in DOMAIN o \ op.arg |-> o[n]]]
      BY <1>1, <1>2, <1>5, <2>2 DEF Changed
    <3> QED
      BY <1>1, <2>2, <3>1
  <2> QED
    BY <2>1, <2>2
<1>7. PlaceSet(a, b, t, k, c.opts)
  <2>1. View(b) = With(View(a), t, [Bare(a, t) EXCEPT ![k] = b[p].opts])
    <3>1. b[p].anon /\ b[p].type = t
      BY <1>1, <1>4, <1>5, <1>6
    <3> QED
      BY <1>0, <1>1, <1>4, <3>1, ChangeBare
  <2>2. /\ Naming(b) = Naming(a) /\ Bare(b, t) = [Bare(a, t) EXCEPT ![k] = b[p].opts]
        /\ \A u : u # t => Bare(b, u) = Bare(a, u)
    BY <1>0, <1>4, <2>1, WithSays
  <2>3. Extends(a, b)
    <3>1. \A i \in DOMAIN a : b[i].id = a[i].id /\ b[i].anon = a[i].anon /\ b[i].type = a[i].type
      BY <1>1, <1>4, <1>5, <1>6
    <3> QED
      BY <1>0, <1>4, <3>1, PlacesStay
  <2> QED
    BY <1>4, <1>5, <2>2, <2>3 DEF PlaceSet, BareSet
<1> QED
  BY <1>3, <1>6, <1>7, <1>9 DEF a

\* The options of an anonymous section are set.
LEMMA PlaceOptions ==
  ASSUME NEW x, WellFormed(x.secs), NEW t, NEW k, NEW id, NEW o, PlaceSays(x.secs, t, k, id, o),
         IsFcn(o), NEW y, NEW opts, IsFcn(opts),
         NEW m, Leads(x, SetValues(id, opts), m), Leads(m, Clearing(id, DOMAIN o \ DOMAIN opts), y)
  PROVE  PlaceSet(x.secs, y.secs, t, k, opts)
<1> DEFINE now == Valued(o, opts)
           stale == DOMAIN o \ DOMAIN opts
<1>1. PlaceSet(x.secs, m.secs, t, k, now)
  <2>1. CASE DOMAIN opts = {}
    <3>1. m = x
      BY <2>1, LeadsShort DEF SetValues
    <3> QED
      BY <2>1, <3>1, PlaceSetOn DEF Valued
  <2>2. CASE DOMAIN opts # {}
    <3>1. PICK op : op = Op("set", id, opts)
      OBVIOUS
    <3>2. Makes(x, op, m)
      BY <2>2, <3>1, LeadsShort DEF SetValues
    <3>3. op.op = "set" /\ op.id = id /\ op.arg = opts
      BY <3>1, OpFields
    <3>4. PlaceSet(x.secs, m.secs, t, k, Overwrite(o, op.arg))
      <4>1. op.op = "set" \/ op.op = "unset"
        BY <3>3
      <4> QED
        BY <3>2, <3>3, <4>1, PlaceCall
    <3> QED
      BY <2>2, <3>3, <3>4 DEF Valued
  <2> QED
    BY <2>1, <2>2
<1> HIDE DEF now, stale
<1>2. WellFormed(m.secs) /\ PlaceSays(m.secs, t, k, id, now)
  <2>1. PlaceSays(m.secs, t, k, id, now)
    BY <1>1, PlaceSetOn
  <2> QED
    BY <1>1, <2>1 DEF PlaceSet, BareSet
<1>3. PlaceSet(m.secs, y.secs, t, k, Cleaned(now, stale))
  <2>1. CASE stale = {}
    <3>1. y = m
      BY <2>1, LeadsShort DEF Clearing, stale
    <3>2. PlaceSet(m.secs, m.secs, t, k, now)
      BY <1>2, PlaceSetOn
    <3> QED
      BY <2>1, <3>1, <3>2 DEF Cleaned
  <2>2. CASE stale # {}
    <3>1. PICK op : op = Op("unset", id, stale)
      OBVIOUS
    <3>2. Makes(m, op, y)
      BY <2>2, <3>1, LeadsShort DEF Clearing, stale
    <3>3. op.op = "unset" /\ op.id = id /\ op.arg = stale
      BY <3>1, OpFields
    <3>4. PlaceSet(m.secs, y.secs, t, k, [n \in DOMAIN now \ op.arg |-> now[n]])
      BY <1>2, <3>2, <3>3, PlaceCall
    <3> QED
      BY <2>2, <3>3, <3>4 DEF Cleaned
  <2> QED
    BY <2>1, <2>2
<1>4. Cleaned(now, stale) = opts
  BY OptionsSet DEF now, stale
<1>5. PlaceSet(m.secs, y.secs, t, k, opts)
  BY <1>3, <1>4
<1> QED
  BY <1>1, <1>5, PlaceSetOn

\* A wanted section without a name that takes the k-th anonymous one of its type.
LEMMA PlaceApplied ==
  ASSUME NEW e, WellFormed(e), OptsAre(e), NEW x, WellFormed(x.secs), NEW t, NEW k,
         k \in 1 .. Len(Places(e, t)), NEW reuse, reuse = e[Places(e, t)[k]].id,
         Extends(e, x.secs), Bare(x.secs, t)[k] = Bare(e, t)[k],
         NEW w, w.name = NoId, IsFcn(w.opts), NEW y, Leads(x, ApplySection(e, t, w, reuse), y)
  PROVE  PlaceSet(x.secs, y.secs, t, k, w.opts)
<1> DEFINE p == Places(e, t)[k]
           old == e[p].opts
           B == SetValues(reuse, w.opts)
           C == Clearing(reuse, DOMAIN old \ DOMAIN w.opts)
<1>1. p \in DOMAIN e /\ e[p].id = reuse /\ reuse # NoId
  <2>1. p \in AnonAt(e, t)
    BY PlacesInOrder
  <2> QED
    BY <2>1, Sections DEF AnonAt
<1>2. OldOpts(e, reuse) = old /\ IsFcn(old) /\ Bare(e, t)[k] = old
  <2>1. Find(e, reuse) = <<e[p]>>
    BY <1>1, Found
  <2> QED
    BY <1>1, <2>1 DEF OldOpts, OptsAre, Bare
<1>3. ApplySection(e, t, w, reuse) = B \o C
  <2>1. w.name = "" /\ reuse # ""
    BY <1>1 DEF NoId
  <2>2. ApplySection(e, t, w, reuse) = B \o CleanStaleOptions(e, reuse, w.opts)
    BY <2>1 DEF ApplySection
  <2> QED
    BY <1>2, <2>2, CleansAre
<1>4. IsList(B) /\ IsList(C)
  BY CallLists
<1>5. PlaceSays(x.secs, t, k, reuse, old)
  BY <1>1, <1>2 DEF PlaceSays, Extends
<1> HIDE DEF B, C, old
<1>6. PICK m : Leads(x, B, m) /\ Leads(m, C, y)
  BY <1>3, <1>4, LeadsSplit
<1> QED
  BY <1>2, <1>5, <1>6, PlaceOptions DEF B, C

\* A wanted section without a name that is added.
LEMMA AddApplied ==
  ASSUME NEW e, NEW x, WellFormed(x.secs), NEW t,
         NEW w, w.name = NoId, IsFcn(w.opts), NEW reuse, reuse = NoId,
         NEW y, Leads(x, ApplySection(e, t, w, reuse), y)
  PROVE  BareSet(x.secs, y.secs, t, Append(Bare(x.secs, t), w.opts))
<1> DEFINE a == x.secs
           add == Op("add", NoId, t)
           B == SetValues(NoId, w.opts)
<1>0. WellFormed(a)
  OBVIOUS
<1>1. ApplySection(e, t, w, reuse) = <<add>> \o B
  BY DEF ApplySection, NoId
<1>2. IsList(<<add>>) /\ IsList(B)
  BY CallLists, ShortLists
<1>3. add.op = "add" /\ add.id = NoId /\ add.arg = t
  BY OpFields
<1> HIDE DEF B, add, a
<1>4. PICK m : Leads(x, <<add>>, m) /\ Leads(m, B, y)
  BY <1>1, <1>2, LeadsSplit
<1>5. PICK id : /\ IsNew(a, id)
                /\ m = [secs |-> Executed(a, add, id), last |-> id]
  <2>1. Makes(x, add, m)
    BY <1>4, LeadsShort
  <2>2. CallAs(add, x.last) = add
    BY <1>3 DEF CallAs
  <2> QED
    BY <1>3, <2>1, <2>2 DEF Makes, a
<1>6. PICK s : s = Added(add, id)
  OBVIOUS
<1>7. /\ DOMAIN s = {"id", "type", "anon", "opts"}
      /\ s.id = id /\ s.type = t /\ s.anon = TRUE /\ s.opts = <<>>
  BY <1>3, <1>6 DEF Added, NoId
<1>8. Executed(a, add, id) = Append(a, s)
  <2>1. Find(a, NoId) = <<>>
    <3>1. \A i \in DOMAIN a : a[i].id # NoId
      BY <1>0, Sections
    <3> QED
      BY <1>0, <3>1, Found
  <2> QED
    BY <1>3, <1>6, <2>1, ExecutedAdd
<1>9. m.secs = Append(a, s) /\ m.last = id
  BY <1>5, <1>8
<1>10. IsNew(a, id) /\ id # NoId
  BY <1>5 DEF IsNew
<1>11. WellFormed(Append(a, s))
  BY <1>0, <1>8, <1>10, ExecutedWell DEF IsNew
<1>12. PICK r : /\ DOMAIN r = {"id", "type", "anon", "opts"} /\ r.id = id /\ r.anon = TRUE
                /\ r.type = t /\ r.opts = w.opts
                /\ y.secs = Append(a, r)
  <2>1. CASE DOMAIN w.opts = {}
    <3>1. y = m
      BY <1>4, <2>1, LeadsShort DEF B, SetValues
    <3>2. w.opts = <<>>
      BY <2>1 DEF IsFcn
    <3> QED
      BY <1>7, <1>9, <3>1, <3>2
  <2>2. CASE DOMAIN w.opts # {}
    <3>1. PICK op : op = Op("set", NoId, w.opts)
      OBVIOUS
    <3>2. op.op = "set" /\ op.id = NoId /\ op.arg = w.opts /\ DOMAIN op = {"op", "id", "arg"}
      BY <3>1, OpFields DEF Op
    <3>3. Makes(m, op, y)
      BY <1>4, <2>2, <3>1, LeadsShort DEF B, SetValues
    <3>4. PICK call : call = CallAs(op, m.last)
      OBVIOUS
    <3>5. call.op = "set" /\ call.id = id /\ call.arg = w.opts
      <4>1. call = [op EXCEPT !.id = id]
        BY <1>9, <3>2, <3>4 DEF CallAs
      <4> QED
        BY <3>2, <4>1
    <3>6. PICK new : y.secs = Executed(m.secs, call, new)
      BY <3>3, <3>4 DEF Makes
    <3> DEFINE b == m.secs
    <3>7. y.secs = [i \in DOMAIN b |-> Changed(b[i], call)]
      BY <3>5, <3>6, ExecutedChange
    <3>8. PICK r : r = [s EXCEPT !.opts = Overwrite(@, w.opts)]
      OBVIOUS
    <3>9. /\ DOMAIN r = {"id", "type", "anon", "opts"} /\ r.id = id /\ r.anon = TRUE
          /\ r.type = t /\ r.opts = Overwrite(<<>>, w.opts)
      BY <1>7, <3>8
    <3>10. Overwrite(<<>>, w.opts) = w.opts
      BY DEF Overwrite, IsFcn
    <3> DEFINE n == Len(a)
    <3>11. /\ DOMAIN b = 1 .. n + 1 /\ n \in Nat
           /\ \A i \in 1 .. n : b[i] = a[i]
           /\ b[n + 1] = s
           /\ DOMAIN a = 1 .. n
      BY <1>0, <1>9, AppendIs, Sections
    <3>12. /\ \A i \in 1 .. n : Append(a, r)[i] = a[i]
           /\ Append(a, r)[n + 1] = r
           /\ Append(a, r) = [i \in 1 .. n + 1 |-> Append(a, r)[i]]
      BY <1>0, AppendIs
    <3> HIDE DEF b, n
    <3>13. \A i \in 1 .. n : Changed(b[i], call) = a[i]
      BY <1>10, <3>5, <3>11 DEF Changed, IsNew
    <3>14. Changed(s, call) = r
      BY <1>7, <3>5, <3>8 DEF Changed
    <3>15. \A i \in 1 .. n + 1 : Changed(b[i], call) = Append(a, r)[i]
      <4> SUFFICES ASSUME NEW i \in 1 .. n + 1
                   PROVE  Changed(b[i], call) = Append(a, r)[i]
          OBVIOUS
      <4>1. CASE i \in 1 .. n
        BY <3>12, <3>13, <4>1
      <4>2. CASE i = n + 1
        BY <3>11, <3>12, <3>14, <4>2
      <4> QED
        BY <3>11, <4>1, <4>2
    <3>16. y.secs = Append(a, r)
      BY <3>7, <3>11, <3>12, <3>15
    <3> QED
      BY <3>9, <3>10, <3>16
  <2> QED
    BY <2>1, <2>2
<1>13. WellFormed(Append(a, r))
  <2>1. r.anon \in BOOLEAN /\ (r.anon => r.id \in AnonIds) /\ r.id # NoId /\ \A i \in DOMAIN a : a[i].id # r.id
    BY <1>10, <1>12 DEF IsNew
  <2> QED
    BY <1>0, <1>12, <2>1, AppendWell
<1>14. View(Append(a, r)) = With(View(a), t, Append(Bare(a, t), w.opts))
  BY <1>0, <1>12, <1>13, AppendBare
<1>15. Extends(a, Append(a, r))
  BY <1>0, <1>13, PlacesGrow
<1>16. /\ Naming(y.secs) = Naming(a) /\ Bare(y.secs, t) = Append(Bare(a, t), w.opts)
       /\ \A u : u # t => Bare(y.secs, u) = Bare(a, u)
  <2>1. PICK b : b = Append(a, r)
    OBVIOUS
  <2>2. PICK list : list = Append(Bare(a, t), w.opts)
    OBVIOUS
  <2>3. Naming(b) = Naming(a) /\ Bare(b, t) = list /\ \A u : u # t => Bare(b, u) = Bare(a, u)
    <3>1. WellFormed(b) /\ View(b) = With(View(a), t, list)
      BY <1>13, <1>14, <2>1, <2>2
    <3> QED
      BY <1>0, <3>1, WithSays
  <2> QED
    BY <1>12, <2>1, <2>2, <2>3
<1> QED
  BY <1>12, <1>13, <1>15, <1>16 DEF BareSet, a

-----------------------------------------------------------------------------
(* The sections of one type. *)

\* The wanted sections without a name, and their positions up to the i-th section.
Nameless(ss) == {i \in DOMAIN ss : ss[i].name = NoId}
UpTo(ss, i) == Ascent(Len(ss), Nameless(ss))[i]

\* The positions, one section after the other.
LEMMA UpToIs ==
  ASSUME NEW ss, IsList(ss)
  PROVE  /\ UpTo(ss, 0) = <<>>
         /\ UpTo(ss, Len(ss)) = Ascending(Len(ss), Nameless(ss))
         /\ \A i \in 1 .. Len(ss) : UpTo(ss, i) =
              IF ss[i].name = NoId THEN Append(UpTo(ss, i - 1), i) ELSE UpTo(ss, i - 1)
<1> DEFINE n == Len(ss)
           I == Nameless(ss)
           f == Ascent(n, I)
           v(m) == IF m = 0 THEN <<>> ELSE IF m \in I THEN Append(f[m - 1], m) ELSE f[m - 1]
<1>1. n \in Nat /\ DOMAIN ss = 1 .. n
  BY ListIs
<1>2. f = [m \in 0 .. n |-> v(m)]
  <2> HIDE DEF n, I
  <2> QED
    BY <1>1, AscentDef
<1> HIDE DEF f, v
<1>3. \A m \in 0 .. n : f[m] = v(m)
  BY <1>2
<1>4. f[0] = <<>>
  BY <1>1, <1>3 DEF v
<1>5. ASSUME NEW i \in 1 .. n
      PROVE  f[i] = IF ss[i].name = NoId THEN Append(f[i - 1], i) ELSE f[i - 1]
  <2>1. f[i] = v(i) /\ i # 0
    BY <1>1, <1>3
  <2>2. i \in I <=> ss[i].name = NoId
    BY <1>1 DEF Nameless
  <2> QED
    BY <2>1, <2>2 DEF v
<1> QED
  BY <1>4, <1>5, AscendingIsAscent DEF UpTo, f

\* They are as many as ApplyType counts.
Nth(ss, i) == Cardinality({j \in 1 .. i : ss[j].name = NoId})

\* The number of sections without a name, up to the i-th one.
LEMMA NthIs ==
  ASSUME NEW ss, IsList(ss), NEW i \in 0 .. Len(ss)
  PROVE  IsList(UpTo(ss, i)) /\ Len(UpTo(ss, i)) = Nth(ss, i) /\ IsFiniteSet({j \in 1 .. i : ss[j].name = NoId})
<1> DEFINE S(m) == {j \in 1 .. m : ss[j].name = NoId}
           Good(m) == m \in 0 .. Len(ss) =>
             IsList(UpTo(ss, m)) /\ Len(UpTo(ss, m)) = Cardinality(S(m)) /\ IsFiniteSet(S(m))
           T == {m \in Nat : ~ Good(m)}
<1>0. Len(ss) \in Nat
  BY ListIs
<1>10. SUFFICES Good(i)
  BY <1>0 DEF Nth
<1>1. SUFFICES ASSUME T # {}
               PROVE  FALSE
  <2>1. i \in Nat
    BY <1>0
  <2> HIDE DEF Good
  <2> QED
    BY <2>1
<1>2. PICK m \in Nat : ~ Good(m) /\ \A j \in Nat : ~ Good(j) => m <= j
  <2>1. T \in SUBSET Nat
    OBVIOUS
  <2>2. PICK m \in T : \A j \in T : m <= j
    <3> HIDE DEF T
    <3> QED
      BY <1>1, <2>1, Least
  <2> HIDE DEF Good
  <2> QED
    BY <2>2
<1>3. m \in 0 .. Len(ss)
  BY <1>2
<1>4. m # 0
  <2>1. S(0) = {} /\ UpTo(ss, 0) = <<>>
    BY UpToIs
  <2> HIDE DEF S
  <2>2. IsFiniteSet(S(0)) /\ Cardinality(S(0)) = 0
    BY <2>1, FS_EmptySet
  <2>3. Good(0)
    BY <2>1, <2>2, ShortLists
  <2> QED
    BY <1>2, <2>3
<1>5. m \in 1 .. Len(ss) /\ m - 1 \in Nat /\ m - 1 \in 0 .. Len(ss)
  BY <1>0, <1>3, <1>4
<1> DEFINE a == UpTo(ss, m - 1)
<1>6. IsList(a) /\ Len(a) = Cardinality(S(m - 1)) /\ IsFiniteSet(S(m - 1))
  <2>1. Good(m - 1)
    <3> HIDE DEF Good
    <3> QED
      BY <1>2, <1>5
  <2> QED
    BY <1>5, <2>1
<1>7. UpTo(ss, m) = IF ss[m].name = NoId THEN Append(a, m) ELSE a
  BY <1>5, UpToIs
<1> HIDE DEF a
<1>8. CASE ss[m].name = NoId
  <2>1. S(m) = S(m - 1) \cup {m} /\ m \notin S(m - 1)
    BY <1>5, <1>8
  <2> HIDE DEF S
  <2>2. IsFiniteSet(S(m)) /\ Cardinality(S(m)) = Cardinality(S(m - 1)) + 1
    BY <1>6, <2>1, FS_AddElement
  <2>3. IsList(Append(a, m)) /\ Len(Append(a, m)) = Len(a) + 1
    BY <1>6, Appended
  <2>4. Good(m)
    BY <1>6, <1>7, <1>8, <2>2, <2>3
  <2> QED
    BY <1>2, <2>4
<1>9. CASE ss[m].name # NoId
  <2>1. S(m) = S(m - 1)
    BY <1>5, <1>9
  <2> HIDE DEF S
  <2>2. Good(m)
    BY <1>6, <1>7, <1>9, <2>1
  <2> QED
    BY <1>2, <2>2
<1> QED
  BY <1>8, <1>9

\* A list of options with those of the sections at some positions in front, each in
\* the place of one of the list.
Longer(base, a) == IF Len(base) > Len(a) THEN Len(base) ELSE Len(a)
Merged(base, ss, a) ==
  [k \in 1 .. Longer(base, a) |-> IF k <= Len(a) THEN ss[a[k]].opts ELSE base[k]]

\* One more: in the place of one, or behind them all.
LEMMA MergedOn ==
  ASSUME NEW base, NEW ss, NEW a, IsList(base), IsList(a), NEW i
  PROVE  LET k == Len(a) + 1
             old == Merged(base, ss, a)
             new == Merged(base, ss, Append(a, i))
         IN  /\ k <= Len(base) => new = [old EXCEPT ![k] = ss[i].opts] /\ old[k] = base[k]
             /\ k > Len(base) => new = Append(old, ss[i].opts)
<1> DEFINE k == Len(a) + 1
           b == Append(a, i)
           o == ss[i].opts
           old == Merged(base, ss, a)
           new == Merged(base, ss, b)
<1>1. /\ Len(b) = k /\ Len(a) \in Nat /\ b[k] = i
      /\ \A j \in 1 .. Len(a) : b[j] = a[j]
  <2> DEFINE S == ToSet(a) \cup {i}
  <2>1. a \in Seq(S) /\ i \in S
    BY DEF IsList
  <2> HIDE DEF S
  <2> QED
    BY <2>1
<1>2. Len(base) \in Nat
  BY ListIs
<1> HIDE DEF b
<1>3. ASSUME k <= Len(base)
      PROVE  new = [old EXCEPT ![k] = o] /\ old[k] = base[k]
  <2>1. Longer(base, a) = Len(base) /\ Longer(base, b) = Len(base)
    BY <1>1, <1>2, <1>3 DEF Longer
  <2>2. old = [j \in 1 .. Len(base) |-> IF j <= Len(a) THEN ss[a[j]].opts ELSE base[j]]
    BY <2>1 DEF Merged
  <2>3. new = [j \in 1 .. Len(base) |-> IF j <= k THEN ss[b[j]].opts ELSE base[j]]
    BY <1>1, <2>1 DEF Merged
  <2> HIDE DEF old, new
  <2>4. [old EXCEPT ![k] = o] = [j \in 1 .. Len(base) |-> IF j = k THEN o ELSE old[j]]
    BY <1>1, <1>2, <1>3, <2>2
  <2>5. \A j \in 1 .. Len(base) :
          (IF j <= k THEN ss[b[j]].opts ELSE base[j]) = (IF j = k THEN o ELSE old[j])
    <3> SUFFICES ASSUME NEW j \in 1 .. Len(base)
                 PROVE  (IF j <= k THEN ss[b[j]].opts ELSE base[j]) = (IF j = k THEN o ELSE old[j])
        OBVIOUS
    <3>1. old[j] = IF j <= Len(a) THEN ss[a[j]].opts ELSE base[j]
      BY <2>2
    <3>2. CASE j = k
      BY <1>1, <3>2
    <3>3. CASE j < k
      BY <1>1, <1>2, <3>1, <3>3
    <3>4. CASE j > k
      BY <1>1, <1>2, <3>1, <3>4
    <3> QED
      BY <1>1, <1>2, <3>2, <3>3, <3>4
  <2>6. old[k] = base[k]
    BY <1>1, <1>2, <1>3, <2>2
  <2> QED
    BY <2>3, <2>4, <2>5, <2>6
<1>4. ASSUME k > Len(base)
      PROVE  new = Append(old, o)
  <2>1. Longer(base, a) = Len(a) /\ Longer(base, b) = k
    BY <1>1, <1>2, <1>4 DEF Longer
  <2>2. old = [j \in 1 .. Len(a) |-> IF j <= Len(a) THEN ss[a[j]].opts ELSE base[j]]
    BY <2>1 DEF Merged
  <2>3. new = [j \in 1 .. k |-> IF j <= k THEN ss[b[j]].opts ELSE base[j]]
    BY <1>1, <2>1 DEF Merged
  <2> HIDE DEF old, new
  <2>4. old = [j \in 1 .. Len(a) |-> old[j]]
    BY <2>2
  <2>5. IsList(old) /\ Len(old) = Len(a)
    BY <1>1, <2>4, ListIs
  <2>6. Append(old, o) = [j \in 1 .. k |-> IF j = k THEN o ELSE old[j]]
    <3> DEFINE S == ToSet(old) \cup {o}
    <3>1. old \in Seq(S) /\ o \in S
      BY <2>5 DEF IsList
    <3> HIDE DEF S
    <3>2. /\ Append(old, o) \in Seq(S) /\ Len(Append(old, o)) = k
          /\ \A j \in 1 .. Len(old) : Append(old, o)[j] = old[j]
          /\ Append(old, o)[k] = o
      BY <2>5, <3>1
    <3>3. Append(old, o) = [j \in 1 .. k |-> Append(old, o)[j]]
      BY <1>1, <3>2
    <3>4. \A j \in 1 .. k : Append(old, o)[j] = IF j = k THEN o ELSE old[j]
      BY <1>1, <2>5, <3>2
    <3> QED
      BY <3>3, <3>4
  <2>7. \A j \in 1 .. k :
          (IF j <= k THEN ss[b[j]].opts ELSE base[j]) = (IF j = k THEN o ELSE old[j])
    BY <1>1, <2>2
  <2> QED
    BY <2>3, <2>6, <2>7
<1> QED
  BY <1>3, <1>4 DEF b

\* What the anonymous sections of a type say before the wanted ones take their places.
Base(e, mode, t) == IF mode = "merge" THEN Bare(e, t) ELSE <<>>

\* The id that the i-th wanted section of w takes.
Reuse(e, mode, w, i) ==
  LET ids == IF mode = "merge" THEN AnonymousIDs(e, w.type) ELSE <<>>
      n == Nth(w.sections, i)
  IN  IF w.sections[i].name = NoId /\ n <= Len(ids) THEN ids[n] ELSE NoId

\* The calls for a type: those for its sections, in order.
LEMMA TypeIs ==
  ASSUME NEW e, NEW mode, NEW w
  PROVE  ApplyType(e, mode, w)
           = FlattenSeq([i \in DOMAIN w.sections |->
               ApplySection(e, w.type, w.sections[i], Reuse(e, mode, w, i))])
BY DEF ApplyType, Reuse, Nth, NoId

\* The base is a list: in merge mode as long as there are anonymous sections.
LEMMA BaseIs ==
  ASSUME NEW e, WellFormed(e), NEW mode, NEW t
  PROVE  /\ IsList(Base(e, mode, t))
         /\ mode = "merge" => Len(Base(e, mode, t)) = Len(Places(e, t))
         /\ mode # "merge" => Base(e, mode, t) = <<>> /\ Len(Base(e, mode, t)) = 0
<1>1. Len(Places(e, t)) \in Nat
  BY PlacesInOrder
<1>2. Bare(e, t) = [k \in 1 .. Len(Places(e, t)) |-> Bare(e, t)[k]]
  BY DEF Bare
<1>3. IsList(Bare(e, t)) /\ Len(Bare(e, t)) = Len(Places(e, t))
  BY <1>1, <1>2, ListIs
<1> QED
  BY <1>3, ShortLists DEF Base

\* A section without a name takes the id in its place, or none behind them all.
LEMMA ReuseIs ==
  ASSUME NEW e, WellFormed(e), NEW mode, NEW w, IsList(w.sections), NEW i \in 1 .. Len(w.sections),
         w.sections[i].name = NoId
  PROVE  LET n == Nth(w.sections, i)
             t == w.type
         IN  /\ n <= Len(Base(e, mode, t)) =>
                  /\ mode = "merge" /\ n \in 1 .. Len(Places(e, t))
                  /\ Reuse(e, mode, w, i) = e[Places(e, t)[n]].id
             /\ n > Len(Base(e, mode, t)) => Reuse(e, mode, w, i) = NoId
<1> DEFINE n == Nth(w.sections, i)
           t == w.type
           q == Places(e, t)
           base == Base(e, mode, t)
<1>1. n \in Nat /\ n >= 1
  <2> DEFINE ss == w.sections
  <2>1. i \in 0 .. Len(ss) /\ i - 1 \in 0 .. Len(ss) /\ Len(ss) \in Nat
    BY ListIs
  <2>2. UpTo(ss, i) = Append(UpTo(ss, i - 1), i)
    BY UpToIs
  <2>3. IsList(UpTo(ss, i - 1)) /\ Len(UpTo(ss, i)) = n
    BY <2>1, NthIs
  <2>4. Len(UpTo(ss, i)) = Len(UpTo(ss, i - 1)) + 1 /\ Len(UpTo(ss, i - 1)) \in Nat
    BY <2>2, <2>3, Appended, ListIs
  <2> QED
    BY <2>3, <2>4
<1>2. Len(q) \in Nat
  BY PlacesInOrder
<1>3. CASE mode = "merge"
  <2> DEFINE ids == AnonymousIDs(e, t)
  <2>1. /\ DOMAIN Anonymous(e, t) = 1 .. Len(q)
        /\ \A k \in 1 .. Len(q) : Anonymous(e, t)[k] = e[q[k]]
    BY AnonymousIs
  <2>2. ids = [k \in 1 .. Len(q) |-> e[q[k]].id]
    BY <2>1 DEF AnonymousIDs
  <2> HIDE DEF ids, q
  <2>3. Len(ids) = Len(q) /\ \A k \in 1 .. Len(q) : ids[k] = e[q[k]].id
    BY <1>2, <2>2
  <2>4. Reuse(e, mode, w, i) = IF n <= Len(ids) THEN ids[n] ELSE NoId
    BY <1>3 DEF Reuse, ids
  <2>5. Len(base) = Len(q)
    BY <1>3, BaseIs DEF q
  <2> HIDE DEF n, base
  <2> QED
    BY <1>1, <1>2, <1>3, <2>3, <2>4, <2>5 DEF n, base, q
<1>4. CASE mode # "merge"
  <2>1. Len(base) = 0
    BY <1>4, BaseIs
  <2>2. Reuse(e, mode, w, i) = IF n <= Len(<<>>) THEN <<>>[n] ELSE NoId
    BY <1>4 DEF Reuse
  <2>3. ~ (n <= 0) /\ Len(<<>>) = 0
    BY <1>1
  <2> HIDE DEF n, base
  <2>4. Reuse(e, mode, w, i) = NoId
    BY <2>2, <2>3
  <2> QED
    BY <2>1, <2>3, <2>4 DEF n, base
<1> QED
  BY <1>3, <1>4

\* What a package says of a name.
Says(b, n, x) == n \in DOMAIN Naming(b) /\ Naming(b)[n] = x

\* From a to b, the first i sections of a type have become as wanted, and nothing else.
SoFar(a, b, t, ss, base, i) ==
  /\ WellFormed(b) /\ Extends(a, b)
  /\ Bare(b, t) = Merged(base, ss, UpTo(ss, i))
  /\ \A u : u # t => Bare(b, u) = Bare(a, u)
  /\ \A j \in 1 .. i : ss[j].name # NoId => Says(b, ss[j].name, <<t, ss[j].opts>>)
  /\ \A n : (\A j \in 1 .. i : ss[j].name = n => n = NoId) => SameName(a, b, n)

\* Where the sections of a type start from: nothing that concerns them has changed
\* since the package was read.
Ready(e, mode, w, a) ==
  /\ WellFormed(a) /\ (mode = "merge" => Extends(e, a))
  /\ Bare(a, w.type) = Base(e, mode, w.type)
  /\ \A i \in DOMAIN w.sections : w.sections[i].name # NoId => SameName(e, a, w.sections[i].name)

\* A name that says the same says it on.
LEMMA SameNameOn ==
  ASSUME NEW a, NEW b, NEW c, NEW n
  PROVE  /\ SameName(a, b, n) /\ SameName(b, c, n) => SameName(a, c, n)
         /\ Naming(b) = Naming(a) => SameName(a, b, n)
         /\ \A x : Says(a, n, x) /\ SameName(a, b, n) => Says(b, n, x)
BY DEF SameName, Naming, Says

\* Nothing done yet.
LEMMA TypeStart ==
  ASSUME NEW e, WellFormed(e), NEW mode, NEW w, IsList(w.sections), NEW a, Ready(e, mode, w, a)
  PROVE  SoFar(a, a, w.type, w.sections, Base(e, mode, w.type), 0)
<1> DEFINE ss == w.sections
           base == Base(e, mode, w.type)
<1>1. Merged(base, ss, <<>>) = base
  <2>1. IsList(base) /\ Len(base) \in Nat /\ base = [k \in 1 .. Len(base) |-> base[k]]
    BY BaseIs, ListIs
  <2> HIDE DEF base
  <2>2. Longer(base, <<>>) = Len(base)
    BY <2>1 DEF Longer
  <2>3. \A k \in 1 .. Len(base) : ~ (k <= Len(<<>>))
    BY <2>1
  <2>4. Merged(base, ss, <<>>) = [k \in 1 .. Len(base) |-> base[k]]
    BY <2>2, <2>3 DEF Merged
  <2> QED
    BY <2>1, <2>4
<1>2. UpTo(ss, 0) = <<>>
  BY UpToIs
<1>3. Extends(a, a)
  BY DEF Extends
<1>4. \A n : SameName(a, a, n)
  BY DEF SameName
<1> QED
  BY <1>1, <1>2, <1>3, <1>4 DEF SoFar, Ready

\* One more section with a name.
LEMMA NameStep ==
  ASSUME NEW e, WellFormed(e), OptsAre(e), NEW mode, NEW w, SoundSections(w.sections),
         NEW a, Ready(e, mode, w, a), NEW i \in 1 .. Len(w.sections), w.sections[i].name # NoId,
         NEW x, SoFar(a, x.secs, w.type, w.sections, Base(e, mode, w.type), i - 1),
         NEW y, NEW reuse, Leads(x, ApplySection(e, w.type, w.sections[i], reuse), y)
  PROVE  SoFar(a, y.secs, w.type, w.sections, Base(e, mode, w.type), i)
<1> DEFINE ss == w.sections
           t == w.type
           base == Base(e, mode, t)
           name == ss[i].name
           b == x.secs
           c == y.secs
<1>1. Len(ss) \in Nat /\ DOMAIN ss = 1 .. Len(ss) /\ IsList(ss)
  BY ListIs DEF SoundSections
<1>2. IsName(name) /\ IsFcn(ss[i].opts)
  BY <1>1 DEF SoundSections
<1>3. \A j \in 1 .. i - 1 : ss[j].name # name
  BY <1>1 DEF SoundSections
<1>4. SameName(a, b, name)
  BY <1>3 DEF SoFar
<1>5. SameName(e, a, name)
  BY <1>1 DEF Ready
<1>6. SameName(e, b, name)
  BY <1>4, <1>5, SameNameOn
<1>7. NameSet(b, c, name, <<t, ss[i].opts>>)
  <2>1. WellFormed(b)
    BY DEF SoFar
  <2> QED
    BY <1>2, <1>6, <2>1, NameApplied
<1>8. UpTo(ss, i) = UpTo(ss, i - 1)
  BY <1>1, UpToIs
<1> HIDE DEF b, c, base
<1>9. SoFar(a, b, t, ss, base, i - 1)
  BY DEF b, base
<1>10. WellFormed(c) /\ Extends(a, c)
  BY <1>7, <1>9, ExtendsOn DEF NameSet, SoFar
<1>11. \A u : Bare(c, u) = Bare(b, u)
  BY <1>7 DEF NameSet
<1>12. ASSUME NEW j \in 1 .. i, ss[j].name # NoId
       PROVE  Says(c, ss[j].name, <<t, ss[j].opts>>)
  <2>1. CASE j = i
    BY <1>7, <2>1 DEF NameSet, Says
  <2>2. CASE j # i
    <3>1. j \in 1 .. i - 1
      BY <1>1, <2>2
    <3>2. Says(b, ss[j].name, <<t, ss[j].opts>>)
      BY <1>9, <1>12, <3>1 DEF SoFar
    <3>3. SameName(b, c, ss[j].name)
      BY <1>3, <1>7, <3>1 DEF NameSet
    <3> QED
      BY <3>2, <3>3, SameNameOn
  <2> QED
    BY <2>1, <2>2
<1>13. ASSUME NEW n, \A j \in 1 .. i : ss[j].name = n => n = NoId
       PROVE  SameName(a, c, n)
  <2>1. n # name
    BY <1>1, <1>13
  <2>2. \A j \in 1 .. i - 1 : ss[j].name = n => n = NoId
    BY <1>1, <1>13
  <2>3. SameName(a, b, n)
    BY <1>9, <2>2 DEF SoFar
  <2>4. SameName(b, c, n)
    BY <1>7, <2>1 DEF NameSet
  <2> QED
    BY <2>3, <2>4, SameNameOn
<1>14. /\ Bare(c, t) = Merged(base, ss, UpTo(ss, i))
       /\ \A u : u # t => Bare(c, u) = Bare(a, u)
  BY <1>8, <1>9, <1>11 DEF SoFar
<1> QED
  BY <1>10, <1>12, <1>13, <1>14 DEF SoFar, c, base

\* One more without.
LEMMA BareStep ==
  ASSUME NEW e, WellFormed(e), OptsAre(e), NEW mode, NEW w, SoundSections(w.sections),
         NEW a, Ready(e, mode, w, a), NEW i \in 1 .. Len(w.sections), w.sections[i].name = NoId,
         NEW x, SoFar(a, x.secs, w.type, w.sections, Base(e, mode, w.type), i - 1),
         NEW y, Leads(x, ApplySection(e, w.type, w.sections[i], Reuse(e, mode, w, i)), y)
  PROVE  SoFar(a, y.secs, w.type, w.sections, Base(e, mode, w.type), i)
<1> DEFINE ss == w.sections
           t == w.type
           base == Base(e, mode, t)
           b == x.secs
           c == y.secs
           at == UpTo(ss, i - 1)
           k == Len(at) + 1
<1>1. Len(ss) \in Nat /\ DOMAIN ss = 1 .. Len(ss) /\ IsList(ss) /\ IsFcn(ss[i].opts)
  BY ListIs DEF SoundSections
<1>2. UpTo(ss, i) = Append(at, i)
  BY <1>1, UpToIs
<1>3. IsList(at) /\ Len(at) \in Nat /\ k = Nth(ss, i)
  <2>1. i \in 0 .. Len(ss) /\ i - 1 \in 0 .. Len(ss)
    BY <1>1
  <2>2. IsList(at)
    BY <1>1, <2>1, NthIs
  <2>3. Len(UpTo(ss, i)) = Nth(ss, i)
    BY <1>1, <2>1, NthIs
  <2> QED
    BY <1>2, <2>2, <2>3, Appended, ListIs
<1>4. IsList(base) /\ Len(base) \in Nat
  BY BaseIs, ListIs
<1> HIDE DEF at
<1>5. /\ k <= Len(base) => /\ Merged(base, ss, Append(at, i)) = [Merged(base, ss, at) EXCEPT ![k] = ss[i].opts]
                           /\ Merged(base, ss, at)[k] = base[k]
      /\ k > Len(base) => Merged(base, ss, Append(at, i)) = Append(Merged(base, ss, at), ss[i].opts)
  BY <1>3, <1>4, MergedOn
<1>6. /\ k <= Len(base) =>
           /\ mode = "merge" /\ k \in 1 .. Len(Places(e, t))
           /\ Reuse(e, mode, w, i) = e[Places(e, t)[k]].id
      /\ k > Len(base) => Reuse(e, mode, w, i) = NoId
  BY <1>1, <1>3, ReuseIs
<1>7. WellFormed(b) /\ Extends(a, b) /\ Bare(b, t) = Merged(base, ss, at)
  BY DEF SoFar, at
<1> DEFINE list == Merged(base, ss, UpTo(ss, i))
<1> HIDE DEF list
<1>8. ASSUME k <= Len(base)
      PROVE  BareSet(b, c, t, list)
  <2>1. Extends(e, b)
    BY <1>6, <1>7, <1>8, ExtendsOn DEF Ready
  <2>2. Bare(b, t)[k] = Bare(e, t)[k]
    BY <1>5, <1>6, <1>7, <1>8 DEF Base
  <2>3. PlaceSet(b, c, t, k, ss[i].opts)
    <3>1. k \in 1 .. Len(Places(e, t)) /\ Reuse(e, mode, w, i) = e[Places(e, t)[k]].id
      BY <1>6, <1>8
    <3> HIDE DEF k, base
    <3> QED
      BY <1>1, <1>7, <2>1, <2>2, <3>1, PlaceApplied
  <2>4. list = [Bare(b, t) EXCEPT ![k] = ss[i].opts]
    BY <1>2, <1>5, <1>7, <1>8 DEF list
  <2> QED
    BY <2>3, <2>4 DEF PlaceSet
<1>9. ASSUME k > Len(base)
      PROVE  BareSet(b, c, t, list)
  <2>1. BareSet(b, c, t, Append(Bare(b, t), ss[i].opts))
    <3>1. Reuse(e, mode, w, i) = NoId
      BY <1>6, <1>9
    <3> QED
      BY <1>1, <1>7, <3>1, AddApplied
  <2>2. list = Append(Bare(b, t), ss[i].opts)
    BY <1>2, <1>5, <1>7, <1>9 DEF list
  <2> QED
    BY <2>1, <2>2
<1>10. BareSet(b, c, t, list)
  BY <1>3, <1>4, <1>8, <1>9
<1> HIDE DEF b, c, base, k
<1>11. SoFar(a, b, t, ss, base, i - 1)
  BY DEF b, base
<1>12. WellFormed(c) /\ Extends(a, c)
  BY <1>7, <1>10, ExtendsOn DEF BareSet
<1>13. \A n : SameName(b, c, n)
  BY <1>10, SameNameOn DEF BareSet
<1>14. ASSUME NEW j \in 1 .. i, ss[j].name # NoId
       PROVE  Says(c, ss[j].name, <<t, ss[j].opts>>)
  <2>1. j \in 1 .. i - 1
    BY <1>1, <1>14
  <2>2. Says(b, ss[j].name, <<t, ss[j].opts>>)
    BY <1>11, <1>14, <2>1 DEF SoFar
  <2> QED
    BY <1>13, <2>2, SameNameOn
<1>15. ASSUME NEW n, \A j \in 1 .. i : ss[j].name = n => n = NoId
       PROVE  SameName(a, c, n)
  <2>1. \A j \in 1 .. i - 1 : ss[j].name = n => n = NoId
    BY <1>1, <1>15
  <2>2. SameName(a, b, n)
    BY <1>11, <2>1 DEF SoFar
  <2> QED
    BY <1>13, <2>2, SameNameOn
<1>16. Bare(c, t) = list /\ \A u : u # t => Bare(c, u) = Bare(a, u)
  BY <1>10, <1>11 DEF SoFar, BareSet
<1> QED
  BY <1>12, <1>14, <1>15, <1>16 DEF SoFar, c, base, list

\* The calls for a section are a list.
LEMMA SectionLists ==
  ASSUME NEW e, NEW t, NEW w, NEW reuse
  PROVE  IsList(ApplySection(e, t, w, reuse))
<1>1. CASE w.name # NoId
  <2> DEFINE A == CreateOrRetype(e, w.name, t)
             B == SetValues(w.name, w.opts)
             C == CleanStaleOptions(e, w.name, w.opts)
  <2>1. ApplySection(e, t, w, reuse) = (A \o B) \o C
    BY <1>1 DEF ApplySection, NoId
  <2>2. IsList(A) /\ IsList(B) /\ IsList(C)
    BY CallLists, CleansAre
  <2> HIDE DEF A, B, C
  <2>3. IsList(A \o B)
    BY <2>2, Joined
  <2> QED
    BY <2>1, <2>2, <2>3, Joined
<1>2. CASE w.name = NoId /\ reuse # NoId
  <2> DEFINE B == SetValues(reuse, w.opts)
             C == CleanStaleOptions(e, reuse, w.opts)
  <2>1. ApplySection(e, t, w, reuse) = B \o C
    BY <1>2 DEF ApplySection, NoId
  <2>2. IsList(B) /\ IsList(C)
    BY CallLists, CleansAre
  <2> HIDE DEF B, C
  <2> QED
    BY <2>1, <2>2, Joined
<1>3. CASE w.name = NoId /\ reuse = NoId
  <2> DEFINE A == <<Op("add", NoId, t)>>
             B == SetValues(NoId, w.opts)
  <2>1. ApplySection(e, t, w, reuse) = A \o B
    BY <1>3 DEF ApplySection, NoId
  <2>2. IsList(A) /\ IsList(B)
    BY CallLists, ShortLists
  <2> HIDE DEF A, B
  <2> QED
    BY <2>1, <2>2, Joined
<1> QED
  BY <1>1, <1>2, <1>3

\* So are those for a type.
LEMMA TypeLists ==
  ASSUME NEW e, NEW mode, NEW w, IsList(w.sections)
  PROVE  LET parts == [i \in DOMAIN w.sections |->
                         ApplySection(e, w.type, w.sections[i], Reuse(e, mode, w, i))]
         IN  AreLists(parts) /\ Len(parts) = Len(w.sections) /\ IsList(ApplyType(e, mode, w))
<1> DEFINE n == Len(w.sections)
           part(i) == ApplySection(e, w.type, w.sections[i], Reuse(e, mode, w, i))
           parts == [i \in DOMAIN w.sections |-> part(i)]
<1>1. n \in Nat /\ DOMAIN w.sections = 1 .. n
  BY ListIs
<1>2. \A i : IsList(part(i))
  BY SectionLists
<1>3. ApplyType(e, mode, w) = FlattenSeq(parts)
  BY TypeIs
<1> HIDE DEF n, part
<1>4. parts = [i \in 1 .. n |-> parts[i]] /\ DOMAIN parts = 1 .. n /\ \A i \in 1 .. n : parts[i] = part(i)
  BY <1>1
<1> HIDE DEF parts
<1>5. IsList(parts) /\ Len(parts) = n
  BY <1>1, <1>4, ListIs
<1>6. AreLists(parts)
  BY <1>2, <1>4, <1>5 DEF AreLists
<1>7. IsList(FlattenSeq(parts))
  BY <1>6, Flattened
<1> QED
  BY <1>3, <1>5, <1>6, <1>7 DEF parts, part, n

\* All wanted sections of a type become as wanted, and nothing else.
LEMMA TypeApplied ==
  ASSUME NEW e, WellFormed(e), OptsAre(e), NEW mode, NEW w, SoundSections(w.sections),
         NEW x, Ready(e, mode, w, x.secs), NEW y, Leads(x, ApplyType(e, mode, w), y)
  PROVE  SoFar(x.secs, y.secs, w.type, w.sections, Base(e, mode, w.type), Len(w.sections))
<1> DEFINE ss == w.sections
           n == Len(ss)
           base == Base(e, mode, w.type)
           part(i) == ApplySection(e, w.type, ss[i], Reuse(e, mode, w, i))
           parts == [i \in DOMAIN ss |-> part(i)]
<1>1. IsList(ss) /\ n \in Nat /\ DOMAIN ss = 1 .. n
  BY ListIs DEF SoundSections
<1>2. AreLists(parts) /\ Len(parts) = n /\ ApplyType(e, mode, w) = FlattenSeq(parts)
  BY <1>1, TypeLists, TypeIs
<1>3. \A i \in 1 .. n : parts[i] = part(i)
  BY <1>1
<1> HIDE DEF parts, part
<1>4. PICK g : Parts(x, parts, n, y, g)
  BY <1>2, LeadsFlat
<1> DEFINE Good(i) == i \in 0 .. n => SoFar(x.secs, g[i].secs, w.type, ss, base, i)
           T == {i \in Nat : ~ Good(i)}
<1>5. T = {}
  <2>1. SUFFICES ASSUME T # {}
                 PROVE  FALSE
    OBVIOUS
  <2>2. PICK i \in Nat : ~ Good(i) /\ \A j \in Nat : ~ Good(j) => i <= j
    <3>1. T \in SUBSET Nat
      OBVIOUS
    <3>2. PICK i \in T : \A j \in T : i <= j
      <4> HIDE DEF T
      <4> QED
        BY <2>1, <3>1, Least
    <3> HIDE DEF Good
    <3> QED
      BY <3>2
  <2>3. i \in 0 .. n
    BY <2>2
  <2>4. CASE i = 0
    <3>1. g[0] = x
      BY <1>4 DEF Parts
    <3>2. SoFar(x.secs, x.secs, w.type, ss, base, 0)
      BY <1>1, TypeStart
    <3> QED
      BY <2>2, <2>4, <3>1, <3>2
  <2>5. CASE i # 0
    <3>1. i - 1 \in Nat /\ i - 1 \in 0 .. n /\ i \in 1 .. n
      BY <1>1, <2>3, <2>5
    <3>2. Good(i - 1)
      <4> HIDE DEF Good
      <4> QED
        BY <2>2, <3>1
    <3>3. SoFar(x.secs, g[i - 1].secs, w.type, ss, base, i - 1)
      BY <3>1, <3>2
    <3>4. Leads(g[i - 1], part(i), g[i])
      BY <1>3, <1>4, <3>1 DEF Parts
    <3>5. SoFar(x.secs, g[i].secs, w.type, ss, base, i)
      <4>1. CASE ss[i].name = NoId
        BY <3>1, <3>3, <3>4, <4>1, BareStep DEF part
      <4>2. CASE ss[i].name # NoId
        BY <3>1, <3>3, <3>4, <4>2, NameStep DEF part
      <4> QED
        BY <4>1, <4>2
    <3> QED
      BY <2>2, <3>5
  <2> QED
    BY <2>4, <2>5
<1>6. Good(n)
  <2> HIDE DEF Good
  <2> QED
    BY <1>1, <1>5
<1> QED
  BY <1>1, <1>4, <1>6 DEF Parts

-----------------------------------------------------------------------------
(* All types. *)

\* The sections of w say what is wanted.
BareDone(b, e, mode, w) ==
  Bare(b, w.type)
    = Merged(Base(e, mode, w.type), w.sections, UpTo(w.sections, Len(w.sections)))
NamesDone(b, w) ==
  \A k \in DOMAIN w.sections :
    LET s == w.sections[k] IN s.name # NoId => Says(b, s.name, <<w.type, s.opts>>)
NoneOf(w, n) == \A k \in DOMAIN w.sections : w.sections[k].name = n => n = NoId

\* From a to b, the first i types have become as wanted, and nothing else.
TypesDone(a, b, e, mode, types, i) ==
  /\ WellFormed(b) /\ Extends(a, b)
  /\ \A j \in 1 .. i : BareDone(b, e, mode, types[j]) /\ NamesDone(b, types[j])
  /\ \A u : (\A j \in 1 .. i : types[j].type # u) => Bare(b, u) = Bare(a, u)
  /\ \A n : (\A j \in 1 .. i : NoneOf(types[j], n)) => SameName(a, b, n)

\* One more type.
LEMMA TypesStep ==
  ASSUME NEW e, WellFormed(e), OptsAre(e), NEW mode, NEW types, SoundTypes(types),
         NEW a, \A j \in DOMAIN types : Ready(e, mode, types[j], a),
         NEW i \in 1 .. Len(types), NEW x, TypesDone(a, x.secs, e, mode, types, i - 1),
         NEW y, Leads(x, ApplyType(e, mode, types[i]), y)
  PROVE  TypesDone(a, y.secs, e, mode, types, i)
<1> DEFINE w == types[i]
           ss == w.sections
           b == x.secs
           c == y.secs
<1>1. Len(types) \in Nat /\ DOMAIN types = 1 .. Len(types)
  BY ListIs DEF SoundTypes
<1>2. SoundSections(ss) /\ \A j \in 1 .. i - 1 : types[j].type # w.type
  BY <1>1 DEF SoundTypes
<1>3. \A j \in 1 .. i - 1 : \A k \in DOMAIN ss : ss[k].name # NoId => NoneOf(types[j], ss[k].name)
  <2> SUFFICES ASSUME NEW j \in 1 .. i - 1, NEW k \in DOMAIN ss, ss[k].name # NoId,
                      NEW l \in DOMAIN types[j].sections, types[j].sections[l].name = ss[k].name
               PROVE  FALSE
      BY DEF NoneOf
  <2>1. j \in DOMAIN types /\ i \in DOMAIN types /\ i # j
    BY <1>1
  <2> QED
    BY <2>1 DEF SoundTypes
<1>4. Ready(e, mode, w, a)
  BY <1>1
<1>5. Ready(e, mode, w, b)
  <2>1. WellFormed(b) /\ (mode = "merge" => Extends(e, b))
    BY <1>4, ExtendsOn DEF Ready, TypesDone
  <2>2. Bare(b, w.type) = Base(e, mode, w.type)
    BY <1>2, <1>4 DEF Ready, TypesDone
  <2>3. ASSUME NEW k \in DOMAIN ss, ss[k].name # NoId
        PROVE  SameName(e, b, ss[k].name)
    <3>1. SameName(a, b, ss[k].name)
      BY <1>3, <2>3 DEF TypesDone
    <3>2. SameName(e, a, ss[k].name)
      BY <1>4, <2>3 DEF Ready
    <3> QED
      BY <3>1, <3>2, SameNameOn
  <2> QED
    BY <2>1, <2>2, <2>3 DEF Ready
<1>6. SoFar(b, c, w.type, ss, Base(e, mode, w.type), Len(ss))
  BY <1>2, <1>5, TypeApplied
<1>0. DOMAIN ss = 1 .. Len(ss)
  BY <1>2, ListIs DEF SoundSections
<1> HIDE DEF w, b, c
<1>7. TypesDone(a, b, e, mode, types, i - 1)
  BY DEF b
<1>8. WellFormed(c) /\ Extends(a, c)
  BY <1>6, <1>7, ExtendsOn DEF SoFar, TypesDone
<1>9. \A n : NoneOf(w, n) => SameName(b, c, n)
  BY <1>0, <1>6 DEF SoFar, NoneOf
<1>10. ASSUME NEW j \in 1 .. i
       PROVE  BareDone(c, e, mode, types[j]) /\ NamesDone(c, types[j])
  <2>1. CASE j = i
    <3>1. BareDone(c, e, mode, w) /\ NamesDone(c, w)
      BY <1>0, <1>6 DEF SoFar, BareDone, NamesDone
    <3> QED
      BY <2>1, <3>1 DEF w
  <2>2. CASE j # i
    <3>1. j \in 1 .. i - 1
      BY <1>1, <2>2
    <3>2. BareDone(b, e, mode, types[j]) /\ NamesDone(b, types[j])
      BY <1>7, <3>1 DEF TypesDone
    <3>3. BareDone(c, e, mode, types[j])
      BY <1>2, <1>6, <3>1, <3>2 DEF BareDone, SoFar
    <3>4. ASSUME NEW k \in DOMAIN types[j].sections, types[j].sections[k].name # NoId
          PROVE  Says(c, types[j].sections[k].name, <<types[j].type, types[j].sections[k].opts>>)
      <4> DEFINE n == types[j].sections[k].name
      <4>1. NoneOf(w, n)
        BY <1>3, <3>1, <3>4 DEF NoneOf
      <4>2. SameName(b, c, n)
        BY <1>9, <4>1
      <4>3. Says(b, n, <<types[j].type, types[j].sections[k].opts>>)
        BY <3>2, <3>4 DEF NamesDone
      <4> QED
        BY <4>2, <4>3, SameNameOn
    <3> QED
      BY <3>3, <3>4 DEF NamesDone
  <2> QED
    BY <2>1, <2>2
<1>11. ASSUME NEW u, \A j \in 1 .. i : types[j].type # u
       PROVE  Bare(c, u) = Bare(a, u)
  <2>1. u # w.type /\ \A j \in 1 .. i - 1 : types[j].type # u
    BY <1>1, <1>11 DEF w
  <2> QED
    BY <1>6, <1>7, <2>1 DEF SoFar, TypesDone
<1>12. ASSUME NEW n, \A j \in 1 .. i : NoneOf(types[j], n)
       PROVE  SameName(a, c, n)
  <2>1. NoneOf(w, n) /\ \A j \in 1 .. i - 1 : NoneOf(types[j], n)
    BY <1>1, <1>12 DEF w
  <2>2. SameName(a, b, n)
    BY <1>7, <2>1 DEF TypesDone
  <2> QED
    BY <1>9, <2>1, <2>2, SameNameOn
<1> QED
  BY <1>8, <1>10, <1>11, <1>12 DEF TypesDone, c

\* The calls for all types.
TypesPlan(e, mode, types) == FlattenSeq([i \in DOMAIN types |-> ApplyType(e, mode, types[i])])

\* The calls for all types: a list for each type, in order.
LEMMA TypesPlanIs ==
  ASSUME NEW e, NEW mode, NEW types, SoundTypes(types)
  PROVE  LET parts == [i \in DOMAIN types |-> ApplyType(e, mode, types[i])]
         IN  /\ AreLists(parts) /\ Len(parts) = Len(types)
             /\ \A i \in 1 .. Len(types) : parts[i] = ApplyType(e, mode, types[i])
             /\ IsList(TypesPlan(e, mode, types))
<1> DEFINE n == Len(types)
           part(i) == ApplyType(e, mode, types[i])
           parts == [i \in DOMAIN types |-> part(i)]
<1>1. n \in Nat /\ DOMAIN types = 1 .. n
  BY ListIs DEF SoundTypes
<1>2. \A i \in 1 .. n : IsList(part(i))
  BY <1>1, TypeLists DEF SoundTypes, SoundSections
<1>3. TypesPlan(e, mode, types) = FlattenSeq(parts)
  BY DEF TypesPlan
<1> HIDE DEF n, part
<1>4. parts = [i \in 1 .. n |-> parts[i]] /\ DOMAIN parts = 1 .. n /\ \A i \in 1 .. n : parts[i] = part(i)
  BY <1>1
<1> HIDE DEF parts
<1>5. IsList(parts) /\ Len(parts) = n
  BY <1>1, <1>4, ListIs
<1>6. AreLists(parts)
  BY <1>2, <1>4, <1>5 DEF AreLists
<1>7. IsList(FlattenSeq(parts))
  BY <1>6, Flattened
<1> QED
  BY <1>3, <1>4, <1>5, <1>6, <1>7 DEF parts, part, n

\* All wanted sections become as wanted, and nothing else.
LEMMA TypesApplied ==
  ASSUME NEW e, WellFormed(e), OptsAre(e), NEW mode, NEW types, SoundTypes(types),
         NEW x, WellFormed(x.secs), \A j \in DOMAIN types : Ready(e, mode, types[j], x.secs),
         NEW y, Leads(x, TypesPlan(e, mode, types), y)
  PROVE  TypesDone(x.secs, y.secs, e, mode, types, Len(types))
<1> DEFINE n == Len(types)
           parts == [i \in DOMAIN types |-> ApplyType(e, mode, types[i])]
<1>1. n \in Nat /\ DOMAIN types = 1 .. n
  BY ListIs DEF SoundTypes
<1>2. AreLists(parts) /\ Len(parts) = n /\ \A i \in 1 .. n : parts[i] = ApplyType(e, mode, types[i])
  BY TypesPlanIs
<1>3. TypesPlan(e, mode, types) = FlattenSeq(parts)
  BY DEF TypesPlan
<1> HIDE DEF parts
<1>4. PICK g : Parts(x, parts, n, y, g)
  BY <1>2, <1>3, LeadsFlat
<1> DEFINE Good(i) == i \in 0 .. n => TypesDone(x.secs, g[i].secs, e, mode, types, i)
           T == {i \in Nat : ~ Good(i)}
<1>5. T = {}
  <2>1. SUFFICES ASSUME T # {}
                 PROVE  FALSE
    OBVIOUS
  <2>2. PICK i \in Nat : ~ Good(i) /\ \A j \in Nat : ~ Good(j) => i <= j
    <3>1. T \in SUBSET Nat
      OBVIOUS
    <3>2. PICK i \in T : \A j \in T : i <= j
      <4> HIDE DEF T
      <4> QED
        BY <2>1, <3>1, Least
    <3> HIDE DEF Good
    <3> QED
      BY <3>2
  <2>3. i \in 0 .. n
    BY <2>2
  <2>4. CASE i = 0
    <3>1. g[0] = x
      BY <1>4 DEF Parts
    <3>2. TypesDone(x.secs, x.secs, e, mode, types, 0)
      BY DEF TypesDone, Extends, SameName
    <3> QED
      BY <2>2, <2>4, <3>1, <3>2
  <2>5. CASE i # 0
    <3>1. i - 1 \in Nat /\ i - 1 \in 0 .. n /\ i \in 1 .. n
      BY <1>1, <2>3, <2>5
    <3>2. Good(i - 1)
      <4> HIDE DEF Good
      <4> QED
        BY <2>2, <3>1
    <3>3. TypesDone(x.secs, g[i - 1].secs, e, mode, types, i - 1)
      BY <3>1, <3>2
    <3>4. Leads(g[i - 1], ApplyType(e, mode, types[i]), g[i])
      BY <1>2, <1>4, <3>1 DEF Parts
    <3>5. TypesDone(x.secs, g[i].secs, e, mode, types, i)
      BY <3>1, <3>3, <3>4, TypesStep
    <3> QED
      BY <2>2, <3>5
  <2> QED
    BY <2>4, <2>5
<1>6. Good(n)
  <2> HIDE DEF Good
  <2> QED
    BY <1>1, <1>5
<1> QED
  BY <1>1, <1>4, <1>6 DEF Parts

\* The options of the wanted sections without a name, in their order.
BareWants(ss) ==
  LET new == Selected(ss, Nameless(ss))
  IN  [i \in DOMAIN new |-> new[i].opts]

\* They come first; those of the list that are left come after them.
LEMMA MergedIs ==
  ASSUME NEW base, IsList(base), NEW ss, IsList(ss)
  PROVE  LET m == Merged(base, ss, UpTo(ss, Len(ss)))
             wants == BareWants(ss)
         IN  /\ m = wants \o SubSeq(base, Len(wants) + 1, Len(base))
             /\ base = <<>> => m = wants \o <<>>
<1> DEFINE a == UpTo(ss, Len(ss))
           m == Merged(base, ss, a)
           wants == BareWants(ss)
           n == Len(a)
           k == Len(base)
           rest == SubSeq(base, n + 1, k)
<1>1. Len(ss) \in Nat /\ DOMAIN ss = 1 .. Len(ss) /\ k \in Nat
  BY ListIs
<1>2. a = Ascending(Len(ss), Nameless(ss))
  BY UpToIs
<1>3. n \in Nat /\ wants = [i \in 1 .. n |-> ss[a[i]].opts]
  <2> DEFINE new == Selected(ss, Nameless(ss))
  <2>1. DOMAIN new = 1 .. n /\ n \in Nat
    BY <1>1, <1>2, SelectedIs
  <2>2. \A i \in 1 .. n : new[i] = ss[a[i]]
    BY <1>1, <1>2, SelectedAt
  <2>3. wants = [i \in DOMAIN new |-> new[i].opts]
    BY DEF BareWants
  <2> HIDE DEF new, wants, a
  <2> QED
    BY <2>1, <2>2, <2>3
<1> HIDE DEF a, wants
<1>4. IsList(wants) /\ Len(wants) = n
  <2>1. wants = [i \in 1 .. n |-> wants[i]]
    BY <1>3
  <2> QED
    BY <1>3, <2>1, ListIs
<1>5. /\ IsList(rest) /\ Len(rest) = IF n < k THEN k - n ELSE 0
      /\ \A i \in 1 .. Len(rest) : rest[i] = base[n + i]
  <2> DEFINE S == ToSet(base)
  <2>1. base \in Seq(S)
    BY DEF IsList
  <2> HIDE DEF S
  <2>2. /\ rest \in Seq(S) /\ Len(rest) = IF n < k THEN k - n ELSE 0
        /\ \A i \in 1 .. Len(rest) : rest[i] = base[n + i]
    BY <1>1, <1>3, <2>1
  <2>3. IsList(rest)
    BY <2>2, Members
  <2> QED
    BY <2>2, <2>3
<1> HIDE DEF rest
<1> DEFINE c == wants \o rest
<1>6. /\ IsList(c) /\ Len(c) = n + Len(rest)
      /\ \A i \in 1 .. n : c[i] = wants[i]
      /\ \A i \in 1 .. Len(rest) : c[n + i] = rest[i]
  <2>1. /\ IsList(c) /\ Len(c) = Len(wants) + Len(rest)
        /\ \A i \in 1 .. Len(wants) : c[i] = wants[i]
        /\ \A i \in 1 .. Len(rest) : c[Len(wants) + i] = rest[i]
    <3>1. PICK u, v : u = wants /\ v = rest
      OBVIOUS
    <3>2. /\ IsList(u \o v) /\ Len(u \o v) = Len(u) + Len(v)
          /\ \A i \in 1 .. Len(u) : (u \o v)[i] = u[i]
          /\ \A i \in 1 .. Len(v) : (u \o v)[Len(u) + i] = v[i]
      <4>1. IsList(u) /\ IsList(v)
        BY <1>4, <1>5, <3>1
      <4> QED
        BY <4>1, Joined
    <3> QED
      BY <3>1, <3>2
  <2> HIDE DEF c
  <2> QED
    BY <1>4, <2>1
<1>7. c = [i \in 1 .. Len(c) |-> c[i]]
  BY <1>6, ListIs
<1> HIDE DEF c
<1>8. Longer(base, a) = Len(c)
  BY <1>1, <1>3, <1>5, <1>6 DEF Longer
<1>9. m = [i \in 1 .. Len(c) |-> IF i <= n THEN ss[a[i]].opts ELSE base[i]]
  BY <1>8 DEF Merged
<1>10. \A i \in 1 .. Len(c) : c[i] = IF i <= n THEN ss[a[i]].opts ELSE base[i]
  <2> SUFFICES ASSUME NEW i \in 1 .. Len(c)
               PROVE  c[i] = IF i <= n THEN ss[a[i]].opts ELSE base[i]
      OBVIOUS
  <2>1. CASE i <= n
    <3>1. i \in 1 .. n
      BY <1>1, <1>3, <2>1
    <3> QED
      BY <1>3, <1>6, <2>1, <3>1
  <2>2. CASE ~ (i <= n)
    <3>1. i - n \in 1 .. Len(rest) /\ n + (i - n) = i
      BY <1>1, <1>3, <1>5, <1>6, <2>2
    <3>2. c[n + (i - n)] = rest[i - n] /\ rest[i - n] = base[n + (i - n)]
      BY <1>5, <1>6, <3>1
    <3> QED
      BY <2>2, <3>1, <3>2
  <2> QED
    BY <2>1, <2>2
<1>11. m = c
  BY <1>7, <1>9, <1>10
<1> HIDE DEF m
<1>12. ASSUME base = <<>>
       PROVE  rest = <<>>
  <2>1. Len(rest) = 0
    BY <1>3, <1>5, <1>12
  <2> DEFINE S == ToSet(rest)
  <2>2. rest \in Seq(S)
    BY <1>5 DEF IsList
  <2> HIDE DEF S
  <2> QED
    BY <2>1, <2>2
<1> QED
  BY <1>4, <1>11, <1>12 DEF m, c, rest, a, wants

\* The names that are wanted.
LEMMA NamesWanted ==
  ASSUME NEW cfg
  PROVE  LET types == WantedTypes(cfg)
         IN  /\ \A w : w \in Wants(cfg) <=>
                  \E j \in DOMAIN types : \E k \in DOMAIN types[j].sections : types[j].sections[k] = w
             /\ \A n : n \in WantedNames(cfg) <=>
                  n # NoId /\ \E j \in DOMAIN types : \E k \in DOMAIN types[j].sections :
                                types[j].sections[k].name = n
<1> DEFINE types == WantedTypes(cfg)
<1>1. \A w : w \in Wants(cfg) <=>
        \E j \in DOMAIN types : \E k \in DOMAIN types[j].sections : types[j].sections[k] = w
  BY DEF Wants, ToSet
<1>2. \A n : n \in WantedNames(cfg) <=> n # NoId /\ \E w \in Wants(cfg) : w.name = n
  BY DEF WantedNames, NoId
<1> HIDE DEF types
<1>3. \A n : n \in WantedNames(cfg) <=>
        n # NoId /\ \E j \in DOMAIN types : \E k \in DOMAIN types[j].sections :
                      types[j].sections[k].name = n
  BY <1>1, <1>2
<1> QED
  BY <1>1, <1>3 DEF types

\* What is wanted of the names.
NamedWants(cfg) ==
  [n \in WantedNames(cfg) |->
     LET w == CHOOSE w \in Wants(cfg) : w.name = n
         t == CHOOSE t \in ToSet(WantedTypes(cfg)) : w \in ToSet(t.sections)
     IN  <<t.type, w.opts>>]

\* It is a function of the names.
LEMMA NamedWantsFcn ==
  ASSUME NEW cfg
  PROVE  LET N == NamedWants(cfg)
         IN  DOMAIN N = WantedNames(cfg) /\ N = [n \in WantedNames(cfg) |-> N[n]]
<1> DEFINE W == WantedNames(cfg)
           N == NamedWants(cfg)
           v(n) == LET w == CHOOSE w \in Wants(cfg) : w.name = n
                       t == CHOOSE t \in ToSet(WantedTypes(cfg)) : w \in ToSet(t.sections)
                   IN  <<t.type, w.opts>>
<1>1. N = [n \in W |-> v(n)]
  BY DEF NamedWants
<1> HIDE DEF v, N, W
<1>2. DOMAIN N = W /\ N = [n \in W |-> N[n]]
  BY <1>1
<1> QED
  BY <1>2 DEF N, W

\* What is wanted of a section with a name.
LEMMA NamedWantsIs ==
  ASSUME NEW cfg, SoundTypes(WantedTypes(cfg)),
         NEW j \in DOMAIN WantedTypes(cfg), NEW k \in DOMAIN WantedTypes(cfg)[j].sections,
         WantedTypes(cfg)[j].sections[k].name # NoId
  PROVE  LET s == WantedTypes(cfg)[j].sections[k]
         IN  s.name \in WantedNames(cfg) /\ NamedWants(cfg)[s.name] = <<WantedTypes(cfg)[j].type, s.opts>>
<1> DEFINE types == WantedTypes(cfg)
           s == types[j].sections[k]
           n == s.name
<1>1. n \in WantedNames(cfg) /\ s \in Wants(cfg)
  BY NamesWanted
<1>2. ASSUME NEW i \in DOMAIN types, NEW l \in DOMAIN types[i].sections, types[i].sections[l].name = n
      PROVE  i = j /\ types[i].sections[l] = s
  <2>1. i = j
    BY <1>2 DEF SoundTypes
  <2>2. l = k
    BY <1>2, <2>1 DEF SoundTypes, SoundSections
  <2> QED
    BY <2>1, <2>2
<1>3. ASSUME NEW w \in Wants(cfg), w.name = n
      PROVE  w = s
  <2>1. PICK i \in DOMAIN types : \E l \in DOMAIN types[i].sections : types[i].sections[l] = w
    BY NamesWanted
  <2> QED
    BY <1>2, <1>3, <2>1
<1>4. (CHOOSE w \in Wants(cfg) : w.name = n) = s
  <2> HIDE DEF s
  <2> QED
    BY <1>1, <1>3
<1>5. ASSUME NEW t \in ToSet(types), s \in ToSet(t.sections)
      PROVE  t = types[j]
  <2>1. PICK i \in DOMAIN types : t = types[i]
    BY DEF ToSet
  <2>2. PICK l \in DOMAIN t.sections : t.sections[l] = s
    BY <1>5 DEF ToSet
  <2> QED
    BY <1>2, <2>1, <2>2
<1>6. types[j] \in ToSet(types) /\ s \in ToSet(types[j].sections)
  BY DEF ToSet
<1>7. (CHOOSE t \in ToSet(types) : s \in ToSet(t.sections)) = types[j]
  <2> HIDE DEF s, types
  <2> QED
    BY <1>5, <1>6
<1> HIDE DEF s
<1>8. NamedWants(cfg)[n] = <<types[j].type, s.opts>>
  BY <1>1, <1>4, <1>7 DEF NamedWants
<1> QED
  BY <1>1, <1>8 DEF s

\* What is wanted of the anonymous sections of a type.
TypesOf(types) == {types[i].type : i \in DOMAIN types}
ListOfType(types, t) == (CHOOSE w \in ToSet(types) : w.type = t).sections
BareWanted(old, cfg, t) ==
  LET types == WantedTypes(cfg)
      bare == IF t \notin TypesOf(types) THEN <<>> ELSE BareWants(ListOfType(types, t))
      rest == IF Mode(cfg) = "replace" \/ t \notin DOMAIN old.anon THEN <<>>
               ELSE SubSeq(old.anon[t], Len(bare) + 1, Len(old.anon[t]))
  IN  bare \o rest

\* What a configuration means, by name and by type.
LEMMA WantedIs ==
  ASSUME NEW old, NEW cfg
  PROVE  LET all == TypesOf(WantedTypes(cfg)) \cup DOMAIN old.anon
         IN  Wanted(old, cfg)
               = [named |-> IF Mode(cfg) = "replace" THEN NamedWants(cfg)
                            ELSE Overwrite(old.named, NamedWants(cfg)),
                  anon |-> [t \in {u \in all : BareWanted(old, cfg, u) # <<>>} |-> BareWanted(old, cfg, t)]]
BY DEF Wanted, NamedWants, TypesOf, ListOfType, BareWanted, BareWants, Nameless, NoId

\* The sections of a type are those listed for it.
LEMMA ListOfTypeIs ==
  ASSUME NEW types, SoundTypes(types), NEW j \in DOMAIN types
  PROVE  ListOfType(types, types[j].type) = types[j].sections /\ types[j].type \in TypesOf(types)
<1>1. ASSUME NEW w \in ToSet(types), w.type = types[j].type
      PROVE  w = types[j]
  <2>1. PICK i \in DOMAIN types : w = types[i]
    BY DEF ToSet
  <2> QED
    BY <1>1, <2>1 DEF SoundTypes
<1>2. types[j] \in ToSet(types)
  BY DEF ToSet
<1> QED
  BY <1>1, <1>2 DEF ListOfType, TypesOf

\* Where an apply starts to add and to change: in merge mode the package as it was
\* read, in replace mode what is left of it.
StartsAt(e, cfg, a) ==
  /\ Mode(cfg) = "merge" => a = e
  /\ Mode(cfg) = "replace" =>
       /\ \A n \in DOMAIN Naming(a) : n \in WantedNames(cfg)
       /\ \A t : Bare(a, t) = <<>>

\* What the anonymous sections say.
LEMMA BareWantedIs ==
  ASSUME NEW e, WellFormed(e), NEW cfg, SoundConfig(cfg), NEW a, StartsAt(e, cfg, a),
         NEW b, TypesDone(a, b, e, Mode(cfg), WantedTypes(cfg), Len(WantedTypes(cfg))), NEW t
  PROVE  /\ Bare(b, t) = BareWanted(View(e), cfg, t)
         /\ Bare(b, t) # <<>> => t \in TypesOf(WantedTypes(cfg)) \cup DOMAIN View(e).anon
<1> DEFINE types == WantedTypes(cfg)
           mode == Mode(cfg)
           old == View(e)
<1>1. SoundTypes(types) /\ DOMAIN types = 1 .. Len(types) /\ Len(types) \in Nat
  BY ListIs DEF SoundConfig, SoundTypes
<1>2. /\ t \in DOMAIN old.anon <=> Bare(e, t) # <<>>
      /\ t \in DOMAIN old.anon => old.anon[t] = Bare(e, t)
  BY ViewFields
<1>3. mode = "replace" \/ mode = "merge"
  BY DEF SoundConfig
<1>0. "replace" # "merge"
  OBVIOUS
<1>9. <<>> \o <<>> = <<>>
  OBVIOUS
<1>4. ASSUME t \in TypesOf(types)
      PROVE  Bare(b, t) = BareWanted(old, cfg, t)
  <2>1. PICK j \in DOMAIN types : t = types[j].type
    BY <1>4 DEF TypesOf
  <2> DEFINE ss == types[j].sections
             base == Base(e, mode, t)
             wants == BareWants(ss)
             m == Merged(base, ss, UpTo(ss, Len(ss)))
  <2>2. ListOfType(types, t) = ss /\ IsList(ss)
    BY <1>1, <2>1, ListOfTypeIs DEF SoundTypes, SoundSections
  <2>3. Bare(b, t) = m
    BY <1>1, <2>1 DEF TypesDone, BareDone
  <2>4. /\ m = wants \o SubSeq(base, Len(wants) + 1, Len(base))
        /\ base = <<>> => m = wants \o <<>>
    <3>1. IsList(base)
      BY BaseIs
    <3> HIDE DEF base
    <3> QED
      BY <2>2, <3>1, MergedIs
  <2>5. BareWanted(old, cfg, t) = wants \o IF mode = "replace" \/ t \notin DOMAIN old.anon THEN <<>>
                                           ELSE SubSeq(old.anon[t], Len(wants) + 1, Len(old.anon[t]))
    BY <1>4, <2>2 DEF BareWanted
  <2> HIDE DEF m, wants
  <2>6. CASE mode = "replace" \/ t \notin DOMAIN old.anon
    <3>1. base = <<>>
      BY <1>0, <1>2, <2>6 DEF Base
    <3> QED
      BY <2>3, <2>4, <2>5, <2>6, <3>1
  <2>7. CASE ~ (mode = "replace" \/ t \notin DOMAIN old.anon)
    <3>1. base = old.anon[t]
      BY <1>2, <1>3, <2>7 DEF Base
    <3> QED
      BY <2>3, <2>4, <2>5, <2>7, <3>1
  <2> QED
    BY <2>6, <2>7
<1>5. ASSUME t \notin TypesOf(types)
      PROVE  Bare(b, t) = BareWanted(old, cfg, t) /\ (Bare(b, t) # <<>> => t \in DOMAIN old.anon)
  <2>1. \A j \in 1 .. Len(types) : types[j].type # t
    BY <1>1, <1>5 DEF TypesOf
  <2>2. Bare(b, t) = Bare(a, t)
    BY <2>1 DEF TypesDone
  <2>3. BareWanted(old, cfg, t) = <<>> \o IF mode = "replace" \/ t \notin DOMAIN old.anon THEN <<>>
                                          ELSE SubSeq(old.anon[t], Len(<<>>) + 1, Len(old.anon[t]))
    BY <1>5 DEF BareWanted
  <2>4. CASE mode = "replace"
    <3>1. Bare(a, t) = <<>>
      BY <2>4 DEF StartsAt
    <3> QED
      BY <1>9, <2>2, <2>3, <2>4, <3>1
  <2>5. CASE mode = "merge"
    <3>1. Bare(b, t) = Bare(e, t)
      BY <2>2, <2>5 DEF StartsAt
    <3>2. CASE t \notin DOMAIN old.anon
      BY <1>2, <1>9, <2>3, <3>1, <3>2
    <3>3. CASE t \in DOMAIN old.anon
      <4> DEFINE q == Bare(e, t)
                 S == ToSet(q)
      <4>1. q = Base(e, mode, t)
        BY <2>5 DEF Base
      <4>2. q \in Seq(S)
        BY <4>1, BaseIs DEF IsList
      <4> HIDE DEF q, S
      <4>3. <<>> \o SubSeq(q, Len(<<>>) + 1, Len(q)) = q
        BY <4>2
      <4>4. BareWanted(old, cfg, t) = <<>> \o SubSeq(q, Len(<<>>) + 1, Len(q))
        BY <1>0, <1>2, <2>3, <2>5, <3>3 DEF q
      <4> QED
        BY <3>1, <3>3, <4>3, <4>4 DEF q
    <3> QED
      BY <3>2, <3>3
  <2> QED
    BY <1>3, <2>4, <2>5
<1> QED
  BY <1>4, <1>5

\* What the named sections say.
LEMMA NamedWantedIs ==
  ASSUME NEW e, WellFormed(e), NEW cfg, SoundConfig(cfg), NEW a, StartsAt(e, cfg, a),
         NEW b, TypesDone(a, b, e, Mode(cfg), WantedTypes(cfg), Len(WantedTypes(cfg)))
  PROVE  Naming(b) = IF Mode(cfg) = "replace" THEN NamedWants(cfg)
                     ELSE Overwrite(View(e).named, NamedWants(cfg))
<1> DEFINE types == WantedTypes(cfg)
           mode == Mode(cfg)
           W == WantedNames(cfg)
           N == NamedWants(cfg)
<1>1. SoundTypes(types) /\ DOMAIN types = 1 .. Len(types) /\ Len(types) \in Nat
  BY ListIs DEF SoundConfig, SoundTypes
<1>2. mode = "replace" \/ mode = "merge"
  BY DEF SoundConfig
<1>0. "replace" # "merge"
  OBVIOUS
<1>3. WellFormed(b)
  BY DEF TypesDone
<1>4. Naming(b) = [n \in DOMAIN Naming(b) |-> Naming(b)[n]]
  BY <1>3, ViewParts
<1>5. ASSUME NEW n \in W
      PROVE  n \in DOMAIN Naming(b) /\ Naming(b)[n] = N[n]
  <2>1. n # NoId /\ \E j \in DOMAIN types : \E k \in DOMAIN types[j].sections : types[j].sections[k].name = n
    BY NamesWanted
  <2>2. PICK j \in DOMAIN types : \E k \in DOMAIN types[j].sections : types[j].sections[k].name = n
    BY <2>1
  <2>3. PICK k \in DOMAIN types[j].sections : types[j].sections[k].name = n
    BY <2>2
  <2> DEFINE s == types[j].sections[k]
  <2>4. N[n] = <<types[j].type, s.opts>>
    BY <1>1, <2>1, <2>3, NamedWantsIs
  <2>5. NamesDone(b, types[j])
    BY <1>1 DEF TypesDone
  <2>6. Says(b, n, <<types[j].type, s.opts>>)
    BY <2>1, <2>3, <2>5 DEF NamesDone
  <2> QED
    BY <2>4, <2>6 DEF Says
<1>6. ASSUME NEW n, n \notin W
      PROVE  SameName(a, b, n)
  <2>1. \A j \in 1 .. Len(types) : NoneOf(types[j], n)
    <3> SUFFICES ASSUME NEW j \in 1 .. Len(types), NEW k \in DOMAIN types[j].sections,
                        types[j].sections[k].name = n
                 PROVE  n = NoId
        BY DEF NoneOf
    <3>1. j \in DOMAIN types
      BY <1>1
    <3> QED
      BY <1>6, <3>1, NamesWanted
  <2> QED
    BY <2>1 DEF TypesDone
<1>7. DOMAIN N = W /\ N = [n \in W |-> N[n]]
  BY NamedWantsFcn
<1> HIDE DEF W, N, types
<1>8. CASE mode = "replace"
  <2>1. \A n : n \in DOMAIN Naming(b) => n \in W
    BY <1>6, <1>8 DEF SameName, Naming, StartsAt, W
  <2>2. DOMAIN Naming(b) = W
    BY <1>5, <2>1
  <2> QED
    BY <1>4, <1>5, <1>7, <1>8, <2>2 DEF N
<1>9. CASE mode = "merge"
  <2> DEFINE old == View(e).named
             O == Overwrite(old, N)
  <2>1. a = e
    BY <1>9 DEF StartsAt
  <2>2. \A n : n \notin W => (n \in DOMAIN old <=> n \in DOMAIN Naming(b))
    BY <1>6, <2>1 DEF SameName, Naming
  <2>3. \A n : n \notin W /\ n \in DOMAIN old => Naming(b)[n] = old[n]
    BY <1>6, <2>1 DEF SameName, Naming
  <2>4. O = [n \in DOMAIN old \cup W |-> IF n \in W THEN N[n] ELSE old[n]]
    BY <1>7 DEF Overwrite
  <2> HIDE DEF O, old
  <2>5. DOMAIN Naming(b) = DOMAIN old \cup W
    BY <1>5, <2>2
  <2>6. \A n \in DOMAIN Naming(b) : Naming(b)[n] = IF n \in W THEN N[n] ELSE old[n]
    BY <1>5, <2>3, <2>5
  <2>7. Naming(b) = O
    BY <1>4, <2>4, <2>5, <2>6
  <2> QED
    BY <1>0, <1>9, <2>7 DEF O, old, N
<1> QED
  BY <1>2, <1>8, <1>9

\* Together: the package says what is wanted.
LEMMA ViewWanted ==
  ASSUME NEW e, WellFormed(e), NEW cfg, SoundConfig(cfg), NEW a, StartsAt(e, cfg, a),
         NEW b, TypesDone(a, b, e, Mode(cfg), WantedTypes(cfg), Len(WantedTypes(cfg)))
  PROVE  View(b) = Wanted(View(e), cfg)
<1> DEFINE old == View(e)
           all == TypesOf(WantedTypes(cfg)) \cup DOMAIN old.anon
           A == [t \in {u \in all : BareWanted(old, cfg, u) # <<>>} |-> BareWanted(old, cfg, t)]
           N == IF Mode(cfg) = "replace" THEN NamedWants(cfg) ELSE Overwrite(old.named, NamedWants(cfg))
<1>1. WellFormed(b)
  BY DEF TypesDone
<1>2. Naming(b) = N
  BY NamedWantedIs
<1>3. \A t : /\ Bare(b, t) = BareWanted(old, cfg, t)
             /\ Bare(b, t) # <<>> => t \in all
  BY BareWantedIs
<1> HIDE DEF N, all, old
<1>4. /\ A = [t \in DOMAIN A |-> A[t]]
      /\ \A t : t \in DOMAIN A <=> Bare(b, t) # <<>>
      /\ \A t \in DOMAIN A : A[t] = Bare(b, t)
  BY <1>3
<1> HIDE DEF A
<1>5. View(b) = [named |-> N, anon |-> A]
  BY <1>1, <1>2, <1>4, ViewIs
<1>6. Wanted(old, cfg) = [named |-> N, anon |-> A]
  BY WantedIs DEF N, A, all
<1> QED
  BY <1>5, <1>6 DEF old

\* The calls that a configuration takes, in two parts.
LEMMA StagePlanIs ==
  ASSUME NEW e, NEW cfg
  PROVE  StagePlan(e, cfg)
           = (IF Mode(cfg) = "replace" THEN DeleteUnwanted(e, WantedNames(cfg)) ELSE <<>>)
               \o TypesPlan(e, Mode(cfg), WantedTypes(cfg))
  BY DEF StagePlan, TypesPlan

\* All that is wanted of the names is among the names that are kept.
LEMMA KeptNames ==
  ASSUME NEW cfg, NEW j \in DOMAIN WantedTypes(cfg), NEW k \in DOMAIN WantedTypes(cfg)[j].sections,
         WantedTypes(cfg)[j].sections[k].name # NoId
  PROVE  WantedTypes(cfg)[j].sections[k].name \in WantedNames(cfg)
  BY NamesWanted

\* After the unwanted sections are deleted, if they are to be, the types can be applied.
LEMMA Prepared ==
  ASSUME NEW e, WellFormed(e), NEW cfg, SoundConfig(cfg), NEW x, x.secs = e, NEW m,
         Leads(x, IF Mode(cfg) = "replace" THEN DeleteUnwanted(e, WantedNames(cfg)) ELSE <<>>, m)
  PROVE  /\ StartsAt(e, cfg, m.secs) /\ WellFormed(m.secs)
         /\ \A j \in DOMAIN WantedTypes(cfg) : Ready(e, Mode(cfg), WantedTypes(cfg)[j], m.secs)
<1>0. "replace" # "merge"
  OBVIOUS
<1>1. CASE Mode(cfg) = "merge"
  <2>1. m = x
    BY <1>0, <1>1, LeadsShort
  <2>2. Extends(e, e)
    BY DEF Extends
  <2>3. \A n : SameName(e, e, n)
    BY DEF SameName
  <2>4. \A j \in DOMAIN WantedTypes(cfg) : Ready(e, Mode(cfg), WantedTypes(cfg)[j], m.secs)
    BY <1>1, <2>1, <2>2, <2>3 DEF Ready, Base
  <2> QED
    BY <1>0, <1>1, <2>1, <2>4 DEF StartsAt
<1>2. CASE Mode(cfg) = "replace"
  <2>1. Leads(x, DeleteUnwanted(x.secs, WantedNames(cfg)), m)
    BY <1>2
  <2>2. /\ WellFormed(m.secs)
        /\ \A n \in WantedNames(cfg) : SameName(e, m.secs, n)
        /\ \A n \in DOMAIN View(m.secs).named : n \in WantedNames(cfg)
        /\ \A t : BareOf(View(m.secs), t) = <<>>
    BY <2>1, Swept
  <2>3. \A t : Bare(m.secs, t) = <<>>
    BY <2>2, BareOfIs
  <2>4. StartsAt(e, cfg, m.secs)
    BY <1>0, <1>2, <2>2, <2>3 DEF StartsAt, Naming
  <2>5. ASSUME NEW j \in DOMAIN WantedTypes(cfg)
        PROVE  Ready(e, Mode(cfg), WantedTypes(cfg)[j], m.secs)
    <3>1. Bare(m.secs, WantedTypes(cfg)[j].type) = Base(e, Mode(cfg), WantedTypes(cfg)[j].type)
      BY <1>0, <1>2, <2>3 DEF Base
    <3>2. \A k \in DOMAIN WantedTypes(cfg)[j].sections :
            WantedTypes(cfg)[j].sections[k].name # NoId
              => SameName(e, m.secs, WantedTypes(cfg)[j].sections[k].name)
      BY <2>2, KeptNames
    <3> QED
      BY <1>0, <1>2, <2>2, <3>1, <3>2 DEF Ready
  <2> QED
    BY <2>2, <2>4, <2>5
<1> QED
  BY <1>1, <1>2 DEF SoundConfig

\* A plan that is executed to its end leaves what the configuration means.
LEMMA PlanApplied ==
  ASSUME NEW e, WellFormed(e), OptsAre(e), NEW cfg, SoundConfig(cfg), NEW x, x.secs = e,
         NEW y, Leads(x, StagePlan(e, cfg), y)
  PROVE  View(y.secs) = Wanted(View(e), cfg)
<1> DEFINE types == WantedTypes(cfg)
           mode == Mode(cfg)
<1>1. PICK D : D = IF mode = "replace" THEN DeleteUnwanted(e, WantedNames(cfg)) ELSE <<>>
  OBVIOUS
<1>2. IsList(D)
  <2>1. IsList(DeleteUnwanted(e, WantedNames(cfg)))
    BY DeletesAll
  <2> QED
    BY <1>1, <2>1, ShortLists
<1>3. SoundTypes(types) /\ IsList(TypesPlan(e, mode, types))
  BY TypesPlanIs DEF SoundConfig
<1>4. Leads(x, D \o TypesPlan(e, mode, types), y)
  BY <1>1, StagePlanIs
<1>5. PICK m : Leads(x, D, m) /\ Leads(m, TypesPlan(e, mode, types), y)
  BY <1>2, <1>3, <1>4, LeadsSplit
<1>6. /\ StartsAt(e, cfg, m.secs) /\ WellFormed(m.secs)
      /\ \A j \in DOMAIN types : Ready(e, mode, types[j], m.secs)
  BY <1>1, <1>5, Prepared
<1>7. TypesDone(m.secs, y.secs, e, mode, types, Len(types))
  BY <1>3, <1>5, <1>6, TypesApplied
<1> QED
  BY <1>6, <1>7, ViewWanted

-----------------------------------------------------------------------------
(* The options stay functions, and a package without a file stays empty. *)

\* A function's extension.
LEMMA AreFcns ==
  /\ IsFcn(<<>>)
  /\ \A old, arg : IsFcn(Overwrite(old, arg))
  /\ \A D, f : IsFcn([o \in D |-> f[o]])
<1>1. \A D, f : IsFcn([o \in D |-> f[o]])
  BY DEF IsFcn
<1>2. \A old, arg : IsFcn(Overwrite(old, arg))
  <2> TAKE old, arg
  <2> DEFINE v(o) == IF o \in DOMAIN arg THEN arg[o] ELSE old[o]
  <2>1. Overwrite(old, arg) = [o \in DOMAIN old \cup DOMAIN arg |-> v(o)]
    BY DEF Overwrite
  <2> HIDE DEF v
  <2> QED
    BY <2>1 DEF IsFcn
<1>3. IsFcn(<<>>)
  BY DEF IsFcn
<1> QED
  BY <1>1, <1>2, <1>3

\* A call leaves the options a function.
LEMMA ChangedFcn ==
  ASSUME NEW s, DOMAIN s = {"id", "type", "anon", "opts"}, IsFcn(s.opts), NEW op
  PROVE  IsFcn(Changed(s, op).opts)
<1>1. CASE s.id # op.id \/ op.op \in {"add", "retype"}
  <2>1. Changed(s, op).opts = s.opts
    BY <1>1 DEF Changed
  <2> QED
    BY <2>1
<1>2. CASE s.id = op.id /\ op.op \notin {"add", "retype"} /\ op.op = "set"
  <2>1. Changed(s, op) = [s EXCEPT !.opts = Overwrite(s.opts, op.arg)]
    BY <1>2 DEF Changed
  <2>2. Changed(s, op).opts = Overwrite(s.opts, op.arg)
    BY <2>1
  <2> QED
    BY <2>2, AreFcns
<1>3. CASE s.id = op.id /\ op.op \notin {"add", "retype"} /\ op.op # "set"
  <2>1. Changed(s, op) = [s EXCEPT !.opts = [o \in DOMAIN s.opts \ op.arg |-> s.opts[o]]]
    BY <1>3 DEF Changed
  <2>2. Changed(s, op).opts = [o \in DOMAIN s.opts \ op.arg |-> s.opts[o]]
    BY <2>1
  <2> QED
    BY <2>2, AreFcns
<1> QED
  BY <1>1, <1>2, <1>3

\* A call keeps the options functions.
LEMMA OptsKept ==
  ASSUME NEW a, WellFormed(a), OptsAre(a), NEW op, NEW newId, IsNew(a, newId)
  PROVE  OptsAre(Executed(a, op, newId))
<1>1. CASE op.op = "delete"
  <2>1. PICK I : Executed(a, op, newId) = Selected(a, I)
    BY <1>1, ExecutedDelete
  <2>2. \A k \in DOMAIN Selected(a, I) : \E i \in DOMAIN a : Selected(a, I)[k] = a[i]
    BY Sections, SelectedElements DEF Selects
  <2> QED
    BY <2>1, <2>2 DEF OptsAre
<1>2. CASE op.op \in {"add", "retype"} /\ Find(a, op.id) = <<>>
  <2>1. PICK x : x = Added(op, newId)
    OBVIOUS
  <2>2. IsFcn(x.opts)
    BY <2>1, AreFcns DEF Added
  <2>3. Executed(a, op, newId) = Append(a, x)
    BY <1>2, <2>1, ExecutedAdd
  <2>4. /\ DOMAIN Append(a, x) = 1 .. Len(a) + 1
        /\ \A i \in 1 .. Len(a) : Append(a, x)[i] = a[i]
        /\ Append(a, x)[Len(a) + 1] = x
    BY AppendIs
  <2>5. DOMAIN a = 1 .. Len(a) /\ Len(a) \in Nat
    BY Sections
  <2> QED
    BY <2>2, <2>3, <2>4, <2>5 DEF OptsAre
<1>3. CASE op.op # "delete" /\ (op.op \in {"add", "retype"} => Find(a, op.id) # <<>>)
  <2>1. Executed(a, op, newId) = [i \in DOMAIN a |-> Changed(a[i], op)]
    BY <1>3, ExecutedChange
  <2>2. \A i \in DOMAIN a : IsFcn(Changed(a[i], op).opts)
    BY Sections, ChangedFcn DEF OptsAre
  <2> QED
    BY <2>1, <2>2 DEF OptsAre
<1> QED
  BY <1>1, <1>2, <1>3

\* Every package's options are functions.
Fcns == \A p \in Names : OptsAre(work[p]) /\ OptsAre(flash[p].secs)

\* So does every step.
LEMMA FcnsKept ==
  ASSUME IdsLeft, Shape, Wells, Fcns, NEW h \in Handlers, AStep(h)
  PROVE  Fcns'
<1> SUFFICES ASSUME NEW p \in Names
             PROVE  OptsAre(work'[p]) /\ OptsAre(flash'[p].secs)
    BY DEF Fcns, OptsAre
<1>1. OptsAre(work[p]) /\ OptsAre(flash[p].secs) /\ WellFormed(work[p])
  BY DEF Fcns, Wells
<1>2. /\ \/ work'[p] = work[p] \/ work'[p] = flash[p].secs
         \/ \E op : work'[p] = Executed(work[p], op, NewId(p))
      /\ flash'[p].secs = flash[p].secs \/ flash'[p].secs = work[p]
  BY StepMoves DEF Moved
<1>3. \A op : OptsAre(Executed(work[p], op, NewId(p)))
  BY <1>1, Fresh, OptsKept
<1> QED
  BY <1>1, <1>2, <1>3

\* A package without a file has no section, on flash or staged.
NoFile == \A p \in Names : flash[p].exists \/ (flash[p].secs = <<>> /\ work[p] = <<>>)

\* A step creates a file or leaves it, and makes a call only where there is one.
Filed ==
  \A p \in Names :
    /\ flash'[p].exists = flash[p].exists \/ flash'[p].exists = TRUE
    /\ flash'[p].secs = flash[p].secs \/ flash'[p].secs = work[p]
    /\ flash[p].exists \/ work'[p] = work[p] \/ work'[p] = flash[p].secs

\* A package that has sections after a step has its file.
LEMMA StepFiles ==
  ASSUME Shape, NEW h \in Handlers, AStep(h)
  PROVE  Filed
<1>1. ASSUME UNCHANGED <<flash, work>>
      PROVE  Filed
  BY <1>1 DEF Filed
<1>2. CASE Reject(h) \/ Begin(h) \/ ParseFails(h) \/ Read(h) \/ ReadFails(h)
  BY <1>1, <1>2 DEF Reject, Begin, ParseFails, Read, ReadFails
<1>3. CASE EnsurePackage(h)
  BY <1>3 DEF EnsurePackage, Filed, Shape
<1>4. CASE EnsureFails(h) \/ PackageStaged(h) \/ Finish(h) \/ RevertFails(h)
  BY <1>1, <1>4 DEF EnsureFails, PackageStaged, Finish, RevertFails
<1>5. CASE ExecStep(h)
  BY <1>5 DEF ExecStep, MayExec, AfterCall, Filed, Shape
<1>6. CASE StepFails(h)
  BY <1>6 DEF StepFails, MayExec, AfterCall, Filed, Shape
<1>7. CASE Commit(h)
  BY <1>7 DEF Commit, AfterCommit, Filed, Shape
<1>8. CASE CommitFails(h)
  BY <1>8 DEF CommitFails, AfterCommit, Filed, Shape
<1>9. CASE Revert(h)
  BY <1>9 DEF Revert, Filed, Shape
<1>10. CASE BeginScript(h) \/ BadLine(h) \/ LineRead(h) \/ LineReadFails(h) \/ LineCreateFails(h)
  BY <1>1, <1>10 DEF BeginScript, BadLine, LineRead, LineReadFails, LineCreateFails
<1>11. CASE LineCreates(h)
  BY <1>11 DEF LineCreates, Filed, Shape
<1>12. CASE LineCall(h)
  BY <1>12 DEF LineCall, MayCall, AfterLine, Filed, Shape
<1>13. CASE LineCallFails(h)
  BY <1>13 DEF LineCallFails, MayCall, AfterLine, Filed, Shape
<1>14. CASE LineCommit(h)
  BY <1>14 DEF LineCommit, AfterCommit, Filed, Shape
<1>15. CASE LineCommitFails(h)
  BY <1>15 DEF LineCommitFails, AfterCommit, Filed, Shape
<1>16. CASE LineRevert(h)
  BY <1>16 DEF LineRevert, Filed, Shape
<1>17. CASE LineRevertFails(h)
  BY <1>17 DEF LineRevertFails, Filed, Shape
<1> QED
  BY <1>2, <1>3, <1>4, <1>5, <1>6, <1>7, <1>8, <1>9, <1>10, <1>11, <1>12, <1>13, <1>14,
     <1>15, <1>16, <1>17 DEF AStep, ScriptStep

\* A package without a file stays empty.
LEMMA NoFileKept ==
  ASSUME Shape, NoFile, NEW h \in Handlers, AStep(h)
  PROVE  NoFile'
  BY StepFiles DEF Filed, NoFile

-----------------------------------------------------------------------------
(* The packages of a payload. *)

\* In the order in which they are staged.
Order(pl) == Selected(Packages, {i \in DOMAIN Packages : Packages[i] \in DOMAIN pl})

\* Each once.
LEMMA OrderIs ==
  ASSUME NEW pl, DOMAIN pl \subseteq Names
  PROVE  /\ IsList(Order(pl)) /\ Len(Order(pl)) \in Nat /\ DOMAIN Order(pl) = 1 .. Len(Order(pl))
         /\ \A i \in 1 .. Len(Order(pl)) : Order(pl)[i] \in DOMAIN pl
         /\ \A i, j \in 1 .. Len(Order(pl)) : Order(pl)[i] = Order(pl)[j] => i = j
         /\ \A p \in DOMAIN pl : \E i \in 1 .. Len(Order(pl)) : Order(pl)[i] = p
<1> DEFINE I == {i \in DOMAIN Packages : Packages[i] \in DOMAIN pl}
           at == Ascending(Len(Packages), I)
           ord == Order(pl)
<1>1. Packages \in Seq(Names) /\ Len(Packages) \in Nat /\ DOMAIN Packages = 1 .. Len(Packages)
  BY ApplierAssumption
<1>2. \A i, j \in DOMAIN Packages : Packages[i] = Packages[j] => i = j
  BY ApplierAssumption DEF IsInjective
<1>3. /\ InOrder(at, I \cap DOMAIN Packages) /\ Len(at) \in Nat
      /\ DOMAIN ord = 1 .. Len(at) /\ Len(ord) = Len(at)
  BY <1>1, SelectedIs DEF Order
<1>4. \A k \in 1 .. Len(at) : ord[k] = Packages[at[k]]
  BY <1>1, SelectedAt DEF Order
<1>5. Selects(ord, Packages, I)
  BY <1>1, SelectedElements DEF Order
<1>6. \A k \in 1 .. Len(at) : at[k] \in I /\ at[k] \in DOMAIN Packages /\ at[k] \in Int
  BY <1>1, <1>3 DEF InOrder
<1> HIDE DEF at, ord
<1>7. \A i, j \in 1 .. Len(at) : at[i] = at[j] => i = j
  BY <1>3, <1>6 DEF InOrder
<1>8. \A i, j \in 1 .. Len(at) : ord[i] = ord[j] => i = j
  BY <1>2, <1>4, <1>6, <1>7
<1>9. \A p \in DOMAIN pl : \E i \in DOMAIN Packages : i \in I /\ Packages[i] = p
  BY <1>1 DEF Names, ToSet
<1>10. \A p \in DOMAIN pl : \E i \in 1 .. Len(at) : ord[i] = p
  BY <1>3, <1>5, <1>9 DEF Selects
<1> QED
  BY <1>3, <1>4, <1>5, <1>6, <1>8, <1>10 DEF ord, Selects

\* The packages that are staged and those to do, one after the other.
Split(pl, staged, todo) ==
  LET ord == Order(pl)
      n == Len(staged)
  IN  /\ IsList(staged) /\ IsList(todo)
      /\ n + Len(todo) = Len(ord)
      /\ \A i \in 1 .. n : staged[i] = ord[i]
      /\ \A i \in 1 .. Len(todo) : todo[i] = ord[n + i]

\* A list that is not empty.
LEMMA HeadIs ==
  ASSUME NEW s, IsList(s), s # <<>>
  PROVE  /\ Len(s) \in Nat /\ Len(s) >= 1 /\ Head(s) = s[1]
         /\ IsList(Tail(s)) /\ Len(Tail(s)) = Len(s) - 1
         /\ \A i \in 1 .. Len(s) - 1 : Tail(s)[i] = s[i + 1]
<1>1. PICK S : S = ToSet(s)
  OBVIOUS
<1>2. s \in Seq(S)
  BY <1>1 DEF IsList
<1>3. IsList(Tail(s))
  BY Headed
<1>4. Len(s) \in Nat /\ Len(s) >= 1 /\ Head(s) = s[1] /\ Len(Tail(s)) = Len(s) - 1
  BY <1>2
<1>5. \A i \in 1 .. Len(s) - 1 : Tail(s)[i] = s[i + 1]
  BY <1>2, <1>4
<1> QED
  BY <1>3, <1>4, <1>5

\* A list with one more.
LEMMA AppendedIs ==
  ASSUME NEW s, IsList(s), NEW e
  PROVE  /\ Len(s) \in Nat /\ IsList(Append(s, e)) /\ Len(Append(s, e)) = Len(s) + 1
         /\ \A i \in 1 .. Len(s) : Append(s, e)[i] = s[i]
         /\ Append(s, e)[Len(s) + 1] = e
<1>1. PICK S : S = ToSet(s) \cup {e}
  OBVIOUS
<1>2. s \in Seq(S) /\ Len(s) \in Nat
  BY <1>1 DEF IsList
<1>3. IsList(Append(s, e)) /\ Len(Append(s, e)) = Len(s) + 1
  BY Appended
<1> QED
  BY <1>2, <1>3

\* Each package is in one of the two, and once.
LEMMA SplitIs ==
  ASSUME NEW pl, DOMAIN pl \subseteq Names, NEW staged, NEW todo, Split(pl, staged, todo)
  PROVE  /\ Len(staged) \in Nat /\ Len(todo) \in Nat
         /\ \A i \in 1 .. Len(staged) : staged[i] \in DOMAIN pl
         /\ \A i \in 1 .. Len(todo) : todo[i] \in DOMAIN pl
         /\ \A i, j \in 1 .. Len(staged) : staged[i] = staged[j] => i = j
         /\ \A i, j \in 1 .. Len(todo) : todo[i] = todo[j] => i = j
         /\ \A i \in 1 .. Len(staged), j \in 1 .. Len(todo) : staged[i] # todo[j]
         /\ Len(todo) = 0 => \A p \in DOMAIN pl : \E i \in 1 .. Len(staged) : staged[i] = p
<1> DEFINE ord == Order(pl)
           n == Len(staged)
           m == Len(todo)
<1>1. /\ Len(ord) \in Nat
      /\ \A i \in 1 .. Len(ord) : ord[i] \in DOMAIN pl
      /\ \A i, j \in 1 .. Len(ord) : ord[i] = ord[j] => i = j
      /\ \A p \in DOMAIN pl : \E i \in 1 .. Len(ord) : ord[i] = p
  BY OrderIs
<1>2. /\ n \in Nat /\ m \in Nat /\ n + m = Len(ord)
      /\ \A i \in 1 .. n : staged[i] = ord[i]
      /\ \A i \in 1 .. m : todo[i] = ord[n + i]
  BY ListIs DEF Split
<1> HIDE DEF ord, n, m
<1>4. \A i \in 1 .. n : i \in 1 .. Len(ord)
  BY <1>1, <1>2
<1>5. \A i \in 1 .. m : n + i \in 1 .. Len(ord)
  BY <1>1, <1>2
<1>6. \A i \in 1 .. n : staged[i] \in DOMAIN pl
  BY <1>1, <1>2, <1>4
<1>7. \A i \in 1 .. m : todo[i] \in DOMAIN pl
  BY <1>1, <1>2, <1>5
<1>8. \A i, j \in 1 .. n : staged[i] = staged[j] => i = j
  BY <1>1, <1>2, <1>4
<1>9. \A i, j \in 1 .. m : todo[i] = todo[j] => i = j
  <2> TAKE i, j \in 1 .. m
  <2>1. todo[i] = ord[n + i] /\ todo[j] = ord[n + j]
    BY <1>2
  <2>2. n + i \in 1 .. Len(ord) /\ n + j \in 1 .. Len(ord)
    BY <1>5
  <2>3. todo[i] = todo[j] => n + i = n + j
    BY <1>1, <2>1, <2>2
  <2> QED
    BY <1>2, <2>3
<1>10. \A i \in 1 .. n, j \in 1 .. m : staged[i] # todo[j]
  <2> TAKE i \in 1 .. n, j \in 1 .. m
  <2>1. staged[i] = todo[j] => i = n + j
    BY <1>1, <1>2, <1>4, <1>5
  <2> QED
    BY <1>2, <2>1
<1>11. m = 0 => \A p \in DOMAIN pl : \E i \in 1 .. n : staged[i] = p
  BY <1>1, <1>2
<1> QED
  BY <1>2, <1>6, <1>7, <1>8, <1>9, <1>10, <1>11 DEF n, m

\* One more is staged.
LEMMA SplitOn ==
  ASSUME NEW pl, NEW staged, NEW todo, Split(pl, staged, todo), todo # <<>>
  PROVE  Split(pl, Append(staged, Head(todo)), Tail(todo))
<1> DEFINE ord == Order(pl)
           n == Len(staged)
           m == Len(todo)
           s == Append(staged, Head(todo))
           t == Tail(todo)
<1>1. /\ IsList(staged) /\ IsList(todo) /\ n + m = Len(ord)
      /\ \A i \in 1 .. n : staged[i] = ord[i]
      /\ \A i \in 1 .. m : todo[i] = ord[n + i]
  BY DEF Split
<1>2. /\ n \in Nat /\ IsList(s) /\ Len(s) = n + 1 /\ s[n + 1] = Head(todo)
      /\ \A i \in 1 .. n : s[i] = staged[i]
  BY <1>1, AppendedIs
<1>3. /\ m \in Nat /\ m >= 1 /\ Head(todo) = todo[1] /\ IsList(t) /\ Len(t) = m - 1
      /\ \A i \in 1 .. m - 1 : t[i] = todo[i + 1]
  BY <1>1, HeadIs
<1> HIDE DEF s, t, n, m, ord
<1>4. ASSUME NEW i \in 1 .. n + 1
      PROVE  s[i] = ord[i]
  <2>1. CASE i <= n
    BY <1>1, <1>2, <2>1
  <2>2. CASE i = n + 1
    BY <1>1, <1>2, <1>3, <2>2
  <2> QED
    BY <1>2, <2>1, <2>2
<1>5. ASSUME NEW i \in 1 .. m - 1
      PROVE  t[i] = ord[(n + 1) + i]
  <2>1. i + 1 \in 1 .. m /\ n + (i + 1) = (n + 1) + i
    BY <1>2, <1>3
  <2> QED
    BY <1>1, <1>3, <2>1
<1>6. Len(s) + Len(t) = Len(ord)
  <2>1. n \in Nat /\ m \in Nat /\ n + m = Len(ord) /\ Len(s) = n + 1 /\ Len(t) = m - 1
    BY <1>1, <1>2, <1>3
  <2>2. (n + 1) + (m - 1) = n + m
    BY <2>1
  <2> QED
    BY <2>1, <2>2
<1>7. /\ \A i \in 1 .. Len(s) : s[i] = ord[i]
      /\ \A i \in 1 .. Len(t) : t[i] = ord[Len(s) + i]
  BY <1>2, <1>3, <1>4, <1>5
<1>8. Split(pl, s, t)
  BY <1>2, <1>3, <1>6, <1>7 DEF Split, ord
<1> QED
  BY <1>8 DEF s, t

\* At the beginning nothing is staged.
LEMMA SplitStart ==
  ASSUME NEW pl, DOMAIN pl \subseteq Names
  PROVE  Split(pl, <<>>, Order(pl))
<1>1. IsList(Order(pl)) /\ Len(Order(pl)) \in Nat
  BY OrderIs
<1>2. IsList(<<>>) /\ Len(<<>>) = 0
  BY ShortLists
<1> QED
  BY <1>1, <1>2 DEF Split

-----------------------------------------------------------------------------
(* A plan that is under way. *)

\* The calls of a part that is done and those left are the plan.
LEMMA PlanMoves ==
  ASSUME NEW done, IsList(done), NEW plan, IsList(plan)
  PROVE  /\ <<>> \o plan = plan /\ done \o <<>> = done
         /\ plan # <<>> => Append(done, Head(plan)) \o Tail(plan) = done \o plan
<1>1. PICK S : S = ToSet(done) \cup ToSet(plan)
  OBVIOUS
<1>2. done \in Seq(S) /\ plan \in Seq(S)
  BY <1>1 DEF IsList
<1>3. <<>> \o plan = plan /\ done \o <<>> = done
  BY <1>2
<1>4. ASSUME plan # <<>>
      PROVE  Append(done, Head(plan)) \o Tail(plan) = done \o plan
  BY <1>2, <1>4
<1> QED
  BY <1>3, <1>4

\* The calls that stage a configuration are a list.
LEMMA StagePlanList ==
  ASSUME NEW e, WellFormed(e), NEW cfg, SoundConfig(cfg)
  PROVE  IsList(StagePlan(e, cfg))
<1> DEFINE T == TypesPlan(e, Mode(cfg), WantedTypes(cfg))
<1>1. PICK D : D = IF Mode(cfg) = "replace" THEN DeleteUnwanted(e, WantedNames(cfg)) ELSE <<>>
  OBVIOUS
<1>2. IsList(D)
  <2>1. IsList(DeleteUnwanted(e, WantedNames(cfg)))
    BY DeletesAll
  <2> QED
    BY <1>1, <2>1, ShortLists
<1>3. IsList(T)
  BY TypesPlanIs DEF SoundConfig
<1>4. StagePlan(e, cfg) = D \o T
  BY <1>1, StagePlanIs
<1> HIDE DEF T
<1> QED
  BY <1>2, <1>3, <1>4, Joined

\* What is staged in a package is what the payload means for what was staged before.
Meets(h, p) == View(work[p]) = Wanted(View(job[h].was.work[p]), job[h].payload[p])

\* So is what is on flash.
Exact(h, p) == View(flash[p].secs) = Wanted(View(job[h].was.work[p]), job[h].payload[p])

\* What is on flash is that or what was on flash before.
Whole(h, p) == Exact(h, p) \/ View(flash[p].secs) = View(job[h].was.flash[p].secs)

\* Where a handler carries a payload, and what of it is staged.
Carried(h) ==
  /\ job[h].pc \in {"idle", "commit", "revert", "done"} \cup LinePcs \cup Staging
  /\ job[h].payload = <<>> \/ job[h].payload \in Payloads
  /\ job[h].pc \in {"idle"} \cup LinePcs => job[h].payload = <<>>
  /\ job[h].result = "ok" => job[h].pc = "done"
  /\ job[h].pc \in Staging =>
       Split(job[h].payload, job[h].staged, job[h].todo) /\ job[h].todo # <<>>
  /\ job[h].pc = "commit" =>
       Split(job[h].payload, job[h].staged, job[h].todo) /\ Len(job[h].todo) = 0

\* A handler that is the last to run and has misread nothing.
Told(h) == Latest(h) /\ h \notin misread

\* The calls made so far are the first of the plan for what was there.
Underway(h) ==
  LET p == Current(h)
      e == job[h].was.work[p]
  IN  /\ WellFormed(e) /\ OptsAre(e) /\ SoundConfig(Config(h)) /\ IsList(job[h].plan)
      /\ \E done, last :
           /\ IsList(done) /\ done \o job[h].plan = StagePlan(e, Config(h))
           /\ Leads([secs |-> e, last |-> last], done, [secs |-> work[p], last |-> job[h].last])

\* While it stages: the packages that are staged are as wanted, those to do as before.
StagingHeld(h) ==
  Told(h) /\ job[h].pc \in Staging =>
    /\ \A i \in 1 .. Len(job[h].staged) : Meets(h, job[h].staged[i])
    /\ \A i \in 1 .. Len(job[h].todo) :
         (job[h].pc = "exec" /\ i = 1) \/ work[job[h].todo[i]] = job[h].was.work[job[h].todo[i]]
    /\ job[h].pc = "ensure" => ~ flash[Current(h)].exists /\ SoundConfig(Config(h))
    /\ job[h].pc = "exec" => Underway(h)

\* While it commits: all are staged, and the first of them are on flash.
CommitHeld(h) ==
  Told(h) /\ job[h].pc = "commit" =>
    \A i \in 1 .. Len(job[h].staged) :
      LET p == job[h].staged[i]
      IN  /\ Meets(h, p)
          /\ IF i <= Len(job[h].committed) THEN flash[p].secs = work[p]
             ELSE flash[p].secs = job[h].was.flash[p].secs

\* When it has come to its end: every package is whole, and all are as wanted after an ok.
EndHeld(h) ==
  Told(h) /\ job[h].pc \in {"revert", "done"} =>
    \A p \in DOMAIN job[h].payload : Whole(h, p) /\ (job[h].result = "ok" => Exact(h, p))

Held(h) == Carried(h) /\ StagingHeld(h) /\ CommitHeld(h) /\ EndHeld(h)

\* The inductive invariant of what Apply leaves.
HInv ==
  /\ Inv /\ CInv /\ Wells /\ Fcns /\ NoFile
  /\ \A h \in Handlers : Held(h)

\* The step leaves the other handlers alone, and what has been misread is not forgotten.
Goes(h) ==
  /\ \A g \in Handlers : g # h => job'[g] = job[g]
  /\ misread \subseteq misread'

\* A handler's step does not make it the last, or read anything right.
LEMMA ToldOn ==
  ASSUME NEW h \in Handlers, Goes(h)
  PROVE  Told(h)' => Told(h)
<1>1. \A g \in Handlers : g > h => g # h
  BY DEF Handlers
<1> QED
  BY <1>1 DEF Goes, Told, Latest

\* The packages of a payload.
LEMMA Payload ==
  ASSUME NEW h \in Handlers, Carried(h)
  PROVE  /\ DOMAIN job[h].payload \subseteq Names
         /\ \A p \in DOMAIN job[h].payload : job[h].payload \in Payloads
<1>1. DOMAIN <<>> = {}
  OBVIOUS
<1> QED
  BY <1>1, ApplierAssumption DEF Carried

\* The package that a handler is about, and the others.
LEMMA CurrentIs ==
  ASSUME NEW h \in Handlers, Carried(h), job[h].pc \in Staging
  PROVE  LET staged == job[h].staged
             todo == job[h].todo
         IN  /\ Len(staged) \in Nat /\ Len(todo) \in Nat /\ Len(todo) >= 1
             /\ Current(h) = todo[1] /\ Current(h) \in Names /\ Current(h) \in DOMAIN job[h].payload
             /\ \A i \in 1 .. Len(staged) : staged[i] \in Names /\ staged[i] # Current(h)
             /\ \A i \in 1 .. Len(todo) : todo[i] \in Names /\ (i # 1 => todo[i] # Current(h))
<1> DEFINE pl == job[h].payload
           staged == job[h].staged
           todo == job[h].todo
<1>1. Split(pl, staged, todo) /\ todo # <<>> /\ DOMAIN pl \subseteq Names
  BY Payload DEF Carried
<1>2. IsList(todo)
  BY <1>1 DEF Split
<1>3. Len(todo) \in Nat /\ Len(todo) >= 1 /\ Head(todo) = todo[1]
  BY <1>1, <1>2, HeadIs
<1>4. Current(h) = todo[1]
  BY <1>3 DEF Current
<1> HIDE DEF pl, staged, todo
<1>5. /\ Len(staged) \in Nat
      /\ \A i \in 1 .. Len(staged) : staged[i] \in DOMAIN pl
      /\ \A i \in 1 .. Len(todo) : todo[i] \in DOMAIN pl
      /\ \A i, j \in 1 .. Len(todo) : todo[i] = todo[j] => i = j
      /\ \A i \in 1 .. Len(staged), j \in 1 .. Len(todo) : staged[i] # todo[j]
  BY <1>1, SplitIs
<1>6. 1 \in 1 .. Len(todo)
  BY <1>3
<1>7. Current(h) \in DOMAIN pl /\ Current(h) \in Names
  BY <1>1, <1>4, <1>5, <1>6
<1>8. \A i \in 1 .. Len(staged) : staged[i] \in Names /\ staged[i] # Current(h)
  BY <1>1, <1>4, <1>5, <1>6
<1>9. \A i \in 1 .. Len(todo) : todo[i] \in Names /\ (i # 1 => todo[i] # Current(h))
  BY <1>1, <1>4, <1>5, <1>6
<1> QED
  BY <1>3, <1>4, <1>5, <1>7, <1>8, <1>9 DEF pl, staged, todo

\* The configuration that is staged has a meaning.
LEMMA SoundNow ==
  ASSUME AllSound, NEW h \in Handlers, Carried(h), MayRead(h)
  PROVE  SoundConfig(Config(h))
<1>1. job[h].pc \in Staging
  BY DEF MayRead, Staging
<1>2. Current(h) \in DOMAIN job[h].payload
  BY <1>1, CurrentIs
<1>3. job[h].payload \in Payloads
  BY <1>2, Payload
<1>4. job[h].payload[Current(h)].bad => job[h].payload[Current(h)].delete
  BY DEF MayRead, Config
<1> QED
  BY <1>2, <1>3, <1>4 DEF AllSound, Config

-----------------------------------------------------------------------------
(* The steps of a handler that applies a payload. *)

\* The plan for what is there begins.
LEMMA PlanStarts ==
  ASSUME Shape, Wells, Fcns, NEW h \in Handlers, Held(h), job[h].pc = "stage" \/ job[h].pc = "ensure",
         NEW secs, PlanOn(h, secs), work' = work, misread \subseteq misread',
         Told(h)' => secs = work[Current(h)] /\ SoundConfig(Config(h))
  PROVE  Goes(h) /\ Held(h)'
<1> DEFINE j == job[h]
           k == job'[h]
           p == Current(h)
<1>1. /\ \A g \in Handlers : g # h => job'[g] = job[g]
      /\ k.pc = "exec" /\ k.plan = StagePlan(secs, Config(h))
      /\ k.payload = j.payload /\ k.staged = j.staged /\ k.todo = j.todo
      /\ k.was = j.was /\ k.last = j.last /\ k.result = j.result
  BY DEF PlanOn, Shape, Fields
<1>2. Goes(h)
  BY <1>1 DEF Goes
<1>3. j.pc \in Staging /\ Carried(h) /\ StagingHeld(h)
  BY DEF Held, Staging
<1>4. Carried(h)'
  BY <1>1, <1>3 DEF Carried, Staging, LinePcs
<1>5. CommitHeld(h)' /\ EndHeld(h)'
  BY <1>1 DEF CommitHeld, EndHeld
<1>6. /\ Len(j.todo) \in Nat /\ Len(j.todo) >= 1 /\ p = j.todo[1] /\ p \in Names
  BY <1>3, CurrentIs
<1>7. Current(h)' = p /\ Config(h)' = Config(h)
  BY <1>1 DEF Current, Config
<1>8. StagingHeld(h)'
  <2> SUFFICES ASSUME Told(h)'
               PROVE  /\ \A i \in 1 .. Len(j.staged) : Meets(h, j.staged[i])'
                      /\ \A i \in 1 .. Len(j.todo) : i = 1 \/ work[j.todo[i]] = j.was.work[j.todo[i]]
                      /\ Underway(h)'
      BY <1>1 DEF StagingHeld
  <2>1. /\ \A i \in 1 .. Len(j.staged) : Meets(h, j.staged[i])
        /\ \A i \in 1 .. Len(j.todo) : work[j.todo[i]] = j.was.work[j.todo[i]]
    BY <1>2, <1>3, ToldOn DEF StagingHeld
  <2>2. \A i \in 1 .. Len(j.staged) : Meets(h, j.staged[i])'
    BY <1>1, <2>1 DEF Meets
  <2>3. PICK e : e = work[p]
    OBVIOUS
  <2>4. e = j.was.work[p] /\ e = secs /\ SoundConfig(Config(h))
    BY <1>6, <2>1, <2>3
  <2>5. WellFormed(e) /\ OptsAre(e)
    BY <1>6, <2>3 DEF Wells, Fcns
  <2>6. IsList(<<>>) /\ IsList(k.plan) /\ <<>> \o k.plan = StagePlan(e, Config(h))
    <3>1. IsList(StagePlan(e, Config(h)))
      BY <2>4, <2>5, StagePlanList
    <3> QED
      BY <1>1, <2>4, <3>1, ShortLists, PlanMoves
  <2>7. Leads([secs |-> e, last |-> j.last], <<>>, [secs |-> e, last |-> j.last])
    BY LeadsShort
  <2>8. Underway(h)'
    BY <1>1, <1>7, <2>3, <2>4, <2>5, <2>6, <2>7 DEF Underway
  <2> QED
    BY <2>1, <2>2, <2>8
<1> QED
  BY <1>2, <1>4, <1>5, <1>8 DEF Held

\* The package is read.
LEMMA ReadHolds ==
  ASSUME AllSound, HInv, NEW h \in Handlers, Read(h)
  PROVE  Goes(h) /\ Held(h)'
<1>1. Held(h) /\ Shape /\ Wells /\ Fcns
  BY DEF HInv, Inv
<1>2. MayRead(h) /\ PlanOn(h, work[Current(h)]) /\ work' = work /\ misread' = misread
  BY DEF Read, faults
<1>3. SoundConfig(Config(h))
  BY <1>1, <1>2, SoundNow DEF Held
<1>4. job[h].pc = "stage"
  BY <1>2 DEF MayRead
<1> QED
  BY <1>1, <1>2, <1>3, <1>4, PlanStarts

\* A package that does not exist is empty.
LEMMA Absent ==
  ASSUME HInv, NEW h \in Handlers, job[h].pc \in Staging, ~ flash[Current(h)].exists
  PROVE  work[Current(h)] = <<>>
<1>1. Current(h) \in Names
  BY CurrentIs DEF HInv, Held
<1> QED
  BY <1>1 DEF HInv, NoFile

\* The package is not read.
LEMMA ReadFailsHolds ==
  ASSUME AllSound, HInv, NEW h \in Handlers, ReadFails(h)
  PROVE  Goes(h) /\ Held(h)'
<1>1. Held(h) /\ Shape /\ Wells /\ Fcns
  BY DEF HInv, Inv
<1>2. /\ MayRead(h) /\ work' = work /\ flash' = flash /\ job[h].pc = "stage" /\ job[h].pc \in Staging
      /\ misread' = IF flash[Current(h)].exists THEN misread \cup {h} ELSE misread
  BY DEF ReadFails, MayRead, Staging
<1>3. SoundConfig(Config(h))
  BY <1>1, <1>2, SoundNow DEF Held
<1>4. misread \subseteq misread'
  BY <1>2
<1>5. Told(h)' => ~ flash[Current(h)].exists
  BY <1>2 DEF Told
<1>6. Told(h)' => <<>> = work[Current(h)]
  BY <1>2, <1>5, Absent
<1>7. CASE WantedTypes(Config(h)) = <<>>
  <2>1. PlanOn(h, <<>>)
    BY <1>7 DEF ReadFails
  <2>2. Told(h)' => <<>> = work[Current(h)] /\ SoundConfig(Config(h))
    BY <1>3, <1>6
  <2> QED
    BY <1>1, <1>2, <1>4, <2>1, <2>2, PlanStarts
<1>8. CASE WantedTypes(Config(h)) # <<>>
  <2> DEFINE j == job[h]
             k == job'[h]
  <2>1. job' = [job EXCEPT ![h].pc = "ensure"]
    BY <1>8 DEF ReadFails
  <2>2. /\ \A g \in Handlers : g # h => job'[g] = job[g]
        /\ k.pc = "ensure" /\ k.payload = j.payload /\ k.staged = j.staged /\ k.todo = j.todo
        /\ k.was = j.was /\ k.result = j.result
    BY <1>1, <2>1 DEF Shape, Fields
  <2>3. Goes(h)
    BY <1>4, <2>2 DEF Goes
  <2>4. Carried(h)'
    BY <1>1, <1>2, <2>2 DEF Held, Carried, Staging, LinePcs
  <2>5. CommitHeld(h)' /\ EndHeld(h)'
    BY <2>2 DEF CommitHeld, EndHeld
  <2>6. Current(h)' = Current(h) /\ Config(h)' = Config(h)
    BY <2>2 DEF Current, Config
  <2>7. SoundConfig(Config(h))'
    BY <1>3, <2>6
  <2>8. StagingHeld(h)'
    <3> SUFFICES ASSUME Told(h)'
                 PROVE  /\ \A i \in 1 .. Len(j.staged) : Meets(h, j.staged[i])'
                        /\ \A i \in 1 .. Len(j.todo) : work[j.todo[i]] = j.was.work[j.todo[i]]
                        /\ ~ flash[Current(h)].exists
      BY <1>2, <2>2, <2>6, <2>7 DEF StagingHeld
    <3>1. /\ \A i \in 1 .. Len(j.staged) : Meets(h, j.staged[i])
          /\ \A i \in 1 .. Len(j.todo) : work[j.todo[i]] = j.was.work[j.todo[i]]
      BY <1>1, <1>2, <2>3, ToldOn DEF Held, StagingHeld
    <3>2. \A i \in 1 .. Len(j.staged) : Meets(h, j.staged[i])'
      BY <1>2, <2>2, <3>1 DEF Meets
    <3> QED
      BY <1>5, <3>1, <3>2
  <2> QED
    BY <2>3, <2>4, <2>5, <2>8 DEF Held
<1> QED
  BY <1>7, <1>8

\* The package's file is made.
LEMMA EnsureHolds ==
  ASSUME HInv, NEW h \in Handlers, EnsurePackage(h)
  PROVE  Goes(h) /\ Held(h)'
<1>1. Held(h) /\ Shape /\ Wells /\ Fcns
  BY DEF HInv, Inv
<1>2. /\ job[h].pc = "ensure" /\ job[h].pc \in Staging
      /\ PlanOn(h, <<>>) /\ work' = work /\ misread' = misread
  BY DEF EnsurePackage, faults, Staging
<1>3. Told(h)' => Told(h)
  <2>1. Goes(h)
    BY <1>1, <1>2 DEF PlanOn, Shape, Goes
  <2> QED
    BY <2>1, ToldOn
<1>4. Told(h)' => ~ flash[Current(h)].exists /\ SoundConfig(Config(h))
  BY <1>1, <1>2, <1>3 DEF Held, StagingHeld
<1>5. Told(h)' => <<>> = work[Current(h)] /\ SoundConfig(Config(h))
  BY <1>2, <1>4, Absent
<1> QED
  BY <1>1, <1>2, <1>5, PlanStarts

\* One more call is made.
LEMMA ExecHolds ==
  ASSUME IdsLeft, HInv, NEW h \in Handlers, ExecStep(h)
  PROVE  Goes(h) /\ Held(h)'
<1> DEFINE j == job[h]
           k == job'[h]
           p == Current(h)
<1>1. Held(h) /\ Shape /\ Wells /\ Carried(h) /\ StagingHeld(h)
  BY DEF HInv, Inv, Held
<1>2. /\ j.pc = "exec" /\ j.plan # <<>> /\ j.pc \in Staging
      /\ Executable(work[p], Call(h)) /\ misread' = misread
      /\ work' = [work EXCEPT ![p] = Executed(work[p], Call(h), NewId(p))]
  BY DEF ExecStep, MayExec, AfterCall, faults, Staging
<1>3. /\ \A g \in Handlers : g # h => job'[g] = job[g]
      /\ k.pc = j.pc /\ k.plan = Tail(j.plan)
      /\ k.payload = j.payload /\ k.staged = j.staged /\ k.todo = j.todo
      /\ k.was = j.was /\ k.result = j.result
      /\ k.last = IF Call(h).id = NoId THEN NewId(p) ELSE j.last
  BY <1>1 DEF ExecStep, Shape, Fields
<1>4. Goes(h)
  BY <1>2, <1>3 DEF Goes
<1>5. Carried(h)'
  BY <1>1, <1>3 DEF Carried
<1>6. CommitHeld(h)' /\ EndHeld(h)'
  BY <1>2, <1>3 DEF CommitHeld, EndHeld
<1>7. /\ Current(h) = j.todo[1] /\ p \in Names
      /\ \A i \in 1 .. Len(j.staged) : j.staged[i] \in Names /\ j.staged[i] # p
      /\ \A i \in 1 .. Len(j.todo) : j.todo[i] \in Names /\ (i # 1 => j.todo[i] # p)
  BY <1>1, <1>2, CurrentIs
<1>8. Current(h)' = p /\ Config(h)' = Config(h)
  BY <1>3 DEF Current, Config
<1>9. DOMAIN work = Names
  BY <1>1 DEF Shape
<1>10. /\ work'[p] = Executed(work[p], Call(h), NewId(p))
       /\ \A q \in Names : q # p => work'[q] = work[q]
  BY <1>2, <1>7, <1>9
<1>11. StagingHeld(h)'
  <2> SUFFICES ASSUME Told(h)'
               PROVE  /\ \A i \in 1 .. Len(j.staged) : Meets(h, j.staged[i])'
                      /\ \A i \in 1 .. Len(j.todo) : i = 1 \/ work'[j.todo[i]] = j.was.work[j.todo[i]]
                      /\ Underway(h)'
      BY <1>2, <1>3 DEF StagingHeld
  <2>1. /\ \A i \in 1 .. Len(j.staged) : Meets(h, j.staged[i])
        /\ \A i \in 1 .. Len(j.todo) : i = 1 \/ work[j.todo[i]] = j.was.work[j.todo[i]]
        /\ Underway(h)
    BY <1>1, <1>2, <1>4, ToldOn DEF StagingHeld
  <2>2. \A i \in 1 .. Len(j.staged) : Meets(h, j.staged[i])'
    BY <1>3, <1>7, <1>10, <2>1 DEF Meets
  <2>3. \A i \in 1 .. Len(j.todo) : i = 1 \/ work'[j.todo[i]] = j.was.work[j.todo[i]]
    BY <1>7, <1>10, <2>1
  <2>4. PICK e : e = j.was.work[p]
    OBVIOUS
  <2>5. PICK done, last :
          /\ IsList(done) /\ done \o j.plan = StagePlan(e, Config(h))
          /\ Leads([secs |-> e, last |-> last], done, [secs |-> work[p], last |-> j.last])
    BY <2>1, <2>4 DEF Underway
  <2>6. WellFormed(e) /\ OptsAre(e) /\ SoundConfig(Config(h)) /\ IsList(j.plan)
    BY <2>1, <2>4 DEF Underway
  <2>7. PICK op : op = Head(j.plan)
    OBVIOUS
  <2>8. Call(h) = CallAs(op, j.last)
    BY <2>7 DEF Call, CallAs
  <2>9. IsNew(work[p], NewId(p))
    BY <1>1, <1>7, Fresh
  <2>10. PICK x, y : x = [secs |-> work[p], last |-> j.last] /\ y = [secs |-> work'[p], last |-> k.last]
    OBVIOUS
  <2>11. Makes(x, op, y)
    <3>1. x.secs = work[p] /\ x.last = j.last
      BY <2>10
    <3>2. PICK call : call = CallAs(op, x.last)
      OBVIOUS
    <3>3. call = Call(h)
      BY <2>8, <3>1, <3>2
    <3>4. PICK id : id = NewId(p)
      OBVIOUS
    <3>5. IsNew(x.secs, id) /\ Executable(x.secs, call)
      BY <1>2, <2>9, <3>1, <3>3, <3>4
    <3>6. y = [secs |-> Executed(x.secs, call, id), last |-> IF call.id = NoId THEN id ELSE x.last]
      BY <1>3, <1>10, <2>10, <3>1, <3>3, <3>4
    <3> QED
      BY <3>2, <3>5, <3>6 DEF Makes
  <2>12. Leads([secs |-> e, last |-> last], Append(done, op), y)
    BY <2>5, <2>10, <2>11, LeadsOn
  <2>13. Append(done, op) \o Tail(j.plan) = StagePlan(e, Config(h))
    <3>1. PICK plan : plan = j.plan
      OBVIOUS
    <3>2. IsList(done) /\ IsList(plan) /\ plan # <<>>
      BY <1>2, <2>5, <2>6, <3>1
    <3>3. Append(done, Head(plan)) \o Tail(plan) = done \o plan
      BY <3>2, PlanMoves
    <3> QED
      BY <2>5, <2>7, <3>1, <3>3
  <2>14. IsList(Append(done, op)) /\ IsList(Tail(j.plan))
    BY <1>2, <2>5, <2>6, AppendedIs, HeadIs
  <2>15. Underway(h)'
    <3>1. /\ WellFormed(e) /\ OptsAre(e) /\ SoundConfig(Config(h)) /\ IsList(k.plan)
          /\ \E d, l : /\ IsList(d) /\ d \o k.plan = StagePlan(e, Config(h))
                       /\ Leads([secs |-> e, last |-> l], d, [secs |-> work'[p], last |-> k.last])
      BY <1>3, <2>6, <2>10, <2>12, <2>13, <2>14
    <3>2. e = k.was.work[p]
      BY <1>3, <2>4
    <3> QED
      BY <1>8, <3>1, <3>2 DEF Underway
  <2> QED
    BY <2>2, <2>3, <2>15
<1> QED
  BY <1>4, <1>5, <1>6, <1>11 DEF Held

\* A package is staged once its plan is at its end.
LEMMA StagedMeets ==
  ASSUME NEW h \in Handlers, Underway(h), job[h].plan = <<>>
  PROVE  Meets(h, Current(h))
<1> DEFINE j == job[h]
           p == Current(h)
<1>1. PICK e : e = j.was.work[p]
  OBVIOUS
<1>2. PICK done, last :
        /\ IsList(done) /\ done \o j.plan = StagePlan(e, Config(h))
        /\ Leads([secs |-> e, last |-> last], done, [secs |-> work[p], last |-> j.last])
  BY <1>1 DEF Underway
<1>3. WellFormed(e) /\ OptsAre(e) /\ SoundConfig(Config(h)) /\ IsList(j.plan)
  BY <1>1 DEF Underway
<1>4. done = StagePlan(e, Config(h))
  BY <1>2, <1>3, PlanMoves
<1>5. PICK x, y : x = [secs |-> e, last |-> last] /\ y = [secs |-> work[p], last |-> j.last]
  OBVIOUS
<1>6. x.secs = e /\ y.secs = work[p] /\ Leads(x, StagePlan(e, Config(h)), y)
  BY <1>2, <1>4, <1>5
<1>7. View(y.secs) = Wanted(View(e), Config(h))
  BY <1>3, <1>6, PlanApplied
<1> QED
  BY <1>1, <1>6, <1>7 DEF Meets, Config

\* All calls for a package have been made: it is staged.
LEMMA StagedHolds ==
  ASSUME HInv, NEW h \in Handlers, PackageStaged(h)
  PROVE  Goes(h) /\ Held(h)'
<1> DEFINE j == job[h]
           k == job'[h]
           p == Current(h)
<1>1. Held(h) /\ Shape /\ Carried(h) /\ StagingHeld(h) /\ Uncommitting /\ Listed(j)
  BY DEF HInv, Inv, Held, CInv, Lists
<1>2. j.pc = "exec" /\ j.plan = <<>> /\ j.pc \in Staging /\ misread' = misread /\ work' = work /\ flash' = flash
  BY DEF PackageStaged, faults, Staging
<1>3. /\ \A g \in Handlers : g # h => job'[g] = job[g]
      /\ k.pc = (IF Len(j.todo) = 1 THEN "commit" ELSE "stage")
      /\ k.payload = j.payload /\ k.staged = Append(j.staged, p) /\ k.todo = Tail(j.todo)
      /\ k.was = j.was /\ k.result = j.result /\ k.committed = j.committed
  BY <1>1 DEF PackageStaged, Shape, Fields
<1>4. Goes(h)
  BY <1>2, <1>3 DEF Goes
<1>5. /\ Split(j.payload, j.staged, j.todo) /\ j.todo # <<>>
      /\ IsList(j.staged) /\ IsList(j.todo) /\ DOMAIN j.payload \subseteq Names
  BY <1>1, <1>2, Payload DEF Carried, Split
<1>6. Split(k.payload, k.staged, k.todo)
  BY <1>3, <1>5, SplitOn DEF Current
<1>7. /\ Len(j.todo) \in Nat /\ Len(j.todo) >= 1 /\ Len(k.todo) = Len(j.todo) - 1
      /\ \A i \in 1 .. Len(j.todo) - 1 : k.todo[i] = j.todo[i + 1]
  BY <1>3, <1>5, HeadIs
<1>8. /\ Len(j.staged) \in Nat /\ Len(k.staged) = Len(j.staged) + 1 /\ k.staged[Len(j.staged) + 1] = p
      /\ \A i \in 1 .. Len(j.staged) : k.staged[i] = j.staged[i]
  BY <1>3, <1>5, AppendedIs
<1>9. k.todo = <<>> => Len(k.todo) = 0
  BY ShortLists
<1>10. Carried(h)'
  <2>1. j.result # "ok"
    BY <1>1, <1>2 DEF Carried
  <2>2. k.pc = "commit" => Len(k.todo) = 0
    BY <1>3, <1>7
  <2>3. k.pc # "commit" => k.pc = "stage" /\ k.todo # <<>>
    BY <1>3, <1>7, <1>9
  <2>4. Carried(h)
    BY <1>1
  <2> QED
    BY <1>3, <1>6, <2>1, <2>2, <2>3, <2>4 DEF Carried, LinePcs, Staging
<1>11. ASSUME Told(h)', NEW i \in 1 .. Len(k.staged)
       PROVE  Meets(h, j.staged[i])'
  <2>1. Told(h)
    BY <1>4, <1>11, ToldOn
  <2>2. CASE i <= Len(j.staged)
    <3>1. i \in 1 .. Len(j.staged)
      BY <1>8, <2>2
    <3>2. Meets(h, j.staged[i])
      BY <1>1, <1>2, <2>1, <3>1 DEF StagingHeld
    <3> QED
      BY <1>2, <1>3, <1>8, <3>1, <3>2 DEF Meets
  <2>3. CASE i = Len(j.staged) + 1
    <3>1. Underway(h)
      BY <1>1, <1>2, <2>1 DEF StagingHeld
    <3>2. Meets(h, p)
      BY <1>2, <3>1, StagedMeets
    <3> QED
      BY <1>2, <1>3, <1>8, <2>3, <3>2 DEF Meets
  <2> QED
    BY <1>8, <2>2, <2>3
<1>12. StagingHeld(h)'
  <2> SUFFICES ASSUME Told(h)'
               PROVE  \A i \in 1 .. Len(k.todo) : work[k.todo[i]] = j.was.work[k.todo[i]]
      BY <1>2, <1>3, <1>11 DEF StagingHeld
  <2>1. \A i \in 1 .. Len(j.todo) : i = 1 \/ work[j.todo[i]] = j.was.work[j.todo[i]]
    BY <1>1, <1>2, <1>4, ToldOn DEF StagingHeld
  <2> TAKE i \in 1 .. Len(k.todo)
  <2>2. i + 1 \in 1 .. Len(j.todo) /\ i + 1 # 1 /\ k.todo[i] = j.todo[i + 1]
    BY <1>7
  <2> QED
    BY <2>1, <2>2
<1>13. CommitHeld(h)'
  <2> SUFFICES ASSUME Told(h)', k.pc = "commit", NEW i \in 1 .. Len(k.staged)
               PROVE  ~ (i <= Len(k.committed)) /\ flash[k.staged[i]].secs = j.was.flash[k.staged[i]].secs
      BY <1>2, <1>3, <1>11 DEF CommitHeld
  <2>1. Latest(h)
    BY <1>4, ToldOn DEF Told
  <2>2. \A q \in Names : flash[q].secs = j.was.flash[q].secs
    BY <1>1, <1>2, <2>1 DEF Uncommitting
  <2>3. k.staged[i] \in Names
    BY <1>3, <1>5, <1>6, SplitIs
  <2>4. Len(k.committed) = 0
    BY <1>1, <1>2, <1>3, ShortLists DEF Listed
  <2> QED
    BY <2>2, <2>3, <2>4
<1>14. EndHeld(h)'
  BY <1>3 DEF EndHeld
<1> QED
  BY <1>4, <1>10, <1>12, <1>13, <1>14 DEF Held

\* Staging is given up: nothing has been committed.
LEMMA UndoHolds ==
  ASSUME HInv, NEW h \in Handlers, ParseFails(h) \/ EnsureFails(h) \/ StepFails(h)
  PROVE  Goes(h) /\ Held(h)'
<1> DEFINE j == job[h]
           k == job'[h]
<1>1. Held(h) /\ Shape /\ Carried(h) /\ Uncommitting
  BY DEF HInv, Inv, Held
<1>2. Undo(h) /\ j.pc \in Staging /\ flash' = flash /\ misread' = misread
  BY DEF ParseFails, EnsureFails, StepFails, faults, Staging
<1>3. /\ \A g \in Handlers : g # h => job'[g] = job[g]
      /\ k.pc = "revert" /\ k.result = "stage_error" /\ k.payload = j.payload /\ k.was = j.was
  BY <1>1, <1>2 DEF Undo, Shape, Fields
<1>4. Goes(h)
  BY <1>2, <1>3 DEF Goes
<1>5. Carried(h)'
  BY <1>1, <1>3 DEF Carried, Staging, LinePcs
<1>6. StagingHeld(h)' /\ CommitHeld(h)'
  BY <1>3 DEF StagingHeld, CommitHeld, Staging
<1>7. EndHeld(h)'
  <2> SUFFICES ASSUME Told(h)', NEW p \in DOMAIN j.payload
               PROVE  Whole(h, p)'
      BY <1>3 DEF EndHeld
  <2>1. Latest(h)
    BY <1>4, ToldOn DEF Told
  <2>2. p \in Names
    BY <1>1, Payload
  <2>3. flash[p].secs = j.was.flash[p].secs
    BY <1>1, <1>2, <2>1, <2>2 DEF Uncommitting
  <2> QED
    BY <1>2, <1>3, <2>3 DEF Whole
<1> QED
  BY <1>4, <1>5, <1>6, <1>7 DEF Held

\* The package that is committed next.
LEMMA NextCommit ==
  ASSUME NEW h \in Handlers, Listed(job[h]), Carried(h), job[h].pc = "commit", Uncommitted(h) # <<>>
  PROVE  LET c == Len(job[h].committed)
             staged == job[h].staged
         IN  /\ c \in Nat /\ Len(staged) \in Nat /\ c + 1 \in 1 .. Len(staged)
             /\ Head(Uncommitted(h)) = staged[c + 1]
             /\ \A i \in 1 .. Len(staged) : staged[i] \in Names /\ (staged[i] = staged[c + 1] => i = c + 1)
<1>1. PICK staged, committed, pl, todo :
        /\ staged = job[h].staged /\ committed = job[h].committed
        /\ pl = job[h].payload /\ todo = job[h].todo
  OBVIOUS
<1>2. PICK c : c = Len(committed)
  OBVIOUS
<1>3. IsList(staged) /\ IsList(committed) /\ c <= Len(staged)
  BY <1>1, <1>2 DEF Listed
<1>4. c \in Nat /\ Len(staged) \in Nat
  BY <1>2, <1>3, ListIs
<1>5. Uncommitted(h) = SubSeq(staged, c + 1, Len(staged))
  BY <1>1, <1>2 DEF Uncommitted
<1>6. c + 1 <= Len(staged)
  BY <1>3, <1>4, <1>5, Rest
<1>7. PICK S : S = ToSet(staged)
  OBVIOUS
<1>8. staged \in Seq(S)
  BY <1>3, <1>7 DEF IsList
<1>9. Head(SubSeq(staged, c + 1, Len(staged))) = staged[c + 1]
  BY <1>4, <1>6, <1>8
<1>10. DOMAIN pl \subseteq Names /\ Split(pl, staged, todo)
  BY <1>1, Payload DEF Carried
<1>11. /\ \A i \in 1 .. Len(staged) : staged[i] \in DOMAIN pl
       /\ \A i, k \in 1 .. Len(staged) : staged[i] = staged[k] => i = k
  BY <1>10, SplitIs
<1>12. c + 1 \in 1 .. Len(staged)
  BY <1>4, <1>6
<1>13. \A i \in 1 .. Len(staged) : staged[i] \in Names /\ (staged[i] = staged[c + 1] => i = c + 1)
  BY <1>10, <1>11, <1>12
<1> QED
  BY <1>1, <1>2, <1>4, <1>5, <1>9, <1>12, <1>13

\* A package is committed.
LEMMA CommitHolds ==
  ASSUME HInv, NEW h \in Handlers, Commit(h)
  PROVE  Goes(h) /\ Held(h)'
<1> DEFINE j == job[h]
           k == job'[h]
           p == Head(Uncommitted(h))
           c == Len(j.committed)
<1>1. Held(h) /\ Shape /\ Carried(h) /\ CommitHeld(h) /\ Listed(j)
  BY DEF HInv, Inv, Held, CInv, Lists
<1>2. /\ j.pc = "commit" /\ Uncommitted(h) # <<>> /\ misread' = misread /\ work' = work
      /\ flash' = [flash EXCEPT ![p].secs = work[p]]
  BY DEF Commit, AfterCommit
<1>3. /\ \A g \in Handlers : g # h => job'[g] = job[g]
      /\ k.pc = j.pc /\ k.payload = j.payload /\ k.staged = j.staged /\ k.todo = j.todo
      /\ k.was = j.was /\ k.result = j.result /\ k.committed = Append(j.committed, p)
  BY <1>1 DEF Commit, Shape, Fields
<1>4. Goes(h)
  BY <1>2, <1>3 DEF Goes
<1>5. Carried(h)'
  BY <1>1, <1>3 DEF Carried
<1>6. StagingHeld(h)' /\ EndHeld(h)'
  BY <1>2, <1>3 DEF StagingHeld, EndHeld, Staging
<1>7. /\ c \in Nat /\ Len(j.staged) \in Nat /\ c + 1 \in 1 .. Len(j.staged) /\ p = j.staged[c + 1]
      /\ \A i \in 1 .. Len(j.staged) : j.staged[i] \in Names /\ (j.staged[i] = j.staged[c + 1] => i = c + 1)
  BY <1>1, <1>2, NextCommit
<1>8. Len(k.committed) = c + 1
  BY <1>1, <1>3, AppendedIs DEF Listed
<1>9. flash'[p].secs = work[p] /\ \A q \in Names : q # p => flash'[q] = flash[q]
  BY <1>1, <1>2, <1>7 DEF Shape
<1>10. ASSUME Told(h)', NEW i \in 1 .. Len(j.staged), NEW q, q = j.staged[i]
       PROVE  /\ Meets(h, q)'
              /\ IF i <= c + 1 THEN flash'[q].secs = work[q] ELSE flash'[q].secs = j.was.flash[q].secs
  <2>1. Told(h)
    BY <1>4, <1>10, ToldOn
  <2>2. /\ Meets(h, q)
        /\ IF i <= c THEN flash[q].secs = work[q] ELSE flash[q].secs = j.was.flash[q].secs
    BY <1>1, <1>2, <1>10, <2>1 DEF CommitHeld
  <2>3. Meets(h, q)'
    BY <1>2, <1>3, <2>2 DEF Meets
  <2>4. CASE i = c + 1
    <3>1. flash'[q].secs = work[q]
      BY <1>7, <1>9, <1>10, <2>4
    <3> QED
      BY <2>3, <2>4, <3>1, <1>7
  <2>5. CASE i # c + 1
    <3>1. flash'[q] = flash[q]
      BY <1>7, <1>9, <1>10, <2>5
    <3>2. i <= c + 1 => i <= c
      BY <1>7, <2>5
    <3>3. i <= c => i <= c + 1
      BY <1>7
    <3> QED
      BY <2>2, <2>3, <3>1, <3>2, <3>3
  <2> QED
    BY <2>4, <2>5
<1>11. CommitHeld(h)'
  <2> SUFFICES ASSUME Told(h)', NEW i \in 1 .. Len(k.staged)
               PROVE  /\ Meets(h, j.staged[i])'
                      /\ IF i <= Len(k.committed) THEN flash'[k.staged[i]].secs = work'[k.staged[i]]
                         ELSE flash'[k.staged[i]].secs = k.was.flash[k.staged[i]].secs
      BY DEF CommitHeld
  <2>1. PICK q : q = j.staged[i]
    OBVIOUS
  <2>2. k.staged[i] = q
    BY <1>3, <2>1
  <2>3. /\ Meets(h, q)'
        /\ IF i <= c + 1 THEN flash'[q].secs = work[q] ELSE flash'[q].secs = j.was.flash[q].secs
    BY <1>3, <1>10, <2>1
  <2>4. Meets(h, j.staged[i])'
    BY <2>2, <2>3 DEF Meets
  <2> QED
    BY <1>2, <1>3, <1>8, <2>2, <2>3, <2>4
<1> QED
  BY <1>4, <1>5, <1>6, <1>11 DEF Held

\* What the packages are when no more is committed.
LEMMA CommitsEnd ==
  ASSUME NEW h \in Handlers, Carried(h), CommitHeld(h), Told(h), job[h].pc = "commit",
         NEW p \in DOMAIN job[h].payload
  PROVE  p \in Names /\ Meets(h, p) /\ (flash[p].secs = work[p] \/ flash[p].secs = job[h].was.flash[p].secs)
<1>1. DOMAIN job[h].payload \subseteq Names
  BY Payload
<1>2. \E i \in 1 .. Len(job[h].staged) : job[h].staged[i] = p
  BY <1>1, SplitIs DEF Carried
<1> QED
  BY <1>1, <1>2 DEF CommitHeld

\* A commit fails, before or after it has taken effect.
LEMMA CommitFailsHolds ==
  ASSUME HInv, NEW h \in Handlers, CommitFails(h)
  PROVE  Goes(h) /\ Held(h)'
<1> DEFINE j == job[h]
           k == job'[h]
           q == Head(Uncommitted(h))
<1>1. Held(h) /\ Shape /\ Carried(h) /\ CommitHeld(h) /\ Listed(j)
  BY DEF HInv, Inv, Held, CInv, Lists
<1>2. /\ j.pc = "commit" /\ misread' = misread /\ work' = work
      /\ flash' = flash \/ flash' = [flash EXCEPT ![q].secs = work[q]]
  BY DEF CommitFails, AfterCommit, faults
<1>3. /\ \A g \in Handlers : g # h => job'[g] = job[g]
      /\ k.pc = "revert" /\ k.result = "commit_error" /\ k.payload = j.payload /\ k.was = j.was
  BY <1>1 DEF CommitFails, Shape, Fields
<1>4. Goes(h)
  BY <1>2, <1>3 DEF Goes
<1>5. Carried(h)'
  BY <1>1, <1>3 DEF Carried, Staging, LinePcs
<1>6. StagingHeld(h)' /\ CommitHeld(h)'
  BY <1>3 DEF StagingHeld, CommitHeld, Staging
<1>7. EndHeld(h)'
  <2> SUFFICES ASSUME Told(h)', NEW p \in DOMAIN j.payload
               PROVE  Whole(h, p)'
      BY <1>3 DEF EndHeld
  <2>1. Told(h)
    BY <1>4, ToldOn
  <2>2. p \in Names /\ Meets(h, p) /\ (flash[p].secs = work[p] \/ flash[p].secs = j.was.flash[p].secs)
    BY <1>1, <1>2, <2>1, CommitsEnd
  <2>3. flash'[p].secs = flash[p].secs \/ flash'[p].secs = work[p]
    BY <1>1, <1>2, <2>2 DEF Shape
  <2>4. flash'[p].secs = work[p] \/ flash'[p].secs = j.was.flash[p].secs
    BY <2>2, <2>3
  <2> QED
    BY <1>3, <2>2, <2>4 DEF Whole, Exact, Meets
<1> QED
  BY <1>4, <1>5, <1>6, <1>7 DEF Held

\* Nothing is left to commit.
LEMMA AllCommitted ==
  ASSUME NEW h \in Handlers, Listed(job[h]), job[h].pc = "commit", Uncommitted(h) = <<>>,
         NEW i \in 1 .. Len(job[h].staged)
  PROVE  i <= Len(job[h].committed)
<1>1. PICK staged, committed : staged = job[h].staged /\ committed = job[h].committed
  OBVIOUS
<1>2. PICK c : c = Len(committed)
  OBVIOUS
<1>3. IsList(staged) /\ IsList(committed) /\ c <= Len(staged)
  BY <1>1, <1>2 DEF Listed
<1>4. c \in Nat /\ Len(staged) \in Nat
  BY <1>2, <1>3, ListIs
<1>5. SubSeq(staged, c + 1, Len(staged)) = <<>>
  BY <1>1, <1>2 DEF Uncommitted
<1>6. PICK S : S = ToSet(staged)
  OBVIOUS
<1>7. staged \in Seq(S)
  BY <1>3, <1>6 DEF IsList
<1>8. Len(SubSeq(staged, c + 1, Len(staged))) = Len(staged) - c
  BY <1>3, <1>4, <1>7
<1>9. Len(staged) = c
  <2>1. Len(staged) - c = 0
    BY <1>5, <1>8, ShortLists
  <2> QED
    BY <1>4, <2>1
<1> QED
  BY <1>1, <1>2, <1>4, <1>9

\* All packages are committed, or reverted.
LEMMA FinishHolds ==
  ASSUME HInv, NEW h \in Handlers, Finish(h)
  PROVE  Goes(h) /\ Held(h)'
<1> DEFINE j == job[h]
           k == job'[h]
<1>1. Held(h) /\ Shape /\ Carried(h) /\ CommitHeld(h) /\ Listed(j)
  BY DEF HInv, Inv, Held, CInv, Lists
<1>2. j.pc = "commit" /\ Uncommitted(h) = <<>> /\ misread' = misread /\ work' = work /\ flash' = flash
  BY DEF Finish, faults
<1>3. /\ \A g \in Handlers : g # h => job'[g] = job[g]
      /\ k.pc = "done" /\ k.result = "ok" /\ k.payload = j.payload /\ k.was = j.was
  BY <1>1 DEF Finish, Shape, Fields
<1>4. Goes(h)
  BY <1>2, <1>3 DEF Goes
<1>5. Carried(h)'
  BY <1>1, <1>3 DEF Carried, Staging, LinePcs
<1>6. StagingHeld(h)' /\ CommitHeld(h)'
  BY <1>3 DEF StagingHeld, CommitHeld, Staging
<1>7. EndHeld(h)'
  <2> SUFFICES ASSUME Told(h)', NEW p \in DOMAIN j.payload
               PROVE  Exact(h, p)'
      BY <1>3 DEF EndHeld, Whole
  <2>1. Told(h)
    BY <1>4, ToldOn
  <2>2. \E i \in 1 .. Len(j.staged) : j.staged[i] = p
    BY <1>1, <1>2, Payload, SplitIs DEF Carried
  <2>3. Meets(h, p) /\ flash[p].secs = work[p]
    BY <1>1, <1>2, <2>1, <2>2, AllCommitted DEF CommitHeld
  <2> QED
    BY <1>2, <1>3, <2>3 DEF Exact, Meets
<1> QED
  BY <1>4, <1>5, <1>6, <1>7 DEF Held

\* The rest of a handler changes nothing on flash.
LEMMA RevertHolds ==
  ASSUME HInv, NEW h \in Handlers, Revert(h) \/ RevertFails(h)
  PROVE  Goes(h) /\ Held(h)'
<1> DEFINE j == job[h]
           k == job'[h]
<1>1. Held(h) /\ Shape /\ Carried(h) /\ EndHeld(h)
  BY DEF HInv, Inv, Held
<1>2. Reverted(h) /\ j.pc = "revert" /\ misread' = misread /\ flash' = flash
  BY DEF Revert, RevertFails
<1>3. /\ \A g \in Handlers : g # h => job'[g] = job[g]
      /\ k.pc \in {"done", "revert"} /\ k.result = j.result /\ k.payload = j.payload /\ k.was = j.was
  BY <1>1, <1>2 DEF Reverted, Shape, Fields
<1>4. Goes(h)
  BY <1>2, <1>3 DEF Goes
<1>5. j.result # "ok"
  BY <1>1, <1>2 DEF Carried
<1>6. Carried(h)'
  BY <1>1, <1>3, <1>5 DEF Carried, Staging, LinePcs
<1>7. StagingHeld(h)' /\ CommitHeld(h)'
  BY <1>3 DEF StagingHeld, CommitHeld, Staging
<1>8. EndHeld(h)'
  <2> SUFFICES ASSUME Told(h)', NEW p \in DOMAIN j.payload
               PROVE  Whole(h, p)'
      BY <1>3, <1>5 DEF EndHeld
  <2>1. Told(h)
    BY <1>4, ToldOn
  <2>2. Whole(h, p)
    BY <1>1, <1>2, <2>1 DEF EndHeld
  <2> QED
    BY <1>2, <1>3, <2>2 DEF Whole, Exact
<1> QED
  BY <1>4, <1>6, <1>7, <1>8 DEF Held

\* A handler that carries no payload.
LEMMA NoPayload ==
  ASSUME NEW h \in Handlers, job'[h].payload = <<>>, job'[h].result # "ok",
         job'[h].pc \in LinePcs \cup {"done"}
  PROVE  Held(h)'
<1>1. DOMAIN job'[h].payload = {}
  OBVIOUS
<1> QED
  BY <1>1 DEF Held, Carried, StagingHeld, CommitHeld, EndHeld, LinePcs, Staging

\* A payload that is not an object is rejected.
LEMMA RejectHolds ==
  ASSUME HInv, NEW h \in Handlers, Reject(h)
  PROVE  Goes(h) /\ Held(h)'
<1>1. Carried(h) /\ Shape
  BY DEF HInv, Inv, Held
<1>2. /\ job[h].pc = "idle" /\ misread' = misread
      /\ job' = [job EXCEPT ![h].pc = "done", ![h].result = "rejected"]
  BY DEF Reject, MayBegin, faults
<1>3. /\ \A g \in Handlers : g # h => job'[g] = job[g]
      /\ job'[h].pc = "done" /\ job'[h].result = "rejected" /\ job'[h].payload = job[h].payload
  BY <1>1, <1>2 DEF Shape, Fields
<1>4. Goes(h)
  BY <1>2, <1>3 DEF Goes
<1>5. job[h].payload = <<>>
  BY <1>1, <1>2 DEF Carried
<1> QED
  BY <1>3, <1>4, <1>5, NoPayload DEF Staging

\* A handler begins with a payload.
LEMMA BeginHolds ==
  ASSUME HInv, NEW h \in Handlers, Begin(h)
  PROVE  Goes(h) /\ Held(h)'
<1> DEFINE j == job[h]
           k == job'[h]
<1>1. Carried(h) /\ Shape /\ Results /\ Listed(j)
  BY DEF HInv, Inv, Held, CInv, Lists
<1>2. j.pc = "idle" /\ misread' = misread /\ flash' = flash /\ work' = work
  BY DEF Begin, MayBegin, faults
<1>3. PICK pl \in Payloads :
        job' = [job EXCEPT ![h].pc = IF Order(pl) = <<>> THEN "commit" ELSE "stage",
                           ![h].payload = pl, ![h].todo = Order(pl),
                           ![h].was = [flash |-> flash, work |-> work]]
  BY Zenon DEF Begin, Order
<1>4. PICK pc : pc = IF Order(pl) = <<>> THEN "commit" ELSE "stage"
  OBVIOUS
<1>5. PICK todo, was : todo = Order(pl) /\ was = [flash |-> flash, work |-> work]
  OBVIOUS
<1>6. job' = [job EXCEPT ![h].pc = pc, ![h].payload = pl, ![h].todo = todo, ![h].was = was]
  BY <1>3, <1>4, <1>5
<1>7. /\ \A g \in Handlers : g # h => job'[g] = job[g]
      /\ k.pc = pc /\ k.payload = pl /\ k.todo = todo /\ k.was = was
      /\ k.staged = j.staged /\ k.result = j.result
  BY <1>1, <1>6 DEF Shape, Fields
<1>8. Goes(h)
  BY <1>2, <1>7 DEF Goes
<1>9. j.staged = <<>> /\ j.result = "none"
  BY <1>1, <1>2 DEF Listed, Results
<1>10. Split(pl, <<>>, todo)
  BY <1>5, ApplierAssumption, SplitStart
<1>11. Len(<<>>) = 0 /\ (todo = <<>> => Len(todo) = 0)
  BY ShortLists
<1>12. pc = "commit" \/ (pc = "stage" /\ todo # <<>>)
  BY <1>4, <1>5
<1>13. pc = "commit" => todo = <<>>
  BY <1>4, <1>5
<1>14. Carried(h)'
  BY <1>7, <1>9, <1>10, <1>11, <1>12, <1>13 DEF Carried, LinePcs, Staging
<1>15. was.work = work
  BY <1>5
<1>16. Len(k.staged) = 0
  BY <1>7, <1>9, <1>11
<1>17. StagingHeld(h)'
  <2>1. \A i \in 1 .. Len(k.todo) : work'[k.todo[i]] = k.was.work[k.todo[i]]
    BY <1>2, <1>7, <1>15
  <2>2. k.pc # "ensure" /\ k.pc # "exec"
    BY <1>7, <1>12
  <2>3. \A i \in 1 .. Len(k.staged) : FALSE
    BY <1>16
  <2> QED
    BY <2>1, <2>2, <2>3 DEF StagingHeld
<1>18. CommitHeld(h)'
  <2>1. \A i \in 1 .. Len(k.staged) : FALSE
    BY <1>16
  <2> QED
    BY <2>1 DEF CommitHeld
<1>19. EndHeld(h)'
  BY <1>7, <1>12 DEF EndHeld
<1> QED
  BY <1>8, <1>14, <1>17, <1>18, <1>19 DEF Held

\* A script carries no payload, and its result is its own.
LEMMA LineCarries ==
  ASSUME Shape, NEW h \in Handlers, LineDone(h, TRUE) \/ LineDone(h, FALSE)
  PROVE  /\ \A g \in Handlers : g # h => job'[g] = job[g]
         /\ job'[h].payload = job[h].payload /\ job'[h].pc \in {"done", "line"}
         /\ job'[h].result \in {"set_ok", "set_error", job[h].result}
<1>1. PICK ok \in BOOLEAN : LineDone(h, ok)
  OBVIOUS
<1>2. PICK pc, result : job' = [job EXCEPT ![h].plan = <<>>, ![h].pc = pc, ![h].result = result]
  BY <1>1 DEF LineDone
<1>3. job'[h].payload = job[h].payload
  BY <1>2 DEF Shape, Fields
<1> QED
  BY <1>3, LineEnds

\* A step of a uci_set leaves the payload and the other handlers alone.
LEMMA ScriptCarries ==
  ASSUME Shape, NEW h \in Handlers, ScriptStep(h)
  PROVE  /\ \A g \in Handlers : g # h => job'[g] = job[g]
         /\ job[h].pc \in LinePcs \cup {"idle"} /\ misread' = misread
         /\ job'[h].payload = job[h].payload /\ job'[h].pc \in LinePcs \cup {"done"}
         /\ job'[h].result \in {"set_ok", "set_error", job[h].result}
<1> USE DEF LinePcs
<1> DEFINE Goal == /\ \A g \in Handlers : g # h => job'[g] = job[g]
                   /\ job'[h].payload = job[h].payload /\ job'[h].pc \in LinePcs \cup {"done"}
                   /\ job'[h].result \in {"set_ok", "set_error", job[h].result}
<1>1. ASSUME LineDone(h, TRUE) \/ LineDone(h, FALSE)
      PROVE  Goal
  BY <1>1, LineCarries
<1>2. ASSUME NEW pc \in LinePcs, job' = [job EXCEPT ![h].pc = pc]
      PROVE  Goal
  BY <1>2 DEF Shape, Fields
<1>3. ASSUME NEW secs, Planned(h, secs)
      PROVE  Goal
  <2>1. CASE LineDone(h, TRUE) \/ LineDone(h, FALSE)
    BY <1>1, <2>1
  <2>2. CASE \E calls : job' = [job EXCEPT ![h].pc = "call", ![h].plan = calls]
    BY <2>2 DEF Shape, Fields
  <2> QED
    BY <1>3, <2>1, <2>2, PlannedEffect
<1>4. job[h].pc \in LinePcs \cup {"idle"} /\ misread' = misread
  BY DEF ScriptStep, BeginScript, MayBegin, BadLine, LineRead, LineReadFails, LineCreates,
         LineCreateFails, LineCall, MayCall, LineCallFails, LineCommit, LineCommitFails,
         LineRevert, LineRevertFails, At, faults
<1>5. CASE BeginScript(h)
  <2>1. PICK pc, result, was :
          /\ job' = [job EXCEPT ![h].pc = pc, ![h].result = result, ![h].was = was]
          /\ pc \in {"done", "line"} /\ result \in {"set_ok", job[h].result}
    BY <1>5 DEF BeginScript
  <2>2. Goal
    BY <2>1 DEF Shape, Fields
  <2> QED
    BY <1>4, <2>2
<1>6. CASE BadLine(h) \/ LineCreateFails(h) \/ LineCall(h) \/ LineCallFails(h) \/ LineCommit(h)
           \/ LineCommitFails(h) \/ LineRevert(h) \/ LineRevertFails(h)
  <2>1. LineDone(h, TRUE) \/ LineDone(h, FALSE)
    BY <1>6 DEF BadLine, LineCreateFails, LineCall, LineCallFails, LineCommit, LineCommitFails,
                LineRevert, LineRevertFails
  <2> QED
    BY <1>1, <1>4, <2>1
<1>7. CASE LineRead(h)
  <2>1. Planned(h, work[Line(h).pkg])
    BY <1>7 DEF LineRead
  <2> QED
    BY <1>3, <1>4, <2>1
<1>8. CASE LineReadFails(h)
  <2>1. LineDone(h, FALSE) \/ job' = [job EXCEPT ![h].pc = "create"]
    BY <1>8 DEF LineReadFails
  <2> QED
    BY <1>1, <1>2, <1>4, <2>1
<1>9. CASE LineCreates(h)
  <2>1. job' = [job EXCEPT ![h].pc = "reread"]
    BY <1>9 DEF LineCreates
  <2> QED
    BY <1>2, <1>4, <2>1
<1> QED
  BY <1>5, <1>6, <1>7, <1>8, <1>9 DEF ScriptStep

\* A step of a uci_set, of a handler that applies nothing.
LEMMA ScriptHolds ==
  ASSUME HInv, NEW h \in Handlers, ScriptStep(h)
  PROVE  Goes(h) /\ Held(h)'
<1>1. Carried(h) /\ Shape
  BY DEF HInv, Inv, Held
<1>2. /\ \A g \in Handlers : g # h => job'[g] = job[g]
      /\ job[h].pc \in LinePcs \cup {"idle"} /\ misread' = misread
      /\ job'[h].payload = job[h].payload /\ job'[h].pc \in LinePcs \cup {"done"}
      /\ job'[h].result \in {"set_ok", "set_error", job[h].result}
  BY <1>1, ScriptCarries
<1>3. job[h].payload = <<>> /\ job[h].result # "ok"
  BY <1>1, <1>2 DEF Carried, LinePcs
<1>4. Goes(h)
  BY <1>2 DEF Goes
<1> QED
  BY <1>2, <1>3, <1>4, NoPayload DEF LinePcs, Staging

\* Every step of a handler keeps what is said of it.
LEMMA StepHolds ==
  ASSUME AllSound, IdsLeft, HInv, NEW h \in Handlers, AStep(h)
  PROVE  Goes(h) /\ Held(h)'
<1>1. CASE Read(h) \/ ReadFails(h) \/ EnsurePackage(h)
  BY <1>1, ReadHolds, ReadFailsHolds, EnsureHolds
<1>2. CASE ParseFails(h) \/ EnsureFails(h) \/ StepFails(h)
  BY <1>2, UndoHolds
<1>3. CASE ExecStep(h) \/ PackageStaged(h)
  BY <1>3, ExecHolds, StagedHolds
<1>4. CASE Commit(h) \/ CommitFails(h) \/ Finish(h)
  BY <1>4, CommitHolds, CommitFailsHolds, FinishHolds
<1>5. CASE Revert(h) \/ RevertFails(h)
  BY <1>5, RevertHolds
<1>6. CASE Reject(h) \/ Begin(h) \/ ScriptStep(h)
  BY <1>6, RejectHolds, BeginHolds, ScriptHolds
<1> QED
  BY <1>1, <1>2, <1>3, <1>4, <1>5, <1>6 DEF AStep

\* A handler that takes a step runs alone, so that the others have nothing to keep.
LEMMA OthersHeld ==
  ASSUME HInv, Inv', NEW h \in Handlers, Goes(h), job[h].pc # "done", job'[h].pc # "idle",
         NEW g \in Handlers, g # h
  PROVE  Held(g)'
<1>1. job'[g] = job[g]
  BY DEF Goes
<1>2. g \in Int /\ h \in Int
  BY DEF Handlers
<1>3. job[g].pc = "idle" \/ (job[g].pc = "done" /\ ~ Latest(g)')
  <2>1. CASE g < h
    <3>1. job'[g].pc = "done"
      BY <2>1 DEF Inv, OneAtATime
    <3>2. ~ Latest(g)'
      BY <2>1 DEF Latest
    <3> QED
      BY <1>1, <3>1, <3>2
  <2>2. CASE h < g
    BY <2>2 DEF HInv, Inv, OneAtATime
  <2> QED
    BY <1>2, <2>1, <2>2
<1>4. Carried(g)
  BY DEF HInv, Held
<1>5. Carried(g)'
  BY <1>1, <1>4 DEF Carried
<1> QED
  BY <1>1, <1>3, <1>5 DEF Held, StagingHeld, CommitHeld, EndHeld, Told, Staging

\* A handler that steps has begun and has not ended.
LEMMA StepsOn ==
  ASSUME HInv, NEW h \in Handlers, AStep(h)
  PROVE  job[h].pc # "done" /\ job'[h].pc # "idle"
<1>1. Shape
  BY DEF HInv, Inv
<1>2. CASE ScriptStep(h)
  BY <1>1, <1>2, ScriptCarries DEF LinePcs
<1>3. CASE ~ ScriptStep(h)
  BY <1>1, <1>3, ApplySteps DEF Applies
<1> QED
  BY <1>2, <1>3

\* Every step keeps the invariant.
LEMMA NextHInv ==
  Serial /\ AllSound /\ HInv /\ IdsLeft /\ [UNext]_uvars => HInv'
<1> SUFFICES ASSUME Serial, AllSound, HInv, IdsLeft, [UNext]_uvars
             PROVE  HInv'
    OBVIOUS
<1>1. Inv' /\ CInv'
  BY NextInv, NextCInv DEF HInv
<1>2. CASE UNext
  <2>1. PICK h \in Handlers : AStep(h)
    BY <1>2 DEF UNext, Next, AStep
  <2>2. Wells' /\ Fcns' /\ NoFile'
    BY <2>1, WellsKept, FcnsKept, NoFileKept DEF HInv, Inv
  <2>3. Goes(h) /\ Held(h)'
    BY <2>1, StepHolds
  <2>4. \A g \in Handlers : g # h => Held(g)'
    BY <1>1, <2>1, <2>3, StepsOn, OthersHeld
  <2> QED
    BY <1>1, <2>2, <2>3, <2>4 DEF HInv
<1>3. CASE UNCHANGED uvars
  <2>1. flash' = flash /\ work' = work /\ job' = job /\ misread' = misread
    BY <1>3 DEF uvars, vars, faults
  <2>2. Wells' /\ Fcns' /\ NoFile'
    BY <2>1 DEF HInv, Wells, Fcns, NoFile
  <2>3. ASSUME NEW g \in Handlers
        PROVE  Held(g)'
    <3>1. Held(g) /\ (Told(g)' => Told(g))
      BY <2>1 DEF HInv, Told, Latest
    <3>2. Carried(g)' /\ StagingHeld(g)'
      BY <2>1, <3>1 DEF Held, Carried, StagingHeld, Meets, Underway, Current, Config
    <3>3. CommitHeld(g)' /\ EndHeld(g)'
      BY <2>1, <3>1 DEF Held, CommitHeld, EndHeld, Meets, Whole, Exact
    <3> QED
      BY <3>2, <3>3 DEF Held
  <2> QED
    BY <1>1, <2>2, <2>3 DEF HInv
<1> QED
  BY <1>2, <1>3

\* It holds initially.
LEMMA InitHInv == UInit => HInv
<1> SUFFICES ASSUME UInit
             PROVE  HInv
    OBVIOUS
<1>1. image \in Images /\ flash = image /\ work = [p \in Names |-> image[p].secs]
  BY DEF UInit, Init
<1>2. ASSUME NEW p \in Names
      PROVE  /\ WellFormed(image[p].secs) /\ OptsAre(image[p].secs)
             /\ image[p].exists \/ image[p].secs = <<>>
  <2>1. /\ WellFormed(image[p].secs)
        /\ \A s \in ToSet(image[p].secs) : IsFcn(s.opts)
        /\ image[p].exists \/ image[p].secs = <<>>
    BY <1>1, ApplierAssumption
  <2> QED
    BY <2>1, Sections DEF OptsAre
<1>3. Wells /\ Fcns /\ NoFile
  BY <1>1, <1>2 DEF Wells, Fcns, NoFile
<1>4. ASSUME NEW h \in Handlers
      PROVE  Held(h)
  <2>1. job[h].pc = "idle" /\ job[h].payload = <<>> /\ job[h].result = "none"
    BY DEF UInit, Init
  <2> QED
    BY <2>1 DEF Held, Carried, StagingHeld, CommitHeld, EndHeld, Staging
<1> QED
  BY <1>3, <1>4, InitInv, InitCInv DEF HInv

\* What the invariant says of a handler at its end, and on the way.
LEMMA HInvExact == HInv => AppliedExactly
<1> SUFFICES ASSUME HInv, NEW h \in Handlers \ misread, job[h].result = "ok", Latest(h),
                    NEW p \in DOMAIN job[h].payload
             PROVE  View(flash[p].secs) = Wanted(View(job[h].was.work[p]), job[h].payload[p])
    BY DEF AppliedExactly
<1>1. Carried(h) /\ EndHeld(h)
  BY DEF HInv, Held
<1>2. job[h].pc = "done" /\ Told(h)
  BY <1>1 DEF Carried, Told
<1> QED
  BY <1>1, <1>2 DEF EndHeld, Exact

\* It says that the latest apply has left no package half done.
LEMMA HInvWhole ==
  ASSUME HInv, NEW h \in Handlers \ misread, job[h].pc # "idle", Latest(h),
         NEW p \in DOMAIN job[h].payload
  PROVE  Whole(h, p)
<1>1. Held(h) /\ Carried(h) /\ Uncommitting /\ Told(h) /\ p \in Names
  BY Payload DEF HInv, Inv, Held, Told
<1>2. CASE job[h].pc \in LinePcs
  <2>1. job[h].payload = <<>>
    BY <1>1, <1>2 DEF Carried
  <2> QED
    BY <2>1
<1>3. CASE job[h].pc \in Staging
  <2>1. flash[p].secs = job[h].was.flash[p].secs
    BY <1>1, <1>3 DEF Uncommitting
  <2> QED
    BY <2>1 DEF Whole
<1>4. CASE job[h].pc = "commit"
  <2>1. Meets(h, p) /\ (flash[p].secs = work[p] \/ flash[p].secs = job[h].was.flash[p].secs)
    BY <1>1, <1>4, CommitsEnd DEF Held
  <2> QED
    BY <2>1 DEF Whole, Exact, Meets
<1>5. CASE job[h].pc \in {"revert", "done"}
  BY <1>1, <1>5 DEF Held, EndHeld
<1> QED
  BY <1>1, <1>2, <1>3, <1>4, <1>5 DEF Carried

\* And so of all handlers that have to answer for a package.
LEMMA HInvPackages == HInv => PackageWhole
<1> SUFFICES ASSUME HInv, NEW h \in Handlers \ misread, job[h].pc # "idle", Latest(h),
                    NEW p \in DOMAIN job[h].payload
             PROVE  View(flash[p].secs) \in
                      {View(job[h].was.flash[p].secs),
                       Wanted(View(job[h].was.work[p]), job[h].payload[p])}
    BY DEF PackageWhole
<1>1. Whole(h, p)
  BY HInvWhole
<1> QED
  BY <1>1 DEF Whole, Exact

\* With one handler after the other, an Apply that succeeds leaves every package saying
\* exactly what its payload means for what the package said before, whatever the packages
\* said, in both modes, and whatever failed in the commands before it.  The payloads are
\* those SoundConfig has a meaning for, and libuci does not run out of ids.
THEOREM AppliesExactly ==
  Serial /\ AllSound => (USpec /\ []IdsLeft => []AppliedExactly)
<1> SUFFICES ASSUME Serial, AllSound
             PROVE  USpec /\ []IdsLeft => []AppliedExactly
    OBVIOUS
<1>1. UInit => HInv
  BY InitHInv
<1>2. HInv /\ IdsLeft /\ [UNext]_uvars => HInv'
  BY NextHInv
<1>3. HInv => AppliedExactly
  BY HInvExact
<1> QED
  BY <1>1, <1>2, <1>3, PTL DEF USpec

\* At every moment, hence also after a power cut, every package on flash is what it was
\* or all of what the running or last command means, and nothing in between.  With one
\* handler after the other, for the same payloads and ids as above.
THEOREM PackagesAreWhole ==
  Serial /\ AllSound => (USpec /\ []IdsLeft => []PackageWhole)
<1> SUFFICES ASSUME Serial, AllSound
             PROVE  USpec /\ []IdsLeft => []PackageWhole
    OBVIOUS
<1>1. UInit => HInv
  BY InitHInv
<1>2. HInv /\ IdsLeft /\ [UNext]_uvars => HInv'
  BY NextHInv
<1>3. HInv => PackageWhole
  BY HInvPackages
<1> QED
  BY <1>1, <1>2, <1>3, PTL DEF USpec
=============================================================================
