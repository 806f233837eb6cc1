----------------------------- MODULE KernelProofs ---------------------------
(***************************************************************************)
(* No process is lost or queued twice by the kernel, every pending         *)
(* notification is where its event says it is, and the kernel implements   *)
(* the scheduler.                                                          *)
(***************************************************************************)
EXTENDS KernelProps, SequenceTheorems, FiniteSetTheorems, WellFoundedInduction, TLAPS

-----------------------------------------------------------------------------
(* Sequences without repetition, and their elements *)

LEMMA LeastElement ==
  ASSUME NEW T \in SUBSET Nat, T # {}
  PROVE  \E n \in T : \A m \in T : n <= m
<1> DEFINE R == {ss \in Nat \X Nat : ss[1] < ss[2]}
<1>1. IsWellFoundedOn(R, Nat)
  BY NatLessThanWellFounded DEF OpToRel
<1> HIDE DEF R
<1>2. PICK n \in T : \A m \in T : ~(<<m, n>> \in R)
  BY <1>1, WFMin
<1>3. \A m \in T : ~(m < n)
  BY <1>2 DEF R
<1> QED BY <1>3

LEMMA Elements ==
  ASSUME NEW S, NEW s \in Seq(S)
  PROVE  /\ \A x : x \in ToSet(s) <=> \E i \in 1..Len(s) : s[i] = x
         /\ \A i \in 1..Len(s) : s[i] \in ToSet(s)
         /\ ToSet(s) \subseteq S
         /\ IsInjective(s) <=> \A i, j \in 1..Len(s) : s[i] = s[j] => i = j
         /\ s = <<>> <=> ToSet(s) = {}
<1>1. DOMAIN s = 1..Len(s) /\ \A i \in 1..Len(s) : s[i] \in S
  BY LenProperties, ElementOfSeq
<1>2. s = <<>> => ToSet(s) = {}
  BY EmptySeq DEF ToSet
<1>3. s # <<>> => s[1] \in ToSet(s)
  BY <1>1, EmptySeq DEF ToSet
<1> QED BY <1>1, <1>2, <1>3 DEF ToSet, IsInjective

LEMMA EmptyElements == ToSet(<<>>) = {} /\ IsInjective(<<>>)
BY DEF ToSet, IsInjective

LEMMA AppendElements ==
  ASSUME NEW S, NEW s \in Seq(S), NEW x \in S
  PROVE  /\ Append(s, x) \in Seq(S) /\ ToSet(Append(s, x)) = ToSet(s) \cup {x}
         /\ IsInjective(s) /\ x \notin ToSet(s) => IsInjective(Append(s, x))
<1> DEFINE n == Len(s)
           t == Append(s, x)
<1>1. /\ n \in Nat /\ t \in Seq(S) /\ Len(t) = n + 1 /\ t[n + 1] = x
      /\ \A i \in 1..n : t[i] = s[i]
  BY AppendProperties, LenProperties
<1>2. /\ \A y : y \in ToSet(s) <=> \E i \in 1..n : s[i] = y
      /\ \A y : y \in ToSet(t) <=> \E i \in 1..(n + 1) : t[i] = y
      /\ IsInjective(s) <=> \A i, j \in 1..n : s[i] = s[j] => i = j
      /\ IsInjective(t) <=> \A i, j \in 1..(n + 1) : t[i] = t[j] => i = j
  BY <1>1, Elements
<1> HIDE DEF n, t
<1>3. 1..(n + 1) = 1..n \cup {n + 1}
  BY <1>1
<1>4. ASSUME NEW y PROVE y \in ToSet(t) <=> y \in ToSet(s) \/ y = x
  BY <1>1, <1>2, <1>3
<1>5. IsInjective(s) /\ x \notin ToSet(s) => IsInjective(t)
  BY <1>1, <1>2, <1>3
<1> QED BY <1>1, <1>4, <1>5 DEF t

LEMMA ConcatElements ==
  ASSUME NEW S, NEW s \in Seq(S), NEW t \in Seq(S)
  PROVE  /\ s \o t \in Seq(S) /\ ToSet(s \o t) = ToSet(s) \cup ToSet(t)
         /\ IsInjective(s) /\ IsInjective(t) /\ ToSet(s) \cap ToSet(t) = {} => IsInjective(s \o t)
<1> DEFINE m == Len(s)
           n == Len(t)
           u == s \o t
<1>1. /\ m \in Nat /\ n \in Nat /\ u \in Seq(S) /\ Len(u) = m + n
      /\ \A i \in 1..(m + n) : u[i] = IF i <= m THEN s[i] ELSE t[i - m]
  BY ConcatProperties, LenProperties
<1>2. /\ \A y : y \in ToSet(s) <=> \E i \in 1..m : s[i] = y
      /\ \A y : y \in ToSet(t) <=> \E i \in 1..n : t[i] = y
      /\ \A y : y \in ToSet(u) <=> \E i \in 1..(m + n) : u[i] = y
      /\ IsInjective(s) <=> \A i, j \in 1..m : s[i] = s[j] => i = j
      /\ IsInjective(t) <=> \A i, j \in 1..n : t[i] = t[j] => i = j
      /\ IsInjective(u) <=> \A i, j \in 1..(m + n) : u[i] = u[j] => i = j
  BY <1>1, Elements
<1> HIDE DEF m, n, u
<1>3. /\ \A i \in 1..m : i \in 1..(m + n) /\ u[i] = s[i]
      /\ \A i \in 1..n : m + i \in 1..(m + n) /\ u[m + i] = t[i]
      /\ \A k \in 1..(m + n) : \/ k \in 1..m /\ u[k] = s[k]
                               \/ k - m \in 1..n /\ u[k] = t[k - m]
  <2>1. \A i \in 1..m : i \in 1..(m + n) /\ u[i] = s[i]
    BY <1>1
  <2>2. ASSUME NEW i \in 1..n PROVE m + i \in 1..(m + n) /\ u[m + i] = t[i]
    <3>1. m + i \in 1..(m + n) /\ ~(m + i <= m) /\ (m + i) - m = i
      BY <1>1
    <3> QED BY <1>1, <3>1
  <2>3. \A k \in 1..(m + n) : k <= m => k \in 1..m /\ u[k] = s[k]
    BY <1>1
  <2>4. \A k \in 1..(m + n) : ~(k <= m) => k - m \in 1..n /\ u[k] = t[k - m]
    BY <1>1
  <2> QED BY <2>1, <2>2, <2>3, <2>4
<1>4. ASSUME NEW y PROVE y \in ToSet(u) <=> y \in ToSet(s) \/ y \in ToSet(t)
  <2>1. y \in ToSet(u) => y \in ToSet(s) \/ y \in ToSet(t)
    BY <1>2, <1>3
  <2>2. y \in ToSet(s) => y \in ToSet(u)
    BY <1>2, <1>3
  <2>3. y \in ToSet(t) => y \in ToSet(u)
    BY <1>2, <1>3
  <2> QED BY <2>1, <2>2, <2>3
<1>5. ASSUME IsInjective(s), IsInjective(t), ToSet(s) \cap ToSet(t) = {},
             NEW i \in 1..(m + n), NEW j \in 1..(m + n), u[i] = u[j]
      PROVE  i = j
  <2>1. CASE i \in 1..m /\ u[i] = s[i] /\ j \in 1..m /\ u[j] = s[j]
    BY <1>2, <1>5, <2>1
  <2>2. CASE i - m \in 1..n /\ u[i] = t[i - m] /\ j - m \in 1..n /\ u[j] = t[j - m]
    <3>1. i - m = j - m
      BY <1>2, <1>5, <2>2
    <3> QED BY <1>1, <3>1
  <2>3. CASE i \in 1..m /\ u[i] = s[i] /\ j - m \in 1..n /\ u[j] = t[j - m]
    <3>1. u[i] \in ToSet(s) /\ u[i] \in ToSet(t)
      BY <1>2, <1>5, <2>3
    <3> QED BY <1>5, <3>1
  <2>4. CASE i - m \in 1..n /\ u[i] = t[i - m] /\ j \in 1..m /\ u[j] = s[j]
    <3>1. u[i] \in ToSet(s) /\ u[i] \in ToSet(t)
      BY <1>2, <1>5, <2>4
    <3> QED BY <1>5, <3>1
  <2> QED BY <1>3, <2>1, <2>2, <2>3, <2>4
<1>6. IsInjective(s) /\ IsInjective(t) /\ ToSet(s) \cap ToSet(t) = {} => IsInjective(u)
  BY <1>2, <1>5
<1> QED BY <1>1, <1>4, <1>6 DEF u

LEMMA TailElements ==
  ASSUME NEW S, NEW s \in Seq(S), s # <<>>
  PROVE  /\ Head(s) \in S /\ Tail(s) \in Seq(S)
         /\ ToSet(s) = {Head(s)} \cup ToSet(Tail(s))
         /\ IsInjective(s) => IsInjective(Tail(s)) /\ Head(s) \notin ToSet(Tail(s))
<1> DEFINE n == Len(s)
           t == Tail(s)
<1>1. /\ n \in Nat /\ n > 0 /\ Head(s) = s[1] /\ Head(s) \in S
      /\ t \in Seq(S) /\ Len(t) = n - 1 /\ \A i \in 1..(n - 1) : t[i] = s[i + 1]
  BY HeadTailProperties, EmptySeq, LenProperties
<1>2. /\ \A y : y \in ToSet(s) <=> \E i \in 1..n : s[i] = y
      /\ \A y : y \in ToSet(t) <=> \E i \in 1..(n - 1) : t[i] = y
      /\ IsInjective(s) <=> \A i, j \in 1..n : s[i] = s[j] => i = j
      /\ IsInjective(t) <=> \A i, j \in 1..(n - 1) : t[i] = t[j] => i = j
  BY <1>1, Elements
<1> HIDE DEF n, t
<1>3. /\ \A i \in 1..(n - 1) : i + 1 \in 1..n /\ i + 1 # 1 /\ s[i + 1] = t[i]
      /\ \A k \in 1..n : k = 1 \/ (k - 1 \in 1..(n - 1) /\ t[k - 1] = s[k])
      /\ 1 \in 1..n
  <2>1. \A i \in 1..(n - 1) : i + 1 \in 1..n /\ i + 1 # 1 /\ s[i + 1] = t[i]
    BY <1>1
  <2>2. ASSUME NEW k \in 1..n, k # 1 PROVE k - 1 \in 1..(n - 1) /\ t[k - 1] = s[k]
    <3>1. k - 1 \in 1..(n - 1) /\ (k - 1) + 1 = k
      BY <1>1, <2>2
    <3> QED BY <1>1, <3>1
  <2> QED BY <1>1, <2>1, <2>2
<1>4. ASSUME NEW y PROVE y \in ToSet(s) <=> y = s[1] \/ y \in ToSet(t)
  <2>1. y \in ToSet(s) => y = s[1] \/ y \in ToSet(t)
    BY <1>2, <1>3
  <2>2. y = s[1] => y \in ToSet(s)
    BY <1>2, <1>3
  <2>3. y \in ToSet(t) => y \in ToSet(s)
    BY <1>2, <1>3
  <2> QED BY <2>1, <2>2, <2>3
<1>5. IsInjective(s) => IsInjective(t) /\ s[1] \notin ToSet(t)
  <2>1. ASSUME IsInjective(s), NEW i \in 1..(n - 1), NEW j \in 1..(n - 1), t[i] = t[j] PROVE i = j
    <3>1. i + 1 = j + 1
      BY <1>2, <1>3, <2>1
    <3> QED BY <3>1
  <2>2. ASSUME IsInjective(s), s[1] \in ToSet(t) PROVE FALSE
    <3>1. PICK i \in 1..(n - 1) : s[1] = t[i]
      BY <1>2, <2>2
    <3> QED BY <1>2, <1>3, <2>2, <3>1
  <2> QED BY <1>2, <2>1, <2>2
<1> QED BY <1>1, <1>4, <1>5 DEF t

LEMMA ReverseElements ==
  ASSUME NEW S, NEW s \in Seq(S)
  PROVE  /\ Reverse(s) \in Seq(S) /\ ToSet(Reverse(s)) = ToSet(s)
         /\ IsInjective(s) => IsInjective(Reverse(s))
<1> DEFINE n == Len(s)
           t == Reverse(s)
<1>1. n \in Nat /\ \A i \in 1..n : s[i] \in S
  BY LenProperties, ElementOfSeq
<1>2. t = [i \in 1..n |-> s[(n - i) + 1]]
  BY DEF Reverse
<1>3. \A i \in 1..n : (n - i) + 1 \in 1..n /\ (n - ((n - i) + 1)) + 1 = i
  BY <1>1
<1>4. t \in Seq(S) /\ Len(t) = n
  <2> HIDE DEF n
  <2>1. t \in [1..n -> S]
    BY <1>1, <1>2, <1>3
  <2>2. t \in Seq(S)
    BY <1>1, <2>1, SeqDef
  <2> HIDE DEF t
  <2>3. DOMAIN t = 1..Len(t) /\ Len(t) \in Nat /\ DOMAIN t = 1..n
    BY <2>1, <2>2, LenProperties
  <2>4. \A k, l \in Nat : 1..k = 1..l => k = l
    OBVIOUS
  <2> QED BY <1>1, <2>2, <2>3, <2>4
<1>5. /\ \A y : y \in ToSet(s) <=> \E i \in 1..n : s[i] = y
      /\ \A y : y \in ToSet(t) <=> \E i \in 1..n : t[i] = y
      /\ IsInjective(s) <=> \A i, j \in 1..n : s[i] = s[j] => i = j
      /\ IsInjective(t) <=> \A i, j \in 1..n : t[i] = t[j] => i = j
  BY <1>4, Elements
<1>6. \A i \in 1..n : t[i] = s[(n - i) + 1] /\ s[i] = t[(n - i) + 1]
  BY <1>2, <1>3
<1> HIDE DEF n, t
<1>7. ASSUME NEW y PROVE y \in ToSet(t) <=> y \in ToSet(s)
  BY <1>3, <1>5, <1>6
<1>8. ASSUME IsInjective(s), NEW i \in 1..n, NEW j \in 1..n, t[i] = t[j] PROVE i = j
  <2>1. (n - i) + 1 = (n - j) + 1
    BY <1>3, <1>5, <1>6, <1>8
  <2> QED BY <1>1, <2>1
<1> QED BY <1>4, <1>5, <1>7, <1>8 DEF t

LEMMA WalkElements ==
  ASSUME NEW S, NEW s \in Seq(S)
  PROVE  /\ Walk(s) \in Seq(S) /\ ToSet(Walk(s)) = ToSet(s)
         /\ IsInjective(s) => IsInjective(Walk(s))
<1>1. CASE s = <<>>
  BY <1>1, EmptySeq DEF Walk
<1>2. CASE s # <<>>
  <2> DEFINE t == Tail(s)
             r == Reverse(t)
             h == <<Head(s)>>
  <2>1. /\ Head(s) \in S /\ t \in Seq(S)
        /\ ToSet(s) = {Head(s)} \cup ToSet(t)
        /\ IsInjective(s) => IsInjective(t) /\ Head(s) \notin ToSet(t)
    BY <1>2, TailElements
  <2>2. h \in Seq(S) /\ ToSet(h) = {Head(s)} /\ IsInjective(h)
    <3>1. h \in Seq(S) /\ DOMAIN h = {1} /\ h[1] = Head(s)
      BY <2>1
    <3> HIDE DEF h
    <3> QED BY <3>1 DEF ToSet, IsInjective
  <2>3. Walk(s) = h \o r
    BY <1>2 DEF Walk
  <2> HIDE DEF h, t
  <2>4. r \in Seq(S) /\ ToSet(r) = ToSet(t) /\ (IsInjective(t) => IsInjective(r))
    BY <2>1, ReverseElements
  <2> HIDE DEF r
  <2>5. /\ h \o r \in Seq(S) /\ ToSet(h \o r) = ToSet(h) \cup ToSet(r)
        /\ IsInjective(h) /\ IsInjective(r) /\ ToSet(h) \cap ToSet(r) = {} => IsInjective(h \o r)
    BY <2>2, <2>4, ConcatElements
  <2> QED BY <2>1, <2>2, <2>3, <2>4, <2>5
<1> QED BY <1>1, <1>2

LEMMA SetToSeqsElements ==
  ASSUME NEW S, IsFiniteSet(S), NEW s \in SetToSeqs(S)
  PROVE  s \in Seq(S) /\ IsInjective(s) /\ ToSet(s) = S
<1> DEFINE n == Cardinality(S)
<1>1. n \in Nat /\ s \in [1..n -> S] /\ \A i, j \in 1..n : i # j => s[i] # s[j]
  BY FS_CardinalityType DEF SetToSeqs
<1>2. s \in Seq(S)
  BY <1>1, SeqDef
<1>3. IsInjective(s)
  BY <1>1 DEF IsInjective
<1>4. s \in Injection(1..n, S)
  BY <1>1, <1>3 DEF Injection
<1>5. IsFiniteSet(1..n) /\ Cardinality(1..n) = n
  BY <1>1, FS_Interval
<1>6. s \in Surjection(1..n, S)
  BY <1>4, <1>5, FS_Injection
<1>7. ToSet(s) = S
  BY <1>1, <1>6 DEF Surjection, ToSet
<1> QED BY <1>2, <1>3, <1>7

LEMMA SetToSeqElements ==
  ASSUME NEW S, IsFiniteSet(S)
  PROVE  SetToSeq(S) \in Seq(S) /\ IsInjective(SetToSeq(S)) /\ ToSet(SetToSeq(S)) = S
<1> DEFINE n == Cardinality(S)
<1>1. PICK f \in Bijection(1..n, S) : TRUE
  BY FS_CardinalityType DEF ExistsBijection
<1>2. f \in [1..n -> S] /\ IsInjective(f)
  BY DEF Bijection, Injection
<1>3. SetToSeq(S) \in [1..n -> S] /\ IsInjective(SetToSeq(S))
  BY <1>2 DEF SetToSeq
<1>4. SetToSeq(S) \in SetToSeqs(S)
  BY <1>3 DEF SetToSeqs, IsInjective
<1> QED BY <1>4, SetToSeqsElements

-----------------------------------------------------------------------------
(* The threads woken by a sequence of events *)

LEMMA ConcatenationExists ==
  ASSUME NEW n \in Nat, NEW w
  PROVE  \E f : f = [k \in 0..n |-> IF k = 0 THEN <<>> ELSE f[k - 1] \o w[k]]
<1> DEFINE P(m) == \E f : f = [k \in 0..m |-> IF k = 0 THEN <<>> ELSE f[k - 1] \o w[k]]
           T == {m \in Nat : ~P(m)}
<1>1. CASE T = {}
  BY <1>1
<1>2. CASE T # {}
  <2>1. PICK m \in T : \A l \in T : m <= l
    <3> HIDE DEF P
    <3> QED BY <1>2, LeastElement
  <2>2. CASE m = 0
    <3> DEFINE f == [k \in 0..0 |-> <<>>]
    <3>1. f = [k \in 0..0 |-> IF k = 0 THEN <<>> ELSE f[k - 1] \o w[k]]
      OBVIOUS
    <3>2. P(0)
      <4> HIDE DEF f
      <4> QED BY <3>1
    <3> QED BY <2>1, <2>2, <3>2
  <2>3. CASE m # 0
    <3>1. m \in Nat /\ m - 1 \in Nat /\ m - 1 \notin T
      <4> HIDE DEF P
      <4> QED BY <2>1, <2>3
    <3>2. PICK g : g = [k \in 0..(m - 1) |-> IF k = 0 THEN <<>> ELSE g[k - 1] \o w[k]]
      BY <3>1
    <3> DEFINE f == [k \in 0..m |-> IF k = m THEN g[m - 1] \o w[m] ELSE g[k]]
    <3>3. /\ \A k \in 0..(m - 1) : f[k] = g[k]
          /\ f[m] = g[m - 1] \o w[m]
      <4>1. m \in 0..m /\ \A k \in 0..(m - 1) : k \in 0..m /\ k # m
        BY <3>1
      <4> QED BY <4>1
    <3>4. ASSUME NEW k \in 0..m
          PROVE  f[k] = IF k = 0 THEN <<>> ELSE f[k - 1] \o w[k]
      <4>1. CASE k = m
        <5>1. m - 1 \in 0..(m - 1)
          BY <3>1
        <5> QED BY <2>3, <3>3, <4>1, <5>1
      <4>2. CASE k # m /\ k # 0
        <5>1. k \in 0..(m - 1) /\ k - 1 \in 0..(m - 1)
          BY <3>1, <4>2
        <5>2. g[k] = g[k - 1] \o w[k]
          BY <3>2, <4>2, <5>1
        <5> QED BY <3>3, <4>2, <5>1, <5>2
      <4>3. CASE k # m /\ k = 0
        <5>1. 0 \in 0..(m - 1)
          BY <3>1
        <5>2. g[0] = <<>>
          BY <3>2, <5>1
        <5> QED BY <3>3, <4>3, <5>1, <5>2
      <4> QED BY <4>1, <4>2, <4>3
    <3>5. f = [k \in 0..m |-> f[k]]
      OBVIOUS
    <3>6. f = [k \in 0..m |-> IF k = 0 THEN <<>> ELSE f[k - 1] \o w[k]]
      <4> HIDE DEF f
      <4> QED BY <3>4, <3>5
    <3>7. P(m)
      <4> HIDE DEF f
      <4> QED BY <3>6
    <3> QED BY <2>1, <3>7
  <2> QED BY <2>2, <2>3
<1> QED BY <1>1, <1>2

\* upTo[k] is what the first k events wake.
LEMMA WokenUpTo ==
  ASSUME NEW events \in Seq(Event)
  PROVE  \E f : /\ f[0] = <<>> /\ Woken(events) = f[Len(events)]
                /\ \A k \in 1..Len(events) : f[k] = f[k - 1] \o Walk(waiting[events[k]])
<1> DEFINE n == Len(events)
           w == [k \in 0..n |-> Walk(waiting[events[k]])]
           upTo[k \in 0..n] == IF k = 0 THEN <<>> ELSE upTo[k - 1] \o Walk(waiting[events[k]])
<1>1. n \in Nat
  BY LenProperties
<1>2. PICK g : g = [k \in 0..n |-> IF k = 0 THEN <<>> ELSE g[k - 1] \o w[k]]
  <2> HIDE DEF n, w
  <2> QED BY <1>1, ConcatenationExists
<1>3. g = [k \in 0..n |-> IF k = 0 THEN <<>> ELSE g[k - 1] \o Walk(waiting[events[k]])]
  BY <1>2
<1>4. upTo = [k \in 0..n |-> IF k = 0 THEN <<>> ELSE upTo[k - 1] \o Walk(waiting[events[k]])]
  BY <1>3 DEF upTo
<1>5. Woken(events) = upTo[n]
  BY DEF Woken, upTo
<1>6. \A k \in 0..n : upTo[k] = IF k = 0 THEN <<>> ELSE upTo[k - 1] \o Walk(waiting[events[k]])
  <2> HIDE DEF upTo, n
  <2> QED BY <1>4
<1> HIDE DEF upTo, n
<1>7. /\ upTo[0] = <<>>
      /\ \A k \in 1..n : upTo[k] = upTo[k - 1] \o Walk(waiting[events[k]])
  <2>1. 0 \in 0..n /\ \A k \in 1..n : k \in 0..n /\ k # 0
    BY <1>1
  <2> QED BY <1>6, <2>1
<1> QED BY <1>5, <1>7 DEF n

\* Threads wait in one place each, once.
WaitsOnce ==
  /\ \A e \in Event : IsInjective(waiting[e])
  /\ \A e, f \in Event : e # f => ToSet(waiting[e]) \cap ToSet(waiting[f]) = {}

Awaiting(E) == UNION {ToSet(waiting[e]) : e \in E}

\* Different events wake the threads that wait for them, each once.
LEMMA WokenElements ==
  ASSUME waiting \in [Event -> Seq(Thread)], WaitsOnce,
         NEW events \in Seq(Event), IsInjective(events)
  PROVE  /\ Woken(events) \in Seq(Thread) /\ IsInjective(Woken(events))
         /\ ToSet(Woken(events)) = Awaiting(ToSet(events))
<1> DEFINE n == Len(events)
<1>1. n \in Nat /\ \A k \in 1..n : events[k] \in Event
  BY LenProperties, ElementOfSeq
<1>2. PICK f : /\ f[0] = <<>> /\ Woken(events) = f[n]
               /\ \A k \in 1..n : f[k] = f[k - 1] \o Walk(waiting[events[k]])
  BY WokenUpTo
<1>3. /\ \A i, j \in 1..n : events[i] = events[j] => i = j
      /\ \A e : e \in ToSet(events) <=> \E i \in 1..n : events[i] = e
  BY Elements
<1> DEFINE Of(k) == UNION {ToSet(waiting[events[i]]) : i \in 1..k}
           P(k) == f[k] \in Seq(Thread) /\ IsInjective(f[k]) /\ ToSet(f[k]) = Of(k)
           T == {k \in 0..n : ~P(k)}
<1>4. P(0)
  BY <1>2, EmptyElements, EmptySeq
<1>5. ASSUME NEW k \in 1..n, P(k - 1) PROVE P(k)
  <2> DEFINE v == waiting[events[k]]
             g == f[k - 1]
  <2>1. v \in Seq(Thread) /\ IsInjective(v)
    BY <1>1 DEF WaitsOnce
  <2>2. Walk(v) \in Seq(Thread) /\ IsInjective(Walk(v)) /\ ToSet(Walk(v)) = ToSet(v)
    BY <2>1, WalkElements
  <2>3. g \in Seq(Thread) /\ IsInjective(g) /\ ToSet(g) = Of(k - 1)
    BY <1>5
  <2>4. ToSet(g) \cap ToSet(v) = {}
    <3>1. ASSUME NEW i \in 1..(k - 1) PROVE ToSet(waiting[events[i]]) \cap ToSet(v) = {}
      <4>1. i \in 1..n /\ i # k
        BY <1>1
      <4>2. events[i] # events[k] /\ events[i] \in Event /\ events[k] \in Event
        BY <1>1, <1>3, <4>1
      <4> QED BY <4>2 DEF WaitsOnce
    <3> QED BY <2>3, <3>1
  <2>5. Of(k) = Of(k - 1) \cup ToSet(v)
    <3>1. 1..k = 1..(k - 1) \cup {k}
      BY <1>1
    <3> QED BY <3>1
  <2>6. f[k] = g \o Walk(v)
    BY <1>2
  <2> HIDE DEF v, g, Of
  <2>7. /\ g \o Walk(v) \in Seq(Thread) /\ ToSet(g \o Walk(v)) = ToSet(g) \cup ToSet(Walk(v))
        /\ IsInjective(g \o Walk(v))
    BY <2>2, <2>3, <2>4, ConcatElements
  <2> QED BY <2>2, <2>3, <2>5, <2>6, <2>7
<1>6. P(n)
  <2> HIDE DEF P
  <2>1. T = {}
    <3> SUFFICES ASSUME T # {} PROVE FALSE
      OBVIOUS
    <3>1. T \subseteq Nat
      BY <1>1
    <3> HIDE DEF T
    <3>2. PICK m \in T : \A l \in T : m <= l
      BY <3>1, LeastElement
    <3>3. m \in 1..n /\ m - 1 \in 0..n /\ m - 1 < m /\ ~P(m)
      BY <1>1, <1>4, <3>2 DEF T
    <3>4. m - 1 \notin T
      BY <3>1, <3>2, <3>3
    <3>5. P(m - 1)
      BY <3>3, <3>4 DEF T
    <3> QED BY <1>5, <3>3, <3>5
  <2> QED BY <1>1, <2>1
<1>7. Of(n) = Awaiting(ToSet(events))
  <2>1. ASSUME NEW t PROVE t \in Of(n) <=> t \in Awaiting(ToSet(events))
    <3>1. t \in Of(n) <=> \E i \in 1..n : t \in ToSet(waiting[events[i]])
      OBVIOUS
    <3>2. t \in Awaiting(ToSet(events)) <=> \E e \in ToSet(events) : t \in ToSet(waiting[e])
      BY DEF Awaiting
    <3> QED BY <1>3, <3>1, <3>2
  <2> HIDE DEF Of, n
  <2> QED BY <2>1
<1> QED BY <1>2, <1>6, <1>7

-----------------------------------------------------------------------------
(* The invariant *)

QueuedMethods(q) == ToSet(q.methods_pop) \cup ToSet(q.methods_push)
QueuedThreads(q) == ToSet(q.threads_pop) \cup ToSet(q.threads_push)

\* Nobody is queued twice.
QueueOK(q) ==
  /\ q \in [methods_pop: Seq(Method), methods_push: Seq(Method),
            threads_pop: Seq(Thread), threads_push: Seq(Thread)]
  /\ IsInjective(q.methods_pop) /\ IsInjective(q.methods_push)
  /\ IsInjective(q.threads_pop) /\ IsInjective(q.threads_push)
  /\ ToSet(q.methods_pop) \cap ToSet(q.methods_push) = {}
  /\ ToSet(q.threads_pop) \cap ToSet(q.threads_push) = {}

\* A process runs, is queued or waits, and a thread does one of these.
Placed ==
  /\ QueueOK(queue)
  /\ waiting \in [Event -> Seq(Thread)] /\ WaitsOnce
  /\ Awaiting(Event) \cap QueuedThreads(queue) = {}
  /\ current \notin QueuedMethods(queue) \cup QueuedThreads(queue) \cup Awaiting(Event)
  /\ Thread \subseteq QueuedThreads(queue) \cup Awaiting(Event) \cup {current}

\* Pending notifications are where their events say they are, at time t.
EventRecord ==
  [event: [Event -> Notification], delta: Seq(Event),
   timed: SUBSET [event: Event \cup {None}, time: Nat]]

IsDelta(ev, e) == ev.event[e].type = "delta"
IsTimed(ev, e) == ev.event[e].type = "timed"

OneInPlace(ev, e, t) ==
  /\ IsDelta(ev, e) => ev.event[e].index \in 1..Len(ev.delta)
  /\ \A i \in 1..Len(ev.delta) : ev.delta[i] = e <=> IsDelta(ev, e) /\ i = ev.event[e].index
  /\ \A r \in ev.timed : r.event = e => IsTimed(ev, e) /\ r.time = ev.event[e].time
  /\ IsTimed(ev, e) => /\ [event |-> e, time |-> ev.event[e].time] \in ev.timed
                       /\ ev.event[e].time > t

InPlace(ev, t) == ev \in EventRecord /\ \A e \in Event : OneInPlace(ev, e, t)

\* The change of the signal is notified in the update phase only; the timeout of a
\* thread is pending only as long as the thread waits for it.
Owned ==
  /\ event[change].type = "none"
  /\ \A t \in Thread : event[timeout[t]].type # "none" => t \in ToSet(waiting[timeout[t]])

Clocks ==
  /\ phase \in {"stopped", "methods", "threads", "update", "timed"}
  /\ now \in 0..until_t /\ until_t \in 0..MaxTime
  /\ current \in Process \cup {None} /\ left \in 0..Budget
  /\ cur_val \in BOOLEAN /\ new_val \in BOOLEAN

IInv == Clocks /\ Placed /\ InPlace(Events, now) /\ Owned

-----------------------------------------------------------------------------
(* Queues *)

LEMMA QueuedIs == \A q : Queued(q) = QueuedMethods(q) \cup QueuedThreads(q)
BY DEF Queued, QueuedMethods, QueuedThreads

LEMMA MethodsToggled ==
  ASSUME NEW q, QueueOK(q)
  PROVE  /\ QueueOK(toggle_methods(q))
         /\ QueuedMethods(toggle_methods(q)) = QueuedMethods(q)
         /\ QueuedThreads(toggle_methods(q)) = QueuedThreads(q)
<1>1. CASE q.methods_pop # <<>>
  BY <1>1 DEF toggle_methods
<1>2. CASE q.methods_pop = <<>>
  <2>1. PICK r : r = [q EXCEPT !.methods_pop = q.methods_push, !.methods_push = <<>>]
    OBVIOUS
  <2>2. /\ r.methods_pop = q.methods_push /\ r.methods_push = <<>>
        /\ r.threads_pop = q.threads_pop /\ r.threads_push = q.threads_push
        /\ r \in [methods_pop: Seq(Method), methods_push: Seq(Method),
                  threads_pop: Seq(Thread), threads_push: Seq(Thread)]
    BY <2>1, EmptySeq DEF QueueOK
  <2>3. toggle_methods(q) = r
    BY <1>2, <2>1 DEF toggle_methods
  <2>4. ToSet(q.methods_pop) = {} /\ ToSet(r.methods_push) = {} /\ IsInjective(r.methods_push)
    BY <1>2, <2>2, EmptyElements
  <2>5. QueueOK(r)
    BY <2>2, <2>4 DEF QueueOK
  <2> QED BY <2>2, <2>3, <2>4, <2>5 DEF QueuedMethods, QueuedThreads
<1> QED BY <1>1, <1>2

LEMMA ThreadsToggled ==
  ASSUME NEW q, QueueOK(q)
  PROVE  /\ QueueOK(toggle_threads(q))
         /\ QueuedMethods(toggle_threads(q)) = QueuedMethods(q)
         /\ QueuedThreads(toggle_threads(q)) = QueuedThreads(q)
<1>1. CASE q.threads_pop # <<>>
  BY <1>1 DEF toggle_threads
<1>2. CASE q.threads_pop = <<>>
  <2>1. PICK r : r = [q EXCEPT !.threads_pop = q.threads_push, !.threads_push = <<>>]
    OBVIOUS
  <2>2. /\ r.threads_pop = q.threads_push /\ r.threads_push = <<>>
        /\ r.methods_pop = q.methods_pop /\ r.methods_push = q.methods_push
        /\ r \in [methods_pop: Seq(Method), methods_push: Seq(Method),
                  threads_pop: Seq(Thread), threads_push: Seq(Thread)]
    BY <2>1, EmptySeq DEF QueueOK
  <2>3. toggle_threads(q) = r
    BY <1>2, <2>1 DEF toggle_threads
  <2>4. ToSet(q.threads_pop) = {} /\ ToSet(r.threads_push) = {} /\ IsInjective(r.threads_push)
    BY <1>2, <2>2, EmptyElements
  <2>5. QueueOK(r)
    BY <2>2, <2>4 DEF QueueOK
  <2> QED BY <2>2, <2>3, <2>4, <2>5 DEF QueuedMethods, QueuedThreads
<1> QED BY <1>1, <1>2

LEMMA Processes ==
  /\ Thread \cap Method = {} /\ None \notin Thread \cup Method \cup Event
  /\ IsFiniteSet(Method) /\ IsFiniteSet(Thread) /\ IsFiniteSet(Event)
  /\ \A S \in SUBSET Method : IsFiniteSet(S)
  /\ \A S \in SUBSET Event : IsFiniteSet(S)
<1>1. /\ IsFiniteSet(Process) /\ IsFiniteSet(Event)
      /\ Thread \subseteq Process /\ Method \subseteq Process
  BY KernelAssumption DEF Process
<1>2. \A S \in SUBSET Process : IsFiniteSet(S)
  BY <1>1, FS_Subset
<1>3. \A S \in SUBSET Event : IsFiniteSet(S)
  BY <1>1, FS_Subset
<1> QED BY <1>1, <1>2, <1>3, KernelAssumption DEF Process

LEMMA PlacesOfProcesses ==
  ASSUME Placed
  PROVE  /\ QueuedMethods(queue) \subseteq Method /\ QueuedThreads(queue) \subseteq Thread
         /\ Awaiting(Event) \subseteq Thread
         /\ None \notin QueuedMethods(queue) \cup QueuedThreads(queue) \cup Awaiting(Event)
<1>1. /\ ToSet(queue.methods_pop) \subseteq Method /\ ToSet(queue.methods_push) \subseteq Method
      /\ ToSet(queue.threads_pop) \subseteq Thread /\ ToSet(queue.threads_push) \subseteq Thread
  BY Elements DEF Placed, QueueOK
<1>2. \A f \in Event : ToSet(waiting[f]) \subseteq Thread
  BY Elements DEF Placed
<1>3. Awaiting(Event) \subseteq Thread
  BY <1>2 DEF Awaiting
<1> QED BY <1>1, <1>3, Processes DEF QueuedMethods, QueuedThreads

-----------------------------------------------------------------------------
(* Triggering a sequence of different events *)

LEMMA Triggers ==
  ASSUME Placed, NEW events \in Seq(Event), IsInjective(events)
  PROVE  /\ QueueOK(Trigger(events, current))
         /\ QueuedMethods(Trigger(events, current))
              = QueuedMethods(queue)
                \cup {m \in Method \ {current} : Sensitive[m] \cap ToSet(events) # {}}
         /\ QueuedThreads(Trigger(events, current))
              = QueuedThreads(queue) \cup Awaiting(ToSet(events))
<1> DEFINE methods == {m \in Method \ ({current} \cup Queued(queue)) :
                         Sensitive[m] \cap ToSet(events) # {}}
           ms == SetToSeq(methods)
           ts == Woken(events)
<1>1. /\ ms \in Seq(methods) /\ IsInjective(ms) /\ ToSet(ms) = methods
  BY Processes, SetToSeqElements
<1>2. /\ ts \in Seq(Thread) /\ IsInjective(ts) /\ ToSet(ts) = Awaiting(ToSet(events))
  BY WokenElements DEF Placed
<1>3. /\ methods \subseteq Method /\ current \notin methods
      /\ methods \cap ToSet(queue.methods_pop) = {} /\ methods \cap ToSet(queue.methods_push) = {}
  BY DEF Queued
<1>4. ToSet(events) \subseteq Event
  BY Elements
<1>5. PICK q : q = Trigger(events, current)
  OBVIOUS
<1>6. q = [queue EXCEPT !.methods_push = @ \o ms, !.threads_push = @ \o ts]
  BY <1>5 DEF Trigger
<1>7. ms \in Seq(Method)
  BY <1>1, <1>3, SeqMonotonic
<1> HIDE DEF ms, ts, methods
<1>8. /\ QueueOK(queue) /\ queue.methods_push \in Seq(Method) /\ queue.threads_push \in Seq(Thread)
  BY DEF Placed, QueueOK
<1>9. /\ queue.methods_push \o ms \in Seq(Method)
      /\ ToSet(queue.methods_push \o ms) = ToSet(queue.methods_push) \cup methods
      /\ IsInjective(queue.methods_push \o ms)
  BY <1>1, <1>3, <1>7, <1>8, ConcatElements DEF QueueOK
<1>10. ToSet(ts) \cap QueuedThreads(queue) = {}
  BY <1>2, <1>4 DEF Placed, Awaiting
<1>11. /\ queue.threads_push \o ts \in Seq(Thread)
       /\ ToSet(queue.threads_push \o ts) = ToSet(queue.threads_push) \cup ToSet(ts)
       /\ IsInjective(queue.threads_push \o ts)
  BY <1>2, <1>8, <1>10, ConcatElements DEF QueueOK, QueuedThreads
<1>12. /\ q.methods_pop = queue.methods_pop /\ q.threads_pop = queue.threads_pop
       /\ q.methods_push = queue.methods_push \o ms
       /\ q.threads_push = queue.threads_push \o ts
       /\ q \in [methods_pop: Seq(Method), methods_push: Seq(Method),
                 threads_pop: Seq(Thread), threads_push: Seq(Thread)]
  BY <1>6, <1>8, <1>9, <1>11 DEF QueueOK
<1>13. QueueOK(q)
  BY <1>3, <1>8, <1>9, <1>10, <1>11, <1>12 DEF QueueOK, QueuedThreads
<1>14. QueuedThreads(q) = QueuedThreads(queue) \cup Awaiting(ToSet(events))
  BY <1>2, <1>11, <1>12 DEF QueuedThreads
<1>15. QueuedMethods(q)
         = QueuedMethods(queue)
           \cup {m \in Method \ {current} : Sensitive[m] \cap ToSet(events) # {}}
  <2>1. QueuedMethods(q) = QueuedMethods(queue) \cup methods
    BY <1>9, <1>12 DEF QueuedMethods
  <2>2. Queued(queue) \cap Method = QueuedMethods(queue)
    BY QueuedIs, Processes, PlacesOfProcesses
  <2> QED BY <2>1, <2>2 DEF methods
<1> QED BY <1>5, <1>13, <1>14, <1>15

LEMMA Wakes ==
  ASSUME waiting \in [Event -> Seq(Thread)], WaitsOnce, NEW events \in Seq(Event),
         NoLongerWaiting(events)
  PROVE  /\ waiting' \in [Event -> Seq(Thread)] /\ WaitsOnce'
         /\ Awaiting(Event)' \cup Awaiting(ToSet(events)) = Awaiting(Event)
         /\ Awaiting(Event)' \cap Awaiting(ToSet(events)) = {}
         /\ \A e \in Event : e \notin ToSet(events) => waiting'[e] = waiting[e]
<1>1. ToSet(events) \subseteq Event
  BY Elements
<1>2. \A e \in Event : waiting'[e] = IF e \in ToSet(events) THEN <<>> ELSE waiting[e]
  BY DEF NoLongerWaiting
<1>3. waiting' \in [Event -> Seq(Thread)]
  BY EmptySeq DEF NoLongerWaiting
<1>4. \A e \in Event : ToSet(waiting'[e]) = IF e \in ToSet(events) THEN {} ELSE ToSet(waiting[e])
  BY <1>2, EmptyElements
<1>5. WaitsOnce'
  BY <1>2, <1>4, EmptyElements DEF WaitsOnce
<1>6. Awaiting(Event)' = UNION {ToSet(waiting'[e]) : e \in Event}
  BY DEF Awaiting
<1>7. ASSUME NEW t PROVE t \in Awaiting(Event)' <=> \E e \in Event : t \in ToSet(waiting'[e])
  BY <1>6
<1>8. ASSUME NEW t, NEW E PROVE t \in Awaiting(E) <=> \E e \in E : t \in ToSet(waiting[e])
  BY DEF Awaiting
<1>9. ASSUME NEW t
      PROVE  /\ t \in Awaiting(Event)' \/ t \in Awaiting(ToSet(events)) <=> t \in Awaiting(Event)
             /\ ~(t \in Awaiting(Event)' /\ t \in Awaiting(ToSet(events)))
  <2>1. t \in Awaiting(Event)' <=> \E e \in Event \ ToSet(events) : t \in ToSet(waiting[e])
    BY <1>4, <1>7
  <2>2. t \in Awaiting(ToSet(events)) <=> \E e \in ToSet(events) : t \in ToSet(waiting[e])
    BY <1>8
  <2>3. t \in Awaiting(Event) <=> \E e \in Event : t \in ToSet(waiting[e])
    BY <1>8
  <2>4. t \in Awaiting(Event)' \/ t \in Awaiting(ToSet(events)) <=> t \in Awaiting(Event)
    BY <1>1, <2>1, <2>2, <2>3
  <2>5. ~(t \in Awaiting(Event)' /\ t \in Awaiting(ToSet(events)))
    <3> SUFFICES ASSUME t \in Awaiting(Event)', t \in Awaiting(ToSet(events)) PROVE FALSE
      OBVIOUS
    <3>1. PICK e \in Event \ ToSet(events) : t \in ToSet(waiting[e])
      BY <2>1
    <3>2. PICK f \in ToSet(events) : t \in ToSet(waiting[f])
      BY <2>2
    <3> QED BY <1>1, <3>1, <3>2 DEF WaitsOnce
  <2> QED BY <2>4, <2>5
<1> QED BY <1>2, <1>3, <1>5, <1>9

\* An immediate notification, the notification phase and a step of the time trigger.
LEMMA TriggeredPlaced ==
  ASSUME Placed, NEW events \in Seq(Event), IsInjective(events),
         queue' \in {Trigger(events, current), toggle_methods(Trigger(events, current))},
         NoLongerWaiting(events), UNCHANGED current
  PROVE  /\ Placed'
         /\ \A e \in Event : e \notin ToSet(events) => waiting'[e] = waiting[e]
<1> DEFINE q == Trigger(events, current)
<1>1. /\ QueueOK(q) /\ current \notin QueuedMethods(q)
      /\ QueuedThreads(q) = QueuedThreads(queue) \cup Awaiting(ToSet(events))
  BY Triggers DEF Placed
<1>2. /\ waiting' \in [Event -> Seq(Thread)] /\ WaitsOnce'
      /\ Awaiting(Event)' \cup Awaiting(ToSet(events)) = Awaiting(Event)
      /\ Awaiting(Event)' \cap Awaiting(ToSet(events)) = {}
      /\ \A e \in Event : e \notin ToSet(events) => waiting'[e] = waiting[e]
  BY Wakes DEF Placed
<1>3. queue' \in {q, toggle_methods(q)}
  OBVIOUS
<1> HIDE DEF q
<1>4. /\ QueueOK(queue') /\ QueuedMethods(queue') = QueuedMethods(q)
      /\ QueuedThreads(queue') = QueuedThreads(q)
  BY <1>1, <1>3, MethodsToggled
<1>5. Placed'
  BY <1>1, <1>2, <1>4 DEF Placed
<1> QED BY <1>2, <1>5

\* Thread t waits for event e.
LEMMA WaitPlaced ==
  ASSUME Placed, NEW t \in Thread, current = t, NEW e \in Event,
         waiting' = [waiting EXCEPT ![e] = Append(@, t)], current' = None, UNCHANGED queue
  PROVE  /\ Placed'
         /\ ToSet(waiting[e])' = ToSet(waiting[e]) \cup {t}
         /\ \A f \in Event : f # e => waiting'[f] = waiting[f]
<1>1. waiting[e] \in Seq(Thread) /\ IsInjective(waiting[e]) /\ t \notin ToSet(waiting[e])
  BY DEF Placed, WaitsOnce, Awaiting
<1>2. /\ waiting'[e] = Append(waiting[e], t)
      /\ \A f \in Event : f # e => waiting'[f] = waiting[f]
      /\ waiting[e] \in Seq(Thread)
  BY DEF Placed
<1>3. /\ waiting'[e] \in Seq(Thread) /\ ToSet(waiting'[e]) = ToSet(waiting[e]) \cup {t}
      /\ IsInjective(waiting'[e])
  BY <1>1, <1>2, AppendElements
<1>4. waiting' \in [Event -> Seq(Thread)]
  BY <1>1, <1>2, <1>3 DEF Placed
<1>5. \A f \in Event : t \notin ToSet(waiting[f])
  BY DEF Placed, Awaiting
<1>6. WaitsOnce'
  BY <1>2, <1>3, <1>5 DEF Placed, WaitsOnce
<1>7. Awaiting(Event)' = Awaiting(Event) \cup {t}
  <2>1. ASSUME NEW u PROVE u \in Awaiting(Event)' <=> \E f \in Event : u \in ToSet(waiting'[f])
    BY DEF Awaiting
  <2>2. ASSUME NEW u PROVE u \in Awaiting(Event) <=> \E f \in Event : u \in ToSet(waiting[f])
    BY DEF Awaiting
  <2>3. ASSUME NEW u
        PROVE  (\E f \in Event : u \in ToSet(waiting'[f]))
                 <=> u = t \/ \E f \in Event : u \in ToSet(waiting[f])
    <3>1. CASE u = t
      BY <1>3, <3>1
    <3>2. CASE u # t
      <4>1. \A f \in Event : u \in ToSet(waiting'[f]) <=> u \in ToSet(waiting[f])
        BY <1>2, <1>3, <3>2
      <4> QED BY <3>2, <4>1
    <3> QED BY <3>1, <3>2
  <2> QED BY <2>1, <2>2, <2>3
<1>8. /\ QueueOK(queue') /\ QueuedMethods(queue') = QueuedMethods(queue)
      /\ QueuedThreads(queue') = QueuedThreads(queue)
  BY DEF Placed
<1>9. None \notin QueuedMethods(queue) \cup QueuedThreads(queue) \cup Awaiting(Event) \cup {t}
  <2>1. ToSet(queue.methods_pop) \subseteq Method /\ ToSet(queue.methods_push) \subseteq Method
        /\ ToSet(queue.threads_pop) \subseteq Thread /\ ToSet(queue.threads_push) \subseteq Thread
    BY Elements DEF Placed, QueueOK
  <2>2. \A f \in Event : ToSet(waiting[f]) \subseteq Thread
    BY Elements DEF Placed
  <2>3. Awaiting(Event) \subseteq Thread
    BY <2>2 DEF Awaiting
  <2> QED BY <2>1, <2>3, Processes DEF QueuedMethods, QueuedThreads
<1>10. Placed'
  BY <1>4, <1>6, <1>7, <1>8, <1>9 DEF Placed
<1> QED BY <1>2, <1>3, <1>10

-----------------------------------------------------------------------------
(* The notifications that are pending *)

\* All events but e are pending as before.
Others(ev, new, e) ==
  \A x \in Event : x # e => /\ new.event[x].type = ev.event[x].type
                            /\ new.event[x].time = ev.event[x].time

LEMMA NoneType ==
  /\ None0 \in Notification /\ None0.type = "none"
  /\ \A n \in Notification : /\ n.index \in Int /\ n.type \in {"none", "delta", "timed"}
                             /\ [n EXCEPT !.index = 1].type = n.type
  /\ \A n \in Notification : \A i \in Int :
       /\ [n EXCEPT !.index = i] \in Notification
       /\ [n EXCEPT !.index = i].type = n.type /\ [n EXCEPT !.index = i].time = n.time
       /\ [n EXCEPT !.index = i].index = i
BY DEF None0, Notification

\* A new list of delta notifications with its indices, the timed ones left alone.
LEMMA RemoveDelta ==
  ASSUME NEW ev, NEW t \in Nat, InPlace(ev, t), NEW e \in Event, IsDelta(ev, e),
         NEW new, new = remove_delta_event(ev, e)
  PROVE  InPlace(new, t) /\ new.event[e] = None0 /\ Others(ev, new, e)
<1> DEFINE d == ev.delta
           n == Len(d)
           i == ev.event[e].index
           last == d[n]
           moved == IF last = e THEN d ELSE [d EXCEPT ![i] = last]
<1>1. /\ d \in Seq(Event) /\ n \in Nat /\ ev.event \in [Event -> Notification]
      /\ ev.timed \in SUBSET [event: Event \cup {None}, time: Nat]
  BY LenProperties DEF InPlace, OneInPlace, EventRecord
<1>2. i \in 1..n /\ n \in 1..n /\ d[i] = e /\ last \in Event
  <2>1. i \in 1..n
    BY DEF InPlace, OneInPlace
  <2>2. n \in 1..n
    BY <1>1, <2>1
  <2>3. d[i] = e
    BY <2>1 DEF InPlace, OneInPlace
  <2> QED BY <1>1, <2>1, <2>2, <2>3, ElementOfSeq
<1>3. IsDelta(ev, last) /\ ev.event[last].index = n
  <2>1. ASSUME NEW x \in Event
        PROVE  \A k \in 1..n : d[k] = x <=> IsDelta(ev, x) /\ k = ev.event[x].index
    BY DEF InPlace, OneInPlace
  <2> HIDE DEF d, n
  <2> QED BY <1>2, <2>1
<1>4. /\ moved \in Seq(Event) /\ Len(moved) = n
      /\ \A k \in 1..(n - 1) : moved[k] = IF k = i THEN last ELSE d[k]
  <2>1. CASE last = e
    <3>1. i = n
      BY <1>3, <2>1
    <3> QED BY <1>1, <2>1, <3>1
  <2>2. CASE last # e
    <3>1. [d EXCEPT ![i] = last] \in Seq(Event) /\ Len([d EXCEPT ![i] = last]) = n
          /\ \A k \in 1..n : [d EXCEPT ![i] = last][k] = IF k = i THEN last ELSE d[k]
      BY <1>1, <1>2, ExceptSeq
    <3> QED BY <1>1, <2>2, <3>1
  <2> QED BY <2>1, <2>2
<1>5. new = [ev EXCEPT !.delta = Front(moved), !.event[last].index = i, !.event[e] = None0]
  BY DEF remove_delta_event, Last
<1> HIDE DEF moved
<1>6. /\ Front(moved) \in Seq(Event) /\ Len(Front(moved)) = n - 1
      /\ \A k \in 1..(n - 1) : Front(moved)[k] = IF k = i THEN last ELSE d[k]
  <2> DEFINE f == SubSeq(moved, 1, n - 1)
  <2>1. Front(moved) = f /\ \A k \in 1..(n - 1) : moved[k] \in Event
    <3>1. \A k \in 1..(n - 1) : k \in 1..n
      BY <1>1
    <3> QED BY <1>4, <3>1, ElementOfSeq DEF Front
  <2>2. /\ f \in Seq(Event) /\ Len(f) = (IF 1 <= n - 1 THEN (n - 1) - 1 + 1 ELSE 0)
        /\ \A k \in 1..((n - 1) - 1 + 1) : f[k] = moved[1 + k - 1]
    <3>1. 1 \in Int /\ n - 1 \in Int
      BY <1>1
    <3> QED BY <2>1, <3>1, SubSeqProperties
  <2> HIDE DEF f
  <2>3. Len(f) = n - 1
    BY <1>1, <1>2, <2>2
  <2>4. ASSUME NEW k \in 1..(n - 1) PROVE f[k] = moved[k]
    <3>1. k \in 1..((n - 1) - 1 + 1) /\ 1 + k - 1 = k
      BY <1>1
    <3> QED BY <2>2, <3>1
  <2> QED BY <1>4, <2>1, <2>2, <2>3, <2>4
<1> DEFINE g == [ev.event EXCEPT ![last].index = i]
           h == [g EXCEPT ![e] = None0]
<1>7. /\ ev \in EventRecord
      /\ new.delta = Front(moved) /\ new.event = h /\ new.timed = ev.timed
      /\ new = [event |-> h, delta |-> Front(moved), timed |-> ev.timed]
  BY <1>5 DEF InPlace, OneInPlace, EventRecord
<1>8. g = [ev.event EXCEPT ![last] = [ev.event[last] EXCEPT !.index = i]]
  BY <1>1, <1>2
<1>9. /\ g \in [Event -> Notification]
      /\ g[last].index = i /\ g[last].type = ev.event[last].type
      /\ g[last].time = ev.event[last].time
      /\ \A x \in Event : x # last => g[x] = ev.event[x]
  <2>1. ev.event[last] \in Notification /\ i \in Int
    BY <1>1, <1>2
  <2> HIDE DEF i, g
  <2> QED BY <1>1, <1>2, <1>8, <2>1, NoneType
<1> HIDE DEF g
<1>10. /\ h \in [Event -> Notification] /\ h[e] = None0
       /\ \A x \in Event : x # e => h[x] = g[x]
  BY <1>9, NoneType
<1> HIDE DEF h
<1>11. new \in EventRecord
  BY <1>1, <1>6, <1>7, <1>10 DEF EventRecord
<1>12. \A x \in Event : x # e => /\ h[x].type = ev.event[x].type /\ h[x].time = ev.event[x].time
                                 /\ h[x].index = IF x = last THEN i ELSE ev.event[x].index
  BY <1>9, <1>10
<1>13. ASSUME NEW x \in Event
       PROVE  /\ IsDelta(new, x) => new.event[x].index \in 1..Len(new.delta)
              /\ \A k \in 1..Len(new.delta) :
                   new.delta[k] = x <=> IsDelta(new, x) /\ k = new.event[x].index
              /\ \A r \in new.timed : r.event = x => IsTimed(new, x) /\ r.time = new.event[x].time
              /\ IsTimed(new, x) => /\ [event |-> x, time |-> new.event[x].time] \in new.timed
                                    /\ new.event[x].time > t
  <2>0. /\ IsDelta(ev, x) => ev.event[x].index \in 1..n
        /\ \A k \in 1..n : d[k] = x <=> IsDelta(ev, x) /\ k = ev.event[x].index
        /\ \A r \in ev.timed : r.event = x => IsTimed(ev, x) /\ r.time = ev.event[x].time
        /\ IsTimed(ev, x) => /\ [event |-> x, time |-> ev.event[x].time] \in ev.timed
                             /\ ev.event[x].time > t
    BY DEF InPlace, OneInPlace
  <2>1. /\ IsDelta(new, x) <=> h[x].type = "delta"
        /\ IsTimed(new, x) <=> h[x].type = "timed"
        /\ Len(new.delta) = n - 1
        /\ \A k \in 1..(n - 1) : k \in 1..n /\ k # n /\ new.delta[k] = IF k = i THEN last ELSE d[k]
    BY <1>1, <1>6, <1>7 DEF IsDelta, IsTimed
  <2> HIDE DEF i, last, n, d
  <2>2. CASE x = e
    <3>1. h[x].type = "none" /\ ~IsTimed(ev, x)
      BY <1>10, <2>2, NoneType DEF IsDelta, IsTimed
    <3>2. ASSUME NEW k \in 1..(n - 1) PROVE new.delta[k] # x
      <4>1. CASE k = i
        <5>1. last # e
          BY <1>3, <2>1, <4>1 DEF i
        <5> QED BY <2>1, <2>2, <4>1, <5>1
      <4>2. CASE k # i
        BY <2>0, <2>1, <2>2, <4>2 DEF i
      <4> QED BY <4>1, <4>2
    <3> QED BY <1>7, <2>0, <2>1, <3>1, <3>2
  <2>3. CASE x # e /\ x = last
    <3>1. h[x].type = "delta" /\ h[x].index = i /\ ~IsTimed(ev, x)
      BY <1>3, <1>12, <2>3 DEF IsDelta, IsTimed
    <3>2. i # n
      BY <1>2, <2>3 DEF last
    <3>3. i \in 1..(n - 1)
      BY <1>1, <1>2, <3>2
    <3>4. ASSUME NEW k \in 1..(n - 1) PROVE new.delta[k] = x <=> k = i
      BY <1>3, <2>0, <2>1, <2>3
    <3> QED BY <1>7, <2>0, <2>1, <3>1, <3>3, <3>4
  <2>4. CASE x # e /\ x # last
    <3>1. h[x].type = ev.event[x].type /\ h[x].index = ev.event[x].index
          /\ h[x].time = ev.event[x].time
      BY <1>12, <2>4
    <3>2. IsDelta(ev, x) => ev.event[x].index # n /\ ev.event[x].index # i
      BY <1>2, <2>0, <2>4 DEF last
    <3>3. IsDelta(ev, x) => ev.event[x].index \in 1..(n - 1)
      BY <1>1, <2>0, <3>2
    <3>4. ASSUME NEW k \in 1..(n - 1)
          PROVE new.delta[k] = x <=> IsDelta(ev, x) /\ k = ev.event[x].index
      BY <2>0, <2>1, <2>4, <3>2
    <3> QED BY <1>7, <2>0, <2>1, <3>1, <3>3, <3>4 DEF IsDelta, IsTimed
  <2> QED BY <2>2, <2>3, <2>4
<1>14. InPlace(new, t)
  BY <1>11, <1>13 DEF InPlace, OneInPlace
<1> QED BY <1>7, <1>10, <1>12, <1>14 DEF Others

LEMMA EventParts ==
  ASSUME NEW ev \in EventRecord
  PROVE  /\ ev.event \in [Event -> Notification] /\ ev.delta \in Seq(Event)
         /\ ev.timed \in SUBSET [event: Event \cup {None}, time: Nat]
         /\ \A e \in Event : ev.event[e] \in Notification
BY DEF EventRecord

LEMMA RemoveTimed ==
  ASSUME NEW ev, NEW t \in Nat, InPlace(ev, t), NEW e \in Event, IsTimed(ev, e),
         NEW new, new = remove_timed(ev, e)
  PROVE  InPlace(new, t) /\ new.event[e] = None0 /\ Others(ev, new, e)
<1> DEFINE tt == ev.event[e].time
           r0 == [event |-> e, time |-> tt]
           rn == [event |-> None, time |-> tt]
           h == [ev.event EXCEPT ![e] = None0]
<1>1. ev \in EventRecord /\ \A x \in Event : OneInPlace(ev, x, t)
  BY DEF InPlace
<1>2. /\ ev.event \in [Event -> Notification] /\ ev.delta \in Seq(Event)
      /\ ev.timed \in SUBSET [event: Event \cup {None}, time: Nat]
  BY <1>1, EventParts
<1>3. r0 \in ev.timed /\ tt \in Nat /\ rn \in [event: Event \cup {None}, time: Nat]
  <2>1. r0 \in ev.timed
    BY <1>1 DEF OneInPlace
  <2>2. r0 \in [event: Event \cup {None}, time: Nat]
    BY <1>2, <2>1
  <2>3. tt \in Nat
    BY <2>2
  <2> QED BY <2>1, <2>3
<1>4. /\ new = [ev EXCEPT !.timed = (@ \ {r0}) \cup {rn}, !.event[e] = None0]
  BY DEF remove_timed
<1>5. /\ new.timed = (ev.timed \ {r0}) \cup {rn} /\ new.delta = ev.delta /\ new.event = h
      /\ new = [event |-> h, delta |-> ev.delta, timed |-> (ev.timed \ {r0}) \cup {rn}]
  BY <1>1, <1>4 DEF EventRecord
<1>6. /\ h \in [Event -> Notification] /\ h[e] = None0
      /\ \A x \in Event : x # e => h[x] = ev.event[x]
  BY <1>2, NoneType
<1> HIDE DEF h
<1>7. new \in EventRecord
  <2>1. (ev.timed \ {r0}) \cup {rn} \in SUBSET [event: Event \cup {None}, time: Nat]
    BY <1>2, <1>3
  <2> HIDE DEF r0, rn
  <2> QED BY <1>2, <1>5, <1>6, <2>1 DEF EventRecord
<1>8. ASSUME NEW x \in Event PROVE OneInPlace(new, x, t)
  <2>1. OneInPlace(ev, x, t) /\ None # x
    BY <1>1, Processes
  <2>2. CASE x = e
    <3>1. new.event[x].type = "none" /\ ~IsTimed(new, x) /\ ~IsDelta(new, x) /\ ~IsDelta(ev, x)
      BY <1>5, <1>6, <2>2, NoneType DEF IsDelta, IsTimed
    <3>2. \A k \in 1..Len(new.delta) : new.delta[k] # x
      BY <1>5, <2>1, <3>1 DEF OneInPlace
    <3>3. ASSUME NEW r \in new.timed, r.event = x PROVE FALSE
      <4>1. CASE r = rn
        BY <2>1, <3>3, <4>1
      <4>2. CASE r \in ev.timed /\ r # r0
        <5>1. r.time = tt /\ r \in [event: Event \cup {None}, time: Nat]
          BY <1>2, <2>1, <2>2, <3>3, <4>2 DEF OneInPlace
        <5>2. r = r0
          BY <2>2, <3>3, <5>1
        <5> QED BY <4>2, <5>2
      <4> QED BY <1>5, <3>3, <4>1, <4>2
    <3> QED BY <3>1, <3>2, <3>3 DEF OneInPlace
  <2>3. CASE x # e
    <3>1. /\ new.event[x] = ev.event[x]
          /\ IsDelta(new, x) <=> IsDelta(ev, x)
          /\ IsTimed(new, x) <=> IsTimed(ev, x)
      BY <1>5, <1>6, <2>3 DEF IsDelta, IsTimed
    <3>2. ASSUME NEW r \in new.timed, r.event = x PROVE r \in ev.timed
      <4>1. r # rn
        BY <2>1, <3>2
      <4> QED BY <1>5, <3>2, <4>1
    <3>3. ASSUME IsTimed(ev, x)
          PROVE  [event |-> x, time |-> new.event[x].time] \in new.timed
      <4>1. [event |-> x, time |-> ev.event[x].time] \in ev.timed
        BY <2>1, <3>3 DEF OneInPlace
      <4>2. [event |-> x, time |-> ev.event[x].time] # r0
        BY <2>3
      <4> QED BY <1>5, <3>1, <4>1, <4>2
    <3> QED BY <1>5, <2>1, <3>1, <3>2, <3>3 DEF OneInPlace
  <2> QED BY <2>2, <2>3
<1>9. InPlace(new, t)
  BY <1>7, <1>8 DEF InPlace
<1>10. Others(ev, new, e)
  BY <1>5, <1>6 DEF Others
<1> QED BY <1>5, <1>6, <1>9, <1>10

LEMMA Cancel ==
  ASSUME NEW ev, NEW t \in Nat, InPlace(ev, t), NEW e \in Event,
         NEW new, new = cancel(ev, e)
  PROVE  InPlace(new, t) /\ new.event[e].type = "none" /\ Others(ev, new, e)
<1>1. CASE IsDelta(ev, e)
  <2>1. new = remove_delta_event(ev, e)
    BY <1>1 DEF cancel, IsDelta
  <2> QED BY <1>1, <2>1, RemoveDelta, NoneType
<1>2. CASE IsTimed(ev, e)
  <2>1. new = remove_timed(ev, e)
    BY <1>2 DEF cancel, IsTimed
  <2> QED BY <1>2, <2>1, RemoveTimed, NoneType
<1>3. CASE ~IsDelta(ev, e) /\ ~IsTimed(ev, e)
  <2>1. new = ev
    BY <1>3 DEF cancel, IsDelta, IsTimed
  <2>2. ev.event[e] \in Notification
    BY EventParts DEF InPlace
  <2> QED BY <1>3, <2>1, <2>2, NoneType DEF Others, IsDelta, IsTimed
<1> QED BY <1>1, <1>2, <1>3

LEMMA AddDelta ==
  ASSUME NEW ev, NEW t \in Nat, InPlace(ev, t), NEW e \in Event, ev.event[e].type = "none",
         NEW new, new = add_delta_event(ev, e)
  PROVE  /\ InPlace(new, t) /\ new.event[e].type = "delta" /\ Others(ev, new, e)
         /\ new.timed = ev.timed /\ \A x \in Event : x # e => new.event[x] = ev.event[x]
<1> DEFINE d == ev.delta
           n == Len(d)
           m == [type |-> "delta", index |-> n + 1, time |-> None]
           h == [ev.event EXCEPT ![e] = m]
<1>1. ev \in EventRecord /\ \A x \in Event : OneInPlace(ev, x, t)
  BY DEF InPlace
<1>2. /\ ev.event \in [Event -> Notification] /\ d \in Seq(Event) /\ n \in Nat
      /\ ev.timed \in SUBSET [event: Event \cup {None}, time: Nat]
  BY <1>1, EventParts, LenProperties
<1>3. m \in Notification /\ m.type = "delta" /\ m.index = n + 1
  BY <1>2 DEF Notification
<1>4. new = [ev EXCEPT !.delta = Append(@, e), !.event[e] = m]
  BY DEF add_delta_event
<1> HIDE DEF m
<1>5. /\ new.timed = ev.timed /\ new.delta = Append(d, e) /\ new.event = h
      /\ new = [event |-> h, delta |-> Append(d, e), timed |-> ev.timed]
  BY <1>1, <1>4 DEF EventRecord
<1>6. /\ h \in [Event -> Notification] /\ h[e] = m
      /\ \A x \in Event : x # e => h[x] = ev.event[x]
  BY <1>2, <1>3
<1> HIDE DEF h
<1>7. /\ Append(d, e) \in Seq(Event) /\ Len(new.delta) = n + 1 /\ new.delta[n + 1] = e
      /\ \A k \in 1..n : new.delta[k] = d[k]
  BY <1>2, <1>5, AppendProperties
<1>8. new \in EventRecord
  BY <1>2, <1>5, <1>6, <1>7 DEF EventRecord
<1>9. ASSUME NEW x \in Event PROVE OneInPlace(new, x, t)
  <2>1. /\ IsDelta(ev, x) => ev.event[x].index \in 1..n
        /\ \A i \in 1..n : d[i] = x <=> IsDelta(ev, x) /\ i = ev.event[x].index
        /\ \A r \in ev.timed : r.event = x => IsTimed(ev, x) /\ r.time = ev.event[x].time
        /\ IsTimed(ev, x) => /\ [event |-> x, time |-> ev.event[x].time] \in ev.timed
                             /\ ev.event[x].time > t
    BY <1>1 DEF OneInPlace
  <2> HIDE DEF n, d
  <2>2. CASE x = e
    <3>1. IsDelta(new, x) /\ ~IsTimed(new, x) /\ new.event[x].index = n + 1
          /\ ~IsDelta(ev, x) /\ ~IsTimed(ev, x)
      BY <1>3, <1>5, <1>6, <2>2 DEF IsDelta, IsTimed
    <3>2. ASSUME NEW k \in 1..(n + 1) PROVE new.delta[k] = x <=> k = n + 1
      BY <1>2, <1>7, <2>1, <2>2, <3>1
    <3>3. n + 1 \in 1..(n + 1)
      BY <1>2
    <3> QED BY <1>5, <1>7, <2>1, <3>1, <3>2, <3>3 DEF OneInPlace
  <2>3. CASE x # e
    <3>1. /\ new.event[x] = ev.event[x]
          /\ IsDelta(new, x) <=> IsDelta(ev, x)
          /\ IsTimed(new, x) <=> IsTimed(ev, x)
      BY <1>5, <1>6, <2>3 DEF IsDelta, IsTimed
    <3>2. ASSUME NEW k \in 1..(n + 1)
          PROVE  new.delta[k] = x <=> IsDelta(ev, x) /\ k = ev.event[x].index
      BY <1>2, <1>7, <2>1, <2>3
    <3>3. IsDelta(ev, x) => ev.event[x].index \in 1..(n + 1)
      BY <1>2, <2>1
    <3> QED BY <1>5, <1>7, <2>1, <3>1, <3>2, <3>3 DEF OneInPlace
  <2> QED BY <2>2, <2>3
<1>10. InPlace(new, t)
  BY <1>8, <1>9 DEF InPlace
<1> QED BY <1>3, <1>5, <1>6, <1>10 DEF Others

LEMMA AddTimed ==
  ASSUME NEW ev, NEW t \in Nat, InPlace(ev, t), NEW e \in Event, ev.event[e].type = "none",
         NEW tt \in Nat, tt > t, NEW new, new = add_timed_event(ev, e, tt)
  PROVE  /\ InPlace(new, t) /\ Others(ev, new, e)
         /\ new.event[e].type = "timed" /\ new.event[e].time = tt
<1> DEFINE r0 == [event |-> e, time |-> tt]
           m == [type |-> "timed", index |-> -1, time |-> tt]
           h == [ev.event EXCEPT ![e] = m]
<1>1. ev \in EventRecord /\ \A x \in Event : OneInPlace(ev, x, t)
  BY DEF InPlace
<1>2. /\ ev.event \in [Event -> Notification] /\ ev.delta \in Seq(Event)
      /\ ev.timed \in SUBSET [event: Event \cup {None}, time: Nat]
      /\ r0 \in [event: Event \cup {None}, time: Nat] /\ r0.event = e /\ r0.time = tt
  BY <1>1, EventParts
<1>3. m \in Notification /\ m.type = "timed" /\ m.time = tt
  BY DEF Notification
<1>4. new = [ev EXCEPT !.timed = @ \cup {r0}, !.event[e] = m]
  BY DEF add_timed_event
<1> HIDE DEF m
<1>5. /\ new.timed = ev.timed \cup {r0} /\ new.delta = ev.delta /\ new.event = h
      /\ new = [event |-> h, delta |-> ev.delta, timed |-> ev.timed \cup {r0}]
  BY <1>1, <1>4 DEF EventRecord
<1>6. /\ h \in [Event -> Notification] /\ h[e] = m
      /\ \A x \in Event : x # e => h[x] = ev.event[x]
  BY <1>2, <1>3
<1> HIDE DEF h
<1>7. new \in EventRecord
  <2>1. ev.timed \cup {r0} \in SUBSET [event: Event \cup {None}, time: Nat]
    BY <1>2
  <2> HIDE DEF r0
  <2> QED BY <1>2, <1>5, <1>6, <2>1 DEF EventRecord
<1>8. ASSUME NEW x \in Event PROVE OneInPlace(new, x, t)
  <2>1. OneInPlace(ev, x, t)
    BY <1>1
  <2>2. CASE x = e
    <3>1. IsTimed(new, x) /\ ~IsDelta(new, x) /\ new.event[x].time = tt
          /\ ~IsDelta(ev, x) /\ ~IsTimed(ev, x)
      BY <1>3, <1>5, <1>6, <2>2 DEF IsDelta, IsTimed
    <3>2. \A r \in new.timed : r.event = x => r.time = tt
      BY <1>2, <1>5, <2>1, <3>1 DEF OneInPlace
    <3>3. [event |-> x, time |-> new.event[x].time] \in new.timed
      BY <1>5, <2>2, <3>1
    <3>4. \A k \in 1..Len(new.delta) : new.delta[k] # x
      BY <1>5, <2>1, <3>1 DEF OneInPlace
    <3> QED BY <3>1, <3>2, <3>3, <3>4 DEF OneInPlace
  <2>3. CASE x # e
    <3>1. /\ new.event[x] = ev.event[x]
          /\ IsDelta(new, x) <=> IsDelta(ev, x)
          /\ IsTimed(new, x) <=> IsTimed(ev, x)
      BY <1>5, <1>6, <2>3 DEF IsDelta, IsTimed
    <3>2. \A r \in new.timed : r.event = x => r \in ev.timed
      BY <1>2, <1>5, <2>3
    <3> QED BY <1>5, <2>1, <3>1, <3>2 DEF OneInPlace
  <2> QED BY <2>2, <2>3
<1>9. InPlace(new, t)
  BY <1>7, <1>8 DEF InPlace
<1> QED BY <1>3, <1>5, <1>6, <1>9 DEF Others

LEMMA NotifyInternal ==
  ASSUME now \in Nat, NEW ev, InPlace(ev, now), NEW e \in Event, ev.event[e].type = "none",
         NEW d \in Nat, NEW new, new = notify_internal(ev, e, d)
  PROVE  /\ InPlace(new, now) /\ Others(ev, new, e)
         /\ IF d = 0 THEN new.event[e].type = "delta"
            ELSE new.event[e].type = "timed" /\ new.event[e].time = now + d
<1>1. CASE d = 0
  <2>1. new = add_delta_event(ev, e)
    BY <1>1 DEF notify_internal
  <2> QED BY <1>1, <2>1, AddDelta
<1>2. CASE d # 0
  <2>1. new = add_timed_event(ev, e, now + d) /\ now + d \in Nat /\ now + d > now
    BY <1>2 DEF notify_internal
  <2> HIDE DEF add_timed_event
  <2>2. PICK tt \in Nat : tt = now + d
    BY <2>1
  <2> QED BY <1>2, <2>1, <2>2, AddTimed
<1> QED BY <1>1, <1>2

LEMMA NotifiedInPlace ==
  ASSUME now \in Nat, NEW ev, InPlace(ev, now), NEW e \in Event, NEW d \in Nat,
         NEW new, new = Notified(ev, e, d)
  PROVE  /\ InPlace(new, now) /\ Others(ev, new, e)
         /\ IF IsDelta(ev, e) \/ d = 0 THEN new.event[e].type = "delta"
            ELSE IF IsTimed(ev, e) /\ ev.event[e].time <= now + d THEN new = ev
            ELSE new.event[e].type = "timed" /\ new.event[e].time = now + d
<1>1. CASE IsDelta(ev, e) \/ (d # 0 /\ IsTimed(ev, e) /\ ev.event[e].time <= now + d)
  <2>1. new = ev
    BY <1>1 DEF Notified, IsDelta, IsTimed
  <2> QED BY <1>1, <2>1 DEF Others, IsDelta
<1>2. CASE ~(IsDelta(ev, e) \/ (d # 0 /\ IsTimed(ev, e) /\ ev.event[e].time <= now + d))
  <2>1. new = notify_internal(cancel(ev, e), e, d)
    BY <1>2 DEF Notified, IsDelta, IsTimed
  <2>2. PICK c : c = cancel(ev, e)
    OBVIOUS
  <2>3. InPlace(c, now) /\ c.event[e].type = "none" /\ Others(ev, c, e)
    BY <2>2, Cancel
  <2>4. /\ InPlace(new, now) /\ Others(c, new, e)
        /\ IF d = 0 THEN new.event[e].type = "delta"
           ELSE new.event[e].type = "timed" /\ new.event[e].time = now + d
    BY <2>1, <2>2, <2>3, NotifyInternal
  <2> QED BY <1>2, <2>3, <2>4 DEF Others
<1> QED BY <1>1, <1>2

-----------------------------------------------------------------------------
(* What a process does *)

LEMMA DifferentEvents ==
  /\ change \in Event /\ UserEvent \subseteq Event /\ change \notin UserEvent
  /\ \A t \in Thread : /\ timeout[t] \in Event /\ timeout[t] # change
                       /\ timeout[t] \notin UserEvent
                       /\ \A u \in Thread : t # u => timeout[t] # timeout[u]
BY KernelAssumption DEF Event

LEMMA SetsEvents ==
  ASSUME NEW ev, NEW t, InPlace(ev, t), SetEvents(ev)
  PROVE  Events' = ev /\ InPlace(Events', t)
<1>1. ev = [event |-> ev.event, delta |-> ev.delta, timed |-> ev.timed]
  BY DEF InPlace, EventRecord
<1>2. Events' = ev
  BY <1>1 DEF Events, SetEvents
<1> QED BY <1>2

LEMMA OperatesKeeps ==
  ASSUME Clocks, Operates
  PROVE  left' \in 0..Budget /\ UNCHANGED <<phase, now, until_t, current>>
BY KernelAssumption DEF Clocks, Operates, timeVars

LEMMA NatNow == Clocks => now \in Nat
BY DEF Clocks

LEMMA NotifyImmediatelyInv ==
  ASSUME IInv, NEW e \in UserEvent, NotifyImmediately(e)
  PROVE  IInv'
<1>1. e \in Event /\ e # change /\ \A t \in Thread : timeout[t] \in Event /\ timeout[t] # e
  BY DifferentEvents
<1>2. <<e>> \in Seq(Event) /\ IsInjective(<<e>>) /\ ToSet(<<e>>) = {e}
  <2>1. PICK s : s = <<e>>
    OBVIOUS
  <2>2. s \in Seq(Event) /\ DOMAIN s = {1} /\ s[1] = e
    BY <1>1, <2>1
  <2>3. IsInjective(s) /\ ToSet(s) = {e}
    BY <2>2 DEF IsInjective, ToSet
  <2> QED BY <2>1, <2>2, <2>3
<1>3. PICK s : s = <<e>>
  OBVIOUS
<1>4. /\ Placed' /\ \A f \in Event : f # e => waiting'[f] = waiting[f]
  <2>1. /\ s \in Seq(Event) /\ IsInjective(s) /\ ToSet(s) = {e}
        /\ queue' = Trigger(s, current) /\ NoLongerWaiting(s) /\ UNCHANGED current /\ Placed
    BY <1>2, <1>3 DEF NotifyImmediately, Operates, IInv
  <2>2. queue' \in {Trigger(s, current), toggle_methods(Trigger(s, current))}
    BY <2>1
  <2> QED BY <2>1, <2>2, TriggeredPlaced
<1>5. PICK ev : ev = cancel(Events, e)
  OBVIOUS
<1>6. now \in Nat
  BY NatNow DEF IInv
<1>7. InPlace(ev, now) /\ Others(Events, ev, e)
  BY <1>1, <1>5, <1>6, Cancel DEF IInv
<1>8. SetEvents(ev)
  BY <1>5 DEF NotifyImmediately
<1>9. Events' = ev /\ InPlace(Events', now)
  BY <1>7, <1>8, SetsEvents
<1>10. /\ left' \in 0..Budget /\ UNCHANGED <<phase, now, until_t, current>>
  BY OperatesKeeps DEF NotifyImmediately, IInv
<1>11. Clocks'
  BY <1>10 DEF Clocks, IInv, NotifyImmediately, signalVars
<1>12. Owned'
  <2>1. \A x \in Event : x # e => event'[x].type = event[x].type
    BY <1>7, <1>8 DEF Others, SetEvents, Events
  <2> QED BY <1>1, <1>4, <2>1, DifferentEvents DEF Owned, IInv
<1>13. InPlace(Events, now)'
  BY <1>9, <1>10
<1> QED BY <1>4, <1>11, <1>12, <1>13 DEF IInv

LEMMA NotifyAfterInv ==
  ASSUME IInv, NEW e \in UserEvent, NEW d \in Delay, NotifyAfter(e, d)
  PROVE  IInv'
<1>1. e \in Event /\ e # change /\ \A t \in Thread : timeout[t] \in Event /\ timeout[t] # e
  BY DifferentEvents
<1>2. /\ left' \in 0..Budget /\ UNCHANGED <<phase, now, until_t, current>>
  BY OperatesKeeps DEF NotifyAfter, IInv
<1>3. PICK ev : ev = Notified(Events, e, d)
  OBVIOUS
<1>4. now \in Nat /\ d \in Nat
  BY NatNow, KernelAssumption DEF IInv
<1>5. InPlace(ev, now) /\ Others(Events, ev, e)
  BY <1>1, <1>3, <1>4, NotifiedInPlace DEF IInv
<1>6. SetEvents(ev)
  BY <1>3 DEF NotifyAfter
<1>7. Events' = ev /\ InPlace(Events', now)
  BY <1>5, <1>6, SetsEvents
<1>8. Clocks'
  BY <1>2 DEF Clocks, IInv, NotifyAfter, signalVars
<1>9. Placed'
  BY <1>2 DEF NotifyAfter, IInv, Placed, WaitsOnce, Awaiting
<1>10. Owned'
  <2>1. \A x \in Event : x # e => event'[x].type = event[x].type
    BY <1>5, <1>6 DEF Others, SetEvents, Events
  <2> QED BY <1>1, <2>1, DifferentEvents DEF Owned, IInv, NotifyAfter
<1>11. InPlace(Events, now)'
  BY <1>2, <1>7
<1> QED BY <1>8, <1>9, <1>10, <1>11 DEF IInv

LEMMA EventsKept ==
  ASSUME InPlace(Events, now), UNCHANGED <<now, eventVars>>
  PROVE  InPlace(Events, now)'
<1>1. Events' = Events /\ now' = now
  BY DEF Events, eventVars
<1> QED BY <1>1

LEMMA WriteInv ==
  ASSUME IInv, NEW v \in BOOLEAN, Write(v)
  PROVE  IInv'
<1>1. /\ left' \in 0..Budget /\ UNCHANGED <<phase, now, until_t, current>>
  BY OperatesKeeps DEF Write, IInv
<1>2. Clocks'
  BY <1>1 DEF Clocks, IInv, Write
<1>3. Placed'
  BY <1>1 DEF Write, IInv, Placed, WaitsOnce, Awaiting
<1>4. Owned'
  BY DEF Owned, IInv, Write, eventVars
<1>5. InPlace(Events, now)'
  BY <1>1, EventsKept DEF Write, IInv
<1> QED BY <1>2, <1>3, <1>4, <1>5 DEF IInv

LEMMA SuspendClocks ==
  ASSUME Clocks, Suspend, UNCHANGED timeVars
  PROVE  Clocks'
<1>1. 0 \in 0..Budget
  BY KernelAssumption
<1> QED BY <1>1 DEF Clocks, Suspend, timeVars, signalVars

LEMMA WaitForEventInv ==
  ASSUME IInv, NEW t \in Thread, NEW e \in UserEvent, WaitForEvent(t, e)
  PROVE  IInv'
<1>1. e \in Event /\ \A u \in Thread : timeout[u] \in Event /\ timeout[u] # e
  BY DifferentEvents
<1>2. Placed' /\ \A f \in Event : f # e => waiting'[f] = waiting[f]
  <2>1. /\ Placed /\ current = t /\ waiting' = [waiting EXCEPT ![e] = Append(@, t)]
        /\ current' = None /\ UNCHANGED queue
    BY DEF IInv, WaitForEvent, Runs, Suspend
  <2> QED BY <1>1, <2>1, WaitPlaced
<1>3. Clocks'
  BY SuspendClocks DEF WaitForEvent, Runs, IInv
<1>4. Owned'
  BY <1>1, <1>2 DEF Owned, IInv, WaitForEvent, eventVars
<1>5. InPlace(Events, now)'
  BY EventsKept DEF WaitForEvent, IInv, Runs, timeVars
<1> QED BY <1>2, <1>3, <1>4, <1>5 DEF IInv

LEMMA WaitForTimeInv ==
  ASSUME IInv, NEW t \in Thread, NEW d \in Delay, WaitForTime(t, d)
  PROVE  IInv'
<1> DEFINE e == timeout[t]
<1>1. /\ e \in Event /\ e # change
      /\ \A u \in Thread : timeout[u] \in Event /\ (u # t => timeout[u] # e)
  BY DifferentEvents
<1>2. /\ Placed /\ current = t /\ current' = None /\ UNCHANGED <<queue, phase, now, until_t>>
      /\ waiting' = [waiting EXCEPT ![e] = Append(@, t)]
      /\ SetEvents(notify_internal(Events, e, d))
  BY DEF IInv, WaitForTime, Runs, Suspend, timeVars
<1> HIDE DEF e
<1>3. /\ Placed' /\ \A f \in Event : f # e => waiting'[f] = waiting[f]
      /\ ToSet(waiting'[e]) = ToSet(waiting[e]) \cup {t}
  BY <1>1, <1>2, WaitPlaced
<1>4. event[e].type = "none"
  <2>1. event[e].type # "none" => t \in ToSet(waiting[e])
    BY DEF IInv, Owned, e
  <2>2. t \notin ToSet(waiting[e])
    BY <1>1, <1>2 DEF Placed, Awaiting
  <2> QED BY <2>1, <2>2
<1>5. PICK ev : ev = notify_internal(Events, e, d)
  OBVIOUS
<1>6. now \in Nat /\ d \in Nat /\ Events.event[e].type = "none"
  BY <1>4, NatNow, KernelAssumption DEF IInv, Events
<1>7. InPlace(ev, now) /\ Others(Events, ev, e)
  BY <1>1, <1>5, <1>6, NotifyInternal DEF IInv
<1>8. Events' = ev /\ InPlace(Events', now)
  BY <1>2, <1>5, <1>7, SetsEvents
<1>9. Clocks'
  BY SuspendClocks DEF WaitForTime, Runs, IInv
<1>10. Owned'
  <2>1. \A x \in Event : x # e => event'[x].type = event[x].type
    BY <1>2, <1>5, <1>7 DEF Others, SetEvents, Events
  <2>2. event'[change].type = "none"
    BY <1>1, <2>1, DifferentEvents DEF Owned, IInv
  <2>3. ASSUME NEW u \in Thread, event'[timeout[u]].type # "none"
        PROVE  u \in ToSet(waiting'[timeout[u]])
    <3>1. CASE u = t
      BY <1>3, <3>1 DEF e
    <3>2. CASE u # t
      BY <1>1, <1>3, <2>1, <2>3, <3>2 DEF Owned, IInv
    <3> QED BY <3>1, <3>2
  <2> QED BY <2>2, <2>3 DEF Owned
<1>11. InPlace(Events, now)'
  BY <1>2, <1>8
<1> QED BY <1>3, <1>9, <1>10, <1>11 DEF IInv

LEMMA ReturnInv ==
  ASSUME IInv, NEW m \in Method, Return(m)
  PROVE  IInv'
<1>1. Clocks'
  BY SuspendClocks DEF Return, Runs, IInv
<1>2. Placed'
  <2>1. /\ Placed /\ current = m /\ current' = None /\ UNCHANGED <<queue, waiting>>
    BY DEF IInv, Return, Runs, Suspend
  <2>2. m \notin Thread
    BY Processes
  <2> QED BY <2>1, <2>2, PlacesOfProcesses DEF Placed, WaitsOnce, Awaiting
<1>3. Owned'
  BY DEF Owned, IInv, Return, eventVars
<1>4. InPlace(Events, now)'
  BY EventsKept DEF Return, IInv, Runs, timeVars
<1> QED BY <1>1, <1>2, <1>3, <1>4 DEF IInv

-----------------------------------------------------------------------------
(* What the kernel does *)

LEMMA RunMethodInv ==
  ASSUME IInv, RunMethod
  PROVE  IInv'
<1> DEFINE s == queue.methods_pop
<1>1. /\ Placed /\ current = None /\ s # <<>> /\ current' = Head(s) /\ left' = Budget
      /\ queue' = [queue EXCEPT !.methods_pop = Tail(@)]
      /\ UNCHANGED <<phase, now, until_t, waiting, event, delta_events, timed_events>>
      /\ UNCHANGED <<cur_val, new_val>>
  BY DEF IInv, RunMethod, Crunches, timeVars, eventVars, signalVars
<1>2. s \in Seq(Method) /\ IsInjective(s)
  BY <1>1 DEF Placed, QueueOK
<1>3. /\ Head(s) \in Method /\ Tail(s) \in Seq(Method) /\ IsInjective(Tail(s))
      /\ ToSet(s) = {Head(s)} \cup ToSet(Tail(s)) /\ Head(s) \notin ToSet(Tail(s))
  BY <1>1, <1>2, TailElements
<1>4. /\ queue'.methods_pop = Tail(s) /\ queue'.methods_push = queue.methods_push
      /\ queue'.threads_pop = queue.threads_pop /\ queue'.threads_push = queue.threads_push
      /\ queue' \in [methods_pop: Seq(Method), methods_push: Seq(Method),
                     threads_pop: Seq(Thread), threads_push: Seq(Thread)]
  BY <1>1, <1>3 DEF Placed, QueueOK
<1> HIDE DEF s
<1>5. QueueOK(queue') /\ QueuedThreads(queue') = QueuedThreads(queue)
      /\ QueuedMethods(queue') \cup {Head(s)} = QueuedMethods(queue)
      /\ Head(s) \notin QueuedMethods(queue')
  BY <1>1, <1>2, <1>3, <1>4 DEF Placed, QueueOK, QueuedThreads, QueuedMethods, s
<1>6. Head(s) \notin Thread /\ None \notin Thread
  BY <1>3, Processes
<1>7. Placed'
  <2>1. /\ waiting' \in [Event -> Seq(Thread)] /\ WaitsOnce' /\ Awaiting(Event)' = Awaiting(Event)
        /\ Awaiting(Event) \subseteq Thread
    BY <1>1, PlacesOfProcesses DEF Placed, WaitsOnce, Awaiting
  <2>2. Awaiting(Event) \cap QueuedThreads(queue') = {}
    BY <1>1, <1>5 DEF Placed
  <2>3. current' \notin QueuedMethods(queue') \cup QueuedThreads(queue') \cup Awaiting(Event)
    BY <1>1, <1>5, <1>6, <2>1, PlacesOfProcesses DEF Placed
  <2>4. Thread \subseteq QueuedThreads(queue') \cup Awaiting(Event) \cup {current'}
    BY <1>1, <1>5, <1>6 DEF Placed
  <2> QED BY <1>5, <2>1, <2>2, <2>3, <2>4 DEF Placed
<1>8. Clocks'
  BY <1>1, <1>3, KernelAssumption DEF Clocks, IInv, Process
<1>9. Owned'
  BY <1>1 DEF Owned, IInv
<1>10. InPlace(Events, now)'
  BY <1>1, EventsKept DEF IInv, eventVars
<1> QED BY <1>7, <1>8, <1>9, <1>10 DEF IInv

LEMMA RunThreadInv ==
  ASSUME IInv, RunThread
  PROVE  IInv'
<1> DEFINE s == queue.threads_pop
<1>1. /\ Placed /\ current = None /\ s # <<>> /\ current' = Head(s) /\ left' = Budget
      /\ queue' = [queue EXCEPT !.threads_pop = Tail(@)]
      /\ UNCHANGED <<phase, now, until_t, waiting, event, delta_events, timed_events>>
      /\ UNCHANGED <<cur_val, new_val>>
  BY DEF IInv, RunThread, Crunches, timeVars, eventVars, signalVars
<1>2. s \in Seq(Thread) /\ IsInjective(s)
  BY <1>1 DEF Placed, QueueOK
<1>3. /\ Head(s) \in Thread /\ Tail(s) \in Seq(Thread) /\ IsInjective(Tail(s))
      /\ ToSet(s) = {Head(s)} \cup ToSet(Tail(s)) /\ Head(s) \notin ToSet(Tail(s))
  BY <1>1, <1>2, TailElements
<1>4. /\ queue'.threads_pop = Tail(s) /\ queue'.threads_push = queue.threads_push
      /\ queue'.methods_pop = queue.methods_pop /\ queue'.methods_push = queue.methods_push
      /\ queue' \in [methods_pop: Seq(Method), methods_push: Seq(Method),
                     threads_pop: Seq(Thread), threads_push: Seq(Thread)]
  BY <1>1, <1>3 DEF Placed, QueueOK
<1> HIDE DEF s
<1>5. QueueOK(queue') /\ QueuedMethods(queue') = QueuedMethods(queue)
      /\ QueuedThreads(queue') \cup {Head(s)} = QueuedThreads(queue)
      /\ Head(s) \notin QueuedThreads(queue')
  BY <1>1, <1>2, <1>3, <1>4 DEF Placed, QueueOK, QueuedThreads, QueuedMethods, s
<1>6. Head(s) \notin Method /\ None \notin Thread
  BY <1>3, Processes
<1>7. Placed'
  <2>1. /\ waiting' \in [Event -> Seq(Thread)] /\ WaitsOnce' /\ Awaiting(Event)' = Awaiting(Event)
        /\ Awaiting(Event) \subseteq Thread
    BY <1>1, PlacesOfProcesses DEF Placed, WaitsOnce, Awaiting
  <2>2. Awaiting(Event) \cap QueuedThreads(queue') = {}
    BY <1>1, <1>5 DEF Placed
  <2>3. current' \notin QueuedMethods(queue') \cup QueuedThreads(queue') \cup Awaiting(Event)
    BY <1>1, <1>5, <1>6, <2>1, PlacesOfProcesses DEF Placed
  <2>4. Thread \subseteq QueuedThreads(queue') \cup Awaiting(Event) \cup {current'}
    BY <1>1, <1>5, <1>6 DEF Placed
  <2> QED BY <1>5, <2>1, <2>2, <2>3, <2>4 DEF Placed
<1>8. Clocks'
  BY <1>1, <1>3, KernelAssumption DEF Clocks, IInv, Process
<1>9. Owned'
  BY <1>1 DEF Owned, IInv
<1>10. InPlace(Events, now)'
  BY <1>1, EventsKept DEF IInv, eventVars
<1> QED BY <1>7, <1>8, <1>9, <1>10 DEF IInv

\* The end of a round of methods or of threads, and the start of a slice.
LEMMA TogglePlaced ==
  ASSUME Placed, queue' \in {queue, toggle_methods(queue), toggle_threads(queue)},
         UNCHANGED <<current, waiting>>
  PROVE  Placed'
<1>1. /\ QueueOK(queue') /\ QueuedMethods(queue') = QueuedMethods(queue)
      /\ QueuedThreads(queue') = QueuedThreads(queue)
  BY MethodsToggled, ThreadsToggled DEF Placed
<1> QED BY <1>1 DEF Placed, WaitsOnce, Awaiting

LEMMA MethodsDoneInv ==
  ASSUME IInv, MethodsDone
  PROVE  IInv'
<1>1. /\ queue' = toggle_threads(queue) /\ phase' = "threads"
      /\ UNCHANGED <<now, until_t, current, left, waiting, event, delta_events, timed_events,
                     cur_val, new_val>>
  BY DEF MethodsDone, runVars, eventVars, signalVars
<1>2. Placed'
  BY <1>1, TogglePlaced DEF IInv
<1>3. Clocks' /\ Owned'
  BY <1>1 DEF Clocks, Owned, IInv
<1>4. InPlace(Events, now)'
  BY <1>1, EventsKept DEF IInv, eventVars
<1> QED BY <1>2, <1>3, <1>4 DEF IInv

LEMMA ThreadsDoneInv ==
  ASSUME IInv, ThreadsDone
  PROVE  IInv'
<1>1. /\ queue' = toggle_methods(queue) /\ phase' \in {"update", "methods"}
      /\ UNCHANGED <<now, until_t, current, left, waiting, event, delta_events, timed_events,
                     cur_val, new_val>>
  BY DEF ThreadsDone, runVars, eventVars, signalVars
<1>2. Placed'
  BY <1>1, TogglePlaced DEF IInv
<1>3. Clocks' /\ Owned'
  BY <1>1 DEF Clocks, Owned, IInv
<1>4. InPlace(Events, now)'
  BY <1>1, EventsKept DEF IInv, eventVars
<1> QED BY <1>2, <1>3, <1>4 DEF IInv

LEMMA StartInv ==
  ASSUME IInv, NEW duration \in Slices, Start(duration)
  PROVE  IInv'
<1>1. /\ queue' = toggle_methods(queue) /\ phase' = "methods"
      /\ until_t' = now + duration /\ now + duration <= MaxTime
      /\ UNCHANGED <<now, current, left, waiting, event, delta_events, timed_events,
                     cur_val, new_val>>
  BY DEF Start, runVars, eventVars, signalVars
<1>2. Placed'
  BY <1>1, TogglePlaced DEF IInv
<1>3. now' \in 0..until_t' /\ until_t' \in 0..MaxTime
  <2>1. duration \in Nat /\ MaxTime \in Nat
    BY KernelAssumption
  <2>2. now \in Nat
    BY NatNow DEF IInv
  <2> QED BY <1>1, <2>1, <2>2
<1>4. Clocks' /\ Owned'
  BY <1>1, <1>3 DEF Clocks, Owned, IInv
<1>5. InPlace(Events, now)'
  BY <1>1, EventsKept DEF IInv, eventVars
<1> QED BY <1>2, <1>4, <1>5 DEF IInv

\* What is triggered at the end of a delta cycle: different events, namely those that
\* have been notified for it and the change of the signal, if there is one.
LEMMA NotificationPhase ==
  ASSUME IInv, UpdateAndNotify
  PROVE  \E events \in Seq(Event) :
           /\ IsInjective(events)
           /\ \A x \in Event : x \in ToSet(events) <=>
                \/ event[x].type = "delta"
                \/ x = change /\ new_val # cur_val
           /\ queue' = toggle_methods(Trigger(events, None)) /\ NoLongerWaiting(events)
           /\ phase' = IF Queued(Trigger(events, None)) = {} THEN "timed" ELSE "methods"
<1>1. PICK ev : ev = IF new_val # cur_val THEN add_delta_event(Events, change) ELSE Events
  OBVIOUS
<1>2. PICK events : events = Reverse(ev.delta)
  OBVIOUS
<1>3. /\ queue' = toggle_methods(Trigger(events, None)) /\ NoLongerWaiting(events)
      /\ phase' = IF Queued(Trigger(events, None)) = {} THEN "timed" ELSE "methods"
  BY <1>1, <1>2 DEF UpdateAndNotify
<1>4. Owned /\ InPlace(Events, now) /\ now \in Nat /\ change \in Event
  BY NatNow, DifferentEvents DEF IInv
<1>5. /\ InPlace(ev, now)
      /\ \A x \in Event : IsDelta(ev, x) <=>
           \/ event[x].type = "delta"
           \/ x = change /\ new_val # cur_val
  <2>1. CASE new_val # cur_val
    <3>1. ev = add_delta_event(Events, change) /\ Events.event[change].type = "none"
      BY <1>1, <1>4, <2>1 DEF Owned, Events
    <3>2. /\ InPlace(ev, now) /\ ev.event[change].type = "delta"
          /\ \A x \in Event : x # change => ev.event[x] = Events.event[x]
      BY <1>4, <3>1, AddDelta
    <3> QED BY <2>1, <3>2 DEF Events, IsDelta
  <2>2. CASE new_val = cur_val
    BY <1>1, <1>4, <2>2 DEF Events, IsDelta
  <2> QED BY <2>1, <2>2
<1> DEFINE d == ev.delta
           n == Len(d)
<1>6. d \in Seq(Event) /\ \A i \in 1..n : d[i] \in Event
  BY <1>5, EventParts, ElementOfSeq DEF InPlace
<1>7. ASSUME NEW x \in Event
      PROVE  /\ IsDelta(ev, x) => ev.event[x].index \in 1..n
             /\ \A i \in 1..n : d[i] = x <=> IsDelta(ev, x) /\ i = ev.event[x].index
  BY <1>5 DEF InPlace, OneInPlace
<1>8. /\ \A x : x \in ToSet(d) <=> \E i \in 1..n : d[i] = x
      /\ IsInjective(d) <=> \A i, j \in 1..n : d[i] = d[j] => i = j
  BY <1>6, Elements
<1> HIDE DEF d, n
<1>9. ASSUME NEW i \in 1..n, NEW j \in 1..n, d[i] = d[j] PROVE i = j
  BY <1>6, <1>7, <1>9
<1>10. ASSUME NEW x \in Event PROVE x \in ToSet(d) <=> IsDelta(ev, x)
  BY <1>7, <1>8
<1>11. events = Reverse(d) /\ IsInjective(d)
  BY <1>2, <1>8, <1>9 DEF d
<1>12. events \in Seq(Event) /\ IsInjective(events) /\ ToSet(events) = ToSet(d)
  BY <1>6, <1>11, ReverseElements
<1> QED BY <1>3, <1>5, <1>10, <1>12

LEMMA UpdateAndNotifyInv ==
  ASSUME IInv, UpdateAndNotify
  PROVE  IInv'
<1>1. PICK events \in Seq(Event) :
        /\ IsInjective(events)
        /\ \A x \in Event : x \in ToSet(events) <=>
             \/ event[x].type = "delta"
             \/ x = change /\ new_val # cur_val
        /\ queue' = toggle_methods(Trigger(events, None)) /\ NoLongerWaiting(events)
        /\ phase' = IF Queued(Trigger(events, None)) = {} THEN "timed" ELSE "methods"
  BY NotificationPhase
<1>2. /\ current = None /\ cur_val' = new_val /\ delta_events' = <<>>
      /\ UNCHANGED <<now, until_t, current, left, timed_events, new_val>>
      /\ event' = [e \in Event |-> IF event[e].type = "timed" THEN event[e] ELSE None0]
  BY DEF UpdateAndNotify, Crunches, runVars
<1>3. Placed /\ Clocks /\ Owned /\ InPlace(Events, now) /\ now \in Nat
  BY NatNow DEF IInv
<1>4. Placed' /\ \A e \in Event : e \notin ToSet(events) => waiting'[e] = waiting[e]
  <2>1. queue' \in {Trigger(events, current), toggle_methods(Trigger(events, current))}
    BY <1>1, <1>2
  <2> QED BY <1>1, <1>2, <1>3, <2>1, TriggeredPlaced
<1>5. Clocks'
  <2>1. phase' \in {"timed", "methods"}
    BY <1>1
  <2> QED BY <1>2, <1>3, <2>1 DEF Clocks
<1>6. Owned'
  <2>1. event'[change].type = "none"
    BY <1>2, <1>3, NoneType, DifferentEvents DEF Owned
  <2>2. ASSUME NEW t \in Thread, event'[timeout[t]].type # "none"
        PROVE  t \in ToSet(waiting'[timeout[t]])
    <3>1. timeout[t] \in Event /\ timeout[t] # change
      BY DifferentEvents
    <3>2. event[timeout[t]].type = "timed"
      BY <1>2, <2>2, <3>1, NoneType
    <3>3. waiting'[timeout[t]] = waiting[timeout[t]]
      BY <1>1, <1>4, <3>1, <3>2
    <3>4. t \in ToSet(waiting[timeout[t]])
      BY <1>3, <3>2 DEF Owned
    <3> QED BY <3>3, <3>4
  <2> QED BY <2>1, <2>2 DEF Owned
<1>7. Events \in EventRecord /\ \A x \in Event : OneInPlace(Events, x, now)
  BY <1>3 DEF InPlace
<1>8. PICK new : new = Events'
  OBVIOUS
<1>9. /\ new.event = event' /\ new.delta = <<>> /\ new.timed = timed_events
      /\ new = [event |-> event', delta |-> <<>>, timed |-> timed_events]
  BY <1>2, <1>8 DEF Events
<1>10. /\ event \in [Event -> Notification]
       /\ timed_events \in SUBSET [event: Event \cup {None}, time: Nat]
  BY <1>7, EventParts DEF Events
<1>11. new \in EventRecord
  <2>1. event' \in [Event -> Notification]
    BY <1>2, <1>10, NoneType
  <2>2. <<>> \in Seq(Event)
    BY EmptySeq
  <2> QED BY <1>9, <1>10, <2>1, <2>2 DEF EventRecord
<1>12. ASSUME NEW x \in Event PROVE OneInPlace(new, x, now)
  <2>1. 1..Len(new.delta) = {}
    BY <1>9, EmptySeq
  <2>2. /\ ~IsDelta(new, x)
        /\ IsTimed(new, x) <=> IsTimed(Events, x)
        /\ IsTimed(new, x) => new.event[x] = event[x]
    BY <1>2, <1>9, NoneType DEF IsDelta, IsTimed, Events
  <2>3. /\ \A r \in timed_events : r.event = x => IsTimed(Events, x) /\ r.time = event[x].time
        /\ IsTimed(Events, x) => /\ [event |-> x, time |-> event[x].time] \in timed_events
                                 /\ event[x].time > now
    BY <1>7 DEF OneInPlace, Events
  <2> QED BY <1>9, <2>1, <2>2, <2>3 DEF OneInPlace
<1>13. InPlace(new, now)
  BY <1>11, <1>12 DEF InPlace
<1>14. InPlace(Events, now)'
  BY <1>2, <1>8, <1>13
<1> QED BY <1>4, <1>5, <1>6, <1>14 DEF IInv

LEMMA MinElement ==
  ASSUME NEW T \in SUBSET Nat, T # {}
  PROVE  Min(T) \in T /\ \A m \in T : Min(T) <= m
<1>1. \E n \in T : \A m \in T : n <= m
  BY LeastElement
<1> QED BY <1>1 DEF Min

\* What is in the timed queue, but for what has been cancelled.
LEMMA LiveNotifications ==
  ASSUME InPlace(Events, now)
  PROVE  /\ \A r \in Live : /\ r.event \in Event /\ event[r.event].type = "timed"
                            /\ r.time = event[r.event].time /\ r.time \in Nat /\ r.time > now
         /\ \A x \in Event : event[x].type = "timed" =>
              [event |-> x, time |-> event[x].time] \in Live
         /\ timed_events \in SUBSET [event: Event \cup {None}, time: Nat]
<1>1. /\ timed_events \in SUBSET [event: Event \cup {None}, time: Nat]
      /\ \A x \in Event : OneInPlace(Events, x, now)
      /\ Events.event = event /\ Events.timed = timed_events
  BY DEF InPlace, EventRecord, Events
<1>2. ASSUME NEW x \in Event
      PROVE  /\ \A r \in timed_events : r.event = x => /\ event[x].type = "timed"
                                                       /\ r.time = event[x].time
             /\ event[x].type = "timed" => /\ [event |-> x, time |-> event[x].time] \in timed_events
                                           /\ event[x].time > now
  BY <1>1 DEF OneInPlace, IsTimed
<1>3. ASSUME NEW r \in Live
      PROVE  /\ r.event \in Event /\ event[r.event].type = "timed"
             /\ r.time = event[r.event].time /\ r.time \in Nat /\ r.time > now
  <2>1. r \in timed_events /\ r.event # None
    BY DEF Live
  <2>2. r.event \in Event /\ r.time \in Nat
    BY <1>1, <2>1
  <2> QED BY <1>2, <2>1, <2>2
<1>4. ASSUME NEW x \in Event, event[x].type = "timed"
      PROVE  [event |-> x, time |-> event[x].time] \in Live
  <2>1. PICK r : r = [event |-> x, time |-> event[x].time]
    OBVIOUS
  <2>2. r \in timed_events /\ r.event = x /\ x # None
    BY <1>2, <1>4, <2>1, Processes
  <2> QED BY <2>1, <2>2 DEF Live
<1> QED BY <1>1, <1>3, <1>4

\* The next time is that of the earliest notification, or after the end of the slice.
LEMMA TheNextTime ==
  ASSUME InPlace(Events, now), until_t \in Nat, now \in Nat
  PROVE  /\ NextTime \in Nat
         /\ \A x \in Event : event[x].type = "timed" => /\ event[x].time \in Nat
                                                        /\ NextTime <= event[x].time
         /\ NextTime > now \/ NextTime > until_t
<1>1. \A r \in Live : r.time \in Nat /\ r.time > now
  BY LiveNotifications
<1>2. NextTime \in Nat /\ \A r \in Live : NextTime <= r.time
  <2> DEFINE T == {r.time : r \in Live}
  <2>1. CASE Live = {}
    BY <2>1 DEF NextTime
  <2>2. CASE Live # {}
    <3>1. T \in SUBSET Nat /\ T # {} /\ \A r \in Live : r.time \in T
      BY <1>1, <2>2
    <3>2. NextTime = Min(T)
      BY <2>2 DEF NextTime
    <3> HIDE DEF T
    <3>3. Min(T) \in T /\ \A m \in T : Min(T) <= m
      BY <3>1, MinElement
    <3> QED BY <3>1, <3>2, <3>3
  <2> QED BY <2>1, <2>2
<1>3. NextTime > now \/ NextTime > until_t
  <2> DEFINE T == {r.time : r \in Live}
  <2>1. CASE Live = {}
    BY <2>1 DEF NextTime
  <2>2. CASE Live # {}
    <3>1. T \in SUBSET Nat /\ T # {} /\ \A m \in T : m > now
      BY <1>1, <2>2
    <3>2. NextTime = Min(T)
      BY <2>2 DEF NextTime
    <3> HIDE DEF T
    <3>3. Min(T) \in T
      BY <3>1, MinElement
    <3> QED BY <3>1, <3>2, <3>3
  <2> QED BY <2>1, <2>2
<1>4. ASSUME NEW x \in Event, event[x].type = "timed"
      PROVE  event[x].time \in Nat /\ NextTime <= event[x].time
  <2>1. PICK r : r = [event |-> x, time |-> event[x].time]
    OBVIOUS
  <2>2. r \in Live /\ r.time = event[x].time
    BY <1>4, <2>1, LiveNotifications
  <2> QED BY <1>1, <1>2, <2>2
<1> QED BY <1>2, <1>3, <1>4

\* The notifications that are kept are those of after the time t.
LEMMA LaterInPlace ==
  ASSUME NEW ev, NEW u \in Nat, InPlace(ev, u), NEW t \in Nat, NEW E \in SUBSET Event,
         NEW keep \in SUBSET ev.timed, NEW new,
         new = [event |-> [e \in Event |-> IF e \in E THEN None0 ELSE ev.event[e]],
                delta |-> ev.delta, timed |-> keep],
         \A e \in E : IsTimed(ev, e),
         \A r \in keep : r.event \notin E,
         \A e \in Event \ E : IsTimed(ev, e) =>
           ev.event[e].time > t /\ [event |-> e, time |-> ev.event[e].time] \in keep
  PROVE  InPlace(new, t)
<1>1. ev \in EventRecord /\ \A x \in Event : OneInPlace(ev, x, u)
  BY DEF InPlace
<1>2. /\ ev.event \in [Event -> Notification] /\ ev.delta \in Seq(Event)
      /\ ev.timed \in SUBSET [event: Event \cup {None}, time: Nat]
  BY <1>1, EventParts
<1>3. /\ new.delta = ev.delta /\ new.timed = keep
      /\ \A e \in Event : new.event[e] = IF e \in E THEN None0 ELSE ev.event[e]
  OBVIOUS
<1>4. new \in EventRecord
  <2>1. [e \in Event |-> IF e \in E THEN None0 ELSE ev.event[e]] \in [Event -> Notification]
    BY <1>2, NoneType
  <2>2. keep \in SUBSET [event: Event \cup {None}, time: Nat]
    BY <1>2
  <2> QED BY <1>2, <2>1, <2>2 DEF EventRecord
<1>5. ASSUME NEW x \in Event PROVE OneInPlace(new, x, t)
  <2>1. OneInPlace(ev, x, u)
    BY <1>1
  <2>2. CASE x \in E
    <3>1. ~IsDelta(new, x) /\ ~IsTimed(new, x) /\ ~IsDelta(ev, x)
      BY <1>3, <2>2, NoneType DEF IsDelta, IsTimed
    <3>2. \A i \in 1..Len(new.delta) : new.delta[i] # x
      BY <1>3, <2>1, <3>1 DEF OneInPlace
    <3> QED BY <1>3, <2>2, <3>1, <3>2 DEF OneInPlace
  <2>3. CASE x \notin E
    <3>1. /\ new.event[x] = ev.event[x]
          /\ IsDelta(new, x) <=> IsDelta(ev, x)
          /\ IsTimed(new, x) <=> IsTimed(ev, x)
      BY <1>3, <2>3 DEF IsDelta, IsTimed
    <3>2. IsTimed(ev, x) => /\ ev.event[x].time > t
                            /\ [event |-> x, time |-> ev.event[x].time] \in keep
      BY <2>3
    <3> QED BY <1>3, <2>1, <3>1, <3>2 DEF OneInPlace
  <2> QED BY <2>2, <2>3
<1> QED BY <1>4, <1>5 DEF InPlace

LEMMA ExitTimeInv ==
  ASSUME IInv, ExitTime
  PROVE  IInv'
<1>1. /\ NextTime > until_t /\ now' = until_t /\ phase' = "stopped"
      /\ timed_events' = {r \in timed_events : r.event # None \/ r.time > NextTime}
      /\ UNCHANGED <<until_t, current, left, queue, waiting, event, delta_events, cur_val, new_val>>
  BY DEF ExitTime, runVars, signalVars
<1>2. until_t \in Nat /\ MaxTime \in Nat /\ now \in Nat /\ InPlace(Events, now)
  BY NatNow, KernelAssumption DEF IInv, Clocks
<1>3. NextTime \in Nat
      /\ \A x \in Event :
           event[x].type = "timed" => event[x].time \in Nat /\ event[x].time > until_t
  BY <1>1, <1>2, TheNextTime
<1>4. Clocks'
  BY <1>1, <1>2 DEF Clocks, IInv
<1>5. Placed'
  BY <1>1 DEF IInv, Placed, WaitsOnce, Awaiting
<1>6. Owned'
  BY <1>1 DEF IInv, Owned
<1>7. PICK ev : ev = Events
  OBVIOUS
<1>8. /\ ev.event = event /\ ev.delta = delta_events /\ ev.timed = timed_events
      /\ event \in [Event -> Notification]
  BY <1>2, <1>7 DEF Events, InPlace, EventRecord
<1> DEFINE E == {}
<1>9. PICK new : new = [event |-> [e \in Event |-> IF e \in E THEN None0 ELSE ev.event[e]],
                        delta |-> ev.delta, timed |-> timed_events']
  OBVIOUS
<1>10. new = Events'
  BY <1>1, <1>8, <1>9 DEF Events
<1>11. \A x \in Event \ E : IsTimed(ev, x) =>
         ev.event[x].time > until_t /\ [event |-> x, time |-> ev.event[x].time] \in timed_events'
  <2>1. ASSUME NEW x \in Event, IsTimed(ev, x)
        PROVE  /\ ev.event[x].time > until_t
               /\ [event |-> x, time |-> ev.event[x].time] \in timed_events'
    <3>1. [event |-> x, time |-> event[x].time] \in Live
      BY <1>2, <1>8, <2>1, LiveNotifications DEF IsTimed
    <3>2. Live \subseteq timed_events'
      BY <1>1 DEF Live
    <3> QED BY <1>3, <1>8, <2>1, <3>1, <3>2 DEF IsTimed
  <2> QED BY <2>1
<1>12. timed_events' \in SUBSET ev.timed
  BY <1>1, <1>8
<1>13. InPlace(new, until_t)
  <2>1. /\ E \in SUBSET Event /\ \A e \in E : IsTimed(ev, e)
        /\ \A r \in timed_events' : r.event \notin E
    OBVIOUS
  <2>2. InPlace(ev, now)
    BY <1>2, <1>7
  <2> HIDE DEF E
  <2> QED BY <1>2, <1>9, <1>11, <1>12, <2>1, <2>2, LaterInPlace
<1>14. InPlace(Events, now)'
  BY <1>1, <1>10, <1>13
<1> QED BY <1>4, <1>5, <1>6, <1>14 DEF IInv

\* What is triggered when time goes on: what has been notified for the next time.
LEMMA EarliestNotifications ==
  ASSUME IInv, TimeStep
  PROVE  \E order \in Seq(Event) :
           /\ IsInjective(order)
           /\ \A x \in Event : x \in ToSet(order) <=>
                event[x].type = "timed" /\ event[x].time = NextTime
           /\ queue' \in {Trigger(order, None), toggle_methods(Trigger(order, None))}
           /\ NoLongerWaiting(order)
           /\ phase' = IF Queued(Trigger(order, None)) = {} THEN "timed"
                       ELSE IF NextTime < until_t THEN "methods" ELSE "stopped"
           /\ event' = [e \in Event |-> IF e \in ToSet(order) THEN None0 ELSE event[e]]
<1> DEFINE due == {r.event : r \in {x \in Live : x.time = NextTime}}
<1>1. PICK order \in SetToSeqs(due) :
        /\ phase' = IF Queued(Trigger(order, None)) = {} THEN "timed"
                    ELSE IF NextTime < until_t THEN "methods" ELSE "stopped"
        /\ queue' \in {Trigger(order, None), toggle_methods(Trigger(order, None))}
        /\ NoLongerWaiting(order)
  BY DEF TimeStep
<1>2. event' = [e \in Event |-> IF e \in due THEN None0 ELSE event[e]]
  BY DEF TimeStep
<1>3. \A r \in Live : /\ r.event \in Event /\ event[r.event].type = "timed"
                      /\ r.time = event[r.event].time
  BY LiveNotifications DEF IInv
<1>4. due \in SUBSET Event
  BY <1>3
<1>5. ASSUME NEW x \in Event, event[x].type = "timed", event[x].time = NextTime PROVE x \in due
  <2>1. PICK r : r = [event |-> x, time |-> event[x].time]
    OBVIOUS
  <2>2. r \in Live /\ r.event = x /\ r.time = NextTime
    BY <1>5, <2>1, LiveNotifications DEF IInv
  <2> QED BY <2>2
<1>6. ASSUME NEW x \in due PROVE event[x].type = "timed" /\ event[x].time = NextTime
  BY <1>3
<1> HIDE DEF due
<1>7. order \in Seq(Event) /\ IsInjective(order) /\ ToSet(order) = due
  <2>1. IsFiniteSet(due)
    BY <1>4, Processes
  <2>2. order \in Seq(due) /\ IsInjective(order) /\ ToSet(order) = due
    BY <2>1, SetToSeqsElements
  <2>3. order \in Seq(Event)
    BY <1>4, <2>2, SeqMonotonic
  <2> QED BY <2>2, <2>3
<1> QED BY <1>1, <1>2, <1>5, <1>6, <1>7

LEMMA TimeStepInv ==
  ASSUME IInv, TimeStep
  PROVE  IInv'
<1>1. PICK order \in Seq(Event) :
        /\ IsInjective(order)
        /\ \A x \in Event : x \in ToSet(order) <=>
             event[x].type = "timed" /\ event[x].time = NextTime
        /\ queue' \in {Trigger(order, None), toggle_methods(Trigger(order, None))}
        /\ NoLongerWaiting(order)
        /\ phase' = IF Queued(Trigger(order, None)) = {} THEN "timed"
                    ELSE IF NextTime < until_t THEN "methods" ELSE "stopped"
        /\ event' = [e \in Event |-> IF e \in ToSet(order) THEN None0 ELSE event[e]]
  BY EarliestNotifications
<1>2. /\ current = None /\ NextTime <= until_t /\ now' = NextTime
      /\ timed_events' = {r \in timed_events : r.time > NextTime}
      /\ UNCHANGED <<until_t, current, left, delta_events, cur_val, new_val>>
  BY DEF TimeStep, Crunches, runVars, signalVars
<1>3. until_t \in Nat /\ MaxTime \in Nat /\ now \in Nat /\ InPlace(Events, now)
  BY NatNow, KernelAssumption DEF IInv, Clocks
<1>4. NextTime \in Nat
      /\ \A x \in Event :
           event[x].type = "timed" => event[x].time \in Nat /\ NextTime <= event[x].time
  BY <1>3, TheNextTime
<1>5. Placed' /\ \A e \in Event : e \notin ToSet(order) => waiting'[e] = waiting[e]
  <2>1. Placed /\ queue' \in {Trigger(order, current), toggle_methods(Trigger(order, current))}
    BY <1>1, <1>2 DEF IInv
  <2> QED BY <1>1, <1>2, <2>1, TriggeredPlaced
<1>6. Clocks'
  <2>1. now' \in 0..until_t
    BY <1>2, <1>3, <1>4
  <2>2. phase' \in {"timed", "methods", "stopped"}
    BY <1>1
  <2> QED BY <1>2, <2>1, <2>2 DEF Clocks, IInv
<1>7. Owned'
  <2>1. event'[change].type = "none"
    BY <1>1, NoneType, DifferentEvents DEF IInv, Owned
  <2>2. ASSUME NEW t \in Thread, event'[timeout[t]].type # "none"
        PROVE  t \in ToSet(waiting'[timeout[t]])
    <3>1. timeout[t] \in Event
      BY DifferentEvents
    <3>2. timeout[t] \notin ToSet(order) /\ event[timeout[t]].type # "none"
      BY <1>1, <2>2, <3>1, NoneType
    <3> QED BY <1>5, <3>1, <3>2 DEF IInv, Owned
  <2> QED BY <2>1, <2>2 DEF Owned
<1>8. PICK ev : ev = Events
  OBVIOUS
<1>9. /\ ev.event = event /\ ev.delta = delta_events /\ ev.timed = timed_events
  BY <1>8 DEF Events
<1>10. PICK E : E = ToSet(order)
  OBVIOUS
<1>11. /\ E \in SUBSET Event
       /\ \A x \in Event : x \in E <=> event[x].type = "timed" /\ event[x].time = NextTime
  BY <1>1, <1>10, Elements
<1>12. PICK new : new = [event |-> [e \in Event |-> IF e \in E THEN None0 ELSE ev.event[e]],
                         delta |-> ev.delta, timed |-> timed_events']
  OBVIOUS
<1>13. new = Events'
  BY <1>1, <1>2, <1>9, <1>10, <1>12 DEF Events
<1>14. timed_events' \in SUBSET ev.timed /\ \A e \in E : IsTimed(ev, e)
  BY <1>2, <1>9, <1>11 DEF IsTimed
<1>15. ASSUME NEW r \in timed_events' PROVE r.event \notin E
  <2>1. r \in timed_events /\ r.time > NextTime
    BY <1>2
  <2>2. ASSUME r.event \in E PROVE FALSE
    <3>1. r \in Live
      BY <1>11, <2>1, <2>2, Processes DEF Live
    <3>2. r.time = event[r.event].time
      BY <1>3, <3>1, LiveNotifications
    <3> QED BY <1>4, <1>11, <2>1, <2>2, <3>2
  <2> QED BY <2>2
<1>16. ASSUME NEW x \in Event \ E, IsTimed(ev, x)
       PROVE  /\ ev.event[x].time > NextTime
              /\ [event |-> x, time |-> ev.event[x].time] \in timed_events'
  <2>1. event[x].type = "timed"
    BY <1>9, <1>16 DEF IsTimed
  <2>2. event[x].time \in Nat /\ event[x].time > NextTime
    BY <1>4, <1>11, <2>1
  <2>3. PICK r : r = [event |-> x, time |-> event[x].time]
    OBVIOUS
  <2>4. r \in Live /\ r.time = event[x].time
    BY <1>3, <2>1, <2>3, LiveNotifications
  <2>5. r \in timed_events'
    BY <1>2, <2>2, <2>4 DEF Live
  <2> QED BY <1>9, <2>2, <2>3, <2>5
<1>17. InPlace(new, NextTime)
  <2>1. InPlace(ev, now) /\ now \in Nat /\ NextTime \in Nat
    BY <1>3, <1>4, <1>8
  <2> QED BY <1>11, <1>12, <1>14, <1>15, <1>16, <2>1, LaterInPlace
<1>18. InPlace(Events, now)'
  BY <1>2, <1>13, <1>17
<1> QED BY <1>5, <1>6, <1>7, <1>18 DEF IInv

-----------------------------------------------------------------------------
(* The invariant is inductive *)

LEMMA InitInv ==
  ASSUME Init
  PROVE  IInv
<1>1. /\ SetToSeq(Method) \in Seq(Method) /\ IsInjective(SetToSeq(Method))
      /\ ToSet(SetToSeq(Method)) = Method
  BY Processes, SetToSeqElements
<1>2. /\ SetToSeq(Thread) \in Seq(Thread) /\ IsInjective(SetToSeq(Thread))
      /\ ToSet(SetToSeq(Thread)) = Thread
  BY Processes, SetToSeqElements
<1>3. /\ queue.methods_pop = <<>> /\ queue.methods_push = SetToSeq(Method)
      /\ queue.threads_pop = <<>> /\ queue.threads_push = SetToSeq(Thread)
      /\ queue \in [methods_pop: Seq(Method), methods_push: Seq(Method),
                    threads_pop: Seq(Thread), threads_push: Seq(Thread)]
  BY <1>1, <1>2, EmptySeq DEF Init
<1>4. QueueOK(queue) /\ QueuedThreads(queue) = Thread /\ QueuedMethods(queue) = Method
  BY <1>1, <1>2, <1>3, EmptyElements DEF QueueOK, QueuedThreads, QueuedMethods
<1>5. /\ waiting \in [Event -> Seq(Thread)] /\ \A e \in Event : waiting[e] = <<>>
  BY EmptySeq DEF Init
<1>6. WaitsOnce /\ Awaiting(Event) = {}
  BY <1>5, EmptyElements DEF WaitsOnce, Awaiting
<1>7. Placed
  BY <1>4, <1>5, <1>6, Processes DEF Placed, Init
<1>8. Clocks
  <2>1. phase \in {"stopped", "methods", "threads", "update", "timed"}
    BY DEF Init
  <2>2. now \in 0..until_t /\ until_t \in 0..MaxTime /\ left \in 0..Budget
    BY KernelAssumption DEF Init
  <2>3. current \in Process \cup {None}
    BY DEF Init
  <2>4. cur_val \in BOOLEAN /\ new_val \in BOOLEAN
    BY Zenon DEF Init
  <2> QED BY <2>1, <2>2, <2>3, <2>4 DEF Clocks
<1>9. Owned
  BY NoneType, DifferentEvents DEF Owned, Init
<1>10. InPlace(Events, now)
  <2>1. PICK ev : ev = Events
    OBVIOUS
  <2>2. /\ ev.event = [e \in Event |-> None0] /\ ev.delta = <<>> /\ ev.timed = {}
        /\ ev \in EventRecord
    BY <2>1, NoneType, EmptySeq DEF Events, Init, EventRecord
  <2>3. ASSUME NEW x \in Event PROVE OneInPlace(ev, x, now)
    <3>1. ~IsDelta(ev, x) /\ ~IsTimed(ev, x) /\ 1..Len(ev.delta) = {}
      BY <2>2, NoneType, EmptySeq DEF IsDelta, IsTimed
    <3> QED BY <2>2, <3>1 DEF OneInPlace
  <2>4. InPlace(ev, now)
    BY <2>2, <2>3 DEF InPlace, OneInPlace
  <2> QED BY <2>1, <2>4
<1> QED BY <1>7, <1>8, <1>9, <1>10 DEF IInv

LEMMA NextInv ==
  ASSUME IInv, [Next]_vars
  PROVE  IInv'
<1>1. ASSUME NEW e \in UserEvent, NotifyImmediately(e) PROVE IInv'
  BY <1>1, NotifyImmediatelyInv
<1>2. ASSUME NEW e \in UserEvent, NEW d \in Delay, NotifyAfter(e, d) PROVE IInv'
  BY <1>2, NotifyAfterInv
<1>3. ASSUME NEW e \in UserEvent, NEW t \in Thread, WaitForEvent(t, e) PROVE IInv'
  BY <1>3, WaitForEventInv
<1>4. ASSUME NEW v \in BOOLEAN, Write(v) PROVE IInv'
  BY <1>4, WriteInv
<1>5. ASSUME NEW t \in Thread, NEW d \in Delay, WaitForTime(t, d) PROVE IInv'
  BY <1>5, WaitForTimeInv
<1>6. ASSUME NEW m \in Method, Return(m) PROVE IInv'
  BY <1>6, ReturnInv
<1>7. ProcessNext => IInv'
  BY <1>1, <1>2, <1>3, <1>4, <1>5, <1>6 DEF ProcessNext
<1>8. CASE RunMethod
  BY <1>8, RunMethodInv
<1>9. CASE MethodsDone
  BY <1>9, MethodsDoneInv
<1>10. CASE RunThread
  BY <1>10, RunThreadInv
<1>11. CASE ThreadsDone
  BY <1>11, ThreadsDoneInv
<1>12. CASE UpdateAndNotify
  BY <1>12, UpdateAndNotifyInv
<1>13. CASE TimeStep
  BY <1>13, TimeStepInv
<1>14. CASE ExitTime
  BY <1>14, ExitTimeInv
<1>15. ASSUME NEW duration \in Slices, Start(duration) PROVE IInv'
  BY <1>15, StartInv
<1>16. KernelNext => IInv'
  BY <1>8, <1>9, <1>10, <1>11, <1>12, <1>13, <1>14, <1>15 DEF KernelNext
<1>17. CASE UNCHANGED vars
  <2>1. /\ UNCHANGED <<phase, now, until_t, current, left, queue, waiting, event, delta_events,
                       timed_events, cur_val, new_val>>
    BY <1>17 DEF vars, timeVars, runVars, eventVars, signalVars
  <2>2. Clocks' /\ Owned'
    BY <2>1 DEF IInv, Clocks, Owned
  <2>3. Placed'
    BY <2>1 DEF IInv, Placed, WaitsOnce, Awaiting
  <2>4. InPlace(Events, now)'
    BY <2>1, EventsKept DEF IInv, eventVars
  <2> QED BY <2>2, <2>3, <2>4 DEF IInv
<1> QED BY <1>7, <1>16, <1>17 DEF Next

LEMMA InvAlways == Spec => []IInv
BY InitInv, NextInv, PTL DEF Spec

-----------------------------------------------------------------------------
(* What it says *)

LEMMA TypeCorrectInv ==
  ASSUME IInv
  PROVE  TypeOK
<1>1. InPlace(Events, now) /\ Clocks /\ Placed
  BY DEF IInv
<1>2. Events \in EventRecord
  BY <1>1 DEF InPlace
<1>3. /\ event \in [Event -> Notification] /\ delta_events \in Seq(Event)
      /\ timed_events \in SUBSET [event: Event \cup {None}, time: Nat]
  BY <1>2, EventParts DEF Events
<1>4. \A r \in timed_events : r.event \in Event \cup {None} /\ r.time \in Nat
  BY <1>3
<1> QED BY <1>1, <1>3, <1>4 DEF TypeOK, Clocks, Placed, QueueOK

LEMMA InPlaceInv ==
  ASSUME IInv
  PROVE  NotificationInPlace
<1>1. /\ Events \in EventRecord /\ \A x \in Event : OneInPlace(Events, x, now)
      /\ Events.event = event /\ Events.delta = delta_events /\ Events.timed = timed_events
  BY DEF IInv, Events, InPlace
<1>2. /\ delta_events \in Seq(Event)
      /\ timed_events \in SUBSET [event: Event \cup {None}, time: Nat]
  BY <1>1, EventParts
<1> DEFINE n == Len(delta_events)
<1>3. DOMAIN delta_events = 1..n
  BY <1>2, LenProperties
<1>4. ASSUME NEW x \in Event
      PROVE  /\ event[x].type = "delta" => event[x].index \in 1..n
             /\ \A i \in 1..n :
                  delta_events[i] = x <=> event[x].type = "delta" /\ i = event[x].index
             /\ \A r \in timed_events :
                  r.event = x => event[x].type = "timed" /\ r.time = event[x].time
             /\ event[x].type = "timed" => /\ [event |-> x, time |-> event[x].time] \in timed_events
                                           /\ event[x].time > now
  BY <1>1 DEF OneInPlace, IsDelta, IsTimed
<1> HIDE DEF n
<1>5. ASSUME NEW x \in Event
      PROVE  {i \in DOMAIN delta_events : delta_events[i] = x}
               = IF event[x].type = "delta" THEN {event[x].index} ELSE {}
  <2> DEFINE I == {i \in DOMAIN delta_events : delta_events[i] = x}
  <2>1. \A i : i \in I <=> i \in 1..n /\ delta_events[i] = x
    BY <1>3
  <2> HIDE DEF I
  <2>2. /\ event[x].type = "delta" => \A i : i \in I <=> i = event[x].index
        /\ event[x].type # "delta" => \A i : i \notin I
    <3>1. /\ event[x].type = "delta" => event[x].index \in 1..n
          /\ \A i \in 1..n : delta_events[i] = x <=> event[x].type = "delta" /\ i = event[x].index
      BY <1>4
    <3>2. ASSUME NEW i, i \in I PROVE event[x].type = "delta" /\ i = event[x].index
      BY <2>1, <3>1, <3>2
    <3>3. event[x].type = "delta" => event[x].index \in I
      BY <2>1, <3>1
    <3> QED BY <3>2, <3>3
  <2>3. I = IF event[x].type = "delta" THEN {event[x].index} ELSE {}
    BY <2>2
  <2> QED BY <2>3 DEF I
<1>6. ASSUME NEW x \in Event
      PROVE  {r.time : r \in {y \in timed_events : y.event = x}}
               = IF event[x].type = "timed" THEN {event[x].time} ELSE {}
  <2> DEFINE T == {r.time : r \in {y \in timed_events : y.event = x}}
  <2>1. ASSUME NEW u \in T PROVE event[x].type = "timed" /\ u = event[x].time
    <3>1. PICK r \in timed_events : r.event = x /\ u = r.time
      OBVIOUS
    <3> QED BY <1>4, <3>1
  <2>2. event[x].type = "timed" => event[x].time \in T
    <3>1. ASSUME event[x].type = "timed" PROVE event[x].time \in T
      <4>1. PICK r : r = [event |-> x, time |-> event[x].time]
        OBVIOUS
      <4>2. r \in timed_events /\ r.event = x /\ r.time = event[x].time
        BY <1>4, <3>1, <4>1
      <4> QED BY <4>2
    <3> QED BY <3>1
  <2> HIDE DEF T
  <2>3. T = IF event[x].type = "timed" THEN {event[x].time} ELSE {}
    BY <2>1, <2>2
  <2> QED BY <2>3 DEF T
<1> QED BY <1>4, <1>5, <1>6 DEF NotificationInPlace

LEMMA TimesOnce ==
  ASSUME NEW S, NEW s \in Seq(S), IsInjective(s), NEW p
  PROVE  Times(p, s) = IF p \in ToSet(s) THEN 1 ELSE 0
<1> DEFINE I == {i \in DOMAIN s : s[i] = p}
<1>1. /\ DOMAIN s = 1..Len(s)
      /\ \A x : x \in ToSet(s) <=> \E i \in 1..Len(s) : s[i] = x
      /\ \A i, j \in 1..Len(s) : s[i] = s[j] => i = j
  BY LenProperties, Elements
<1>2. CASE p \in ToSet(s)
  <2>1. PICK i \in 1..Len(s) : s[i] = p
    BY <1>1, <1>2
  <2>2. I = {i}
    BY <1>1, <2>1
  <2> QED BY <1>2, <2>2, FS_Singleton DEF Times
<1>3. CASE p \notin ToSet(s)
  <2>1. I = {}
    BY <1>1, <1>3
  <2> QED BY <1>3, <2>1, FS_EmptySet DEF Times
<1> QED BY <1>2, <1>3

LEMMA WaitsAtOnce ==
  ASSUME Placed, NEW p
  PROVE  Cardinality(Waits(p)) = IF p \in Awaiting(Event) THEN 1 ELSE 0
<1>1. ASSUME NEW e \in Event
      PROVE  /\ DOMAIN waiting[e] = 1..Len(waiting[e])
             /\ p \in ToSet(waiting[e]) <=> \E i \in 1..Len(waiting[e]) : waiting[e][i] = p
             /\ \A i, j \in 1..Len(waiting[e]) : waiting[e][i] = waiting[e][j] => i = j
  <2>1. waiting[e] \in Seq(Thread) /\ IsInjective(waiting[e])
    BY DEF Placed, WaitsOnce
  <2> QED BY <2>1, LenProperties, Elements
<1>2. \A w : w \in Waits(p) <=> \E e \in Event : \E i \in 1..Len(waiting[e]) :
                                  waiting[e][i] = p /\ w = <<e, i>>
  <2>1. \A w : w \in Waits(p) <=> \E e \in Event :
                 w \in {<<e, i>> : i \in {j \in DOMAIN waiting[e] : waiting[e][j] = p}}
    BY DEF Waits
  <2> QED BY <1>1, <2>1
<1>3. p \in Awaiting(Event) <=> \E e \in Event : p \in ToSet(waiting[e])
  BY DEF Awaiting
<1>4. CASE p \in Awaiting(Event)
  <2>1. PICK e \in Event : p \in ToSet(waiting[e])
    BY <1>3, <1>4
  <2>2. PICK i \in 1..Len(waiting[e]) : waiting[e][i] = p
    BY <1>1, <2>1
  <2>3. \A f \in Event : f # e => p \notin ToSet(waiting[f])
    BY <2>1 DEF Placed, WaitsOnce
  <2>4. \A w : w \in Waits(p) <=> w = <<e, i>>
    <3>1. ASSUME NEW w, w \in Waits(p) PROVE w = <<e, i>>
      <4>1. PICK f \in Event : \E k \in 1..Len(waiting[f]) : waiting[f][k] = p /\ w = <<f, k>>
        BY <1>2, <3>1
      <4>2. PICK j \in 1..Len(waiting[f]) : waiting[f][j] = p /\ w = <<f, j>>
        BY <4>1
      <4>3. p \in ToSet(waiting[f])
        BY <1>1, <4>2
      <4>4. f = e
        BY <2>3, <4>3
      <4>5. j = i
        BY <1>1, <2>2, <4>2, <4>4
      <4> QED BY <4>2, <4>4, <4>5
    <3>2. <<e, i>> \in Waits(p)
      BY <1>2, <2>2
    <3> QED BY <3>1, <3>2
  <2>5. Waits(p) = {<<e, i>>}
    BY <2>4
  <2> QED BY <1>4, <2>5, FS_Singleton
<1>5. CASE p \notin Awaiting(Event)
  <2>1. Waits(p) = {}
    BY <1>1, <1>2, <1>3, <1>5
  <2> QED BY <1>5, <2>1, FS_EmptySet
<1> QED BY <1>4, <1>5

LEMMA OnePlaceInv ==
  ASSUME IInv
  PROVE  OnePlace
<1>1. Placed
  BY DEF IInv
<1> DEFINE One(b) == IF b THEN 1 ELSE 0
<1>2. ASSUME NEW p
      PROVE  /\ Times(p, queue.methods_pop) = One(p \in ToSet(queue.methods_pop))
             /\ Times(p, queue.methods_push) = One(p \in ToSet(queue.methods_push))
             /\ Times(p, queue.threads_pop) = One(p \in ToSet(queue.threads_pop))
             /\ Times(p, queue.threads_push) = One(p \in ToSet(queue.threads_push))
             /\ Cardinality(Waits(p)) = One(p \in Awaiting(Event))
  BY <1>1, TimesOnce, WaitsAtOnce DEF Placed, QueueOK
<1>3. /\ QueuedMethods(queue) \subseteq Method /\ QueuedThreads(queue) \subseteq Thread
      /\ Awaiting(Event) \subseteq Thread /\ Thread \cap Method = {}
  BY <1>1, PlacesOfProcesses, Processes
<1>4. ASSUME NEW p \in Thread PROVE Places(p) = 1
  <2>1. p \notin ToSet(queue.methods_pop) /\ p \notin ToSet(queue.methods_push)
    BY <1>3 DEF QueuedMethods
  <2>2. \/ p \in ToSet(queue.threads_pop) /\ p \notin ToSet(queue.threads_push)
           /\ p \notin Awaiting(Event) /\ current # p
        \/ p \notin ToSet(queue.threads_pop) /\ p \in ToSet(queue.threads_push)
           /\ p \notin Awaiting(Event) /\ current # p
        \/ p \notin ToSet(queue.threads_pop) /\ p \notin ToSet(queue.threads_push)
           /\ p \in Awaiting(Event) /\ current # p
        \/ p \notin ToSet(queue.threads_pop) /\ p \notin ToSet(queue.threads_push)
           /\ p \notin Awaiting(Event) /\ current = p
    BY <1>1 DEF Placed, QueueOK, QueuedThreads
  <2> QED BY <1>2, <2>1, <2>2 DEF Places
<1>5. ASSUME NEW p \in Method PROVE Places(p) <= 1
  <2>1. p \notin ToSet(queue.threads_pop) /\ p \notin ToSet(queue.threads_push)
        /\ p \notin Awaiting(Event)
    BY <1>3 DEF QueuedThreads
  <2>2. \/ p \in ToSet(queue.methods_pop) /\ p \notin ToSet(queue.methods_push) /\ current # p
        \/ p \notin ToSet(queue.methods_pop) /\ p \in ToSet(queue.methods_push) /\ current # p
        \/ p \notin ToSet(queue.methods_pop) /\ p \notin ToSet(queue.methods_push)
    BY <1>1 DEF Placed, QueueOK, QueuedMethods
  <2> QED BY <1>2, <2>1, <2>2 DEF Places
<1> QED BY <1>4, <1>5 DEF OnePlace, Process

\* Every variable of the kernel keeps its type, for any processes, events and budgets:
\* no index of an event leaves its vector, and time never passes the end of a slice.
THEOREM TypeCorrect == Spec => []TypeOK
BY InvAlways, TypeCorrectInv, PTL

\* push_back_thread never queues a process that runs, waits or is queued already, so
\* that the assertion commented out there would hold, for any number of processes.
THEOREM EveryoneInOnePlace == Spec => []OnePlace
BY InvAlways, OnePlaceInv, PTL

\* notify, cancel and the removal from m_delta_events, which moves the last event to the
\* place of the removed one, leave every pending notification where its event says it is.
THEOREM NotificationsInPlace == Spec => []NotificationInPlace
BY InvAlways, InPlaceInv, PTL

-----------------------------------------------------------------------------
(* The kernel implements the scheduler *)

\* Nothing is runnable when signals are updated, nor when time goes on; then no delta
\* notification is pending either.
Calm ==
  /\ phase \in {"update", "timed"} => Queued(queue) = {}
  /\ phase = "timed" => delta_events = <<>> /\ new_val = cur_val
  /\ current # None => phase \in {"methods", "threads"}

LEMMA MethodsToggledQueued ==
  ASSUME NEW q, QueueOK(q)
  PROVE  Queued(toggle_methods(q)) = Queued(q)
BY MethodsToggled, QueuedIs

LEMMA ThreadsToggledQueued ==
  ASSUME NEW q, QueueOK(q)
  PROVE  Queued(toggle_threads(q)) = Queued(q)
BY ThreadsToggled, QueuedIs

LEMMA CalmStep ==
  ASSUME IInv, Calm, [Next]_vars
  PROVE  Calm'
<1>1. ASSUME Operates PROVE Calm'
  <2>1. current # None /\ phase \in {"methods", "threads"} /\ phase' = phase
    BY <1>1 DEF Calm, Operates, timeVars
  <2> QED BY <2>1 DEF Calm
<1>2. ASSUME NEW p \in Process, Runs(p), Suspend PROVE Calm'
  <2>1. p # None
    BY KernelAssumption
  <2>2. phase \in {"methods", "threads"} /\ phase' = phase /\ current' = None
    BY <1>2, <2>1 DEF Calm, Runs, Suspend, timeVars
  <2> QED BY <2>2 DEF Calm
<1>3. ProcessNext => Calm'
  <2>1. Thread \subseteq Process /\ Method \subseteq Process
    BY DEF Process
  <2> QED BY <1>1, <1>2, <2>1 DEF ProcessNext, NotifyImmediately, NotifyAfter, Write,
                                  WaitForEvent, WaitForTime, Return
<1>4. CASE RunMethod \/ MethodsDone \/ RunThread
  <2>1. phase' \in {"methods", "threads"}
    BY <1>4 DEF RunMethod, MethodsDone, RunThread, Crunches, timeVars
  <2> QED BY <2>1 DEF Calm
<1>5. CASE ThreadsDone
  <2>1. Queued(queue') = Queued(queue)
    BY <1>5, MethodsToggledQueued DEF ThreadsDone, IInv, Placed
  <2>2. current' = None /\ phase' = IF Queued(queue) = {} THEN "update" ELSE "methods"
    BY <1>5 DEF ThreadsDone, Crunches, runVars
  <2> QED BY <2>1, <2>2 DEF Calm
<1>6. CASE UpdateAndNotify
  <2>1. PICK events \in Seq(Event) :
          /\ IsInjective(events)
          /\ queue' = toggle_methods(Trigger(events, None))
          /\ phase' = IF Queued(Trigger(events, None)) = {} THEN "timed" ELSE "methods"
    BY <1>6, NotificationPhase
  <2>2. /\ current = None /\ current' = None /\ delta_events' = <<>>
        /\ new_val' = new_val /\ cur_val' = new_val
    BY <1>6 DEF UpdateAndNotify, Crunches, runVars
  <2>3. Queued(queue') = Queued(Trigger(events, None))
    BY <2>1, <2>2, Triggers, MethodsToggledQueued DEF IInv
  <2> QED BY <2>1, <2>2, <2>3 DEF Calm
<1>7. CASE TimeStep
  <2>1. PICK order \in Seq(Event) :
          /\ IsInjective(order)
          /\ queue' \in {Trigger(order, None), toggle_methods(Trigger(order, None))}
          /\ phase' = IF Queued(Trigger(order, None)) = {} THEN "timed"
                      ELSE IF NextTime < until_t THEN "methods" ELSE "stopped"
    BY <1>7, EarliestNotifications
  <2>2. /\ current = None /\ current' = None /\ phase = "timed"
        /\ UNCHANGED <<delta_events, cur_val, new_val>>
    BY <1>7 DEF TimeStep, Crunches, runVars, signalVars
  <2>3. Queued(queue') = Queued(Trigger(order, None))
    BY <2>1, <2>2, Triggers, MethodsToggledQueued DEF IInv
  <2> QED BY <2>1, <2>2, <2>3 DEF Calm
<1>8. CASE ExitTime
  BY <1>8 DEF ExitTime, Crunches, runVars, Calm
<1>9. ASSUME NEW duration \in Slices, Start(duration) PROVE Calm'
  <2>1. phase' = "methods"
    BY <1>9 DEF Start
  <2> QED BY <2>1 DEF Calm
<1>10. CASE UNCHANGED vars
  BY <1>10 DEF vars, timeVars, runVars, eventVars, signalVars, Calm
<1> QED BY <1>3, <1>4, <1>5, <1>6, <1>7, <1>8, <1>9, <1>10 DEF Next, KernelNext

LEMMA CalmAlways == Spec => []Calm
<1>1. Init => Calm
  BY DEF Init, Calm
<1> QED BY <1>1, CalmStep, InvAlways, PTL DEF Spec

-----------------------------------------------------------------------------
(* The refinement mapping *)

LEMMA PendingIs ==
  ASSUME NEW ns \in [Event -> Notification], NEW e \in Event
  PROVE  /\ ns[e].type = "none" => Pending(ns)[e] = None
         /\ ns[e].type = "delta" => Pending(ns)[e] = delta
         /\ ns[e].type = "timed" => Pending(ns)[e] = ns[e].time
         /\ ns[e].type \in {"none", "delta", "timed"}
<1>1. ns[e].type \in {"none", "delta", "timed"}
  BY DEF Notification
<1> QED BY <1>1 DEF Pending

LEMMA PendingFunction ==
  ASSUME NEW ns
  PROVE  Pending(ns) = [e \in Event |-> Pending(ns)[e]]
<1> DEFINE P(e) == CASE ns[e].type = "none"  -> None
                     [] ns[e].type = "delta" -> delta
                     [] ns[e].type = "timed" -> ns[e].time
<1>1. Pending(ns) = [e \in Event |-> P(e)]
  BY DEF Pending
<1> HIDE DEF P
<1> QED BY <1>1

\* A step that has to do with one event.
LEMMA PendingExcept ==
  ASSUME NEW old \in [Event -> Notification], NEW new \in [Event -> Notification],
         NEW e \in Event,
         \A x \in Event : x # e => new[x].type = old[x].type /\ new[x].time = old[x].time
  PROVE  Pending(new) = [Pending(old) EXCEPT ![e] = Pending(new)[e]]
<1>1. ASSUME NEW x \in Event, x # e PROVE Pending(new)[x] = Pending(old)[x]
  BY <1>1, PendingIs
<1> QED BY <1>1, PendingFunction

LEMMA SleepingIs ==
  ASSUME NEW w, \A e, f \in Event : e # f => ToSet(w[e]) \cap ToSet(w[f]) = {},
         NEW t \in Thread
  PROVE  /\ \A e \in Event : Sleeping(w)[t] = e <=> t \in ToSet(w[e])
         /\ Sleeping(w)[t] \in Event \cup {None}
<1>1. Sleeping(w)[t] = IF \E e \in Event : t \in ToSet(w[e])
                       THEN CHOOSE e \in Event : t \in ToSet(w[e]) ELSE None
  BY DEF Sleeping
<1>2. CASE \E e \in Event : t \in ToSet(w[e])
  <2>1. PICK e \in Event : e = Sleeping(w)[t] /\ t \in ToSet(w[e])
    BY <1>1, <1>2
  <2> QED BY <2>1
<1>3. CASE ~ \E e \in Event : t \in ToSet(w[e])
  BY <1>1, <1>3, Processes
<1> QED BY <1>2, <1>3

LEMMA SleepingFunction == \A w : Sleeping(w) = [t \in Thread |-> Sleeping(w)[t]]
BY DEF Sleeping

\* Triggering is an occurrence of the events.
LEMMA TriggerIsOccur ==
  ASSUME Placed, NEW events \in Seq(Event), IsInjective(events),
         queue' \in {Trigger(events, current), toggle_methods(Trigger(events, current))},
         NoLongerWaiting(events)
  PROVE  Abstract!Occur(ToSet(events), Method \ {current})
<1> DEFINE E == ToSet(events)
           q == Trigger(events, current)
<1>1. E \subseteq Event /\ WaitsOnce /\ waiting \in [Event -> Seq(Thread)]
  BY Elements DEF Placed
<1>2. ASSUME NEW t \in Thread
      PROVE  /\ \A e \in Event : Sleeping(waiting)[t] = e <=> t \in ToSet(waiting[e])
             /\ Sleeping(waiting)[t] \in Event \cup {None}
  BY <1>1, SleepingIs DEF WaitsOnce
<1>3. None \notin Event
  BY Processes
<1>4. /\ QueueOK(q) /\ QueuedThreads(q) = QueuedThreads(queue) \cup Awaiting(E)
      /\ QueuedMethods(q) = QueuedMethods(queue)
                              \cup {m \in Method \ {current} : Sensitive[m] \cap E # {}}
  BY Triggers
<1>5. Queued(queue') = Queued(q)
  BY <1>4, MethodsToggledQueued
<1>6. Awaiting(E) = {t \in Thread : Sleeping(waiting)[t] \in E}
  <2>1. ASSUME NEW t, t \in Awaiting(E) PROVE t \in Thread /\ Sleeping(waiting)[t] \in E
    <3>1. PICK e \in E : t \in ToSet(waiting[e])
      BY <2>1 DEF Awaiting
    <3>2. t \in Thread
      BY <1>1, <3>1, Elements
    <3> QED BY <1>1, <1>2, <3>1, <3>2
  <2>2. ASSUME NEW t \in Thread, Sleeping(waiting)[t] \in E PROVE t \in Awaiting(E)
    <3>1. PICK e \in E : e = Sleeping(waiting)[t]
      BY <2>2
    <3> QED BY <1>1, <1>2, <3>1 DEF Awaiting
  <2> QED BY <2>1, <2>2
<1>7. Queued(queue') = Queued(queue) \cup {m \in Method \ {current} : Sensitive[m] \cap E # {}}
                                     \cup {t \in Thread : Sleeping(waiting)[t] \in E}
  BY <1>4, <1>5, <1>6, QueuedIs
<1>8. ASSUME NEW t \in Thread
      PROVE  Sleeping(waiting')[t] =
               IF Sleeping(waiting)[t] \in E THEN None ELSE Sleeping(waiting)[t]
  <2>1. \A e \in Event : ToSet(waiting'[e]) = IF e \in E THEN {} ELSE ToSet(waiting[e])
    BY EmptyElements DEF NoLongerWaiting
  <2>2. \A e, f \in Event : e # f => ToSet(waiting'[e]) \cap ToSet(waiting'[f]) = {}
    BY <1>1, <2>1 DEF WaitsOnce
  <2>3. /\ \A e \in Event : Sleeping(waiting')[t] = e <=> t \in ToSet(waiting'[e])
        /\ Sleeping(waiting')[t] \in Event \cup {None}
    BY <2>2, SleepingIs
  <2> QED BY <1>1, <1>2, <1>3, <2>1, <2>3
<1>9. Sleeping(waiting') = [t \in Thread |-> IF Sleeping(waiting)[t] \in E
                                             THEN None ELSE Sleeping(waiting)[t]]
  BY <1>8, SleepingFunction
<1> QED BY <1>7, <1>9 DEF Abstract!Occur

-----------------------------------------------------------------------------
(* Every step is one of the scheduler, or leaves it as it is *)

LEMMA EventsMap ==
  ASSUME IInv
  PROVE  /\ event \in [Event -> Notification] /\ now \in Nat
         /\ Events.event = event
         /\ None \notin Nat /\ delta \notin Nat /\ delta # None
BY NatNow, KernelAssumption, DeltaAssumption DEF IInv, InPlace, EventRecord, Events

LEMMA NotifyImmediatelyMaps ==
  ASSUME IInv, NEW e \in UserEvent, NotifyImmediately(e)
  PROVE  Abstract!NotifyImmediately(e)
<1>1. e \in Event
  BY DifferentEvents
<1>2. PICK s : s = <<e>>
  OBVIOUS
<1>3. s \in Seq(Event) /\ IsInjective(s) /\ ToSet(s) = {e}
  <2>1. s \in Seq(Event) /\ DOMAIN s = {1} /\ s[1] = e
    BY <1>1, <1>2
  <2> QED BY <2>1 DEF IsInjective, ToSet
<1>4. Abstract!Occur({e}, Method \ {current})
  <2>1. queue' = Trigger(s, current) /\ NoLongerWaiting(s)
    BY <1>2 DEF NotifyImmediately
  <2>2. queue' \in {Trigger(s, current), toggle_methods(Trigger(s, current))}
    BY <2>1
  <2>3. Abstract!Occur(ToSet(s), Method \ {current})
    BY <1>3, <2>1, <2>2, TriggerIsOccur DEF IInv
  <2> QED BY <1>3, <2>3
<1>5. PICK ev : ev = cancel(Events, e)
  OBVIOUS
<1>6. InPlace(ev, now) /\ ev.event[e].type = "none" /\ Others(Events, ev, e)
  BY <1>1, <1>5, Cancel, NatNow DEF IInv
<1>7. event' = ev.event /\ ev.event \in [Event -> Notification]
  BY <1>5, <1>6 DEF NotifyImmediately, SetEvents, InPlace, EventRecord
<1>8. Pending(event') = [Pending(event) EXCEPT ![e] = None]
  <2>1. \A x \in Event : x # e => event'[x].type = event[x].type /\ event'[x].time = event[x].time
    BY <1>6, <1>7, EventsMap DEF Others
  <2>2. event \in [Event -> Notification]
    BY EventsMap
  <2>3. PICK new : new = event'
    OBVIOUS
  <2>4. Pending(new) = [Pending(event) EXCEPT ![e] = Pending(new)[e]]
    BY <1>1, <1>7, <2>1, <2>2, <2>3, PendingExcept
  <2>5. Pending(new)[e] = None
    BY <1>1, <1>6, <1>7, <2>3, PendingIs
  <2> QED BY <2>3, <2>4, <2>5
<1>9. current # None /\ UNCHANGED <<now, current, cur_val, new_val>>
  BY DEF NotifyImmediately, Operates, timeVars, signalVars
<1> QED BY <1>4, <1>8, <1>9 DEF Abstract!NotifyImmediately

LEMMA NotifyAfterMaps ==
  ASSUME IInv, NEW e \in UserEvent, NEW d \in Delay, NotifyAfter(e, d)
  PROVE  Abstract!NotifyAfter(e, d)
<1>1. e \in Event /\ d \in Nat
  BY DifferentEvents, KernelAssumption
<1>2. PICK ev : ev = Notified(Events, e, d)
  OBVIOUS
<1>3. /\ InPlace(ev, now) /\ Others(Events, ev, e)
      /\ IF IsDelta(Events, e) \/ d = 0 THEN ev.event[e].type = "delta"
         ELSE IF IsTimed(Events, e) /\ Events.event[e].time <= now + d THEN ev = Events
         ELSE ev.event[e].type = "timed" /\ ev.event[e].time = now + d
  BY <1>1, <1>2, NotifiedInPlace, NatNow DEF IInv
<1>4. event' = ev.event /\ ev.event \in [Event -> Notification]
  BY <1>2, <1>3 DEF NotifyAfter, SetEvents, InPlace, EventRecord
<1>5. /\ event \in [Event -> Notification] /\ now \in Nat /\ Events.event = event
      /\ None \notin Nat /\ delta \notin Nat /\ delta # None
  BY EventsMap
<1>6. /\ event[e].type = "timed" => event[e].time \in Nat
      /\ InPlace(Events, now)
  BY <1>1, LiveNotifications DEF IInv
<1>7. PICK new : new = event'
  OBVIOUS
<1>8. Pending(new) = [Pending(event) EXCEPT ![e] = Pending(new)[e]]
  <2>1. \A x \in Event : x # e => new[x].type = event[x].type /\ new[x].time = event[x].time
    BY <1>3, <1>4, <1>5, <1>7 DEF Others
  <2> QED BY <1>1, <1>4, <1>5, <1>7, <2>1, PendingExcept
<1>9. Pending(new)[e] = Abstract!Earlier(Pending(event)[e], d)
  <2>1. /\ new[e].type = "delta" => Pending(new)[e] = delta
        /\ new[e].type = "timed" => Pending(new)[e] = new[e].time
    BY <1>1, <1>4, <1>7, PendingIs
  <2>2. /\ event[e].type = "none" => Pending(event)[e] = None
        /\ event[e].type = "delta" => Pending(event)[e] = delta
        /\ event[e].type = "timed" => Pending(event)[e] = event[e].time
        /\ event[e].type \in {"none", "delta", "timed"}
    BY <1>1, <1>5, PendingIs
  <2>3. IF event[e].type = "delta" \/ d = 0 THEN new[e].type = "delta"
        ELSE IF event[e].type = "timed" /\ event[e].time <= now + d THEN new = event
        ELSE new[e].type = "timed" /\ new[e].time = now + d
    BY <1>3, <1>4, <1>5, <1>7 DEF IsDelta, IsTimed
  <2>4. CASE event[e].type = "delta" \/ d = 0
    BY <2>1, <2>2, <2>3, <2>4 DEF Abstract!Earlier
  <2>5. CASE event[e].type = "timed" /\ d # 0
    BY <1>5, <1>6, <2>1, <2>2, <2>3, <2>5 DEF Abstract!Earlier
  <2>6. CASE event[e].type = "none" /\ d # 0
    BY <1>5, <2>1, <2>2, <2>3, <2>6 DEF Abstract!Earlier
  <2> QED BY <2>2, <2>4, <2>5, <2>6
<1>10. Pending(event') = [Pending(event) EXCEPT ![e] = Abstract!Earlier(@, d)]
  BY <1>1, <1>7, <1>8, <1>9, PendingFunction
<1>11. current # None /\ UNCHANGED <<now, queue, current, waiting, cur_val, new_val>>
  BY DEF NotifyAfter, Operates, timeVars, signalVars
<1> QED BY <1>10, <1>11 DEF Abstract!NotifyAfter

LEMMA WriteMaps ==
  ASSUME NEW v \in BOOLEAN, Write(v)
  PROVE  Abstract!Write(v)
<1>1. /\ current # None /\ new_val' = v
      /\ UNCHANGED <<now, event, queue, current, waiting, cur_val>>
  BY DEF Write, Operates, timeVars, eventVars
<1> QED BY <1>1 DEF Abstract!Write

LEMMA SleepsThen ==
  ASSUME Placed, NEW t \in Thread, current = t, NEW e \in Event,
         waiting' = [waiting EXCEPT ![e] = Append(@, t)], current' = None, UNCHANGED queue
  PROVE  Sleeping(waiting') = [Sleeping(waiting) EXCEPT ![t] = e]
<1>1. /\ Placed' /\ ToSet(waiting'[e]) = ToSet(waiting[e]) \cup {t}
      /\ \A f \in Event : f # e => waiting'[f] = waiting[f]
  BY WaitPlaced
<1>2. ASSUME NEW u \in Thread
      PROVE  /\ \A f \in Event : Sleeping(waiting)[u] = f <=> u \in ToSet(waiting[f])
             /\ Sleeping(waiting)[u] \in Event \cup {None}
  BY SleepingIs DEF Placed, WaitsOnce
<1>3. PICK w : w = waiting'
  OBVIOUS
<1>4. \A f, g \in Event : f # g => ToSet(w[f]) \cap ToSet(w[g]) = {}
  BY <1>1, <1>3 DEF Placed, WaitsOnce
<1>5. ASSUME NEW u \in Thread
      PROVE  /\ \A f \in Event : Sleeping(w)[u] = f <=> u \in ToSet(w[f])
             /\ Sleeping(w)[u] \in Event \cup {None}
  BY <1>4, SleepingIs
<1>6. ASSUME NEW u \in Thread
      PROVE  Sleeping(w)[u] = IF u = t THEN e ELSE Sleeping(waiting)[u]
  <2>0. None \notin Event
    BY Processes
  <2>1. CASE u = t
    <3>1. u \in ToSet(w[e])
      BY <1>1, <1>3, <2>1
    <3> QED BY <1>5, <2>1, <3>1
  <2>2. CASE u # t
    <3>1. \A f \in Event : u \in ToSet(w[f]) <=> u \in ToSet(waiting[f])
      BY <1>1, <1>3, <2>2
    <3>2. \A f \in Event : Sleeping(w)[u] = f <=> Sleeping(waiting)[u] = f
      BY <1>2, <1>5, <3>1
    <3>3. Sleeping(w)[u] \in Event \cup {None} /\ Sleeping(waiting)[u] \in Event \cup {None}
      BY <1>2, <1>5
    <3> QED BY <2>0, <2>2, <3>2, <3>3
  <2> QED BY <2>1, <2>2
<1> QED BY <1>3, <1>6, SleepingFunction

LEMMA WaitForEventMaps ==
  ASSUME IInv, NEW t \in Thread, NEW e \in UserEvent, WaitForEvent(t, e)
  PROVE  Abstract!Wait(e)
<1>1. /\ current = t /\ current' = None /\ e \in Event
      /\ waiting' = [waiting EXCEPT ![e] = Append(@, t)]
      /\ UNCHANGED <<now, queue, event, cur_val, new_val>>
  BY DifferentEvents DEF WaitForEvent, Runs, Suspend, timeVars, eventVars, signalVars
<1>2. Sleeping(waiting') = [Sleeping(waiting) EXCEPT ![t] = e]
  BY <1>1, SleepsThen DEF IInv
<1> QED BY <1>1, <1>2 DEF Abstract!Wait

LEMMA WaitForTimeMaps ==
  ASSUME IInv, NEW t \in Thread, NEW d \in Delay, WaitForTime(t, d)
  PROVE  Abstract!Wait(timeout[t])
<1>1. PICK e \in Event : e = timeout[t]
  BY DifferentEvents
<1>2. /\ current = t /\ current' = None
      /\ waiting' = [waiting EXCEPT ![e] = Append(@, t)]
      /\ SetEvents(notify_internal(Events, e, d))
      /\ UNCHANGED <<now, queue, cur_val, new_val>>
  BY <1>1 DEF WaitForTime, Runs, Suspend, timeVars, signalVars
<1>3. Sleeping(waiting') = [Sleeping(waiting) EXCEPT ![t] = e]
  BY <1>2, SleepsThen DEF IInv
<1>4. event[e].type = "none"
  <2>1. event[e].type # "none" => t \in ToSet(waiting[e])
    BY <1>1 DEF IInv, Owned
  <2>2. t \notin ToSet(waiting[e])
    BY <1>2 DEF IInv, Placed, Awaiting
  <2> QED BY <2>1, <2>2
<1>5. PICK ev : ev = notify_internal(Events, e, d)
  OBVIOUS
<1>6. d \in Nat /\ Events.event[e].type = "none" /\ event \in [Event -> Notification]
      /\ Events.event = event
  BY <1>4, KernelAssumption, EventsMap
<1>7. /\ InPlace(ev, now) /\ Others(Events, ev, e)
      /\ IF d = 0 THEN ev.event[e].type = "delta"
         ELSE ev.event[e].type = "timed" /\ ev.event[e].time = now + d
  BY <1>5, <1>6, NotifyInternal, NatNow DEF IInv
<1>8. PICK new : new = event'
  OBVIOUS
<1>9. new = ev.event /\ new \in [Event -> Notification]
  BY <1>2, <1>5, <1>7, <1>8 DEF SetEvents, InPlace, EventRecord
<1>10. Pending(new) = [Pending(event) EXCEPT ![e] = Pending(new)[e]]
  <2>1. \A x \in Event : x # e => new[x].type = event[x].type /\ new[x].time = event[x].time
    BY <1>6, <1>7, <1>9 DEF Others
  <2> QED BY <1>6, <1>9, <2>1, PendingExcept
<1>11. Pending(new)[e] = IF d = 0 THEN delta ELSE now + d
  BY <1>7, <1>9, PendingIs
<1>12. Pending(event)[e] = None
  BY <1>4, <1>6, PendingIs
<1>13. /\ Pending(event') = [Pending(event) EXCEPT ![e] = IF d = 0 THEN delta ELSE now + d]
       /\ Pending(event)[e] = None
  BY <1>8, <1>10, <1>11, <1>12
<1>14. Abstract!Wait(e)
  BY <1>2, <1>3, <1>13 DEF Abstract!Wait
<1> QED BY <1>1, <1>14

LEMMA ReturnMaps ==
  ASSUME NEW m \in Method, Return(m)
  PROVE  Abstract!Return
<1>1. /\ current = m /\ current' = None
      /\ UNCHANGED <<now, event, queue, waiting, cur_val, new_val>>
  BY DEF Return, Runs, Suspend, timeVars, eventVars, signalVars
<1> QED BY <1>1 DEF Abstract!Return

LEMMA RunMethodMaps ==
  ASSUME IInv, RunMethod
  PROVE  \E p \in Thread \cup Method : Abstract!Run(p)
<1> DEFINE s == queue.methods_pop
           p == Head(s)
<1>1. /\ Placed /\ s # <<>> /\ current = None /\ current' = p
      /\ queue' = [queue EXCEPT !.methods_pop = Tail(@)]
      /\ UNCHANGED <<now, waiting, event, cur_val, new_val>>
  BY DEF IInv, RunMethod, Crunches, timeVars, eventVars, signalVars
<1>2. s \in Seq(Method) /\ IsInjective(s)
  BY <1>1 DEF Placed, QueueOK
<1>3. /\ p \in Method /\ Tail(s) \in Seq(Method)
      /\ ToSet(s) = {p} \cup ToSet(Tail(s)) /\ p \notin ToSet(Tail(s))
  BY <1>1, <1>2, TailElements
<1>4. /\ queue'.methods_pop = Tail(s) /\ queue'.methods_push = queue.methods_push
      /\ queue'.threads_pop = queue.threads_pop /\ queue'.threads_push = queue.threads_push
  BY <1>1 DEF Placed, QueueOK
<1>5. p \notin ToSet(queue.methods_push) /\ p \notin QueuedThreads(queue)
  <2>1. p \notin ToSet(queue.methods_push)
    BY <1>1, <1>3 DEF Placed, QueueOK
  <2>2. p \notin QueuedThreads(queue)
    BY <1>1, <1>3, PlacesOfProcesses, Processes
  <2> QED BY <2>1, <2>2
<1> HIDE DEF s, p
<1>6. p \in Queued(queue) /\ Queued(queue') = Queued(queue) \ {p}
  BY <1>3, <1>4, <1>5 DEF Queued, QueuedThreads, s
<1>7. Abstract!Run(p)
  BY <1>1, <1>6 DEF Abstract!Run
<1> QED BY <1>3, <1>7

LEMMA RunThreadMaps ==
  ASSUME IInv, RunThread
  PROVE  \E p \in Thread \cup Method : Abstract!Run(p)
<1> DEFINE s == queue.threads_pop
           p == Head(s)
<1>1. /\ Placed /\ s # <<>> /\ current = None /\ current' = p
      /\ queue' = [queue EXCEPT !.threads_pop = Tail(@)]
      /\ UNCHANGED <<now, waiting, event, cur_val, new_val>>
  BY DEF IInv, RunThread, Crunches, timeVars, eventVars, signalVars
<1>2. s \in Seq(Thread) /\ IsInjective(s)
  BY <1>1 DEF Placed, QueueOK
<1>3. /\ p \in Thread /\ Tail(s) \in Seq(Thread)
      /\ ToSet(s) = {p} \cup ToSet(Tail(s)) /\ p \notin ToSet(Tail(s))
  BY <1>1, <1>2, TailElements
<1>4. /\ queue'.threads_pop = Tail(s) /\ queue'.threads_push = queue.threads_push
      /\ queue'.methods_pop = queue.methods_pop /\ queue'.methods_push = queue.methods_push
  BY <1>1 DEF Placed, QueueOK
<1>5. p \notin ToSet(queue.threads_push) /\ p \notin QueuedMethods(queue)
  <2>1. p \notin ToSet(queue.threads_push)
    BY <1>1, <1>3 DEF Placed, QueueOK
  <2>2. p \notin QueuedMethods(queue)
    BY <1>1, <1>3, PlacesOfProcesses, Processes
  <2> QED BY <2>1, <2>2
<1> HIDE DEF s, p
<1>6. p \in Queued(queue) /\ Queued(queue') = Queued(queue) \ {p}
  BY <1>3, <1>4, <1>5 DEF Queued, QueuedMethods, s
<1>7. Abstract!Run(p)
  BY <1>1, <1>6 DEF Abstract!Run
<1> QED BY <1>3, <1>7

LEMMA DeltasAre ==
  ASSUME IInv
  PROVE  Abstract!Deltas = {x \in Event : \/ event[x].type = "delta"
                                          \/ x = change /\ new_val # cur_val}
<1>1. ASSUME NEW x \in Event PROVE Pending(event)[x] = delta <=> event[x].type = "delta"
  <2>1. event \in [Event -> Notification] /\ delta \notin Nat /\ delta # None
    BY EventsMap
  <2>2. event[x].type = "timed" => event[x].time \in Nat
    BY LiveNotifications DEF IInv
  <2> QED BY <2>1, <2>2, PendingIs
<1>2. change \in Event /\ (cur_val # new_val <=> new_val # cur_val)
  BY DifferentEvents
<1>3. Abstract!Deltas = {x \in Event : Pending(event)[x] = delta}
                          \cup (IF cur_val # new_val THEN {change} ELSE {})
  BY DEF Abstract!Deltas
<1> QED BY <1>1, <1>2, <1>3

LEMMA UpdateAndNotifyMaps ==
  ASSUME IInv, Calm, UpdateAndNotify
  PROVE  Abstract!DeltaCycle
<1>1. PICK events \in Seq(Event) :
        /\ IsInjective(events)
        /\ \A x \in Event : x \in ToSet(events) <=>
             \/ event[x].type = "delta"
             \/ x = change /\ new_val # cur_val
        /\ queue' = toggle_methods(Trigger(events, None)) /\ NoLongerWaiting(events)
  BY NotificationPhase
<1>2. /\ current = None /\ current' = None /\ phase = "update" /\ cur_val' = new_val
      /\ UNCHANGED <<now, new_val>>
      /\ event' = [e \in Event |-> IF event[e].type = "timed" THEN event[e] ELSE None0]
  BY DEF UpdateAndNotify, Crunches, runVars
<1>3. Abstract!Deltas = ToSet(events)
  <2>1. ToSet(events) \subseteq Event
    BY Elements
  <2> QED BY <1>1, <2>1, DeltasAre
<1>4. Abstract!Occur(Abstract!Deltas, Method)
  <2>1. queue' \in {Trigger(events, current), toggle_methods(Trigger(events, current))}
    BY <1>1, <1>2
  <2>2. Method \ {current} = Method
    BY <1>2, Processes
  <2>3. Abstract!Occur(ToSet(events), Method \ {current})
    BY <1>1, <2>1, TriggerIsOccur DEF IInv
  <2> QED BY <1>3, <2>2, <2>3
<1>5. Abstract!Quiet
  BY <1>2 DEF Abstract!Quiet, Calm
<1>6. PICK new : new = event'
  OBVIOUS
<1>7. ASSUME NEW x \in Event
      PROVE  Pending(new)[x] = IF x \in ToSet(events) THEN None ELSE Pending(event)[x]
  <2>1. event \in [Event -> Notification]
    BY EventsMap
  <2>2. new[x] = IF event[x].type = "timed" THEN event[x] ELSE None0
    BY <1>2, <1>6
  <2>3. new \in [Event -> Notification]
    BY <1>2, <1>6, <2>1, NoneType
  <2>4. event[change].type = "none"
    BY DEF IInv, Owned
  <2>5. CASE event[x].type = "timed"
    <3>1. x \notin ToSet(events)
      BY <1>1, <2>4, <2>5
    <3> QED BY <2>1, <2>2, <2>3, <2>5, <3>1, PendingIs
  <2>6. CASE event[x].type # "timed"
    <3>1. Pending(new)[x] = None
      BY <2>2, <2>3, <2>6, NoneType, PendingIs
    <3>2. x \notin ToSet(events) => Pending(event)[x] = None
      BY <1>1, <2>1, <2>6, PendingIs
    <3> QED BY <3>1, <3>2
  <2> QED BY <2>5, <2>6
<1>8. Pending(event') = [e \in Event |-> IF e \in ToSet(events) THEN None ELSE Pending(event)[e]]
  BY <1>6, <1>7, PendingFunction
<1> QED BY <1>2, <1>3, <1>4, <1>5, <1>8 DEF Abstract!DeltaCycle

LEMMA TimedAre ==
  ASSUME IInv
  PROVE  /\ Abstract!Timed = {x \in Event : event[x].type = "timed"}
         /\ \A x \in Event : event[x].type = "timed" => Pending(event)[x] = event[x].time
<1>1. event \in [Event -> Notification] /\ None \notin Nat /\ delta \notin Nat
  BY EventsMap
<1>2. ASSUME NEW x \in Event
      PROVE  /\ Pending(event)[x] \notin {None, delta} <=> event[x].type = "timed"
             /\ event[x].type = "timed" => Pending(event)[x] = event[x].time
  <2>1. event[x].type = "timed" => event[x].time \in Nat
    BY LiveNotifications DEF IInv
  <2> QED BY <1>1, <2>1, PendingIs
<1> QED BY <1>2 DEF Abstract!Timed

\* Time goes on to t, when the events in E occur.
LEMMA AdvanceMaps ==
  ASSUME IInv, Calm, phase = "timed", current = None, NEW t \in Nat, t > now, now' = t,
         \A x \in Event : event[x].type = "timed" => event[x].time >= t,
         NEW E, E = {x \in Event : event[x].type = "timed" /\ event[x].time = t},
         event' = [x \in Event |-> IF x \in E THEN None0 ELSE event[x]],
         Abstract!Occur(E, Method), UNCHANGED <<current, cur_val, new_val>>
  PROVE  Abstract!Advance
<1>1. Abstract!Quiet
  BY DEF Abstract!Quiet, Calm
<1>2. Abstract!Deltas = {}
  <2>1. delta_events = <<>> /\ new_val = cur_val
    BY DEF Calm
  <2>2. ASSUME NEW x \in Event, event[x].type = "delta" PROVE FALSE
    <3>1. event[x].index \in 1..Len(delta_events)
      BY <2>2 DEF IInv, InPlace, OneInPlace, IsDelta, Events
    <3> QED BY <2>1, <3>1, EmptySeq
  <2> QED BY <2>1, <2>2, DeltasAre
<1>3. \A x \in Abstract!Timed : Pending(event)[x] >= now'
  BY TimedAre
<1>4. E = {x \in Abstract!Timed : Pending(event)[x] = now'}
  BY TimedAre
<1>5. PICK new : new = event'
  OBVIOUS
<1>6. ASSUME NEW x \in Event
      PROVE  Pending(new)[x] = IF x \in E THEN None ELSE Pending(event)[x]
  <2>1. event \in [Event -> Notification] /\ new \in [Event -> Notification]
        /\ new[x] = IF x \in E THEN None0 ELSE event[x]
    BY <1>5, EventsMap, NoneType
  <2>2. /\ \/ new[x].type = "none" /\ Pending(new)[x] = None
           \/ new[x].type = "delta" /\ Pending(new)[x] = delta
           \/ new[x].type = "timed" /\ Pending(new)[x] = new[x].time
        /\ \/ event[x].type = "none" /\ Pending(event)[x] = None
           \/ event[x].type = "delta" /\ Pending(event)[x] = delta
           \/ event[x].type = "timed" /\ Pending(event)[x] = event[x].time
    BY <2>1, PendingIs
  <2> QED BY <2>1, <2>2, NoneType
<1>7. Pending(event') = [x \in Event |-> IF x \in E THEN None ELSE Pending(event)[x]]
  BY <1>5, <1>6, PendingFunction
<1>8. now' \in Nat /\ now' > now /\ UNCHANGED <<current, cur_val, new_val>>
  OBVIOUS
<1> HIDE DEF Calm
<1> QED BY <1>1, <1>2, <1>3, <1>4, <1>7, <1>8 DEF Abstract!Advance

LEMMA TimeStepMaps ==
  ASSUME IInv, Calm, TimeStep
  PROVE  Abstract!Advance
<1>1. PICK order \in Seq(Event) :
        /\ IsInjective(order)
        /\ \A x \in Event : x \in ToSet(order) <=>
             event[x].type = "timed" /\ event[x].time = NextTime
        /\ queue' \in {Trigger(order, None), toggle_methods(Trigger(order, None))}
        /\ NoLongerWaiting(order)
        /\ event' = [e \in Event |-> IF e \in ToSet(order) THEN None0 ELSE event[e]]
  BY EarliestNotifications
<1>2. /\ current = None /\ phase = "timed" /\ NextTime <= until_t /\ now' = NextTime
      /\ UNCHANGED <<current, cur_val, new_val>>
  BY DEF TimeStep, Crunches, runVars, signalVars
<1>3. PICK t : t = NextTime
  OBVIOUS
<1>4. /\ t \in Nat /\ t > now
      /\ \A x \in Event : event[x].type = "timed" => event[x].time >= t
  <2>1. until_t \in Nat /\ now \in Nat /\ InPlace(Events, now)
    BY NatNow DEF IInv, Clocks
  <2>2. /\ NextTime \in Nat /\ (NextTime > now \/ NextTime > until_t)
        /\ \A x \in Event : event[x].type = "timed" => /\ event[x].time \in Nat
                                                       /\ NextTime <= event[x].time
    BY <2>1, TheNextTime
  <2> QED BY <1>2, <1>3, <2>1, <2>2
<1>5. PICK E : E = ToSet(order)
  OBVIOUS
<1>6. E = {x \in Event : event[x].type = "timed" /\ event[x].time = t}
  <2>1. ToSet(order) \subseteq Event
    BY Elements
  <2> QED BY <1>1, <1>3, <1>5, <2>1
<1>7. Abstract!Occur(E, Method)
  <2>1. queue' \in {Trigger(order, current), toggle_methods(Trigger(order, current))}
    BY <1>1, <1>2
  <2>2. Method \ {current} = Method
    BY <1>2, Processes
  <2>3. Abstract!Occur(ToSet(order), Method \ {current})
    BY <1>1, <2>1, TriggerIsOccur DEF IInv
  <2> QED BY <1>5, <2>2, <2>3
<1>8. event' = [x \in Event |-> IF x \in E THEN None0 ELSE event[x]]
  BY <1>1, <1>5
<1> QED BY <1>2, <1>3, <1>4, <1>6, <1>7, <1>8, AdvanceMaps

\* The end of a slice: time goes on if it is not there yet.
LEMMA ExitTimeMaps ==
  ASSUME IInv, Calm, ExitTime
  PROVE  Abstract!Advance \/ UNCHANGED Abstract!vars
<1>1. /\ current = None /\ phase = "timed" /\ NextTime > until_t /\ now' = until_t
      /\ UNCHANGED <<current, queue, waiting, event, cur_val, new_val>>
  BY DEF ExitTime, Crunches, runVars, signalVars
<1>2. PICK t : t = until_t
  OBVIOUS
<1>3. /\ t \in Nat /\ t >= now /\ now \in Nat /\ InPlace(Events, now)
  BY <1>2, NatNow DEF IInv, Clocks
<1>4. \A x \in Event : event[x].type = "timed" => event[x].time \in Nat /\ event[x].time > t
  BY <1>1, <1>2, <1>3, TheNextTime
<1>5. CASE t = now
  BY <1>1, <1>2, <1>5 DEF Abstract!vars
<1>6. CASE t > now
  <2>1. PICK E : E = {}
    OBVIOUS
  <2>2. E = {x \in Event : event[x].type = "timed" /\ event[x].time = t}
    BY <1>3, <1>4, <2>1
  <2>3. event' = [x \in Event |-> IF x \in E THEN None0 ELSE event[x]]
    BY <1>1, <2>1, EventsMap
  <2>4. Abstract!Occur(E, Method)
    <3>1. Queued(queue') = Queued(queue) \cup {m \in Method : Sensitive[m] \cap E # {}}
                                         \cup {u \in Thread : Sleeping(waiting)[u] \in E}
      BY <1>1, <2>1
    <3>2. Sleeping(waiting') = [u \in Thread |-> IF Sleeping(waiting)[u] \in E
                                                 THEN None ELSE Sleeping(waiting)[u]]
      BY <1>1, <2>1, SleepingFunction
    <3> QED BY <3>1, <3>2 DEF Abstract!Occur
  <2>5. \A x \in Event : event[x].type = "timed" => event[x].time >= t
    BY <1>3, <1>4
  <2> QED BY <1>1, <1>2, <1>3, <1>6, <2>2, <2>3, <2>4, <2>5, AdvanceMaps
<1> QED BY <1>3, <1>5, <1>6

LEMMA ToggleMaps ==
  ASSUME IInv, MethodsDone \/ ThreadsDone \/ \E duration \in Slices : Start(duration)
  PROVE  UNCHANGED Abstract!vars
<1>1. /\ queue' \in {toggle_methods(queue), toggle_threads(queue)}
      /\ UNCHANGED <<now, event, current, waiting, cur_val, new_val>>
  BY DEF MethodsDone, ThreadsDone, Start, runVars, eventVars, signalVars
<1>2. Queued(queue') = Queued(queue)
  BY <1>1, MethodsToggledQueued, ThreadsToggledQueued DEF IInv, Placed
<1> QED BY <1>1, <1>2 DEF Abstract!vars

LEMMA InitMaps ==
  ASSUME Init
  PROVE  Abstract!Init
<1>1. IInv
  BY InitInv
<1>2. Queued(queue) = Thread \cup Method
  <2>1. /\ ToSet(SetToSeq(Method)) = Method /\ ToSet(SetToSeq(Thread)) = Thread
    BY Processes, SetToSeqElements
  <2>2. /\ queue.methods_pop = <<>> /\ queue.methods_push = SetToSeq(Method)
        /\ queue.threads_pop = <<>> /\ queue.threads_push = SetToSeq(Thread)
    BY DEF Init
  <2> QED BY <2>1, <2>2, EmptyElements DEF Queued
<1>3. Pending(event) = [e \in Event |-> None]
  <2>1. \A e \in Event : event[e] = None0
    BY DEF Init
  <2>2. \A e \in Event : Pending(event)[e] = None
    BY <1>1, <2>1, EventsMap, NoneType, PendingIs
  <2> QED BY <2>2, PendingFunction
<1>4. Sleeping(waiting) = [t \in Thread |-> None]
  <2>1. \A e \in Event : ToSet(waiting[e]) = {}
    BY EmptyElements DEF Init
  <2>2. \A t \in Thread : Sleeping(waiting)[t] = None
    BY <2>1, SleepingIs
  <2> QED BY <2>2, SleepingFunction
<1> QED BY <1>2, <1>3, <1>4 DEF Init, Abstract!Init

LEMMA StepMaps ==
  ASSUME IInv, Calm, [Next]_vars
  PROVE  Abstract!Next \/ UNCHANGED Abstract!vars
<1>1. ASSUME NEW e \in UserEvent, NotifyImmediately(e) PROVE Abstract!Next
  BY <1>1, NotifyImmediatelyMaps, DifferentEvents DEF Abstract!Next
<1>2. ASSUME NEW e \in UserEvent, NEW d \in Delay, NotifyAfter(e, d) PROVE Abstract!Next
  BY <1>2, NotifyAfterMaps, DifferentEvents DEF Abstract!Next
<1>3. ASSUME NEW e \in UserEvent, NEW t \in Thread, WaitForEvent(t, e) PROVE Abstract!Next
  BY <1>3, WaitForEventMaps, DifferentEvents DEF Abstract!Next
<1>4. ASSUME NEW v \in BOOLEAN, Write(v) PROVE Abstract!Next
  BY <1>4, WriteMaps DEF Abstract!Next
<1>5. ASSUME NEW t \in Thread, NEW d \in Delay, WaitForTime(t, d) PROVE Abstract!Next
  BY <1>5, WaitForTimeMaps, DifferentEvents DEF Abstract!Next
<1>6. ASSUME NEW m \in Method, Return(m) PROVE Abstract!Next
  BY <1>6, ReturnMaps DEF Abstract!Next
<1>7. ProcessNext => Abstract!Next
  BY <1>1, <1>2, <1>3, <1>4, <1>5, <1>6 DEF ProcessNext
<1>8. CASE RunMethod
  BY <1>8, RunMethodMaps DEF Abstract!Next
<1>9. CASE RunThread
  BY <1>9, RunThreadMaps DEF Abstract!Next
<1>10. CASE MethodsDone \/ ThreadsDone \/ \E duration \in Slices : Start(duration)
  BY <1>10, ToggleMaps
<1>11. CASE UpdateAndNotify
  BY <1>11, UpdateAndNotifyMaps DEF Abstract!Next
<1>12. CASE TimeStep
  BY <1>12, TimeStepMaps DEF Abstract!Next
<1>13. CASE ExitTime
  BY <1>13, ExitTimeMaps DEF Abstract!Next
<1>14. CASE UNCHANGED vars
  BY <1>14 DEF vars, timeVars, runVars, eventVars, signalVars, Abstract!vars
<1> QED BY <1>7, <1>8, <1>9, <1>10, <1>11, <1>12, <1>13, <1>14 DEF Next, KernelNext

\* Every step of crunch, of do_timestep, of sc_start and of a process is one of the
\* scheduler or leaves it as it is: what a slice interrupts is what would have gone on.
THEOREM KernelIsScheduler == Spec => ImplementsScheduler
<1>1. IInv /\ Calm /\ [Next]_vars => [Abstract!Next]_(Abstract!vars)
  BY StepMaps
<1> QED BY <1>1, InitMaps, InvAlways, CalmAlways, PTL DEF Spec, ImplementsScheduler, Abstract!Spec
=============================================================================
