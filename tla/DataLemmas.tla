----------------------------- MODULE DataLemmas -----------------------------
(***************************************************************************)
(* Facts about data the proofs share.  Sets of naturals: least and         *)
(* greatest elements, the community modules' Min and Max, and induction in *)
(* the form of a set that holds every natural.  Sequences: their elements. *)
(***************************************************************************)
EXTENDS Integers, SequencesExt, Subsequences, WellFoundedInduction, FiniteSetTheorems, SequenceTheorems,
        TLAPS

(* The least-number principle. *)
LEMMA LeastNumber ==
    ASSUME NEW S \in SUBSET Nat, S # {}
    PROVE  \E n \in S : \A m \in S : n <= m
  <1> DEFINE R == OpToRel(<, Nat)
  <1>1. IsWellFoundedOn(R, Nat)
    BY NatLessThanWellFounded, Zenon
  <1>2. R = {z \in Nat \X Nat : z[1] < z[2]}
    BY DEF OpToRel
  <1> HIDE DEF R
  <1>3. PICK n \in S : \A m \in S : ~ (<<m, n>> \in R)
    BY <1>1, WFMin
  <1>4. ASSUME NEW m \in Nat, m < n
        PROVE  <<m, n>> \in R
    <2>1. <<m, n>> \in Nat \X Nat /\ <<m, n>>[1] = m /\ <<m, n>>[2] = n
      OBVIOUS
    <2>2. QED
      BY <1>2, <1>4, <2>1
  <1>5. ASSUME NEW m \in S
        PROVE  n <= m
    <2>1. ~ (m < n)
      BY <1>3, <1>4
    <2>2. m \in Nat /\ n \in Nat
      OBVIOUS
    <2>3. QED
      BY <2>1, <2>2
  <1>6. QED
    BY <1>5

(* Induction: a set with 0 that is closed under successor has all naturals. *)
LEMMA InductiveSet ==
    ASSUME NEW S, 0 \in S, \A n \in Nat : n \in S => n + 1 \in S
    PROVE  Nat \subseteq S
  <1>1. SUFFICES ASSUME Nat \ S # {}
                 PROVE  FALSE
    OBVIOUS
  <1>2. PICK n \in Nat \ S : \A m \in Nat \ S : n <= m
    BY <1>1, LeastNumber
  <1>3. n - 1 \in Nat /\ n - 1 \notin Nat \ S
    BY <1>2
  <1>4. QED
    BY <1>2, <1>3

(* A bounded set of naturals has a greatest element. *)
LEMMA GreatestNumber ==
    ASSUME NEW S \in SUBSET Nat, S # {}, NEW b \in Nat, \A n \in S : n <= b
    PROVE  \E n \in S : \A m \in S : m <= n
  <1> DEFINE U == {u \in Nat : \A m \in S : m <= u}
  <1>1. b \in U
    OBVIOUS
  <1>2. PICK u \in U : \A v \in U : u <= v
    <2>1. U \in SUBSET Nat /\ U # {}
      BY <1>1
    <2>2. QED
      BY <2>1, LeastNumber
  <1>3. u \in S
    <2>1. SUFFICES ASSUME u \notin S
                   PROVE  FALSE
      OBVIOUS
    <2>2. PICK n \in S : TRUE
      OBVIOUS
    <2>3. u \in Nat /\ n <= u /\ n # u
      BY <2>1
    <2>4. u - 1 \in Nat
      BY <2>3
    <2>5. ASSUME NEW m \in S
          PROVE  m <= u - 1
      BY <2>1
    <2>6. u - 1 \in U
      BY <2>4, <2>5
    <2>7. QED
      BY <1>2, <2>3, <2>6
  <1>4. QED
    BY <1>3

(* Finitely many naturals have a bound. *)
LEMMA ValuesBounded ==
    ASSUME NEW n \in Nat, NEW f \in [1..n -> Nat]
    PROVE  \E b \in Nat : \A i \in 1..n : f[i] <= b
  <1> DEFINE Bounds(k, b) == \A i \in 1..n : i <= k => f[i] <= b
             S == {k \in Nat : \E b \in Nat : Bounds(k, b)}
  <1>1. 0 \in S
    <2>1. Bounds(0, 0)
      OBVIOUS
    <2>2. QED
      BY <2>1
  <1>2. ASSUME NEW k \in Nat, k \in S
        PROVE  k + 1 \in S
    <2>1. PICK b \in Nat : Bounds(k, b)
      BY <1>2
    <2>2. CASE k + 1 \in 1..n
      <3>1. PICK c \in Nat : b <= c /\ f[k + 1] <= c
        <4>1. f[k + 1] \in Nat
          BY <2>2
        <4>2. b + f[k + 1] \in Nat /\ b <= b + f[k + 1] /\ f[k + 1] <= b + f[k + 1]
          BY <4>1
        <4>3. QED
          BY <4>2
      <3>2. ASSUME NEW i \in 1..n, i <= k + 1
            PROVE  f[i] <= c
        <4>1. f[i] \in Nat /\ i \in Nat
          OBVIOUS
        <4>2. CASE i = k + 1
          BY <3>1, <4>2
        <4>3. CASE i # k + 1
          <5>1. i <= k
            BY <3>2, <4>1, <4>3
          <5>2. f[i] <= b
            BY <2>1, <5>1
          <5>3. QED
            BY <3>1, <4>1, <5>2
        <4>4. QED
          BY <4>2, <4>3
      <3>3. QED
        BY <3>2
    <2>3. CASE k + 1 \notin 1..n
      <3>1. \A i \in 1..n : i <= k + 1 => i <= k
        BY <2>3
      <3>2. Bounds(k + 1, b)
        BY <2>1, <3>1
      <3>3. QED
        BY <3>2
    <2>4. QED
      BY <2>2, <2>3
  <1>3. n \in S
    <2> HIDE DEF S
    <2>1. Nat \subseteq S
      BY <1>1, <1>2, InductiveSet
    <2>2. QED
      BY <2>1
  <1>4. PICK b \in Nat : Bounds(n, b)
    BY <1>3
  <1>5. \A i \in 1..n : i <= n
    OBVIOUS
  <1>6. QED
    BY <1>4, <1>5

(* Max and Min choose those elements. *)
LEMMA MinIsLeast ==
    ASSUME NEW S \in SUBSET Nat, S # {}
    PROVE  Min(S) \in S /\ \A m \in S : Min(S) <= m
  BY LeastNumber DEF Min

LEMMA MaxIsGreatest ==
    ASSUME NEW S \in SUBSET Nat, S # {}, NEW b \in Nat, \A n \in S : n <= b
    PROVE  Max(S) \in S /\ \A m \in S : m <= Max(S)
  <1>1. \E n \in S : \A m \in S : n >= m
    <2>1. PICK n \in S : \A m \in S : m <= n
      BY GreatestNumber
    <2>2. QED
      BY <2>1
  <1>2. Max(S) \in S /\ \A m \in S : Max(S) >= m
    BY <1>1 DEF Max
  <1>3. QED
    BY <1>2

-----------------------------------------------------------------------------
(* Sequences and the sets of their elements. *)

LEMMA ToSetMember ==
    ASSUME NEW S, NEW s \in Seq(S), NEW e
    PROVE  e \in ToSet(s) <=> \E i \in 1..Len(s) : s[i] = e
  BY DEF ToSet

LEMMA ToSetType ==
    ASSUME NEW S, NEW s \in Seq(S)
    PROVE  ToSet(s) \subseteq S
  <1>1. \A i \in 1..Len(s) : s[i] \in S
    BY ElementOfSeq
  <1>2. QED
    BY <1>1, ToSetMember

LEMMA ToSetAppend ==
    ASSUME NEW S, NEW s \in Seq(S), NEW x \in S
    PROVE  ToSet(Append(s, x)) = ToSet(s) \cup {x}
  <1>1. /\ Append(s, x) \in Seq(S) /\ Len(Append(s, x)) = Len(s) + 1 /\ Len(s) \in Nat
        /\ \A i \in 1..Len(s) : Append(s, x)[i] = s[i]
        /\ Append(s, x)[Len(s) + 1] = x
    BY AppendProperties
  <1>2. ASSUME NEW e
        PROVE  e \in ToSet(Append(s, x)) <=> e \in ToSet(s) \/ e = x
    <2>1. e \in ToSet(Append(s, x)) <=> \E i \in 1..(Len(s) + 1) : Append(s, x)[i] = e
      BY <1>1 DEF ToSet
    <2>2. e \in ToSet(s) <=> \E i \in 1..Len(s) : s[i] = e
      BY ToSetMember
    <2>3. QED
      BY <1>1, <2>1, <2>2
  <1>3. QED
    BY <1>2

LEMMA ToSetConcat ==
    ASSUME NEW S, NEW s \in Seq(S), NEW t \in Seq(S)
    PROVE  ToSet(s \o t) = ToSet(s) \cup ToSet(t)
  <1>1. /\ s \o t \in Seq(S) /\ Len(s \o t) = Len(s) + Len(t)
        /\ Len(s) \in Nat /\ Len(t) \in Nat
        /\ \A i \in 1..Len(s) : (s \o t)[i] = s[i]
        /\ \A i \in 1..Len(t) : (s \o t)[Len(s) + i] = t[i]
    BY ConcatProperties
  <1>2. ASSUME NEW e \in ToSet(s) \cup ToSet(t)
        PROVE  e \in ToSet(s \o t)
    <2>1. CASE e \in ToSet(s)
      <3>1. PICK i \in 1..Len(s) : s[i] = e
        BY <2>1, ToSetMember
      <3>2. i \in 1..Len(s \o t) /\ (s \o t)[i] = e
        BY <1>1, <3>1
      <3>3. QED
        BY <1>1, <3>2 DEF ToSet
    <2>2. CASE e \in ToSet(t)
      <3>1. PICK i \in 1..Len(t) : t[i] = e
        BY <2>2, ToSetMember
      <3>2. Len(s) + i \in 1..Len(s \o t) /\ (s \o t)[Len(s) + i] = e
        BY <1>1, <3>1
      <3>3. QED
        BY <1>1, <3>2, SMTT(30) DEF ToSet
    <2>3. QED
      BY <2>1, <2>2
  <1>3. ASSUME NEW e \in ToSet(s \o t)
        PROVE  e \in ToSet(s) \cup ToSet(t)
    <2>1. PICK i \in 1..(Len(s) + Len(t)) : (s \o t)[i] = e
      BY <1>1 DEF ToSet
    <2>2. CASE i <= Len(s)
      BY <1>1, <2>1, <2>2, ToSetMember
    <2>3. CASE ~(i <= Len(s))
      <3>1. i - Len(s) \in 1..Len(t) /\ t[i - Len(s)] = e
        BY <1>1, <2>1, <2>3
      <3>2. QED
        BY <3>1, ToSetMember
    <2>4. QED
      BY <2>2, <2>3
  <1>4. QED
    BY <1>2, <1>3

(* A sequence belongs to any set that holds its elements. *)
LEMMA SeqRetype ==
    ASSUME NEW S, NEW s \in Seq(S), NEW T, \A i \in 1..Len(s) : s[i] \in T
    PROVE  s \in Seq(T)
  <1>1. Len(s) \in Nat /\ s \in [1..Len(s) -> S] /\ DOMAIN s = 1..Len(s)
    BY LenProperties
  <1>2. s \in [1..Len(s) -> T]
    BY <1>1
  <1>3. QED
    BY <1>1, <1>2, SeqDef

-----------------------------------------------------------------------------
(* Positions in order: their ranks grow with them and count from 1. *)
LEMMA RankGrows ==
    ASSUME NEW b \in Nat, NEW P \in SUBSET (0..b)
    PROVE  /\ IsFiniteSet(P) /\ Cardinality(P) \in Nat
           /\ \A i \in P : Rank(P, i) \in 1..Cardinality(P)
           /\ \A i, k \in P : i < k => Rank(P, i) < Rank(P, k)
  <1> DEFINE Upto(i) == {j \in P : j <= i}
  <1>1. IsFiniteSet(P) /\ Cardinality(P) \in Nat /\ \A i \in P : i \in Nat
    <2>1. IsFiniteSet(0..b)
      BY FS_Interval
    <2>2. IsFiniteSet(P)
      BY <2>1, FS_Subset
    <2>3. QED
      BY <2>2, FS_CardinalityType
  <1>2. ASSUME NEW i \in P
        PROVE  /\ IsFiniteSet(Upto(i)) /\ Cardinality(Upto(i)) \in Nat
               /\ Cardinality(Upto(i)) <= Cardinality(P) /\ Cardinality(Upto(i)) # 0
               /\ Rank(P, i) = Cardinality(Upto(i))
    <2>1. Upto(i) \subseteq P /\ i \in Upto(i)
      BY <1>1
    <2>2. IsFiniteSet(Upto(i)) /\ Cardinality(Upto(i)) <= Cardinality(P)
      BY <1>1, <2>1, FS_Subset
    <2>3. Cardinality(Upto(i)) \in Nat /\ Cardinality(Upto(i)) # 0
      BY <2>1, <2>2, FS_CardinalityType, FS_EmptySet
    <2>4. QED
      BY <2>2, <2>3 DEF Rank
  <1>3. ASSUME NEW i \in P, NEW k \in P, i < k
        PROVE  Rank(P, i) < Rank(P, k)
    <2>1. Upto(i) \subseteq Upto(k) /\ k \in Upto(k) /\ k \notin Upto(i)
      <3>1. i \in Nat /\ k \in Nat /\ \A j \in P : j \in Nat
        BY <1>1
      <3>2. \A j \in P : j <= i => j <= k
        BY <1>3, <3>1
      <3>3. k <= k /\ ~(k <= i)
        BY <1>3, <3>1
      <3>4. QED
        BY <3>2, <3>3
    <2>2. /\ Cardinality(Upto(i)) <= Cardinality(Upto(k))
          /\ Cardinality(Upto(i)) # Cardinality(Upto(k))
      BY <1>2, <2>1, FS_Subset
    <2>3. QED
      BY <1>2, <2>2
  <1>4. ASSUME NEW i \in P
        PROVE  Rank(P, i) \in 1..Cardinality(P)
    <2>1. /\ Cardinality(Upto(i)) \in Nat /\ Cardinality(Upto(i)) <= Cardinality(P)
          /\ Cardinality(Upto(i)) # 0 /\ Rank(P, i) = Cardinality(Upto(i))
      BY <1>2
    <2>2. QED
      BY ONLY <1>1, <2>1
  <1>5. QED
    BY <1>1, <1>3, <1>4

LEMMA NthExists ==
    ASSUME NEW b \in Nat, NEW P \in SUBSET (0..b), NEW k \in 1..Cardinality(P)
    PROVE  \E i \in P : Rank(P, i) = k
  <1> DEFINE Upto(i) == {j \in P : j <= i}
             High == {i \in P : Rank(P, i) >= k}
  <1>1. /\ IsFiniteSet(P) /\ Cardinality(P) \in Nat /\ \A j \in P : j \in Nat /\ j <= b
        /\ \A j \in P : Rank(P, j) \in Nat
    <2>1. /\ IsFiniteSet(P) /\ Cardinality(P) \in Nat
          /\ \A j \in P : Rank(P, j) \in 1..Cardinality(P)
      BY RankGrows
    <2>2. \A j \in P : j \in Nat /\ j <= b
      OBVIOUS
    <2>3. \A j \in P : Rank(P, j) \in Nat
      BY <2>1
    <2>4. QED
      BY <2>1, <2>2, <2>3
  <1>2. P # {} /\ P \in SUBSET Nat /\ k \in Nat /\ k >= 1 /\ k <= Cardinality(P)
    BY <1>1, FS_EmptySet
  <1>3. PICK m \in P : \A j \in P : j <= m
    BY <1>1, <1>2, GreatestNumber
  <1>4. m \in High
    <2>1. Upto(m) = P
      BY <1>3
    <2>2. Rank(P, m) = Cardinality(P)
      BY <2>1 DEF Rank
    <2>3. QED
      BY <1>1, <1>2, <2>2
  <1>5. PICK i \in High : \A j \in High : i <= j
    <2>1. High \in SUBSET Nat /\ High # {}
      BY <1>1, <1>4
    <2>2. QED
      BY <2>1, LeastNumber
  <1>6. Rank(P, i) <= k
    <2> DEFINE Low == {j \in P : j < i}
    <2>1. CASE Low = {}
      <3>1. Upto(i) = {i}
        <4>1. i \in P /\ \A j \in P : ~(j < i)
          BY <2>1
        <4>2. \A j \in P : j <= i <=> j = i
          BY <1>1, <4>1
        <4>3. QED
          BY <4>1, <4>2
      <3>2. Rank(P, i) = 1
        BY <3>1, FS_Singleton DEF Rank
      <3>3. QED
        BY <1>2, <3>2
    <2>2. CASE Low # {}
      <3>1. PICK h \in Low : \A j \in Low : j <= h
        <4>1. Low \in SUBSET Nat /\ \A j \in Low : j <= b
          BY <1>1
        <4>2. QED
          BY <2>2, <4>1, GreatestNumber
      <3>2. Upto(i) = Upto(h) \cup {i} /\ i \notin Upto(h)
        <4>1. h \in Nat /\ i \in Nat /\ h < i /\ \A j \in P : j < i => j <= h
          BY <1>1, <3>1
        <4>2. \A j \in P : (j <= i <=> j <= h \/ j = i) /\ ~(i <= h)
          BY <1>1, <4>1
        <4>3. i \in P
          OBVIOUS
        <4>4. QED
          BY <4>2, <4>3
      <3>3. IsFiniteSet(Upto(h))
        BY <1>1, FS_Subset
      <3>4. Rank(P, i) = Rank(P, h) + 1
        BY <3>2, <3>3, FS_AddElement DEF Rank
      <3>5. Rank(P, h) < k
        <4>1. h \in P /\ h \notin High
          BY <1>1, <1>5, <3>1
        <4>2. QED
          BY <1>1, <1>2, <4>1
      <3>6. QED
        BY <1>1, <1>2, <3>1, <3>4, <3>5
    <2>3. QED
      BY <2>1, <2>2
  <1>7. QED
    BY <1>1, <1>2, <1>5, <1>6

(* The k-th position, and the rank that finds a position. *)
LEMMA NthFacts ==
    ASSUME NEW b \in Nat, NEW P \in SUBSET (0..b)
    PROVE  /\ \A k \in 1..Cardinality(P) : Nth(P, k) \in P /\ Rank(P, Nth(P, k)) = k
           /\ \A i \in P : Nth(P, Rank(P, i)) = i
           /\ \A k, l \in 1..Cardinality(P) : k < l => Nth(P, k) < Nth(P, l)
  <1>1. \A k \in 1..Cardinality(P) : Nth(P, k) \in P /\ Rank(P, Nth(P, k)) = k
    BY NthExists DEF Nth
  <1>2. /\ \A i \in P : Rank(P, i) \in 1..Cardinality(P)
        /\ \A i, k \in P : i < k => Rank(P, i) < Rank(P, k)
    BY RankGrows
  <1>3. \A i, k \in P : Rank(P, i) = Rank(P, k) => i = k
    <2>1. \A i \in P : i \in Int /\ Rank(P, i) \in Int
      BY <1>2
    <2>2. QED
      BY <1>2, <2>1
  <1>4. ASSUME NEW k \in 1..Cardinality(P), NEW l \in 1..Cardinality(P), k < l
        PROVE  Nth(P, k) < Nth(P, l)
    <2>1. Nth(P, k) \in P /\ Nth(P, l) \in P /\ Rank(P, Nth(P, k)) = k /\ Rank(P, Nth(P, l)) = l
      BY <1>1
    <2>2. Nth(P, k) \in Int /\ Nth(P, l) \in Int /\ k \in Int /\ l \in Int
      <3>1. \A i \in P : i \in Int
        OBVIOUS
      <3>2. Cardinality(P) \in Nat
        BY RankGrows
      <3>3. k \in Int /\ l \in Int
        BY <3>2
      <3>4. QED
        BY <2>1, <3>1, <3>3
    <2>3. ~(Nth(P, l) < Nth(P, k)) /\ Nth(P, l) # Nth(P, k)
      <3>1. ASSUME Nth(P, l) < Nth(P, k)
            PROVE  l < k
        BY <1>2, <2>1, <3>1
      <3>2. k # l
        BY <1>4, <2>2
      <3>3. QED
        BY <1>4, <2>1, <2>2, <3>1, <3>2
    <2>4. QED
      BY <2>2, <2>3
  <1>5. QED
    BY <1>1, <1>2, <1>3, <1>4

(* What is selected: exactly the values at the positions. *)
LEMMA SubsequenceMembers ==
    ASSUME NEW b \in Nat, NEW P \in SUBSET (0..b), NEW s
    PROVE  /\ DOMAIN Subsequence(s, P) = 1..Cardinality(P)
           /\ ToSet(Subsequence(s, P)) = {s[i] : i \in P}
  <1> DEFINE sub == Subsequence(s, P)
             n == Cardinality(P)
  <1>1. /\ n \in Nat /\ \A k \in 1..n : Nth(P, k) \in P
        /\ \A i \in P : Rank(P, i) \in 1..n /\ Nth(P, Rank(P, i)) = i
    BY RankGrows, NthFacts
  <1>2. sub = [k \in 1..n |-> s[Nth(P, k)]]
    BY DEF Subsequence
  <1>3. DOMAIN sub = 1..n
    BY <1>2
  <1>4. ASSUME NEW i \in P
        PROVE  s[i] \in ToSet(sub)
    <2>1. sub[Rank(P, i)] = s[i] /\ Rank(P, i) \in DOMAIN sub
      BY <1>1, <1>2, <1>3
    <2>2. QED
      BY <2>1 DEF ToSet
  <1>5. ASSUME NEW v \in ToSet(sub)
        PROVE  \E i \in P : v = s[i]
    <2>1. PICK k \in 1..n : v = sub[k]
      BY <1>3 DEF ToSet
    <2>2. QED
      BY <1>1, <1>2, <2>1
  <1> HIDE DEF sub
  <1>6. QED
    BY <1>3, <1>4, <1>5 DEF sub

LEMMA SubsequenceFacts ==
    ASSUME NEW b \in Nat, NEW P \in SUBSET (0..b), NEW S, NEW s, \A i \in P : s[i] \in S
    PROVE  /\ Subsequence(s, P) \in Seq(S)
           /\ (\A i, j \in P : s[i] = s[j] => i = j) => IsInjective(Subsequence(s, P))
  <1> DEFINE sub == Subsequence(s, P)
             n == Cardinality(P)
  <1>1. /\ n \in Nat /\ \A k \in 1..n : Nth(P, k) \in P
        /\ \A i \in P : Rank(P, i) \in 1..n /\ Nth(P, Rank(P, i)) = i
        /\ \A k \in 1..n : Rank(P, Nth(P, k)) = k
    BY RankGrows, NthFacts
  <1>2. sub = [k \in 1..n |-> s[Nth(P, k)]]
    BY DEF Subsequence
  <1>3. DOMAIN sub = 1..n /\ sub \in [1..n -> S]
    BY <1>1, <1>2
  <1>4. sub \in Seq(S)
    BY <1>1, <1>3, SeqDef
  <1>5. ASSUME \A i, j \in P : s[i] = s[j] => i = j
        PROVE  IsInjective(sub)
    <2>1. ASSUME NEW k \in 1..n, NEW l \in 1..n, sub[k] = sub[l]
          PROVE  k = l
      <3>1. Nth(P, k) = Nth(P, l)
        <4>1. sub[k] = s[Nth(P, k)] /\ sub[l] = s[Nth(P, l)]
          BY <1>2
        <4>2. Nth(P, k) \in P /\ Nth(P, l) \in P
          BY <1>1
        <4>3. QED
          BY <1>5, <2>1, <4>1, <4>2
      <3>2. QED
        BY <1>1, <3>1
    <2>2. QED
      BY <1>3, <2>1 DEF IsInjective
  <1>6. QED
    BY <1>4, <1>5

-----------------------------------------------------------------------------
(* Iteration. *)

(* f[n] is what n steps make of base. *)
Carries(f, N, A, base, step) ==
    /\ f \in [0..N -> A] /\ f[0] = base
    /\ \A n \in 1..N : f[n] = step[<<n, f[n - 1]>>]

(* A value can be carried through any number of steps. *)
LEMMA IterationExists ==
    ASSUME NEW N \in Nat, NEW A, NEW base \in A, NEW step \in [(1..N) \X A -> A]
    PROVE  \E f : Carries(f, N, A, base, step)
  <1> DEFINE Run(k, f) == f[0] = base /\ \A n \in 1..k : f[n] = step[<<n, f[n - 1]>>]
             S == {k \in Nat : k <= N => \E f \in [0..k -> A] : Run(k, f)}
  <1>1. 0 \in S
    <2>1. [i \in 0..0 |-> base] \in [0..0 -> A] /\ Run(0, [i \in 0..0 |-> base])
      OBVIOUS
    <2>2. QED
      BY <2>1
  <1>2. ASSUME NEW k \in Nat, k \in S
        PROVE  k + 1 \in S
    <2>1. CASE k + 1 <= N
      <3>1. PICK f \in [0..k -> A] : Run(k, f)
        BY <1>2, <2>1
      <3>2. k + 1 \in 1..N /\ f[k] \in A
        BY <2>1
      <3>3. step[<<k + 1, f[k]>>] \in A
        BY <3>2
      <3> DEFINE g == [n \in 0..(k + 1) |-> IF n = k + 1 THEN step[<<k + 1, f[k]>>] ELSE f[n]]
      <3>4. g \in [0..(k + 1) -> A]
        BY <3>3
      <3>5. g[0] = base
        BY <3>1
      <3>6. ASSUME NEW n \in 1..(k + 1)
            PROVE  g[n] = step[<<n, g[n - 1]>>]
        <4>1. CASE n = k + 1
          <5>1. g[n] = step[<<k + 1, f[k]>>] /\ g[n - 1] = f[k]
            BY <4>1
          <5>2. QED
            BY <4>1, <5>1
        <4>2. CASE n # k + 1
          <5>1. n \in 1..k /\ n \in 0..(k + 1) /\ n - 1 \in 0..(k + 1) /\ n - 1 # k + 1
            BY <4>2
          <5>2. g[n] = f[n] /\ g[n - 1] = f[n - 1]
            BY <4>2, <5>1
          <5>3. QED
            BY <3>1, <5>1, <5>2
        <4>3. QED
          BY <4>1, <4>2
      <3> HIDE DEF g
      <3>7. QED
        BY <3>4, <3>5, <3>6
    <2>2. QED
      BY <2>1
  <1>3. N \in S
    <2> HIDE DEF S
    <2>1. Nat \subseteq S
      BY <1>1, <1>2, InductiveSet
    <2>2. QED
      BY <2>1
  <1>4. QED
    BY <1>3 DEF Carries

=============================================================================
