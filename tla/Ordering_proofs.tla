---------------------------- MODULE Ordering_proofs --------------------------
(***************************************************************************)
(* What the operators of Ordering and the sequence operators the modules   *)
(* are built from return: Ordered, Omit, FlattenSeq, a sequence put in     *)
(* place of a part of another.  Induction is over the finite set of        *)
(* counterexamples, whose least element EndsOf names.                      *)
(***************************************************************************)
EXTENDS Ordering, SequencesExt, FiniteSetTheorems, TLAPS

-----------------------------------------------------------------------------
(* Ordered and Omit.                                                       *)

(* Of two elements the greater has more elements below it.                 *)
LEMMA BelowGrows ==
  ASSUME NEW S \in SUBSET Int, IsFiniteSet(S)
  PROVE  /\ \A x \in S : Cardinality(Below(S, x)) \in 0 .. Cardinality(S) - 1
         /\ \A x, y \in S : x < y => Cardinality(Below(S, x)) < Cardinality(Below(S, y))
<1>0. \A x \in S : x \in Int
  OBVIOUS
<1>1. \A x \in S : /\ IsFiniteSet(Below(S, x)) /\ Cardinality(Below(S, x)) \in Nat
                   /\ Cardinality(Below(S, x)) < Cardinality(S)
  <2> TAKE x \in S
  <2>1. Below(S, x) \in SUBSET S /\ Below(S, x) # S
    BY DEF Below
  <2>2. /\ IsFiniteSet(Below(S, x)) /\ Cardinality(Below(S, x)) <= Cardinality(S)
        /\ Cardinality(S) # Cardinality(Below(S, x))
    BY <2>1, FS_Subset
  <2> QED BY <2>2, FS_CardinalityType
<1>2. ASSUME NEW x \in S, NEW y \in S, x < y
      PROVE  Cardinality(Below(S, x)) < Cardinality(Below(S, y))
  <2>1. Below(S, x) \in SUBSET Below(S, y) /\ x \in Below(S, y) /\ x \notin Below(S, x)
    <3>1. x \in Int /\ y \in Int
      BY <1>0
    <3>2. \A z \in S : z < x => z < y
      BY <3>1, <1>0, <1>2
    <3>3. Below(S, x) \in SUBSET Below(S, y)
      BY <3>2 DEF Below
    <3>4. x \in Below(S, y)
      BY <1>2 DEF Below
    <3>5. x \notin Below(S, x)
      BY <3>1 DEF Below
    <3> QED BY <3>3, <3>4, <3>5
  <2>2. /\ Cardinality(Below(S, x)) <= Cardinality(Below(S, y))
        /\ Cardinality(Below(S, y)) # Cardinality(Below(S, x))
    BY <2>1, <1>1, FS_Subset
  <2> QED BY <2>2, <1>1
<1> QED BY <1>1, <1>2, FS_CardinalityType

(* Ordered(S) lists the elements of S, each once, in increasing order.     *)
LEMMA OrderedIs ==
  ASSUME NEW S \in SUBSET Int, IsFiniteSet(S)
  PROVE  /\ Cardinality(S) \in Nat
         /\ Ordered(S) \in [1 .. Cardinality(S) -> S]
         /\ \A i, j \in 1 .. Cardinality(S) : i < j => Ordered(S)[i] < Ordered(S)[j]
         /\ \A x \in S : \E i \in 1 .. Cardinality(S) : Ordered(S)[i] = x
<1> DEFINE n == Cardinality(S)
           rank == [x \in S |-> Cardinality(Below(S, x)) + 1]
<1>1. n \in Nat
  BY FS_CardinalityType
<1>2. \A x \in S : rank[x] \in 1 .. n
  BY BelowGrows, <1>1
<1>3. \A x, y \in S : x < y => rank[x] < rank[y]
  BY BelowGrows, <1>1
<1>4. rank \in Injection(S, 1 .. n)
  <2>1. rank \in [S -> 1 .. n]
    BY <1>2
  <2>2. \A x, y \in S : rank[x] = rank[y] => x = y
    <3> HIDE DEF rank
    <3> QED BY <1>3, <1>2
  <2> HIDE DEF rank, n
  <2> QED BY <2>1, <2>2 DEF Injection, IsInjective
<1>5. rank \in Surjection(S, 1 .. n)
  <2>1. IsFiniteSet(1 .. n) /\ Cardinality(1 .. n) = n
    BY <1>1, FS_Interval
  <2> HIDE DEF rank
  <2> QED BY <2>1, <1>4, FS_Injection
<1>6. \A i \in 1 .. n : \E x \in S : rank[x] = i
  BY <1>5 DEF Surjection
<1>7. \A i \in 1 .. n : Ordered(S)[i] \in S /\ rank[Ordered(S)[i]] = i
  <2> TAKE i \in 1 .. n
  <2>1. PICK x \in S : rank[x] = i
    BY <1>6
  <2>2. Cardinality(Below(S, x)) = i - 1
    BY <2>1, BelowGrows, <1>1
  <2>3. Ordered(S)[i] = CHOOSE z \in S : Cardinality(Below(S, z)) = i - 1
    BY DEF Ordered
  <2>4. Ordered(S)[i] \in S /\ Cardinality(Below(S, Ordered(S)[i])) = i - 1
    BY <2>2, <2>3
  <2> QED BY <2>4
<1>8. \A i, j \in 1 .. n : i < j => Ordered(S)[i] < Ordered(S)[j]
  <2> HIDE DEF rank, n
  <2>1. \A i \in 1 .. n : Ordered(S)[i] \in Int
    BY <1>7
  <2>2. SUFFICES ASSUME NEW i \in 1 .. n, NEW j \in 1 .. n, i < j, Ordered(S)[j] < Ordered(S)[i] \/ Ordered(S)[j] = Ordered(S)[i]
                 PROVE  FALSE
    BY <2>1
  <2>3. rank[Ordered(S)[i]] = i /\ rank[Ordered(S)[j]] = j /\ Ordered(S)[i] \in S /\ Ordered(S)[j] \in S
    BY <1>7
  <2>4. \/ Ordered(S)[j] = Ordered(S)[i] \/ rank[Ordered(S)[j]] < rank[Ordered(S)[i]]
    BY <2>2, <2>3, <1>3
  <2> QED BY <2>2, <2>3, <2>4, <1>1
<1>9. \A x \in S : \E i \in 1 .. n : Ordered(S)[i] = x
  <2> HIDE DEF rank, n
  <2> TAKE x \in S
  <2>1. Ordered(S)[rank[x]] = x
    BY <1>2, <1>4, <1>7 DEF Injection, IsInjective
  <2> QED BY <2>1, <1>2
<1> QED BY <1>1, <1>7, <1>8, <1>9 DEF Ordered

(* It is the only such sequence.                                           *)
LEMMA OrderedUnique ==
  ASSUME NEW S \in SUBSET Int, NEW n \in Nat, NEW s \in [1 .. n -> S],
         \A i, j \in 1 .. n : i < j => s[i] < s[j],
         \A x \in S : \E i \in 1 .. n : s[i] = x
  PROVE  IsFiniteSet(S) /\ Cardinality(S) = n /\ s = Ordered(S)
<1>0. IsFiniteSet(1 .. n) /\ Cardinality(1 .. n) = n
  BY FS_Interval
<1>a. \A i \in 1 .. n : s[i] \in S /\ s[i] \in Int
  OBVIOUS
<1>1. \A i, j \in 1 .. n : s[i] = s[j] => i = j
  BY <1>a
<1>2. IsFiniteSet(S) /\ Cardinality(S) = n
  <2>1. s \in Surjection(1 .. n, S)
    BY DEF Surjection
  <2>2. s \in Injection(1 .. n, S)
    BY <1>1 DEF Injection, IsInjective
  <2> QED BY <2>1, <2>2, <1>0, FS_Surjection
<1>3. \A i \in 1 .. n : Ordered(S)[i] = s[i]
  <2>1. ASSUME NEW i \in 1 .. n
        PROVE  Cardinality(Below(S, s[i])) = i - 1
    <3> DEFINE T == Below(S, s[i])
               f == [j \in 1 .. i - 1 |-> s[j]]
    <3>1. \A x \in T : \E j \in 1 .. i - 1 : f[j] = x
      <4> TAKE x \in T
      <4>1. x \in S /\ x < s[i]
        BY DEF Below
      <4>2. PICK j \in 1 .. n : s[j] = x
        BY <4>1
      <4>3. j < i
        BY <4>1, <4>2, <1>a
      <4> QED BY <4>2, <4>3
    <3>2. f \in [1 .. i - 1 -> T]
      BY DEF Below
    <3>3. f \in Surjection(1 .. i - 1, T)
      <4> HIDE DEF f, T
      <4> QED BY <3>1, <3>2 DEF Surjection
    <3>4. f \in Injection(1 .. i - 1, T)
      <4>1. \A j, k \in 1 .. i - 1 : f[j] = f[k] => j = k
        BY <1>1
      <4> HIDE DEF f, T
      <4> QED BY <4>1, <3>2 DEF Injection, IsInjective
    <3>5. IsFiniteSet(1 .. i - 1) /\ Cardinality(1 .. i - 1) = i - 1
      BY FS_Interval
    <3> HIDE DEF f
    <3> QED BY <3>3, <3>4, <3>5, FS_Surjection
  <2> TAKE i \in 1 .. n
  <2>2. \A x \in S : Cardinality(Below(S, x)) = i - 1 => x = s[i]
    <3> TAKE x \in S
    <3>1. PICK j \in 1 .. n : s[j] = x
      OBVIOUS
    <3>2. Cardinality(Below(S, x)) = j - 1
      BY <3>1, <2>1
    <3> QED BY <3>1, <3>2
  <2>3. Ordered(S)[i] = CHOOSE x \in S : Cardinality(Below(S, x)) = i - 1
    BY <1>2 DEF Ordered
  <2> QED BY <2>1, <2>2, <2>3
<1>4. DOMAIN Ordered(S) = 1 .. n /\ Ordered(S) = [i \in 1 .. n |-> Ordered(S)[i]]
  BY <1>2 DEF Ordered
<1> QED BY <1>2, <1>3, <1>4

(* Omit(s, S) is s at the places, in order, where s is not in S.           *)
Kept(s, S) == Ordered({j \in DOMAIN s : s[j] \notin S})

(* Each element of Omit(s, S) is one of s that is not in S, at increasing  *)
(* places.                                                                 *)
LEMMA OmitIs ==
  ASSUME NEW T, NEW s \in Seq(T), NEW S
  PROVE  /\ Omit(s, S) \in Seq(T) /\ DOMAIN Kept(s, S) = 1 .. Len(Omit(s, S))
         /\ \A i \in 1 .. Len(Omit(s, S)) :
              /\ Kept(s, S)[i] \in DOMAIN s /\ s[Kept(s, S)[i]] \notin S
              /\ Omit(s, S)[i] = s[Kept(s, S)[i]]
         /\ \A i, j \in 1 .. Len(Omit(s, S)) : i < j => Kept(s, S)[i] < Kept(s, S)[j]
         /\ \A j \in DOMAIN s : s[j] \notin S => \E i \in 1 .. Len(Omit(s, S)) : Kept(s, S)[i] = j
<1> DEFINE P == {j \in DOMAIN s : s[j] \notin S}
           at == Ordered(P)
           n == Cardinality(P)
<1>1. P \subseteq Int /\ IsFiniteSet(P)
  BY FS_Interval, FS_Subset
<1>2. /\ n \in Nat /\ at \in [1 .. n -> P] /\ \A i, j \in 1 .. n : i < j => at[i] < at[j]
      /\ \A j \in P : \E i \in 1 .. n : at[i] = j
  <2> HIDE DEF P
  <2> QED BY <1>1, OrderedIs
<1>3. Omit(s, S) = [i \in 1 .. n |-> s[at[i]]]
  BY <1>2 DEF Omit
<1> HIDE DEF at, n
<1>4. \A i \in 1 .. n : at[i] \in DOMAIN s /\ s[at[i]] \in T /\ s[at[i]] \notin S
  BY <1>2
<1>5. Omit(s, S) \in Seq(T) /\ Len(Omit(s, S)) = n /\ DOMAIN at = 1 .. n
  BY <1>2, <1>3, <1>4
<1>6. Kept(s, S) = at
  BY DEF Kept, at
<1> QED BY <1>2, <1>3, <1>4, <1>5, <1>6

(* A finite set of numbers that is not empty has a least and a greatest    *)
(* element.                                                                *)
LEMMA EndsOf ==
  ASSUME NEW S \in SUBSET Int, IsFiniteSet(S), S # {}
  PROVE  /\ \E x \in S : \A y \in S : x <= y
         /\ \E x \in S : \A y \in S : y <= x
<1> DEFINE n == Cardinality(S)
           s == Ordered(S)
<1>1. /\ n \in Nat /\ s \in [1 .. n -> S] /\ \A i, j \in 1 .. n : i < j => s[i] < s[j]
      /\ \A x \in S : \E i \in 1 .. n : s[i] = x
  BY OrderedIs
<1> HIDE DEF n, s
<1>2. n > 0
  <2>1. PICK x \in S : TRUE
    OBVIOUS
  <2>2. PICK i \in 1 .. n : s[i] = x
    BY <1>1
  <2> QED BY <1>1, <2>2
<1>3. \A i \in 1 .. n : s[i] \in S /\ s[i] \in Int
  BY <1>1
<1>4. \A i \in 1 .. n : s[1] <= s[i] /\ s[i] <= s[n]
  BY <1>1, <1>2, <1>3
<1> QED BY <1>1, <1>2, <1>3, <1>4

(* Induction up to n.                                                      *)
LEMMA Induct ==
  ASSUME NEW P, NEW n \in Nat, 0 \in P, \A i \in 0 .. n - 1 : i \in P => i + 1 \in P
  PROVE  \A i \in 0 .. n : i \in P
<1> DEFINE Bad == {i \in 0 .. n : i \notin P}
<1>1. SUFFICES ASSUME Bad # {} PROVE FALSE
  OBVIOUS
<1>2. Bad \in SUBSET Int /\ IsFiniteSet(Bad)
  <2>1. IsFiniteSet(0 .. n) /\ Bad \in SUBSET (0 .. n)
    BY FS_Interval
  <2>2. 0 .. n \in SUBSET Int
    OBVIOUS
  <2> HIDE DEF Bad
  <2> QED BY <2>1, <2>2, FS_Subset
<1>3. PICK x \in Bad : \A y \in Bad : x <= y
  BY <1>1, <1>2, EndsOf
<1>4. x \in 0 .. n /\ x # 0
  OBVIOUS
<1>5. x - 1 \in 0 .. n - 1 /\ x - 1 \notin Bad
  BY <1>3, <1>4
<1>6. x - 1 \in P
  BY <1>5, <1>4
<1>7. (x - 1) + 1 \in P
  BY <1>5, <1>6
<1> QED BY <1>7, <1>4

(* FlattenSeq(s) has the elements of the sequences of s, in order.         *)
InTurn(f, s, m) ==
  \A x, y \in DOMAIN f : x < y =>
    \E i, j \in 1 .. m : \E a \in DOMAIN s[i], b \in DOMAIN s[j] :
      f[x] = s[i][a] /\ f[y] = s[j][b] /\ (i < j \/ (i = j /\ a < b))

LEMMA FlattenIs ==
  ASSUME NEW T, NEW s \in Seq(Seq(T))
  PROVE  /\ FlattenSeq(s) \in Seq(T)
         /\ \A i \in DOMAIN FlattenSeq(s) :
              \E j \in DOMAIN s : \E l \in DOMAIN s[j] : FlattenSeq(s)[i] = s[j][l]
         /\ \A j \in DOMAIN s : \A l \in DOMAIN s[j] :
              \E i \in DOMAIN FlattenSeq(s) : FlattenSeq(s)[i] = s[j][l]
         /\ InTurn(FlattenSeq(s), s, Len(s))
<1> DEFINE n == Len(s)
           Step(f, m) == [i \in 1 .. m |-> IF i = 1 THEN s[i] ELSE f[i - 1] \o s[i]]
           Made == {m \in 0 .. n : \E f : f = Step(f, m)}
<1>0. n \in Nat /\ DOMAIN s = 1 .. n /\ \A i \in 1 .. n : s[i] \in Seq(T)
  OBVIOUS
<1>1. n \in Made
  <2>1. 0 \in Made
    <3>1. [i \in 1 .. 0 |-> {}] = Step([i \in 1 .. 0 |-> {}], 0)
      OBVIOUS
    <3>2. 0 \in 0 .. n
      BY <1>0
    <3> HIDE DEF Step
    <3> QED BY <3>1, <3>2
  <2>2. ASSUME NEW m \in 0 .. n - 1, m \in Made PROVE m + 1 \in Made
    <3>1. PICK f : f = Step(f, m)
      BY <2>2
    <3> DEFINE g == [i \in 1 .. m + 1 |-> IF i = m + 1 THEN IF i = 1 THEN s[i] ELSE f[i - 1] \o s[i]
                                          ELSE f[i]]
    <3>2. \A i \in 1 .. m : f[i] = IF i = 1 THEN s[i] ELSE f[i - 1] \o s[i]
      BY <3>1
    <3>3. \A i \in 1 .. m : g[i] = f[i]
      BY <1>0
    <3>4. \A i \in 1 .. m + 1 : g[i] = IF i = 1 THEN s[i] ELSE g[i - 1] \o s[i]
      <4> TAKE i \in 1 .. m + 1
      <4>1. CASE i = m + 1
        <5>1. i # 1 => g[i - 1] = f[i - 1]
          BY <4>1, <3>3
        <5>2. g[i] = IF i = 1 THEN s[i] ELSE f[i - 1] \o s[i]
          BY <4>1
        <5> QED BY <5>1, <5>2
      <4>2. CASE i # m + 1
        <5>1. i \in 1 .. m /\ (i # 1 => i - 1 \in 1 .. m)
          BY <4>2
        <5> HIDE DEF g
        <5> QED BY <5>1, <3>2, <3>3
      <4> QED BY <4>1, <4>2
    <3>5. g = [i \in 1 .. m + 1 |-> g[i]]
      OBVIOUS
    <3>6. g = Step(g, m + 1)
      <4> HIDE DEF g
      <4> QED BY <3>4, <3>5
    <3> HIDE DEF g, Step
    <3> QED BY <3>6
  <2> HIDE DEF Made
  <2>3. \A i \in 0 .. n : i \in Made
    BY <1>0, <2>1, <2>2, Induct
  <2> QED BY <2>3, <1>0
<1> DEFINE F == CHOOSE f : f = Step(f, n)
<1>2. F = Step(F, n)
  BY <1>1
<1>3. \A i \in 1 .. n : F[i] = IF i = 1 THEN s[i] ELSE F[i - 1] \o s[i]
  <2> HIDE DEF F
  <2> QED BY <1>2
<1>4. FlattenSeq(s) = IF n = 0 THEN s ELSE F[n]
  BY DEF FlattenSeq
<1> HIDE DEF F, Step, Made
<1> DEFINE Has(m) ==
      /\ F[m] \in Seq(T)
      /\ \A i \in DOMAIN F[m] : \E j \in 1 .. m : \E l \in DOMAIN s[j] : F[m][i] = s[j][l]
      /\ \A j \in 1 .. m : \A l \in DOMAIN s[j] : \E i \in DOMAIN F[m] : F[m][i] = s[j][l]
      /\ InTurn(F[m], s, m)
           Flat == {m \in 0 .. n : m = 0 \/ Has(m)}
<1>5. n \in Flat
  <2>1. 0 \in Flat
    BY <1>0
  <2>2. ASSUME NEW m \in 0 .. n - 1, m \in Flat PROVE m + 1 \in Flat
    <3>1. CASE m = 0
      <4>1. F[1] = s[1]
        BY <3>1, <1>3, <1>0
      <4>2. s[1] \in Seq(T)
        BY <3>1, <1>0
      <4>3. InTurn(F[1], s, 1)
        BY <4>1, <4>2 DEF InTurn
      <4>4. Has(1)
        BY <4>1, <4>2, <4>3
      <4> HIDE DEF Has
      <4> QED BY <4>4, <3>1, <1>0
    <3>2. CASE m # 0
      <4>0. m \in 1 .. n /\ m + 1 \in 1 .. n /\ m + 1 # 1
        BY <3>2, <1>0
      <4>1. F[m + 1] = F[m] \o s[m + 1]
        <5>1. (m + 1) - 1 = m
          BY <4>0
        <5> QED BY <4>0, <5>1, <1>3
      <4>2. Has(m)
        BY <2>2, <3>2
      <4>3. s[m + 1] \in Seq(T)
        BY <4>0, <1>0
      <4> DEFINE a == F[m]
                 b == s[m + 1]
                 c == F[m + 1]
      <4>4. /\ a \in Seq(T) /\ b \in Seq(T) /\ c = a \o b /\ c \in Seq(T)
            /\ Len(c) = Len(a) + Len(b)
            /\ \A i \in 1 .. Len(a) : c[i] = a[i]
            /\ \A i \in 1 .. Len(b) : c[i + Len(a)] = b[i]
            /\ Len(a) \in Nat /\ Len(b) \in Nat
            /\ DOMAIN a = 1 .. Len(a) /\ DOMAIN b = 1 .. Len(b) /\ DOMAIN c = 1 .. Len(c)
        <5> HIDE DEF a, b, c
        <5>1. a \in Seq(T) /\ b \in Seq(T) /\ c = a \o b
          BY <4>1, <4>2, <4>3 DEF a, b, c
        <5> QED BY <5>1
      <4>5. \A i \in DOMAIN c : \E j \in 1 .. m + 1 : \E l \in DOMAIN s[j] : c[i] = s[j][l]
        <5> TAKE i \in DOMAIN c
        <5>1. CASE i <= Len(a)
          <6>1. i \in DOMAIN a /\ c[i] = a[i]
            <7> HIDE DEF a, b, c
            <7> QED BY <5>1, <4>4
          <6>2. PICK j \in 1 .. m : \E l \in DOMAIN s[j] : a[i] = s[j][l]
            BY <6>1, <4>2
          <6>3. j \in 1 .. m + 1
            BY <4>0
          <6> QED BY <6>1, <6>2, <6>3
        <5>2. CASE ~(i <= Len(a))
          <6>1. i - Len(a) \in DOMAIN b /\ c[i] = b[i - Len(a)]
            <7> HIDE DEF a, b, c
            <7>1. i - Len(a) \in 1 .. Len(b) /\ (i - Len(a)) + Len(a) = i
              BY <5>2, <4>4
            <7> QED BY <7>1, <4>4
          <6>2. m + 1 \in 1 .. m + 1
            BY <4>0
          <6> QED BY <6>1, <6>2
        <5> QED BY <5>1, <5>2
      <4>6. \A j \in 1 .. m + 1 : \A l \in DOMAIN s[j] : \E i \in DOMAIN c : c[i] = s[j][l]
        <5> TAKE j \in 1 .. m + 1
        <5> TAKE l \in DOMAIN s[j]
        <5>1. CASE j = m + 1
          <6>1. l \in DOMAIN b /\ s[j][l] = b[l]
            BY <5>1
          <6>2. l + Len(a) \in DOMAIN c /\ c[l + Len(a)] = b[l]
            <7> HIDE DEF a, b, c
            <7> QED BY SMTT(30), <6>1, <4>4
          <6> QED BY <6>1, <6>2
        <5>2. CASE j # m + 1
          <6>1. j \in 1 .. m
            BY <5>2, <4>0
          <6>2. PICK i \in DOMAIN a : a[i] = s[j][l]
            BY <6>1, <4>2
          <6>3. i \in DOMAIN c /\ c[i] = a[i]
            <7> HIDE DEF a, b, c
            <7> QED BY <6>2, <4>4
          <6> QED BY <6>2, <6>3
        <5> QED BY <5>1, <5>2
      <4>7. InTurn(c, s, m + 1)
        <5> SUFFICES ASSUME NEW x \in DOMAIN c, NEW y \in DOMAIN c, x < y
                     PROVE  \E i, j \in 1 .. m + 1 : \E d \in DOMAIN s[i], e \in DOMAIN s[j] :
                              c[x] = s[i][d] /\ c[y] = s[j][e] /\ (i < j \/ (i = j /\ d < e))
          BY DEF InTurn
        <5>0. x \in Int /\ y \in Int /\ Len(a) \in Nat /\ m + 1 \in 1 .. m + 1
          <6> HIDE DEF a, b, c
          <6> QED BY <4>4, <4>0
        <5>1. CASE y <= Len(a)
          <6>1. x \in DOMAIN a /\ y \in DOMAIN a /\ c[x] = a[x] /\ c[y] = a[y]
            <7> HIDE DEF a, b, c
            <7> QED BY <5>0, <5>1, <4>4
          <6>2. PICK i \in 1 .. m, j \in 1 .. m : \E d \in DOMAIN s[i], e \in DOMAIN s[j] :
                  a[x] = s[i][d] /\ a[y] = s[j][e] /\ (i < j \/ (i = j /\ d < e))
            BY ZenonT(40), <6>1, <4>2 DEF InTurn
          <6>3. i \in 1 .. m + 1 /\ j \in 1 .. m + 1
            BY <4>0
          <6> HIDE DEF a, b, c
          <6> QED BY <6>1, <6>2, <6>3
        <5>2. CASE ~(y <= Len(a)) /\ x <= Len(a)
          <6>1. x \in DOMAIN a /\ c[x] = a[x]
            <7> HIDE DEF a, b, c
            <7> QED BY <5>2, <4>4
          <6>2. PICK i \in 1 .. m : \E d \in DOMAIN s[i] : a[x] = s[i][d]
            BY <6>1, <4>2
          <6>3. y - Len(a) \in DOMAIN b /\ c[y] = b[y - Len(a)]
            <7> HIDE DEF a, b, c
            <7>1. y - Len(a) \in 1 .. Len(b) /\ (y - Len(a)) + Len(a) = y
              BY <5>2, <5>0, <4>4
            <7> QED BY <7>1, <4>4
          <6>4. i \in 1 .. m + 1 /\ i < m + 1
            BY <4>0
          <6>5. y - Len(a) \in DOMAIN s[m + 1] /\ c[y] = s[m + 1][y - Len(a)]
            BY <6>3
          <6> HIDE DEF a, b, c
          <6> QED BY <6>1, <6>2, <6>4, <6>5, <5>0
        <5>3. CASE ~(x <= Len(a))
          <6>1. /\ x - Len(a) \in DOMAIN b /\ c[x] = b[x - Len(a)]
                /\ y - Len(a) \in DOMAIN b /\ c[y] = b[y - Len(a)]
                /\ x - Len(a) < y - Len(a)
            <7> HIDE DEF a, b, c
            <7>1. /\ x - Len(a) \in 1 .. Len(b) /\ (x - Len(a)) + Len(a) = x
                  /\ y - Len(a) \in 1 .. Len(b) /\ (y - Len(a)) + Len(a) = y
                  /\ x - Len(a) < y - Len(a)
              BY SMTT(30), <5>3, <5>0, <4>4
            <7> QED BY <7>1, <4>4
          <6> HIDE DEF a, c
          <6> QED BY <6>1, <5>0
        <5> QED BY <5>1, <5>2, <5>3
      <4>8. Has(m + 1)
        BY <4>4, <4>5, <4>6, <4>7
      <4> HIDE DEF Has
      <4> QED BY <4>8, <4>0
    <3> QED BY <3>1, <3>2
  <2> HIDE DEF Flat
  <2>3. \A i \in 0 .. n : i \in Flat
    BY <1>0, <2>1, <2>2, Induct
  <2> QED BY <2>3, <1>0
<1>6. CASE n = 0
  <2>1. s = <<>> /\ FlattenSeq(s) = <<>>
    BY <1>6, <1>4
  <2>2. <<>> \in Seq(T) /\ DOMAIN s = {}
    BY <1>0, <1>6
  <2>3. DOMAIN FlattenSeq(s) = {}
    BY <2>1, <2>2
  <2> QED BY <2>1, <2>2, <2>3 DEF InTurn
<1>7. CASE n # 0
  <2>1. Has(n) /\ FlattenSeq(s) = F[n]
    BY <1>5, <1>4, <1>7
  <2>2. DOMAIN s = 1 .. n
    BY <1>0
  <2> DEFINE R == FlattenSeq(s)
  <2>3. R = F[n]
    BY <2>1
  <2>4. /\ R \in Seq(T)
        /\ \A i \in DOMAIN R : \E j \in 1 .. n : \E l \in DOMAIN s[j] : R[i] = s[j][l]
        /\ \A j \in 1 .. n : \A l \in DOMAIN s[j] : \E i \in DOMAIN R : R[i] = s[j][l]
        /\ InTurn(R, s, n)
    <3> HIDE DEF R, n
    <3> QED BY <2>1, <2>3
  <2>5. InTurn(FlattenSeq(s), s, Len(s))
    BY <2>4
  <2> HIDE DEF R, n
  <2> QED BY <2>2, <2>4, <2>5 DEF R
<1> QED BY <1>6, <1>7

-----------------------------------------------------------------------------
(* p put in place of the elements of s between the a-th and the b-th.      *)
Spliced(r, s, a, p, b) ==
  /\ Len(r) = a + Len(p) + Len(s) - b + 1
  /\ \A x \in 1 .. a : r[x] = s[x]
  /\ \A x \in 1 .. Len(p) : r[a + x] = p[x]
  /\ \A x \in b .. Len(s) : r[a + Len(p) + x - b + 1] = s[x]

(* What is left of a sequence when p takes the place of its elements       *)
(* between a and b.                                                        *)
LEMMA SpliceIs ==
  ASSUME NEW T, NEW s \in Seq(T), NEW p \in Seq(T), NEW a \in Nat, NEW b \in Nat,
         a < b, b <= Len(s) + 1
  PROVE  /\ SubSeq(s, 1, a) \o p \o SubSeq(s, b, Len(s)) \in Seq(T)
         /\ Spliced(SubSeq(s, 1, a) \o p \o SubSeq(s, b, Len(s)), s, a, p, b)
<1> DEFINE u == SubSeq(s, 1, a)
           v == SubSeq(s, b, Len(s))
           w == u \o p
<1>0. Len(s) \in Nat /\ Len(p) \in Nat
  OBVIOUS
<1>1. u \in Seq(T) /\ Len(u) = a /\ \A x \in 1 .. a : u[x] = s[x]
  BY <1>0
<1>2. v \in Seq(T) /\ Len(v) = Len(s) - b + 1 /\ \A x \in 1 .. Len(s) - b + 1 : v[x] = s[x + b - 1]
  BY <1>0
<1> HIDE DEF u, v
<1>3. /\ w \in Seq(T) /\ Len(w) = a + Len(p)
      /\ \A x \in 1 .. a : w[x] = s[x]
      /\ \A x \in 1 .. Len(p) : w[a + x] = p[x]
  BY SMTT(30), <1>1, <1>0
<1> HIDE DEF w
<1> DEFINE r == w \o v
<1>4. /\ r \in Seq(T) /\ Len(r) = a + Len(p) + Len(s) - b + 1
      /\ \A x \in 1 .. a + Len(p) : r[x] = w[x]
      /\ \A x \in 1 .. Len(s) - b + 1 : r[a + Len(p) + x] = v[x]
  <2>1. w \in Seq(T) /\ v \in Seq(T)
    BY <1>2, <1>3
  <2>2. /\ r \in Seq(T) /\ Len(r) = Len(w) + Len(v)
        /\ \A x \in 1 .. Len(w) : r[x] = w[x]
        /\ \A x \in 1 .. Len(v) : r[Len(w) + x] = v[x]
    BY <2>1
  <2>3. Len(w) = a + Len(p) /\ Len(v) = Len(s) - b + 1
    BY <1>2, <1>3
  <2>4. a + Len(p) + (Len(s) - b + 1) = a + Len(p) + Len(s) - b + 1
    BY <1>0
  <2> HIDE DEF r
  <2> QED BY <2>2, <2>3, <2>4
<1> HIDE DEF r
<1>5. \A x \in 1 .. a : r[x] = s[x]
  BY <1>4, <1>3, <1>0
<1>6. \A x \in 1 .. Len(p) : r[a + x] = p[x]
  BY <1>4, <1>3, <1>0
<1>7. \A x \in b .. Len(s) : r[a + Len(p) + x - b + 1] = s[x]
  <2> TAKE x \in b .. Len(s)
  <2>1. x - b + 1 \in 1 .. Len(s) - b + 1 /\ (x - b + 1) + b - 1 = x
    BY <1>0
  <2>2. r[a + Len(p) + (x - b + 1)] = s[x]
    BY <2>1, <1>2, <1>4
  <2>3. a + Len(p) + (x - b + 1) = a + Len(p) + x - b + 1
    BY <1>0
  <2> QED BY <2>2, <2>3
<1>8. r \in Seq(T) /\ Spliced(r, s, a, p, b)
  BY <1>4, <1>5, <1>6, <1>7 DEF Spliced
<1> QED BY <1>8 DEF r, w, u, v


(* RemoveAt(s, i) is s without its i-th element.                           *)
LEMMA RemoveIs ==
  ASSUME NEW T, NEW s \in Seq(T), NEW i \in 1 .. Len(s)
  PROVE  /\ RemoveAt(s, i) \in Seq(T) /\ Len(RemoveAt(s, i)) = Len(s) - 1
         /\ \A x \in 1 .. i - 1 : RemoveAt(s, i)[x] = s[x]
         /\ \A x \in i .. Len(s) - 1 : RemoveAt(s, i)[x] = s[x + 1]
<1> DEFINE u == SubSeq(s, 1, i - 1)
           v == SubSeq(s, i + 1, Len(s))
           r == u \o v
<1>0. Len(s) \in Nat /\ i \in Int /\ 1 <= i /\ i <= Len(s)
  OBVIOUS
<1>1. u \in Seq(T) /\ Len(u) = i - 1 /\ \A x \in 1 .. i - 1 : u[x] = s[x]
  BY <1>0
<1>2. v \in Seq(T) /\ Len(v) = Len(s) - i /\ \A x \in 1 .. Len(s) - i : v[x] = s[x + i]
  <2> DEFINE b == i + 1
  <2>1. b \in Int /\ 1 <= b /\ b <= Len(s) + 1
    BY <1>0
  <2> HIDE DEF b
  <2>2. /\ SubSeq(s, b, Len(s)) \in Seq(T) /\ Len(SubSeq(s, b, Len(s))) = Len(s) - b + 1
        /\ \A x \in 1 .. Len(s) - b + 1 : SubSeq(s, b, Len(s))[x] = s[x + b - 1]
    BY <2>1, <1>0
  <2>3. Len(s) - b + 1 = Len(s) - i /\ \A x \in Int : x + b - 1 = x + i
    BY <1>0 DEF b
  <2>4. \A x \in 1 .. Len(s) - i : SubSeq(s, b, Len(s))[x] = s[x + i]
    <3> TAKE x \in 1 .. Len(s) - i
    <3>1. x \in Int /\ x + b - 1 = x + i
      BY <2>3
    <3> QED BY <2>2, <2>3, <3>1
  <2>5. v = SubSeq(s, b, Len(s))
    BY DEF b
  <2> QED BY <2>2, <2>3, <2>4, <2>5
<1>3. RemoveAt(s, i) = r
  BY DEF RemoveAt
<1> HIDE DEF u, v
<1>4. /\ r \in Seq(T) /\ Len(r) = Len(u) + Len(v)
      /\ \A x \in 1 .. Len(u) : r[x] = u[x]
      /\ \A x \in 1 .. Len(v) : r[Len(u) + x] = v[x]
  <2>1. u \in Seq(T) /\ v \in Seq(T)
    BY <1>1, <1>2
  <2> QED BY <2>1
<1> HIDE DEF r
<1>5. Len(r) = Len(s) - 1
  BY <1>0, <1>1, <1>2, <1>4
<1>6. \A x \in 1 .. i - 1 : r[x] = s[x]
  BY <1>1, <1>4
<1>7. \A x \in i .. Len(s) - 1 : r[x] = s[x + 1]
  <2> TAKE x \in i .. Len(s) - 1
  <2>1. x - i + 1 \in 1 .. Len(s) - i /\ (i - 1) + (x - i + 1) = x /\ (x - i + 1) + i = x + 1
    BY <1>0
  <2>2. r[(i - 1) + (x - i + 1)] = v[x - i + 1] /\ v[x - i + 1] = s[(x - i + 1) + i]
    BY <2>1, <1>1, <1>2, <1>4
  <2> QED BY <2>1, <2>2
<1> QED BY <1>3, <1>4, <1>5, <1>6, <1>7

(* An element added at the end, the first element taken off.               *)
LEMMA AppendIs ==
  ASSUME NEW T, NEW s \in Seq(T), NEW e
  PROVE  /\ Append(s, e) # <<>> /\ Len(Append(s, e)) = Len(s) + 1
         /\ \A i \in DOMAIN Append(s, e) : \/ i \in DOMAIN s /\ Append(s, e)[i] = s[i]
                                           \/ i = Len(s) + 1 /\ Append(s, e)[i] = e
         /\ \A i \in DOMAIN s : i \in DOMAIN Append(s, e) /\ Append(s, e)[i] = s[i]
<1>1. Append(s, e) # <<>> /\ Len(Append(s, e)) = Len(s) + 1
  <2>1. Len(Append(s, e)) = Len(s) + 1
    OBVIOUS
  <2>2. Len(s) \in Nat /\ Len(<<>>) = 0
    OBVIOUS
  <2>3. Len(s) + 1 # 0
    BY <2>2
  <2> QED BY <2>1, <2>2, <2>3
<1>2. /\ \A i \in DOMAIN Append(s, e) : \/ i \in DOMAIN s /\ Append(s, e)[i] = s[i]
                                        \/ i = Len(s) + 1 /\ Append(s, e)[i] = e
      /\ \A i \in DOMAIN s : i \in DOMAIN Append(s, e) /\ Append(s, e)[i] = s[i]
  OBVIOUS
<1> QED BY <1>1, <1>2

(* A sequence without its first element: every other one comes one place   *)
(* earlier.                                                                *)
LEMMA TailIs ==
  ASSUME NEW T, NEW s \in Seq(T), s # <<>>
  PROVE  /\ Head(s) = s[1] /\ 1 \in DOMAIN s /\ Head(s) \in T
         /\ Tail(s) \in Seq(T) /\ Len(Tail(s)) = Len(s) - 1
         /\ \A i \in DOMAIN Tail(s) : i + 1 \in DOMAIN s /\ i + 1 > 1 /\ Tail(s)[i] = s[i + 1]
         /\ \A i \in DOMAIN s : i > 1 => i - 1 \in DOMAIN Tail(s) /\ Tail(s)[i - 1] = s[i]
<1>1. /\ Head(s) = s[1] /\ DOMAIN s = 1 .. Len(s) /\ Len(s) \in Nat \ {0}
      /\ Tail(s) \in Seq(T) /\ Len(Tail(s)) = Len(s) - 1 /\ DOMAIN Tail(s) = 1 .. Len(s) - 1
  OBVIOUS
<1>2. \A i \in 1 .. Len(s) - 1 : Tail(s)[i] = s[i + 1]
  OBVIOUS
<1>3. \A i \in DOMAIN s : i > 1 => i - 1 \in DOMAIN Tail(s) /\ Tail(s)[i - 1] = s[i]
  <2> SUFFICES ASSUME NEW i \in 1 .. Len(s), i > 1
               PROVE  i - 1 \in 1 .. Len(s) - 1 /\ Tail(s)[i - 1] = s[i]
    BY <1>1
  <2>1. i - 1 \in 1 .. Len(s) - 1 /\ (i - 1) + 1 = i
    BY <1>1
  <2>2. Tail(s)[i - 1] = s[(i - 1) + 1]
    BY <2>1, <1>2
  <2> QED BY <2>1, <2>2
<1>4. \A i \in DOMAIN Tail(s) : i + 1 \in DOMAIN s /\ i + 1 > 1 /\ Tail(s)[i] = s[i + 1]
  BY <1>1, <1>2
<1> QED BY <1>1, <1>3, <1>4
=============================================================================
