--------------------------- MODULE DataNode_proofs ---------------------------
(***************************************************************************)
(* Proofs about a hot leaf, for every set of keys, every word size, every  *)
(* size of the node and every monotone prediction.                         *)
(***************************************************************************)
EXTENDS DataNode, Ordering_proofs

-----------------------------------------------------------------------------
(* Recursive functions, least and greatest elements.                       *)

(* A function defined by recursion on 0 .. n exists.                       *)
LEMMA RecursionIs ==
  ASSUME NEW D, NEW a \in D, NEW n \in Nat, NEW g \in [1 .. n -> [D -> D]]
  PROVE  \E f \in [0 .. n -> D] : f[0] = a /\ \A i \in 1 .. n : f[i] = g[i][f[i - 1]]
<1> DEFINE Step(f, m) == [i \in 0 .. m |-> IF i = 0 THEN a ELSE g[i][f[i - 1]]]
           Made == {m \in 0 .. n : \E f \in [0 .. m -> D] : f = Step(f, m)}
<1>1. 0 \in Made
  <2> DEFINE f == [i \in 0 .. 0 |-> a]
  <2>1. f \in [0 .. 0 -> D] /\ f = Step(f, 0)
    OBVIOUS
  <2> HIDE DEF f, Step
  <2> QED BY <2>1
<1>2. ASSUME NEW m \in 0 .. n - 1, m \in Made PROVE m + 1 \in Made
  <2>1. PICK f \in [0 .. m -> D] : f = Step(f, m)
    BY <1>2
  <2> DEFINE h == [i \in 0 .. m + 1 |-> IF i = m + 1 THEN g[m + 1][f[m]] ELSE f[i]]
  <2>2. h \in [0 .. m + 1 -> D]
    <3>1. f[m] \in D /\ m + 1 \in 1 .. n
      OBVIOUS
    <3>2. g[m + 1][f[m]] \in D
      BY <3>1
    <3> QED BY <3>2
  <2>3. \A i \in 0 .. m + 1 : h[i] = Step(h, m + 1)[i]
    <3> TAKE i \in 0 .. m + 1
    <3>1. CASE i = 0
      <4>1. h[i] = f[0] /\ f[0] = a
        BY <3>1, <2>1
      <4> QED BY <4>1, <3>1
    <3>2. CASE i \in 1 .. m
      <4>1. h[i] = f[i] /\ h[i - 1] = f[i - 1] /\ f[i] = g[i][f[i - 1]]
        BY <3>2, <2>1
      <4> QED BY <4>1, <3>2
    <3>3. CASE i = m + 1
      <4>1. h[i] = g[m + 1][f[m]] /\ h[i - 1] = f[m]
        BY <3>3
      <4> QED BY <4>1, <3>3
    <3> QED BY <3>1, <3>2, <3>3
  <2>4. h = Step(h, m + 1)
    <3> HIDE DEF h
    <3> QED BY <2>2, <2>3
  <2> HIDE DEF h, Step
  <2> QED BY <2>2, <2>4
<1>3. n \in Made
  <2> HIDE DEF Made, Step
  <2>1. \A i \in 0 .. n : i \in Made
    BY <1>1, <1>2, Induct
  <2> QED BY <2>1
<1>4. PICK f \in [0 .. n -> D] : f = Step(f, n)
  BY <1>3
<1>5. \A i \in 0 .. n : f[i] = IF i = 0 THEN a ELSE g[i][f[i - 1]]
  BY <1>4
<1> QED BY <1>5

(* Min and Max of a finite set of numbers.                                 *)
LEMMA MinIs ==
  ASSUME NEW S \in SUBSET Int, IsFiniteSet(S), S # {}
  PROVE  Min(S) \in S /\ \A y \in S : Min(S) <= y
<1>1. \E x \in S : \A y \in S : x <= y
  BY EndsOf
<1> QED BY <1>1 DEF Min

(* The greatest element of a finite set of numbers is one of its elements. *)
LEMMA MaxIs ==
  ASSUME NEW S \in SUBSET Int, IsFiniteSet(S), S # {}
  PROVE  Max(S) \in S /\ \A y \in S : Max(S) >= y
<1>1. \E x \in S : \A y \in S : y <= x
  BY EndsOf
<1>2. \E x \in S : \A y \in S : x >= y
  BY <1>1
<1> QED BY <1>2 DEF Max

(* The only least element is the minimum, the only greatest the maximum.   *)
LEMMA MinEq ==
  ASSUME NEW S \in SUBSET Int, NEW x \in S, \A y \in S : x <= y
  PROVE  Min(S) = x
<1>1. \E z \in S : \A y \in S : z <= y
  OBVIOUS
<1>2. Min(S) \in S /\ \A y \in S : Min(S) <= y
  BY <1>1 DEF Min
<1>3. Min(S) <= x /\ x <= Min(S) /\ x \in Int /\ Min(S) \in Int
  BY <1>2
<1> QED BY <1>3

(* An element that no other exceeds is the greatest.                       *)
LEMMA MaxEq ==
  ASSUME NEW S \in SUBSET Int, NEW x \in S, \A y \in S : y <= x
  PROVE  Max(S) = x
<1>1. \E z \in S : \A y \in S : z >= y
  OBVIOUS
<1>2. Max(S) \in S /\ \A y \in S : Max(S) >= y
  BY <1>1 DEF Max
<1>3. Max(S) <= x /\ x <= Max(S) /\ x \in Int /\ Max(S) \in Int
  BY <1>2
<1> QED BY <1>3

-----------------------------------------------------------------------------
(* The searches.                                                           *)

(* The binary search returns the bound between the positions that are in S *)
(* and those that are not, wherever it lies in the window.                 *)
LEMMA BinarySearchIs ==
  ASSUME NEW l \in Int, NEW r \in Int, NEW u \in Int, l <= u, u <= r,
         NEW S, \A j \in l .. r - 1 : j \in S <=> j < u
  PROVE  BinarySearch(l, r, S) = u
<1> DEFINE n == r - l
           D == [l : Int, r : Int]
           first == [l |-> l, r |-> r]
           g == [i \in 1 .. n |-> [w \in D |-> Halved(w, S)]]
           F == CHOOSE f : f = [i \in 0 .. n |-> IF i = 0 THEN first ELSE Halved(f[i - 1], S)]
<1>1. n \in Nat /\ first \in D
  OBVIOUS
<1>2. \A w \in D : Halved(w, S) \in D
  BY DEF Halved
<1>3. g \in [1 .. n -> [D -> D]]
  BY <1>2
<1>4. \E f : f = [i \in 0 .. n |-> IF i = 0 THEN first ELSE Halved(f[i - 1], S)]
  <2>1. PICK f \in [0 .. n -> D] : f[0] = first /\ \A i \in 1 .. n : f[i] = g[i][f[i - 1]]
    <3> HIDE DEF g, D, n, first
    <3> QED BY <1>1, <1>3, RecursionIs
  <2>2. \A i \in 1 .. n : g[i][f[i - 1]] = Halved(f[i - 1], S)
    <3> TAKE i \in 1 .. n
    <3>1. i - 1 \in 0 .. n /\ f[i - 1] \in D
      BY <1>1
    <3> HIDE DEF D
    <3> QED BY <3>1
  <2>3. f = [i \in 0 .. n |-> IF i = 0 THEN first ELSE Halved(f[i - 1], S)]
    <3> HIDE DEF g, D, n, first
    <3>1. \A i \in 0 .. n : i # 0 => i \in 1 .. n
      BY <1>1
    <3> QED BY <2>1, <2>2, <3>1
  <2> QED BY <2>3
<1>5. F = [i \in 0 .. n |-> IF i = 0 THEN first ELSE Halved(F[i - 1], S)]
  BY <1>4
<1>6. BinarySearch(l, r, S) = F[n].l
  BY DEF BinarySearch
<1> HIDE DEF F
<1> DEFINE Good == {i \in 0 .. n : /\ F[i] \in D /\ l <= F[i].l /\ F[i].l <= u
                                   /\ u <= F[i].r /\ F[i].r <= r /\ F[i].r - F[i].l <= n - i}
<1>7. 0 \in Good
  <2>1. F[0] = first
    BY <1>1, <1>5
  <2> QED BY <2>1, <1>1
<1>8. ASSUME NEW i \in 0 .. n - 1, i \in Good PROVE i + 1 \in Good
  <2> DEFINE w == F[i]
  <2>1. w \in D /\ l <= w.l /\ w.l <= u /\ u <= w.r /\ w.r <= r /\ w.r - w.l <= n - i
    BY <1>8
  <2>2. F[i + 1] = Halved(w, S)
    <3>1. i + 1 \in 0 .. n /\ i + 1 # 0 /\ (i + 1) - 1 = i
      BY <1>1
    <3> QED BY <3>1, <1>5
  <2> HIDE DEF w
  <2>3. PICK mid : mid = w.l + (w.r - w.l) \div 2
    OBVIOUS
  <2>4. w.l \in Int /\ w.r \in Int /\ mid \in Int
    BY <2>1, <2>3
  <2>5. w.l < w.r => w.l <= mid /\ mid < w.r
    BY <2>4, <2>3
  <2>6. Halved(w, S) = IF w.l >= w.r THEN w
                       ELSE IF mid \in S THEN [l |-> mid + 1, r |-> w.r] ELSE [l |-> w.l, r |-> mid]
    BY <2>3 DEF Halved
  <2>7. i + 1 \in 0 .. n /\ n \in Int
    BY <1>1
  <2>8. CASE w.l >= w.r
    <3>1. Halved(w, S) = w
      BY <2>8, <2>6
    <3>2. w.r - w.l <= n - (i + 1)
      BY <2>8, <2>1, <2>4, <2>7
    <3> QED BY <3>1, <3>2, <2>1, <2>2, <2>7
  <2>9. CASE w.l < w.r /\ mid \in S
    <3>1. Halved(w, S) = [l |-> mid + 1, r |-> w.r]
      BY <2>9, <2>6, <2>4
    <3>2. mid < u
      BY <2>9, <2>5, <2>4, <2>1
    <3>3. [l |-> mid + 1, r |-> w.r] \in D
      BY <2>4
    <3>4. l <= mid + 1 /\ mid + 1 <= u /\ w.r - (mid + 1) <= n - (i + 1)
      BY <3>2, <2>5, <2>4, <2>1, <2>9, <2>7
    <3> QED BY <3>1, <3>3, <3>4, <2>1, <2>2, <2>7
  <2>10. CASE w.l < w.r /\ mid \notin S
    <3>1. Halved(w, S) = [l |-> w.l, r |-> mid]
      BY <2>10, <2>6, <2>4
    <3>2. u <= mid
      BY <2>10, <2>5, <2>4, <2>1
    <3>3. [l |-> w.l, r |-> mid] \in D
      BY <2>4
    <3>4. mid <= r /\ mid - w.l <= n - (i + 1)
      BY <3>2, <2>5, <2>4, <2>1, <2>10, <2>7
    <3> QED BY <3>1, <3>2, <3>3, <3>4, <2>1, <2>2, <2>7
  <2> QED BY <2>8, <2>9, <2>10, <2>4
<1>9. n \in Good
  <2> HIDE DEF Good, n
  <2> QED BY <1>1, <1>7, <1>8, Induct
<1> QED BY <1>9, <1>6, <1>1

(* A set of naturals, finite or not, has a least element.                  *)
LEMMA NatMinIs ==
  ASSUME NEW S \in SUBSET Nat, S # {}
  PROVE  Min(S) \in S /\ \A y \in S : Min(S) <= y
<1>1. PICK x \in S : TRUE
  OBVIOUS
<1> DEFINE T == {y \in S : y <= x}
<1>2. T \in SUBSET (0 .. x) /\ x \in T
  <2>1. x \in Nat /\ \A y \in S : y \in Nat
    OBVIOUS
  <2>2. \A y \in T : y \in 0 .. x
    BY <2>1
  <2>3. x <= x
    BY <2>1
  <2> QED BY <2>2, <2>3
<1>3. T \in SUBSET Int /\ IsFiniteSet(T) /\ T # {}
  <2>1. x \in Int /\ IsFiniteSet(0 .. x) /\ 0 .. x \in SUBSET Int
    BY FS_Interval
  <2> HIDE DEF T
  <2> QED BY <1>2, <2>1, FS_Subset
<1>4. PICK z \in T : \A y \in T : z <= y
  <2> HIDE DEF T
  <2> QED BY <1>3, EndsOf
<1>5. z \in S /\ \A y \in S : z <= y
  BY <1>4
<1>6. S \in SUBSET Int
  OBVIOUS
<1>7. Min(S) = z
  BY <1>5, <1>6, MinEq
<1> QED BY <1>5, <1>7

(* The doubled bounds: 1, 2, 4, ...; the n-th is above n.                  *)
Doubled(f, n) == f = [i \in 0 .. n |-> IF i = 0 THEN 1 ELSE 2 * f[i - 1]]

(* The bounds the exponential search tries: powers of two, which exceed    *)
(* the capacity after as many rounds.                                      *)
LEMMA DoubledIs ==
  ASSUME NEW n \in Nat
  PROVE  /\ \E f : Doubled(f, n)
         /\ \A f : Doubled(f, n) =>
              /\ \A i \in 0 .. n : f[i] \in Nat /\ f[i] > i
              /\ f[0] = 1 /\ \A i \in 1 .. n : f[i] = 2 * f[i - 1] /\ f[i] \div 2 = f[i - 1]
<1>1. \E f : Doubled(f, n)
  <2> DEFINE g == [i \in 1 .. n |-> [w \in Nat |-> 2 * w]]
  <2>1. g \in [1 .. n -> [Nat -> Nat]]
    OBVIOUS
  <2>2. PICK f \in [0 .. n -> Nat] : f[0] = 1 /\ \A i \in 1 .. n : f[i] = g[i][f[i - 1]]
    <3> DEFINE D == Nat
               one == 1
    <3>1. one \in D /\ g \in [1 .. n -> [D -> D]]
      BY <2>1
    <3> HIDE DEF g, D, one
    <3>2. \E f \in [0 .. n -> D] : f[0] = one /\ \A i \in 1 .. n : f[i] = g[i][f[i - 1]]
      BY <3>1, RecursionIs
    <3> QED BY <3>2 DEF D, one
  <2>4. \A i \in 0 .. n : i # 0 => g[i][f[i - 1]] = 2 * f[i - 1]
    <3> TAKE i \in 0 .. n
    <3> HAVE i # 0
    <3>1. i \in 1 .. n /\ f[i - 1] \in Nat
      OBVIOUS
    <3> QED BY <3>1
  <2> HIDE DEF g
  <2>5. f = [i \in 0 .. n |-> IF i = 0 THEN 1 ELSE 2 * f[i - 1]]
    <3>1. \A i \in 0 .. n : i # 0 => i \in 1 .. n
      OBVIOUS
    <3>2. \A i \in 0 .. n : f[i] = IF i = 0 THEN 1 ELSE 2 * f[i - 1]
      BY <2>2, <2>4, <3>1
    <3> QED BY <2>2, <3>2
  <2> QED BY <2>5 DEF Doubled
<1>2. ASSUME NEW f, Doubled(f, n)
      PROVE  /\ \A i \in 0 .. n : f[i] \in Nat /\ f[i] > i
             /\ f[0] = 1 /\ \A i \in 1 .. n : f[i] = 2 * f[i - 1] /\ f[i] \div 2 = f[i - 1]
  <2>1. f[0] = 1 /\ \A i \in 1 .. n : f[i] = 2 * f[i - 1]
    <3>1. f = [i \in 0 .. n |-> IF i = 0 THEN 1 ELSE 2 * f[i - 1]]
      BY <1>2 DEF Doubled
    <3>2. \A i \in 0 .. n : f[i] = IF i = 0 THEN 1 ELSE 2 * f[i - 1]
      BY <3>1
    <3> QED BY <3>2
  <2> DEFINE Good == {i \in 0 .. n : f[i] \in Nat /\ f[i] > i}
  <2>2. 0 \in Good
    BY <2>1
  <2>3. ASSUME NEW i \in 0 .. n - 1, i \in Good PROVE i + 1 \in Good
    <3>1. i + 1 \in 1 .. n /\ (i + 1) - 1 = i
      OBVIOUS
    <3>2. f[i + 1] = 2 * f[i]
      BY <2>1, <3>1
    <3>3. f[i] \in Nat /\ f[i] > i
      BY <2>3
    <3> QED BY <3>1, <3>2, <3>3
  <2>4. \A i \in 0 .. n : i \in Good
    <3> HIDE DEF Good
    <3> QED BY <2>2, <2>3, Induct
  <2>5. \A i \in 0 .. n : f[i] \in Nat /\ f[i] > i
    BY <2>4
  <2>6. \A i \in 1 .. n : f[i] \div 2 = f[i - 1]
    <3> TAKE i \in 1 .. n
    <3>1. f[i] = 2 * f[i - 1] /\ f[i - 1] \in Nat
      BY <2>1, <2>5
    <3> QED BY <3>1
  <2> QED BY <2>1, <2>5, <2>6
<1> QED BY <1>1, <1>2

(* Wherever it starts, the exponential search finds the first position of  *)
(* the array that is not in S, if S is an initial segment.                 *)
LEMMA ExponentialSearchIs ==
  ASSUME NEW d, NEW n \in Nat, data_capacity(d) = n, NEW m \in 0 .. n - 1, NEW u \in 0 .. n,
         NEW S, \A j \in 0 .. n - 1 : j \in S <=> j < u
  PROVE  ExponentialSearch(d, m, S) = u
<1> DEFINE F == CHOOSE f : f = [i \in 0 .. n |-> IF i = 0 THEN 1 ELSE 2 * f[i - 1]]
           B == {F[i] : i \in 0 .. n}
           size == n - m
           Left == {b \in B : b >= m \/ m - b \in S}
           Right == {b \in B : b >= size \/ m + b \notin S}
           left == Min(Left)
           right == Min(Right)
<1>1. /\ \A i \in 0 .. n : F[i] \in Nat /\ F[i] > i
      /\ F[0] = 1 /\ \A i \in 1 .. n : F[i] = 2 * F[i - 1] /\ F[i] \div 2 = F[i - 1]
  <2>1. \E f : f = [i \in 0 .. n |-> IF i = 0 THEN 1 ELSE 2 * f[i - 1]]
    BY DoubledIs DEF Doubled
  <2>2. F = [i \in 0 .. n |-> IF i = 0 THEN 1 ELSE 2 * F[i - 1]]
    BY <2>1
  <2>3. Doubled(F, n)
    BY <2>2 DEF Doubled
  <2> HIDE DEF F
  <2> QED BY <2>3, DoubledIs
<1>2. ExponentialSearch(d, m, S) =
        IF m \in S THEN BinarySearch(m + right \div 2, m + Smaller(right, size), S)
        ELSE BinarySearch(m - Smaller(left, m), m - left \div 2, S)
  BY Zenon DEF ExponentialSearch
<1> HIDE DEF F
<1>3. B \in SUBSET Nat /\ F[n] \in B /\ F[n] > n /\ size \in Nat /\ size # 0 /\ size <= n /\ m <= n
  BY <1>1
<1>4. \A b \in B : b # 1 => b \div 2 \in B /\ 2 * (b \div 2) = b /\ b > 1 /\ b \div 2 < b
  <2> TAKE b \in B
  <2> HAVE b # 1
  <2>1. PICK i \in 0 .. n : b = F[i]
    OBVIOUS
  <2>2. i # 0 /\ i - 1 \in 0 .. n /\ i \in 1 .. n
    BY <2>1, <1>1
  <2>3. b \div 2 = F[i - 1] /\ b = 2 * F[i - 1] /\ F[i - 1] \in Nat /\ F[i - 1] > 0
    BY <2>1, <2>2, <1>1
  <2>4. F[i - 1] \in B
    BY <2>2
  <2> HIDE DEF B
  <2> QED BY <2>3, <2>4
<1>5. \A b \in B : b >= 1
  BY <1>1
<1>6. CASE m \in S
  <2>1. Right \in SUBSET Nat /\ Right # {}
    <3>1. F[n] \in Int /\ F[n] >= size
      BY <1>3
    <3> HIDE DEF B, size, left, right
    <3>2. Right \in SUBSET B /\ F[n] \in Right
      BY <1>3, <3>1
    <3> QED BY <1>3, <3>2
  <2>2. right \in Right /\ \A b \in Right : right <= b
    <3> HIDE DEF Right
    <3> QED BY <2>1, NatMinIs
  <2> HIDE DEF right
  <2>3. right \in B /\ (right >= size \/ m + right \notin S) /\ right \in Nat
    BY <2>2, <1>3
  <2>a. \A b \in B : b < right => b < size /\ m + b \in S
    <3> TAKE b \in B
    <3> HAVE b < right
    <3>1. b \in Nat /\ b \notin Right
      BY <2>2, <2>3, <1>3
    <3>2. ~(b >= size) /\ m + b \in S
      BY <3>1
    <3> QED BY <3>1, <3>2, <1>3
  <2> HIDE DEF right, Right, B
  <2>4. m < u
    BY <1>6
  <2>5. m + right \div 2 <= u
    <3>1. CASE right = 1
      BY <3>1, <2>4
    <3>2. CASE right # 1
      <4>1. right \div 2 \in B /\ right \div 2 < right
        BY <3>2, <1>4, <2>3
      <4>2. right \div 2 < size /\ m + right \div 2 \in S
        BY <4>1, <2>a
      <4>3. right \div 2 \in Nat
        BY <4>1, <1>3
      <4>4. m + right \div 2 \in 0 .. n - 1
        BY <4>2, <4>3, <1>3
      <4>5. m + right \div 2 < u
        BY <4>2, <4>4
      <4> QED BY <4>5, <4>4
    <3> QED BY <3>1, <3>2
  <2>6. u <= m + Smaller(right, size)
    <3>1. CASE right >= size
      <4>1. Smaller(right, size) = size
        BY <3>1, <2>3, <1>3 DEF Smaller
      <4> QED BY <4>1
    <3>2. CASE right < size
      <4>1. Smaller(right, size) = right
        BY <3>2, <2>3, <1>3 DEF Smaller
      <4>2. m + right \in 0 .. n - 1 /\ m + right \notin S
        BY <3>2, <2>3, <1>3
      <4>3. ~(m + right < u)
        BY <4>2
      <4> QED BY <4>1, <4>2, <4>3
    <3> QED BY <3>1, <3>2, <2>3, <1>3
  <2>7. m + Smaller(right, size) <= n
    BY <2>3, <1>3 DEF Smaller
  <2>8. m + right \div 2 \in Nat /\ m + Smaller(right, size) \in Int
    BY <2>3, <1>3 DEF Smaller
  <2>9. PICK l : l = m + right \div 2
    OBVIOUS
  <2>10. PICK r : r = m + Smaller(right, size)
    OBVIOUS
  <2>11. l \in Nat /\ r \in Int /\ l <= u /\ u <= r /\ r <= n /\ u \in Int
    BY <2>9, <2>10, <2>5, <2>6, <2>7, <2>8
  <2>12. \A j \in l .. r - 1 : j \in S <=> j < u
    <3> TAKE j \in l .. r - 1
    <3>1. j \in 0 .. n - 1
      BY <2>11
    <3> QED BY <3>1
  <2>13. BinarySearch(l, r, S) = u
    BY <2>11, <2>12, BinarySearchIs
  <2> QED BY <2>9, <2>10, <2>13, <1>2, <1>6
<1>7. CASE m \notin S
  <2>1. Left \in SUBSET Nat /\ Left # {}
    <3>1. F[n] >= m /\ F[n] \in B
      BY <1>3
    <3>2. F[n] \in Left
      BY <3>1
    <3> QED BY <3>2, <1>3
  <2>2. left \in Left /\ \A b \in Left : left <= b
    <3> HIDE DEF Left
    <3> QED BY <2>1, NatMinIs
  <2> HIDE DEF left
  <2>3. left \in B /\ (left >= m \/ m - left \in S) /\ left \in Nat
    BY <2>2, <1>3
  <2>a. \A b \in B : b < left => b < m /\ m - b \notin S
    <3> TAKE b \in B
    <3> HAVE b < left
    <3>1. b \in Nat /\ b \notin Left
      BY <2>2, <2>3, <1>3
    <3>2. ~(b >= m) /\ m - b \notin S
      BY <3>1
    <3> QED BY <3>1, <3>2, <1>3
  <2> HIDE DEF left, Left, B
  <2>4. u <= m
    BY <1>7
  <2>5. u <= m - left \div 2
    <3>1. CASE left = 1
      BY <3>1, <2>4
    <3>2. CASE left # 1
      <4>1. left \div 2 \in B /\ left \div 2 < left
        BY <3>2, <1>4, <2>3
      <4>2. left \div 2 < m /\ m - left \div 2 \notin S
        BY <4>1, <2>a
      <4>3. left \div 2 \in Nat
        BY <4>1, <1>3
      <4>4. m - left \div 2 \in 0 .. n - 1
        BY <4>2, <4>3, <1>3
      <4>5. ~(m - left \div 2 < u)
        BY <4>2, <4>4
      <4> QED BY <4>5, <4>4
    <3> QED BY <3>1, <3>2
  <2>6. m - Smaller(left, m) <= u
    <3>1. CASE left >= m
      <4>1. Smaller(left, m) = m
        BY <3>1, <2>3, <1>3 DEF Smaller
      <4> QED BY <4>1
    <3>2. CASE left < m
      <4>1. Smaller(left, m) = left
        BY <3>2, <2>3, <1>3 DEF Smaller
      <4>2. m - left \in 0 .. n - 1 /\ m - left \in S
        BY <3>2, <2>3, <1>3
      <4>3. m - left < u
        BY <4>2
      <4> QED BY <4>1, <4>2, <4>3
    <3> QED BY <3>1, <3>2, <2>3, <1>3
  <2>7. m - Smaller(left, m) >= 0 /\ m - Smaller(left, m) \in Int
    BY <2>3, <1>3 DEF Smaller
  <2>8. left \div 2 \in Nat /\ m - left \div 2 \in Int /\ m - left \div 2 <= n
    BY <2>3, <1>3
  <2>9. PICK l : l = m - Smaller(left, m)
    OBVIOUS
  <2>10. PICK r : r = m - left \div 2
    OBVIOUS
  <2>11. l \in Int /\ l >= 0 /\ r \in Int /\ l <= u /\ u <= r /\ r <= n /\ u \in Int
    BY <2>9, <2>10, <2>5, <2>6, <2>7, <2>8
  <2>12. \A j \in l .. r - 1 : j \in S <=> j < u
    <3> TAKE j \in l .. r - 1
    <3>1. j \in 0 .. n - 1
      BY <2>11
    <3> QED BY <3>1
  <2>13. BinarySearch(l, r, S) = u
    BY <2>11, <2>12, BinarySearchIs
  <2> QED BY <2>9, <2>10, <2>13, <1>2, <1>7
<1> QED BY <1>6, <1>7

-----------------------------------------------------------------------------
(* The inductive invariant.  A leaf that is not cold has its arrays, of    *)
(* size n; the slots are sorted, a gap repeats the slot on its right, the  *)
(* last one holds the sentinel, and what the bitmap marks are entries.     *)
Arrays(d, n) ==
  /\ n \in Nat \ {0}
  /\ d \in [key_slots : [0 .. n - 1 -> Keys \cup {kEndSentinel}],
            payload_slots : [0 .. n - 1 -> Payloads \cup {NoPayload}],
            bitmap : SUBSET (0 .. n - 1), num_keys : Nat,
            expansion_threshold : Nat, contraction_threshold : Nat, is_cold : {FALSE}]

Gapped(d, n) ==
  /\ \A i, j \in 0 .. n - 1 : i <= j => d.key_slots[i] <= d.key_slots[j]
  /\ \A j \in 0 .. n - 1 : j \notin d.bitmap =>
       d.key_slots[j] = IF j = n - 1 THEN kEndSentinel ELSE d.key_slots[j + 1]
  /\ \A j \in d.bitmap : d.key_slots[j] \in Keys /\ d.payload_slots[j] \in Payloads

Counted(d, n) ==
  /\ Cardinality(d.bitmap) = d.num_keys /\ d.num_keys <= MaxKeys
  /\ d.expansion_threshold <= n * 10

HotNode(d, n) == Arrays(d, n) /\ Gapped(d, n) /\ Counted(d, n)

IInv == node = Cold \/ HotNode(node, data_capacity(node))

(* What the shape of the arrays says of the capacity and the keys.         *)
LEMMA ArraysIs ==
  ASSUME NEW d, NEW n, Arrays(d, n)
  PROVE  /\ data_capacity(d) = n /\ Positions(d) = 0 .. n - 1 /\ n \in Nat /\ n >= 1
         /\ IsFiniteSet(d.bitmap) /\ d.bitmap \in SUBSET Nat
         /\ \A j \in 0 .. n - 1 : d.key_slots[j] \in Nat
<1>1. DOMAIN d.key_slots = 0 .. n - 1 /\ n \in Nat /\ n >= 1
  BY DEF Arrays
<1>2. IsFiniteSet(0 .. n - 1) /\ Cardinality(0 .. n - 1) = n
  BY <1>1, FS_Interval
<1>3. data_capacity(d) = n
  BY <1>1, <1>2 DEF data_capacity
<1>4. d.bitmap \in SUBSET (0 .. n - 1)
  BY DEF Arrays
<1>5. IsFiniteSet(d.bitmap)
  BY <1>2, <1>4, FS_Subset
<1>6. d.bitmap \in SUBSET Nat
  BY <1>4, <1>1
<1>7. \A j \in 0 .. n - 1 : d.key_slots[j] \in Nat
  BY KeysAssumption DEF Arrays
<1> QED BY <1>1, <1>3, <1>5, <1>6, <1>7 DEF Positions

(* The bounds the searches return are exact, wherever they start.          *)
LEMMA BoundsAre ==
  ASSUME NEW d, NEW n, Arrays(d, n), Gapped(d, n), NEW m \in 0 .. n - 1, NEW k \in Int
  PROVE  /\ upper_bound(d, m, k) \in 0 .. n
         /\ \A j \in 0 .. n - 1 : d.key_slots[j] <= k <=> j < upper_bound(d, m, k)
         /\ lower_bound(d, m, k) \in 0 .. n
         /\ \A j \in 0 .. n - 1 : d.key_slots[j] < k <=> j < lower_bound(d, m, k)
<1>1. /\ data_capacity(d) = n /\ Positions(d) = 0 .. n - 1 /\ n \in Nat /\ n >= 1
      /\ \A j \in 0 .. n - 1 : d.key_slots[j] \in Nat
  BY ArraysIs
<1>2. \A i, j \in 0 .. n - 1 : i <= j => d.key_slots[i] <= d.key_slots[j]
  BY DEF Gapped
<1>3. ASSUME NEW S, \A i, j \in 0 .. n - 1 : i <= j /\ j \in S => i \in S
      PROVE  ExponentialSearch(d, m, S) \in 0 .. n /\
             \A j \in 0 .. n - 1 : j \in S <=> j < ExponentialSearch(d, m, S)
  <2> DEFINE T == {j \in 0 .. n - 1 : j \notin S} \cup {n}
  <2>1. T \in SUBSET Nat /\ T # {}
    BY <1>1
  <2>2. Min(T) \in T /\ \A j \in T : Min(T) <= j
    <3> HIDE DEF T
    <3> QED BY <2>1, NatMinIs
  <2>3. PICK u : u = Min(T)
    OBVIOUS
  <2>4. u \in T /\ u \in 0 .. n /\ \A j \in T : u <= j
    BY <2>2, <2>3, <1>1
  <2>5. \A j \in 0 .. n - 1 : j \in S <=> j < u
    <3> TAKE j \in 0 .. n - 1
    <3>1. CASE j < u
      <4>1. j \notin T
        BY <2>4, <3>1, <1>1
      <4> QED BY <4>1, <3>1
    <3>2. CASE ~(j < u)
      <4>1. u \in 0 .. n - 1 /\ u <= j
        BY <2>4, <3>2, <1>1
      <4>2. u \notin S
        BY <2>4, <4>1, <1>1
      <4> QED BY <4>1, <4>2, <1>3, <3>2
    <3> QED BY <3>1, <3>2
  <2>6. ExponentialSearch(d, m, S) = u
    BY <1>1, <2>4, <2>5, ExponentialSearchIs
  <2> QED BY <2>4, <2>5, <2>6
<1>4. upper_bound(d, m, k) \in 0 .. n /\ \A j \in 0 .. n - 1 : d.key_slots[j] <= k <=> j < upper_bound(d, m, k)
  <2> DEFINE S == {j \in Positions(d) : d.key_slots[j] <= k}
  <2>1. \A i, j \in 0 .. n - 1 : i <= j /\ j \in S => i \in S
    <3> TAKE i, j \in 0 .. n - 1
    <3> HAVE i <= j /\ j \in S
    <3>1. d.key_slots[i] <= d.key_slots[j] /\ d.key_slots[j] <= k /\ i \in Positions(d)
      BY <1>1, <1>2
    <3>2. d.key_slots[i] <= k
      BY <3>1, <1>1
    <3> QED BY <3>1, <3>2
  <2>2. upper_bound(d, m, k) = ExponentialSearch(d, m, S)
    BY DEF upper_bound
  <2>3. \A j \in 0 .. n - 1 : j \in S <=> d.key_slots[j] <= k
    BY <1>1
  <2> HIDE DEF S
  <2> QED BY <2>1, <2>2, <2>3, <1>3
<1>5. lower_bound(d, m, k) \in 0 .. n /\ \A j \in 0 .. n - 1 : d.key_slots[j] < k <=> j < lower_bound(d, m, k)
  <2> DEFINE S == {j \in Positions(d) : d.key_slots[j] < k}
  <2>1. \A i, j \in 0 .. n - 1 : i <= j /\ j \in S => i \in S
    <3> TAKE i, j \in 0 .. n - 1
    <3> HAVE i <= j /\ j \in S
    <3>1. d.key_slots[i] <= d.key_slots[j] /\ d.key_slots[j] < k /\ i \in Positions(d)
      BY <1>1, <1>2
    <3>2. d.key_slots[i] < k
      BY <3>1, <1>1
    <3> QED BY <3>1, <3>2
  <2>2. lower_bound(d, m, k) = ExponentialSearch(d, m, S)
    BY DEF lower_bound
  <2>3. \A j \in 0 .. n - 1 : j \in S <=> d.key_slots[j] < k
    BY <1>1
  <2> HIDE DEF S
  <2> QED BY <2>1, <2>2, <2>3, <1>3
<1> QED BY <1>4, <1>5

(* The next filled position, or the end of the array.                      *)
LEMMA NextFilledIs ==
  ASSUME NEW d, NEW n, Arrays(d, n), NEW pos \in Int
  PROVE  /\ NextFilled(d, pos) \in d.bitmap \cup {n}
         /\ NextFilled(d, pos) >= pos \/ NextFilled(d, pos) = n
         /\ \A j \in d.bitmap : j >= pos => NextFilled(d, pos) <= j
<1>1. data_capacity(d) = n /\ n \in Nat /\ d.bitmap \in SUBSET Nat
  BY ArraysIs
<1> DEFINE S == {j \in d.bitmap : j >= pos} \cup {n}
<1>2. S \in SUBSET Nat /\ S # {}
  BY <1>1
<1>3. NextFilled(d, pos) = Min(S)
  BY <1>1 DEF NextFilled
<1>4. Min(S) \in S /\ \A y \in S : Min(S) <= y
  <2> HIDE DEF S
  <2> QED BY <1>2, NatMinIs
<1> QED BY <1>3, <1>4

(* What a slot says about the entries around it.                           *)
LEMMA SlotsAre ==
  ASSUME NEW d, NEW n, Arrays(d, n), Gapped(d, n), NEW i \in 0 .. n - 1
  PROVE  /\ i + 1 \in 0 .. n - 1 /\ d.key_slots[i] < d.key_slots[i + 1] => i \in d.bitmap
         /\ i = n - 1 /\ d.key_slots[i] # kEndSentinel => i \in d.bitmap
         /\ i \in d.bitmap => d.key_slots[i] \in Keys
         /\ i \in d.bitmap => d.key_slots[i] < kEndSentinel
         /\ d.key_slots[i] \in Nat
<1>1. n \in Nat /\ n >= 1 /\ \A j \in 0 .. n - 1 : d.key_slots[j] \in Nat
  BY ArraysIs
<1>2. i \notin d.bitmap => d.key_slots[i] = IF i = n - 1 THEN kEndSentinel ELSE d.key_slots[i + 1]
  BY DEF Gapped
<1>3. i \in d.bitmap => d.key_slots[i] \in Keys
  BY DEF Gapped
<1>4. i + 1 \in 0 .. n - 1 => i # n - 1
  BY <1>1
<1> QED BY <1>1, <1>2, <1>3, <1>4, KeysAssumption

-----------------------------------------------------------------------------
(* What the searches find in a leaf.                                       *)
LEMMA SearchesAre ==
  ASSUME NEW n, Arrays(node, n), Gapped(node, n)
  PROVE  SearchesExact
<1>1. /\ data_capacity(node) = n /\ Positions(node) = 0 .. n - 1 /\ n \in Nat /\ n >= 1
      /\ IsFiniteSet(node.bitmap) /\ node.bitmap \in SUBSET Nat
      /\ node.bitmap \in SUBSET (0 .. n - 1)
      /\ \A j \in 0 .. n - 1 : node.key_slots[j] \in Nat
  BY ArraysIs DEF Arrays
<1> DEFINE having(T) == {j \in node.bitmap : node.key_slots[j] \in T}
<1>2. \A k \in Keys : k \in Nat
  BY KeysAssumption
<1>3. SUFFICES ASSUME NEW m \in 0 .. n - 1, NEW k \in Keys
               PROVE  /\ find_key(node, m, k) = Max(having({k}) \cup {-1})
                      /\ find_lower(node, m, k) = Min(having({h \in Keys : h >= k}) \cup {n})
                      /\ find_upper(node, m, k) = Min(having({h \in Keys : h > k}) \cup {n})
  BY <1>1 DEF SearchesExact
<1>4. k \in Nat /\ k \in Int
  BY <1>2
<1>5. PICK u : u = upper_bound(node, m, k)
  OBVIOUS
<1>6. PICK l : l = lower_bound(node, m, k)
  OBVIOUS
<1>7. u \in 0 .. n /\ \A j \in 0 .. n - 1 : node.key_slots[j] <= k <=> j < u
  BY <1>4, <1>5, BoundsAre
<1>8. l \in 0 .. n /\ \A j \in 0 .. n - 1 : node.key_slots[j] < k <=> j < l
  BY <1>4, <1>6, BoundsAre
<1>9. \A j \in node.bitmap : node.key_slots[j] \in Keys /\ node.key_slots[j] \in Nat /\ j \in 0 .. n - 1
  BY <1>1 DEF Gapped
<1>10. find_key(node, m, k) = Max(having({k}) \cup {-1})
  <2>1. find_key(node, m, k) = IF u - 1 < 0 \/ node.key_slots[u - 1] # k THEN -1 ELSE u - 1
    BY <1>5 DEF find_key
  <2> DEFINE T == having({k}) \cup {-1}
  <2>2. T \in SUBSET Int
    BY <1>1
  <2>3. \A j \in T : j = -1 \/ (j \in 0 .. n - 1 /\ node.key_slots[j] = k)
    BY <1>1
  <2>4. CASE u - 1 < 0 \/ node.key_slots[u - 1] # k
    <3>1. \A j \in T : j = -1
      <4> SUFFICES ASSUME NEW j \in 0 .. n - 1, node.key_slots[j] = k PROVE FALSE
        BY <2>3
      <4>1. j < u
        BY <1>7, <1>4
      <4>2. u - 1 \in 0 .. n - 1 /\ j <= u - 1 /\ node.key_slots[u - 1] <= k
        BY <4>1, <1>7, <1>1
      <4>3. node.key_slots[j] <= node.key_slots[u - 1]
        BY <4>2 DEF Gapped
      <4>4. node.key_slots[u - 1] = k
        BY <4>2, <4>3, <1>1, <1>4
      <4> QED BY <4>2, <4>4, <2>4
    <3>2. -1 \in T /\ \A j \in T : j <= -1
      BY <3>1
    <3>3. Max(T) = -1
      <4> HIDE DEF T
      <4>1. PICK x : x = -1
        OBVIOUS
      <4>2. x \in T /\ \A j \in T : j <= x
        BY <4>1, <3>2
      <4> QED BY <4>1, <4>2, <2>2, MaxEq
    <3> QED BY <3>3, <2>1, <2>4
  <2>5. CASE ~(u - 1 < 0 \/ node.key_slots[u - 1] # k)
    <3>1. u - 1 \in 0 .. n - 1 /\ node.key_slots[u - 1] = k
      BY <2>5, <1>7, <1>1
    <3>2. u - 1 \in node.bitmap
      <4>1. CASE u = n
        <5>1. k # kEndSentinel /\ u - 1 = n - 1
          BY <4>1, KeysAssumption, <1>4
        <5> QED BY <3>1, <5>1, SlotsAre
      <4>2. CASE u # n
        <5>1. u \in 0 .. n - 1 /\ ~(node.key_slots[u] <= k)
          BY <4>2, <1>7, <1>1
        <5>2. node.key_slots[u - 1] < node.key_slots[u] /\ (u - 1) + 1 = u
          BY <5>1, <3>1, <1>1, <1>4
        <5>3. PICK i \in 0 .. n - 1 : i = u - 1
          BY <3>1
        <5>4. i + 1 \in 0 .. n - 1 /\ node.key_slots[i] < node.key_slots[i + 1]
          BY <5>3, <5>1, <5>2
        <5> QED BY <5>3, <5>4, SlotsAre
      <4> QED BY <4>1, <4>2
    <3>3. u - 1 \in T
      BY <3>1, <3>2
    <3>4. \A j \in T : j <= u - 1
      <4> TAKE j \in T
      <4>1. CASE j = -1
        BY <4>1, <3>1
      <4>2. CASE j \in 0 .. n - 1 /\ node.key_slots[j] = k
        <5>1. j < u
          BY <4>2, <1>7, <1>4
        <5> QED BY <5>1, <4>2, <1>7, <1>1
      <4> QED BY <2>3, <4>1, <4>2
    <3>5. Max(T) = u - 1
      <4> HIDE DEF T
      <4> QED BY <3>3, <3>4, <2>2, MaxEq
    <3> QED BY <3>5, <2>1, <2>5
  <2> QED BY <2>4, <2>5
<1>11. ASSUME NEW pos \in 0 .. n, NEW T, \A j \in node.bitmap : node.key_slots[j] \in T <=> j >= pos
       PROVE  NextFilled(node, pos) = Min(having(T) \cup {n})
  <2>1. having(T) = {j \in node.bitmap : j >= pos}
    BY <1>11
  <2> QED BY <2>1, <1>1 DEF NextFilled
<1>12. find_lower(node, m, k) = Min(having({h \in Keys : h >= k}) \cup {n})
  <2> DEFINE T == {h \in Keys : h >= k}
  <2>1. \A j \in node.bitmap : node.key_slots[j] \in T <=> j >= l
    <3> TAKE j \in node.bitmap
    <3>1. j \in 0 .. n - 1 /\ node.key_slots[j] \in Nat /\ node.key_slots[j] \in Keys
      BY <1>9
    <3>2. node.key_slots[j] < k <=> j < l
      BY <3>1, <1>8
    <3> QED BY <3>1, <3>2, <1>4, <1>8, <1>1
  <2>2. find_lower(node, m, k) = NextFilled(node, l)
    BY <1>6 DEF find_lower
  <2> HIDE DEF T
  <2>3. NextFilled(node, l) = Min(having(T) \cup {n})
    BY <2>1, <1>8, <1>11
  <2> QED BY <2>2, <2>3 DEF T
<1>13. find_upper(node, m, k) = Min(having({h \in Keys : h > k}) \cup {n})
  <2> DEFINE T == {h \in Keys : h > k}
  <2>1. \A j \in node.bitmap : node.key_slots[j] \in T <=> j >= u
    <3> TAKE j \in node.bitmap
    <3>1. j \in 0 .. n - 1 /\ node.key_slots[j] \in Nat /\ node.key_slots[j] \in Keys
      BY <1>9
    <3>2. node.key_slots[j] <= k <=> j < u
      BY <3>1, <1>7
    <3> QED BY <3>1, <3>2, <1>4, <1>7, <1>1
  <2>2. find_upper(node, m, k) = NextFilled(node, u)
    BY <1>5 DEF find_upper
  <2> HIDE DEF T
  <2>3. NextFilled(node, u) = Min(having(T) \cup {n})
    BY <2>1, <1>7, <1>11
  <2> QED BY <2>2, <2>3 DEF T
<1> QED BY <1>10, <1>12, <1>13

-----------------------------------------------------------------------------
(* The closest gap.  First the bitmap words: Start(v) is where word v      *)
(* starts.                                                                 *)
Start(v) == v * Word

(* A word has an even number of positions.                                 *)
LEMMA WordIs == Word \in Nat /\ Word >= 1 /\ Word \div 2 \in Nat /\ 2 * (Word \div 2) = Word
BY WordAssumption

(* The words follow each other.                                            *)
LEMMA StartIs ==
  ASSUME NEW v \in Int
  PROVE  Start(v) \in Int /\ Start(v + 1) = Start(v) + Word
BY WordAssumption DEF Start

(* Where a word some words away starts, and that a word ends before every  *)
(* later one.                                                              *)
LEMMA StartSum ==
  ASSUME NEW v \in Int, NEW t \in Int
  PROVE  /\ Start(v + t) = Start(v) + Start(t) /\ Start(v - t) = Start(v) - Start(t)
         /\ v < t => Start(v) + Word <= Start(t)
         /\ Start(v) \in Int /\ Start(t) \in Int
<1>1. Word \in Nat
  BY WordAssumption
<1>2. Start(v + t) = Start(v) + Start(t) /\ Start(v - t) = Start(v) - Start(t)
  BY <1>1 DEF Start
<1>3. v < t => Start(v) + Word <= Start(t)
  BY <1>1 DEF Start
<1> QED BY <1>1, <1>2, <1>3 DEF Start

(* No word starts before the first position.                               *)
LEMMA StartNat ==
  ASSUME NEW v \in Nat
  PROVE  Start(v) \in Nat
BY WordAssumption DEF Start

(* Every position is in one word.                                          *)
LEMMA WordOf ==
  ASSUME NEW j \in Nat
  PROVE  j \div Word \in Nat /\ Start(j \div Word) <= j /\ j < Start(j \div Word) + Word
BY WordAssumption DEF Start

(* A word tells its lowest and its highest gap.                            *)
LEMMA WordGaps ==
  ASSUME NEW d, NEW v \in Nat
  PROVE  /\ \A j \in Int : j \in GapsOf(d, v) <=> Start(v) <= j /\ j < Start(v) + Word /\ j \notin d.bitmap
         /\ GapsOf(d, v) \in SUBSET Nat
         /\ GapsOf(d, v) # {} =>
              /\ LowGap(d, v) \in GapsOf(d, v) /\ \A j \in GapsOf(d, v) : LowGap(d, v) <= j
              /\ HighGap(d, v) \in GapsOf(d, v) /\ \A j \in GapsOf(d, v) : j <= HighGap(d, v)
<1>0. Start(v) \in Nat /\ Word \in Nat
  BY StartNat, WordIs
<1>1. Bits(v) = Start(v) .. Start(v) + Word - 1
  BY DEF Bits, Start
<1>2. \A j \in Int : j \in GapsOf(d, v) <=> Start(v) <= j /\ j < Start(v) + Word /\ j \notin d.bitmap
  <2> TAKE j \in Int
  <2>1. j \in Start(v) .. Start(v) + Word - 1 <=> Start(v) <= j /\ j < Start(v) + Word
    BY <1>0
  <2> QED BY <2>1, <1>1 DEF GapsOf
<1>3. GapsOf(d, v) \in SUBSET Bits(v)
  BY DEF GapsOf
<1>4. IsFiniteSet(Bits(v)) /\ Bits(v) \in SUBSET Nat
  <2>1. IsFiniteSet(Bits(v))
    BY <1>0, <1>1, FS_Interval
  <2>2. \A j \in Start(v) .. Start(v) + Word - 1 : j \in Nat
    BY <1>0
  <2> QED BY <2>1, <2>2, <1>1
<1>5. IsFiniteSet(GapsOf(d, v)) /\ GapsOf(d, v) \in SUBSET Nat
  BY <1>3, <1>4, FS_Subset
<1>6. ASSUME GapsOf(d, v) # {}
      PROVE  /\ LowGap(d, v) \in GapsOf(d, v) /\ \A j \in GapsOf(d, v) : LowGap(d, v) <= j
             /\ HighGap(d, v) \in GapsOf(d, v) /\ \A j \in GapsOf(d, v) : j <= HighGap(d, v)
  <2>1. GapsOf(d, v) \in SUBSET Int /\ \A j \in GapsOf(d, v) : j \in Int
    BY <1>5
  <2>2. LowGap(d, v) \in GapsOf(d, v) /\ \A j \in GapsOf(d, v) : LowGap(d, v) <= j
    BY <1>6, <2>1, <1>5, MinIs DEF LowGap
  <2>3. HighGap(d, v) \in GapsOf(d, v) /\ \A j \in GapsOf(d, v) : HighGap(d, v) >= j
    BY <1>6, <2>1, <1>5, MaxIs DEF HighGap
  <2>4. \A j \in GapsOf(d, v) : j <= HighGap(d, v)
    BY <2>3, <2>1
  <2> QED BY <2>2, <2>3, <2>4
<1> QED BY <1>2, <1>5, <1>6

(* How far off a position is, and what it means to be the closest gap.     *)
Far(pos, j) == IF j >= pos THEN j - pos ELSE pos - j
Gaps(d, n) == (0 .. n - 1) \ d.bitmap
Closest(d, n, pos, g) == g \in Gaps(d, n) /\ \A j \in Gaps(d, n) : Far(pos, g) <= Far(pos, j)

(* Between the closest gap on the left and the first candidate on the      *)
(* right, the nearer one is the closest.                                   *)
LEMMA NearerIs ==
  ASSUME NEW d, NEW n \in Nat, data_capacity(d) = n, NEW pos \in 0 .. n - 1,
         NEW l \in Gaps(d, n), l < pos, NEW r \in Int, r > pos, r < n => r \in Gaps(d, n),
         \A j \in Gaps(d, n) : j <= l \/ j >= r
  PROVE  Closest(d, n, pos, NearerOf(d, pos, l, r))
<1>1. \A j \in Gaps(d, n) : j \in Int /\ 0 <= j /\ j < n
  BY DEF Gaps
<1>2. NearerOf(d, pos, l, r) = IF pos - l <= r - pos \/ r >= n THEN l ELSE r
  BY DEF NearerOf
<1>3. CASE pos - l <= r - pos \/ r >= n
  <2>1. \A j \in Gaps(d, n) : Far(pos, l) <= Far(pos, j)
    <3> TAKE j \in Gaps(d, n)
    <3>1. j \in Int /\ j < n /\ l \in Int /\ (j <= l \/ j >= r)
      BY <1>1
    <3> QED BY <3>1, <1>3 DEF Far
  <2> QED BY <2>1, <1>2, <1>3 DEF Closest
<1>4. CASE ~(pos - l <= r - pos \/ r >= n)
  <2>0. l \in Int /\ r < n
    BY <1>1, <1>4
  <2>1. \A j \in Gaps(d, n) : Far(pos, r) <= Far(pos, j)
    <3> TAKE j \in Gaps(d, n)
    <3>1. j \in Int /\ j < n /\ (j <= l \/ j >= r)
      BY <1>1
    <3> QED BY <3>1, <1>4, <2>0 DEF Far
  <2> QED BY <2>0, <2>1, <1>2, <1>4 DEF Closest
<1> QED BY <1>3, <1>4

(* One that no gap is nearer than, on either side.                         *)
LEMMA ClosestIs ==
  ASSUME NEW d, NEW n \in Nat, NEW pos \in 0 .. n - 1, NEW g \in Gaps(d, n),
         \A j \in Gaps(d, n) : \/ j <= g /\ g <= pos
                               \/ j >= g /\ g >= pos
                               \/ j > pos /\ j - pos >= g - pos /\ j - pos >= pos - g
                               \/ j < pos /\ pos - j >= g - pos /\ pos - j >= pos - g
  PROVE  Closest(d, n, pos, g)
<1>1. \A j \in Gaps(d, n) : j \in Int
  BY DEF Gaps
<1>2. \A j \in Gaps(d, n) : Far(pos, g) <= Far(pos, j)
  <2> TAKE j \in Gaps(d, n)
  <2>1. j \in Int /\ g \in Int
    BY <1>1
  <2> QED BY <2>1 DEF Far
<1> QED BY <1>2 DEF Closest

(* No gap in the word of pos: the search of the other words.               *)
LEMMA GapInOtherWordIs ==
  ASSUME NEW d, NEW n \in Nat, n >= 1, data_capacity(d) = n, d.bitmap \in SUBSET (0 .. n - 1),
         Gaps(d, n) # {}, NEW pos \in 0 .. n - 1, NEW w, w = pos \div Word,
         GapsOf(d, w) \cap (0 .. n - 1) = {}
  PROVE  Closest(d, n, pos, GapInOtherWord(d, pos, w))
<1> DEFINE bit == pos - w * Word
           last == (n - 1) \div Word
           both == Smaller(w, last - w)
           L(t) == GapsOf(d, w - t) # {}
           R(t) == GapsOf(d, w + t) # {}
           near == {t \in 1 .. both : L(t) \/ (R(t) /\ LowGap(d, w + t) < n)}
           q == Min(near)
           V == {v \in 0 .. w - both - 1 : GapsOf(d, v) # {}}
           U == {v \in w + both + 1 .. last : GapsOf(d, v) # {}}
<1>1. GapInOtherWord(d, pos, w) =
        IF near = {}
        THEN IF w > last - w THEN HighGap(d, Max(V)) ELSE LowGap(d, Min(U))
        ELSE IF L(q) /\ R(q) THEN NearerOf(d, pos, HighGap(d, w - q), LowGap(d, w + q))
        ELSE IF L(q)
        THEN IF bit > Word \div 2 /\ w + q + 1 <= last /\ R(q + 1)
             THEN NearerOf(d, pos, HighGap(d, w - q), LowGap(d, w + q + 1))
             ELSE HighGap(d, w - q)
        ELSE IF bit < Word \div 2 /\ w - q > 0 /\ L(q + 1)
             THEN NearerOf(d, pos, HighGap(d, w - q - 1), LowGap(d, w + q))
             ELSE LowGap(d, w + q)
  BY ZenonT(40) DEF GapInOtherWord
<1>2. /\ w \in Nat /\ Start(w) <= pos /\ pos < Start(w) + Word /\ pos \in Nat
      /\ bit = pos - Start(w) /\ bit \in Nat /\ bit < Word
  <2>1. pos \in Nat
    OBVIOUS
  <2>2. w \in Nat /\ Start(w) <= pos /\ pos < Start(w) + Word
    BY <2>1, WordOf
  <2>3. bit = pos - Start(w)
    BY DEF Start
  <2> HIDE DEF bit
  <2>4. Start(w) \in Int
    BY <2>2, StartIs
  <2> QED BY <2>1, <2>2, <2>3, <2>4, WordIs
(* Comparing positions of different words.                                 *)
<1>9. \A a, b \in Int : a < b => Start(a) + Word <= Start(b) /\ Start(a) \in Int /\ Start(b) \in Int
  BY StartSum
<1>3. last \in Nat /\ Start(last) <= n - 1 /\ n - 1 < Start(last) + Word
  <2>1. n - 1 \in Nat
    OBVIOUS
  <2> QED BY <2>1, WordOf
<1>4. w <= last
  <2> SUFFICES ASSUME last < w PROVE FALSE
    BY <1>2, <1>3
  <2> HIDE DEF last
  <2>1. last \in Int /\ w \in Int
    BY <1>2, <1>3
  <2>2. Start(last) + Word <= Start(w) /\ Start(last) \in Int /\ Start(w) \in Int
    BY <1>9, <2>1
  <2> QED BY <2>2, <1>2, <1>3, WordIs
<1>5. both \in Nat /\ both <= w /\ both <= last - w /\ (both = w \/ both = last - w)
      /\ (w > last - w => both = last - w) /\ (~(w > last - w) => both = w)
  <2> HIDE DEF last
  <2> QED BY <1>2, <1>3, <1>4 DEF Smaller
<1> HIDE DEF bit, last, both
(* Each gap is in a word, which is not w.                                  *)
<1>6. \A j \in Gaps(d, n) : \E v \in 0 .. last :
        /\ v # w /\ Start(v) <= j /\ j < Start(v) + Word /\ j \in Int /\ j < n /\ j >= 0
        /\ j \in GapsOf(d, v)
  <2> TAKE j \in Gaps(d, n)
  <2>1. j \in Nat /\ j < n /\ j \notin d.bitmap /\ j \in 0 .. n - 1
    BY DEF Gaps
  <2>2. PICK v : v = j \div Word
    OBVIOUS
  <2>3. v \in Nat /\ Start(v) <= j /\ j < Start(v) + Word
    BY <2>1, <2>2, WordOf
  <2>4. v <= last
    <3> SUFFICES ASSUME last < v PROVE FALSE
      BY <2>3, <1>3
    <3>1. last \in Int /\ v \in Int
      BY <2>3, <1>3
    <3>2. Start(last) + Word <= Start(v) /\ Start(last) \in Int /\ Start(v) \in Int
      BY <3>1, <1>9
    <3> QED BY <3>2, <2>1, <2>3, <1>3, WordIs
  <2>5. j \in GapsOf(d, v)
    BY <2>1, <2>3, WordGaps
  <2>6. v # w
    BY <2>5, <2>1
  <2> QED BY <2>1, <2>3, <2>4, <2>5, <2>6, <1>3
(* What a gap in a word on the left or right is.                           *)
<1>7. ASSUME NEW v \in Nat, v < w, GapsOf(d, v) # {}
      PROVE  /\ HighGap(d, v) \in Gaps(d, n) /\ HighGap(d, v) < pos /\ HighGap(d, v) >= Start(v)
             /\ HighGap(d, v) \in Int
             /\ \A j \in GapsOf(d, v) : j <= HighGap(d, v)
  <2>1. PICK h : h = HighGap(d, v)
    OBVIOUS
  <2>2. h \in GapsOf(d, v) /\ h \in Nat /\ \A j \in GapsOf(d, v) : j <= h
    BY <2>1, <1>7, WordGaps
  <2>3. Start(v) <= h /\ h < Start(v) + Word /\ h \notin d.bitmap
    BY <2>2, WordGaps
  <2>4. Start(v) + Word <= Start(w) /\ Start(v) \in Int /\ Start(w) \in Int /\ Word \in Nat
    <3>1. v \in Int /\ w \in Int
      BY <1>2
    <3> QED BY <3>1, <1>7, <1>9, WordIs
  <2>5. h < pos
    BY <2>2, <2>3, <2>4, <1>2
  <2>6. h \in Gaps(d, n)
    BY <2>2, <2>3, <2>5 DEF Gaps
  <2>7. h \in Gaps(d, n) /\ h < pos /\ h >= Start(v) /\ h \in Int /\ \A j \in GapsOf(d, v) : j <= h
    BY <2>2, <2>3, <2>4, <2>5, <2>6
  <2> QED BY <2>1, <2>7
<1>8. ASSUME NEW v \in Nat, v > w, GapsOf(d, v) # {}
      PROVE  /\ LowGap(d, v) \in Int /\ LowGap(d, v) > pos /\ LowGap(d, v) < Start(v) + Word
             /\ LowGap(d, v) < n => LowGap(d, v) \in Gaps(d, n)
             /\ \A j \in GapsOf(d, v) : LowGap(d, v) <= j
  <2>1. PICK h : h = LowGap(d, v)
    OBVIOUS
  <2>2. h \in GapsOf(d, v) /\ h \in Nat /\ \A j \in GapsOf(d, v) : h <= j
    BY <2>1, <1>8, WordGaps
  <2>3. Start(v) <= h /\ h < Start(v) + Word /\ h \notin d.bitmap
    BY <2>2, WordGaps
  <2>4. Start(w) + Word <= Start(v) /\ Start(v) \in Int /\ Start(w) \in Int /\ Word \in Nat
    <3>1. v \in Int /\ w \in Int
      BY <1>2
    <3> QED BY <3>1, <1>8, <1>9, WordIs
  <2>5. h > pos
    BY <2>2, <2>3, <2>4, <1>2
  <2>6. h < n => h \in Gaps(d, n)
    BY <2>2, <2>3 DEF Gaps
  <2> QED BY <2>1, <2>2, <2>3, <2>5, <2>6
<1>10. CASE near = {}
  <2>1. ASSUME NEW v \in 0 .. last, NEW j \in Gaps(d, n), v # w, j \in GapsOf(d, v)
        PROVE  v < w - both \/ v > w + both
    <3> SUFFICES ASSUME w - both <= v, v <= w + both PROVE FALSE
      BY <1>2, <1>3, <1>5
    <3>0. j \in Int /\ j < n
      BY DEF Gaps
    <3>1. CASE v < w
      <4>1. PICK t : t = w - v
        OBVIOUS
      <4>2. t \in 1 .. both /\ v = w - t
        BY <4>1, <3>1, <1>2, <1>3, <1>5
      <4>3. L(t)
        BY <4>2, <2>1
      <4> QED BY <4>2, <4>3, <1>10
    <3>2. CASE v > w
      <4>1. PICK t : t = v - w
        OBVIOUS
      <4>2. t \in 1 .. both /\ v = w + t
        BY <4>1, <3>2, <1>2, <1>3, <1>5
      <4>3. R(t)
        BY <4>2, <2>1
      <4>4. LowGap(d, v) <= j /\ LowGap(d, v) \in Int
        BY <3>2, <2>1, <1>8, <1>3
      <4>5. LowGap(d, w + t) < n
        BY <4>2, <4>4, <3>0
      <4> QED BY <4>2, <4>3, <4>5, <1>10
    <3> QED BY <3>1, <3>2, <2>1, <1>2, <1>3
  <2>2. PICK j0 \in Gaps(d, n) : TRUE
    OBVIOUS
  <2>3. PICK v0 \in 0 .. last : v0 # w /\ j0 \in GapsOf(d, v0)
    BY <1>6
  <2>4. CASE w > last - w
    <3>1. \A v \in 0 .. last, j \in Gaps(d, n) : v # w /\ j \in GapsOf(d, v) => v \in V
      <4> TAKE v \in 0 .. last, j \in Gaps(d, n)
      <4> HAVE v # w /\ j \in GapsOf(d, v)
      <4>1. v < w - both
        BY <2>1, <2>4, <1>5, <1>2, <1>3
      <4> QED BY <4>1, <1>2, <1>3, <1>5
    <3>2. V \in SUBSET (0 .. w - both - 1) /\ V # {}
      BY <3>1, <2>3
    <3>3. V \in SUBSET Int /\ IsFiniteSet(V)
      <4> HIDE DEF V
      <4>1. 0 \in Int /\ w - both - 1 \in Int
        BY <1>2, <1>5
      <4>2. IsFiniteSet(0 .. w - both - 1) /\ 0 .. w - both - 1 \in SUBSET Int
        BY <4>1, FS_Interval
      <4> QED BY <3>2, <4>2, FS_Subset
    <3>4. PICK v : v = Max(V)
      OBVIOUS
    <3>5. v \in V /\ \A x \in V : v >= x
      <4> HIDE DEF V
      <4> QED BY <3>2, <3>3, <3>4, MaxIs
    <3>6. v \in Nat /\ v < w /\ GapsOf(d, v) # {}
      BY <3>5, <1>2, <1>5
    <3>7. PICK h : h = HighGap(d, v)
      OBVIOUS
    <3>8. h \in Gaps(d, n) /\ h < pos /\ h >= Start(v) /\ h \in Int /\ \A j \in GapsOf(d, v) : j <= h
      BY <3>6, <3>7, <1>7
    <3>9. \A j \in Gaps(d, n) : j <= h
      <4> TAKE j \in Gaps(d, n)
      <4>1. PICK x \in 0 .. last : /\ x # w /\ Start(x) <= j /\ j < Start(x) + Word /\ j \in Int
                                   /\ j \in GapsOf(d, x)
        BY <1>6
      <4>2. x \in V
        BY <3>1, <4>1
      <4>3. v >= x /\ x \in Int /\ v \in Int
        BY <4>2, <3>5, <3>6
      <4>4. CASE x = v
        BY <4>4, <4>1, <3>8
      <4>5. CASE x < v
        <5>1. IF x < v THEN Start(x) + Word <= Start(v) /\ Start(x) \in Int /\ Start(v) \in Int
              ELSE Start(v) + Word <= Start(x) /\ Start(x) \in Int /\ Start(v) \in Int
          BY <4>3, <4>5, <1>9
        <5> QED BY <5>1, <4>3, <4>5, <4>1, <3>8, WordIs
      <4> QED BY <4>3, <4>4, <4>5
    <3>10. Closest(d, n, pos, h)
      <4>1. h <= pos
        BY <3>8
      <4> QED BY <3>8, <3>9, <4>1, ClosestIs
    <3> QED BY <3>10, <3>4, <3>7, <2>4, <1>10, <1>1
  <2>5. CASE ~(w > last - w)
    <3>1. \A v \in 0 .. last, j \in Gaps(d, n) : v # w /\ j \in GapsOf(d, v) => v \in U
      <4> TAKE v \in 0 .. last, j \in Gaps(d, n)
      <4> HAVE v # w /\ j \in GapsOf(d, v)
      <4>1. v > w + both
        BY <2>1, <2>5, <1>5, <1>2, <1>3
      <4> QED BY <4>1, <1>2, <1>3, <1>5
    <3>2. U \in SUBSET Nat /\ U # {}
      <4>1. \A v \in U : v \in Nat
        BY <1>2, <1>3, <1>5
      <4> QED BY <4>1, <3>1, <2>3
    <3>4. PICK v : v = Min(U)
      OBVIOUS
    <3>5. v \in U /\ \A x \in U : v <= x
      <4> HIDE DEF U
      <4> QED BY <3>2, <3>4, NatMinIs
    <3>6. v \in Nat /\ v > w /\ GapsOf(d, v) # {}
      BY <3>5, <1>2, <1>5
    <3>7. PICK h : h = LowGap(d, v)
      OBVIOUS
    <3>8. /\ h \in Int /\ h > pos /\ h < Start(v) + Word /\ (h < n => h \in Gaps(d, n))
          /\ \A j \in GapsOf(d, v) : h <= j
      BY <3>6, <3>7, <1>8
    <3>9. \A j \in Gaps(d, n) : h <= j /\ j < n /\ j \in Int
      <4> TAKE j \in Gaps(d, n)
      <4>1. PICK x \in 0 .. last : /\ x # w /\ Start(x) <= j /\ j < Start(x) + Word /\ j \in Int
                                   /\ j \in GapsOf(d, x) /\ j < n
        BY <1>6
      <4>2. x \in U
        BY <3>1, <4>1
      <4>3. v <= x /\ x \in Int /\ v \in Int
        BY <4>2, <3>5, <3>6
      <4>4. CASE x = v
        BY <4>4, <4>1, <3>8
      <4>5. CASE v < x
        <5>1. IF x < v THEN Start(x) + Word <= Start(v) /\ Start(x) \in Int /\ Start(v) \in Int
              ELSE Start(v) + Word <= Start(x) /\ Start(x) \in Int /\ Start(v) \in Int
          BY <4>3, <4>5, <1>9
        <5> QED BY <5>1, <4>3, <4>5, <4>1, <3>8, WordIs
      <4> QED BY <4>1, <4>3, <4>4, <4>5
    <3>10. h \in Gaps(d, n)
      BY <3>8, <3>9, <2>2
    <3>11. Closest(d, n, pos, h)
      <4>1. h >= pos /\ \A j \in Gaps(d, n) : j >= h
        BY <3>8, <3>9
      <4> QED BY <4>1, <3>10, ClosestIs
    <3> QED BY <3>11, <3>4, <3>7, <2>5, <1>10, <1>1
  <2> QED BY <2>4, <2>5
<1>11. CASE near # {}
  <2>1. near \in SUBSET Nat
    OBVIOUS
  <2>2. q \in near /\ \A t \in near : q <= t
    <3> HIDE DEF near
    <3> QED BY <2>1, <1>11, NatMinIs
  <2>3. q \in 1 .. both /\ (L(q) \/ (R(q) /\ LowGap(d, w + q) < n))
    BY <2>2
  <2>a. \A t \in 1 .. both : t < q => ~L(t) /\ (R(t) => ~(LowGap(d, w + t) < n))
    <3> TAKE t \in 1 .. both
    <3> HAVE t < q
    <3>1. t \notin near
      <4> HIDE DEF near, q
      <4>1. t \in Int /\ q \in Int
        BY <2>3, <1>5
      <4> QED BY <4>1, <2>2
    <3> QED BY <3>1
  <2> HIDE DEF q, near
  <2>4. /\ q \in Nat /\ q >= 1 /\ w - q \in Nat /\ w + q \in Nat /\ w + q <= last
        /\ w - q < w /\ w + q > w /\ w + q + 1 \in Nat /\ w - q - 1 \in Int
    BY <2>3, <1>2, <1>3, <1>5
  (* No gap in a word closer than q.                                       *)
  <2>5. ASSUME NEW v \in 0 .. last, NEW j \in Gaps(d, n), v # w, j \in GapsOf(d, v)
        PROVE  v <= w - q \/ v >= w + q
    <3> SUFFICES ASSUME w - q < v, v < w + q PROVE FALSE
      BY <1>2, <1>3, <2>4
    <3>0. j \in Int /\ j < n
      BY DEF Gaps
    <3>1. CASE v < w
      <4>1. PICK t : t = w - v
        OBVIOUS
      <4>2. t \in 1 .. both /\ v = w - t /\ t < q
        BY <4>1, <3>1, <1>2, <1>3, <1>5, <2>3
      <4>3. L(t)
        BY <4>2, <2>5
      <4> QED BY <4>2, <4>3, <2>a
    <3>2. CASE v > w
      <4>1. PICK t : t = v - w
        OBVIOUS
      <4>2. t \in 1 .. both /\ v = w + t /\ t < q
        BY <4>1, <3>2, <1>2, <1>3, <1>5, <2>3
      <4>3. R(t)
        BY <4>2, <2>5
      <4>4. LowGap(d, v) <= j /\ LowGap(d, v) \in Int
        BY <3>2, <2>5, <1>8, <1>3
      <4>5. LowGap(d, w + t) < n
        BY <4>2, <4>4, <3>0
      <4> QED BY <4>2, <4>3, <4>5, <2>a
    <3> QED BY <3>1, <3>2, <2>5, <1>2, <1>3
  <2>6. ASSUME L(q), NEW h, h = HighGap(d, w - q), NEW j \in Gaps(d, n), NEW v \in 0 .. last,
               v <= w - q, j \in GapsOf(d, v), Start(v) <= j, j < Start(v) + Word
        PROVE  j <= h
    <3>1. h \in Int /\ h >= Start(w - q) /\ \A i \in GapsOf(d, w - q) : i <= h
      BY <2>6, <2>4, <1>7
    <3>2. j \in Int
      BY DEF Gaps
    <3>3. CASE v = w - q
      BY <3>3, <3>1, <2>6
    <3>4. CASE v < w - q
      <4>1. Start(v) + Word <= Start(w - q) /\ Start(v) \in Int /\ Start(w - q) \in Int
        BY <3>4, <2>4, <1>9
      <4> QED BY <4>1, <3>1, <3>2, <2>6, WordIs
    <3> QED BY <3>3, <3>4, <2>6, <2>4
  <2>7. ASSUME R(q), NEW h, h = LowGap(d, w + q), NEW j \in Gaps(d, n), NEW v \in 0 .. last,
               v >= w + q, j \in GapsOf(d, v), Start(v) <= j, j < Start(v) + Word
        PROVE  j >= h
    <3>1. h \in Int /\ h < Start(w + q) + Word /\ \A i \in GapsOf(d, w + q) : h <= i
      BY <2>7, <2>4, <1>8
    <3>2. j \in Int
      BY DEF Gaps
    <3>3. CASE v = w + q
      BY <3>3, <3>1, <3>2, <2>7
    <3>4. CASE v > w + q
      <4>1. Start(w + q) + Word <= Start(v) /\ Start(v) \in Int /\ Start(w + q) \in Int
        BY <3>4, <2>4, <1>9
      <4> QED BY <4>1, <3>1, <3>2, <2>7, WordIs
    <3> QED BY <3>3, <3>4, <2>7, <2>4
  <2>8. CASE L(q) /\ R(q)
    <3>1. PICK h : h = HighGap(d, w - q)
      OBVIOUS
    <3>2. PICK r : r = LowGap(d, w + q)
      OBVIOUS
    <3>3. h \in Gaps(d, n) /\ h < pos
      BY <3>1, <2>8, <2>4, <1>7
    <3>4. r \in Int /\ r > pos /\ (r < n => r \in Gaps(d, n))
      BY <3>2, <2>8, <2>4, <1>8
    <3>5. \A j \in Gaps(d, n) : j <= h \/ j >= r
      <4> TAKE j \in Gaps(d, n)
      <4>1. PICK v \in 0 .. last : v # w /\ Start(v) <= j /\ j < Start(v) + Word /\ j \in GapsOf(d, v)
        BY <1>6
      <4>2. v <= w - q \/ v >= w + q
        BY <4>1, <2>5
      <4>3. CASE v <= w - q
        BY <4>3, <4>1, <3>1, <2>8, <2>6
      <4>4. CASE v >= w + q
        BY <4>4, <4>1, <3>2, <2>8, <2>7
      <4> QED BY <4>2, <4>3, <4>4
    <3>6. Closest(d, n, pos, NearerOf(d, pos, h, r))
      BY <3>3, <3>4, <3>5, NearerIs
    <3> QED BY <3>6, <3>1, <3>2, <2>8, <1>11, <1>1
  <2>9. CASE L(q) /\ ~R(q)
    <3>1. PICK h : h = HighGap(d, w - q)
      OBVIOUS
    <3>2. h \in Gaps(d, n) /\ h < pos /\ h \in Int /\ h >= Start(w - q)
      BY <3>1, <2>9, <2>4, <1>7
    <3>3. \A j \in Gaps(d, n) : j <= h \/ \E v \in 0 .. last : v >= w + q + 1 /\ Start(v) <= j /\ j \in GapsOf(d, v)
      <4> TAKE j \in Gaps(d, n)
      <4>1. PICK v \in 0 .. last : v # w /\ Start(v) <= j /\ j < Start(v) + Word /\ j \in GapsOf(d, v)
        BY <1>6
      <4>2. v <= w - q \/ v >= w + q
        BY <4>1, <2>5
      <4>3. CASE v <= w - q
        BY <4>3, <4>1, <3>1, <2>9, <2>6
      <4>4. CASE v >= w + q
        <5>1. v # w + q
          BY <4>1, <2>9
        <5>2. v >= w + q + 1
          BY <5>1, <4>4, <2>4, <1>3
        <5> QED BY <5>2, <4>1
      <4> QED BY <4>2, <4>3, <4>4
    <3>4. CASE bit > Word \div 2 /\ w + q + 1 <= last /\ R(q + 1)
      <4>1. PICK x : x = w + q + 1
        OBVIOUS
      <4>2. x \in Nat /\ x > w /\ GapsOf(d, x) # {} /\ w + (q + 1) = x
        BY <4>1, <3>4, <2>4, <1>2
      <4>3. PICK r : r = LowGap(d, x)
        OBVIOUS
      <4>4. /\ r \in Int /\ r > pos /\ (r < n => r \in Gaps(d, n)) /\ r < Start(x) + Word
            /\ \A j \in GapsOf(d, x) : r <= j
        BY <4>2, <4>3, <1>8
      <4>5. \A j \in Gaps(d, n) : j <= h \/ j >= r
        <5> TAKE j \in Gaps(d, n)
        <5>1. CASE \E v \in 0 .. last : v >= w + q + 1 /\ Start(v) <= j /\ j \in GapsOf(d, v)
          <6>1. PICK v \in 0 .. last : v >= x /\ Start(v) <= j /\ j \in GapsOf(d, v)
            BY <5>1, <4>1
          <6>2. j \in Int
            BY DEF Gaps
          <6>3. CASE v = x
            BY <6>3, <6>1, <6>2, <4>4
          <6>4. CASE v > x
            <7>1. Start(x) + Word <= Start(v) /\ Start(v) \in Int /\ Start(x) \in Int
              BY <6>4, <4>2, <1>9, <1>3
            <7> QED BY <7>1, <6>1, <6>2, <4>4, WordIs
          <6> QED BY <6>1, <6>3, <6>4, <4>2, <1>3
        <5> QED BY <5>1, <3>3
      <4>6. Closest(d, n, pos, NearerOf(d, pos, h, r))
        BY <3>2, <4>4, <4>5, NearerIs
      <4> QED BY <4>6, <4>1, <4>3, <3>1, <3>4, <2>9, <1>11, <1>1
    <3>5. CASE ~(bit > Word \div 2 /\ w + q + 1 <= last /\ R(q + 1))
      <4>1. \A j \in Gaps(d, n) : j <= h \/ (j > pos /\ j - pos >= pos - h /\ j - pos >= h - pos)
        <5> TAKE j \in Gaps(d, n)
        <5>1. CASE \E v \in 0 .. last : v >= w + q + 1 /\ Start(v) <= j /\ j \in GapsOf(d, v)
          <6>1. PICK v \in 0 .. last : v >= w + q + 1 /\ Start(v) <= j /\ j \in GapsOf(d, v)
            BY <5>1
          <6>2. j \in Int /\ v \in Int
            BY DEF Gaps
          <6>3. /\ Start(w - q) = Start(w) - Start(q) /\ Start(w + q) = Start(w) + Start(q)
                /\ Start(w + q + 1) = Start(w + q) + Word /\ Start(w + q + 1 + 1) = Start(w + q + 1) + Word
                /\ Start(w) \in Int /\ Start(q) \in Int /\ Start(w - q) \in Int /\ Start(w + q) \in Int
                /\ Start(w + q + 1) \in Int /\ Start(w + q + 1 + 1) \in Int
            <7>1. w \in Int /\ q \in Int /\ w + q \in Int /\ w + q + 1 \in Int
              BY <2>4, <1>2
            <7>2. /\ Start(w - q) = Start(w) - Start(q) /\ Start(w + q) = Start(w) + Start(q)
                  /\ Start(w) \in Int /\ Start(q) \in Int
              BY <7>1, StartSum
            <7>3. Start(w + q + 1) = Start(w + q) + Word /\ Start(w + q) \in Int
              BY <7>1, StartIs
            <7>4. Start(w + q + 1 + 1) = Start(w + q + 1) + Word /\ Start(w + q + 1) \in Int
              BY <7>1, StartIs
            <7> QED BY <7>2, <7>3, <7>4, WordIs
          <6>4. Start(v) \in Int /\ Start(v) >= Start(w + q + 1)
            <7>1. CASE v = w + q + 1
              BY <7>1, <6>3
            <7>2. CASE v > w + q + 1
              <8>1. Start(w + q + 1) + Word <= Start(v) /\ Start(v) \in Int
                BY <7>2, <6>2, <2>4, <1>9
              <8> QED BY <8>1, <6>3, WordIs
            <7> QED BY <7>1, <7>2, <6>1, <6>2, <2>4
          <6>5. Word \in Nat /\ Word \div 2 \in Nat /\ 2 * (Word \div 2) = Word /\ Start(q) >= 0
            <7>1. Start(q) \in Nat
              BY StartNat, <2>4
            <7> QED BY <7>1, WordIs
          <6>6. CASE ~(bit > Word \div 2)
            BY <6>1, <6>2, <6>3, <6>4, <6>5, <6>6, <3>2, <1>2
          <6>7. CASE ~(w + q + 1 <= last)
            BY <6>7, <6>1, <2>4, <1>3
          <6>8. CASE ~R(q + 1)
            <7>1. v # w + q + 1
              <8>1. w + (q + 1) = w + q + 1
                BY <2>4, <1>2
              <8> QED BY <8>1, <6>8, <6>1
            <7>2. Start(v) >= Start(w + q + 1 + 1)
              <8>1. v > w + q + 1
                BY <7>1, <6>1, <2>4, <6>2
              <8>2. Start(w + q + 1) + Word <= Start(v)
                BY <8>1, <6>2, <2>4, <1>9
              <8> QED BY <8>2, <6>3
            <7> QED BY <7>2, <6>1, <6>2, <6>3, <6>4, <6>5, <3>2, <1>2
          <6> QED BY <6>6, <6>7, <6>8, <3>5
        <5> QED BY <5>1, <3>3
      <4>2. Closest(d, n, pos, h)
        <5>1. h <= pos
          BY <3>2
        <5> QED BY <5>1, <4>1, <3>2, ClosestIs
      <4> QED BY <4>2, <3>1, <3>5, <2>9, <1>11, <1>1
    <3> QED BY <3>4, <3>5
  <2>10. CASE ~L(q)
    <3>0. R(q) /\ LowGap(d, w + q) < n
      BY <2>3, <2>10
    <3>1. PICK r : r = LowGap(d, w + q)
      OBVIOUS
    <3>2. r \in Gaps(d, n) /\ r > pos /\ r \in Int /\ r < Start(w + q) + Word /\ r < n
      BY <3>0, <3>1, <2>4, <1>8
    <3>3. \A j \in Gaps(d, n) : j >= r \/ \E v \in 0 .. last : v <= w - q - 1 /\ Start(v) <= j
                                              /\ j < Start(v) + Word /\ j \in GapsOf(d, v)
      <4> TAKE j \in Gaps(d, n)
      <4>1. PICK v \in 0 .. last : v # w /\ Start(v) <= j /\ j < Start(v) + Word /\ j \in GapsOf(d, v)
        BY <1>6
      <4>2. v <= w - q \/ v >= w + q
        BY <4>1, <2>5
      <4>3. CASE v <= w - q
        <5>1. v # w - q
          BY <4>1, <2>10
        <5>2. v <= w - q - 1
          BY <5>1, <4>3, <2>4, <1>3
        <5> QED BY <5>2, <4>1
      <4>4. CASE v >= w + q
        BY <4>4, <4>1, <3>0, <3>1, <2>7
      <4> QED BY <4>2, <4>3, <4>4
    <3>4. CASE bit < Word \div 2 /\ w - q > 0 /\ L(q + 1)
      <4>1. PICK x : x = w - q - 1
        OBVIOUS
      <4>2. x \in Nat /\ x < w /\ GapsOf(d, x) # {}
        <5>1. w - (q + 1) = x /\ x \in Nat /\ x < w
          BY <4>1, <3>4, <2>4, <1>2
        <5> QED BY <5>1, <3>4
      <4>3. PICK h : h = HighGap(d, x)
        OBVIOUS
      <4>4. h \in Gaps(d, n) /\ h < pos /\ h \in Int /\ h >= Start(x) /\ \A j \in GapsOf(d, x) : j <= h
        BY <4>2, <4>3, <1>7
      <4>5. \A j \in Gaps(d, n) : j <= h \/ j >= r
        <5> TAKE j \in Gaps(d, n)
        <5>1. CASE \E v \in 0 .. last : v <= w - q - 1 /\ Start(v) <= j /\ j < Start(v) + Word /\ j \in GapsOf(d, v)
          <6>1. PICK v \in 0 .. last : v <= x /\ Start(v) <= j /\ j < Start(v) + Word /\ j \in GapsOf(d, v)
            BY <5>1, <4>1
          <6>2. j \in Int
            BY DEF Gaps
          <6>3. CASE v = x
            BY <6>3, <6>1, <6>2, <4>4
          <6>4. CASE v < x
            <7>1. Start(v) + Word <= Start(x) /\ Start(v) \in Int /\ Start(x) \in Int
              BY <6>4, <4>2, <1>9, <1>3
            <7> QED BY <7>1, <6>1, <6>2, <4>4, WordIs
          <6> QED BY <6>1, <6>3, <6>4, <4>2, <1>3
        <5> QED BY <5>1, <3>3
      <4>6. Closest(d, n, pos, NearerOf(d, pos, h, r))
        BY <3>2, <4>4, <4>5, NearerIs
      <4> QED BY <4>6, <4>1, <4>3, <3>1, <3>4, <2>10, <1>11, <1>1
    <3>5. CASE ~(bit < Word \div 2 /\ w - q > 0 /\ L(q + 1))
      <4>1. \A j \in Gaps(d, n) : j >= r \/ (j < pos /\ pos - j >= r - pos /\ pos - j >= pos - r)
        <5> TAKE j \in Gaps(d, n)
        <5>1. CASE \E v \in 0 .. last : v <= w - q - 1 /\ Start(v) <= j /\ j < Start(v) + Word /\ j \in GapsOf(d, v)
          <6>1. PICK v \in 0 .. last : v <= w - q - 1 /\ Start(v) <= j /\ j < Start(v) + Word /\ j \in GapsOf(d, v)
            BY <5>1
          <6>2. j \in Int /\ v \in Int /\ v >= 0
            BY DEF Gaps
          <6>3. /\ Start(w - q) = Start(w) - Start(q) /\ Start(w + q) = Start(w) + Start(q)
                /\ Start(w - q - 1 + 1) = Start(w - q - 1) + Word /\ w - q - 1 + 1 = w - q
                /\ Start(w) \in Int /\ Start(q) \in Int /\ Start(w - q) \in Int /\ Start(w + q) \in Int
                /\ Start(w - q - 1) \in Int
            <7>1. w \in Int /\ q \in Int /\ w - q \in Int /\ w - q - 1 \in Int /\ w - q - 1 + 1 = w - q
              BY <2>4, <1>2
            <7>2. /\ Start(w - q) = Start(w) - Start(q) /\ Start(w + q) = Start(w) + Start(q)
                  /\ Start(w) \in Int /\ Start(q) \in Int
              BY <7>1, StartSum
            <7>3. Start(w - q - 1 + 1) = Start(w - q - 1) + Word /\ Start(w - q - 1) \in Int
              BY <7>1, StartIs
            <7> QED BY <7>1, <7>2, <7>3, WordIs
          <6>4. Start(v) \in Int /\ Start(v) + Word <= Start(w - q)
            <7>1. v < w - q
              BY <6>1, <6>2, <2>4
            <7> QED BY <7>1, <6>2, <2>4, <1>9
          <6>5. Word \in Nat /\ Word \div 2 \in Nat /\ 2 * (Word \div 2) = Word /\ Start(q) >= 0
            <7>1. Start(q) \in Nat
              BY StartNat, <2>4
            <7> QED BY <7>1, WordIs
          <6>6. CASE ~(bit < Word \div 2)
            BY <6>1, <6>2, <6>3, <6>4, <6>5, <6>6, <3>2, <1>2
          <6>7. CASE ~(w - q > 0)
            BY <6>7, <6>1, <6>2, <2>4
          <6>8. CASE ~L(q + 1)
            <7>1. v # w - q - 1
              <8>1. w - (q + 1) = w - q - 1
                BY <2>4, <1>2
              <8> QED BY <8>1, <6>8, <6>1
            <7>2. Start(v) + Word <= Start(w - q - 1)
              <8>1. v < w - q - 1
                BY <7>1, <6>1, <2>4, <6>2
              <8> QED BY <8>1, <6>2, <2>4, <1>9
            <7> QED BY <7>2, <6>1, <6>2, <6>3, <6>4, <6>5, <3>2, <1>2
          <6> QED BY <6>6, <6>7, <6>8, <3>5
        <5> QED BY <5>1, <3>3
      <4>2. Closest(d, n, pos, r)
        <5>1. r >= pos
          BY <3>2
        <5> QED BY <5>1, <4>1, <3>2, ClosestIs
      <4> QED BY <4>2, <3>1, <3>5, <2>10, <1>11, <1>1
    <3> QED BY <3>4, <3>5
  <2> QED BY <2>8, <2>9, <2>10
<1> QED BY <1>10, <1>11

(* A gap in the word of pos: the search of this word and its neighbours.   *)
LEMMA GapAroundWordIs ==
  ASSUME NEW d, NEW n \in Nat, n >= 1, data_capacity(d) = n, d.bitmap \in SUBSET (0 .. n - 1),
         NEW pos \in 0 .. n - 1, NEW w, w = pos \div Word, GapsOf(d, w) \cap (0 .. n - 1) # {}
  PROVE  Closest(d, n, pos, GapAroundWord(d, pos, w))
<1> DEFINE last == (n - 1) \div Word
           right == {j \in GapsOf(d, w) : j >= pos}
           left == {j \in GapsOf(d, w) : j < pos}
           r == IF right # {} THEN Min(right) - pos
                ELSE IF w = last THEN Word
                ELSE IF GapsOf(d, w + 1) = {} THEN (w + 2) * Word - pos ELSE LowGap(d, w + 1) - pos
           l == IF left # {} THEN pos - Max(left)
                ELSE IF w = 0 THEN Word
                ELSE IF GapsOf(d, w - 1) = {} THEN pos - (w - 1) * Word + 1 ELSE pos - HighGap(d, w - 1)
<1>1. GapAroundWord(d, pos, w) = IF r < l /\ pos + r < n THEN pos + r ELSE pos - l
  BY Zenon DEF GapAroundWord
<1>2. w \in Nat /\ Start(w) <= pos /\ pos < Start(w) + Word /\ pos \in Nat /\ Start(w) \in Nat
  <2>1. pos \in Nat
    OBVIOUS
  <2> QED BY <2>1, WordOf, StartNat
<1>3. last \in Nat /\ Start(last) <= n - 1 /\ n - 1 < Start(last) + Word /\ Start(last) \in Nat
  <2>1. n - 1 \in Nat
    OBVIOUS
  <2> QED BY <2>1, WordOf, StartNat
<1> HIDE DEF last
<1>4. \A a, b \in Int : a < b => Start(a) + Word <= Start(b) /\ Start(a) \in Int /\ Start(b) \in Int
  BY StartSum
<1>5. w <= last
  <2> SUFFICES ASSUME last < w PROVE FALSE
    BY <1>2, <1>3
  <2>1. last \in Int /\ w \in Int
    BY <1>2, <1>3
  <2>2. Start(last) + Word <= Start(w)
    BY <1>4, <2>1
  <2> QED BY <2>2, <1>2, <1>3, WordIs
(* Each gap is in a word.                                                  *)
<1>6. \A j \in Gaps(d, n) : \E v \in 0 .. last :
        Start(v) <= j /\ j < Start(v) + Word /\ j \in Nat /\ j < n /\ j \in GapsOf(d, v) /\ Start(v) \in Nat
  <2> TAKE j \in Gaps(d, n)
  <2>1. j \in Nat /\ j < n /\ j \notin d.bitmap /\ j \in 0 .. n - 1
    BY DEF Gaps
  <2>2. PICK v : v = j \div Word
    OBVIOUS
  <2>3. v \in Nat /\ Start(v) <= j /\ j < Start(v) + Word /\ Start(v) \in Nat
    BY <2>1, <2>2, WordOf, StartNat
  <2>4. v <= last
    <3> SUFFICES ASSUME last < v PROVE FALSE
      BY <2>3, <1>3
    <3>1. last \in Int /\ v \in Int
      BY <2>3, <1>3
    <3>2. Start(last) + Word <= Start(v)
      BY <3>1, <1>4
    <3> QED BY <3>2, <2>1, <2>3, <1>3, WordIs
  <2>5. j \in GapsOf(d, v)
    BY <2>1, <2>3, WordGaps
  <2> QED BY <2>1, <2>3, <2>4, <2>5, <1>3
<1>7. /\ \A j \in GapsOf(d, w) : j \in Nat /\ Start(w) <= j /\ j < Start(w) + Word /\ j \notin d.bitmap
      /\ GapsOf(d, w) \in SUBSET Nat /\ IsFiniteSet(GapsOf(d, w))
  <2>1. GapsOf(d, w) \in SUBSET Nat
    BY <1>2, WordGaps
  <2>2. \A j \in GapsOf(d, w) : j \in Int
    BY <2>1
  <2>3. IsFiniteSet(Bits(w))
    <3>1. w * Word \in Int /\ w * Word + Word - 1 \in Int
      BY <1>2, WordIs
    <3> QED BY <3>1, FS_Interval DEF Bits
  <2>4. GapsOf(d, w) \in SUBSET Bits(w)
    BY DEF GapsOf
  <2>5. IsFiniteSet(GapsOf(d, w))
    BY <2>3, <2>4, FS_Subset
  <2> QED BY <2>1, <2>2, <2>5, <1>2, WordGaps
<1>8. PICK g \in GapsOf(d, w) : g \in 0 .. n - 1
  OBVIOUS
<1>9. g \in Nat /\ g < n /\ Start(w) <= g /\ g < Start(w) + Word
  BY <1>7, <1>8
(* The right-hand candidate within the word.                               *)
<1>10. ASSUME right # {}, NEW x, x = Min(right)
       PROVE  /\ x \in Nat /\ x >= pos /\ x < Start(w) + Word /\ x \notin d.bitmap /\ r = x - pos
              /\ \A j \in right : x <= j
              /\ \A j \in Gaps(d, n) : j >= pos => j >= x
  <2>1. right \in SUBSET Nat
    BY <1>7
  <2>2. x \in right /\ \A j \in right : x <= j
    <3> HIDE DEF right
    <3> QED BY <2>1, <1>10, NatMinIs
  <2>3. x \in Nat /\ x >= pos /\ x < Start(w) + Word /\ x \notin d.bitmap
    BY <2>2, <1>7
  <2>4. \A j \in Gaps(d, n) : j >= pos => j >= x
    <3> TAKE j \in Gaps(d, n)
    <3> HAVE j >= pos
    <3>1. PICK v \in 0 .. last : /\ Start(v) <= j /\ j < Start(v) + Word /\ j \in Nat /\ j \in GapsOf(d, v)
                                 /\ Start(v) \in Nat
      BY <1>6
    <3>2. CASE v = w
      <4>1. j \in right
        BY <3>1, <3>2
      <4> QED BY <4>1, <2>2, <3>1, <2>3
    <3>3. CASE v < w
      <4>1. Start(v) + Word <= Start(w)
        BY <3>3, <1>4, <1>2
      <4> QED BY <4>1, <3>1, <1>2, WordIs
    <3>4. CASE v > w
      <4>1. Start(w) + Word <= Start(v)
        BY <3>4, <1>4, <1>2
      <4> QED BY <4>1, <3>1, <2>3, <1>2, WordIs
    <3> QED BY <3>2, <3>3, <3>4, <1>2
  <2>5. r = x - pos
    BY <1>10
  <2> QED BY <2>2, <2>3, <2>4, <2>5
(* The left-hand one.                                                      *)
<1>11. ASSUME left # {}, NEW x, x = Max(left)
       PROVE  /\ x \in Gaps(d, n) /\ x \in Nat /\ x < pos /\ x >= Start(w) /\ l = pos - x
              /\ \A j \in Gaps(d, n) : j < pos => j <= x
  <2>1. left \in SUBSET Int /\ IsFiniteSet(left)
    <3>1. left \in SUBSET GapsOf(d, w)
      OBVIOUS
    <3>2. \A j \in left : j \in Int
      BY <1>7
    <3> HIDE DEF left
    <3> QED BY <3>1, <3>2, <1>7, FS_Subset
  <2>2. x \in left /\ \A j \in left : x >= j
    <3> HIDE DEF left
    <3> QED BY <2>1, <1>11, MaxIs
  <2>3. x \in Nat /\ x < pos /\ x >= Start(w) /\ x \notin d.bitmap
    BY <2>2, <1>7
  <2>4. x \in Gaps(d, n)
    BY <2>3 DEF Gaps
  <2>5. \A j \in Gaps(d, n) : j < pos => j <= x
    <3> TAKE j \in Gaps(d, n)
    <3> HAVE j < pos
    <3>1. PICK v \in 0 .. last : /\ Start(v) <= j /\ j < Start(v) + Word /\ j \in Nat /\ j \in GapsOf(d, v)
                                 /\ Start(v) \in Nat
      BY <1>6
    <3>2. CASE v = w
      <4>1. j \in left
        BY <3>1, <3>2
      <4> QED BY <4>1, <2>2, <3>1, <2>3
    <3>3. CASE v < w
      <4>1. Start(v) + Word <= Start(w)
        BY <3>3, <1>4, <1>2
      <4> QED BY <4>1, <3>1, <2>3, <1>2, WordIs
    <3>4. CASE v > w
      <4>1. Start(w) + Word <= Start(v)
        BY <3>4, <1>4, <1>2
      <4> QED BY <4>1, <3>1, <1>2, WordIs
    <3> QED BY <3>2, <3>3, <3>4, <1>2
  <2>6. l = pos - x
    BY <1>11
  <2> QED BY <2>3, <2>4, <2>5, <2>6
(* One side of the word has a gap of the array.                            *)
<1>12. left # {} \/ (right # {} /\ r < Word /\ pos + r < n)
  <2>1. CASE g < pos
    BY <2>1, <1>8
  <2>2. CASE g >= pos
    <3>1. g \in right
      BY <2>2, <1>8
    <3>2. PICK x : x = Min(right)
      OBVIOUS
    <3>3. x <= g /\ x \in Nat /\ x >= pos /\ r = x - pos /\ right # {}
      <4>1. right # {}
        BY <3>1
      <4> HIDE DEF r, right
      <4> QED BY <3>1, <3>2, <4>1, <1>10
    <3> HIDE DEF r, right
    <3> QED BY <3>3, <1>9, <1>2, WordIs
  <2> QED BY <2>1, <2>2, <1>9, <1>2
<1>13. left # {} => l \in Nat /\ l < Word
  <2> SUFFICES ASSUME left # {} PROVE l \in Nat /\ l < Word
    OBVIOUS
  <2>1. PICK x : x = Max(left)
    OBVIOUS
  <2>2. x \in Nat /\ x < pos /\ x >= Start(w) /\ l = pos - x
    <3> HIDE DEF l, left
    <3> QED BY <2>1, <1>11
  <2> HIDE DEF l
  <2> QED BY <2>2, <1>2, WordIs
<1>14. /\ r \in Int /\ r >= 0
       /\ \A j \in Gaps(d, n) : j >= pos => j - pos >= r
       /\ pos + r \in Gaps(d, n) \/ pos + r >= n \/ r > l
  <2>1. CASE right # {}
    <3>1. PICK x : x = Min(right)
      OBVIOUS
    <3>2. /\ x \in Nat /\ x >= pos /\ x < Start(w) + Word /\ x \notin d.bitmap /\ r = x - pos
          /\ \A j \in Gaps(d, n) : j >= pos => j >= x
      <4> HIDE DEF r, right
      <4> QED BY <3>1, <2>1, <1>10
    <3> HIDE DEF r, right, l
    <3>3. \A j \in Gaps(d, n) : j \in Int
      BY DEF Gaps
    <3>4. pos + r = x /\ r \in Int /\ r >= 0
      BY <3>2, <1>2
    <3>5. x < n => x \in Gaps(d, n)
      BY <3>2 DEF Gaps
    <3>6. \A j \in Gaps(d, n) : j >= pos => j - pos >= r
      BY <3>2, <3>3, <1>2
    <3> QED BY <3>2, <3>4, <3>5, <3>6
  <2>2. CASE right = {}
    <3>0. left # {} /\ l \in Nat /\ l < Word
      <4> HIDE DEF l, r
      <4> QED BY <2>2, <1>12, <1>13
    <3>1. \A j \in Gaps(d, n) : j >= pos => \E v \in 0 .. last : v > w /\ Start(v) <= j /\ j \in GapsOf(d, v)
                                                               /\ j \in Nat /\ Start(v) \in Nat
      <4> TAKE j \in Gaps(d, n)
      <4> HAVE j >= pos
      <4>1. PICK v \in 0 .. last : /\ Start(v) <= j /\ j < Start(v) + Word /\ j \in Nat /\ j \in GapsOf(d, v)
                                   /\ Start(v) \in Nat
        BY <1>6
      <4>2. v # w
        <5> SUFFICES ASSUME v = w PROVE FALSE
          OBVIOUS
        <5>1. j \in right
          BY <4>1
        <5> QED BY <5>1, <2>2
      <4>3. ~(v < w)
        <5> SUFFICES ASSUME v < w PROVE FALSE
          OBVIOUS
        <5>1. Start(v) + Word <= Start(w)
          BY <1>4, <1>2
        <5> QED BY <5>1, <4>1, <1>2, WordIs
      <4> QED BY <4>1, <4>2, <4>3, <1>2
    <3>2. CASE w = last
      <4>1. \A j \in Gaps(d, n) : ~(j >= pos)
        BY <3>1, <3>2, <1>2
      <4>2. r = Word
        BY <2>2, <3>2
      <4> HIDE DEF r, l
      <4> QED BY <4>1, <4>2, <3>0, WordIs
    <3>3. CASE w # last /\ GapsOf(d, w + 1) = {}
      <4>1. r = Start(w + 2) - pos
        BY <2>2, <3>3 DEF Start
      <4>2. Start(w + 2) = Start(w) + Word + Word
        <5>1. w \in Int /\ w + 1 \in Int /\ w + 2 = w + 1 + 1
          BY <1>2
        <5>2. Start(w + 1) = Start(w) + Word
          BY <5>1, StartIs
        <5>3. Start(w + 1 + 1) = Start(w + 1) + Word
          BY <5>1, StartIs
        <5> QED BY <5>1, <5>2, <5>3
      <4>3. \A j \in Gaps(d, n) : j >= pos => j \in Nat /\ j >= Start(w + 2)
        <5> TAKE j \in Gaps(d, n)
        <5> HAVE j >= pos
        <5>1. PICK v \in 0 .. last : v > w /\ Start(v) <= j /\ j \in GapsOf(d, v) /\ j \in Nat /\ Start(v) \in Nat
          BY <3>1
        <5>2. v # w + 1
          BY <5>1, <3>3
        <5>3. v = w + 2 \/ v > w + 2
          BY <5>1, <5>2, <1>2
        <5>4. v > w + 2 => Start(w + 2) + Word <= Start(v)
          BY <1>4, <1>2
        <5>5. Start(w + 2) \in Int
          BY <4>2, <1>2, WordIs
        <5> QED BY <5>1, <5>3, <5>4, <5>5, WordIs
      <4> HIDE DEF r, l
      <4>4. r \in Int /\ r > l /\ r >= 0
        BY <4>1, <4>2, <3>0, <1>2, WordIs
      <4>5. \A j \in Gaps(d, n) : j >= pos => j - pos >= r
        BY <4>1, <4>2, <4>3, <1>2, WordIs
      <4> QED BY <4>4, <4>5
    <3>4. CASE w # last /\ GapsOf(d, w + 1) # {}
      <4>1. PICK x : x = LowGap(d, w + 1)
        OBVIOUS
      <4>2. r = x - pos
        BY <2>2, <3>4, <4>1
      <4>3. w + 1 \in Nat
        BY <1>2
      <4>4. x \in GapsOf(d, w + 1) /\ x \in Nat /\ \A j \in GapsOf(d, w + 1) : x <= j
        BY <4>1, <4>3, <3>4, WordGaps
      <4>5. Start(w + 1) <= x /\ x < Start(w + 1) + Word /\ x \notin d.bitmap
        BY <4>3, <4>4, WordGaps
      <4>6. Start(w + 1) = Start(w) + Word
        BY <1>2, StartIs
      <4>7. \A j \in Gaps(d, n) : j >= pos => j \in Nat /\ j >= x
        <5> TAKE j \in Gaps(d, n)
        <5> HAVE j >= pos
        <5>1. PICK v \in 0 .. last : v > w /\ Start(v) <= j /\ j \in GapsOf(d, v) /\ j \in Nat /\ Start(v) \in Nat
          BY <3>1
        <5>2. CASE v = w + 1
          BY <5>1, <5>2, <4>4
        <5>3. CASE v > w + 1
          <6>1. Start(w + 1) + Word <= Start(v) /\ Start(w + 1) \in Int
            BY <5>3, <4>3, <1>4
          <6> QED BY <6>1, <5>1, <4>4, <4>5, WordIs
        <5> QED BY <5>1, <5>2, <5>3, <1>2
      <4> HIDE DEF r, l
      <4>8. r \in Int /\ r >= 0 /\ pos + r = x
        BY <4>2, <4>4, <4>5, <4>6, <1>2, WordIs
      <4>9. x < n => x \in Gaps(d, n)
        BY <4>4, <4>5 DEF Gaps
      <4>10. \A j \in Gaps(d, n) : j >= pos => j - pos >= r
        BY <4>2, <4>4, <4>7, <1>2
      <4> QED BY <4>4, <4>8, <4>9, <4>10
    <3> QED BY <3>2, <3>3, <3>4
  <2> QED BY <2>1, <2>2
<1>15. /\ l \in Int /\ l >= 0
       /\ \A j \in Gaps(d, n) : j < pos => pos - j >= l
       /\ pos - l \in Gaps(d, n) \/ (r < l /\ pos + r < n)
  <2>1. CASE left # {}
    <3>1. PICK x : x = Max(left)
      OBVIOUS
    <3>2. /\ x \in Gaps(d, n) /\ x \in Nat /\ x < pos /\ l = pos - x
          /\ \A j \in Gaps(d, n) : j < pos => j <= x
      <4> HIDE DEF l, left
      <4> QED BY <3>1, <2>1, <1>11
    <3> HIDE DEF r, left, l
    <3>3. \A j \in Gaps(d, n) : j \in Int
      BY DEF Gaps
    <3>4. pos - l = x /\ l \in Int /\ l >= 0
      BY <3>2, <1>2
    <3>5. \A j \in Gaps(d, n) : j < pos => pos - j >= l
      BY <3>2, <3>3, <1>2
    <3> QED BY <3>2, <3>4, <3>5
  <2>2. CASE left = {}
    <3>0. r \in Int /\ r < Word /\ pos + r < n
      <4> HIDE DEF l, r
      <4> QED BY <2>2, <1>12, <1>14
    <3>1. \A j \in Gaps(d, n) : j < pos => \E v \in 0 .. last : v < w /\ j < Start(v) + Word /\ j \in GapsOf(d, v)
                                                              /\ j \in Nat /\ Start(v) \in Nat
      <4> TAKE j \in Gaps(d, n)
      <4> HAVE j < pos
      <4>1. PICK v \in 0 .. last : /\ Start(v) <= j /\ j < Start(v) + Word /\ j \in Nat /\ j \in GapsOf(d, v)
                                   /\ Start(v) \in Nat
        BY <1>6
      <4>2. v # w
        <5> SUFFICES ASSUME v = w PROVE FALSE
          OBVIOUS
        <5>1. j \in left
          BY <4>1
        <5> QED BY <5>1, <2>2
      <4>3. ~(w < v)
        <5> SUFFICES ASSUME w < v PROVE FALSE
          OBVIOUS
        <5>1. Start(w) + Word <= Start(v)
          BY <1>4, <1>2
        <5> QED BY <5>1, <4>1, <1>2, WordIs
      <4> QED BY <4>1, <4>2, <4>3, <1>2
    <3>2. CASE w = 0
      <4>1. \A j \in Gaps(d, n) : ~(j < pos)
        BY <3>1, <3>2, <1>2
      <4>2. l = Word
        BY <2>2, <3>2
      <4> HIDE DEF r, l
      <4> QED BY <4>1, <4>2, <3>0, WordIs
    <3>3. CASE w # 0 /\ GapsOf(d, w - 1) = {}
      <4>1. l = pos - Start(w - 1) + 1
        BY <2>2, <3>3 DEF Start
      <4>2. Start(w - 1) = Start(w) - Word /\ w - 1 \in Nat
        <5>1. w - 1 \in Nat /\ w - 1 \in Int /\ w - 1 + 1 = w
          BY <1>2, <3>3
        <5>2. Start(w - 1 + 1) = Start(w - 1) + Word /\ Start(w - 1) \in Int
          BY <5>1, StartIs
        <5> QED BY <5>1, <5>2, <1>2, WordIs
      <4>3. \A j \in Gaps(d, n) : j < pos => j \in Nat /\ j < Start(w - 1)
        <5> TAKE j \in Gaps(d, n)
        <5> HAVE j < pos
        <5>1. PICK v \in 0 .. last : /\ v < w /\ j < Start(v) + Word /\ j \in GapsOf(d, v)
                                     /\ j \in Nat /\ Start(v) \in Nat
          BY <3>1
        <5>2. v # w - 1
          BY <5>1, <3>3
        <5>3. v < w - 1
          BY <5>1, <5>2, <1>2
        <5>4. Start(v) + Word <= Start(w - 1) /\ Start(w - 1) \in Int
          BY <5>3, <1>4, <4>2
        <5> QED BY <5>1, <5>4, WordIs
      <4> HIDE DEF r, l
      <4>4. l \in Int /\ l > r /\ l >= 0
        BY <4>1, <4>2, <3>0, <1>2, WordIs
      <4>5. \A j \in Gaps(d, n) : j < pos => pos - j >= l
        BY <4>1, <4>2, <4>3, <1>2, WordIs
      <4> QED BY <4>4, <4>5, <3>0
    <3>4. CASE w # 0 /\ GapsOf(d, w - 1) # {}
      <4>1. PICK x : x = HighGap(d, w - 1)
        OBVIOUS
      <4>2. l = pos - x
        BY <2>2, <3>4, <4>1
      <4>3. w - 1 \in Nat
        BY <1>2, <3>4
      <4>4. x \in GapsOf(d, w - 1) /\ x \in Nat /\ \A j \in GapsOf(d, w - 1) : j <= x
        BY <4>1, <4>3, <3>4, WordGaps
      <4>5. Start(w - 1) <= x /\ x < Start(w - 1) + Word /\ x \notin d.bitmap
        BY <4>3, <4>4, WordGaps
      <4>6. Start(w - 1) + Word = Start(w) /\ Start(w - 1) \in Int
        <5>1. w - 1 \in Int /\ w - 1 + 1 = w
          BY <1>2
        <5> QED BY <5>1, StartIs
      <4>7. \A j \in Gaps(d, n) : j < pos => j \in Nat /\ j <= x
        <5> TAKE j \in Gaps(d, n)
        <5> HAVE j < pos
        <5>1. PICK v \in 0 .. last : /\ v < w /\ j < Start(v) + Word /\ j \in GapsOf(d, v)
                                     /\ j \in Nat /\ Start(v) \in Nat
          BY <3>1
        <5>2. CASE v = w - 1
          BY <5>1, <5>2, <4>4
        <5>3. CASE v < w - 1
          <6>1. Start(v) + Word <= Start(w - 1)
            BY <5>3, <4>3, <1>4
          <6> QED BY <6>1, <5>1, <4>4, <4>5, <4>6, WordIs
        <5> QED BY <5>1, <5>2, <5>3, <1>2
      <4> HIDE DEF r, l
      <4>8. l \in Int /\ l >= 0 /\ pos - l = x /\ x < pos
        BY <4>2, <4>4, <4>5, <4>6, <1>2, WordIs
      <4>9. x \in Gaps(d, n)
        BY <4>4, <4>5, <4>8 DEF Gaps
      <4>10. \A j \in Gaps(d, n) : j < pos => pos - j >= l
        BY <4>2, <4>4, <4>7, <1>2
      <4> QED BY <4>8, <4>9, <4>10
    <3> QED BY <3>2, <3>3, <3>4
  <2> QED BY <2>1, <2>2
<1> HIDE DEF r, l, right, left
<1>16. \A j \in Gaps(d, n) : j \in Int /\ j < n
  BY DEF Gaps
<1>17. CASE r < l /\ pos + r < n
  <2>1. pos + r \in Gaps(d, n)
    BY <1>14, <1>15, <1>17, <1>2
  <2>2. \A j \in Gaps(d, n) : Far(pos, pos + r) <= Far(pos, j)
    <3> TAKE j \in Gaps(d, n)
    <3>1. j \in Int /\ (j >= pos => j - pos >= r) /\ (j < pos => pos - j >= l)
      BY <1>14, <1>15, <1>16
    <3>2. Far(pos, pos + r) = r
      BY <1>14, <1>2 DEF Far
    <3> QED BY <3>1, <3>2, <1>14, <1>15, <1>17, <1>2 DEF Far
  <2> QED BY <2>1, <2>2, <1>1, <1>17 DEF Closest
<1>18. CASE ~(r < l /\ pos + r < n)
  <2>1. pos - l \in Gaps(d, n)
    BY <1>15, <1>18
  <2>2. \A j \in Gaps(d, n) : Far(pos, pos - l) <= Far(pos, j)
    <3> TAKE j \in Gaps(d, n)
    <3>1. j \in Int /\ j < n /\ (j >= pos => j - pos >= r) /\ (j < pos => pos - j >= l)
      BY <1>14, <1>15, <1>16
    <3>2. Far(pos, pos - l) = l
      BY <1>15, <1>2 DEF Far
    <3> QED BY <3>1, <3>2, <1>14, <1>15, <1>18, <1>2 DEF Far
  <2> QED BY <2>1, <2>2, <1>1, <1>18 DEF Closest
<1> QED BY <1>17, <1>18

(* The word-wise search returns the closest gap, if there is one.          *)
LEMMA ClosestGapIs ==
  ASSUME NEW d, NEW n \in Nat, n >= 1, data_capacity(d) = n, d.bitmap \in SUBSET (0 .. n - 1),
         Gaps(d, n) # {}, NEW at \in 0 .. n
  PROVE  Closest(d, n, Smaller(at, n - 1), closest_gap(d, at))
<1>1. PICK pos : pos = Smaller(at, n - 1)
  OBVIOUS
<1>2. pos \in 0 .. n - 1
  BY <1>1 DEF Smaller
<1>3. PICK w : w = pos \div Word
  OBVIOUS
<1>4. Positions(d) = 0 .. n - 1
  BY DEF Positions
<1>5. closest_gap(d, at) = IF GapsOf(d, w) \cap (0 .. n - 1) = {} THEN GapInOtherWord(d, pos, w)
                           ELSE GapAroundWord(d, pos, w)
  BY <1>1, <1>3, <1>4 DEF closest_gap
<1>6. CASE GapsOf(d, w) \cap (0 .. n - 1) = {}
  <2>1. Closest(d, n, pos, GapInOtherWord(d, pos, w))
    BY <1>6, <1>2, <1>3, GapInOtherWordIs
  <2> QED BY <2>1, <1>1, <1>5, <1>6
<1>7. CASE GapsOf(d, w) \cap (0 .. n - 1) # {}
  <2>1. Closest(d, n, pos, GapAroundWord(d, pos, w))
    BY <1>7, <1>2, <1>3, GapAroundWordIs
  <2> QED BY <2>1, <1>1, <1>5, <1>7
<1> QED BY <1>6, <1>7

-----------------------------------------------------------------------------
(* The entries of a leaf.                                                  *)
Entry == [key : Keys, payload : Payloads]
EntryAt(d, j) == [key |-> d.key_slots[j], payload |-> d.payload_slots[j]]
Ascending(s) == \A i, j \in 1 .. Len(s) : i < j => s[i].key <= s[j].key
Between(d, left, right) == {j \in d.bitmap : left <= j /\ j < right}

(* What the entries between two positions are ...                          *)
LEMMA EntriesAre ==
  ASSUME NEW d, NEW n, Arrays(d, n), Gapped(d, n), NEW left \in Int, NEW right \in Int
  PROVE  LET at == Ordered(Between(d, left, right))
             N == Cardinality(Between(d, left, right))
         IN  /\ N \in Nat /\ at \in [1 .. N -> Between(d, left, right)]
             /\ \A i, j \in 1 .. N : i < j => at[i] < at[j]
             /\ \A x \in Between(d, left, right) : \E i \in 1 .. N : at[i] = x
             /\ EntriesIn(d, left, right) = [i \in 1 .. N |-> EntryAt(d, at[i])]
             /\ EntriesIn(d, left, right) \in Seq(Entry) /\ Len(EntriesIn(d, left, right)) = N
             /\ N <= Cardinality(d.bitmap)
             /\ Ascending(EntriesIn(d, left, right))
<1> DEFINE S == Between(d, left, right)
           at == Ordered(S)
           N == Cardinality(S)
<1>1. d.bitmap \in SUBSET (0 .. n - 1) /\ IsFiniteSet(d.bitmap) /\ n \in Nat
  BY ArraysIs DEF Arrays
<1>2. S \in SUBSET d.bitmap
  BY DEF Between
<1>3. S \in SUBSET Int /\ IsFiniteSet(S) /\ N <= Cardinality(d.bitmap)
  <2>1. \A x \in S : x \in Int
    BY <1>1, <1>2
  <2> HIDE DEF S
  <2> QED BY <2>1, <1>1, <1>2, FS_Subset
<1>4. /\ N \in Nat /\ at \in [1 .. N -> S] /\ \A i, j \in 1 .. N : i < j => at[i] < at[j]
      /\ \A x \in S : \E i \in 1 .. N : at[i] = x
  <2> HIDE DEF S
  <2> QED BY <1>3, OrderedIs
<1>5. DOMAIN at = 1 .. N
  BY <1>4
<1>6. EntriesIn(d, left, right) = [i \in 1 .. N |-> EntryAt(d, at[i])]
  BY <1>5, Zenon DEF EntriesIn, EntryAt, Between
<1> HIDE DEF at, N, S
<1>7. \A i \in 1 .. N : at[i] \in d.bitmap /\ at[i] \in 0 .. n - 1 /\ at[i] \in Int
  BY <1>4, <1>2, <1>1
<1>8. \A i \in 1 .. N : EntryAt(d, at[i]) \in Entry
  <2> TAKE i \in 1 .. N
  <2>1. d.key_slots[at[i]] \in Keys /\ d.payload_slots[at[i]] \in Payloads
    BY <1>7 DEF Gapped
  <2> QED BY <2>1 DEF EntryAt, Entry
<1>9. PICK s : s = EntriesIn(d, left, right)
  OBVIOUS
<1>10. s \in Seq(Entry) /\ Len(s) = N
  BY <1>4, <1>6, <1>8, <1>9
<1>11. Ascending(s)
  <2> SUFFICES ASSUME NEW i \in 1 .. N, NEW j \in 1 .. N, i < j PROVE s[i].key <= s[j].key
    BY <1>10 DEF Ascending
  <2>1. at[i] \in 0 .. n - 1 /\ at[j] \in 0 .. n - 1 /\ at[i] <= at[j]
    BY <1>4, <1>7
  <2>2. d.key_slots[at[i]] <= d.key_slots[at[j]]
    BY <2>1 DEF Gapped
  <2>3. s[i] = EntryAt(d, at[i]) /\ s[j] = EntryAt(d, at[j])
    BY <1>6, <1>9
  <2> QED BY <2>2, <2>3 DEF EntryAt
<1> QED BY <1>3, <1>4, <1>6, <1>9, <1>10, <1>11 DEF S, at, N

(* g lists the positions B in increasing order, and E the entries there.   *)
Lists(g, M, B) ==
  /\ M \in Nat /\ g \in [1 .. M -> B] /\ \A i, j \in 1 .. M : i < j => g[i] < g[j]
  /\ \A x \in B : \E i \in 1 .. M : g[i] = x
EntriesAt(E, d, g, M) == E \in Seq(Entry) /\ Len(E) = M /\ \A i \in 1 .. M : E[i] = EntryAt(d, g[i])

(* There is one such list for a range of positions: a const_iterator meets *)
(* the entries in it.                                                      *)
LEMMA EntriesUnique ==
  ASSUME NEW d, NEW n, Arrays(d, n), NEW left \in Int, NEW right \in Int,
         NEW N, NEW f, Lists(f, N, Between(d, left, right)), NEW s, EntriesAt(s, d, f, N)
  PROVE  EntriesIn(d, left, right) = s /\ Cardinality(Between(d, left, right)) = N
<1>0. /\ N \in Nat /\ f \in [1 .. N -> Between(d, left, right)] /\ \A i, j \in 1 .. N : i < j => f[i] < f[j]
      /\ \A x \in Between(d, left, right) : \E i \in 1 .. N : f[i] = x
      /\ s \in Seq(Entry) /\ Len(s) = N /\ \A i \in 1 .. N : s[i] = EntryAt(d, f[i])
  BY DEF Lists, EntriesAt
<1>1. d.bitmap \in SUBSET (0 .. n - 1) /\ n \in Nat
  BY ArraysIs DEF Arrays
<1>2. \A x \in Between(d, left, right) : x \in Int
  BY <1>1 DEF Between
<1>3. Between(d, left, right) \in SUBSET Int
  BY <1>2
<1>4. Cardinality(Between(d, left, right)) = N /\ f = Ordered(Between(d, left, right))
  <2>1. PICK B : B = Between(d, left, right)
    OBVIOUS
  <2>2. B \in SUBSET Int /\ \A x \in B : \E i \in 1 .. N : f[i] = x
    BY <2>1, <1>0, <1>3
  <2>3. N \in Nat /\ f \in [1 .. N -> B]
    BY <2>1, <1>0
  <2>4. \A i, j \in 1 .. N : i < j => f[i] < f[j]
    BY <1>0
  <2>5. Cardinality(B) = N /\ f = Ordered(B)
    BY <2>2, <2>3, <2>4, OrderedUnique
  <2> QED BY <2>1, <2>5
<1>5. DOMAIN f = 1 .. N
  BY <1>0
<1>6. EntriesIn(d, left, right) = [i \in 1 .. N |-> EntryAt(d, f[i])]
  BY <1>4, <1>5, Zenon DEF EntriesIn, EntryAt, Between
<1>7. s = [i \in 1 .. N |-> s[i]]
  BY <1>0
<1>8. s = [i \in 1 .. N |-> EntryAt(d, f[i])]
  BY <1>0, <1>7
<1> QED BY <1>4, <1>6, <1>8

(* The entries at all positions are the contents.                          *)
LEMMA AllEntries ==
  ASSUME NEW d, NEW n, Arrays(d, n)
  PROVE  Between(d, 0, n) = d.bitmap /\ Contents(d) = EntriesIn(d, 0, n)
<1>1. d.bitmap \in SUBSET (0 .. n - 1) /\ n \in Nat /\ data_capacity(d) = n
  BY ArraysIs DEF Arrays
<1>2. \A j \in d.bitmap : 0 <= j /\ j < n
  BY <1>1
<1>3. Between(d, 0, n) = d.bitmap
  BY <1>2 DEF Between
<1> QED BY <1>1, <1>3 DEF Contents

(* The contents of a leaf: the entries at the filled positions, in the     *)
(* order of the positions, which is that of the keys.                      *)
LEMMA ContentsAre ==
  ASSUME NEW d, NEW n, Arrays(d, n), Gapped(d, n)
  PROVE  LET at == Ordered(d.bitmap)
             N == Cardinality(d.bitmap)
         IN  /\ N \in Nat /\ at \in [1 .. N -> d.bitmap]
             /\ \A i, j \in 1 .. N : i < j => at[i] < at[j]
             /\ \A x \in d.bitmap : \E i \in 1 .. N : at[i] = x
             /\ Contents(d) = [i \in 1 .. N |-> EntryAt(d, at[i])]
             /\ Contents(d) \in Seq(Entry) /\ Len(Contents(d)) = N /\ Ascending(Contents(d))
<1>1. n \in Int /\ 0 \in Int
  BY DEF Arrays
<1>2. Between(d, 0, n) = d.bitmap /\ Contents(d) = EntriesIn(d, 0, n)
  BY AllEntries
<1>3. PICK zero : zero = 0
  OBVIOUS
<1>4. Between(d, zero, n) = d.bitmap /\ Contents(d) = EntriesIn(d, zero, n) /\ zero \in Int
  BY <1>2, <1>3
<1> QED BY <1>1, <1>4, EntriesAre

(* There is one such list for all filled positions, the leaf's contents.   *)
LEMMA ContentsUnique ==
  ASSUME NEW d, NEW n, Arrays(d, n), NEW N, NEW f, Lists(f, N, d.bitmap), NEW s, EntriesAt(s, d, f, N)
  PROVE  Contents(d) = s /\ Cardinality(d.bitmap) = N
<1>1. n \in Int /\ 0 \in Int
  BY DEF Arrays
<1>2. Between(d, 0, n) = d.bitmap /\ Contents(d) = EntriesIn(d, 0, n)
  BY AllEntries
<1>3. PICK zero : zero = 0
  OBVIOUS
<1>4. Between(d, zero, n) = d.bitmap /\ Contents(d) = EntriesIn(d, zero, n) /\ zero \in Int
  BY <1>2, <1>3
<1>5. Lists(f, N, Between(d, zero, n))
  BY <1>4
<1>6. EntriesIn(d, zero, n) = s /\ Cardinality(Between(d, zero, n)) = N
  BY <1>1, <1>4, <1>5, EntriesUnique
<1> QED BY <1>4, <1>6

-----------------------------------------------------------------------------
(* Laying entries out in new arrays.                                       *)

(* What grows in each step grows.                                          *)
LEMMA GrowsIs ==
  ASSUME NEW N \in Nat, NEW f \in [0 .. N -> Int], \A i \in 1 .. N : f[i - 1] < f[i]
  PROVE  \A i, j \in 0 .. N : i < j => f[i] < f[j]
<1> DEFINE Good == {m \in 0 .. N : \A i \in 0 .. m : i < m => f[i] < f[m]}
<1>1. 0 \in Good
  OBVIOUS
<1>2. ASSUME NEW m \in 0 .. N - 1, m \in Good PROVE m + 1 \in Good
  <2>1. m + 1 \in 1 .. N /\ m + 1 - 1 = m /\ m \in 0 .. N
    OBVIOUS
  <2>2. f[m] < f[m + 1] /\ f[m] \in Int /\ f[m + 1] \in Int
    BY <2>1
  <2>3. ASSUME NEW i \in 0 .. m + 1, i < m + 1 PROVE f[i] < f[m + 1]
    <3>1. i \in 0 .. m /\ f[i] \in Int /\ (i = m \/ i < m)
      BY <2>3, <2>1
    <3>2. i < m => f[i] < f[m]
      BY <3>1, <1>2
    <3> QED BY <3>1, <3>2, <2>2
  <2> QED BY <2>1, <2>3
<1>3. \A m \in 0 .. N : m \in Good
  <2> HIDE DEF Good
  <2> QED BY <1>1, <1>2, Induct
<1> QED BY <1>3

(* Each entry is placed right of the one before, and no one past the end.  *)
LEMMA PlacedIs ==
  ASSUME NEW s, NEW N \in Nat, Len(s) = N, NEW capacity \in Nat, capacity >= N + 1, NEW model,
         \A i \in 1 .. N : model[s[i].key] \in Int
  PROVE  LET pos == Placed(s, capacity, model)
         IN  /\ pos \in [0 .. N -> Int]
             /\ \A i \in 1 .. N : 0 <= pos[i] /\ pos[i] < capacity
             /\ \A i, j \in 0 .. N : i < j => pos[i] < pos[j]
<1> DEFINE Next1(i, x) == Smaller(Larger(model[s[i].key], x + 1), capacity - (N - i + 1))
           g == [i \in 1 .. N |-> [x \in Int |-> Next1(i, x)]]
           F == CHOOSE f : f = [i \in 0 .. N |-> IF i = 0 THEN -1 ELSE Next1(i, f[i - 1])]
<1>1. \A i \in 1 .. N, x \in Int : Next1(i, x) \in Int
  BY DEF Smaller, Larger
<1>2. \E f : f = [i \in 0 .. N |-> IF i = 0 THEN -1 ELSE Next1(i, f[i - 1])]
  <2>1. g \in [1 .. N -> [Int -> Int]]
    <3> HIDE DEF Next1
    <3> QED BY <1>1
  <2>2. PICK f \in [0 .. N -> Int] : f[0] = -1 /\ \A i \in 1 .. N : f[i] = g[i][f[i - 1]]
    <3> DEFINE D == Int
               first == -1
    <3>1. first \in D /\ g \in [1 .. N -> [D -> D]] /\ N \in Nat
      BY <2>1
    <3> HIDE DEF g, D, first
    <3>2. \E f \in [0 .. N -> D] : f[0] = first /\ \A i \in 1 .. N : f[i] = g[i][f[i - 1]]
      <4> HIDE DEF Next1
      <4> QED BY <3>1, RecursionIs
    <3> QED BY <3>2 DEF D, first
  <2>3. \A i \in 0 .. N : i # 0 => i \in 1 .. N /\ f[i - 1] \in Int
    OBVIOUS
  <2>4. \A i \in 1 .. N : g[i][f[i - 1]] = Next1(i, f[i - 1])
    <3> TAKE i \in 1 .. N
    <3>1. f[i - 1] \in Int
      OBVIOUS
    <3> HIDE DEF Next1
    <3> QED BY <3>1
  <2> HIDE DEF g, Next1
  <2>5. \A i \in 0 .. N : f[i] = IF i = 0 THEN -1 ELSE Next1(i, f[i - 1])
    BY <2>2, <2>3, <2>4
  <2>6. f = [i \in 0 .. N |-> IF i = 0 THEN -1 ELSE Next1(i, f[i - 1])]
    BY <2>5
  <2> QED BY <2>6
<1>3. F = [i \in 0 .. N |-> IF i = 0 THEN -1 ELSE Next1(i, F[i - 1])]
  BY <1>2, Zenon
<1>4. Placed(s, capacity, model) = F
  BY Zenon DEF Placed
<1> HIDE DEF F
<1>5. F[0] = -1 /\ \A i \in 1 .. N : F[i] = Next1(i, F[i - 1])
  <2>1. \A i \in 0 .. N : F[i] = IF i = 0 THEN -1 ELSE Next1(i, F[i - 1])
    <3> HIDE DEF Next1
    <3> QED BY <1>3
  <2>2. 0 \in 0 .. N /\ \A i \in 1 .. N : i \in 0 .. N /\ i # 0
    OBVIOUS
  <2> HIDE DEF Next1
  <2> QED BY <2>1, <2>2
<1>6. \A i \in 0 .. N : F[i] \in Int /\ F[i] <= capacity - (N - i + 1)
  <2> DEFINE Good == {i \in 0 .. N : F[i] \in Int /\ F[i] <= capacity - (N - i + 1)}
  <2>1. 0 \in Good
    BY <1>5
  <2>2. ASSUME NEW i \in 0 .. N - 1, i \in Good PROVE i + 1 \in Good
    <3>1. i + 1 \in 1 .. N /\ i + 1 - 1 = i
      OBVIOUS
    <3>2. F[i + 1] = Next1(i + 1, F[i])
      <4> HIDE DEF Next1
      <4> QED BY <3>1, <1>5
    <3>3. model[s[i + 1].key] \in Int /\ F[i] \in Int
      BY <3>1, <2>2
    <3>4. F[i + 1] \in Int /\ F[i + 1] <= capacity - (N - (i + 1) + 1)
      BY <3>1, <3>2, <3>3 DEF Smaller, Larger
    <3> QED BY <3>1, <3>4
  <2>3. \A i \in 0 .. N : i \in Good
    <3> HIDE DEF Good
    <3> QED BY <2>1, <2>2, Induct
  <2> QED BY <2>3
<1>7. F \in [0 .. N -> Int]
  BY <1>3, <1>6
<1>8. \A i \in 1 .. N : F[i - 1] < F[i]
  <2> TAKE i \in 1 .. N
  <2>1. F[i] = Next1(i, F[i - 1]) /\ model[s[i].key] \in Int
    BY <1>5
  <2>2. i - 1 \in 0 .. N /\ N - (i - 1) + 1 = N - i + 2
    OBVIOUS
  <2>3. F[i - 1] \in Int /\ F[i - 1] <= capacity - (N - i + 2)
    BY <2>2, <1>6
  <2> QED BY <2>1, <2>3 DEF Smaller, Larger
<1>9. \A i, j \in 0 .. N : i < j => F[i] < F[j]
  BY <1>7, <1>8, GrowsIs
<1>10. \A i \in 1 .. N : 0 <= F[i] /\ F[i] < capacity
  <2> TAKE i \in 1 .. N
  <2>1. F[0] < F[i] /\ F[i] \in Int /\ F[i] <= capacity - (N - i + 1)
    <3>1. i \in 0 .. N /\ 0 \in 0 .. N /\ 0 < i
      OBVIOUS
    <3> QED BY <3>1, <1>6, <1>9
  <2> QED BY <2>1, <1>5
<1> QED BY <1>4, <1>7, <1>9, <1>10

(* The arrays laid out for a sequence of entries hold exactly these.       *)
LEMMA LayOutIs ==
  ASSUME NEW s \in Seq(Entry), Ascending(s), Len(s) <= MaxKeys, NEW density \in {6, 7, 8},
         NEW d \in LaidOut(s, density)
  PROVE  \E n \in Nat : /\ HotNode(d, n) /\ Contents(d) = s /\ d.num_keys = Len(s)
                        /\ n >= Len(s) + 1
<1> DEFINE N == Len(s)
           n == Capacity(N, density)
<1>1. N \in Nat /\ DOMAIN s = 1 .. N
  OBVIOUS
<1>2. n \in Nat /\ n >= N + 1
  BY <1>1 DEF Capacity, Larger
<1>3. PICK model \in Models(s, density) : d = LayOut(s, density, model)
  BY DEF LaidOut
<1>4. \A i \in 1 .. N : model[s[i].key] \in Int
  <2> DEFINE keys == {s[i].key : i \in DOMAIN s}
  <2>1. model \in [keys -> 0 .. n]
    BY DEF Models
  <2>2. \A i \in 1 .. N : s[i].key \in keys
    BY <1>1
  <2> HIDE DEF keys, n
  <2>3. \A i \in 1 .. N : model[s[i].key] \in 0 .. n
    BY <2>1, <2>2
  <2> QED BY <2>3, <1>2
<1>5. \A i \in 1 .. N : s[i] \in Entry /\ s[i].key \in Keys /\ s[i].payload \in Payloads /\ s[i].key \in Nat
                        /\ s[i].key < kEndSentinel
  <2> TAKE i \in 1 .. N
  <2>1. s[i] \in Entry
    OBVIOUS
  <2> QED BY <2>1, KeysAssumption DEF Entry
<1> DEFINE pos == Placed(s, n, model)
           from(j) == {i \in DOMAIN s : pos[i] >= j}
           filled == {pos[i] : i \in DOMAIN s}
           ks == [j \in 0 .. n - 1 |-> IF from(j) = {} THEN kEndSentinel ELSE s[Min(from(j))].key]
           ps == [j \in 0 .. n - 1 |-> IF j \in filled THEN s[Min(from(j))].payload ELSE NoPayload]
           et == IF N = 0 THEN n * 10 ELSE Smaller(Larger(n * kMaxDensity, (N + 1) * 10), n * 10)
           ct == IF N = 0 THEN 0 ELSE n * kMinDensity
<1>6. d = [key_slots |-> ks, payload_slots |-> ps, bitmap |-> filled, num_keys |-> N,
           expansion_threshold |-> et, contraction_threshold |-> ct, is_cold |-> FALSE]
  BY <1>3, Zenon DEF LayOut
<1> HIDE DEF n, N
<1>7. /\ pos \in [0 .. N -> Int] /\ \A i \in 1 .. N : 0 <= pos[i] /\ pos[i] < n
      /\ \A i, j \in 0 .. N : i < j => pos[i] < pos[j]
  <2>1. Len(s) = N
    BY DEF N
  <2> QED BY <2>1, <1>1, <1>2, <1>4, PlacedIs
<1> HIDE DEF pos
<1>8. \A i \in 1 .. N : pos[i] \in Int /\ pos[i] \in 0 .. n - 1 /\ \A j \in 1 .. N : i < j => pos[i] < pos[j]
  <2> TAKE i \in 1 .. N
  <2>1. i \in 0 .. N /\ \A j \in 1 .. N : j \in 0 .. N
    OBVIOUS
  <2>2. pos[i] \in Int
    BY <2>1, <1>7
  <2> QED BY <2>1, <2>2, <1>7, <1>2
<1>9. \A i, j \in 1 .. N : pos[i] >= pos[j] => i >= j
  <2> TAKE i, j \in 1 .. N
  <2>1. i < j => pos[i] < pos[j] /\ pos[i] \in Int /\ pos[j] \in Int
    BY <1>8
  <2> QED BY <2>1, <1>1
(* The entry that decides a slot's key.                                    *)
<1>10. \A j \in Int : from(j) # {} =>
         /\ Min(from(j)) \in 1 .. N /\ pos[Min(from(j))] >= j
         /\ \A i \in 1 .. N : pos[i] >= j => Min(from(j)) <= i
  <2> TAKE j \in Int
  <2> HAVE from(j) # {}
  <2>1. \A i : i \in from(j) <=> i \in 1 .. N /\ pos[i] >= j
    BY <1>1
  <2>2. from(j) \in SUBSET Nat
    BY <2>1
  <2>3. PICK S : S = from(j)
    OBVIOUS
  <2>4. Min(S) \in S /\ \A i \in S : Min(S) <= i
    <3> HIDE DEF from
    <3> QED BY <2>2, <2>3, NatMinIs
  <2> HIDE DEF from
  <2> QED BY <2>1, <2>3, <2>4
<1>11. \A i \in 1 .. N : from(pos[i]) # {} /\ Min(from(pos[i])) = i
  <2> TAKE i \in 1 .. N
  <2>1. pos[i] \in Int /\ i \in from(pos[i])
    BY <1>1, <1>8
  <2>2. PICK x : x = Min(from(pos[i]))
    OBVIOUS
  <2>3. x \in 1 .. N /\ pos[x] >= pos[i] /\ x <= i
    <3>1. pos[i] >= pos[i]
      BY <2>1
    <3> HIDE DEF from
    <3> QED BY <2>1, <2>2, <3>1, <1>10
  <2>4. x >= i
    BY <2>3, <1>9
  <2>5. x = i
    BY <2>3, <2>4
  <2> QED BY <2>1, <2>2, <2>5
<1>12. \A i \in 1 .. N : ks[pos[i]] = s[i].key /\ ps[pos[i]] = s[i].payload /\ pos[i] \in filled
  <2> TAKE i \in 1 .. N
  <2>1. pos[i] \in 0 .. n - 1 /\ pos[i] \in filled
    BY <1>1, <1>8
  <2> HIDE DEF from, filled
  <2> QED BY <2>1, <1>11
<1>13. ks \in [0 .. n - 1 -> Keys \cup {kEndSentinel}] /\ ps \in [0 .. n - 1 -> Payloads \cup {NoPayload}]
  <2>1. \A j \in 0 .. n - 1 : ks[j] \in Keys \cup {kEndSentinel}
    <3> TAKE j \in 0 .. n - 1
    <3>1. j \in Int /\ ks[j] = IF from(j) = {} THEN kEndSentinel ELSE s[Min(from(j))].key
      BY <1>2
    <3> HIDE DEF from
    <3> QED BY <3>1, <1>10, <1>5
  <2>2. \A j \in 0 .. n - 1 : ps[j] \in Payloads \cup {NoPayload}
    <3> TAKE j \in 0 .. n - 1
    <3>1. CASE j \in filled
      <4>1. PICK i \in 1 .. N : j = pos[i]
        BY <3>1, <1>1
      <4> QED BY <4>1, <1>12, <1>5
    <3>2. CASE j \notin filled
      BY <3>2
    <3> QED BY <3>1, <3>2
  <2> HIDE DEF from, filled
  <2> QED BY <2>1, <2>2
<1>14. filled \in SUBSET (0 .. n - 1)
  <2>1. \A j \in filled : j \in 0 .. n - 1
    BY <1>1, <1>8
  <2> QED BY <2>1
<1>15. et \in Nat /\ et <= n * 10 /\ ct \in Nat
  BY <1>1, <1>2 DEF Smaller, Larger, kMaxDensity, kMinDensity
<1>16. N <= MaxKeys /\ MaxKeys \in Nat
  BY BoundsAssumption DEF N
(* The slots: sorted, and a gap repeats its right neighbour.               *)
<1>17. \A i, j \in 0 .. n - 1 : i <= j => ks[i] <= ks[j]
  <2> TAKE i, j \in 0 .. n - 1
  <2> HAVE i <= j
  <2>1. /\ ks[i] = IF from(i) = {} THEN kEndSentinel ELSE s[Min(from(i))].key
        /\ ks[j] = IF from(j) = {} THEN kEndSentinel ELSE s[Min(from(j))].key
        /\ i \in Int /\ j \in Int
    BY <1>2
  <2>2. from(j) \subseteq from(i)
    <3>1. \A x \in DOMAIN s : pos[x] \in Int
      BY <1>1, <1>8
    <3> QED BY <2>1, <3>1
  <2>3. PICK x : x = Min(from(i))
    OBVIOUS
  <2>4. PICK y : y = Min(from(j))
    OBVIOUS
  <2>5. kEndSentinel \in Nat
    BY KeysAssumption
  <2>6. CASE from(i) = {}
    BY <2>1, <2>2, <2>5, <2>6
  <2>7. CASE from(i) # {} /\ from(j) = {}
    <3>1. x \in 1 .. N /\ ks[i] = s[x].key /\ ks[j] = kEndSentinel
      <4> HIDE DEF from, ks
      <4> QED BY <2>1, <2>3, <2>7, <1>10
    <3>2. s[x].key \in Nat /\ s[x].key < kEndSentinel
      BY <3>1, <1>5
    <3> HIDE DEF ks
    <3> QED BY <3>1, <3>2, <2>5
  <2>8. CASE from(i) # {} /\ from(j) # {}
    <3>1. x \in 1 .. N /\ ks[i] = s[x].key /\ y \in 1 .. N /\ ks[j] = s[y].key /\ pos[y] >= j
      <4> HIDE DEF from, ks
      <4> QED BY <2>1, <2>3, <2>4, <2>8, <1>10
    <3>2. x <= y
      <4>1. pos[y] \in Int
        BY <3>1, <1>8
      <4>2. pos[y] >= i
        BY <4>1, <3>1, <2>1
      <4> HIDE DEF from
      <4> QED BY <4>2, <3>1, <2>1, <2>3, <2>8, <1>10
    <3>3. s[x].key <= s[y].key
      <4>1. x = y \/ x < y
        BY <3>1, <3>2
      <4>2. x < y => s[x].key <= s[y].key
        BY <3>1 DEF Ascending, N
      <4>3. s[x].key \in Nat
        BY <3>1, <1>5
      <4> QED BY <4>1, <4>2, <4>3
    <3> HIDE DEF ks
    <3> QED BY <3>1, <3>3
  <2> QED BY <2>6, <2>7, <2>8
<1>18. \A j \in 0 .. n - 1 : j \notin filled => ks[j] = IF j = n - 1 THEN kEndSentinel ELSE ks[j + 1]
  <2> TAKE j \in 0 .. n - 1
  <2> HAVE j \notin filled
  <2>1. \A i \in 1 .. N : pos[i] # j /\ pos[i] \in Int /\ pos[i] < n
    BY <1>1, <1>8, <1>7
  <2>2. CASE j = n - 1
    <3>1. from(j) = {}
      BY <2>1, <2>2, <1>1, <1>2
    <3> QED BY <3>1, <2>2
  <2>3. CASE j # n - 1
    <3>1. j + 1 \in 0 .. n - 1 /\ j \in Int
      BY <2>3, <1>2
    <3>2. from(j) = from(j + 1)
      BY <2>1, <1>1, <3>1
    <3>3. /\ ks[j] = IF from(j) = {} THEN kEndSentinel ELSE s[Min(from(j))].key
          /\ ks[j + 1] = IF from(j + 1) = {} THEN kEndSentinel ELSE s[Min(from(j + 1))].key
      BY <3>1
    <3> HIDE DEF from, ks
    <3> QED BY <3>2, <3>3, <2>3
  <2> QED BY <2>2, <2>3
<1>19. \A j \in filled : ks[j] \in Keys /\ ps[j] \in Payloads
  <2> TAKE j \in filled
  <2>1. PICK i \in 1 .. N : j = pos[i]
    BY <1>1
  <2> HIDE DEF ks, ps
  <2> QED BY <2>1, <1>12, <1>5
<1>20. \A j \in filled : \E i \in 1 .. N : pos[i] = j
  BY <1>1
<1> HIDE DEF ks, ps, filled, et, ct, from
<1>21. Arrays(d, n)
  <2>1. n \in Nat \ {0}
    BY <1>1, <1>2
  <2> QED BY <2>1, <1>1, <1>6, <1>13, <1>14, <1>15 DEF Arrays
<1>22. d.key_slots = ks /\ d.payload_slots = ps /\ d.bitmap = filled /\ d.num_keys = N
       /\ d.expansion_threshold = et
  BY <1>6
<1>23. Gapped(d, n)
  BY <1>17, <1>18, <1>19, <1>22 DEF Gapped
<1> DEFINE f == [i \in 1 .. N |-> pos[i]]
<1>24. f \in [1 .. N -> d.bitmap] /\ \A i, j \in 1 .. N : i < j => f[i] < f[j]
  BY <1>8, <1>12, <1>22
<1>25. \A x \in d.bitmap : \E i \in 1 .. N : f[i] = x
  BY <1>20, <1>22
<1>26. \A i \in 1 .. N : f[i] = pos[i]
  OBVIOUS
<1> HIDE DEF f
<1>27. \A i \in 1 .. N : s[i] = EntryAt(d, f[i])
  <2> TAKE i \in 1 .. N
  <2>1. EntryAt(d, f[i]) = [key |-> s[i].key, payload |-> s[i].payload]
    BY <1>12, <1>22, <1>26 DEF EntryAt
  <2>2. s[i] \in Entry
    BY <1>5
  <2> QED BY <2>1, <2>2 DEF Entry
<1>28. N \in Nat /\ Len(s) = N
  BY DEF N
<1>29. Contents(d) = s /\ Cardinality(d.bitmap) = N
  <2>1. Lists(f, N, d.bitmap)
    BY <1>24, <1>25, <1>28 DEF Lists
  <2>2. EntriesAt(s, d, f, N)
    BY <1>5, <1>27, <1>28 DEF EntriesAt
  <2> QED BY <1>21, <2>1, <2>2, ContentsUnique
<1>30. Counted(d, n)
  BY <1>15, <1>16, <1>22, <1>29 DEF Counted
<1> QED BY <1>2, <1>21, <1>22, <1>23, <1>29, <1>30 DEF HotNode, N

(* Resizing keeps the entries and makes room.                              *)
LEMMA ResizedIs ==
  ASSUME NEW d, NEW n, HotNode(d, n), NEW density \in {6, 7, 8}, NEW e \in Resized(d, density)
  PROVE  \E m \in Nat : /\ HotNode(e, m) /\ Contents(e) = Contents(d) /\ e.num_keys = d.num_keys
                        /\ e.num_keys < m
<1>1. /\ Arrays(d, n) /\ Gapped(d, n) /\ Cardinality(d.bitmap) = d.num_keys
      /\ d.num_keys <= MaxKeys /\ n \in Nat /\ n >= 1
  BY ArraysIs DEF HotNode, Counted
<1>2. CASE d.num_keys = 0
  <2>1. e = d
    BY <1>2 DEF Resized
  <2> QED BY <2>1, <1>1, <1>2
<1>3. CASE d.num_keys # 0
  <2>1. e \in LaidOut(Contents(d), density)
    BY <1>3 DEF Resized
  <2>2. /\ Contents(d) \in Seq(Entry) /\ Len(Contents(d)) = d.num_keys /\ Ascending(Contents(d))
    BY <1>1, ContentsAre
  <2>3. PICK s : s = Contents(d)
    OBVIOUS
  <2>4. s \in Seq(Entry) /\ Len(s) <= MaxKeys /\ Ascending(s) /\ e \in LaidOut(s, density)
    BY <1>1, <2>1, <2>2, <2>3
  <2>5. PICK m \in Nat : /\ HotNode(e, m) /\ Contents(e) = s /\ e.num_keys = Len(s) /\ m >= Len(s) + 1
    BY <2>4, LayOutIs
  <2>6. e.num_keys < m
    <3>1. Len(s) \in Nat
      BY <2>4
    <3> QED BY <3>1, <2>5
  <2> QED BY <2>2, <2>3, <2>5, <2>6
<1> QED BY <1>2, <1>3

(* A leaf with fewer entries than slots has a gap.                         *)
LEMMA RoomIs ==
  ASSUME NEW d, NEW n, HotNode(d, n), d.num_keys < n
  PROVE  Gaps(d, n) # {}
<1>1. d.bitmap \in SUBSET (0 .. n - 1) /\ n \in Nat /\ Cardinality(d.bitmap) = d.num_keys /\ d.num_keys \in Nat
  BY ArraysIs DEF HotNode, Arrays, Counted
<1> SUFFICES ASSUME Gaps(d, n) = {} PROVE FALSE
  OBVIOUS
<1>2. d.bitmap = 0 .. n - 1
  BY <1>1 DEF Gaps
<1>3. Cardinality(0 .. n - 1) = n
  BY <1>1, FS_Interval
<1> QED BY <1>1, <1>2, <1>3

-----------------------------------------------------------------------------
(* Inserting.                                                              *)

(* f names, in increasing order, the places where s is not in S.           *)
Leaves(f, N, s, S) ==
  /\ DOMAIN f = 1 .. N /\ \A i \in 1 .. N : f[i] \in 1 .. Len(s) /\ s[f[i]] \notin S
  /\ \A i, j \in 1 .. N : i < j => f[i] < f[j]
  /\ \A x \in 1 .. Len(s) : s[x] \notin S => \E i \in 1 .. N : f[i] = x

(* Then Omit(s, S) is the sequence at these places.                        *)
LEMMA OmitUnique ==
  ASSUME NEW T, NEW s \in Seq(T), NEW S, NEW N \in Nat, NEW f, Leaves(f, N, s, S),
         NEW r \in Seq(T), Len(r) = N, \A i \in 1 .. N : r[i] = s[f[i]]
  PROVE  Omit(s, S) = r
<1>0. PICK P : P = {j \in DOMAIN s : s[j] \notin S}
  OBVIOUS
<1>g. PICK g : g = [i \in 1 .. N |-> f[i]]
  OBVIOUS
<1>a. \A i \in 1 .. N : g[i] = f[i]
  BY <1>g
<1>b. P = {j \in 1 .. Len(s) : s[j] \notin S}
  BY <1>0
<1>c. \A x \in P : \E i \in 1 .. N : g[i] = x
  BY <1>b, <1>a DEF Leaves
<1>1. P \in SUBSET Int /\ \A x \in P : \E i \in 1 .. N : g[i] = x
  BY <1>b, <1>c
<1>2. g \in [1 .. N -> P]
  BY <1>0, <1>g DEF Leaves
<1>3. \A i, j \in 1 .. N : i < j => g[i] < g[j]
  BY <1>a DEF Leaves
<1>4. Ordered(P) = g
  BY <1>1, <1>2, <1>3, OrderedUnique
<1>5. Omit(s, S) = [i \in DOMAIN g |-> s[g[i]]]
  BY <1>0, <1>4 DEF Omit
<1>6. Omit(s, S) = [i \in 1 .. N |-> s[f[i]]]
  BY <1>2, <1>a, <1>5
<1>7. r = [i \in 1 .. N |-> r[i]]
  OBVIOUS
<1> QED BY <1>6, <1>7

(* A prefix, a suffix.                                                     *)
LEMMA OmitPrefix ==
  ASSUME NEW T, NEW s \in Seq(T), NEW S, NEW c \in 0 .. Len(s), \A i \in 1 .. Len(s) : s[i] \in S <=> i > c,
         NEW r \in Seq(T), Len(r) = c, \A i \in 1 .. c : r[i] = s[i]
  PROVE  Omit(s, S) = r
<1>0. Len(s) \in Nat /\ c \in Nat /\ c <= Len(s)
  OBVIOUS
<1>1. PICK f : f = [i \in 1 .. c |-> i]
  OBVIOUS
<1>2. DOMAIN f = 1 .. c /\ \A i \in 1 .. c : f[i] = i /\ i \in 1 .. Len(s)
  BY <1>0, <1>1
<1>3. \A i \in 1 .. c : f[i] \in 1 .. Len(s) /\ s[f[i]] \notin S
  <2> TAKE i \in 1 .. c
  <2>1. f[i] = i /\ i \in 1 .. Len(s) /\ ~(i > c)
    BY <1>0, <1>2
  <2> QED BY <2>1
<1>4. \A i, j \in 1 .. c : i < j => f[i] < f[j]
  BY <1>2
<1>5. \A x \in 1 .. Len(s) : s[x] \notin S => \E i \in 1 .. c : f[i] = x
  <2> TAKE x \in 1 .. Len(s)
  <2> HAVE s[x] \notin S
  <2>1. x \in 1 .. c
    BY <1>0
  <2> QED BY <2>1, <1>2
<1>6. \A i \in 1 .. c : r[i] = s[f[i]]
  BY <1>2
<1>7. Leaves(f, c, s, S)
  BY <1>2, <1>3, <1>4, <1>5 DEF Leaves
<1> QED BY <1>0, <1>6, <1>7, OmitUnique, SMTT(30)

SuffixOf(r, s, c, m) == Len(s) = c + m /\ Len(r) = m /\ \A i \in 1 .. m : r[i] = s[c + i]

(* Leaving out the elements up to c leaves the ones after it.              *)
LEMMA OmitSuffix ==
  ASSUME NEW T, NEW s \in Seq(T), NEW S, NEW c \in Nat, NEW m \in Nat,
         \A i \in 1 .. Len(s) : s[i] \in S <=> i <= c,
         NEW r \in Seq(T), SuffixOf(r, s, c, m)
  PROVE  Omit(s, S) = r
<1>0. Len(s) = c + m /\ Len(r) = m /\ \A i \in 1 .. m : r[i] = s[c + i]
  BY DEF SuffixOf
<1>1. PICK f : f = [i \in 1 .. m |-> c + i]
  OBVIOUS
<1>2. DOMAIN f = 1 .. m /\ \A i \in 1 .. m : f[i] = c + i /\ c + i \in 1 .. Len(s)
  BY <1>0, <1>1
<1>3. \A i \in 1 .. m : f[i] \in 1 .. Len(s) /\ s[f[i]] \notin S
  <2> TAKE i \in 1 .. m
  <2>1. f[i] = c + i /\ c + i \in 1 .. Len(s) /\ ~(c + i <= c)
    BY <1>2
  <2> QED BY <2>1
<1>4. \A i, j \in 1 .. m : i < j => f[i] < f[j]
  BY <1>2
<1>5. \A x \in 1 .. Len(s) : s[x] \notin S => \E i \in 1 .. m : f[i] = x
  <2> TAKE x \in 1 .. Len(s)
  <2> HAVE s[x] \notin S
  <2>1. ~(x <= c)
    OBVIOUS
  <2>2. x - c \in 1 .. m /\ c + (x - c) = x
    BY <2>1, <1>0
  <2> QED BY <2>2, <1>2
<1>6. \A i \in 1 .. m : r[i] = s[f[i]]
  BY <1>0, <1>2
<1>7. Leaves(f, m, s, S)
  BY <1>2, <1>3, <1>4, <1>5 DEF Leaves
<1> QED BY <1>0, <1>6, <1>7, OmitUnique, SMTT(30)

(* e holds what d does, moved by mv, and a new entry at position to, after *)
(* all entries of d whose key is not greater.                              *)
Moved(d, e, n, mv, to, k, p) ==
  /\ mv \in [d.bitmap -> 0 .. n - 1] /\ \A i, j \in d.bitmap : i < j => mv[i] < mv[j]
  /\ to \in 0 .. n - 1
  /\ \A j \in d.bitmap : (d.key_slots[j] <= k => mv[j] < to) /\ (d.key_slots[j] > k => mv[j] > to)
  /\ e.bitmap = {mv[j] : j \in d.bitmap} \cup {to}
  /\ \A j \in d.bitmap : EntryAt(e, mv[j]) = EntryAt(d, j)
  /\ EntryAt(e, to) = [key |-> k, payload |-> p]

AfterInsert(s, k, p) ==
  Omit(s, {e \in Entry : e.key > k}) \o <<[key |-> k, payload |-> p]>> \o Omit(s, {e \in Entry : e.key <= k})

(* A leaf whose entries have moved to make way, and that got the new one   *)
(* between them, holds what it held and the new entry.                     *)
LEMMA MovedIs ==
  ASSUME NEW d, NEW n, Arrays(d, n), Gapped(d, n), NEW e, Arrays(e, n),
         NEW k \in Keys, NEW p \in Payloads, NEW mv, NEW to, Moved(d, e, n, mv, to, k, p)
  PROVE  /\ Contents(e) = AfterInsert(Contents(d), k, p)
         /\ Cardinality(e.bitmap) = Cardinality(d.bitmap) + 1
<1> DEFINE at == Ordered(d.bitmap)
           N == Cardinality(d.bitmap)
           C == Contents(d)
           above == {x \in Entry : x.key > k}
           upTo == {x \in Entry : x.key <= k}
<1>1. /\ N \in Nat /\ at \in [1 .. N -> d.bitmap] /\ \A i, j \in 1 .. N : i < j => at[i] < at[j]
      /\ \A x \in d.bitmap : \E i \in 1 .. N : at[i] = x
      /\ C = [i \in 1 .. N |-> EntryAt(d, at[i])]
      /\ C \in Seq(Entry) /\ Len(C) = N /\ Ascending(C)
  BY ContentsAre
<1> HIDE DEF at, N, C
<1>2. k \in Nat /\ \A x \in Entry : x.key \in Nat
  BY KeysAssumption DEF Entry
<1>3. PICK c \in 0 .. N : \A i \in 1 .. N : C[i].key <= k <=> i <= c
  <2> DEFINE T == {i \in 1 .. N : C[i].key > k} \cup {N + 1}
  <2>1. T \in SUBSET Nat /\ T # {}
    BY <1>1
  <2>2. Min(T) \in T /\ \A j \in T : Min(T) <= j
    <3> HIDE DEF T
    <3> QED BY <2>1, NatMinIs
  <2>3. PICK u : u = Min(T)
    OBVIOUS
  <2>4. u \in T /\ u \in 1 .. N + 1 /\ \A j \in T : u <= j
    <3>1. u \in T /\ \A j \in T : u <= j
      BY <2>2, <2>3
    <3>2. \A x \in T : x \in 1 .. N + 1
      BY <1>1
    <3> HIDE DEF T
    <3> QED BY <3>1, <3>2
  <2>5. \A i \in 1 .. N : C[i] \in Entry /\ C[i].key \in Nat
    BY <1>1, <1>2
  <2>6. \A i \in 1 .. N : C[i].key <= k <=> i <= u - 1
    <3> TAKE i \in 1 .. N
    <3>1. CASE i < u
      <4>1. i \notin T
        <5>1. i \in Int /\ u \in Int
          BY <2>4, <1>1
        <5> HIDE DEF T
        <5> QED BY <5>1, <2>4, <3>1
      <4>2. ~(C[i].key > k)
        BY <4>1
      <4> QED BY <4>2, <3>1, <2>4, <2>5, <1>2
    <3>2. CASE ~(i < u)
      <4>1. u \in 1 .. N /\ u <= i
        BY <2>4, <3>2, <1>1
      <4>2. C[u].key > k
        BY <2>4, <4>1, <1>1
      <4>3. u = i \/ u < i
        BY <4>1
      <4>4. u < i => C[u].key <= C[i].key
        BY <4>1, <1>1 DEF Ascending
      <4> QED BY <4>1, <4>2, <4>3, <4>4, <2>5, <1>2, <3>2
    <3> QED BY <3>1, <3>2
  <2>7. u - 1 \in 0 .. N
    BY <2>4, <1>1
  <2> QED BY <2>6, <2>7
<1>4. c \in Nat /\ c <= N
  BY <1>1
<1> DEFINE new == [key |-> k, payload |-> p]
           f == [i \in 1 .. N + 1 |-> IF i <= c THEN mv[at[i]] ELSE IF i = c + 1 THEN to ELSE mv[at[i - 1]]]
           s == AfterInsert(C, k, p)
<1>5. \A i \in 1 .. N : /\ at[i] \in d.bitmap /\ C[i] = EntryAt(d, at[i]) /\ C[i].key = d.key_slots[at[i]]
                        /\ C[i] \in Entry
  <2> TAKE i \in 1 .. N
  <2>1. at[i] \in d.bitmap /\ C[i] = EntryAt(d, at[i]) /\ C[i] \in Entry
    BY <1>1
  <2> QED BY <2>1 DEF EntryAt
<1>6. /\ s \in Seq(Entry) /\ Len(s) = N + 1
      /\ \A i \in 1 .. N + 1 : s[i] = IF i <= c THEN C[i] ELSE IF i = c + 1 THEN new ELSE C[i - 1]
  <2>1. Len(C) = N /\ c \in 0 .. Len(C) /\ C \in Seq(Entry)
    BY <1>1
  <2>2. \A i \in 1 .. Len(C) : C[i] \in above <=> i > c
    BY <2>1, <1>2, <1>3, <1>4, <1>5
  <2>3. \A i \in 1 .. Len(C) : C[i] \in upTo <=> i <= c
    BY <2>1, <1>2, <1>3, <1>4, <1>5
  <2>7. PICK m : m = N - c
    OBVIOUS
  <2>8. m \in Nat /\ Len(C) = c + m /\ N = c + m
    BY <2>1, <2>7, <1>1, <1>4
  <2>9. PICK a \in Seq(Entry) : Len(a) = c /\ \A i \in 1 .. c : a[i] = C[i]
    <3>1. PICK a : a = [i \in 1 .. c |-> C[i]]
      OBVIOUS
    <3>2. \A i \in 1 .. c : C[i] \in Entry
      BY <1>4, <1>5, <1>1
    <3>3. a \in Seq(Entry) /\ Len(a) = c
      BY <3>1, <3>2, <1>4
    <3> QED BY <3>1, <3>3
  <2>10. PICK b \in Seq(Entry) : Len(b) = m /\ \A i \in 1 .. m : b[i] = C[c + i]
    <3>1. PICK b : b = [i \in 1 .. m |-> C[c + i]]
      OBVIOUS
    <3>2. \A i \in 1 .. m : c + i \in 1 .. N
      BY <1>4, <1>1, <2>8
    <3>3. \A i \in 1 .. m : C[c + i] \in Entry
      BY <3>2, <1>5
    <3>4. b \in Seq(Entry) /\ Len(b) = m
      BY <3>1, <3>3, <2>8
    <3> QED BY <3>1, <3>4
  <2>11. Omit(C, above) = a
    <3> HIDE DEF above
    <3> QED BY <2>1, <2>2, <2>9, OmitPrefix
  <2>12. Omit(C, upTo) = b
    <3>1. c \in Nat /\ m \in Nat /\ C \in Seq(Entry) /\ Len(C) = c + m
      BY <1>1, <1>4, <2>8
    <3>2. SuffixOf(b, C, c, m)
      BY <2>8, <2>10 DEF SuffixOf
    <3> HIDE DEF upTo
    <3> QED BY <3>1, <3>2, <2>3, <2>10, OmitSuffix
  <2>13. s = a \o <<new>> \o b /\ new \in Entry
    BY <2>11, <2>12 DEF AfterInsert, Entry
  <2>a. s \in Seq(Entry) /\ Len(s) = N + 1
        /\ \A i \in 1 .. N + 1 : s[i] = IF i <= c THEN a[i] ELSE IF i = c + 1 THEN new ELSE b[i - (c + 1)]
    <3> HIDE DEF s, new
    <3>1. PICK t : t = a \o <<new>>
      OBVIOUS
    <3>2. t \in Seq(Entry) /\ Len(t) = c + 1
      BY <2>9, <2>13, <3>1, <1>4
    <3>3. \A i \in 1 .. c + 1 : t[i] = IF i <= c THEN a[i] ELSE new
      BY <2>9, <2>13, <3>1, <1>4
    <3>4. s = t \o b
      BY <2>13, <3>1
    <3>5. s \in Seq(Entry) /\ Len(s) = (c + 1) + m
      <4>1. s \in Seq(Entry) /\ Len(s) = Len(t) + Len(b)
        <5>1. b \in Seq(Entry) /\ t \in Seq(Entry)
          BY <2>10, <3>2
        <5>2. t \o b \in Seq(Entry) /\ Len(t \o b) = Len(t) + Len(b)
          BY <5>1
        <5> QED BY <5>2, <3>4, Zenon
      <4> QED BY <4>1, <3>2, <2>10
    <3>6. \A i \in 1 .. (c + 1) + m : s[i] = IF i <= c + 1 THEN t[i] ELSE b[i - (c + 1)]
      BY <3>2, <3>4, <2>8, <2>10, <1>4, SMTT(30)
    <3>7. (c + 1) + m = N + 1
      BY <2>8, <1>4
    <3>8. \A i \in 1 .. N + 1 : i <= c + 1 => i \in 1 .. c + 1
      BY <1>4
    <3>9. \A i \in 1 .. N + 1 : i <= c => i <= c + 1
      BY <1>4
    <3>10. \A i \in 1 .. N + 1 : ~(i <= c + 1) => ~(i <= c) /\ i # c + 1
      BY <1>4
    <3>11. \A i \in 1 .. N + 1 : i <= c + 1 => i <= c \/ i = c + 1
      BY <1>4
    <3> QED BY <3>3, <3>5, <3>6, <3>7, <3>8, <3>9, <3>10, <3>11
  <2>14. \A i \in 1 .. N + 1 : s[i] = IF i <= c THEN C[i] ELSE IF i = c + 1 THEN new ELSE C[i - 1]
    <3> HIDE DEF s, new
    <3> TAKE i \in 1 .. N + 1
    <3>1. CASE i <= c
      <4>1. i \in 1 .. c
        BY <3>1, <1>4
      <4> QED BY <4>1, <3>1, <2>9, <2>a
    <3>2. CASE i = c + 1
      <4>1. ~(i <= c)
        BY <3>2, <1>4
      <4> QED BY <4>1, <3>2, <2>a
    <3>3. CASE ~(i <= c) /\ i # c + 1
      <4>1. i - (c + 1) \in 1 .. m /\ c + (i - (c + 1)) = i - 1
        BY <3>3, <2>8, <1>4
      <4>2. b[i - (c + 1)] = C[i - 1]
        BY <4>1, <2>10
      <4> QED BY <4>2, <3>3, <2>a
    <3> QED BY <3>1, <3>2, <3>3
  <2> QED BY <2>a, <2>14
(* Where the entries of s are in e.                                        *)
<1>7. /\ mv \in [d.bitmap -> 0 .. n - 1] /\ \A i, j \in d.bitmap : i < j => mv[i] < mv[j]
      /\ to \in 0 .. n - 1
      /\ \A j \in d.bitmap : (d.key_slots[j] <= k => mv[j] < to) /\ (d.key_slots[j] > k => mv[j] > to)
      /\ e.bitmap = {mv[j] : j \in d.bitmap} \cup {to}
      /\ \A j \in d.bitmap : EntryAt(e, mv[j]) = EntryAt(d, j)
      /\ EntryAt(e, to) = new
  BY DEF Moved
<1>8. \A i \in 1 .. N + 1 : i > c + 1 => i - 1 \in 1 .. N /\ ~(i - 1 <= c)
  BY <1>1, <1>4
<1>9. \A i \in 1 .. N + 1 : i <= c => i \in 1 .. N
  BY <1>1, <1>4
<1>10. \A i \in 1 .. N : /\ mv[at[i]] \in e.bitmap /\ mv[at[i]] \in Int
                         /\ EntryAt(e, mv[at[i]]) = C[i] /\ (i <= c => mv[at[i]] < to)
                         /\ (~(i <= c) => mv[at[i]] > to)
  <2> TAKE i \in 1 .. N
  <2>1. at[i] \in d.bitmap /\ C[i].key = d.key_slots[at[i]] /\ C[i].key \in Nat /\ C[i] = EntryAt(d, at[i])
    BY <1>5, <1>2
  <2>2. mv[at[i]] \in 0 .. n - 1 /\ mv[at[i]] \in Int
    BY <2>1, <1>7
  <2>3. i <= c => d.key_slots[at[i]] <= k
    BY <2>1, <1>3
  <2>4. ~(i <= c) => d.key_slots[at[i]] > k
    BY <2>1, <1>3, <1>2
  <2> QED BY <2>1, <2>2, <2>3, <2>4, <1>7
<1>11. \A i \in 1 .. N + 1 : f[i] \in e.bitmap /\ f[i] \in Int /\ s[i] = EntryAt(e, f[i])
  <2> TAKE i \in 1 .. N + 1
  <2>0. f[i] = IF i <= c THEN mv[at[i]] ELSE IF i = c + 1 THEN to ELSE mv[at[i - 1]]
    OBVIOUS
  <2> HIDE DEF s, f, new
  <2>1. CASE i <= c
    BY <2>0, <2>1, <1>6, <1>9, <1>10
  <2>2. CASE i = c + 1
    <3>1. ~(i <= c) /\ to \in Int
      BY <2>2, <1>4, <1>7
    <3> QED BY <3>1, <2>0, <2>2, <1>6, <1>7
  <2>3. CASE i > c + 1
    <3>0. i \in Int /\ c \in Int
      BY <1>1, <1>4
    <3>1. ~(i <= c) /\ i # c + 1
      BY <2>3, <3>0
    <3> QED BY <3>1, <2>0, <2>3, <1>6, <1>8, <1>10
  <2> QED BY <2>1, <2>2, <2>3, <1>4, <1>1
<1>12. \A i, j \in 1 .. N + 1 : i < j => f[i] < f[j]
  <2> TAKE i, j \in 1 .. N + 1
  <2> HAVE i < j
  <2>0. /\ f[i] = IF i <= c THEN mv[at[i]] ELSE IF i = c + 1 THEN to ELSE mv[at[i - 1]]
        /\ f[j] = IF j <= c THEN mv[at[j]] ELSE IF j = c + 1 THEN to ELSE mv[at[j - 1]]
        /\ to \in Int
    BY <1>7
  <2>a. \A x, y \in 1 .. N : x < y => mv[at[x]] < mv[at[y]]
    <3> TAKE x, y \in 1 .. N
    <3> HAVE x < y
    <3>1. at[x] < at[y] /\ at[x] \in d.bitmap /\ at[y] \in d.bitmap
      BY <1>1, <1>5
    <3> QED BY <3>1, <1>7
  <2> HIDE DEF f
  <2>1. CASE i <= c /\ j <= c
    BY <2>0, <2>1, <2>a, <1>9
  <2>2. CASE i <= c /\ j = c + 1
    <3>1. ~(j <= c)
      BY <2>2, <1>4
    <3> QED BY <3>1, <2>0, <2>2, <1>9, <1>10
  <2>3. CASE i <= c /\ j > c + 1
    <3>1. ~(j <= c) /\ j # c + 1 /\ i \in 1 .. N /\ j - 1 \in 1 .. N /\ ~(j - 1 <= c)
      BY <2>3, <1>4, <1>8, <1>9, <1>1
    <3>2. mv[at[i]] < to /\ mv[at[j - 1]] > to /\ mv[at[i]] \in Int /\ mv[at[j - 1]] \in Int
      BY <3>1, <2>3, <1>10
    <3> QED BY <3>1, <3>2, <2>0, <2>3
  <2>4. CASE i = c + 1 /\ j > c + 1
    <3>1. ~(j <= c) /\ j # c + 1 /\ j - 1 \in 1 .. N /\ ~(j - 1 <= c) /\ ~(i <= c)
      BY <2>4, <1>4, <1>8, <1>1
    <3>2. mv[at[j - 1]] > to /\ mv[at[j - 1]] \in Int
      BY <3>1, <1>10
    <3> QED BY <3>1, <3>2, <2>0, <2>4
  <2>5. CASE i > c + 1 /\ j > c + 1
    <3>1. /\ ~(j <= c) /\ j # c + 1 /\ j - 1 \in 1 .. N /\ ~(i <= c) /\ i # c + 1 /\ i - 1 \in 1 .. N
          /\ i - 1 < j - 1
      BY <2>5, <1>4, <1>8, <1>1
    <3> QED BY <3>1, <2>0, <2>5, <2>a
  <2>6. i \in Int /\ j \in Int /\ c \in Int
    BY <1>4, <1>1
  <2> HIDE DEF N, C, s, at
  <2> QED BY <2>1, <2>2, <2>3, <2>4, <2>5, <2>6
<1>13. \A x \in e.bitmap : \E i \in 1 .. N + 1 : f[i] = x
  <2> TAKE x \in e.bitmap
  <2>1. CASE x = to
    <3>1. c + 1 \in 1 .. N + 1 /\ ~(c + 1 <= c)
      BY <1>1, <1>4
    <3>2. f[c + 1] = to
      BY <3>1
    <3> QED BY <2>1, <3>1, <3>2
  <2>2. CASE x # to
    <3>1. PICK j \in d.bitmap : x = mv[j]
      BY <2>2, <1>7
    <3>2. PICK i \in 1 .. N : at[i] = j
      BY <1>1
    <3>3. CASE i <= c
      <4>1. i \in 1 .. N + 1
        BY <1>1
      <4>2. f[i] = x
        BY <4>1, <3>1, <3>2, <3>3
      <4> QED BY <4>1, <4>2
    <3>4. CASE ~(i <= c)
      <4>1. i + 1 \in 1 .. N + 1 /\ ~(i + 1 <= c) /\ i + 1 # c + 1 /\ i + 1 - 1 = i
        BY <3>4, <1>1, <1>4
      <4>2. f[i + 1] = x
        BY <4>1, <3>1, <3>2
      <4> QED BY <4>1, <4>2
    <3> QED BY <3>3, <3>4
  <2> QED BY <2>1, <2>2
<1>14. N + 1 \in Nat /\ f \in [1 .. N + 1 -> e.bitmap]
  <2>1. N + 1 \in Nat
    BY <1>1
  <2>2. f = [i \in 1 .. N + 1 |-> f[i]]
    OBVIOUS
  <2> HIDE DEF f
  <2> QED BY <2>1, <2>2, <1>11
<1>15. s \in Seq(Entry) /\ Len(s) = N + 1 /\ \A i \in 1 .. N + 1 : s[i] = EntryAt(e, f[i])
  BY <1>6, <1>11
<1> HIDE DEF f, s
<1>16. PICK m : m = N + 1
  OBVIOUS
<1>17. Contents(e) = s /\ Cardinality(e.bitmap) = m
  <2>1. Lists(f, m, e.bitmap)
    BY <1>12, <1>13, <1>14, <1>16 DEF Lists
  <2>2. EntriesAt(s, e, f, m)
    BY <1>15, <1>16 DEF EntriesAt
  <2>3. Arrays(e, n)
    OBVIOUS
  <2> QED BY <2>1, <2>2, <2>3, ContentsUnique
<1> QED BY <1>16, <1>17 DEF s, N, C


(* A leaf whose slot at position to waits for key k: the other slots are   *)
(* sorted, those below hold entries up to k, those above larger keys.      *)
Ready(d, n, to, k) ==
  /\ to \in 0 .. n - 1
  /\ \A i, j \in 0 .. n - 1 : i <= j /\ i # to /\ j # to => d.key_slots[i] <= d.key_slots[j]
  /\ \A j \in 0 .. n - 1 : j \notin d.bitmap /\ j # to /\ j + 1 # to =>
       d.key_slots[j] = IF j = n - 1 THEN kEndSentinel ELSE d.key_slots[j + 1]
  /\ \A j \in d.bitmap : j # to => d.key_slots[j] \in Keys /\ d.payload_slots[j] \in Payloads
  /\ \A j \in d.bitmap : j < to => d.key_slots[j] <= k
  /\ \A j \in 0 .. n - 1 : j > to => d.key_slots[j] > k

(* What insert_element_at writes.                                          *)
Element(d, e, n, k, p, to) ==
  /\ Arrays(e, n) /\ e.bitmap = d.bitmap \cup {to} /\ e.num_keys = d.num_keys
  /\ e.expansion_threshold = d.expansion_threshold
  /\ e.key_slots[to] = k /\ e.payload_slots[to] = p
  /\ \A j \in 0 .. n - 1 : j # to => e.payload_slots[j] = d.payload_slots[j]
  /\ \A j \in 0 .. n - 1 : j > to => e.key_slots[j] = d.key_slots[j]
  /\ \A j \in 0 .. n - 1 : j < to => \/ e.key_slots[j] = k /\ \A h \in j .. to - 1 : h \notin d.bitmap
                                     \/ /\ e.key_slots[j] = d.key_slots[j]
                                        /\ \E h \in j .. to - 1 : h \in d.bitmap

(* insert_element_at writes its entry and the gaps before it, and nothing  *)
(* else.                                                                   *)
LEMMA ElementIs ==
  ASSUME NEW d, NEW n, Arrays(d, n), NEW k \in Keys, NEW p \in Payloads, NEW to \in 0 .. n - 1,
         NEW e, e = InsertElementAt(d, k, p, to)
  PROVE  Element(d, e, n, k, p, to)
<1>1. Positions(d) = 0 .. n - 1 /\ n \in Nat
  BY ArraysIs
<1>2. PICK ks : ks = [j \in 0 .. n - 1 |-> IF j \in GapsBefore(d, to) \cup {to} THEN k ELSE d.key_slots[j]]
  OBVIOUS
<1>3. e = [d EXCEPT !.key_slots = ks, !.payload_slots[to] = p, !.bitmap = @ \cup {to}]
  BY <1>1, <1>2 DEF InsertElementAt
<1>4. /\ d.key_slots \in [0 .. n - 1 -> Keys \cup {kEndSentinel}]
      /\ d.payload_slots \in [0 .. n - 1 -> Payloads \cup {NoPayload}]
      /\ d.bitmap \in SUBSET (0 .. n - 1)
  BY DEF Arrays
<1>5. ks \in [0 .. n - 1 -> Keys \cup {kEndSentinel}]
  BY <1>2, <1>4
<1>6. PICK ps : ps = [d.payload_slots EXCEPT ![to] = p]
  OBVIOUS
<1>7. ps \in [0 .. n - 1 -> Payloads \cup {NoPayload}]
  BY <1>4, <1>6
<1>8. d.bitmap \cup {to} \in SUBSET (0 .. n - 1)
  BY <1>4
<1>9. e = [d EXCEPT !.key_slots = ks, !.payload_slots = ps, !.bitmap = d.bitmap \cup {to}]
  BY <1>3, <1>6 DEF Arrays
<1>10. Arrays(e, n)
  BY <1>5, <1>7, <1>8, <1>9 DEF Arrays
<1>11. /\ e.key_slots = ks /\ e.payload_slots = ps /\ e.bitmap = d.bitmap \cup {to}
       /\ e.num_keys = d.num_keys /\ e.expansion_threshold = d.expansion_threshold
  BY <1>9 DEF Arrays
<1>12. \A j \in 0 .. n - 1 : j \in GapsBefore(d, to) <=> j < to /\ \A h \in j .. to - 1 : h \notin d.bitmap
  BY <1>1 DEF GapsBefore, check_exists
<1>13. ks[to] = k /\ \A j \in 0 .. n - 1 : ks[j] = IF j \in GapsBefore(d, to) \cup {to} THEN k ELSE d.key_slots[j]
  BY <1>2
<1>14. \A j \in 0 .. n - 1 : j > to => ks[j] = d.key_slots[j]
  BY <1>12, <1>13, <1>1
<1>15. \A j \in 0 .. n - 1 : j < to => \/ ks[j] = k /\ \A h \in j .. to - 1 : h \notin d.bitmap
                                       \/ ks[j] = d.key_slots[j] /\ \E h \in j .. to - 1 : h \in d.bitmap
  <2> TAKE j \in 0 .. n - 1
  <2> HAVE j < to
  <2>1. j # to
    BY <1>1
  <2> QED BY <2>1, <1>12, <1>13
<1>16. ps[to] = p /\ \A j \in 0 .. n - 1 : j # to => ps[j] = d.payload_slots[j]
  BY <1>4, <1>6
<1> QED BY <1>10, <1>11, <1>13, <1>14, <1>15, <1>16 DEF Element

(* It makes a leaf that was ready for the key a leaf again.                *)
LEMMA ElementGapped ==
  ASSUME NEW d, NEW n, Arrays(d, n), NEW k \in Keys, NEW p \in Payloads, NEW to, Ready(d, n, to, k),
         NEW e, e = InsertElementAt(d, k, p, to)
  PROVE  Gapped(e, n)
<1>1. to \in 0 .. n - 1 /\ n \in Nat /\ k \in Nat /\ \A j \in 0 .. n - 1 : d.key_slots[j] \in Nat
  BY ArraysIs, KeysAssumption DEF Ready
<1>2. /\ Arrays(e, n) /\ e.bitmap = d.bitmap \cup {to} /\ e.key_slots[to] = k /\ e.payload_slots[to] = p
      /\ \A j \in 0 .. n - 1 : j # to => e.payload_slots[j] = d.payload_slots[j]
      /\ \A j \in 0 .. n - 1 : j > to => e.key_slots[j] = d.key_slots[j]
      /\ \A j \in 0 .. n - 1 : j < to => \/ e.key_slots[j] = k /\ \A h \in j .. to - 1 : h \notin d.bitmap
                                         \/ /\ e.key_slots[j] = d.key_slots[j]
                                            /\ \E h \in j .. to - 1 : h \in d.bitmap
  <2>1. Element(d, e, n, k, p, to)
    BY <1>1, ElementIs
  <2> QED BY <2>1 DEF Element
<1>3. /\ \A i, j \in 0 .. n - 1 : i <= j /\ i # to /\ j # to => d.key_slots[i] <= d.key_slots[j]
      /\ \A j \in 0 .. n - 1 : j \notin d.bitmap /\ j # to /\ j + 1 # to =>
           d.key_slots[j] = IF j = n - 1 THEN kEndSentinel ELSE d.key_slots[j + 1]
      /\ \A j \in d.bitmap : j # to => d.key_slots[j] \in Keys /\ d.payload_slots[j] \in Payloads
      /\ \A j \in d.bitmap : j < to => d.key_slots[j] <= k
      /\ \A j \in 0 .. n - 1 : j > to => d.key_slots[j] > k
      /\ d.bitmap \in SUBSET (0 .. n - 1)
  BY DEF Ready, Arrays
<1>4. \A j \in 0 .. n - 1 : e.key_slots[j] \in Nat
  BY <1>2, ArraysIs
<1>5. \A j \in 0 .. n - 1 : j < to => e.key_slots[j] <= k
  <2> TAKE j \in 0 .. n - 1
  <2> HAVE j < to
  <2>1. CASE e.key_slots[j] = k
    BY <2>1, <1>1
  <2>2. CASE e.key_slots[j] = d.key_slots[j] /\ \E h \in j .. to - 1 : h \in d.bitmap
    <3>1. PICK h \in j .. to - 1 : h \in d.bitmap
      BY <2>2
    <3>2. h \in 0 .. n - 1 /\ h < to /\ j <= h /\ h # to /\ j # to
      BY <3>1, <1>1
    <3>3. d.key_slots[j] <= d.key_slots[h] /\ d.key_slots[h] <= k
      BY <3>1, <3>2, <1>3
    <3>4. d.key_slots[j] \in Nat /\ d.key_slots[h] \in Nat
      BY <3>2, <1>1
    <3> QED BY <2>2, <3>3, <3>4, <1>1
  <2> QED BY <2>1, <2>2, <1>2
<1>6. \A j \in 0 .. n - 1 : j > to => e.key_slots[j] > k
  BY <1>2, <1>3
<1>7. \A i, j \in 0 .. n - 1 : i <= j => e.key_slots[i] <= e.key_slots[j]
  <2> TAKE i, j \in 0 .. n - 1
  <2> HAVE i <= j
  <2>0. e.key_slots[i] \in Nat /\ e.key_slots[j] \in Nat /\ d.key_slots[i] \in Nat /\ d.key_slots[j] \in Nat
    BY <1>1, <1>4
  <2>1. CASE i > to
    <3>1. j > to /\ i # to /\ j # to
      BY <2>1, <1>1
    <3> QED BY <3>1, <2>1, <1>2, <1>3
  <2>2. CASE i <= to /\ j >= to
    <3>1. e.key_slots[i] <= k
      <4>1. i < to \/ i = to
        BY <2>2, <1>1
      <4> QED BY <4>1, <1>1, <1>2, <1>5
    <3>2. k <= e.key_slots[j]
      <4>1. j > to \/ j = to
        BY <2>2, <1>1
      <4> QED BY <4>1, <2>0, <1>1, <1>2, <1>6
    <3> QED BY <3>1, <3>2, <2>0, <1>1
  <2>3. CASE j < to
    <3>1. i < to /\ i # to /\ j # to
      BY <2>3, <1>1
    <3>2. CASE e.key_slots[j] = k
      BY <3>1, <3>2, <1>5
    <3>3. CASE e.key_slots[j] = d.key_slots[j] /\ \E h \in j .. to - 1 : h \in d.bitmap
      <4>1. PICK h \in j .. to - 1 : h \in d.bitmap
        BY <3>3
      <4>2. h \in i .. to - 1
        BY <4>1, <1>1
      <4>3. e.key_slots[i] = d.key_slots[i]
        BY <4>1, <4>2, <3>1, <1>2
      <4> QED BY <4>3, <3>1, <3>3, <1>3
    <3> QED BY <2>3, <3>2, <3>3, <1>2
  <2> QED BY <2>1, <2>2, <2>3, <1>1
<1>8. \A j \in 0 .. n - 1 : j \notin e.bitmap =>
        e.key_slots[j] = IF j = n - 1 THEN kEndSentinel ELSE e.key_slots[j + 1]
  <2> TAKE j \in 0 .. n - 1
  <2> HAVE j \notin e.bitmap
  <2>1. j \notin d.bitmap /\ j # to
    BY <1>2
  <2>2. CASE j > to
    <3>1. j + 1 # to /\ e.key_slots[j] = d.key_slots[j]
      BY <2>2, <1>1, <1>2
    <3>2. d.key_slots[j] = IF j = n - 1 THEN kEndSentinel ELSE d.key_slots[j + 1]
      BY <2>1, <3>1, <1>3
    <3>3. j # n - 1 => j + 1 \in 0 .. n - 1 /\ j + 1 > to
      BY <2>2, <1>1
    <3>4. j # n - 1 => e.key_slots[j + 1] = d.key_slots[j + 1]
      BY <3>3, <1>2
    <3> QED BY <3>1, <3>2, <3>4
  <2>3. CASE j < to
    <3>1. j # n - 1 /\ j + 1 \in 0 .. n - 1 /\ (j + 1 = to \/ j + 1 < to)
      BY <2>3, <1>1
    <3>2. CASE \A h \in j .. to - 1 : h \notin d.bitmap
      <4>1. j \in 0 .. n - 1 /\ ~ \E h \in j .. to - 1 : h \in d.bitmap
        BY <3>2
      <4>2. e.key_slots[j] = k
        BY <4>1, <2>3, <1>2
      <4>3. j + 1 < to => e.key_slots[j + 1] = k
        <5>1. \A h \in j + 1 .. to - 1 : h \in j .. to - 1
          BY <1>1
        <5>2. ~ \E h \in j + 1 .. to - 1 : h \in d.bitmap
          BY <5>1, <4>1
        <5> QED BY <5>2, <3>1, <1>2
      <4> QED BY <4>2, <4>3, <3>1, <1>2
    <3>3. CASE \E h \in j .. to - 1 : h \in d.bitmap
      <4>1. PICK h \in j .. to - 1 : h \in d.bitmap
        BY <3>3
      <4>2. h # j /\ h \in j + 1 .. to - 1 /\ j + 1 < to /\ j + 1 # to
        BY <4>1, <2>1, <1>1
      <4>3. e.key_slots[j] = d.key_slots[j] /\ e.key_slots[j + 1] = d.key_slots[j + 1]
        BY <4>1, <4>2, <3>1, <2>3, <1>2
      <4>4. d.key_slots[j] = d.key_slots[j + 1]
        BY <4>2, <2>1, <3>1, <1>3
      <4> QED BY <4>3, <4>4, <3>1
    <3> QED BY <3>2, <3>3
  <2> QED BY <2>1, <2>2, <2>3, <1>1
<1>9. \A j \in e.bitmap : e.key_slots[j] \in Keys /\ e.payload_slots[j] \in Payloads
  <2> TAKE j \in e.bitmap
  <2>1. CASE j = to
    BY <2>1, <1>2
  <2>2. CASE j # to
    <3>1. j \in d.bitmap /\ j \in 0 .. n - 1 /\ (j < to \/ j > to)
      BY <2>2, <1>1, <1>2, <1>3
    <3>2. d.key_slots[j] \in Keys /\ d.payload_slots[j] \in Payloads /\ e.payload_slots[j] = d.payload_slots[j]
      BY <2>2, <3>1, <1>2, <1>3
    <3>3. e.key_slots[j] \in Keys
      BY <3>1, <3>2, <1>2
    <3> QED BY <3>2, <3>3
  <2> QED BY <2>1, <2>2
<1> QED BY <1>7, <1>8, <1>9 DEF Gapped

(* d1 holds the entries of d, moved by mv away from position to.           *)
MadeWay(d, d1, n, mv, to) ==
  /\ mv \in [d.bitmap -> 0 .. n - 1] /\ \A i, j \in d.bitmap : i < j => mv[i] < mv[j]
  /\ d1.bitmap \cup {to} = {mv[j] : j \in d.bitmap} \cup {to}
  /\ \A j \in d.bitmap : /\ mv[j] \in d1.bitmap /\ mv[j] # to
                         /\ d1.key_slots[mv[j]] = d.key_slots[j]
                         /\ d1.payload_slots[mv[j]] = d.payload_slots[j]

(* Once the other entries have made way, insert_element_at completes the   *)
(* insert.                                                                 *)
LEMMA ElementMoved ==
  ASSUME NEW d, NEW n, Arrays(d, n), NEW d1, Arrays(d1, n), NEW k \in Keys, NEW p \in Payloads,
         NEW to, Ready(d1, n, to, k), NEW mv, MadeWay(d, d1, n, mv, to),
         NEW e, e = InsertElementAt(d1, k, p, to)
  PROVE  Moved(d, e, n, mv, to, k, p)
<1>1. /\ mv \in [d.bitmap -> 0 .. n - 1] /\ \A i, j \in d.bitmap : i < j => mv[i] < mv[j]
      /\ d1.bitmap \cup {to} = {mv[j] : j \in d.bitmap} \cup {to}
      /\ \A j \in d.bitmap : /\ mv[j] \in d1.bitmap /\ mv[j] # to
                             /\ d1.key_slots[mv[j]] = d.key_slots[j]
                             /\ d1.payload_slots[mv[j]] = d.payload_slots[j]
  BY DEF MadeWay
<1>2. to \in 0 .. n - 1 /\ n \in Nat /\ k \in Nat /\ d1.bitmap \in SUBSET (0 .. n - 1)
      /\ d.bitmap \in SUBSET (0 .. n - 1)
  BY ArraysIs, KeysAssumption DEF Ready, Arrays
<1>3. /\ e.bitmap = d1.bitmap \cup {to} /\ e.key_slots[to] = k /\ e.payload_slots[to] = p
      /\ \A j \in 0 .. n - 1 : j # to => e.payload_slots[j] = d1.payload_slots[j]
      /\ \A j \in 0 .. n - 1 : j > to => e.key_slots[j] = d1.key_slots[j]
      /\ \A j \in 0 .. n - 1 : j < to => \/ e.key_slots[j] = k /\ \A h \in j .. to - 1 : h \notin d1.bitmap
                                         \/ /\ e.key_slots[j] = d1.key_slots[j]
                                            /\ \E h \in j .. to - 1 : h \in d1.bitmap
  <2>1. Element(d1, e, n, k, p, to)
    BY <1>2, ElementIs
  <2> QED BY <2>1 DEF Element
<1>4. /\ \A j \in d1.bitmap : j < to => d1.key_slots[j] <= k
      /\ \A j \in 0 .. n - 1 : j > to => d1.key_slots[j] > k
  BY DEF Ready
<1>5. \A j \in d.bitmap : mv[j] \in 0 .. n - 1 /\ mv[j] \in Int /\ d.key_slots[j] \in Nat
  <2> TAKE j \in d.bitmap
  <2>1. mv[j] \in 0 .. n - 1 /\ j \in 0 .. n - 1
    BY <1>1, <1>2
  <2> QED BY <2>1, <1>2, ArraysIs
<1>6. \A j \in d.bitmap : (d.key_slots[j] <= k => mv[j] < to) /\ (d.key_slots[j] > k => mv[j] > to)
  <2> TAKE j \in d.bitmap
  <2>1. mv[j] < to \/ mv[j] > to
    BY <1>1, <1>2, <1>5
  <2>2. mv[j] > to => d.key_slots[j] > k
    BY <1>1, <1>4, <1>5
  <2>3. mv[j] < to => d.key_slots[j] <= k
    BY <1>1, <1>4, <1>5
  <2> QED BY <2>1, <2>2, <2>3, <1>2, <1>5
<1>7. \A j \in d.bitmap : EntryAt(e, mv[j]) = EntryAt(d, j)
  <2> TAKE j \in d.bitmap
  <2>1. mv[j] \in 0 .. n - 1 /\ mv[j] # to /\ mv[j] \in d1.bitmap /\ (mv[j] < to \/ mv[j] > to)
    BY <1>1, <1>2, <1>5
  <2>2. mv[j] < to => mv[j] \in mv[j] .. to - 1
    BY <2>1, <1>2
  <2>3. e.key_slots[mv[j]] = d1.key_slots[mv[j]] /\ e.payload_slots[mv[j]] = d1.payload_slots[mv[j]]
    BY <2>1, <2>2, <1>3
  <2> QED BY <2>3, <1>1 DEF EntryAt
<1>8. EntryAt(e, to) = [key |-> k, payload |-> p]
  BY <1>3 DEF EntryAt
<1> QED BY <1>1, <1>2, <1>3, <1>6, <1>7, <1>8 DEF Moved

(* u is the upper bound of k; pos is where find_insert_position sends the  *)
(* key: to u or to a gap that only gaps separate from u.                   *)
Bound(d, n, u, k) == u \in 0 .. n /\ \A j \in 0 .. n - 1 : d.key_slots[j] <= k <=> j < u
FreeFrom(d, n, u, pos) == pos \in 0 .. n - 1 /\ u <= pos /\ \A j \in u .. pos : j \notin d.bitmap
Position(d, n, k, u, pos) ==
  /\ Bound(d, n, u, k)
  /\ FreeFrom(d, n, u, pos) \/ (pos = u /\ (u = n \/ u \in d.bitmap))

(* find_insert_position is the upper bound of the key, or a gap after it   *)
(* with no entry in between.                                               *)
LEMMA PositionIs ==
  ASSUME NEW d, NEW n, Arrays(d, n), Gapped(d, n), NEW k \in Keys, NEW m \in 0 .. n - 1
  PROVE  \E u : Position(d, n, k, u, find_insert_position(d, m, k))
<1>1. PICK u : u = upper_bound(d, m, k)
  OBVIOUS
<1>2. n \in Nat /\ k \in Int /\ d.bitmap \in SUBSET (0 .. n - 1)
  BY ArraysIs, KeysAssumption DEF Arrays
<1>3. Bound(d, n, u, k)
  BY <1>1, <1>2, BoundsAre DEF Bound
<1>4. u \in 0 .. n
  BY <1>3 DEF Bound
<1>5. PICK pos : pos = find_insert_position(d, m, k)
  OBVIOUS
<1>6. PICK next : next = NextFilled(d, u + 1)
  OBVIOUS
<1>7. pos = IF m <= u \/ u \in d.bitmap THEN u ELSE Smaller(m, next - 1)
  BY <1>1, <1>5, <1>6 DEF find_insert_position, check_exists
<1>8. CASE u = n \/ u \in d.bitmap
  <2>1. pos = u
    BY <1>2, <1>7, <1>8
  <2> QED BY <2>1, <1>3, <1>5, <1>8 DEF Position
<1>9. CASE u # n /\ u \notin d.bitmap /\ m <= u
  <2>1. pos = u /\ u \in 0 .. n - 1
    BY <1>2, <1>4, <1>7, <1>9
  <2>2. \A j \in u .. u : j = u
    BY <2>1, <1>2
  <2>3. FreeFrom(d, n, u, pos)
    BY <2>1, <2>2, <1>2, <1>9 DEF FreeFrom
  <2> QED BY <2>3, <1>3, <1>5 DEF Position
<1>10. CASE u # n /\ u \notin d.bitmap /\ ~(m <= u)
  <2>1. pos = Smaller(m, next - 1)
    BY <1>7, <1>10
  <2>2. next \in d.bitmap \cup {n} /\ (next >= u + 1 \/ next = n) /\ \A j \in d.bitmap : j >= u + 1 => next <= j
    <3>1. PICK v : v = u + 1
      OBVIOUS
    <3>2. v \in Int /\ next = NextFilled(d, v)
      BY <1>4, <1>6, <3>1
    <3>3. next \in d.bitmap \cup {n} /\ (next >= v \/ next = n) /\ \A j \in d.bitmap : j >= v => next <= j
      BY <3>2, NextFilledIs
    <3> QED BY <3>1, <3>3
  <2>3. next \in 0 .. n
    BY <2>2, <1>2
  <2>4. next >= u + 1
    BY <2>2, <2>3, <1>2, <1>4, <1>10
  <2>5. pos \in 0 .. n - 1 /\ u <= pos /\ pos <= next - 1
    BY <2>1, <2>3, <2>4, <1>2, <1>4, <1>10 DEF Smaller
  <2>6. \A j \in u .. pos : j \notin d.bitmap
    <3> TAKE j \in u .. pos
    <3>1. j \in Int /\ j <= next - 1 /\ (j = u \/ j >= u + 1)
      BY <2>3, <2>5, <1>4
    <3>2. ~(next <= j)
      BY <3>1, <2>3
    <3> QED BY <3>1, <3>2, <2>2, <1>10
  <2> QED BY <2>5, <2>6, <1>3, <1>5 DEF FreeFrom, Position
<1> QED BY <1>8, <1>9, <1>10

(* A free slot.                                                            *)
LEMMA FreeSlot ==
  ASSUME NEW d, NEW n, Arrays(d, n), Gapped(d, n), NEW k \in Keys, NEW u, Bound(d, n, u, k),
         NEW pos, FreeFrom(d, n, u, pos)
  PROVE  Ready(d, n, pos, k) /\ \E mv : MadeWay(d, d, n, mv, pos)
<1>1. /\ u \in 0 .. n /\ \A j \in 0 .. n - 1 : d.key_slots[j] <= k <=> j < u
      /\ pos \in 0 .. n - 1 /\ u <= pos /\ \A j \in u .. pos : j \notin d.bitmap
  BY DEF Bound, FreeFrom
<1>2. /\ \A i, j \in 0 .. n - 1 : i <= j => d.key_slots[i] <= d.key_slots[j]
      /\ \A j \in 0 .. n - 1 : j \notin d.bitmap =>
           d.key_slots[j] = IF j = n - 1 THEN kEndSentinel ELSE d.key_slots[j + 1]
      /\ \A j \in d.bitmap : d.key_slots[j] \in Keys /\ d.payload_slots[j] \in Payloads
  BY DEF Gapped
<1>3. n \in Nat /\ k \in Nat /\ d.bitmap \in SUBSET (0 .. n - 1) /\ \A j \in 0 .. n - 1 : d.key_slots[j] \in Nat
  BY ArraysIs, KeysAssumption DEF Arrays
<1>4. \A j \in d.bitmap : j < pos => d.key_slots[j] <= k
  <2> TAKE j \in d.bitmap
  <2> HAVE j < pos
  <2>1. j \in 0 .. n - 1 /\ j \notin u .. pos
    BY <1>1, <1>3
  <2>2. j < u
    BY <2>1, <1>1
  <2> QED BY <2>1, <2>2, <1>1
<1>5. \A j \in 0 .. n - 1 : j > pos => d.key_slots[j] > k
  <2> TAKE j \in 0 .. n - 1
  <2> HAVE j > pos
  <2>1. ~(j < u)
    BY <1>1, <1>3
  <2> QED BY <2>1, <1>1, <1>3
<1>6. Ready(d, n, pos, k)
  BY <1>1, <1>2, <1>4, <1>5 DEF Ready
<1>7. PICK mv : mv = [j \in d.bitmap |-> j]
  OBVIOUS
<1>8. mv \in [d.bitmap -> 0 .. n - 1] /\ \A j \in d.bitmap : mv[j] = j
  BY <1>3, <1>7
<1>9. pos \notin d.bitmap
  <2>1. pos \in u .. pos
    BY <1>1, <1>3
  <2> QED BY <2>1, <1>1
<1>10. d.bitmap = {mv[j] : j \in d.bitmap}
  BY <1>8
<1>11. MadeWay(d, d, n, mv, pos)
  BY <1>8, <1>9, <1>10 DEF MadeWay
<1> QED BY <1>6, <1>11

(* The node insert_using_shifts passes on to insert_element_at.            *)
Source(to, gap, j) == IF to < j /\ j <= gap THEN j - 1 ELSE IF gap <= j /\ j < to THEN j + 1 ELSE j
Shifted(d, d1, n, to, gap) ==
  /\ Arrays(d1, n) /\ d1.bitmap = d.bitmap \cup {gap}
  /\ d1.num_keys = d.num_keys /\ d1.expansion_threshold = d.expansion_threshold
  /\ \A j \in 0 .. n - 1 : /\ d1.key_slots[j] = d.key_slots[Source(to, gap, j)]
                           /\ d1.payload_slots[j] = d.payload_slots[Source(to, gap, j)]

(* insert_using_shifts moves what lies between the gap and the place of    *)
(* the new entry by one, then writes it.                                   *)
LEMMA ShiftedIs ==
  ASSUME NEW d, NEW n, Arrays(d, n), NEW k, NEW p, NEW pos \in Int, NEW gap \in 0 .. n - 1,
         gap = closest_gap(d, pos), NEW to \in 0 .. n - 1, to = IF gap >= pos THEN pos ELSE pos - 1
  PROVE  \E d1 : Shifted(d, d1, n, to, gap) /\ InsertUsingShifts(d, k, p, pos) = InsertElementAt(d1, k, p, to)
<1>1. Positions(d) = 0 .. n - 1 /\ n \in Nat
  BY ArraysIs
<1>2. PICK ks : ks = [j \in 0 .. n - 1 |-> d.key_slots[Source(to, gap, j)]]
  OBVIOUS
<1>3. PICK ps : ps = [j \in 0 .. n - 1 |-> d.payload_slots[Source(to, gap, j)]]
  OBVIOUS
<1>4. PICK d1 : d1 = [d EXCEPT !.key_slots = ks, !.payload_slots = ps, !.bitmap = @ \cup {gap}]
  OBVIOUS
<1>5. InsertUsingShifts(d, k, p, pos) = InsertElementAt(d1, k, p, to)
  BY <1>1, <1>2, <1>3, <1>4, Zenon DEF InsertUsingShifts, Source
<1>6. \A j \in 0 .. n - 1 : Source(to, gap, j) \in 0 .. n - 1
  BY <1>1 DEF Source
<1>7. /\ d.key_slots \in [0 .. n - 1 -> Keys \cup {kEndSentinel}]
      /\ d.payload_slots \in [0 .. n - 1 -> Payloads \cup {NoPayload}]
      /\ d.bitmap \in SUBSET (0 .. n - 1)
  BY DEF Arrays
<1>8. ks \in [0 .. n - 1 -> Keys \cup {kEndSentinel}] /\ ps \in [0 .. n - 1 -> Payloads \cup {NoPayload}]
  BY <1>2, <1>3, <1>6, <1>7
<1>9. d.bitmap \cup {gap} \in SUBSET (0 .. n - 1)
  BY <1>7
<1>10. Arrays(d1, n)
  BY <1>4, <1>8, <1>9 DEF Arrays
<1>11. /\ d1.key_slots = ks /\ d1.payload_slots = ps /\ d1.bitmap = d.bitmap \cup {gap}
       /\ d1.num_keys = d.num_keys /\ d1.expansion_threshold = d.expansion_threshold
  BY <1>4 DEF Arrays
<1>12. \A j \in 0 .. n - 1 : ks[j] = d.key_slots[Source(to, gap, j)] /\ ps[j] = d.payload_slots[Source(to, gap, j)]
  BY <1>2, <1>3
<1> QED BY <1>5, <1>10, <1>11, <1>12 DEF Shifted

(* Entries shifted right, up to a gap above.                               *)
LEMMA ShiftRight ==
  ASSUME NEW d, NEW n, Arrays(d, n), Gapped(d, n), NEW k \in Keys, NEW u, Bound(d, n, u, k),
         NEW gap \in 0 .. n - 1, u < gap, gap \notin d.bitmap, \A j \in u .. gap - 1 : j \in d.bitmap,
         NEW d1, Shifted(d, d1, n, u, gap)
  PROVE  Ready(d1, n, u, k) /\ \E mv : MadeWay(d, d1, n, mv, u)
<1>1. /\ u \in 0 .. n /\ \A j \in 0 .. n - 1 : d.key_slots[j] <= k <=> j < u
      /\ n \in Nat /\ k \in Nat /\ d.bitmap \in SUBSET (0 .. n - 1) /\ \A j \in 0 .. n - 1 : d.key_slots[j] \in Nat
  BY ArraysIs, KeysAssumption DEF Bound, Arrays
<1>2. /\ \A i, j \in 0 .. n - 1 : i <= j => d.key_slots[i] <= d.key_slots[j]
      /\ \A j \in 0 .. n - 1 : j \notin d.bitmap =>
           d.key_slots[j] = IF j = n - 1 THEN kEndSentinel ELSE d.key_slots[j + 1]
      /\ \A j \in d.bitmap : d.key_slots[j] \in Keys /\ d.payload_slots[j] \in Payloads
  BY DEF Gapped
<1>3. /\ d1.bitmap = d.bitmap \cup {gap}
      /\ \A j \in 0 .. n - 1 : /\ d1.key_slots[j] = d.key_slots[Source(u, gap, j)]
                               /\ d1.payload_slots[j] = d.payload_slots[Source(u, gap, j)]
  BY DEF Shifted
<1>4. \A j \in 0 .. n - 1 : /\ u < j /\ j <= gap => Source(u, gap, j) = j - 1 /\ j - 1 \in d.bitmap
                            /\ ~(u < j /\ j <= gap) => Source(u, gap, j) = j
  BY <1>1 DEF Source
<1>5. \A j \in 0 .. n - 1 : Source(u, gap, j) \in 0 .. n - 1
  BY <1>1, <1>4
<1>6. \A i, j \in 0 .. n - 1 : i <= j => Source(u, gap, i) <= Source(u, gap, j) \/ i = u \/ j = u
  BY <1>1, <1>4
<1>7. \A i, j \in 0 .. n - 1 : i <= j /\ i # u /\ j # u => d1.key_slots[i] <= d1.key_slots[j]
  <2> TAKE i, j \in 0 .. n - 1
  <2> HAVE i <= j /\ i # u /\ j # u
  <2>1. Source(u, gap, i) <= Source(u, gap, j)
    BY <1>6
  <2> QED BY <2>1, <1>2, <1>3, <1>5
<1>8. \A j \in 0 .. n - 1 : j \notin d1.bitmap /\ j # u /\ j + 1 # u =>
        d1.key_slots[j] = IF j = n - 1 THEN kEndSentinel ELSE d1.key_slots[j + 1]
  <2> TAKE j \in 0 .. n - 1
  <2> HAVE j \notin d1.bitmap /\ j # u /\ j + 1 # u
  <2>1. j \notin d.bitmap /\ j # gap
    BY <1>3
  <2>2. ~(u < j /\ j <= gap) /\ ~(u < j + 1 /\ j + 1 <= gap)
    <3>1. j \in u .. gap - 1 => j \in d.bitmap
      OBVIOUS
    <3> QED BY <3>1, <2>1, <1>1
  <2>3. d1.key_slots[j] = d.key_slots[j]
    BY <2>2, <1>3, <1>4
  <2>4. j # n - 1 => j + 1 \in 0 .. n - 1
    BY <1>1
  <2>5. j # n - 1 => d1.key_slots[j + 1] = d.key_slots[j + 1]
    BY <2>2, <2>4, <1>3, <1>4
  <2> QED BY <2>1, <2>3, <2>5, <1>2
<1>9. \A j \in d1.bitmap : j # u => d1.key_slots[j] \in Keys /\ d1.payload_slots[j] \in Payloads
  <2> TAKE j \in d1.bitmap
  <2> HAVE j # u
  <2>1. j \in 0 .. n - 1
    BY <1>1, <1>3
  <2>2. Source(u, gap, j) \in d.bitmap
    <3>1. CASE j = gap
      BY <2>1, <3>1, <1>1, <1>4
    <3>2. CASE j # gap
      <4>1. j \in d.bitmap
        BY <3>2, <1>3
      <4> QED BY <4>1, <2>1, <1>4
    <3> QED BY <3>1, <3>2
  <2> QED BY <2>1, <2>2, <1>2, <1>3
<1>10. \A j \in d1.bitmap : j < u => d1.key_slots[j] <= k
  <2> TAKE j \in d1.bitmap
  <2> HAVE j < u
  <2>1. j \in 0 .. n - 1 /\ ~(u < j /\ j <= gap)
    BY <1>1, <1>3
  <2> QED BY <2>1, <1>1, <1>3, <1>4
<1>11. \A j \in 0 .. n - 1 : j > u => d1.key_slots[j] > k
  <2> TAKE j \in 0 .. n - 1
  <2> HAVE j > u
  <2>1. PICK i : i = Source(u, gap, j)
    OBVIOUS
  <2>2. i \in 0 .. n - 1 /\ ~(i < u)
    BY <2>1, <1>1, <1>4, <1>5
  <2>3. ~(d.key_slots[i] <= k) /\ d.key_slots[i] \in Nat
    BY <2>2, <1>1
  <2> QED BY <2>1, <2>3, <1>1, <1>3
<1>12. Ready(d1, n, u, k)
  BY <1>1, <1>7, <1>8, <1>9, <1>10, <1>11 DEF Ready
<1>13. PICK mv : mv = [j \in d.bitmap |-> IF u <= j /\ j < gap THEN j + 1 ELSE j]
  OBVIOUS
<1>14. \A j \in d.bitmap : /\ mv[j] = IF u <= j /\ j < gap THEN j + 1 ELSE j
                           /\ j \in 0 .. n - 1 /\ j # gap /\ mv[j] \in 0 .. n - 1 /\ mv[j] # u
                           /\ Source(u, gap, mv[j]) = j
  <2> TAKE j \in d.bitmap
  <2>1. mv[j] = (IF u <= j /\ j < gap THEN j + 1 ELSE j) /\ j \in 0 .. n - 1 /\ j # gap
    BY <1>1, <1>13
  <2>2. mv[j] \in 0 .. n - 1 /\ mv[j] # u
    BY <2>1, <1>1
  <2>3. Source(u, gap, mv[j]) = j
    BY <2>1, <1>1 DEF Source
  <2> QED BY <2>1, <2>2, <2>3
<1>15. mv \in [d.bitmap -> 0 .. n - 1]
  <2>1. \A j \in d.bitmap : (IF u <= j /\ j < gap THEN j + 1 ELSE j) \in 0 .. n - 1
    BY <1>14
  <2> QED BY <2>1, <1>13
<1>16. \A i, j \in d.bitmap : i < j => mv[i] < mv[j]
  <2> TAKE i, j \in d.bitmap
  <2> HAVE i < j
  <2>1. /\ mv[i] = IF u <= i /\ i < gap THEN i + 1 ELSE i
        /\ mv[j] = IF u <= j /\ j < gap THEN j + 1 ELSE j
        /\ i \in Int /\ j \in Int /\ j # gap
    BY <1>14
  <2> QED BY <2>1, <1>1
<1>17. \A j \in d.bitmap : mv[j] \in d1.bitmap
  <2> TAKE j \in d.bitmap
  <2>1. CASE u <= j /\ j < gap
    <3>1. mv[j] = j + 1 /\ (j + 1 = gap \/ j + 1 \in u .. gap - 1)
      BY <2>1, <1>1, <1>14
    <3> QED BY <3>1, <1>3
  <2>2. CASE ~(u <= j /\ j < gap)
    BY <2>2, <1>3, <1>14
  <2> QED BY <2>1, <2>2
<1>18. \A x \in d1.bitmap : x # u => x \in {mv[j] : j \in d.bitmap}
  <2> TAKE x \in d1.bitmap
  <2> HAVE x # u
  <2>0. x \in 0 .. n - 1
    BY <1>1, <1>3
  <2>1. CASE u < x /\ x <= gap
    <3>1. x - 1 \in d.bitmap /\ u <= x - 1 /\ x - 1 < gap /\ (x - 1) + 1 = x
      BY <2>0, <2>1, <1>1
    <3>2. mv[x - 1] = x
      BY <3>1, <1>14
    <3> QED BY <3>1, <3>2
  <2>2. CASE ~(u < x /\ x <= gap)
    <3>1. x # gap /\ ~(u <= x /\ x < gap)
      BY <2>0, <2>2, <1>1
    <3>2. x \in d.bitmap
      BY <3>1, <1>3
    <3>3. mv[x] = x
      BY <3>1, <3>2, <1>14
    <3> QED BY <3>2, <3>3
  <2> QED BY <2>1, <2>2
<1>19. d1.bitmap \cup {u} = {mv[j] : j \in d.bitmap} \cup {u}
  BY <1>17, <1>18
<1>20. \A j \in d.bitmap : /\ d1.key_slots[mv[j]] = d.key_slots[j]
                           /\ d1.payload_slots[mv[j]] = d.payload_slots[j]
  BY <1>3, <1>14
<1>21. MadeWay(d, d1, n, mv, u)
  BY <1>14, <1>15, <1>16, <1>17, <1>19, <1>20 DEF MadeWay
<1> QED BY <1>12, <1>21

(* Entries shifted left, down to a gap below.                              *)
LEMMA ShiftLeft ==
  ASSUME NEW d, NEW n, Arrays(d, n), Gapped(d, n), NEW k \in Keys, NEW u, Bound(d, n, u, k),
         NEW gap \in 0 .. n - 1, gap < u, gap \notin d.bitmap, \A j \in gap + 1 .. u - 1 : j \in d.bitmap,
         NEW to, to = u - 1, NEW d1, Shifted(d, d1, n, to, gap)
  PROVE  Ready(d1, n, to, k) /\ \E mv : MadeWay(d, d1, n, mv, to)
<1>1. /\ u \in 0 .. n /\ \A j \in 0 .. n - 1 : d.key_slots[j] <= k <=> j < u
      /\ n \in Nat /\ k \in Nat /\ d.bitmap \in SUBSET (0 .. n - 1) /\ \A j \in 0 .. n - 1 : d.key_slots[j] \in Nat
  BY ArraysIs, KeysAssumption DEF Bound, Arrays
<1>a. to \in 0 .. n - 1 /\ gap <= to /\ u = to + 1 /\ \A j \in gap + 1 .. to : j \in d.bitmap
  BY <1>1
<1>2. /\ \A i, j \in 0 .. n - 1 : i <= j => d.key_slots[i] <= d.key_slots[j]
      /\ \A j \in 0 .. n - 1 : j \notin d.bitmap =>
           d.key_slots[j] = IF j = n - 1 THEN kEndSentinel ELSE d.key_slots[j + 1]
      /\ \A j \in d.bitmap : d.key_slots[j] \in Keys /\ d.payload_slots[j] \in Payloads
  BY DEF Gapped
<1>3. /\ d1.bitmap = d.bitmap \cup {gap}
      /\ \A j \in 0 .. n - 1 : /\ d1.key_slots[j] = d.key_slots[Source(to, gap, j)]
                               /\ d1.payload_slots[j] = d.payload_slots[Source(to, gap, j)]
  BY DEF Shifted
<1>4. \A j \in 0 .. n - 1 : /\ gap <= j /\ j < to => Source(to, gap, j) = j + 1 /\ j + 1 \in d.bitmap
                            /\ ~(gap <= j /\ j < to) => Source(to, gap, j) = j
  BY <1>1, <1>a DEF Source
<1>5. \A j \in 0 .. n - 1 : Source(to, gap, j) \in 0 .. n - 1
  BY <1>1, <1>4
<1>6. \A i, j \in 0 .. n - 1 : i <= j => Source(to, gap, i) <= Source(to, gap, j) \/ i = to \/ j = to
  BY <1>1, <1>a, <1>4
<1>7. \A i, j \in 0 .. n - 1 : i <= j /\ i # to /\ j # to => d1.key_slots[i] <= d1.key_slots[j]
  <2> TAKE i, j \in 0 .. n - 1
  <2> HAVE i <= j /\ i # to /\ j # to
  <2>1. Source(to, gap, i) <= Source(to, gap, j)
    BY <1>6
  <2> QED BY <2>1, <1>2, <1>3, <1>5
<1>8. \A j \in 0 .. n - 1 : j \notin d1.bitmap /\ j # to /\ j + 1 # to =>
        d1.key_slots[j] = IF j = n - 1 THEN kEndSentinel ELSE d1.key_slots[j + 1]
  <2> TAKE j \in 0 .. n - 1
  <2> HAVE j \notin d1.bitmap /\ j # to /\ j + 1 # to
  <2>1. j \notin d.bitmap /\ j # gap
    BY <1>3
  <2>2. ~(gap <= j /\ j < to)
    <3>1. j \in gap + 1 .. to => j \in d.bitmap
      BY <1>a
    <3> QED BY <3>1, <2>1, <1>1, <1>a
  <2>3. d1.key_slots[j] = d.key_slots[j]
    BY <2>2, <1>3, <1>4
  <2>4. j # n - 1 => j + 1 \in 0 .. n - 1
    BY <1>1
  <2>5. CASE gap <= j + 1 /\ j + 1 < to
    <3>1. j + 1 = gap /\ gap + 1 \in 0 .. n - 1 /\ j # n - 1 /\ gap # n - 1
      BY <2>2, <2>5, <1>1, <1>a
    <3>2. d1.key_slots[gap] = d.key_slots[gap + 1]
      BY <3>1, <2>5, <1>3, <1>4
    <3>3. d.key_slots[gap] = d.key_slots[gap + 1] /\ d.key_slots[j] = d.key_slots[gap]
      BY <3>1, <2>1, <1>2
    <3> QED BY <3>1, <3>2, <3>3, <2>3
  <2>6. CASE ~(gap <= j + 1 /\ j + 1 < to)
    <3>1. j # n - 1 => d1.key_slots[j + 1] = d.key_slots[j + 1]
      BY <2>4, <2>6, <1>3, <1>4
    <3> QED BY <3>1, <2>1, <2>3, <1>2
  <2> QED BY <2>5, <2>6
<1>9. \A j \in d1.bitmap : j # to => d1.key_slots[j] \in Keys /\ d1.payload_slots[j] \in Payloads
  <2> TAKE j \in d1.bitmap
  <2> HAVE j # to
  <2>1. j \in 0 .. n - 1
    BY <1>1, <1>3
  <2>2. Source(to, gap, j) \in d.bitmap
    <3>1. CASE j = gap
      <4>1. gap <= j /\ j < to
        BY <3>1, <2>1, <1>a
      <4> QED BY <4>1, <2>1, <1>4
    <3>2. CASE j # gap
      <4>1. j \in d.bitmap
        BY <3>2, <1>3
      <4> QED BY <4>1, <2>1, <1>4
    <3> QED BY <3>1, <3>2
  <2> QED BY <2>1, <2>2, <1>2, <1>3
<1>10. \A j \in d1.bitmap : j < to => d1.key_slots[j] <= k
  <2> TAKE j \in d1.bitmap
  <2> HAVE j < to
  <2>1. j \in 0 .. n - 1
    BY <1>1, <1>3
  <2>2. PICK i : i = Source(to, gap, j)
    OBVIOUS
  <2>3. i \in 0 .. n - 1 /\ i < u
    BY <2>1, <2>2, <1>1, <1>a, <1>4, <1>5
  <2> QED BY <2>1, <2>2, <2>3, <1>1, <1>3
<1>11. \A j \in 0 .. n - 1 : j > to => d1.key_slots[j] > k
  <2> TAKE j \in 0 .. n - 1
  <2> HAVE j > to
  <2>1. ~(gap <= j /\ j < to) /\ ~(j < u)
    BY <1>1, <1>a
  <2>2. ~(d.key_slots[j] <= k) /\ d.key_slots[j] \in Nat
    BY <2>1, <1>1
  <2> QED BY <2>1, <2>2, <1>1, <1>3, <1>4
<1>12. Ready(d1, n, to, k)
  BY <1>a, <1>7, <1>8, <1>9, <1>10, <1>11 DEF Ready
<1>13. PICK mv : mv = [j \in d.bitmap |-> IF gap < j /\ j <= to THEN j - 1 ELSE j]
  OBVIOUS
<1>14. \A j \in d.bitmap : /\ mv[j] = IF gap < j /\ j <= to THEN j - 1 ELSE j
                           /\ j \in 0 .. n - 1 /\ j # gap /\ mv[j] \in 0 .. n - 1 /\ mv[j] # to
                           /\ Source(to, gap, mv[j]) = j
  <2> TAKE j \in d.bitmap
  <2>1. mv[j] = (IF gap < j /\ j <= to THEN j - 1 ELSE j) /\ j \in 0 .. n - 1 /\ j # gap
    BY <1>1, <1>13
  <2>2. mv[j] \in 0 .. n - 1 /\ mv[j] # to
    BY <2>1, <1>1, <1>a
  <2>3. Source(to, gap, mv[j]) = j
    BY <2>1, <1>1, <1>a DEF Source
  <2> QED BY <2>1, <2>2, <2>3
<1>15. mv \in [d.bitmap -> 0 .. n - 1]
  <2>1. \A j \in d.bitmap : (IF gap < j /\ j <= to THEN j - 1 ELSE j) \in 0 .. n - 1
    BY <1>14
  <2> QED BY <2>1, <1>13
<1>16. \A i, j \in d.bitmap : i < j => mv[i] < mv[j]
  <2> TAKE i, j \in d.bitmap
  <2> HAVE i < j
  <2>1. /\ mv[i] = IF gap < i /\ i <= to THEN i - 1 ELSE i
        /\ mv[j] = IF gap < j /\ j <= to THEN j - 1 ELSE j
        /\ i \in Int /\ j \in Int /\ i # gap
    BY <1>14
  <2> QED BY <2>1, <1>1, <1>a
<1>17. \A j \in d.bitmap : mv[j] \in d1.bitmap
  <2> TAKE j \in d.bitmap
  <2>1. CASE gap < j /\ j <= to
    <3>1. mv[j] = j - 1 /\ (j - 1 = gap \/ j - 1 \in gap + 1 .. to)
      BY <2>1, <1>1, <1>a, <1>14
    <3> QED BY <3>1, <1>3, <1>a
  <2>2. CASE ~(gap < j /\ j <= to)
    BY <2>2, <1>3, <1>14
  <2> QED BY <2>1, <2>2
<1>18. \A x \in d1.bitmap : x # to => x \in {mv[j] : j \in d.bitmap}
  <2> TAKE x \in d1.bitmap
  <2> HAVE x # to
  <2>0. x \in 0 .. n - 1
    BY <1>1, <1>3
  <2>1. CASE gap <= x /\ x < to
    <3>1. x + 1 \in d.bitmap /\ gap < x + 1 /\ x + 1 <= to /\ (x + 1) - 1 = x
      BY <2>0, <2>1, <1>1, <1>a
    <3>2. mv[x + 1] = x
      BY <3>1, <1>14
    <3> QED BY <3>1, <3>2
  <2>2. CASE ~(gap <= x /\ x < to)
    <3>1. x # gap /\ ~(gap < x /\ x <= to)
      BY <2>0, <2>2, <1>1, <1>a
    <3>2. x \in d.bitmap
      BY <3>1, <1>3
    <3>3. mv[x] = x
      BY <3>1, <3>2, <1>14
    <3> QED BY <3>2, <3>3
  <2> QED BY <2>1, <2>2
<1>19. d1.bitmap \cup {to} = {mv[j] : j \in d.bitmap} \cup {to}
  BY <1>17, <1>18
<1>20. \A j \in d.bitmap : /\ d1.key_slots[mv[j]] = d.key_slots[j]
                           /\ d1.payload_slots[mv[j]] = d.payload_slots[j]
  BY <1>3, <1>14
<1>21. MadeWay(d, d1, n, mv, to)
  BY <1>14, <1>15, <1>16, <1>17, <1>19, <1>20 DEF MadeWay
<1> QED BY <1>12, <1>21

(* Counting the new entry completes the insert.                            *)
LEMMA GrownIs ==
  ASSUME NEW d, NEW n, HotNode(d, n), d.num_keys < MaxKeys, NEW k \in Keys, NEW p \in Payloads,
         NEW x, Arrays(x, n), Gapped(x, n), NEW mv, NEW to, Moved(d, x, n, mv, to, k, p),
         x.num_keys = d.num_keys, x.expansion_threshold = d.expansion_threshold,
         NEW e, e = [x EXCEPT !.num_keys = @ + 1]
  PROVE  HotNode(e, n) /\ Contents(e) = AfterInsert(Contents(d), k, p)
<1>1. /\ Arrays(d, n) /\ Gapped(d, n) /\ Cardinality(d.bitmap) = d.num_keys
      /\ d.expansion_threshold <= n * 10 /\ d.num_keys \in Nat
  BY DEF HotNode, Counted, Arrays
<1>2. Arrays(e, n)
  <2>1. PICK nk : nk = x.num_keys + 1
    OBVIOUS
  <2>2. nk \in Nat /\ e = [x EXCEPT !.num_keys = nk]
    BY <2>1 DEF Arrays
  <2> QED BY <2>2 DEF Arrays
<1>3. /\ e.key_slots = x.key_slots /\ e.payload_slots = x.payload_slots /\ e.bitmap = x.bitmap
      /\ e.num_keys = x.num_keys + 1 /\ e.expansion_threshold = x.expansion_threshold
  BY DEF Arrays
<1>4. Gapped(e, n)
  BY <1>3 DEF Gapped
<1>5. Moved(d, e, n, mv, to, k, p)
  <2>1. \A j : EntryAt(e, j) = EntryAt(x, j)
    BY <1>3 DEF EntryAt
  <2> QED BY <2>1, <1>3 DEF Moved
<1>6. Contents(e) = AfterInsert(Contents(d), k, p) /\ Cardinality(e.bitmap) = Cardinality(d.bitmap) + 1
  BY <1>1, <1>2, <1>5, MovedIs
<1>7. e.num_keys <= MaxKeys
  BY <1>1, <1>3, BoundsAssumption
<1>8. Counted(e, n)
  BY <1>1, <1>3, <1>6, <1>7 DEF Counted
<1> QED BY <1>2, <1>4, <1>6, <1>8 DEF HotNode

(* insert into a leaf that has room.                                       *)
LEMMA InsertedIs ==
  ASSUME NEW d, NEW n, HotNode(d, n), d.num_keys < n, d.num_keys < MaxKeys,
         NEW k \in Keys, NEW p \in Payloads, NEW m \in 0 .. n - 1,
         NEW e, e = InsertedAt(d, k, p, find_insert_position(d, m, k))
  PROVE  HotNode(e, n) /\ Contents(e) = AfterInsert(Contents(d), k, p)
<1>1. /\ Arrays(d, n) /\ Gapped(d, n) /\ data_capacity(d) = n /\ n \in Nat /\ n >= 1
      /\ d.bitmap \in SUBSET (0 .. n - 1)
  BY ArraysIs DEF HotNode, Arrays
<1>2. PICK pos : pos = find_insert_position(d, m, k)
  OBVIOUS
<1>a. PICK u : Position(d, n, k, u, pos)
  BY <1>1, <1>2, PositionIs
<1>3. Bound(d, n, u, k) /\ (FreeFrom(d, n, u, pos) \/ (pos = u /\ (u = n \/ u \in d.bitmap)))
  BY <1>a DEF Position
<1>4. u \in 0 .. n
  BY <1>3 DEF Bound
<1>5. PICK x : x = IF pos < n /\ pos \notin d.bitmap THEN InsertElementAt(d, k, p, pos)
                   ELSE InsertUsingShifts(d, k, p, pos)
  OBVIOUS
<1>6. e = [x EXCEPT !.num_keys = @ + 1]
  BY <1>1, <1>2, <1>5 DEF InsertedAt, check_exists
<1>7. CASE FreeFrom(d, n, u, pos)
  <2>1. pos \in 0 .. n - 1 /\ pos < n /\ pos \notin d.bitmap
    <3>1. pos \in 0 .. n - 1 /\ u <= pos /\ \A j \in u .. pos : j \notin d.bitmap
      BY <1>7 DEF FreeFrom
    <3>2. pos \in u .. pos
      BY <3>1, <1>4, <1>1
    <3> QED BY <3>1, <3>2, <1>1
  <2>2. x = InsertElementAt(d, k, p, pos)
    BY <2>1, <1>5
  <2>3. Ready(d, n, pos, k) /\ \E mv : MadeWay(d, d, n, mv, pos)
    BY <1>1, <1>3, <1>7, FreeSlot
  <2>4. PICK mv : MadeWay(d, d, n, mv, pos)
    BY <2>3
  <2>5. Element(d, x, n, k, p, pos)
    BY <1>1, <2>1, <2>2, ElementIs
  <2>6. Gapped(x, n)
    BY <1>1, <2>2, <2>3, ElementGapped
  <2>7. Moved(d, x, n, mv, pos, k, p)
    BY <1>1, <2>2, <2>3, <2>4, ElementMoved
  <2>8. Arrays(x, n) /\ x.num_keys = d.num_keys /\ x.expansion_threshold = d.expansion_threshold
    BY <2>5 DEF Element
  <2> QED BY <1>6, <2>6, <2>7, <2>8, GrownIs
<1>8. CASE pos = u /\ (u = n \/ u \in d.bitmap)
  <2>1. x = InsertUsingShifts(d, k, p, u)
    <3>1. ~(u < n /\ u \notin d.bitmap)
      BY <1>8, <1>1
    <3> QED BY <3>1, <1>5, <1>8
  <2>2. PICK gap : gap = closest_gap(d, u)
    OBVIOUS
  <2>3. PICK c : c = Smaller(u, n - 1)
    OBVIOUS
  <2>4. c \in 0 .. n - 1 /\ c = IF u = n THEN n - 1 ELSE u
    BY <2>3, <1>1, <1>4 DEF Smaller
  <2>5. Gaps(d, n) # {}
    BY RoomIs
  <2>6. Closest(d, n, c, gap)
    BY <1>1, <1>4, <2>2, <2>3, <2>5, ClosestGapIs
  <2>7. gap \in 0 .. n - 1 /\ gap \notin d.bitmap
        /\ \A j \in 0 .. n - 1 : j \notin d.bitmap => Far(c, gap) <= Far(c, j)
    BY <2>6 DEF Closest, Gaps
  <2>8. gap # u
    BY <2>7, <1>8, <1>1
  <2>9. PICK to : to = IF gap >= u THEN u ELSE u - 1
    OBVIOUS
  <2>10. to \in 0 .. n - 1 /\ u \in Int
    BY <2>7, <2>8, <2>9, <1>1, <1>4
  <2>11. PICK d1 : Shifted(d, d1, n, to, gap) /\ x = InsertElementAt(d1, k, p, to)
    BY <1>1, <2>1, <2>2, <2>7, <2>9, <2>10, ShiftedIs
  <2>12. Ready(d1, n, to, k) /\ \E mv : MadeWay(d, d1, n, mv, to)
    <3>1. CASE gap > u
      <4>1. to = u /\ u \in 0 .. n - 1 /\ c = u
        BY <3>1, <2>4, <2>7, <2>9, <1>1, <1>4
      <4>2. \A j \in u .. gap - 1 : j \in d.bitmap
        <5> SUFFICES ASSUME NEW j \in u .. gap - 1, j \notin d.bitmap PROVE FALSE
          OBVIOUS
        <5>1. j \in 0 .. n - 1 /\ Far(c, j) = j - u /\ Far(c, gap) = gap - u
          BY <4>1, <3>1, <2>7, <1>1 DEF Far
        <5>2. gap - u <= j - u
          BY <5>1, <2>7
        <5> QED BY <5>1, <5>2, <4>1, <2>7
      <4> QED BY <1>1, <1>3, <2>7, <2>11, <3>1, <4>1, <4>2, ShiftRight
    <3>2. CASE gap < u
      <4>1. to = u - 1
        BY <3>2, <2>7, <2>9, <1>4
      <4>2. \A j \in gap + 1 .. u - 1 : j \in d.bitmap
        <5> SUFFICES ASSUME NEW j \in gap + 1 .. u - 1, j \notin d.bitmap PROVE FALSE
          OBVIOUS
        <5>1. j \in 0 .. n - 1 /\ gap < c /\ j <= c
          BY <3>2, <2>4, <2>7, <1>4, <1>1
        <5>2. Far(c, j) = c - j /\ Far(c, gap) = c - gap
          BY <5>1, <2>4, <2>7, <1>1 DEF Far
        <5>3. c - gap <= c - j
          BY <5>1, <5>2, <2>7
        <5> QED BY <5>1, <5>3, <2>4, <2>7
      <4> QED BY <1>1, <1>3, <2>7, <2>11, <3>2, <4>1, <4>2, ShiftLeft
    <3> QED BY <3>1, <3>2, <2>7, <2>8, <1>4
  <2>13. PICK mv : MadeWay(d, d1, n, mv, to)
    BY <2>12
  <2>14. Arrays(d1, n) /\ d1.num_keys = d.num_keys /\ d1.expansion_threshold = d.expansion_threshold
    BY <2>11 DEF Shifted
  <2>15. Element(d1, x, n, k, p, to)
    BY <2>10, <2>11, <2>14, ElementIs
  <2>16. Gapped(x, n)
    BY <2>11, <2>12, <2>14, ElementGapped
  <2>17. Moved(d, x, n, mv, to, k, p)
    BY <1>1, <2>11, <2>12, <2>13, <2>14, ElementMoved
  <2>18. Arrays(x, n) /\ x.num_keys = d.num_keys /\ x.expansion_threshold = d.expansion_threshold
    BY <2>14, <2>15 DEF Element
  <2> QED BY <1>6, <2>16, <2>17, <2>18, GrownIs
<1> QED BY <1>3, <1>7, <1>8

-----------------------------------------------------------------------------
(* Entries taken out.                                                      *)

(* What erase, erase_range and erase_one leave before they contract.       *)
Left(d, S, next) ==
  [d EXCEPT !.key_slots = [j \in Positions(d) |-> IF j \in S THEN next ELSE @[j]],
            !.payload_slots = [j \in Positions(d) |-> IF j \in S THEN NoPayload ELSE @[j]],
            !.bitmap = @ \ S,
            !.num_keys = @ - Cardinality(S \cap d.bitmap)]

(* The positions a .. b - 1, up to the next entry or the end, with key     *)
(* next there, and nothing left to the run that would have to repeat it.   *)
Run(d, n, S, next, a, b) ==
  /\ a \in 0 .. n /\ b \in 0 .. n /\ a < b /\ S = a .. b - 1
  /\ next = IF b = n THEN kEndSentinel ELSE d.key_slots[b]
  /\ a > 0 => a - 1 \in d.bitmap

(* An erase of a run leaves the arrays in shape and the other entries      *)
(* where they are.                                                         *)
LEMMA LeftIs ==
  ASSUME NEW d, NEW n, HotNode(d, n), NEW S, NEW next, NEW a, NEW b, Run(d, n, S, next, a, b),
         NEW e, e = Left(d, S, next)
  PROVE  /\ HotNode(e, n) /\ e.bitmap = d.bitmap \ S
         /\ \A j \in e.bitmap : EntryAt(e, j) = EntryAt(d, j)
<1>1. /\ Positions(d) = 0 .. n - 1 /\ n \in Nat /\ n >= 1 /\ Arrays(d, n) /\ Gapped(d, n)
      /\ Cardinality(d.bitmap) = d.num_keys /\ d.num_keys <= MaxKeys /\ d.expansion_threshold <= n * 10
      /\ d.num_keys \in Nat /\ d.bitmap \in SUBSET (0 .. n - 1) /\ IsFiniteSet(d.bitmap)
      /\ \A j \in 0 .. n - 1 : d.key_slots[j] \in Nat
  BY ArraysIs DEF HotNode, Counted, Arrays
<1>2. /\ a \in 0 .. n /\ b \in 0 .. n /\ a < b /\ S = a .. b - 1
      /\ next = IF b = n THEN kEndSentinel ELSE d.key_slots[b]
      /\ a > 0 => a - 1 \in d.bitmap
  BY DEF Run
<1>a. b # n => b \in 0 .. n - 1
  BY <1>1, <1>2
<1>3. next \in Keys \cup {kEndSentinel} /\ next \in Nat
  <2>1. b # n => d.key_slots[b] \in Keys \cup {kEndSentinel}
    BY <1>a DEF HotNode, Arrays
  <2> QED BY <2>1, <1>2, KeysAssumption
<1>4. PICK ks : ks = [j \in 0 .. n - 1 |-> IF j \in S THEN next ELSE d.key_slots[j]]
  OBVIOUS
<1>5. PICK ps : ps = [j \in 0 .. n - 1 |-> IF j \in S THEN NoPayload ELSE d.payload_slots[j]]
  OBVIOUS
<1>6. PICK nk : nk = d.num_keys - Cardinality(S \cap d.bitmap)
  OBVIOUS
<1>7. e = [d EXCEPT !.key_slots = ks, !.payload_slots = ps, !.bitmap = d.bitmap \ S, !.num_keys = nk]
  BY <1>1, <1>4, <1>5, <1>6 DEF Left
<1>8. Cardinality(d.bitmap \ S) = nk /\ nk \in Nat /\ nk <= d.num_keys
  <2>1. Cardinality(d.bitmap \ S) = Cardinality(d.bitmap) - Cardinality(d.bitmap \cap S)
    BY <1>1, FS_Difference
  <2>2. IsFiniteSet(d.bitmap \ S) /\ Cardinality(d.bitmap \ S) <= Cardinality(d.bitmap)
    BY <1>1, FS_Subset
  <2>3. Cardinality(d.bitmap \ S) \in Nat
    BY <2>2, FS_CardinalityType
  <2>4. d.bitmap \cap S = S \cap d.bitmap
    OBVIOUS
  <2> QED BY <2>1, <2>2, <2>3, <2>4, <1>1, <1>6
<1>9. /\ d.key_slots \in [0 .. n - 1 -> Keys \cup {kEndSentinel}]
      /\ d.payload_slots \in [0 .. n - 1 -> Payloads \cup {NoPayload}]
  BY <1>1 DEF Arrays
<1>10. ks \in [0 .. n - 1 -> Keys \cup {kEndSentinel}] /\ ps \in [0 .. n - 1 -> Payloads \cup {NoPayload}]
  BY <1>3, <1>4, <1>5, <1>9
<1>11. d.bitmap \ S \in SUBSET (0 .. n - 1)
  BY <1>1
<1>12. Arrays(e, n)
  BY <1>1, <1>7, <1>8, <1>10, <1>11 DEF Arrays
<1>13. /\ e.key_slots = ks /\ e.payload_slots = ps /\ e.bitmap = d.bitmap \ S /\ e.num_keys = nk
       /\ e.expansion_threshold = d.expansion_threshold
  BY <1>1, <1>7 DEF Arrays
<1>14. Counted(e, n)
  BY <1>1, <1>8, <1>13, BoundsAssumption DEF Counted
<1>15. \A j \in 0 .. n - 1 : /\ ks[j] = IF j \in S THEN next ELSE d.key_slots[j]
                             /\ ps[j] = IF j \in S THEN NoPayload ELSE d.payload_slots[j]
                             /\ j \in S <=> a <= j /\ j < b
  BY <1>2, <1>4, <1>5
<1>16. /\ \A i, j \in 0 .. n - 1 : i <= j => d.key_slots[i] <= d.key_slots[j]
       /\ \A j \in 0 .. n - 1 : j \notin d.bitmap =>
            d.key_slots[j] = IF j = n - 1 THEN kEndSentinel ELSE d.key_slots[j + 1]
       /\ \A j \in d.bitmap : d.key_slots[j] \in Keys /\ d.payload_slots[j] \in Payloads
  BY <1>1 DEF Gapped
<1>17. \A j \in 0 .. n - 1 : d.key_slots[j] <= kEndSentinel /\ kEndSentinel \in Nat
  <2> TAKE j \in 0 .. n - 1
  <2>1. d.key_slots[j] \in Keys \cup {kEndSentinel}
    BY <1>9
  <2>2. \A x \in Keys : x \in Nat /\ x < kEndSentinel
    BY KeysAssumption
  <2>3. kEndSentinel \in Nat
    BY KeysAssumption
  <2> QED BY <2>1, <2>2, <2>3
<1>18. \A j \in 0 .. n - 1 : (j < b => d.key_slots[j] <= next) /\ (j >= b => next <= d.key_slots[j])
  <2> TAKE j \in 0 .. n - 1
  <2>1. CASE b = n
    BY <2>1, <1>2, <1>17, <1>1
  <2>2. CASE b # n
    <3>1. next = d.key_slots[b] /\ b \in 0 .. n - 1
      BY <2>2, <1>2, <1>a
    <3>2. (j < b => j <= b) /\ (j >= b => b <= j)
      BY <3>1
    <3> QED BY <3>1, <3>2, <1>16
  <2> QED BY <2>1, <2>2
<1>19. \A i, j \in 0 .. n - 1 : i <= j => ks[i] <= ks[j]
  <2> TAKE i, j \in 0 .. n - 1
  <2> HAVE i <= j
  <2>1. CASE i \in S /\ j \in S
    BY <2>1, <1>15, <1>3
  <2>2. CASE i \notin S /\ j \notin S
    BY <2>2, <1>15, <1>16
  <2>3. CASE i \in S /\ j \notin S
    <3>1. j >= b
      BY <2>3, <1>15, <1>2
    <3> QED BY <3>1, <2>3, <1>15, <1>18
  <2>4. CASE i \notin S /\ j \in S
    <3>1. i < b
      BY <2>4, <1>15, <1>2
    <3> QED BY <3>1, <2>4, <1>15, <1>18
  <2> QED BY <2>1, <2>2, <2>3, <2>4
<1>20. \A j \in 0 .. n - 1 : j \notin d.bitmap \ S => ks[j] = IF j = n - 1 THEN kEndSentinel ELSE ks[j + 1]
  <2> TAKE j \in 0 .. n - 1
  <2> HAVE j \notin d.bitmap \ S
  <2>0. j # n - 1 => j + 1 \in 0 .. n - 1
    BY <1>1
  <2>1. CASE j \in S
    <3>1. ks[j] = next /\ a <= j /\ j < b
      BY <2>1, <1>15
    <3>2. CASE j + 1 = b
      <4>1. b # n => j # n - 1 /\ j + 1 \notin S
        BY <3>2, <1>1, <1>15, <1>2
      <4>2. b = n => j = n - 1
        BY <3>2, <1>1
      <4> QED BY <4>1, <4>2, <3>1, <3>2, <2>0, <1>2, <1>15
    <3>3. CASE j + 1 # b
      <4>1. j + 1 \in 0 .. n - 1 /\ j # n - 1 /\ j + 1 \in S
        BY <3>1, <3>3, <1>1, <1>2
      <4> QED BY <4>1, <3>1, <1>15
    <3> QED BY <3>2, <3>3
  <2>2. CASE j \notin S
    <3>1. j \notin d.bitmap
      BY <2>2
    <3>2. j # n - 1 => j + 1 \notin S
      <4>1. j + 1 \in S => j + 1 = a
        BY <2>0, <2>2, <1>2
      <4>2. j + 1 = a => a > 0 /\ a - 1 = j
        BY <1>2
      <4> QED BY <4>1, <4>2, <3>1, <1>2
    <3> QED BY <2>0, <2>2, <3>1, <3>2, <1>15, <1>16
  <2> QED BY <2>1, <2>2
<1>21. \A j \in d.bitmap \ S : ks[j] = d.key_slots[j] /\ ps[j] = d.payload_slots[j]
  BY <1>1, <1>15
<1>22. Gapped(e, n)
  BY <1>13, <1>16, <1>19, <1>20, <1>21 DEF Gapped
<1>23. \A j \in e.bitmap : EntryAt(e, j) = EntryAt(d, j)
  BY <1>13, <1>21 DEF EntryAt
<1> QED BY <1>12, <1>13, <1>14, <1>22, <1>23 DEF HotNode

(* The entries at some of the positions are all but those in K, when these *)
(* are the positions of entries that are not in K.                         *)
LEMMA ContentsWithout ==
  ASSUME NEW d, NEW n, Arrays(d, n), Gapped(d, n), NEW B \in SUBSET d.bitmap,
         NEW M, NEW g, Lists(g, M, B), NEW E, EntriesAt(E, d, g, M),
         NEW K, \A j \in d.bitmap : j \in B <=> EntryAt(d, j) \notin K
  PROVE  Omit(Contents(d), K) = E
<1>a. /\ M \in Nat /\ g \in [1 .. M -> B] /\ \A i, j \in 1 .. M : i < j => g[i] < g[j]
      /\ \A x \in B : \E i \in 1 .. M : g[i] = x
      /\ E \in Seq(Entry) /\ Len(E) = M /\ \A i \in 1 .. M : E[i] = EntryAt(d, g[i])
  BY DEF Lists, EntriesAt
<1> DEFINE at == Ordered(d.bitmap)
           N == Cardinality(d.bitmap)
           C == Contents(d)
<1>1. /\ N \in Nat /\ at \in [1 .. N -> d.bitmap] /\ \A i, j \in 1 .. N : i < j => at[i] < at[j]
      /\ \A x \in d.bitmap : \E i \in 1 .. N : at[i] = x
      /\ C = [i \in 1 .. N |-> EntryAt(d, at[i])]
      /\ C \in Seq(Entry) /\ Len(C) = N
  BY ContentsAre
<1> HIDE DEF at, N, C
<1>0. d.bitmap \in SUBSET Nat
  BY ArraysIs
<1>2. PICK f : f = [i \in 1 .. M |-> CHOOSE x \in 1 .. N : at[x] = g[i]]
  OBVIOUS
<1>3. \A i \in 1 .. M : f[i] \in 1 .. N /\ at[f[i]] = g[i] /\ g[i] \in B /\ g[i] \in d.bitmap
  <2> TAKE i \in 1 .. M
  <2>1. g[i] \in B /\ g[i] \in d.bitmap
    BY <1>a
  <2>2. \E x \in 1 .. N : at[x] = g[i]
    BY <2>1, <1>1
  <2>3. f[i] = CHOOSE x \in 1 .. N : at[x] = g[i]
    BY <1>2
  <2> QED BY <2>1, <2>2, <2>3
<1>4. \A i \in 1 .. N : C[i] = EntryAt(d, at[i]) /\ at[i] \in Nat
  BY <1>0, <1>1
<1>5. \A i, j \in 1 .. M : i < j => f[i] < f[j]
  <2> TAKE i, j \in 1 .. M
  <2> HAVE i < j
  <2>1. at[f[i]] < at[f[j]] /\ f[i] \in 1 .. N /\ f[j] \in 1 .. N
    BY <1>3, <1>a
  <2>2. f[j] < f[i] => at[f[j]] < at[f[i]]
    BY <2>1, <1>1
  <2>3. at[f[i]] \in Nat /\ at[f[j]] \in Nat
    BY <2>1, <1>4
  <2>4. f[i] # f[j]
    BY <2>1, <2>3
  <2> QED BY <2>1, <2>2, <2>3, <2>4, <1>1
<1>6. \A i \in 1 .. M : C[f[i]] = EntryAt(d, g[i]) /\ EntryAt(d, g[i]) \notin K
  BY <1>3, <1>4
<1>7. \A x \in 1 .. N : C[x] \notin K => \E i \in 1 .. M : f[i] = x
  <2> TAKE x \in 1 .. N
  <2> HAVE C[x] \notin K
  <2>1. at[x] \in d.bitmap /\ EntryAt(d, at[x]) \notin K
    BY <1>1, <1>4
  <2>2. at[x] \in B
    BY <2>1
  <2>3. PICK i \in 1 .. M : g[i] = at[x]
    BY <2>2, <1>a
  <2>4. at[f[i]] = at[x] /\ f[i] \in 1 .. N /\ at[x] \in Nat
    BY <2>3, <1>3, <1>4
  <2>5. ~(f[i] < x) /\ ~(x < f[i])
    <3>1. f[i] < x => at[f[i]] < at[x]
      BY <2>4, <1>1
    <3>2. x < f[i] => at[x] < at[f[i]]
      BY <2>4, <1>1
    <3> QED BY <3>1, <3>2, <2>4
  <2>6. f[i] = x
    BY <2>4, <2>5, <1>1
  <2> QED BY <2>6
<1>8. DOMAIN f = 1 .. M /\ \A i \in 1 .. M : f[i] \in 1 .. Len(C) /\ C[f[i]] \notin K
  BY <1>1, <1>2, <1>3, <1>6
<1>9. Leaves(f, M, C, K)
  BY <1>1, <1>5, <1>7, <1>8 DEF Leaves
<1>10. \A i \in 1 .. M : E[i] = C[f[i]]
  BY <1>6, <1>a
<1>11. Omit(C, K) = E
  <2>1. C \in Seq(Entry) /\ M \in Nat /\ E \in Seq(Entry) /\ Len(E) = M
    BY <1>1, <1>a
  <2> QED BY <2>1, <1>9, <1>10, OmitUnique
<1> QED BY <1>11 DEF C

(* e keeps the entries of d at the positions of its bitmap.                *)
Keeps(d, e, n) ==
  /\ Arrays(d, n) /\ Gapped(d, n) /\ Arrays(e, n) /\ Gapped(e, n)
  /\ e.bitmap \in SUBSET d.bitmap /\ \A j \in e.bitmap : EntryAt(e, j) = EntryAt(d, j)

(* What is left of the contents when the entries erased are those in K.    *)
LEMMA ErasedContents ==
  ASSUME NEW d, NEW e, NEW n, Keeps(d, e, n),
         NEW K, \A j \in d.bitmap : j \in e.bitmap <=> EntryAt(d, j) \notin K
  PROVE  Contents(e) = Omit(Contents(d), K)
<1>1. /\ Arrays(d, n) /\ Gapped(d, n) /\ Arrays(e, n) /\ Gapped(e, n)
      /\ e.bitmap \in SUBSET d.bitmap /\ \A j \in e.bitmap : EntryAt(e, j) = EntryAt(d, j)
  BY DEF Keeps
<1> DEFINE g == Ordered(e.bitmap)
           M == Cardinality(e.bitmap)
           E == Contents(e)
<1>2. /\ M \in Nat /\ g \in [1 .. M -> e.bitmap] /\ \A i, j \in 1 .. M : i < j => g[i] < g[j]
      /\ \A x \in e.bitmap : \E i \in 1 .. M : g[i] = x
      /\ E = [i \in 1 .. M |-> EntryAt(e, g[i])]
      /\ E \in Seq(Entry) /\ Len(E) = M
  BY <1>1, ContentsAre
<1> HIDE DEF g, M, E
<1>3. \A i \in 1 .. M : E[i] = EntryAt(d, g[i])
  BY <1>1, <1>2
<1>4. PICK B : B = e.bitmap
  OBVIOUS
<1>5. /\ B \in SUBSET d.bitmap /\ g \in [1 .. M -> B] /\ \A x \in B : \E i \in 1 .. M : g[i] = x
      /\ \A j \in d.bitmap : j \in B <=> EntryAt(d, j) \notin K
  BY <1>1, <1>2, <1>4
<1>b. Lists(g, M, B) /\ EntriesAt(E, d, g, M)
  BY <1>2, <1>3, <1>5 DEF Lists, EntriesAt
<1>6. Omit(Contents(d), K) = E
  BY <1>1, <1>5, <1>b, ContentsWithout
<1> QED BY <1>6 DEF E

(* The entries between two positions.                                      *)
LEMMA SideContents ==
  ASSUME NEW d, NEW n, Arrays(d, n), Gapped(d, n), NEW left \in Int, NEW right \in Int,
         NEW K, \A j \in d.bitmap : j \in Between(d, left, right) <=> EntryAt(d, j) \notin K
  PROVE  EntriesIn(d, left, right) = Omit(Contents(d), K)
<1> DEFINE g == Ordered(Between(d, left, right))
           M == Cardinality(Between(d, left, right))
           E == EntriesIn(d, left, right)
<1>2. /\ M \in Nat /\ g \in [1 .. M -> Between(d, left, right)] /\ \A i, j \in 1 .. M : i < j => g[i] < g[j]
      /\ \A x \in Between(d, left, right) : \E i \in 1 .. M : g[i] = x
      /\ E = [i \in 1 .. M |-> EntryAt(d, g[i])]
      /\ E \in Seq(Entry) /\ Len(E) = M
  BY EntriesAre
<1> HIDE DEF g, M, E
<1>3. \A i \in 1 .. M : E[i] = EntryAt(d, g[i])
  BY <1>2
<1>4. PICK B : B = Between(d, left, right)
  OBVIOUS
<1>5. /\ B \in SUBSET d.bitmap /\ g \in [1 .. M -> B] /\ \A x \in B : \E i \in 1 .. M : g[i] = x
      /\ \A j \in d.bitmap : j \in B <=> EntryAt(d, j) \notin K
  BY <1>2, <1>4 DEF Between
<1>b. Lists(g, M, B) /\ EntriesAt(E, d, g, M)
  BY <1>2, <1>3, <1>5 DEF Lists, EntriesAt
<1>6. Omit(Contents(d), K) = E
  BY <1>5, <1>b, ContentsWithout
<1> QED BY <1>6 DEF E

(* One entry taken out.                                                    *)
OneOut(s, k, r) ==
  \E a \in DOMAIN s :
    /\ s[a].key = k /\ \A b \in 1 .. a - 1 : s[b].key # k
    /\ r = SubSeq(s, 1, a - 1) \o SubSeq(s, a + 1, Len(s))

(* What is left of the contents when one entry, the first with its key, is *)
(* erased.                                                                 *)
LEMMA OneOutContents ==
  ASSUME NEW d, NEW e, NEW n, Keeps(d, e, n), NEW k, NEW pos \in d.bitmap, d.key_slots[pos] = k,
         \A j \in d.bitmap : j < pos => d.key_slots[j] # k, e.bitmap = d.bitmap \ {pos}
  PROVE  OneOut(Contents(d), k, Contents(e))
<1>1. /\ Arrays(d, n) /\ Gapped(d, n) /\ Arrays(e, n) /\ Gapped(e, n)
      /\ e.bitmap \in SUBSET d.bitmap /\ \A j \in e.bitmap : EntryAt(e, j) = EntryAt(d, j)
  BY DEF Keeps
<1> DEFINE at == Ordered(d.bitmap)
           N == Cardinality(d.bitmap)
           C == Contents(d)
<1>2. /\ N \in Nat /\ at \in [1 .. N -> d.bitmap] /\ \A i, j \in 1 .. N : i < j => at[i] < at[j]
      /\ \A x \in d.bitmap : \E i \in 1 .. N : at[i] = x
      /\ C = [i \in 1 .. N |-> EntryAt(d, at[i])]
      /\ C \in Seq(Entry) /\ Len(C) = N
  BY <1>1, ContentsAre
<1> HIDE DEF at, N, C
<1>0. d.bitmap \in SUBSET Nat
  BY <1>1, ArraysIs
<1>3. PICK a \in 1 .. N : at[a] = pos
  BY <1>2
<1>4. a \in Nat /\ a >= 1 /\ a <= N
  BY <1>2
<1>5. \A i \in 1 .. N : C[i] = EntryAt(d, at[i]) /\ C[i] \in Entry /\ at[i] \in d.bitmap /\ at[i] \in Nat
  BY <1>0, <1>2
<1>6. C[a].key = k /\ \A b \in 1 .. a - 1 : C[b].key # k
  <2>1. C[a].key = k
    <3>1. C[a] = EntryAt(d, pos)
      BY <1>3, <1>5
    <3> QED BY <3>1 DEF EntryAt
  <2>2. ASSUME NEW b \in 1 .. a - 1 PROVE C[b].key # k
    <3>1. b \in 1 .. N /\ b < a
      BY <1>4, <1>2
    <3>2. at[b] < pos /\ at[b] \in d.bitmap /\ C[b] = EntryAt(d, at[b])
      BY <3>1, <1>2, <1>3, <1>5
    <3> QED BY <3>2 DEF EntryAt
  <2> QED BY <2>1, <2>2
<1>7. PICK x : x = SubSeq(C, 1, a - 1)
  OBVIOUS
<1>8. PICK y : y = SubSeq(C, a + 1, Len(C))
  OBVIOUS
<1>9. x \in Seq(Entry) /\ Len(x) = a - 1 /\ \A i \in 1 .. a - 1 : x[i] = C[i]
  BY <1>2, <1>4, <1>7
<1>10. y \in Seq(Entry) /\ Len(y) = N - a /\ \A i \in 1 .. N - a : y[i] = C[a + i]
  <2>1. y \in Seq(Entry) /\ Len(y) = N - a
    BY <1>2, <1>4, <1>8
  <2>2. \A i \in 1 .. N - a : y[i] = C[(a + 1) + i - 1]
    BY <1>2, <1>4, <1>8
  <2>3. \A i \in 1 .. N - a : (a + 1) + i - 1 = a + i
    BY <1>4
  <2> QED BY <2>1, <2>2, <2>3
<1>11. PICK r : r = x \o y
  OBVIOUS
<1>12. r \in Seq(Entry) /\ Len(r) = N - 1
  <2>1. x \in Seq(Entry) /\ y \in Seq(Entry)
    BY <1>9, <1>10
  <2>2. x \o y \in Seq(Entry) /\ Len(x \o y) = Len(x) + Len(y)
    BY <2>1
  <2>3. r \in Seq(Entry) /\ Len(r) = Len(x) + Len(y)
    BY <2>2, <1>11, Zenon
  <2> QED BY <2>3, <1>2, <1>4, <1>9, <1>10
<1>13. \A i \in 1 .. N - 1 : r[i] = IF i < a THEN C[i] ELSE C[i + 1]
  <2> TAKE i \in 1 .. N - 1
  <2>1. x \in Seq(Entry) /\ y \in Seq(Entry) /\ Len(x) = a - 1 /\ Len(y) = N - a
    BY <1>9, <1>10
  <2>2. CASE i < a
    <3>1. i \in 1 .. a - 1
      BY <2>2, <1>4
    <3>2. r[i] = x[i]
      BY <2>1, <3>1, <1>4, <1>11
    <3> QED BY <3>1, <3>2, <2>2, <1>9
  <2>3. CASE ~(i < a)
    <3>1. i - (a - 1) \in 1 .. N - a /\ a + (i - (a - 1)) = i + 1
      BY <2>3, <1>2, <1>4
    <3>2. r[i] = y[i - (a - 1)]
      BY <2>1, <2>3, <3>1, <1>2, <1>4, <1>11, SMTT(30)
    <3> QED BY <3>1, <3>2, <2>3, <1>10
  <2> QED BY <2>2, <2>3
<1>14. PICK f : f = [i \in 1 .. N - 1 |-> IF i < a THEN at[i] ELSE at[i + 1]]
  OBVIOUS
<1>15. \A i \in 1 .. N - 1 : i \in 1 .. N /\ i + 1 \in 1 .. N
  BY <1>2
<1>16. \A i \in 1 .. N - 1 : f[i] = IF i < a THEN at[i] ELSE at[i + 1]
  BY <1>14
<1>17. \A i \in 1 .. N - 1 : f[i] \in e.bitmap
  <2> TAKE i \in 1 .. N - 1
  <2>1. CASE i < a
    <3>1. at[i] < at[a] /\ at[i] \in d.bitmap /\ at[i] \in Nat
      BY <2>1, <1>2, <1>5, <1>15
    <3> QED BY <3>1, <2>1, <1>3, <1>16
  <2>2. CASE ~(i < a)
    <3>1. a < i + 1 /\ i + 1 \in 1 .. N
      BY <2>2, <1>4, <1>15
    <3>2. at[a] < at[i + 1] /\ at[i + 1] \in d.bitmap /\ at[i + 1] \in Nat
      BY <3>1, <1>2, <1>5
    <3> QED BY <3>2, <2>2, <1>3, <1>16
  <2> QED BY <2>1, <2>2
<1>18. f \in [1 .. N - 1 -> e.bitmap]
  <2>1. f = [i \in 1 .. N - 1 |-> f[i]]
    BY <1>14
  <2> QED BY <2>1, <1>17
<1>19. \A i, j \in 1 .. N - 1 : i < j => f[i] < f[j]
  <2> TAKE i, j \in 1 .. N - 1
  <2> HAVE i < j
  <2>1. /\ i < j + 1 /\ i + 1 < j + 1 /\ (j < a => i < a)
        /\ i \in 1 .. N /\ j \in 1 .. N /\ i + 1 \in 1 .. N /\ j + 1 \in 1 .. N
    BY <1>4, <1>15
  <2>2. at[i] < at[j] /\ at[i] < at[j + 1] /\ at[i + 1] < at[j + 1]
    BY <2>1, <1>2
  <2> QED BY <2>1, <2>2, <1>16
<1>20. \A z \in e.bitmap : \E i \in 1 .. N - 1 : f[i] = z
  <2> TAKE z \in e.bitmap
  <2>1. z \in d.bitmap /\ z # pos
    OBVIOUS
  <2>2. PICK i \in 1 .. N : at[i] = z
    BY <2>1, <1>2
  <2>3. i # a
    BY <2>1, <2>2, <1>3
  <2>4. CASE i < a
    <3>1. i \in 1 .. N - 1
      BY <2>4, <1>2, <1>4
    <3> QED BY <3>1, <2>2, <2>4, <1>16
  <2>5. CASE ~(i < a)
    <3>1. i - 1 \in 1 .. N - 1 /\ ~(i - 1 < a) /\ (i - 1) + 1 = i
      BY <2>3, <2>5, <1>2, <1>4
    <3> QED BY <3>1, <2>2, <1>16
  <2> QED BY <2>4, <2>5
<1>21. \A i \in 1 .. N - 1 : r[i] = EntryAt(e, f[i])
  <2> TAKE i \in 1 .. N - 1
  <2>1. r[i] = EntryAt(d, f[i])
    BY <1>5, <1>13, <1>15, <1>16
  <2> QED BY <2>1, <1>1, <1>17
<1>22. PICK M : M = N - 1
  OBVIOUS
<1>23. M \in Nat
  BY <1>2, <1>4, <1>22
<1>24. Contents(e) = r
  <2>1. f \in [1 .. M -> e.bitmap] /\ r \in Seq(Entry) /\ Len(r) = M /\ \A i \in 1 .. M : r[i] = EntryAt(e, f[i])
    BY <1>12, <1>18, <1>21, <1>22
  <2>2. \A i, j \in 1 .. M : i < j => f[i] < f[j]
    BY <1>19, <1>22
  <2>3. \A z \in e.bitmap : \E i \in 1 .. M : f[i] = z
    BY <1>20, <1>22
  <2>4. Lists(f, M, e.bitmap) /\ EntriesAt(r, e, f, M) /\ Arrays(e, n)
    BY <2>1, <2>2, <2>3, <1>1, <1>23 DEF Lists, EntriesAt
  <2> QED BY <2>4, ContentsUnique
<1>25. a \in DOMAIN C
  BY <1>2
<1>26. Contents(e) = SubSeq(C, 1, a - 1) \o SubSeq(C, a + 1, Len(C))
  BY <1>7, <1>8, <1>11, <1>24
<1> QED BY <1>6, <1>25, <1>26 DEF OneOut, C

(* What is erased is a run: all positions from the first slot not below    *)
(* start up to position b.                                                 *)
IsRun(d, n, S, next, b) == S = {} \/ \E a : Run(d, n, S, next, a, b)
NotBelow(d, S, b, start) == S = {j \in 0 .. b - 1 : \A h \in j .. b - 1 : d.key_slots[h] >= start}
NextKey(d, n, b) == IF b = n THEN kEndSentinel ELSE d.key_slots[b]
UpTo(d, n, S, start, b) == \A j \in 0 .. n - 1 : j \in S <=> d.key_slots[j] >= start /\ j < b

(* The positions an erase or a range erase collects leftwards from b are a *)
(* run, all those before b with such a key.                                *)
LEMMA RunIs ==
  ASSUME NEW d, NEW n, Arrays(d, n), Gapped(d, n), NEW b \in 0 .. n, NEW start \in Int,
         NEW S, NotBelow(d, S, b, start), S # {}, NEW next, next = NextKey(d, n, b)
  PROVE  IsRun(d, n, S, next, b) /\ UpTo(d, n, S, start, b)
<1>0. /\ S = {j \in 0 .. b - 1 : \A h \in j .. b - 1 : d.key_slots[h] >= start}
      /\ next = IF b = n THEN kEndSentinel ELSE d.key_slots[b]
  BY DEF NotBelow, NextKey
<1>1. n \in Nat /\ n >= 1 /\ \A j \in 0 .. n - 1 : d.key_slots[j] \in Nat
  BY ArraysIs
<1>2. PICK m : m = 0
  OBVIOUS
<1>3. m \in 0 .. n - 1
  BY <1>1, <1>2
<1>4. PICK a : a = lower_bound(d, m, start)
  OBVIOUS
<1>5. a \in 0 .. n /\ \A j \in 0 .. n - 1 : d.key_slots[j] < start <=> j < a
  BY <1>3, <1>4, BoundsAre
<1>6. \A j \in 0 .. n - 1 : d.key_slots[j] >= start <=> j >= a
  BY <1>1, <1>5
<1>7. \A j \in 0 .. b - 1 : j \in S <=> j >= a
  <2> TAKE j \in 0 .. b - 1
  <2>1. j \in S <=> \A h \in j .. b - 1 : d.key_slots[h] >= start
    BY <1>0
  <2>2. \A h \in j .. b - 1 : h \in 0 .. n - 1 /\ h >= j
    BY <1>1
  <2>3. j \in j .. b - 1 /\ j \in 0 .. n - 1
    BY <1>1
  <2>4. j >= a => \A h \in j .. b - 1 : d.key_slots[h] >= start
    BY <2>2, <1>5, <1>6
  <2>5. (\A h \in j .. b - 1 : d.key_slots[h] >= start) => j >= a
    BY <2>3, <1>6
  <2> QED BY <2>1, <2>4, <2>5
<1>8. \A j : j \in S => j \in 0 .. b - 1
  BY <1>0
<1>9. a < b
  <2>1. PICK j \in S : TRUE
    OBVIOUS
  <2>2. j \in 0 .. b - 1 /\ j >= a
    BY <2>1, <1>7, <1>8
  <2> QED BY <2>2, <1>5
<1>10. S = a .. b - 1
  <2>1. \A j : j \in a .. b - 1 => j \in 0 .. b - 1 /\ j >= a
    BY <1>5
  <2>2. \A j : j \in 0 .. b - 1 /\ j >= a => j \in a .. b - 1
    BY <1>5
  <2>3. \A j : j \in S <=> j \in a .. b - 1
    BY <2>1, <2>2, <1>7, <1>8
  <2> QED BY <2>3
<1>11. a > 0 => a - 1 \in d.bitmap
  <2> SUFFICES ASSUME a > 0 PROVE a - 1 \in d.bitmap
    OBVIOUS
  <2>1. a - 1 \in 0 .. n - 1 /\ (a - 1) + 1 = a /\ a \in 0 .. n - 1 /\ a - 1 < a /\ a >= a
    BY <1>5, <1>9, <1>1
  <2>2. d.key_slots[a - 1] < start /\ d.key_slots[a] >= start
    BY <2>1, <1>5, <1>6
  <2>3. d.key_slots[a - 1] < d.key_slots[a]
    BY <2>1, <2>2, <1>1
  <2>4. PICK i : i = a - 1
    OBVIOUS
  <2>5. i \in 0 .. n - 1 /\ i + 1 \in 0 .. n - 1 /\ d.key_slots[i] < d.key_slots[i + 1]
    BY <2>1, <2>3, <2>4
  <2>6. i \in d.bitmap
    BY <2>5, SlotsAre
  <2> QED BY <2>4, <2>6
<1>12. Run(d, n, S, next, a, b)
  BY <1>0, <1>5, <1>9, <1>10, <1>11 DEF Run
<1>13. \A j \in 0 .. n - 1 : j \in S <=> d.key_slots[j] >= start /\ j < b
  <2> TAKE j \in 0 .. n - 1
  <2>1. j < b <=> j \in 0 .. b - 1
    BY <1>1
  <2> QED BY <2>1, <1>6, <1>7, <1>8
<1> QED BY <1>12, <1>13 DEF IsRun, UpTo

(* The run of erase_one: a position and the gaps before it.                *)
OneOf(d, S, pos) == S = {pos} \cup GapsBefore(d, pos)

(* The position erase_one finds and the gaps before it are a run, with one *)
(* entry in it.                                                            *)
LEMMA OneRun ==
  ASSUME NEW d, NEW n, Arrays(d, n), Gapped(d, n), NEW pos \in 0 .. n - 1,
         NEW S, OneOf(d, S, pos), NEW b, b = pos + 1, NEW next, next = NextKey(d, n, b)
  PROVE  /\ IsRun(d, n, S, next, b)
         /\ \A j \in d.bitmap : j \in S => j = pos
<1>1. n \in Nat /\ n >= 1 /\ pos \in Nat /\ pos < n
  BY ArraysIs
<1>2. \A j : j \in S <=> j = pos \/ (j \in 0 .. pos - 1 /\ \A h \in j .. pos - 1 : h \notin d.bitmap)
  BY DEF OneOf, GapsBefore, check_exists
<1>3. S \in SUBSET Nat /\ pos \in S
  BY <1>1, <1>2
<1>4. PICK a : a = Min(S)
  OBVIOUS
<1>5. a \in S /\ \A j \in S : a <= j
  BY <1>3, <1>4, NatMinIs
<1>6. a \in Nat /\ a <= pos
  BY <1>3, <1>5
<1>7. \A h \in a .. pos - 1 : h \notin d.bitmap
  <2>1. CASE a = pos
    BY <2>1, <1>1
  <2>2. CASE a # pos
    BY <2>2, <1>2, <1>5
  <2> QED BY <2>1, <2>2
<1>8. S = a .. b - 1
  <2>1. \A j \in S : j \in a .. b - 1
    <3> TAKE j \in S
    <3>1. j \in Nat /\ a <= j /\ j <= pos
      BY <1>1, <1>2, <1>3, <1>5
    <3> QED BY <3>1, <1>1, <1>6
  <2>2. \A j \in a .. b - 1 : j \in S
    <3> TAKE j \in a .. b - 1
    <3>1. j = pos \/ j \in 0 .. pos - 1
      BY <1>1, <1>6
    <3>2. \A h \in j .. pos - 1 : h \in a .. pos - 1
      BY <1>1, <1>6
    <3> QED BY <3>1, <3>2, <1>2, <1>7
  <2> QED BY <2>1, <2>2
<1>9. a > 0 => a - 1 \in d.bitmap
  <2> SUFFICES ASSUME a > 0, a - 1 \notin d.bitmap PROVE FALSE
    OBVIOUS
  <2>1. a - 1 \in Int /\ ~(a <= a - 1)
    BY <1>6
  <2>2. a - 1 \notin S
    BY <2>1, <1>5
  <2>3. a - 1 \in 0 .. pos - 1
    BY <1>1, <1>6
  <2>4. \A h \in a - 1 .. pos - 1 : h = a - 1 \/ h \in a .. pos - 1
    BY <1>1, <1>6
  <2>5. \A h \in a - 1 .. pos - 1 : h \notin d.bitmap
    BY <2>4, <1>7
  <2> QED BY <2>2, <2>3, <2>5, <1>2
<1>10. Run(d, n, S, next, a, b)
  <2>1. a \in 0 .. n /\ b \in 0 .. n /\ a < b
    BY <1>1, <1>6
  <2> QED BY <2>1, <1>8, <1>9 DEF Run, NextKey
<1>11. \A j \in d.bitmap : j \in S => j = pos
  <2> TAKE j \in d.bitmap
  <2> HAVE j \in S
  <2>1. j \in 0 .. pos - 1 => j \in j .. pos - 1
    BY <1>1
  <2> QED BY <2>1, <1>2
<1> QED BY <1>10, <1>11 DEF IsRun

(* Nothing erased.                                                         *)
LEMMA NoneLeft ==
  ASSUME NEW d, NEW n, HotNode(d, n), NEW next
  PROVE  Left(d, {}, next) = d
<1>1. Positions(d) = 0 .. n - 1 /\ Arrays(d, n)
  BY ArraysIs DEF HotNode
<1>2. [j \in 0 .. n - 1 |-> IF j \in {} THEN next ELSE d.key_slots[j]] = d.key_slots
  BY <1>1 DEF Arrays
<1>3. [j \in 0 .. n - 1 |-> IF j \in {} THEN NoPayload ELSE d.payload_slots[j]] = d.payload_slots
  BY <1>1 DEF Arrays
<1>4. d.num_keys - Cardinality({} \cap d.bitmap) = d.num_keys
  <2>1. {} \cap d.bitmap = {} /\ Cardinality({}) = 0
    BY FS_EmptySet
  <2>2. d.num_keys \in Nat
    BY <1>1 DEF Arrays
  <2> QED BY <2>1, <2>2
<1>5. d.bitmap \ {} = d.bitmap
  OBVIOUS
<1>6. Left(d, {}, next) = [d EXCEPT !.key_slots = d.key_slots, !.payload_slots = d.payload_slots,
                                    !.bitmap = d.bitmap, !.num_keys = d.num_keys]
  BY <1>1, <1>2, <1>3, <1>4, <1>5 DEF Left
<1> QED BY <1>1, <1>6 DEF Arrays

-----------------------------------------------------------------------------
(* The steps.                                                              *)
IsLeaf(d) == d = Cold \/ HotNode(d, data_capacity(d))

(* A leaf is hot, with arrays in shape, or cold.                           *)
LEMMA HotIs ==
  ASSUME NEW d
  PROVE  /\ \A n : HotNode(d, n) => IsLeaf(d) /\ data_capacity(d) = n
         /\ IsLeaf(d) /\ ~d.is_cold => HotNode(d, data_capacity(d))
         /\ IsLeaf(d) /\ d.is_cold => d = Cold
<1>1. ASSUME NEW n, HotNode(d, n) PROVE IsLeaf(d) /\ data_capacity(d) = n /\ ~d.is_cold
  <2>1. data_capacity(d) = n /\ ~d.is_cold
    BY <1>1, ArraysIs DEF HotNode, Arrays
  <2> QED BY <1>1, <2>1 DEF IsLeaf
<1>2. Cold.is_cold
  BY DEF Cold
<1> QED BY <1>1, <1>2 DEF IsLeaf

(* What an erase has left is in the leaf afterwards.                       *)
LEMMA ErasedIs ==
  ASSUME NEW n, HotNode(node, n), NEW S, NEW next, NEW b,
         IsRun(node, n, S, next, b), Erase(S, next)
  PROVE  /\ IsLeaf(node')
         /\ \E e : /\ Keeps(node, e, n) /\ e.bitmap = node.bitmap \ S
                   /\ Contents(node') = Contents(e)
<1>1. PICK e : e = Left(node, S, next)
  OBVIOUS
<1>2. node' = e \/ node' \in Resized(e, kMaxDensity)
  BY <1>1, Zenon DEF Erase, Left
<1>3. /\ HotNode(e, n) /\ e.bitmap = node.bitmap \ S
      /\ \A j \in e.bitmap : EntryAt(e, j) = EntryAt(node, j)
  <2>1. CASE S = {}
    <3>1. e = node
      BY <2>1, <1>1, NoneLeft
    <3> QED BY <3>1, <2>1
  <2>2. CASE \E a : Run(node, n, S, next, a, b)
    <3>1. PICK a : Run(node, n, S, next, a, b)
      BY <2>2
    <3> QED BY <3>1, <1>1, LeftIs
  <2> QED BY <2>1, <2>2 DEF IsRun
<1>4. Keeps(node, e, n)
  BY <1>3 DEF Keeps, HotNode
<1>5. PICK new : new = node'
  OBVIOUS
<1>6. \E m : HotNode(new, m) /\ Contents(new) = Contents(e)
  <2>1. CASE new = e
    BY <2>1, <1>3
  <2>2. CASE new \in Resized(e, kMaxDensity)
    <3>1. PICK density : density = kMaxDensity
      OBVIOUS
    <3>2. density \in {6, 7, 8} /\ new \in Resized(e, density)
      BY <3>1, <2>2 DEF kMaxDensity
    <3> QED BY <3>2, <1>3, ResizedIs
  <2> QED BY <2>1, <2>2, <1>2, <1>5
<1>7. IsLeaf(new)
  BY <1>6, HotIs
<1> QED BY <1>3, <1>4, <1>5, <1>6, <1>7

(* Without(s, r): r is s without the entries that have certain keys.       *)
Without(s, r) == \E K \in SUBSET Keys : r = Omit(s, {x \in Entry : x.key \in K})

(* An insert adds its entry, after the entries with the same key.          *)
LEMMA InsertStep ==
  ASSUME IsLeaf(node), NEW k \in Keys, NEW p \in Payloads, Insert(k, p)
  PROVE  IsLeaf(node') /\ Contents(node') = AfterInsert(Contents(node), k, p)
<1>1. ~node.is_cold /\ node.num_keys < MaxKeys
  BY DEF Insert
<1>2. PICK n : n = data_capacity(node)
  OBVIOUS
<1>3. HotNode(node, n)
  BY <1>1, <1>2, HotIs
<1>4. PICK full : full = (node.num_keys * 10 >= node.expansion_threshold)
  OBVIOUS
<1>5. PICK d : /\ d \in IF node.num_keys * 10 >= node.expansion_threshold THEN Resized(node, kMinDensity) ELSE {node}
               /\ \E pos \in {find_insert_position(d, m, k) : m \in Positions(d)} : node' = InsertedAt(d, k, p, pos)
  BY Zenon DEF Insert
<1>6. PICK m \in Positions(d) : node' = InsertedAt(d, k, p, find_insert_position(d, m, k))
  BY <1>5
<1>7. \E c \in Nat : HotNode(d, c) /\ Contents(d) = Contents(node) /\ d.num_keys = node.num_keys /\ d.num_keys < c
  <2>1. CASE node.num_keys * 10 >= node.expansion_threshold
    <3>1. PICK density : density = kMinDensity
      OBVIOUS
    <3>2. density \in {6, 7, 8}
      BY <3>1 DEF kMinDensity
    <3>3. d \in Resized(node, density)
      BY <2>1, <3>1, <1>5
    <3> QED BY <3>2, <3>3, <1>3, ResizedIs
  <2>2. CASE ~(node.num_keys * 10 >= node.expansion_threshold)
    <3>1. d = node
      BY <2>2, <1>5
    <3>2. /\ n \in Nat /\ node.num_keys \in Nat /\ node.expansion_threshold \in Nat
          /\ node.expansion_threshold <= n * 10
      BY <1>3 DEF HotNode, Arrays, Counted
    <3>3. node.num_keys < n
      BY <2>2, <3>2
    <3> QED BY <3>1, <3>2, <3>3, <1>3
  <2> QED BY <2>1, <2>2
<1>8. PICK c \in Nat : HotNode(d, c) /\ Contents(d) = Contents(node) /\ d.num_keys = node.num_keys /\ d.num_keys < c
  BY <1>7
<1>9. m \in 0 .. c - 1
  BY <1>6, <1>8, ArraysIs DEF HotNode
<1>10. PICK new : new = node'
  OBVIOUS
<1>11. HotNode(new, c) /\ Contents(new) = AfterInsert(Contents(d), k, p)
  BY <1>1, <1>6, <1>8, <1>9, <1>10, InsertedIs
<1>12. IsLeaf(new)
  BY <1>11, HotIs
<1> QED BY <1>8, <1>10, <1>11, <1>12

(* An erase takes out the entries with the keys it was asked to erase.     *)
Matches(d, S, K) == \A j \in d.bitmap : j \in S <=> d.key_slots[j] \in K

(* Erasing the run of the entries with a key of K leaves a leaf with the   *)
(* other entries, resized or not.                                          *)
LEMMA EraseStep ==
  ASSUME NEW n, HotNode(node, n), NEW S, NEW next, NEW b,
         IsRun(node, n, S, next, b), Erase(S, next), NEW K \in SUBSET Keys, Matches(node, S, K)
  PROVE  IsLeaf(node') /\ Without(Contents(node), Contents(node'))
<1>1. IsLeaf(node') /\ \E e : Keeps(node, e, n) /\ e.bitmap = node.bitmap \ S /\ Contents(node') = Contents(e)
  BY ErasedIs
<1>2. PICK e : Keeps(node, e, n) /\ e.bitmap = node.bitmap \ S /\ Contents(node') = Contents(e)
  BY <1>1
<1>3. PICK G : G = {x \in Entry : x.key \in K}
  OBVIOUS
<1>4. \A j \in node.bitmap : j \in e.bitmap <=> EntryAt(node, j) \notin G
  <2> TAKE j \in node.bitmap
  <2>1. node.key_slots[j] \in Keys /\ node.payload_slots[j] \in Payloads
    BY DEF HotNode, Gapped
  <2>2. EntryAt(node, j) \in G <=> node.key_slots[j] \in K
    BY <2>1, <1>3 DEF EntryAt, Entry
  <2> QED BY <2>2, <1>2 DEF Matches
<1>5. Contents(e) = Omit(Contents(node), G)
  BY <1>2, <1>4, ErasedContents
<1> QED BY <1>1, <1>2, <1>3, <1>5 DEF Without

(* The key written over a run is the one after it.                         *)
LEMMA KeyAtIs ==
  ASSUME NEW n, Arrays(node, n), NEW b
  PROVE  KeyAt(b) = NextKey(node, n, b)
BY ArraysIs DEF KeyAt, NextKey

(* erase takes out the entries with its key.                               *)
LEMMA EraseKeyStep ==
  ASSUME IsLeaf(node), NEW k \in Keys, EraseKey(k)
  PROVE  IsLeaf(node') /\ Without(Contents(node), Contents(node'))
<1>1. ~node.is_cold
  BY DEF EraseKey
<1>2. PICK n : n = data_capacity(node)
  OBVIOUS
<1>3. HotNode(node, n)
  BY <1>1, <1>2, HotIs
<1>4. PICK b \in {upper_bound(node, m, k) : m \in Positions(node)} :
        LET run == {j \in 0 .. b - 1 : \A h \in j .. b - 1 : node.key_slots[h] = k}
        IN  run # {} /\ Erase(run, KeyAt(b))
  BY DEF EraseKey
<1>5. /\ Arrays(node, n) /\ Gapped(node, n) /\ n \in Nat /\ Positions(node) = 0 .. n - 1 /\ k \in Nat
      /\ node.bitmap \in SUBSET (0 .. n - 1) /\ \A j \in 0 .. n - 1 : node.key_slots[j] \in Nat
  <2>1. Arrays(node, n) /\ Gapped(node, n)
    BY <1>3 DEF HotNode
  <2>2. /\ n \in Nat /\ Positions(node) = 0 .. n - 1 /\ \A j \in 0 .. n - 1 : node.key_slots[j] \in Nat
    BY <2>1, ArraysIs
  <2>3. node.bitmap \in SUBSET (0 .. n - 1)
    BY <2>1 DEF Arrays
  <2> QED BY <2>1, <2>2, <2>3, KeysAssumption
<1>a. PICK m \in Positions(node) : b = upper_bound(node, m, k)
  BY <1>4
<1>6. b \in 0 .. n /\ \A j \in 0 .. n - 1 : node.key_slots[j] <= k <=> j < b
  BY <1>a, <1>5, BoundsAre
<1>7. PICK S : S = {j \in 0 .. b - 1 : \A h \in j .. b - 1 : node.key_slots[h] = k}
  OBVIOUS
<1>8. S # {} /\ Erase(S, KeyAt(b))
  BY <1>4, <1>7
<1>9. S = {j \in 0 .. b - 1 : \A h \in j .. b - 1 : node.key_slots[h] >= k}
  <2>1. \A j \in 0 .. b - 1 : \A h \in j .. b - 1 : h \in 0 .. n - 1 /\ h < b
    BY <1>5, <1>6
  <2>2. \A j \in 0 .. b - 1 : \A h \in j .. b - 1 : node.key_slots[h] = k <=> node.key_slots[h] >= k
    <3> TAKE j \in 0 .. b - 1
    <3> TAKE h \in j .. b - 1
    <3>1. node.key_slots[h] <= k /\ node.key_slots[h] \in Nat
      BY <2>1, <1>5, <1>6
    <3> QED BY <3>1, <1>5
  <2> QED BY <2>2, <1>7
<1>10. PICK next : next = KeyAt(b)
  OBVIOUS
<1>11. IsRun(node, n, S, next, b) /\ UpTo(node, n, S, k, b)
  <2>1. next = NextKey(node, n, b)
    BY <1>5, <1>10, KeyAtIs
  <2>2. k \in Int /\ b \in 0 .. n /\ NotBelow(node, S, b, k)
    BY <1>5, <1>6, <1>9 DEF NotBelow
  <2> QED BY <2>1, <2>2, <1>5, <1>8, RunIs
<1>12. PICK K : K = {k}
  OBVIOUS
<1>13. \A j \in node.bitmap : j \in S <=> node.key_slots[j] \in K
  <2> TAKE j \in node.bitmap
  <2>1. j \in 0 .. n - 1 /\ node.key_slots[j] \in Nat
    BY <1>5
  <2>2. j \in S <=> node.key_slots[j] >= k /\ node.key_slots[j] <= k
    BY <2>1, <1>6, <1>11 DEF UpTo
  <2>3. j \in S <=> node.key_slots[j] = k
    BY <2>1, <2>2, <1>5
  <2> QED BY <2>3, <1>12
<1>14. K \in SUBSET Keys
  BY <1>12
<1>15. Matches(node, S, K)
  BY <1>13 DEF Matches
<1> QED BY <1>3, <1>8, <1>10, <1>11, <1>14, <1>15, EraseStep

(* erase_range takes out the entries with a key in the range.              *)
LEMMA EraseRangeStep ==
  ASSUME IsLeaf(node), NEW start \in Keys, NEW end \in Keys, NEW incl \in BOOLEAN, EraseRange(start, end, incl)
  PROVE  IsLeaf(node') /\ Without(Contents(node), Contents(node'))
<1>1. ~node.is_cold
  BY DEF EraseRange
<1>2. PICK n : n = data_capacity(node)
  OBVIOUS
<1>3. HotNode(node, n)
  BY <1>1, <1>2, HotIs
<1>4. PICK b \in {IF incl THEN upper_bound(node, m, end) ELSE lower_bound(node, m, end) : m \in Positions(node)} :
        Erase({j \in 0 .. b - 1 : \A h \in j .. b - 1 : node.key_slots[h] >= start}, KeyAt(b))
  BY DEF EraseRange
<1>a. PICK m \in Positions(node) : b = IF incl THEN upper_bound(node, m, end) ELSE lower_bound(node, m, end)
  BY <1>4
<1>5. /\ Arrays(node, n) /\ Gapped(node, n) /\ n \in Nat /\ Positions(node) = 0 .. n - 1
      /\ start \in Int /\ end \in Int
      /\ node.bitmap \in SUBSET (0 .. n - 1) /\ \A j \in 0 .. n - 1 : node.key_slots[j] \in Nat
  <2>1. Arrays(node, n) /\ Gapped(node, n)
    BY <1>3 DEF HotNode
  <2>2. /\ n \in Nat /\ Positions(node) = 0 .. n - 1 /\ \A j \in 0 .. n - 1 : node.key_slots[j] \in Nat
    BY <2>1, ArraysIs
  <2>3. node.bitmap \in SUBSET (0 .. n - 1)
    BY <2>1 DEF Arrays
  <2> QED BY <2>1, <2>2, <2>3, KeysAssumption
<1>6. PICK T : T = {x \in Keys : IF incl THEN x <= end ELSE x < end}
  OBVIOUS
<1>7. b \in 0 .. n /\ \A j \in 0 .. n - 1 : node.key_slots[j] \in Keys => (node.key_slots[j] \in T <=> j < b)
  <2>1. CASE incl
    <3>1. b = upper_bound(node, m, end)
      BY <2>1, <1>a
    <3>2. b \in 0 .. n /\ \A j \in 0 .. n - 1 : node.key_slots[j] <= end <=> j < b
      BY <3>1, <1>5, BoundsAre
    <3> QED BY <3>2, <2>1, <1>6
  <2>2. CASE ~incl
    <3>1. b = lower_bound(node, m, end)
      BY <2>2, <1>a
    <3>2. b \in 0 .. n /\ \A j \in 0 .. n - 1 : node.key_slots[j] < end <=> j < b
      BY <3>1, <1>5, BoundsAre
    <3> QED BY <3>2, <2>2, <1>6
  <2> QED BY <2>1, <2>2
<1>8. PICK S : S = {j \in 0 .. b - 1 : \A h \in j .. b - 1 : node.key_slots[h] >= start}
  OBVIOUS
<1>9. PICK next : next = KeyAt(b)
  OBVIOUS
<1>10. Erase(S, next)
  BY <1>4, <1>8, <1>9
<1>11. next = NextKey(node, n, b)
  BY <1>5, <1>9, KeyAtIs
<1>12. PICK K : K = {x \in T : x >= start}
  OBVIOUS
<1>13. K \in SUBSET Keys
  BY <1>6, <1>12
<1>14. \A j \in node.bitmap : j \in 0 .. n - 1 /\ node.key_slots[j] \in Keys
  BY <1>5 DEF Gapped
<1>15. CASE S # {}
  <2>0. NotBelow(node, S, b, start) /\ b \in 0 .. n
    BY <1>7, <1>8 DEF NotBelow
  <2>1. IsRun(node, n, S, next, b) /\ UpTo(node, n, S, start, b)
    BY <2>0, <1>5, <1>11, <1>15, RunIs
  <2>2. Matches(node, S, K)
    BY <2>1, <1>7, <1>12, <1>14 DEF UpTo, Matches
  <2> QED BY <2>1, <2>2, <1>3, <1>10, <1>13, EraseStep
<1>16. CASE S = {}
  <2>1. \A j \in node.bitmap : j \notin S /\ node.key_slots[j] \notin K
    <3> SUFFICES ASSUME NEW j \in node.bitmap, node.key_slots[j] \in K PROVE FALSE
      BY <1>16
    <3>1. j \in 0 .. n - 1 /\ j < b /\ node.key_slots[j] >= start
      BY <1>7, <1>12, <1>14
    <3>2. \A h \in j .. b - 1 : h \in 0 .. n - 1 /\ j <= h
      BY <3>1, <1>5, <1>7
    <3>3. \A h \in j .. b - 1 : node.key_slots[j] <= node.key_slots[h]
      BY <3>1, <3>2, <1>5 DEF Gapped
    <3>4. \A h \in j .. b - 1 : node.key_slots[h] >= start
      <4> TAKE h \in j .. b - 1
      <4>1. node.key_slots[j] <= node.key_slots[h] /\ node.key_slots[j] \in Nat /\ node.key_slots[h] \in Nat
        BY <3>1, <3>2, <3>3, <1>5
      <4> QED BY <4>1, <3>1, <1>5
    <3>5. j \in 0 .. b - 1
      BY <3>1, <1>7
    <3> QED BY <3>4, <3>5, <1>8, <1>16
  <2>2. Matches(node, S, K) /\ IsRun(node, n, S, next, b)
    BY <2>1, <1>16 DEF Matches, IsRun
  <2> QED BY <2>2, <1>3, <1>10, <1>13, EraseStep
<1> QED BY <1>15, <1>16

(* erase_one takes out the first entry that was inserted with the key.     *)
LEMMA EraseOneStep ==
  ASSUME IsLeaf(node), NEW k \in Keys, EraseOne(k)
  PROVE  IsLeaf(node') /\ OneOut(Contents(node), k, Contents(node'))
<1>1. ~node.is_cold
  BY DEF EraseOne
<1>2. PICK n : n = data_capacity(node)
  OBVIOUS
<1>3. HotNode(node, n)
  BY <1>1, <1>2, HotIs
<1>4. PICK pos \in {find_lower(node, m, k) : m \in Positions(node)} :
        /\ pos < data_capacity(node) /\ node.key_slots[pos] = k
        /\ Erase({pos} \cup GapsBefore(node, pos), KeyAt(pos + 1))
  BY DEF EraseOne
<1>5. /\ Arrays(node, n) /\ Gapped(node, n) /\ n \in Nat /\ Positions(node) = 0 .. n - 1 /\ k \in Int
      /\ node.bitmap \in SUBSET (0 .. n - 1) /\ \A j \in 0 .. n - 1 : node.key_slots[j] \in Nat
  <2>1. Arrays(node, n) /\ Gapped(node, n)
    BY <1>3 DEF HotNode
  <2>2. /\ n \in Nat /\ Positions(node) = 0 .. n - 1 /\ \A j \in 0 .. n - 1 : node.key_slots[j] \in Nat
    BY <2>1, ArraysIs
  <2>3. node.bitmap \in SUBSET (0 .. n - 1)
    BY <2>1 DEF Arrays
  <2> QED BY <2>1, <2>2, <2>3, KeysAssumption
<1>a. PICK m \in Positions(node) : pos = find_lower(node, m, k)
  BY <1>4
<1>6. PICK l : l = lower_bound(node, m, k)
  OBVIOUS
<1>7. l \in 0 .. n /\ \A j \in 0 .. n - 1 : node.key_slots[j] < k <=> j < l
  BY <1>5, <1>6, BoundsAre
<1>8. /\ pos \in node.bitmap \cup {n} /\ (pos >= l \/ pos = n)
      /\ \A j \in node.bitmap : j >= l => pos <= j
  <2>1. pos = NextFilled(node, l) /\ l \in Int
    BY <1>a, <1>6, <1>7 DEF find_lower
  <2> QED BY <2>1, <1>5, NextFilledIs
<1>9. pos \in node.bitmap /\ pos \in 0 .. n - 1
  BY <1>2, <1>4, <1>5, <1>8
<1>10. \A j \in node.bitmap : j < pos => node.key_slots[j] # k
  <2> TAKE j \in node.bitmap
  <2> HAVE j < pos
  <2>1. j \in 0 .. n - 1 /\ ~(pos <= j)
    BY <1>5, <1>9
  <2>2. j < l
    BY <2>1, <1>7, <1>8
  <2>3. node.key_slots[j] < k /\ node.key_slots[j] \in Nat
    BY <2>1, <2>2, <1>5, <1>7
  <2> QED BY <2>3, <1>5
<1>11. PICK S : S = {pos} \cup GapsBefore(node, pos)
  OBVIOUS
<1>12. PICK b : b = pos + 1
  OBVIOUS
<1>13. PICK next : next = KeyAt(b)
  OBVIOUS
<1>14. Erase(S, next)
  BY <1>4, <1>11, <1>12, <1>13
<1>15. next = NextKey(node, n, b)
  BY <1>5, <1>13, KeyAtIs
<1>b. OneOf(node, S, pos)
  BY <1>11 DEF OneOf
<1>16. IsRun(node, n, S, next, b) /\ \A j \in node.bitmap : j \in S => j = pos
  BY <1>5, <1>9, <1>b, <1>12, <1>15, OneRun
<1>17. IsLeaf(node') /\ \E e : Keeps(node, e, n) /\ e.bitmap = node.bitmap \ S /\ Contents(node') = Contents(e)
  BY <1>3, <1>14, <1>16, ErasedIs
<1>18. PICK e : Keeps(node, e, n) /\ e.bitmap = node.bitmap \ S /\ Contents(node') = Contents(e)
  BY <1>17
<1>19. e.bitmap = node.bitmap \ {pos}
  BY <1>11, <1>16, <1>18
<1>20. OneOut(Contents(node), k, Contents(e))
  <2>1. node.key_slots[pos] = k /\ Keeps(node, e, n)
    BY <1>4, <1>18
  <2> QED BY <2>1, <1>9, <1>10, <1>19, OneOutContents
<1> QED BY <1>17, <1>18, <1>20

(* A side of a split is without the keys of the other side.                *)
LEMMA KeepSideStep ==
  ASSUME IsLeaf(node), NEW boundary \in Keys, NEW side \in {"left", "right"}, KeepSide(boundary, side)
  PROVE  IsLeaf(node') /\ Without(Contents(node), Contents(node'))
<1>1. ~node.is_cold
  BY DEF KeepSide
<1>2. PICK n : n = data_capacity(node)
  OBVIOUS
<1>3. HotNode(node, n)
  BY <1>1, <1>2, HotIs
<1>4. /\ Arrays(node, n) /\ Gapped(node, n) /\ n \in Nat /\ Positions(node) = 0 .. n - 1 /\ boundary \in Int
      /\ node.bitmap \in SUBSET (0 .. n - 1) /\ \A j \in 0 .. n - 1 : node.key_slots[j] \in Nat
      /\ Cardinality(node.bitmap) <= MaxKeys /\ MaxKeys \in Nat
  <2>1. Arrays(node, n) /\ Gapped(node, n)
    BY <1>3 DEF HotNode
  <2>2. /\ n \in Nat /\ Positions(node) = 0 .. n - 1 /\ \A j \in 0 .. n - 1 : node.key_slots[j] \in Nat
    BY <2>1, ArraysIs
  <2>3. node.bitmap \in SUBSET (0 .. n - 1)
    BY <2>1 DEF Arrays
  <2>4. Cardinality(node.bitmap) <= MaxKeys
    BY <1>3 DEF HotNode, Counted
  <2> QED BY <2>1, <2>2, <2>3, <2>4, KeysAssumption, BoundsAssumption
<1>5. PICK pos \in {lower_bound(node, m, boundary) : m \in Positions(node)} :
        node' \in LaidOut(IF side = "left" THEN EntriesIn(node, 0, pos)
                             ELSE EntriesIn(node, pos, data_capacity(node)), kMinDensity)
  BY DEF KeepSide
<1>a. PICK m \in Positions(node) : pos = lower_bound(node, m, boundary)
  BY <1>5
<1>6. pos \in 0 .. n /\ \A j \in 0 .. n - 1 : node.key_slots[j] < boundary <=> j < pos
  BY <1>4, <1>a, BoundsAre
<1>7. PICK density : density = kMinDensity
  OBVIOUS
<1>8. density \in {6, 7, 8}
  BY <1>7 DEF kMinDensity
<1>9. PICK left : left = IF side = "left" THEN 0 ELSE pos
  OBVIOUS
<1>10. PICK right : right = IF side = "left" THEN pos ELSE n
  OBVIOUS
<1>11. left \in Int /\ right \in Int
  BY <1>4, <1>6, <1>9, <1>10
<1>12. PICK s : s = EntriesIn(node, left, right)
  OBVIOUS
<1>13. PICK new : new = node'
  OBVIOUS
<1>14. new \in LaidOut(s, density)
  BY <1>2, <1>5, <1>7, <1>9, <1>10, <1>12, <1>13
<1>15. PICK N : N = Cardinality(Between(node, left, right))
  OBVIOUS
<1>16. s \in Seq(Entry) /\ Len(s) = N /\ N \in Nat /\ N <= Cardinality(node.bitmap) /\ Ascending(s)
  BY <1>4, <1>11, <1>12, <1>15, EntriesAre
<1>17. Len(s) <= MaxKeys
  <2>1. Cardinality(node.bitmap) \in Nat
    BY <1>3 DEF HotNode, Counted, Arrays
  <2> QED BY <2>1, <1>4, <1>16
<1>18. \E c \in Nat : HotNode(new, c) /\ Contents(new) = s
  <2>1. s \in Seq(Entry) /\ Ascending(s)
    BY <1>16
  <2> QED BY <2>1, <1>8, <1>14, <1>17, LayOutIs
<1>19. IsLeaf(new)
  BY <1>18, HotIs
<1>20. PICK K : K = {x \in Keys : IF side = "left" THEN x >= boundary ELSE x < boundary}
  OBVIOUS
<1>21. PICK G : G = {x \in Entry : x.key \in K}
  OBVIOUS
<1>22. \A j \in node.bitmap : j \in Between(node, left, right) <=> EntryAt(node, j) \notin G
  <2> TAKE j \in node.bitmap
  <2>1. /\ j \in 0 .. n - 1 /\ node.key_slots[j] \in Keys /\ node.payload_slots[j] \in Payloads
        /\ node.key_slots[j] \in Nat
    BY <1>4 DEF Gapped
  <2>2. EntryAt(node, j) \in G <=> node.key_slots[j] \in K
    BY <2>1, <1>21 DEF EntryAt, Entry
  <2>3. j \in Between(node, left, right) <=> left <= j /\ j < right
    BY DEF Between
  <2>4. node.key_slots[j] < boundary <=> j < pos
    BY <2>1, <1>6
  <2>5. CASE side = "left"
    <3>1. left <= j /\ (j < right <=> j < pos)
      BY <2>1, <2>5, <1>9, <1>10
    <3>2. node.key_slots[j] \in K <=> node.key_slots[j] >= boundary
      BY <2>1, <2>5, <1>20
    <3> QED BY <3>1, <3>2, <2>1, <2>2, <2>3, <2>4, <1>4
  <2>6. CASE side = "right"
    <3>1. j < right /\ (left <= j <=> ~(j < pos))
      BY <2>1, <2>6, <1>4, <1>6, <1>9, <1>10
    <3>2. node.key_slots[j] \in K <=> node.key_slots[j] < boundary
      BY <2>1, <2>6, <1>20
    <3> QED BY <3>1, <3>2, <2>2, <2>3, <2>4
  <2> QED BY <2>5, <2>6
<1>23. s = Omit(Contents(node), G)
  BY <1>4, <1>11, <1>12, <1>22, SideContents
<1>24. Without(Contents(node), s)
  BY <1>20, <1>21, <1>23 DEF Without
<1> QED BY <1>13, <1>18, <1>19, <1>24

(* A leaf given up to persistent memory holds nothing, and holds what it   *)
(* is loaded with when it comes back.                                      *)
LEMMA ColdIs == Contents(Cold) = <<>>
<1>1. DOMAIN Cold.key_slots = {} /\ Cold.bitmap = {}
  BY DEF Cold
<1>2. data_capacity(Cold) = 0
  BY <1>1, FS_EmptySet DEF data_capacity
<1>3. {j \in Cold.bitmap : 0 <= j /\ j < 0} = {}
  BY <1>1
<1>4. DOMAIN Ordered({}) = {}
  <2>1. Cardinality({}) = 0
    BY FS_EmptySet
  <2> QED BY <2>1 DEF Ordered
<1>5. PICK at : at = Ordered({})
  OBVIOUS
<1>6. Contents(Cold) = [i \in {} |-> [key |-> Cold.key_slots[at[i]], payload |-> Cold.payload_slots[at[i]]]]
  BY <1>2, <1>3, <1>4, <1>5, Zenon DEF Contents, EntriesIn
<1> QED BY <1>6

(* A leaf that goes cold gives up its entries.                             *)
LEMMA ColdStep ==
  ASSUME switch_to_cold
  PROVE  IsLeaf(node') /\ Contents(node') = <<>>
BY ColdIs DEF switch_to_cold, IsLeaf

(* A leaf that goes hot takes over the entries it is given, in key order.  *)
LEMMA LoadStep ==
  ASSUME IsLeaf(node), NEW values \in SortedEntries, switch_to_hot(values)
  PROVE  /\ IsLeaf(node') /\ Contents(node) = <<>>
         /\ Contents(node') \in Seq(Entry) /\ Ascending(Contents(node'))
<1>1. node = Cold
  BY HotIs DEF switch_to_hot
<1>2. PICK n \in 0 .. MaxKeys : /\ values \in [1 .. n -> [key : Keys, payload : Payloads]]
                                /\ \A i \in 1 .. n - 1 : values[i].key <= values[i + 1].key
  BY DEF SortedEntries
<1>3. n \in Nat /\ n <= MaxKeys
  BY BoundsAssumption
<1>4. values \in Seq(Entry) /\ Len(values) = n
  <2>1. \A i \in 1 .. n : values[i] \in Entry
    BY <1>2 DEF Entry
  <2>2. values = [i \in 1 .. n |-> values[i]]
    BY <1>2
  <2> QED BY <2>1, <2>2, <1>3
<1>5. \A i \in 1 .. n : values[i].key \in Nat
  <2> TAKE i \in 1 .. n
  <2>1. values[i] \in [key : Keys, payload : Payloads]
    BY <1>2
  <2> QED BY <2>1, KeysAssumption
<1>6. Ascending(values)
  <2> DEFINE Good == {x \in 0 .. n : \A i, j \in 1 .. x : i < j => values[i].key <= values[j].key}
  <2>1. 0 \in Good
    BY <1>3
  <2>2. ASSUME NEW x \in 0 .. n - 1, x \in Good PROVE x + 1 \in Good
    <3>1. x + 1 \in 0 .. n /\ x \in Nat
      BY <1>3
    <3>2. ASSUME NEW i \in 1 .. x + 1, NEW j \in 1 .. x + 1, i < j PROVE values[i].key <= values[j].key
      <4>1. CASE j \in 1 .. x
        <5>1. i \in 1 .. x
          BY <3>1, <3>2, <4>1
        <5> QED BY <5>1, <4>1, <3>2, <2>2
      <4>2. CASE j = x + 1
        <5>1. i \in 1 .. x /\ x \in 1 .. n - 1 /\ x \in 1 .. n /\ x + 1 \in 1 .. n /\ i \in 1 .. n
          BY <3>1, <3>2, <4>2, <1>3
        <5>2. values[x].key <= values[x + 1].key
          BY <5>1, <1>2
        <5>3. i = x \/ i < x
          BY <5>1
        <5>4. i < x => values[i].key <= values[x].key
          BY <5>1, <2>2
        <5>5. values[i].key \in Nat /\ values[x].key \in Nat /\ values[x + 1].key \in Nat
          BY <5>1, <1>5
        <5> QED BY <5>2, <5>3, <5>4, <5>5, <4>2
      <4> QED BY <4>1, <4>2, <3>1
    <3> QED BY <3>1, <3>2
  <2>3. \A x \in 0 .. n : x \in Good
    <3> HIDE DEF Good
    <3> QED BY <2>1, <2>2, <1>3, Induct
  <2>4. n \in Good
    BY <2>3, <1>3
  <2> QED BY <2>4, <1>4 DEF Ascending
<1>7. PICK new : new = node'
  OBVIOUS
<1>8. PICK density : density = kInitDensity
  OBVIOUS
<1>9. density \in {6, 7, 8} /\ new \in LaidOut(values, density)
  BY <1>7, <1>8 DEF kInitDensity, switch_to_hot
<1>10. \E c \in Nat : HotNode(new, c) /\ Contents(new) = values
  BY <1>3, <1>4, <1>6, <1>9, LayOutIs
<1>11. IsLeaf(new)
  BY <1>10, HotIs
<1> QED BY <1>1, <1>4, <1>6, <1>7, <1>10, <1>11, ColdIs

(* The first leaf is hot and empty.                                        *)
LEMMA InitIs ==
  ASSUME Init
  PROVE  IsLeaf(node) /\ Contents(node) = <<>>
<1>1. PICK s : s = <<>>
  OBVIOUS
<1>2. PICK density : density = kInitDensity
  OBVIOUS
<1>3. s \in Seq(Entry) /\ Len(s) = 0
  BY <1>1
<1>4. density \in {6, 7, 8} /\ node \in LaidOut(s, density) /\ Ascending(s) /\ Len(s) <= MaxKeys
  BY <1>1, <1>2, <1>3, BoundsAssumption DEF Init, kInitDensity, Ascending
<1>5. \E c \in Nat : HotNode(node, c) /\ Contents(node) = s
  BY <1>3, <1>4, LayOutIs
<1> QED BY <1>1, <1>5, HotIs

(* The leaf and the list of its entries omit elements in the same way.     *)
LEMMA OmitOfEntries == \A t, S : Entries!Omit(t, S) = Omit(t, S)
<1>1. \A S : Entries!Ordered(S) = Ordered(S)
  BY Zenon DEF Entries!Ordered, Ordered, Entries!Below, Below, Entries!Cardinality, Cardinality
<1> QED BY <1>1, Zenon DEF Entries!Omit, Omit

(* One step of the leaf: it stays a leaf, and it takes a step of the       *)
(* ordered list.                                                           *)
LEMMA LeafStep ==
  ASSUME IsLeaf(node), Next
  PROVE  IsLeaf(node') /\ Entries!Next
<1>0. PICK s : s = Contents(node)
  OBVIOUS
<1>1. PICK r : r = Contents(node')
  OBVIOUS
<1>2. ASSUME Without(s, r) PROVE Entries!Next
  <2>1. PICK K \in SUBSET Keys : r = Omit(s, {x \in Entry : x.key \in K})
    BY <1>2 DEF Without
  <2>2. Entries!Erase(K)
    BY <2>1, <1>0, <1>1, OmitOfEntries DEF Entries!Erase, Entry, Entries!Entry
  <2> QED BY <2>2 DEF Entries!Next
<1>3. ASSUME NEW k \in Keys, NEW p \in Payloads, Insert(k, p) PROVE IsLeaf(node') /\ Entries!Next
  <2>1. IsLeaf(node') /\ r = AfterInsert(s, k, p)
    BY <1>0, <1>1, <1>3, InsertStep
  <2>2. Entries!Insert(k, p)
    BY <2>1, <1>0, <1>1, OmitOfEntries DEF Entries!Insert, AfterInsert, Entry, Entries!Entry
  <2> QED BY <2>1, <2>2 DEF Entries!Next
<1>4. ASSUME NEW k \in Keys, EraseKey(k) PROVE IsLeaf(node') /\ Entries!Next
  BY <1>0, <1>1, <1>2, <1>4, EraseKeyStep
<1>5. ASSUME NEW k \in Keys, EraseOne(k) PROVE IsLeaf(node') /\ Entries!Next
  <2>1. IsLeaf(node') /\ OneOut(s, k, r)
    BY <1>0, <1>1, <1>5, EraseOneStep
  <2>2. Entries!EraseOne(k)
    BY <2>1, <1>0, <1>1 DEF Entries!EraseOne, OneOut
  <2> QED BY <2>1, <2>2 DEF Entries!Next
<1>6. ASSUME NEW k \in Keys, NEW side \in {"left", "right"}, KeepSide(k, side) PROVE IsLeaf(node') /\ Entries!Next
  BY <1>0, <1>1, <1>2, <1>6, KeepSideStep
<1>7. ASSUME NEW k \in Keys, NEW end \in Keys, NEW incl \in BOOLEAN, EraseRange(k, end, incl)
      PROVE  IsLeaf(node') /\ Entries!Next
  BY <1>0, <1>1, <1>2, <1>7, EraseRangeStep
<1>8. ASSUME switch_to_cold PROVE IsLeaf(node') /\ Entries!Next
  <2>1. IsLeaf(node') /\ r = <<>>
    BY <1>1, <1>8, ColdStep
  <2>2. Entries!Load
    BY <2>1, <1>1 DEF Entries!Load
  <2> QED BY <2>1, <2>2 DEF Entries!Next
<1>9. ASSUME NEW values \in SortedEntries, switch_to_hot(values) PROVE IsLeaf(node') /\ Entries!Next
  <2>1. IsLeaf(node') /\ s = <<>> /\ r \in Seq(Entry) /\ Ascending(r)
    BY <1>0, <1>1, <1>9, LoadStep
  <2>2. Entries!Sorted(r) /\ r \in Seq(Entries!Entry)
    BY <2>1 DEF Entries!Sorted, Ascending, Entry, Entries!Entry
  <2>3. Entries!Load
    BY <2>1, <2>2, <1>0, <1>1 DEF Entries!Load
  <2> QED BY <2>1, <2>3 DEF Entries!Next
<1> QED BY <1>3, <1>4, <1>5, <1>6, <1>7, <1>8, <1>9 DEF Next

(* Every reachable leaf satisfies the inductive invariant: it has given up *)
(* its arrays, or they have the shape the searches rely on.                *)
THEOREM LeafInvariant == Spec => []IInv
<1>1. Init => IInv
  BY InitIs DEF IInv, IsLeaf
<1>2. IInv /\ [Next]_node => IInv'
  <2> SUFFICES ASSUME IInv, [Next]_node PROVE IInv'
    OBVIOUS
  <2>1. CASE Next
    BY <2>1, LeafStep DEF IInv, IsLeaf
  <2>2. CASE UNCHANGED node
    BY <2>2 DEF IInv
  <2> QED BY <2>1, <2>2
<1> QED BY <1>1, <1>2, PTL DEF Spec

(* The inductive invariant gives the types.                                *)
LEMMA TypeIs == IInv => TypeOK
<1> SUFFICES ASSUME IInv PROVE TypeOK
  OBVIOUS
<1>1. CASE node = Cold
  <2>1. Positions(Cold) = {} /\ Cold.key_slots = <<>> /\ Cold.payload_slots = <<>>
    <3>1. DOMAIN Cold.key_slots = {}
      BY DEF Cold
    <3>2. data_capacity(Cold) = 0
      BY <3>1, FS_EmptySet DEF data_capacity
    <3> QED BY <3>2 DEF Cold, Positions
  <2>2. \A X : <<>> \in [{} -> X]
    OBVIOUS
  <2>3. /\ Cold.bitmap = {} /\ Cold.num_keys = 0 /\ Cold.expansion_threshold = 10 /\ Cold.contraction_threshold = 0
        /\ Cold.is_cold = TRUE
    BY DEF Cold
  <2>4. 0 \in 0 .. MaxKeys /\ 10 \in Nat /\ 0 \in Nat
    BY BoundsAssumption
  <2> QED BY <1>1, <2>1, <2>2, <2>3, <2>4 DEF TypeOK
<1>2. CASE HotNode(node, data_capacity(node))
  <2>1. PICK n : n = data_capacity(node)
    OBVIOUS
  <2>2. Arrays(node, n) /\ Cardinality(node.bitmap) = node.num_keys /\ node.num_keys <= MaxKeys
    BY <1>2, <2>1 DEF HotNode, Counted
  <2>3. Positions(node) = 0 .. n - 1
    BY <2>2, ArraysIs
  <2>4. /\ node.key_slots \in [0 .. n - 1 -> Keys \cup {kEndSentinel}]
        /\ node.payload_slots \in [0 .. n - 1 -> Payloads \cup {NoPayload}]
        /\ node.bitmap \in SUBSET (0 .. n - 1) /\ node.num_keys \in Nat
        /\ node.expansion_threshold \in Nat /\ node.contraction_threshold \in Nat
        /\ node.is_cold \in BOOLEAN
    BY <2>2 DEF Arrays
  <2>5. node.num_keys \in 0 .. MaxKeys
    BY <2>2, <2>4, BoundsAssumption
  <2> QED BY <2>3, <2>4, <2>5 DEF TypeOK
<1> QED BY <1>1, <1>2 DEF IInv

(* The fields of a leaf have their types, cold or not.                     *)
THEOREM LeafTyped == Spec => []TypeOK
BY LeafInvariant, TypeIs, PTL

(* The inductive invariant gives the structure of the slots.               *)
LEMMA StructureIs == IInv => Structure
<1> SUFFICES ASSUME IInv, ~node.is_cold PROVE Structure
  BY DEF Structure
<1>1. PICK n : n = data_capacity(node)
  OBVIOUS
<1>2. HotNode(node, n)
  BY <1>1, HotIs DEF IInv, IsLeaf
<1>3. /\ Arrays(node, n) /\ Gapped(node, n) /\ Cardinality(node.bitmap) = node.num_keys
      /\ node.expansion_threshold <= n * 10
  BY <1>2 DEF HotNode, Counted
<1>4. /\ n \in Nat /\ n >= 1 /\ node.bitmap \in SUBSET (0 .. n - 1)
      /\ \A j \in 0 .. n - 1 : node.key_slots[j] \in Nat
  BY <1>3, ArraysIs DEF Arrays
<1>5. \A j \in 0 .. n - 2 : /\ node.key_slots[j] <= node.key_slots[j + 1]
                            /\ node.key_slots[j] < node.key_slots[j + 1] => j \in node.bitmap
  <2> TAKE j \in 0 .. n - 2
  <2>1. j \in 0 .. n - 1 /\ j + 1 \in 0 .. n - 1 /\ j <= j + 1
    BY <1>4
  <2>2. node.key_slots[j] <= node.key_slots[j + 1]
    BY <2>1, <1>3 DEF Gapped
  <2> QED BY <2>1, <2>2, <1>3, SlotsAre
<1>6. node.key_slots[n - 1] # kEndSentinel => n - 1 \in node.bitmap
  <2>1. PICK i : i = n - 1
    OBVIOUS
  <2>2. i \in 0 .. n - 1
    BY <2>1, <1>4
  <2> QED BY <2>1, <2>2, <1>3, SlotsAre
<1>7. \A j \in node.bitmap : node.key_slots[j] # kEndSentinel
  <2> TAKE j \in node.bitmap
  <2>1. node.key_slots[j] \in Keys
    BY <1>3 DEF Gapped
  <2> QED BY <2>1, KeysAssumption
<1>8. node.num_keys <= n
  <2>1. IsFiniteSet(0 .. n - 1) /\ Cardinality(0 .. n - 1) = n
    BY <1>4, FS_Interval
  <2> QED BY <2>1, <1>3, <1>4, FS_Subset
<1> QED BY <1>1, <1>3, <1>5, <1>6, <1>7, <1>8 DEF Structure, check_exists

(* The slots are sorted, the last slot of every key is an entry, the       *)
(* bitmap agrees with the count, and a leaf below its threshold has room.  *)
THEOREM LeafStructured == Spec => []Structure
BY LeafInvariant, StructureIs, PTL

(* The inductive invariant makes the searches exact.                       *)
LEMMA SearchesOfLeaf == IInv => SearchesExact
<1> SUFFICES ASSUME IInv PROVE SearchesExact
  OBVIOUS
<1>1. CASE node = Cold
  <2>1. Positions(node) = {}
    <3>1. DOMAIN node.key_slots = {}
      BY <1>1 DEF Cold
    <3>2. data_capacity(node) = 0
      BY <3>1, FS_EmptySet DEF data_capacity
    <3> QED BY <3>2 DEF Positions
  <2> QED BY <2>1 DEF SearchesExact
<1>2. CASE HotNode(node, data_capacity(node))
  <2>1. PICK n : n = data_capacity(node)
    OBVIOUS
  <2>2. Arrays(node, n) /\ Gapped(node, n)
    BY <1>2, <2>1 DEF HotNode
  <2> QED BY <2>2, SearchesAre
<1> QED BY <1>1, <1>2 DEF IInv

(* Wherever the model's prediction makes a search start, it finds the last *)
(* entry of a key, the first entry not less and the first entry greater.   *)
THEOREM LeafSearches == Spec => []SearchesExact
BY LeafInvariant, SearchesOfLeaf, PTL

(* The inductive invariant makes the gap search find the closest gap.      *)
LEMMA GapOfLeaf == IInv => GapIsClosest
<1> SUFFICES ASSUME IInv, NEW at \in 0 .. data_capacity(node), Positions(node) \ node.bitmap # {}
             PROVE  LET pos == Smaller(at, data_capacity(node) - 1)
                        gap == closest_gap(node, at)
                        far(j) == IF j >= pos THEN j - pos ELSE pos - j
                        gaps == Positions(node) \ node.bitmap
                    IN  gap \in gaps /\ \A j \in gaps : far(gap) <= far(j)
  BY Zenon DEF GapIsClosest
<1>1. PICK n : n = data_capacity(node)
  OBVIOUS
<1>2. HotNode(node, n)
  <2>1. node # Cold
    <3>1. DOMAIN Cold.key_slots = {}
      BY DEF Cold
    <3>2. data_capacity(Cold) = 0
      BY <3>1, FS_EmptySet DEF data_capacity
    <3>3. Positions(Cold) = {}
      BY <3>2 DEF Positions
    <3> QED BY <3>3
  <2> QED BY <2>1, <1>1 DEF IInv
<1>3. Arrays(node, n)
  BY <1>2 DEF HotNode
<1>4. /\ n \in Nat /\ n >= 1 /\ data_capacity(node) = n /\ node.bitmap \in SUBSET (0 .. n - 1)
      /\ Positions(node) = 0 .. n - 1
  BY <1>3, ArraysIs DEF Arrays
<1>5. Gaps(node, n) = Positions(node) \ node.bitmap
  BY <1>4 DEF Gaps
<1>6. Closest(node, n, Smaller(at, n - 1), closest_gap(node, at))
  BY <1>4, <1>5, ClosestGapIs
<1> QED BY <1>1, <1>5, <1>6 DEF Closest, Far

(* Wherever an insert would go, the word-wise search finds a gap, and no   *)
(* gap is closer, whatever the size of a word.                             *)
THEOREM LeafGap == Spec => []GapIsClosest
BY LeafInvariant, GapOfLeaf, PTL

(* The gapped arrays implement the ordered list of entries: equal keys in  *)
(* the order of their insertion, whatever the model predicts, whichever    *)
(* way an insert shifts, and however the leaf is laid out again.           *)
THEOREM LeafImplementsEntries == Spec => EntriesSpec
<1>1. Init => Entries!Init
  BY InitIs DEF Entries!Init
<1>2. IInv /\ [Next]_node => [Entries!Next]_(Contents(node))
  <2> SUFFICES ASSUME IInv, [Next]_node PROVE [Entries!Next]_(Contents(node))
    OBVIOUS
  <2>1. CASE Next
    BY <2>1, LeafStep DEF IInv, IsLeaf
  <2>2. CASE UNCHANGED node
    BY <2>2 DEF Contents, EntriesIn, data_capacity
  <2> QED BY <2>1, <2>2
<1> QED BY <1>1, <1>2, LeafInvariant, PTL DEF Spec, EntriesSpec, Entries!Spec
=============================================================================
