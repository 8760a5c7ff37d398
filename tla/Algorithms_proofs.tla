-------------------------- MODULE Algorithms_proofs --------------------------
(***************************************************************************)
(* Two parts that do not meet: how a node is divided (FanoutTree), and     *)
(* which leaves are hot (HotNodes).                                        *)
(*                                                                         *)
(* The fanout tree, for any number of levels, all counts of keys, costs    *)
(* and weights: three recursive functions have a solution (Pow2Is,         *)
(* SumTakes, MergesUpwards); a sum may be taken in any order (AnyTaken);   *)
(* the merges of a level can be made one after the other, and each saves   *)
(* what Saving says (MergesSave).  Merged is what every level keeps.       *)
(*                                                                         *)
(* The hot leaves, for any number of leaves, calls, splits, merges and     *)
(* rounds: the argument is about the walk in AdjustNodeType, and what the  *)
(* queue holds of the leaves that were already pushed (Queued).  That the  *)
(* unit of a degree, a power, is a number is a hypothesis, as part of      *)
(* HotAssumption: the provers know no powers.                              *)
(***************************************************************************)
EXTENDS FanoutTree, HotNodes, Ordering_proofs

-----------------------------------------------------------------------------
(* Powers of two: the recursive definition has a solution.                 *)
LEMMA Pow2Is ==
  ASSUME MaxLevel \in Nat
  PROVE  /\ \A n \in 0 .. MaxLevel : Pow2[n] \in Nat \ {0}
         /\ Pow2[0] = 1
         /\ \A n \in 0 .. MaxLevel - 1 : Pow2[n + 1] = 2 * Pow2[n]
<1> DEFINE Doubled(f, m) == [n \in 0 .. m |-> IF n = 0 THEN 1 ELSE 2 * f[n - 1]]
           Made == {m \in 0 .. MaxLevel : \E f : f = Doubled(f, m)}
<1>1. MaxLevel \in Made
  <2>1. 0 \in Made
    <3>1. [n \in 0 .. 0 |-> 1] = Doubled([n \in 0 .. 0 |-> 1], 0)
      OBVIOUS
    <3>2. 0 \in 0 .. MaxLevel
      OBVIOUS
    <3> HIDE DEF Doubled
    <3> QED BY <3>1, <3>2
  <2>2. ASSUME NEW m \in 0 .. MaxLevel - 1, m \in Made PROVE m + 1 \in Made
    <3>1. PICK f : f = Doubled(f, m)
      BY <2>2
    <3> DEFINE g == [n \in 0 .. m + 1 |-> IF n = m + 1 THEN 2 * f[m] ELSE f[n]]
    <3>2. \A n \in 0 .. m : g[n] = f[n] /\ f[n] = IF n = 0 THEN 1 ELSE 2 * f[n - 1]
      BY <3>1
    <3>3. \A n \in 0 .. m + 1 : g[n] = IF n = 0 THEN 1 ELSE 2 * g[n - 1]
      <4> TAKE n \in 0 .. m + 1
      <4>1. CASE n = m + 1
        <5>1. n # 0 /\ n - 1 = m /\ m \in 0 .. m /\ g[n] = 2 * f[m]
          BY <4>1
        <5>2. g[m] = f[m]
          BY <3>2, <5>1
        <5> HIDE DEF g
        <5> QED BY <5>1, <5>2
      <4>2. CASE n # m + 1
        <5>1. n \in 0 .. m /\ (n # 0 => n - 1 \in 0 .. m)
          BY <4>2
        <5> HIDE DEF g
        <5> QED BY <3>2, <5>1
      <4> QED BY <4>1, <4>2
    <3>4. g = [n \in 0 .. m + 1 |-> g[n]]
      OBVIOUS
    <3>5. g = Doubled(g, m + 1)
      <4> HIDE DEF g
      <4> QED BY <3>3, <3>4
    <3> HIDE DEF g, Doubled
    <3> QED BY <3>5
  <2> HIDE DEF Made
  <2>3. \A m \in 0 .. MaxLevel : m \in Made
    BY <2>1, <2>2, Induct
  <2> QED BY <2>3
<1>2. PICK f : f = Doubled(f, MaxLevel)
  BY <1>1
<1>3. Pow2 = Doubled(Pow2, MaxLevel)
  BY <1>2 DEF Pow2
<1>4. \A n \in 0 .. MaxLevel : Pow2[n] = IF n = 0 THEN 1 ELSE 2 * Pow2[n - 1]
  BY <1>3
<1>5. \A n \in 0 .. MaxLevel - 1 : Pow2[n + 1] = 2 * Pow2[n]
  BY <1>4
<1>6. Pow2[0] = 1
  BY <1>4
<1> DEFINE Number == {n \in 0 .. MaxLevel : Pow2[n] \in Nat \ {0}}
<1>7. \A n \in 0 .. MaxLevel : n \in Number
  <2>1. 0 \in Number
    BY <1>6
  <2>2. \A n \in 0 .. MaxLevel - 1 : n \in Number => n + 1 \in Number
    BY <1>5
  <2> HIDE DEF Number
  <2> QED BY <2>1, <2>2, Induct
<1> QED BY <1>5, <1>6, <1>7

-----------------------------------------------------------------------------
(* Sums over finite sets: SumFunctionOnSet takes out one element after the *)
(* other; g solves its recursion.                                          *)
Pick(s) == CHOOSE x \in s : TRUE
Takes(g, f, S) ==
  \A s \in SUBSET S : g[s] = IF s = {} THEN 0 ELSE f[Pick(s)] + g[s \ {Pick(s)}]

LEMMA Smaller ==
  ASSUME NEW S, IsFiniteSet(S)
  PROVE  /\ Cardinality(S) \in Nat
         /\ \A s \in SUBSET S : IsFiniteSet(s) /\ Cardinality(s) \in 0 .. Cardinality(S)
         /\ \A s \in SUBSET S : Cardinality(s) = 0 <=> s = {}
         /\ \A s \in SUBSET S : \A x \in s : /\ s \ {x} \in SUBSET S
                                             /\ Cardinality(s \ {x}) = Cardinality(s) - 1
         /\ \A s \in SUBSET S : s # {} => Pick(s) \in s
<1>1. Cardinality(S) \in Nat
  BY FS_CardinalityType
<1>2. ASSUME NEW s \in SUBSET S
      PROVE  IsFiniteSet(s) /\ Cardinality(s) \in 0 .. Cardinality(S)
  BY <1>1, FS_Subset, FS_CardinalityType
<1>3. ASSUME NEW s \in SUBSET S
      PROVE  Cardinality(s) = 0 <=> s = {}
  BY <1>2, FS_EmptySet
<1>4. ASSUME NEW s \in SUBSET S, NEW x \in s
      PROVE  s \ {x} \in SUBSET S /\ Cardinality(s \ {x}) = Cardinality(s) - 1
  <2>1. IsFiniteSet(s)
    BY <1>2
  <2>2. Cardinality(s \ {x}) = Cardinality(s) - 1
    BY <2>1, FS_RemoveElement
  <2> QED BY <2>2
<1>5. \A s \in SUBSET S : s # {} => Pick(s) \in s
  BY DEF Pick
<1> QED BY <1>1, <1>2, <1>3, <1>4, <1>5

LEMMA SumTakes ==
  ASSUME NEW S, IsFiniteSet(S), NEW f
  PROVE  \E g : Takes(g, f, S) /\ SumFunctionOnSet(f, S) = g[S]
<1> DEFINE n == Cardinality(S)
           Taken(g, s) == IF s = {} THEN 0 ELSE f[Pick(s)] + g[s \ {Pick(s)}]
           Solved(g, m) == \A s \in SUBSET S : Cardinality(s) <= m => g[s] = Taken(g, s)
           Made == {m \in 0 .. n : \E g : Solved(g, m)}
<1>0. /\ n \in Nat
      /\ \A s \in SUBSET S : Cardinality(s) \in 0 .. n
      /\ \A s \in SUBSET S : Cardinality(s) = 0 <=> s = {}
      /\ \A s \in SUBSET S : s # {} => s \ {Pick(s)} \in SUBSET S
                                       /\ Cardinality(s \ {Pick(s)}) = Cardinality(s) - 1
  BY Smaller
<1> HIDE DEF n
<1>1. 0 \in Made
  <2> DEFINE g == [s \in SUBSET S |-> 0]
  <2>1. \A s \in SUBSET S : Cardinality(s) <= 0 => s = {}
    BY <1>0
  <2>2. Solved(g, 0)
    BY <2>1
  <2>3. 0 \in 0 .. n
    BY <1>0
  <2> HIDE DEF g, Solved
  <2> QED BY <2>2, <2>3
<1>2. ASSUME NEW m \in 0 .. n - 1, m \in Made PROVE m + 1 \in Made
  <2>1. PICK g : Solved(g, m)
    BY <1>2
  <2> DEFINE h == [s \in SUBSET S |-> IF Cardinality(s) = m + 1 THEN Taken(g, s) ELSE g[s]]
  <2>2. \A s \in SUBSET S : Cardinality(s) <= m => h[s] = g[s]
    <3>1. \A s \in SUBSET S : Cardinality(s) <= m => Cardinality(s) # m + 1
      BY <1>0
    <3> QED BY <3>1
  <2>3. \A s \in SUBSET S : s # {} /\ Cardinality(s) <= m + 1 =>
          h[s \ {Pick(s)}] = g[s \ {Pick(s)}]
    <3>1. \A s \in SUBSET S : s # {} /\ Cardinality(s) <= m + 1 =>
            s \ {Pick(s)} \in SUBSET S /\ Cardinality(s \ {Pick(s)}) <= m
      BY <1>0
    <3> HIDE DEF h
    <3> QED BY <2>2, <3>1
  <2>4. Solved(h, m + 1)
    <3> SUFFICES ASSUME NEW s \in SUBSET S, Cardinality(s) <= m + 1
                 PROVE  h[s] = Taken(h, s)
      OBVIOUS
    <3>1. Taken(h, s) = Taken(g, s)
      BY <2>3
    <3>2. h[s] = Taken(g, s)
      <4>1. CASE Cardinality(s) = m + 1
        BY <4>1
      <4>2. CASE Cardinality(s) # m + 1
        <5>1. Cardinality(s) <= m
          BY <1>0, <4>2
        <5> HIDE DEF h
        <5> QED BY <2>1, <2>2, <5>1
      <4> QED BY <4>1, <4>2
    <3> HIDE DEF h, Taken
    <3> QED BY <3>1, <3>2
  <2>5. m + 1 \in 0 .. n
    BY <1>0
  <2> HIDE DEF h, Solved
  <2> QED BY <2>4, <2>5
<1>3. n \in Made
  <2> HIDE DEF Made
  <2>1. \A m \in 0 .. n : m \in Made
    BY <1>0, <1>1, <1>2, Induct
  <2> QED BY <1>0, <2>1
<1>4. PICK g0 : Solved(g0, n)
  BY <1>3
<1> DEFINE g1 == [s \in SUBSET S |-> g0[s]]
           Loop(g) == [s \in SUBSET S |->
                         IF s = {} THEN 0
                         ELSE LET x == CHOOSE x \in s : TRUE IN f[x] + g[s \ {x}]]
           F == CHOOSE g : g = Loop(g)
<1>5. \A s \in SUBSET S : g0[s] = Taken(g0, s)
  <2> HIDE DEF Taken
  <2>1. \A s \in SUBSET S : Cardinality(s) <= n
    BY <1>0
  <2> QED BY <1>4, <2>1
<1>6. \A s \in SUBSET S : g1[s] = Taken(g1, s)
  <2>1. \A s \in SUBSET S : s # {} => s \ {Pick(s)} \in SUBSET S
    BY <1>0
  <2>2. \A s \in SUBSET S : g1[s] = g0[s]
    OBVIOUS
  <2> HIDE DEF g1
  <2> QED BY <1>5, <2>1, <2>2
<1>7. \A g : Loop(g) = [s \in SUBSET S |-> Taken(g, s)]
  BY DEF Pick
<1>8. g1 = [s \in SUBSET S |-> g1[s]]
  OBVIOUS
<1>9. g1 = Loop(g1)
  <2> HIDE DEF g1, Loop, Taken
  <2>1. [s \in SUBSET S |-> g1[s]] = [s \in SUBSET S |-> Taken(g1, s)]
    BY <1>6
  <2> QED BY <1>7, <1>8, <2>1
<1>10. F = Loop(F)
  <2> HIDE DEF g1, Loop
  <2> QED BY <1>9
<1>11. \A s \in SUBSET S : F[s] = Taken(F, s)
  <2> HIDE DEF F, Loop, Taken
  <2>1. F = [s \in SUBSET S |-> Taken(F, s)]
    BY <1>7, <1>10
  <2> QED BY <2>1
<1>12. Takes(F, f, S)
  <2> HIDE DEF F
  <2> QED BY <1>11 DEF Takes
<1>13. SumFunctionOnSet(f, S) = F[S]
  BY DEF SumFunctionOnSet, FoldFunctionOnSet, MapThenFoldSet
<1> HIDE DEF F
<1> QED BY <1>12, <1>13

(* Whichever element is taken out, the rest has the same sum.              *)
LEMMA AnyTaken ==
  ASSUME NEW S, IsFiniteSet(S), NEW f, \A x \in S : f[x] \in Int, NEW g, Takes(g, f, S)
  PROVE  \A s \in SUBSET S : /\ g[s] \in Int
                             /\ \A x \in s : g[s] = f[x] + g[s \ {x}]
<1> DEFINE n == Cardinality(S)
           Number == {m \in 0 .. n : \A s \in SUBSET S : Cardinality(s) = m => g[s] \in Int}
           Good(s) == \A x \in s : g[s] = f[x] + g[s \ {x}]
           Free == {m \in 0 .. n : \A s \in SUBSET S : Cardinality(s) = m => Good(s)}
<1>0. /\ n \in Nat
      /\ \A s \in SUBSET S : Cardinality(s) \in 0 .. n
      /\ \A s \in SUBSET S : Cardinality(s) = 0 <=> s = {}
      /\ \A s \in SUBSET S : \A x \in s : s \ {x} \in SUBSET S /\ Cardinality(s \ {x}) = Cardinality(s) - 1
      /\ \A s \in SUBSET S : s # {} => Pick(s) \in s
  BY Smaller
<1> HIDE DEF n
<1>1. \A s \in SUBSET S : g[s] = IF s = {} THEN 0 ELSE f[Pick(s)] + g[s \ {Pick(s)}]
  BY DEF Takes
<1>2. \A s \in SUBSET S : g[s] \in Int
  <2>1. 0 \in Number
    <3>1. \A s \in SUBSET S : Cardinality(s) = 0 => g[s] = 0
      BY <1>0, <1>1
    <3> QED BY <1>0, <3>1
  <2>2. ASSUME NEW m \in 0 .. n - 1, m \in Number PROVE m + 1 \in Number
    <3> SUFFICES ASSUME NEW s \in SUBSET S, Cardinality(s) = m + 1
                 PROVE  g[s] \in Int
      BY <1>0
    <3>1. s # {} /\ Pick(s) \in s
      BY <1>0
    <3>2. s \ {Pick(s)} \in SUBSET S /\ Cardinality(s \ {Pick(s)}) = m
      BY <1>0, <3>1
    <3>3. g[s \ {Pick(s)}] \in Int /\ f[Pick(s)] \in Int
      BY <2>2, <3>1, <3>2
    <3>4. g[s] = f[Pick(s)] + g[s \ {Pick(s)}]
      BY <1>1, <3>1
    <3> QED BY <3>3, <3>4
  <2>3. \A m \in 0 .. n : m \in Number
    <3> HIDE DEF Number
    <3> QED BY <1>0, <2>1, <2>2, Induct
  <2> QED BY <1>0, <2>3
<1>3. 0 \in Free
  <2>1. \A s \in SUBSET S : Cardinality(s) = 0 => s = {}
    BY <1>0
  <2>2. \A s \in SUBSET S : Cardinality(s) = 0 => Good(s)
    BY <2>1
  <2> QED BY <1>0, <2>2
<1>4. ASSUME NEW m \in 0 .. n - 1, m \in Free PROVE m + 1 \in Free
  <2> SUFFICES ASSUME NEW s \in SUBSET S, Cardinality(s) = m + 1
               PROVE  Good(s)
    BY <1>0
  <2>1. \A t \in SUBSET S : Cardinality(t) = m => Good(t)
    BY <1>4
  <2>2. s # {}
    BY <1>0
  <2>3. PICK y \in s : y = Pick(s)
    BY <1>0, <2>2
  <2>4. g[s] = f[y] + g[s \ {y}]
    BY <1>1, <2>2, <2>3
  <2>5. \A x \in s : s \ {x} \in SUBSET S /\ Cardinality(s \ {x}) = m
    BY <1>0
  <2>6. ASSUME NEW x \in s, x # y
        PROVE  g[s] = f[x] + g[s \ {x}]
    <3>1. x \in s \ {y} /\ y \in s \ {x} /\ (s \ {x}) \ {y} = (s \ {y}) \ {x}
      BY <2>6
    <3>2. g[s \ {y}] = f[x] + g[(s \ {y}) \ {x}]
      BY <2>1, <2>5, <3>1
    <3>3. g[s \ {x}] = f[y] + g[(s \ {x}) \ {y}]
      BY <2>1, <2>5, <3>1
    <3>4. PICK u \in Int : u = g[(s \ {y}) \ {x}]
      <4>1. (s \ {y}) \ {x} \in SUBSET S
        OBVIOUS
      <4> QED BY <1>2, <4>1
    <3>5. f[x] \in Int /\ f[y] \in Int
      OBVIOUS
    <3>6. g[s \ {y}] = f[x] + u /\ g[s \ {x}] = f[y] + u
      BY <3>1, <3>2, <3>3, <3>4
    <3>7. f[y] + (f[x] + u) = f[x] + (f[y] + u)
      BY <3>5
    <3> QED BY <2>4, <3>6, <3>7
  <2> QED BY <2>4, <2>6
<1>5. \A s \in SUBSET S : Good(s)
  <2>1. \A m \in 0 .. n : m \in Free
    <3> HIDE DEF Free
    <3> QED BY <1>0, <1>3, <1>4, Induct
  <2> HIDE DEF Good
  <2> QED BY <1>0, <2>1
<1> QED BY <1>2, <1>5

(* Two sums of the same summands are equal, whatever else is summed up.    *)
LEMMA SameTaken ==
  ASSUME NEW S, IsFiniteSet(S), NEW f, NEW g, Takes(g, f, S),
         NEW T \in SUBSET S, NEW e, NEW h, Takes(h, e, T), \A x \in T : e[x] = f[x]
  PROVE  g[T] = h[T]
<1> DEFINE n == Cardinality(T)
           Same == {m \in 0 .. n : \A s \in SUBSET T : Cardinality(s) = m => g[s] = h[s]}
<1>0. /\ n \in Nat
      /\ \A s \in SUBSET T : Cardinality(s) \in 0 .. n
      /\ \A s \in SUBSET T : Cardinality(s) = 0 <=> s = {}
      /\ \A s \in SUBSET T : \A x \in s : s \ {x} \in SUBSET T /\ Cardinality(s \ {x}) = Cardinality(s) - 1
      /\ \A s \in SUBSET T : s # {} => Pick(s) \in s
  <2>1. IsFiniteSet(T)
    BY FS_Subset
  <2> QED BY <2>1, Smaller
<1> HIDE DEF n
<1>1. \A s \in SUBSET T : /\ g[s] = IF s = {} THEN 0 ELSE f[Pick(s)] + g[s \ {Pick(s)}]
                          /\ h[s] = IF s = {} THEN 0 ELSE e[Pick(s)] + h[s \ {Pick(s)}]
  <2>1. \A s \in SUBSET T : s \in SUBSET S
    OBVIOUS
  <2> QED BY <2>1 DEF Takes
<1>2. 0 \in Same
  <2>1. \A s \in SUBSET T : Cardinality(s) = 0 => g[s] = 0 /\ h[s] = 0
    BY <1>0, <1>1
  <2> QED BY <1>0, <2>1
<1>3. ASSUME NEW m \in 0 .. n - 1, m \in Same PROVE m + 1 \in Same
  <2> SUFFICES ASSUME NEW s \in SUBSET T, Cardinality(s) = m + 1
               PROVE  g[s] = h[s]
    BY <1>0
  <2>1. s # {} /\ Pick(s) \in s
    BY <1>0
  <2>2. s \ {Pick(s)} \in SUBSET T /\ Cardinality(s \ {Pick(s)}) = m
    BY <1>0, <2>1
  <2>3. g[s \ {Pick(s)}] = h[s \ {Pick(s)}] /\ e[Pick(s)] = f[Pick(s)]
    BY <1>3, <2>1, <2>2
  <2> QED BY <1>1, <2>1, <2>3
<1>4. \A m \in 0 .. n : m \in Same
  <2> HIDE DEF Same
  <2> QED BY <1>0, <1>2, <1>3, Induct
<1> QED BY <1>0, <1>4

(* The sum of f over S.                                                    *)
Summed(f, S) == SumFunctionOnSet([n \in S |-> f[n]], S)

LEMMA SumOf ==
  ASSUME NEW S, IsFiniteSet(S), NEW f, \A n \in S : f[n] \in Int
  PROVE  /\ Summed(f, S) \in Int
         /\ S = {} => Summed(f, S) = 0
         /\ \A n \in S : Summed(f, S) = f[n] + Summed(f, S \ {n})
<1> DEFINE d == [n \in S |-> f[n]]
<1>0. \A n \in S : d[n] = f[n] /\ d[n] \in Int
  OBVIOUS
<1>a. PICK g : Takes(g, d, S) /\ SumFunctionOnSet(d, S) = g[S]
  BY SumTakes
<1>1. Takes(g, d, S) /\ SumFunctionOnSet(d, S) = g[S]
  BY <1>a
<1>2. \A x \in S : d[x] \in Int
  BY <1>0
<1>3. Summed(f, S) = g[S]
  BY <1>1 DEF Summed
<1> HIDE DEF d
<1>4. g[S] \in Int /\ \A n \in S : g[S] = d[n] + g[S \ {n}]
  <2>1. S \in SUBSET S
    OBVIOUS
  <2>2. Takes(g, d, S)
    BY <1>1
  <2>3. \A s \in SUBSET S : /\ g[s] \in Int
                             /\ \A x \in s : g[s] = d[x] + g[s \ {x}]
    BY <1>2, <2>2, AnyTaken
  <2> QED BY <2>1, <2>3
<1>5. S = {} => g[S] = 0
  BY <1>1 DEF Takes
<1>6. ASSUME NEW n \in S PROVE g[S \ {n}] = Summed(f, S \ {n})
  <2> DEFINE T == S \ {n}
             e == [m \in T |-> f[m]]
  <2>1. T \in SUBSET S /\ IsFiniteSet(T)
    BY FS_Subset
  <2>2. \A m \in T : e[m] = d[m]
    BY <1>0
  <2>3. Summed(f, T) = SumFunctionOnSet(e, T)
    BY DEF Summed
  <2> HIDE DEF T, e
  <2>4. PICK h : Takes(h, e, T) /\ SumFunctionOnSet(e, T) = h[T]
    BY <2>1, SumTakes
  <2>5. g[T] = h[T]
    BY <1>1, <2>1, <2>2, <2>4, SameTaken
  <2>6. g[T] = Summed(f, T)
    BY <2>3, <2>4, <2>5
  <2> QED BY <2>6 DEF T
<1> QED BY <1>0, <1>3, <1>4, <1>5, <1>6

(* Summands that are not negative have a sum that is not.                  *)
LEMMA SumNotNegative ==
  ASSUME NEW S, IsFiniteSet(S), NEW f, \A n \in S : f[n] \in Nat
  PROVE  Summed(f, S) \in Nat
<1> DEFINE n == Cardinality(S)
           P == {m \in 0 .. n : \A s \in SUBSET S : Cardinality(s) = m => Summed(f, s) \in Nat}
<1>0. /\ n \in Nat
      /\ \A s \in SUBSET S : IsFiniteSet(s) /\ Cardinality(s) \in 0 .. n
      /\ \A s \in SUBSET S : Cardinality(s) = 0 <=> s = {}
      /\ \A s \in SUBSET S : \A x \in s : s \ {x} \in SUBSET S /\ Cardinality(s \ {x}) = Cardinality(s) - 1
      /\ \A s \in SUBSET S : s # {} => Pick(s) \in s
  BY Smaller
<1> HIDE DEF n
<1>1. ASSUME NEW s \in SUBSET S
      PROVE  /\ s = {} => Summed(f, s) = 0
             /\ \A x \in s : Summed(f, s) = f[x] + Summed(f, s \ {x})
  <2>1. IsFiniteSet(s) /\ \A x \in s : f[x] \in Int
    BY <1>0
  <2> QED BY <2>1, SumOf
<1>2. 0 \in P
  <2>1. \A s \in SUBSET S : Cardinality(s) = 0 => Summed(f, s) = 0
    BY <1>0, <1>1
  <2> QED BY <1>0, <2>1
<1>3. ASSUME NEW m \in 0 .. n - 1, m \in P PROVE m + 1 \in P
  <2> SUFFICES ASSUME NEW s \in SUBSET S, Cardinality(s) = m + 1
               PROVE  Summed(f, s) \in Nat
    BY <1>0
  <2>1. PICK x \in s : TRUE
    BY <1>0
  <2>2. s \ {x} \in SUBSET S /\ Cardinality(s \ {x}) = m
    BY <1>0
  <2>3. Summed(f, s \ {x}) \in Nat /\ f[x] \in Nat
    BY <1>3, <2>2
  <2>4. Summed(f, s) = f[x] + Summed(f, s \ {x})
    BY <1>1
  <2> QED BY <2>3, <2>4
<1>4. \A m \in 0 .. n : m \in P
  <2> HIDE DEF P
  <2> QED BY <1>0, <1>2, <1>3, Induct
<1> QED BY <1>0, <1>4

(* Total and Saved are such sums.                                          *)
LEMMA TotalOf ==
  ASSUME NEW S, IsFiniteSet(S), \A n \in S : weight(n) \in Int
  PROVE  /\ Total(S) \in Int
         /\ S = {} => Total(S) = 0
         /\ \A n \in S : Total(S) = weight(n) + Total(S \ {n})
<1> DEFINE f == [n \in S |-> weight(n)]
<1>1. \A n \in S : f[n] = weight(n) /\ f[n] \in Int
  OBVIOUS
<1>2. \A T \in SUBSET S : [n \in T |-> f[n]] = [n \in T |-> weight(n)]
  OBVIOUS
<1>3. \A T \in SUBSET S : Total(T) = Summed(f, T)
  <2> HIDE DEF f
  <2> QED BY <1>2 DEF Total, Summed
<1> HIDE DEF f
<1>4. /\ Summed(f, S) \in Int
      /\ S = {} => Summed(f, S) = 0
      /\ \A n \in S : Summed(f, S) = f[n] + Summed(f, S \ {n})
  BY <1>1, SumOf
<1>5. S \in SUBSET S /\ \A n \in S : S \ {n} \in SUBSET S
  OBVIOUS
<1> QED BY <1>1, <1>3, <1>4, <1>5

LEMMA SavedOf ==
  ASSUME NEW S, IsFiniteSet(S), \A n \in S : Saving(n) \in Int
  PROVE  /\ Saved(S) \in Int
         /\ S = {} => Saved(S) = 0
         /\ \A n \in S : Saved(S) = Saving(n) + Saved(S \ {n})
         /\ (\A n \in S : Saving(n) >= 0) => Saved(S) >= 0
<1> DEFINE f == [n \in S |-> Saving(n)]
<1>1. \A n \in S : f[n] = Saving(n) /\ f[n] \in Int
  OBVIOUS
<1>2. \A T \in SUBSET S : [n \in T |-> f[n]] = [n \in T |-> Saving(n)]
  OBVIOUS
<1>3. \A T \in SUBSET S : Saved(T) = Summed(f, T)
  <2> HIDE DEF f
  <2> QED BY <1>2 DEF Saved, Summed
<1> HIDE DEF f
<1>4. /\ Summed(f, S) \in Int
      /\ S = {} => Summed(f, S) = 0
      /\ \A n \in S : Summed(f, S) = f[n] + Summed(f, S \ {n})
  BY <1>1, SumOf
<1>5. S \in SUBSET S /\ \A n \in S : S \ {n} \in SUBSET S
  OBVIOUS
<1>6. ASSUME \A n \in S : Saving(n) >= 0 PROVE Saved(S) >= 0
  <2>1. \A n \in S : f[n] \in Nat
    BY <1>1, <1>6
  <2>2. Summed(f, S) \in Nat
    BY <2>1, SumNotNegative
  <2> QED BY <1>3, <1>5, <2>2
<1> QED BY <1>1, <1>3, <1>4, <1>5, <1>6
-----------------------------------------------------------------------------
(* The nodes of a level, and the two below each.                           *)
LEMMA LevelIs ==
  ASSUME MaxLevel \in Nat, NEW l \in 0 .. MaxLevel
  PROVE  /\ IsFiniteSet(Level(l)) /\ Cardinality(Level(l)) = Pow2[l]
         /\ Level(l) \subseteq Nodes
         /\ \A n \in Level(l) : /\ n.level = l /\ n.node_id \in 0 .. Pow2[l] - 1
                                /\ n = Node(l, n.node_id)
<1>1. Pow2[l] \in Nat \ {0}
  BY Pow2Is
<1>2. PICK k \in Nat : k = Pow2[l] - 1
  BY <1>1
<1>3. Level(l) = {Node(l, i) : i \in 0 .. k}
  BY <1>2 DEF Level
<1>4. IsFiniteSet(0 .. k) /\ Cardinality(0 .. k) = k + 1
  BY FS_Interval
<1>5. ExistsBijection(0 .. k, Level(l))
  <2> DEFINE f == [i \in 0 .. k |-> Node(l, i)]
  <2>1. \A i, j \in 0 .. k : Node(l, i) = Node(l, j) => i = j
    BY DEF Node
  <2>2. f \in [0 .. k -> Level(l)]
    BY <1>3
  <2>3. \A i, j \in 0 .. k : f[i] = f[j] => i = j
    BY <2>1
  <2>4. \A n \in Level(l) : \E i \in 0 .. k : f[i] = n
    BY <1>3
  <2> HIDE DEF f
  <2>5. f \in Bijection(0 .. k, Level(l))
    BY <2>2, <2>3, <2>4 DEF Bijection, Injection, Surjection, IsInjective
  <2> QED BY <2>5 DEF ExistsBijection
<1>6. IsFiniteSet(Level(l)) /\ Cardinality(Level(l)) = Pow2[l]
  BY <1>1, <1>2, <1>4, <1>5, FS_Bijection
<1>7. Level(l) \subseteq Nodes
  BY DEF Nodes
<1>8. \A n \in Level(l) : /\ n.level = l /\ n.node_id \in 0 .. Pow2[l] - 1
                          /\ n = Node(l, n.node_id)
  BY DEF Level, Node
<1> QED BY <1>6, <1>7, <1>8

LEMMA PairIs ==
  ASSUME MaxLevel \in Nat, NEW l \in 0 .. MaxLevel - 1
  PROVE  /\ \A n \in Level(l) : LeftOf(n) \in Level(l + 1) /\ RightOf(n) \in Level(l + 1)
                                /\ LeftOf(n) # RightOf(n)
         /\ \A m, n \in Level(l) : m # n => Pair(m) \cap Pair(n) = {}
         /\ Level(l) \cap Level(l + 1) = {}
<1>1. l \in 0 .. MaxLevel /\ l + 1 \in 0 .. MaxLevel /\ l # l + 1
  OBVIOUS
<1>2. Pow2[l] \in Nat /\ Pow2[l + 1] = 2 * Pow2[l]
  BY <1>1, Pow2Is
<1>3. \A n \in Level(l) : /\ n.level = l /\ n.node_id \in 0 .. Pow2[l] - 1
                          /\ n = Node(l, n.node_id)
  BY <1>1, LevelIs
<1>4. ASSUME NEW n \in Level(l)
      PROVE  LeftOf(n) \in Level(l + 1) /\ RightOf(n) \in Level(l + 1) /\ LeftOf(n) # RightOf(n)
  <2>1. /\ 2 * n.node_id \in 0 .. Pow2[l + 1] - 1
        /\ 2 * n.node_id + 1 \in 0 .. Pow2[l + 1] - 1
        /\ 2 * n.node_id # 2 * n.node_id + 1
    BY <1>2, <1>3
  <2>2. LeftOf(n) = Node(l + 1, 2 * n.node_id) /\ RightOf(n) = Node(l + 1, 2 * n.node_id + 1)
    BY <1>3 DEF LeftOf, RightOf
  <2>3. LeftOf(n) \in Level(l + 1) /\ RightOf(n) \in Level(l + 1)
    BY <2>1, <2>2 DEF Level
  <2>4. LeftOf(n).node_id = 2 * n.node_id /\ RightOf(n).node_id = 2 * n.node_id + 1
    BY <2>2 DEF Node
  <2> QED BY <2>1, <2>3, <2>4
<1>5. ASSUME NEW m \in Level(l), NEW n \in Level(l), m # n
      PROVE  Pair(m) \cap Pair(n) = {}
  <2>1. m.node_id \in Int /\ n.node_id \in Int /\ m.node_id # n.node_id
    BY <1>2, <1>3, <1>5
  <2>2. \A x \in Pair(m) : x.node_id \in {2 * m.node_id, 2 * m.node_id + 1}
    BY DEF Pair, LeftOf, RightOf, Node
  <2>3. \A x \in Pair(n) : x.node_id \in {2 * n.node_id, 2 * n.node_id + 1}
    BY DEF Pair, LeftOf, RightOf, Node
  <2>4. {2 * m.node_id, 2 * m.node_id + 1} \cap {2 * n.node_id, 2 * n.node_id + 1} = {}
    BY <2>1
  <2> QED BY <2>2, <2>3, <2>4
<1>6. Level(l) \cap Level(l + 1) = {}
  <2>1. \A n \in Level(l + 1) : n.level = l + 1
    BY <1>1, LevelIs
  <2> QED BY <1>1, <1>3, <2>1
<1> QED BY <1>4, <1>5, <1>6

(* A node stands for the buckets of the two below it, and they share none. *)
LEMMA SpanOfPair ==
  ASSUME MaxLevel \in Nat, NEW best \in 1 .. MaxLevel, NEW l \in 0 .. best - 1, NEW n \in Level(l)
  PROVE  Span(n, best) = Span(LeftOf(n), best) \cup Span(RightOf(n), best)
<1>1. /\ l \in 0 .. MaxLevel /\ best - l - 1 \in 0 .. MaxLevel - 1
      /\ best - l - 1 \in 0 .. MaxLevel /\ best - l = (best - l - 1) + 1
      /\ best - (l + 1) = best - l - 1
  OBVIOUS
<1>2. PICK r \in Nat : r = Pow2[best - l - 1]
  BY <1>1, Pow2Is
<1>3. Pow2[best - l] = 2 * r
  BY <1>1, <1>2, Pow2Is
<1>4. PICK i \in Nat : i = n.node_id
  <2>1. n.node_id \in 0 .. Pow2[l] - 1 /\ Pow2[l] \in Nat
    BY <1>1, LevelIs, Pow2Is
  <2> QED BY <2>1
<1>5. n.level = l
  BY <1>1, LevelIs
<1>6. /\ Span(n, best) = i * (2 * r) .. (i + 1) * (2 * r) - 1
      /\ Span(LeftOf(n), best) = (2 * i) * r .. (2 * i + 1) * r - 1
      /\ Span(RightOf(n), best) = (2 * i + 1) * r .. (2 * i + 1 + 1) * r - 1
  BY <1>1, <1>2, <1>3, <1>4, <1>5 DEF Span, LeftOf, RightOf, Node
<1>7. PICK u \in Nat : u = i * r
  OBVIOUS
<1>8. /\ i * (2 * r) = 2 * u /\ (i + 1) * (2 * r) = 2 * u + 2 * r
      /\ (2 * i) * r = 2 * u /\ (2 * i + 1) * r = 2 * u + r
      /\ (2 * i + 1 + 1) * r = 2 * u + 2 * r
  BY <1>7
<1>9. 2 * u .. 2 * u + 2 * r - 1 = (2 * u .. 2 * u + r - 1) \cup (2 * u + r .. 2 * u + 2 * r - 1)
  OBVIOUS
<1> QED BY <1>6, <1>8, <1>9

(* At the best level a node stands for a bucket, and the root for all.     *)
LEMMA SpanOfEnds ==
  ASSUME MaxLevel \in Nat, NEW best \in 0 .. MaxLevel
  PROVE  /\ \A i \in 0 .. Pow2[best] - 1 : Span(Node(best, i), best) = {i}
         /\ Span(Node(0, 0), best) = 0 .. Pow2[best] - 1
<1>1. Pow2[0] = 1 /\ Pow2[best] \in Nat
  BY Pow2Is
<1>2. ASSUME NEW i \in 0 .. Pow2[best] - 1 PROVE Span(Node(best, i), best) = {i}
  <2>1. i \in Int /\ best - best = 0
    BY <1>1
  <2>2. Span(Node(best, i), best) = i * 1 .. (i + 1) * 1 - 1
    BY <1>1, <2>1 DEF Span, Node
  <2> QED BY <2>1, <2>2
<1>3. Span(Node(0, 0), best) = 0 .. Pow2[best] - 1
  <2>1. best - 0 = best
    OBVIOUS
  <2>2. Span(Node(0, 0), best) = 0 * Pow2[best] .. (0 + 1) * Pow2[best] - 1
    BY <2>1 DEF Span, Node
  <2> QED BY <1>1, <2>2
<1> QED BY <1>2, <1>3

-----------------------------------------------------------------------------
(* Merging.  When all the nodes used are on the levels l .. best: they     *)
(* share no bucket, and have each.                                         *)
Tiled(use, l, best) ==
  /\ IsFiniteSet(use)
  /\ \A n \in use : \E k \in l .. best : n \in Level(k)
  /\ \A b \in 0 .. Pow2[best] - 1 : \E n \in use : b \in Span(n, best)
  /\ \A n \in use : Span(n, best) # {} /\ Span(n, best) \subseteq 0 .. Pow2[best] - 1
  /\ \A m, n \in use : m # n => Span(m, best) \cap Span(n, best) = {}

LEMMA TiledNodes ==
  ASSUME MaxLevel \in Nat, NEW best \in 0 .. MaxLevel, NEW l \in 0 .. MaxLevel,
         NEW use, Tiled(use, l, best)
  PROVE  IsFiniteSet(use) /\ use \in SUBSET Nodes
<1>1. IsFiniteSet(use) /\ \A n \in use : \E k \in l .. best : n \in Level(k)
  BY DEF Tiled
<1>2. \A k \in l .. best : k \in 0 .. MaxLevel
  OBVIOUS
<1>3. \A k \in l .. best : Level(k) \subseteq Nodes
  BY <1>2, LevelIs
<1> QED BY <1>1, <1>3

(* The nodes used when those of M have taken the places of their pairs.    *)
After(use, M) == (use \ UNION {Pair(n) : n \in M}) \cup M

(* A complete level.                                                       *)
LEMMA LevelTiled ==
  ASSUME MaxLevel \in Nat, NEW best \in 0 .. MaxLevel
  PROVE  Tiled(Level(best), best, best)
<1>1. IsFiniteSet(Level(best))
  BY LevelIs
<1>2. PICK k \in Int : k = Pow2[best] - 1
  BY Pow2Is
<1>3. Level(best) = {Node(best, i) : i \in 0 .. k}
  BY <1>2 DEF Level
<1>4. \A i \in 0 .. k : Span(Node(best, i), best) = {i}
  BY <1>2, SpanOfEnds
<1>5. \A b \in 0 .. k : \E n \in Level(best) : b \in Span(n, best)
  BY <1>3, <1>4
<1>6. \A n \in Level(best) : Span(n, best) # {} /\ Span(n, best) \subseteq 0 .. k
  BY <1>3, <1>4
<1>7. \A m, n \in Level(best) : m # n => Span(m, best) \cap Span(n, best) = {}
  BY <1>3, <1>4
<1>8. best \in best .. best
  OBVIOUS
<1> QED BY <1>1, <1>2, <1>5, <1>6, <1>7, <1>8 DEF Tiled

(* What merges may be: of some nodes of level l whose pairs are used.      *)
Mergeable(use, M, l) == M \subseteq Level(l) /\ \A n \in M : Pair(n) \subseteq use

LEMMA MergeTiled ==
  ASSUME MaxLevel \in Nat, NEW best \in 1 .. MaxLevel, NEW l \in 0 .. best - 1,
         NEW use, Tiled(use, l + 1, best), NEW M, Mergeable(use, M, l)
  PROVE  Tiled(After(use, M), l, best)
<1> DEFINE new == After(use, M)
           kept == use \ UNION {Pair(n) : n \in M}
<1>1. l \in 0 .. MaxLevel /\ l \in 0 .. MaxLevel - 1 /\ l \in l .. best
      /\ \A k \in l + 1 .. best : k \in l .. best
  OBVIOUS
<1>2. new = kept \cup M
  BY DEF After
<1>3. M \subseteq Level(l) /\ \A n \in M : Pair(n) \subseteq use
  BY DEF Mergeable
<1>4. IsFiniteSet(new)
  <2>1. IsFiniteSet(use)
    BY DEF Tiled
  <2>2. IsFiniteSet(kept)
    BY <2>1, FS_Subset
  <2>3. IsFiniteSet(Level(l))
    BY <1>1, LevelIs
  <2>4. IsFiniteSet(M)
    BY <1>3, <2>3, FS_Subset
  <2> HIDE DEF kept, new
  <2> QED BY <1>2, <2>2, <2>4, FS_Union
<1>5. \A n \in new : \E k \in l .. best : n \in Level(k)
  <2>1. \A n \in use : \E k \in l + 1 .. best : n \in Level(k)
    BY DEF Tiled
  <2> QED BY <1>1, <1>2, <1>3, <2>1
<1>6. \A n \in M : /\ Span(n, best) = Span(LeftOf(n), best) \cup Span(RightOf(n), best)
                   /\ LeftOf(n) \in use /\ RightOf(n) \in use
                   /\ Pair(n) = {LeftOf(n), RightOf(n)}
  BY <1>3, SpanOfPair DEF Pair
<1>7. ASSUME NEW b \in 0 .. Pow2[best] - 1
      PROVE  \E n \in new : b \in Span(n, best)
  <2>1. PICK m \in use : b \in Span(m, best)
    BY DEF Tiled
  <2>2. CASE m \in kept
    BY <1>2, <2>1, <2>2
  <2>3. CASE m \notin kept
    <3>1. PICK n \in M : m \in Pair(n)
      BY <2>3
    <3>2. b \in Span(n, best)
      BY <1>6, <2>1, <3>1
    <3> QED BY <1>2, <3>2
  <2> QED BY <2>2, <2>3
<1>8. \A n \in use : Span(n, best) # {} /\ Span(n, best) \subseteq 0 .. Pow2[best] - 1
  BY DEF Tiled
<1>9. \A n \in new : Span(n, best) # {} /\ Span(n, best) \subseteq 0 .. Pow2[best] - 1
  <2> SUFFICES ASSUME NEW n \in new
               PROVE  Span(n, best) # {} /\ Span(n, best) \subseteq 0 .. Pow2[best] - 1
    OBVIOUS
  <2>1. CASE n \in kept
    BY <1>8, <2>1
  <2>2. CASE n \in M
    <3> PICK S : S = 0 .. Pow2[best] - 1
      OBVIOUS
    <3>1. LeftOf(n) \in use /\ RightOf(n) \in use
      BY <1>6, <2>2
    <3>2. /\ Span(LeftOf(n), best) # {} /\ Span(LeftOf(n), best) \subseteq S
          /\ Span(RightOf(n), best) # {} /\ Span(RightOf(n), best) \subseteq S
      BY <1>8, <3>1
    <3>3. Span(n, best) = Span(LeftOf(n), best) \cup Span(RightOf(n), best)
      BY <1>6, <2>2
    <3> QED BY <3>2, <3>3
  <2> QED BY <1>2, <2>1, <2>2
<1>10. \A m, n \in use : m # n => Span(m, best) \cap Span(n, best) = {}
  BY DEF Tiled
<1>11. \A m \in kept, n \in M : Span(m, best) \cap Span(n, best) = {}
  <2> SUFFICES ASSUME NEW m \in kept, NEW n \in M
               PROVE  Span(m, best) \cap Span(n, best) = {}
    OBVIOUS
  <2>1. m \in use /\ m # LeftOf(n) /\ m # RightOf(n)
    BY <1>6
  <2>2. /\ Span(m, best) \cap Span(LeftOf(n), best) = {}
        /\ Span(m, best) \cap Span(RightOf(n), best) = {}
    BY <1>6, <1>10, <2>1
  <2>3. Span(n, best) = Span(LeftOf(n), best) \cup Span(RightOf(n), best)
    BY <1>6
  <2> QED BY <2>2, <2>3
<1>12. \A m, n \in M : m # n => Span(m, best) \cap Span(n, best) = {}
  <2> SUFFICES ASSUME NEW m \in M, NEW n \in M, m # n
               PROVE  Span(m, best) \cap Span(n, best) = {}
    OBVIOUS
  <2>1. m \in Level(l) /\ n \in Level(l)
    BY <1>3
  <2>2. Pair(m) \cap Pair(n) = {}
    BY <1>1, <2>1, PairIs
  <2>3. \A x \in Pair(m), y \in Pair(n) : Span(x, best) \cap Span(y, best) = {}
    BY <1>3, <1>10, <2>2
  <2>4. /\ LeftOf(m) \in Pair(m) /\ RightOf(m) \in Pair(m)
        /\ LeftOf(n) \in Pair(n) /\ RightOf(n) \in Pair(n)
    BY DEF Pair
  <2>5. /\ Span(LeftOf(m), best) \cap Span(LeftOf(n), best) = {}
        /\ Span(LeftOf(m), best) \cap Span(RightOf(n), best) = {}
        /\ Span(RightOf(m), best) \cap Span(LeftOf(n), best) = {}
        /\ Span(RightOf(m), best) \cap Span(RightOf(n), best) = {}
    BY <2>3, <2>4
  <2>6. /\ Span(m, best) = Span(LeftOf(m), best) \cup Span(RightOf(m), best)
        /\ Span(n, best) = Span(LeftOf(n), best) \cup Span(RightOf(n), best)
    BY <1>6
  <2> QED BY <2>5, <2>6
<1>13. \A m, n \in new : m # n => Span(m, best) \cap Span(n, best) = {}
  <2>1. \A m, n \in kept : m # n => Span(m, best) \cap Span(n, best) = {}
    BY <1>10
  <2> HIDE DEF kept, new
  <2> QED BY <1>2, <1>11, <1>12, <2>1
<1> HIDE DEF new
<1>14. Tiled(new, l, best)
  BY <1>4, <1>5, <1>7, <1>9, <1>13 DEF Tiled
<1> QED BY <1>14 DEF new

-----------------------------------------------------------------------------
(* Costs.  What the children add to the cost.                              *)
Whole(S) == Total(S) + Cardinality(S) * DataNodeWeight

LEMMA NumbersAre ==
  ASSUME FanoutAssumption, Reckoned
  PROVE  /\ \A n \in Nodes : keys(n) \in Nat /\ weight(n) \in Int /\ (keys(n) = 0 => weight(n) = 0)
         /\ Node(0, 0) \in Nodes /\ Level(0) = {Node(0, 0)} /\ num_keys \in Nat
         /\ \A S \in SUBSET Nodes : IsFiniteSet(S) => Total(S) \in Int /\ Whole(S) \in Int
<1>1. ASSUME NEW n \in Nodes
      PROVE  keys(n) \in Nat /\ weight(n) \in Int /\ (keys(n) = 0 => weight(n) = 0)
  <2>1. PICK k \in Nat : k = keys(n)
    BY DEF Reckoned, keys
  <2>2. PICK c \in Int : c = cost(n)
    BY DEF Reckoned, FanoutAssumption, cost
  <2>3. weight(n) = c * k
    BY <2>1, <2>2 DEF weight
  <2>4. c * k \in Int /\ (k = 0 => c * k = 0)
    OBVIOUS
  <2> QED BY <2>1, <2>3, <2>4
<1>2. Level(0) = {Node(0, 0)}
  <2>1. Pow2[0] - 1 = 0 /\ 0 .. 0 = {0}
    BY Pow2Is DEF FanoutAssumption
  <2> QED BY <2>1 DEF Level
<1>3. Node(0, 0) \in Nodes
  <2>1. 0 \in 0 .. MaxLevel
    BY DEF FanoutAssumption
  <2> QED BY <1>2, <2>1 DEF Nodes
<1>4. num_keys \in Nat
  BY <1>1, <1>3 DEF num_keys
<1>5. ASSUME NEW S \in SUBSET Nodes, IsFiniteSet(S)
      PROVE  Total(S) \in Int /\ Whole(S) \in Int
  <2>1. \A n \in S : weight(n) \in Int
    BY <1>1
  <2>2. Total(S) \in Int
    BY <1>5, <2>1, TotalOf
  <2>3. Cardinality(S) \in Nat /\ DataNodeWeight \in Nat
    BY <1>5, FS_CardinalityType DEF FanoutAssumption
  <2> QED BY <2>2, <2>3 DEF Whole
<1> QED BY <1>1, <1>2, <1>3, <1>4, <1>5

(* One merge saves what Saving says.                                       *)
LEMMA MergeSaves ==
  ASSUME FanoutAssumption, Reckoned, NEW l \in 0 .. MaxLevel - 1, NEW n \in Level(l),
         NEW U \in SUBSET Nodes, IsFiniteSet(U), Pair(n) \subseteq U, n \notin U
  PROVE  /\ Saving(n) \in Int
         /\ (U \ Pair(n)) \cup {n} \in SUBSET Nodes /\ IsFiniteSet((U \ Pair(n)) \cup {n})
         /\ Whole((U \ Pair(n)) \cup {n}) = Whole(U) - Saving(n)
<1> DEFINE L == LeftOf(n)
           R == RightOf(n)
           V == U \ Pair(n)
           W == V \cup {n}
<1>1. /\ MaxLevel \in Nat /\ l \in 0 .. MaxLevel
      /\ DataNodeWeight \in Nat
  BY DEF FanoutAssumption
<1>2. Level(l) \subseteq Nodes
  BY <1>1, LevelIs
<1>3. L # R /\ L \in U /\ R \in U /\ Pair(n) = {L, R}
  <2>1. L # R
    BY <1>1, PairIs
  <2> QED BY <2>1 DEF Pair
<1>4. W \in SUBSET Nodes /\ n \in Nodes /\ n \notin V /\ V \in SUBSET U
  BY <1>2
<1> HIDE DEF L, R
<1>5. V = (U \ {L}) \ {R} /\ R \in U \ {L} /\ W \ {n} = V /\ {L, R} \ {L} = {R} /\ {R} \ {R} = {}
  BY <1>3, <1>4
<1> HIDE DEF V, W
<1>6. \A m \in Nodes : weight(m) \in Int
  BY NumbersAre
<1>7. L \in Nodes /\ R \in Nodes /\ weight(L) \in Int /\ weight(R) \in Int /\ weight(n) \in Int
  BY <1>3, <1>4, <1>6
<1>8. \A S \in SUBSET Nodes : IsFiniteSet(S) =>
        /\ S = {} => Total(S) = 0
        /\ \A m \in S : Total(S) = weight(m) + Total(S \ {m})
        /\ Total(S) \in Int
  <2> SUFFICES ASSUME NEW S \in SUBSET Nodes, IsFiniteSet(S)
               PROVE  /\ S = {} => Total(S) = 0
                      /\ \A m \in S : Total(S) = weight(m) + Total(S \ {m})
                      /\ Total(S) \in Int
    OBVIOUS
  <2>1. \A m \in S : weight(m) \in Int
    BY <1>6
  <2> QED BY <2>1, TotalOf
<1>9. IsFiniteSet(U \ {L}) /\ Cardinality(U \ {L}) = Cardinality(U) - 1
      /\ Cardinality(U) \in Nat
  BY <1>3, FS_RemoveElement, FS_CardinalityType
<1>10. IsFiniteSet(V) /\ Cardinality(V) = Cardinality(U) - 2
  <2> PICK D : D = U \ {L}
    OBVIOUS
  <2>1. IsFiniteSet(D) /\ R \in D /\ V = D \ {R} /\ Cardinality(D) = Cardinality(U) - 1
    BY <1>5, <1>9
  <2>2. IsFiniteSet(D \ {R}) /\ Cardinality(D \ {R}) = Cardinality(D) - 1
    BY <2>1, FS_RemoveElement
  <2> QED BY <1>9, <2>1, <2>2
<1>11. IsFiniteSet(W) /\ Cardinality(W) = Cardinality(U) - 1
  <2>1. IsFiniteSet(W) /\ Cardinality(W) = Cardinality(V) + 1
    BY <1>4, <1>10, FS_AddElement DEF W
  <2> QED BY <1>9, <1>10, <2>1
<1>12. Total(U) = weight(L) + (weight(R) + Total(V))
  <2>1. Total(U) = weight(L) + Total(U \ {L})
    BY <1>3, <1>8
  <2>2. Total(U \ {L}) = weight(R) + Total(V)
    <3>1. U \ {L} \in SUBSET Nodes
      OBVIOUS
    <3> QED BY <1>5, <1>8, <1>9, <3>1
  <2> QED BY <2>1, <2>2
<1>13. Total(W) = weight(n) + Total(V)
  <2>1. n \in W
    BY DEF W
  <2> QED BY <1>4, <1>5, <1>8, <1>11, <2>1
<1>14. Total(Pair(n)) = weight(L) + weight(R)
  <2>1. /\ {L, R} \in SUBSET Nodes /\ {R} \in SUBSET Nodes /\ {} \in SUBSET Nodes
        /\ IsFiniteSet({L, R}) /\ IsFiniteSet({R}) /\ IsFiniteSet({})
    <3>1. IsFiniteSet({R}) /\ IsFiniteSet({})
      BY FS_Singleton, FS_EmptySet
    <3>2. {L, R} \subseteq U
      BY <1>3
    <3> QED BY <1>7, <3>1, <3>2, FS_Subset
  <2>2. Total({}) = 0
    BY <1>8, <2>1
  <2>3. Total({R}) = weight(R) + Total({})
    BY <1>5, <1>8, <2>1
  <2>4. Total({L, R}) = weight(L) + Total({R})
    BY <1>5, <1>8, <2>1
  <2> QED BY <1>3, <1>7, <2>2, <2>3, <2>4
<1>15. Total(V) \in Int
  BY <1>4, <1>8, <1>10
<1>16. Saving(n) = weight(L) + weight(R) - weight(n) + DataNodeWeight
  <2>1. Saving(n) = Total(Pair(n)) - weight(n) + DataNodeWeight
    BY DEF Saving
  <2> QED BY <1>1, <1>7, <1>14, <2>1
<1>17. Saving(n) \in Int
  BY <1>1, <1>7, <1>16
<1>18. Whole(W) = Whole(U) - Saving(n)
  <2>1. /\ Whole(U) = Total(U) + Cardinality(U) * DataNodeWeight
        /\ Whole(W) = Total(W) + Cardinality(W) * DataNodeWeight
    BY DEF Whole
  <2>2. PICK c \in Nat : c = Cardinality(U)
    BY <1>9
  <2>3. (c - 1) * DataNodeWeight = c * DataNodeWeight - DataNodeWeight
    BY <1>1
  <2>4. PICK cd \in Int : cd = c * DataNodeWeight
    BY <1>1
  <2>5. Cardinality(W) * DataNodeWeight = cd - DataNodeWeight
    BY <1>11, <2>2, <2>3, <2>4
  <2>6. Cardinality(U) * DataNodeWeight = cd
    BY <2>2, <2>4
  <2> QED BY <1>1, <1>7, <1>12, <1>13, <1>15, <1>16, <2>1, <2>4, <2>5, <2>6
<1> QED BY <1>4, <1>11, <1>17, <1>18 DEF V, W

(* All merges of a level: one after the other.                             *)
LEMMA MergesSave ==
  ASSUME FanoutAssumption, Reckoned, NEW best \in 1 .. MaxLevel, NEW l \in 0 .. best - 1,
         NEW use, Tiled(use, l + 1, best), NEW M, Mergeable(use, M, l)
  PROVE  /\ IsFiniteSet(M) /\ \A n \in M : Saving(n) \in Int
         /\ After(use, M) \in SUBSET Nodes /\ IsFiniteSet(After(use, M))
         /\ Whole(After(use, M)) = Whole(use) - Saved(M)
<1> DEFINE c == Cardinality(M)
           Right(s) == /\ After(use, s) \in SUBSET Nodes /\ IsFiniteSet(After(use, s))
                       /\ Whole(After(use, s)) = Whole(use) - Saved(s)
           P == {m \in 0 .. c : \A s \in SUBSET M : Cardinality(s) = m => Right(s)}
<1>1. /\ MaxLevel \in Nat /\ l \in 0 .. MaxLevel /\ l \in 0 .. MaxLevel - 1
      /\ \A k \in l + 1 .. best : k \in 0 .. MaxLevel /\ k # l
  BY DEF FanoutAssumption
<1>2. M \subseteq Level(l) /\ \A n \in M : Pair(n) \subseteq use
  BY DEF Mergeable
<1>3. IsFiniteSet(M)
  <2>1. IsFiniteSet(Level(l))
    BY <1>1, LevelIs
  <2> QED BY <1>2, <2>1, FS_Subset
<1>4. /\ c \in Nat
      /\ \A s \in SUBSET M : IsFiniteSet(s) /\ Cardinality(s) \in 0 .. c
      /\ \A s \in SUBSET M : Cardinality(s) = 0 <=> s = {}
      /\ \A s \in SUBSET M : \A x \in s : s \ {x} \in SUBSET M /\ Cardinality(s \ {x}) = Cardinality(s) - 1
  BY <1>3, Smaller
<1> HIDE DEF c
<1>5. IsFiniteSet(use) /\ use \in SUBSET Nodes /\ use \cap Level(l) = {}
  <2>1. best \in 0 .. MaxLevel /\ l + 1 \in 0 .. MaxLevel
    BY <1>1
  <2>2. \A n \in use : \E k \in l + 1 .. best : n \in Level(k)
    BY DEF Tiled
  <2>3. \A k \in l + 1 .. best : \A n \in Level(k) : n.level = k
    BY <1>1, LevelIs
  <2>4. \A n \in Level(l) : n.level = l
    BY <1>1, LevelIs
  <2>5. use \cap Level(l) = {}
    BY <1>1, <2>2, <2>3, <2>4
  <2> QED BY <1>1, <2>1, <2>5, TiledNodes
<1>6. Whole(use) \in Int
  BY <1>5, NumbersAre
<1>7. \A n \in M : Saving(n) \in Int
  <2> SUFFICES ASSUME NEW n \in M PROVE Saving(n) \in Int
    OBVIOUS
  <2>1. n \in Level(l) /\ Pair(n) \subseteq use /\ n \notin use
    BY <1>2, <1>5
  <2> QED BY <1>1, <1>5, <2>1, MergeSaves
<1>8. ASSUME NEW s \in SUBSET M
      PROVE  /\ Saved(s) \in Int /\ (s = {} => Saved(s) = 0)
             /\ \A n \in s : Saved(s) = Saving(n) + Saved(s \ {n})
  <2>1. IsFiniteSet(s) /\ \A n \in s : Saving(n) \in Int
    BY <1>4, <1>7
  <2> QED BY <2>1, SavedOf
<1>9. 0 \in P
  <2>1. ASSUME NEW s \in SUBSET M, Cardinality(s) = 0 PROVE Right(s)
    <3>1. s = {}
      BY <1>4, <2>1
    <3>2. After(use, s) = use
      BY <3>1 DEF After
    <3>3. Saved(s) = 0
      BY <1>8, <3>1
    <3> QED BY <1>5, <1>6, <3>2, <3>3
  <2> HIDE DEF Right
  <2> QED BY <1>4, <2>1
<1>10. ASSUME NEW m \in 0 .. c - 1, m \in P PROVE m + 1 \in P
  <2> SUFFICES ASSUME NEW s \in SUBSET M, Cardinality(s) = m + 1
               PROVE  Right(s)
    <3> HIDE DEF Right
    <3> QED BY <1>4
  <2>1. PICK x \in s : TRUE
    BY <1>4
  <2> DEFINE t == s \ {x}
             U == After(use, t)
             W == (U \ Pair(x)) \cup {x}
  <2>2. t \in SUBSET M /\ Cardinality(t) = m
    BY <1>4
  <2>3. Right(t)
    <3> HIDE DEF Right, t
    <3> QED BY <1>10, <2>2
  <2>4. x \in Level(l) /\ Pair(x) \subseteq use /\ x \notin use
    BY <1>2, <1>5
  <2>5. Pair(x) \cap UNION {Pair(n) : n \in t} = {}
    <3>1. \A n \in t : n \in Level(l) /\ n # x
      BY <1>2
    <3>2. \A n \in t : Pair(x) \cap Pair(n) = {}
      BY <1>1, <2>4, <3>1, PairIs
    <3> HIDE DEF t
    <3> QED BY <3>2
  <2>6. Pair(x) \subseteq U
    BY <2>4, <2>5 DEF After
  <2>7. x \notin U
    BY <2>4 DEF After
  <2>8. Pair(x) \cap t = {}
    BY <1>2, <1>5, <2>4
  <2>9. After(use, s) = W
    <3>1. s = t \cup {x}
      OBVIOUS
    <3> PICK X : X = UNION {Pair(n) : n \in t}
      OBVIOUS
    <3>2. UNION {Pair(n) : n \in s} = X \cup Pair(x)
      BY <3>1
    <3> HIDE DEF t
    <3>3. U = (use \ X) \cup t
      BY DEF After
    <3>4. After(use, s) = (use \ (X \cup Pair(x))) \cup (t \cup {x})
      BY <3>1, <3>2 DEF After
    <3> HIDE DEF U
    <3> QED BY <2>8, <3>3, <3>4
  <2>10. U \in SUBSET Nodes /\ IsFiniteSet(U) /\ Whole(U) = Whole(use) - Saved(t)
    BY <2>3
  <2> HIDE DEF t, U
  <2>11. /\ Saving(x) \in Int
         /\ W \in SUBSET Nodes /\ IsFiniteSet(W)
         /\ Whole(W) = Whole(U) - Saving(x)
    BY <1>1, <2>4, <2>6, <2>7, <2>10, MergeSaves
  <2>12. Saved(s) = Saving(x) + Saved(t)
    BY <1>8 DEF t
  <2>13. Saved(t) \in Int
    BY <1>8, <2>2
  <2> HIDE DEF W
  <2>14. Whole(W) = Whole(use) - Saved(s)
    BY <1>6, <2>10, <2>11, <2>12, <2>13
  <2> QED BY <2>9, <2>11, <2>14
<1>11. Right(M)
  <2> HIDE DEF P, Right
  <2>1. \A m \in 0 .. c : m \in P
    BY <1>4, <1>9, <1>10, Induct
  <2>2. c \in P /\ Cardinality(M) = c
    BY <1>4, <2>1 DEF c
  <2>3. \A s \in SUBSET M : Cardinality(s) = c => Right(s)
    BY <2>2 DEF P
  <2> QED BY <2>2, <2>3
<1> QED BY <1>3, <1>7, <1>11

(* A merge for no keys loses nothing.                                      *)
LEMMA EmptySaves ==
  ASSUME FanoutAssumption, Reckoned, NEW l \in 0 .. MaxLevel - 1, NEW n \in Level(l), keys(n) = 0
  PROVE  Saving(n) >= 0
<1> DEFINE L == LeftOf(n)
           R == RightOf(n)
<1>1. MaxLevel \in Nat /\ l \in 0 .. MaxLevel /\ l + 1 \in 0 .. MaxLevel /\ DataNodeWeight \in Nat
  BY DEF FanoutAssumption
<1>2. L \in Level(l + 1) /\ R \in Level(l + 1) /\ L # R
  BY <1>1, PairIs
<1>3. L \in Nodes /\ R \in Nodes /\ n \in Nodes
  BY <1>1, <1>2, LevelIs
<1>4. keys(L) \in Nat /\ keys(R) \in Nat /\ keys(n) = keys(L) + keys(R)
  BY <1>3, NumbersAre DEF Reckoned
<1>5. keys(L) = 0 /\ keys(R) = 0
  BY <1>4
<1>6. weight(L) = 0 /\ weight(R) = 0 /\ weight(n) = 0
  BY <1>3, <1>5, NumbersAre
<1> HIDE DEF L, R
<1>7. \A S : IsFiniteSet(S) /\ (\A m \in S : weight(m) \in Int) =>
        /\ S = {} => Total(S) = 0
        /\ \A m \in S : Total(S) = weight(m) + Total(S \ {m})
  BY TotalOf
<1>8. Total({}) = 0 /\ Total({R}) = 0 + Total({}) /\ Total({L, R}) = 0 + Total({R})
  <2>1. IsFiniteSet({R}) /\ IsFiniteSet({})
    BY FS_Singleton, FS_EmptySet
  <2>2. IsFiniteSet({L, R})
    <3>1. {L, R} = {L} \cup {R} /\ IsFiniteSet({L})
      BY FS_Singleton
    <3> QED BY <2>1, <3>1, FS_Union
  <2>3. {L, R} \ {L} = {R} /\ {R} \ {R} = {}
    BY <1>2
  <2>4. Total({}) = 0
    BY <1>7, <2>1
  <2>5. Total({R}) = 0 + Total({})
    <3>1. Total({R}) = weight(R) + Total({R} \ {R})
      BY <1>6, <1>7, <2>1
    <3> QED BY <1>6, <2>3, <3>1
  <2>6. Total({L, R}) = 0 + Total({R})
    <3>1. Total({L, R}) = weight(L) + Total({L, R} \ {L})
      BY <1>6, <1>7, <2>2
    <3> QED BY <1>6, <2>3, <3>1
  <2> QED BY <2>4, <2>5, <2>6
<1>9. Total(Pair(n)) = 0
  BY <1>8 DEF Pair, L, R
<1>10. Saving(n) = Total(Pair(n)) - weight(n) + DataNodeWeight
  BY DEF Saving
<1> QED BY <1>1, <1>6, <1>9, <1>10

-----------------------------------------------------------------------------
(* Levels.  Their costs, and the best of those tried.                      *)
LEMMA LevelCostIs ==
  ASSUME FanoutAssumption, Reckoned, NEW l \in 0 .. MaxLevel
  PROVE  /\ LevelCost(l) \in Int
         /\ l > 0 => LevelCost(l) = Whole(Level(l)) + (kNodeLookupsWeight * num_keys
                                                       + Pow2[l] * PointerWeight)
         /\ LevelCost(0) <= Whole(Level(0)) + (kNodeLookupsWeight * num_keys + PointerWeight)
<1>1. /\ MaxLevel \in Nat /\ kNodeLookupsWeight \in Nat /\ DataNodeWeight \in Nat
      /\ PointerWeight \in Nat /\ num_keys \in Nat
  BY NumbersAre DEF FanoutAssumption
<1>2. PICK k \in Nat : k = kNodeLookupsWeight * num_keys
  BY <1>1
<1>3. \A i \in 0 .. MaxLevel : Total(Level(i)) \in Int /\ Cardinality(Level(i)) = Pow2[i]
                               /\ Pow2[i] \in Nat
  <2> TAKE i \in 0 .. MaxLevel
  <2>1. IsFiniteSet(Level(i)) /\ Level(i) \in SUBSET Nodes /\ Cardinality(Level(i)) = Pow2[i]
    BY <1>1, LevelIs
  <2> QED BY <1>1, <2>1, Pow2Is, NumbersAre
<1>4. ASSUME NEW i \in 0 .. MaxLevel
      PROVE  /\ Total(Level(i)) + k + Pow2[i] * (DataNodeWeight + PointerWeight)
                  = Whole(Level(i)) + (k + Pow2[i] * PointerWeight)
             /\ Whole(Level(i)) \in Int
  <2>1. PICK p \in Nat : p = Pow2[i]
    BY <1>3
  <2>2. PICK t \in Int : t = Total(Level(i))
    BY <1>3
  <2>3. PICK u \in Int : u = p * DataNodeWeight
    BY <1>1
  <2>4. PICK v \in Int : v = p * PointerWeight
    BY <1>1
  <2>5. p * (DataNodeWeight + PointerWeight) = u + v
    BY <1>1, <2>3, <2>4
  <2>6. Whole(Level(i)) = t + u
    BY <1>3, <2>1, <2>2, <2>3 DEF Whole
  <2>7. t + k + (u + v) = (t + u) + (k + v)
    OBVIOUS
  <2> QED BY <2>1, <2>2, <2>4, <2>5, <2>6, <2>7
<1>5. LevelCost(l) \in Int
  <2>1. CASE l = 0 /\ ~tree.existing
    <3>1. LevelCost(l) = weight(Node(0, 0))
      BY <2>1 DEF LevelCost, weight, num_keys
    <3> QED BY <3>1, NumbersAre
  <2>2. CASE ~(l = 0 /\ ~tree.existing)
    <3>1. LevelCost(l) = Total(Level(l)) + k + Pow2[l] * (DataNodeWeight + PointerWeight)
      BY <1>2, <2>2 DEF LevelCost
    <3>2. Pow2[l] * PointerWeight \in Int
      BY <1>1, <1>3
    <3> QED BY <1>4, <3>1, <3>2
  <2> QED BY <2>1, <2>2
<1>6. l > 0 => LevelCost(l) = Whole(Level(l)) + (k + Pow2[l] * PointerWeight)
  <2>1. l > 0 => LevelCost(l) = Total(Level(l)) + k + Pow2[l] * (DataNodeWeight + PointerWeight)
    BY <1>2 DEF LevelCost
  <2> QED BY <1>4, <2>1
<1>7. LevelCost(0) <= Whole(Level(0)) + (k + PointerWeight)
  <2>1. Pow2[0] = 1 /\ 0 \in 0 .. MaxLevel /\ 1 * PointerWeight = PointerWeight
    BY <1>1, Pow2Is
  <2>2. CASE ~tree.existing
    <3>1. LevelCost(0) = weight(Node(0, 0))
      BY <2>2 DEF LevelCost, weight, num_keys
    <3>2. Total(Level(0)) = weight(Node(0, 0)) + 0
      <4> PICK r : r = Node(0, 0)
        OBVIOUS
      <4>1. Level(0) = {r} /\ weight(r) \in Int /\ {r} \ {r} = {}
        BY NumbersAre
      <4>2. IsFiniteSet({r}) /\ IsFiniteSet({})
        BY FS_Singleton, FS_EmptySet
      <4>3. Total({r}) = weight(r) + Total({r} \ {r})
        BY <4>1, <4>2, TotalOf
      <4>4. Total({}) = 0
        BY <4>2, TotalOf
      <4> QED BY <4>1, <4>3, <4>4
    <3>3. Whole(Level(0)) = Total(Level(0)) + 1 * DataNodeWeight
      BY <1>3, <2>1 DEF Whole
    <3>4. weight(Node(0, 0)) \in Int
      BY NumbersAre
    <3> QED BY <1>1, <1>2, <3>1, <3>2, <3>3, <3>4
  <2>3. CASE tree.existing
    <3>1. LevelCost(0) = Total(Level(0)) + k + Pow2[0] * (DataNodeWeight + PointerWeight)
      BY <1>2, <2>3 DEF LevelCost
    <3>2. LevelCost(0) = Whole(Level(0)) + (k + PointerWeight)
      BY <1>4, <2>1, <3>1
    <3>3. Whole(Level(0)) \in Int
      BY <1>4, <2>1
    <3> QED BY <1>1, <1>2, <3>2, <3>3
  <2>4. tree.existing \in BOOLEAN
    BY DEF Reckoned
  <2> QED BY <2>2, <2>3, <2>4
<1> QED BY <1>2, <1>5, <1>6, <1>7

LEMMA BestIs ==
  ASSUME FanoutAssumption, Reckoned
  PROVE  /\ best_level \in Tried(LevelCosts) /\ best_level \in 0 .. MaxLevel
         /\ 0 \in Tried(LevelCosts)
         /\ \A m \in Tried(LevelCosts) : m \in 0 .. MaxLevel
         /\ \A m \in Tried(LevelCosts) : LevelCost(best_level) <= LevelCost(m)
         /\ best_level > 0 => LevelCost(best_level) < LevelCost(0)
<1> DEFINE c == LevelCosts
           T == Tried(c)
           C == {c[l] : l \in T}
<1>1. MaxLevel \in Nat /\ \A l \in 0 .. MaxLevel : c[l] = LevelCost(l) /\ c[l] \in Int
  BY LevelCostIs DEF FanoutAssumption, LevelCosts
<1> HIDE DEF c
<1>2. T \in SUBSET (0 .. MaxLevel) /\ 0 \in T
  <2>1. 2 .. 0 = {} /\ 0 \in 0 .. MaxLevel
    BY <1>1
  <2> QED BY <2>1 DEF Tried
<1> HIDE DEF T
<1>3. T \in SUBSET Int /\ IsFiniteSet(T)
  <2>1. IsFiniteSet(0 .. MaxLevel)
    BY <1>1, FS_Interval
  <2>2. IsFiniteSet(T)
    BY <1>2, <2>1, FS_Subset
  <2> QED BY <1>2, <2>2
<1>4. C \in SUBSET Int /\ IsFiniteSet(C) /\ C # {}
  <2>1. IsFiniteSet(C)
    <3> DEFINE f == [l \in T |-> c[l]]
    <3>1. f \in Surjection(T, C)
      BY DEF Surjection
    <3> HIDE DEF f, C
    <3> QED BY <1>3, <3>1, FS_Surjection
  <2> QED BY <1>1, <1>2, <2>1
<1>5. PICK v \in C : \A y \in C : v <= y
  <2> HIDE DEF C
  <2> QED BY <1>4, EndsOf
<1> DEFINE B == {l \in T : c[l] = v}
<1>6. B \in SUBSET Int /\ IsFiniteSet(B) /\ B # {}
  <2>1. IsFiniteSet(B)
    BY <1>3, FS_Subset
  <2> QED BY <1>3, <1>5, <2>1
<1>7. PICK b \in B : \A y \in B : b <= y
  <2> HIDE DEF B
  <2> QED BY <1>6, EndsOf
<1>8. b \in T /\ \A m \in T : c[b] <= c[m] /\ (c[b] = c[m] => b <= m)
  BY <1>5, <1>7
<1>9. best_level = CHOOSE l \in T : \A m \in T : c[l] <= c[m] /\ (c[l] = c[m] => l <= m)
  BY DEF best_level, c, T
<1>10. best_level \in T /\ \A m \in T : c[best_level] <= c[m] /\ (c[best_level] = c[m] => best_level <= m)
  BY <1>8, <1>9
<1>11. PICK a : a = best_level
  OBVIOUS
<1>12. a \in 0 .. MaxLevel /\ 0 \in 0 .. MaxLevel /\ \A m \in T : m \in 0 .. MaxLevel
  BY <1>2, <1>10, <1>11
<1>13. a > 0 => c[a] < c[0]
  <2>1. c[a] <= c[0] /\ (c[a] = c[0] => a <= 0)
    BY <1>2, <1>10, <1>11
  <2>2. c[a] \in Int /\ c[0] \in Int /\ a \in Int
    BY <1>1, <1>12
  <2> QED BY <2>1, <2>2
<1>14. \A m \in T : LevelCost(a) <= LevelCost(m)
  BY <1>1, <1>10, <1>11, <1>12
<1>15. a > 0 => LevelCost(a) < LevelCost(0)
  BY <1>1, <1>12, <1>13
<1>16. T = Tried(LevelCosts)
  BY DEF T, c
<1> QED BY <1>2, <1>10, <1>11, <1>12, <1>14, <1>15, <1>16

(* merge_nodes_upwards goes from level to level: its recursion has a       *)
(* solution.                                                               *)
Climbs(f, best) ==
  \A l \in 0 .. best :
    f[l] = IF l = best THEN [use |-> Level(l), cost |-> LevelCost(l)] ELSE MergeLevel(f[l + 1], l)

LEMMA MergesUpwards ==
  ASSUME NEW best, best = best_level, best \in Nat
  PROVE  \E f : Climbs(f, best) /\ merge_nodes_upwards = f[0]
<1> DEFINE Top == [use |-> Level(best), cost |-> LevelCost(best)]
           Solved(f, m) == \A l \in 0 .. best : l >= best - m =>
                             f[l] = IF l = best THEN Top ELSE MergeLevel(f[l + 1], l)
           Made == {m \in 0 .. best : \E f : Solved(f, m)}
<1>1. 0 \in Made
  <2> DEFINE f == [l \in 0 .. best |-> Top]
  <2>1. \A l \in 0 .. best : l >= best - 0 => l = best /\ f[l] = Top
    OBVIOUS
  <2> HIDE DEF Top, f
  <2>2. Solved(f, 0)
    BY <2>1
  <2>3. 0 \in 0 .. best
    OBVIOUS
  <2> HIDE DEF Solved
  <2> QED BY <2>2, <2>3
<1>2. ASSUME NEW m \in 0 .. best - 1, m \in Made PROVE m + 1 \in Made
  <2>1. PICK f : Solved(f, m)
    BY <1>2
  <2> PICK k \in 0 .. best - 1 : k = best - (m + 1)
    OBVIOUS
  <2> DEFINE g == [l \in 0 .. best |-> IF l = k THEN MergeLevel(f[k + 1], k) ELSE f[l]]
  <2>2. \A l \in 0 .. best : l # k => g[l] = f[l]
    OBVIOUS
  <2>3. g[k] = MergeLevel(f[k + 1], k)
    OBVIOUS
  <2> HIDE DEF g, Top
  <2>4. ASSUME NEW l \in 0 .. best, l >= best - (m + 1)
        PROVE  g[l] = IF l = best THEN Top ELSE MergeLevel(g[l + 1], l)
    <3>1. l # best => l + 1 \in 0 .. best /\ l + 1 # k
      BY <2>4
    <3>2. l # best => g[l + 1] = f[l + 1]
      BY <2>2, <3>1
    <3>3. CASE l = k
      BY <2>3, <3>2, <3>3
    <3>4. CASE l # k
      <4>1. l >= best - m
        BY <2>4, <3>4
      <4> QED BY <2>1, <2>2, <3>2, <3>4, <4>1
    <3> QED BY <3>3, <3>4
  <2>5. Solved(g, m + 1)
    BY <2>4
  <2> HIDE DEF Solved
  <2> QED BY <2>5
<1>3. best \in Made
  <2> HIDE DEF Made
  <2>1. \A m \in 0 .. best : m \in Made
    BY <1>1, <1>2, Induct
  <2> QED BY <2>1
<1>4. PICK f0 : Solved(f0, best)
  BY <1>3
<1> DEFINE Loop(f) == [l \in 0 .. best |->
                         IF l = best THEN [use |-> Level(l), cost |-> LevelCost(l)]
                         ELSE MergeLevel(f[l + 1], l)]
           f1 == [l \in 0 .. best |-> f0[l]]
           F == CHOOSE f : f = Loop(f)
<1>5. f1 = Loop(f1)
  <2>1. \A l \in 0 .. best : l >= best - best /\ (l # best => l + 1 \in 0 .. best)
    OBVIOUS
  <2>2. \A l \in 0 .. best : f0[l] = IF l = best THEN Top ELSE MergeLevel(f0[l + 1], l)
    <3> HIDE DEF Top
    <3> QED BY <1>4, <2>1
  <2>3. \A l \in 0 .. best : f1[l] = f0[l]
    OBVIOUS
  <2>4. f1 = [l \in 0 .. best |-> f1[l]]
    OBVIOUS
  <2> HIDE DEF f1
  <2>5. \A l \in 0 .. best :
          f1[l] = IF l = best THEN [use |-> Level(l), cost |-> LevelCost(l)]
                  ELSE MergeLevel(f1[l + 1], l)
    BY <2>1, <2>2, <2>3
  <2> QED BY <2>4, <2>5
<1>6. F = Loop(F)
  <2> HIDE DEF f1, Loop
  <2> QED BY <1>5
<1>7. Climbs(F, best)
  <2> HIDE DEF F
  <2> QED BY <1>6 DEF Climbs
<1>8. merge_nodes_upwards = F[0]
  BY DEF merge_nodes_upwards
<1> HIDE DEF F
<1> QED BY <1>7, <1>8

-----------------------------------------------------------------------------
(* After the merges of level l: what is used are the buckets of the best   *)
(* level, once each; the cost is what it costs, and no merge raised it.    *)
Merged(s, l, best) ==
  /\ Tiled(s.use, l, best)
  /\ s.cost = Whole(s.use) + (kNodeLookupsWeight * num_keys + Pow2[best] * PointerWeight)
  /\ s.cost <= LevelCost(best)

LEMMA MergeKeeps ==
  ASSUME FanoutAssumption, Reckoned, NEW best \in 1 .. MaxLevel, NEW l \in 0 .. best - 1,
         NEW s, Merged(s, l + 1, best)
  PROVE  Merged(MergeLevel(s, l), l, best)
<1> DEFINE use == s.use
           M == {n \in Level(l) : Pair(n) \subseteq use /\ (keys(n) = 0 \/ Saving(n) >= 0)}
           t == MergeLevel(s, l)
<1>1. MaxLevel \in Nat /\ l \in 0 .. MaxLevel - 1 /\ best \in 0 .. MaxLevel
  BY DEF FanoutAssumption
<1>2. t = [use |-> After(use, M), cost |-> s.cost - Saved(M)]
  BY DEF MergeLevel, After
<1>3. Mergeable(use, M, l) /\ \A n \in M : n \in Level(l) /\ (keys(n) = 0 \/ Saving(n) >= 0)
  BY DEF Mergeable
<1>4. /\ Tiled(use, l + 1, best)
      /\ s.cost = Whole(use) + (kNodeLookupsWeight * num_keys + Pow2[best] * PointerWeight)
      /\ s.cost <= LevelCost(best)
  BY DEF Merged
<1> HIDE DEF use, M, t
<1>5. t.use = After(use, M) /\ t.cost = s.cost - Saved(M)
  BY <1>2
<1>6. Tiled(After(use, M), l, best)
  BY <1>1, <1>3, <1>4, MergeTiled
<1>7. /\ IsFiniteSet(M) /\ \A n \in M : Saving(n) \in Int
      /\ After(use, M) \in SUBSET Nodes /\ IsFiniteSet(After(use, M))
      /\ Whole(After(use, M)) = Whole(use) - Saved(M)
  BY <1>3, <1>4, MergesSave
<1>8. \A n \in M : Saving(n) >= 0
  BY <1>1, <1>3, EmptySaves
<1>9. Saved(M) \in Int /\ Saved(M) >= 0
  BY <1>7, <1>8, SavedOf
<1>10. Whole(use) \in Int
  <2>1. l + 1 \in 0 .. MaxLevel
    BY <1>1
  <2>2. IsFiniteSet(use) /\ use \in SUBSET Nodes
    BY <1>1, <1>4, <2>1, TiledNodes
  <2> QED BY <2>2, NumbersAre
<1>11. PICK k \in Int : k = kNodeLookupsWeight * num_keys + Pow2[best] * PointerWeight
  <2>1. kNodeLookupsWeight \in Nat /\ PointerWeight \in Nat /\ num_keys \in Nat
    BY NumbersAre DEF FanoutAssumption
  <2>2. Pow2[best] \in Nat
    BY <1>1, Pow2Is
  <2>3. kNodeLookupsWeight * num_keys \in Int /\ Pow2[best] * PointerWeight \in Int
    BY <2>1, <2>2
  <2> QED BY <2>3
<1>12. LevelCost(best) \in Int
  BY <1>1, LevelCostIs
<1>13. t.cost = Whole(t.use) + k /\ t.cost <= LevelCost(best)
  BY <1>4, <1>5, <1>7, <1>9, <1>10, <1>11, <1>12
<1>14. Merged(t, l, best)
  BY <1>5, <1>6, <1>11, <1>13 DEF Merged
<1> QED BY <1>14 DEF t

LEMMA MergedAll ==
  ASSUME FanoutAssumption, Reckoned, best_level > 0
  PROVE  Merged(merge_nodes_upwards, 0, best_level)
<1>1. PICK best : best = best_level
  OBVIOUS
<1>2. MaxLevel \in Nat /\ best \in 1 .. MaxLevel /\ best \in 0 .. MaxLevel /\ best \in Nat
  <2>1. best \in 0 .. MaxLevel /\ best > 0
    BY <1>1, BestIs
  <2> QED BY <2>1 DEF FanoutAssumption
<1>3. PICK f : Climbs(f, best) /\ merge_nodes_upwards = f[0]
  BY <1>1, <1>2, MergesUpwards
<1> DEFINE P == {i \in 0 .. best : Merged(f[best - i], best - i, best)}
<1>4. 0 \in P
  <2> DEFINE s == [use |-> Level(best), cost |-> LevelCost(best)]
  <2>1. f[best] = s /\ s.use = Level(best) /\ s.cost = LevelCost(best)
    BY <1>2, <1>3 DEF Climbs
  <2>2. Tiled(Level(best), best, best)
    BY <1>2, LevelTiled
  <2>3. LevelCost(best) = Whole(Level(best)) + (kNodeLookupsWeight * num_keys
                                                + Pow2[best] * PointerWeight)
        /\ LevelCost(best) \in Int
    BY <1>2, LevelCostIs
  <2> HIDE DEF s
  <2>4. Merged(s, best, best)
    BY <2>1, <2>2, <2>3 DEF Merged
  <2>5. best - 0 = best /\ 0 \in 0 .. best
    BY <1>2
  <2> QED BY <2>1, <2>4, <2>5
<1>5. ASSUME NEW i \in 0 .. best - 1, i \in P PROVE i + 1 \in P
  <2>1. PICK l \in 0 .. best - 1 : l = best - (i + 1)
    BY <1>2
  <2>2. best - i = l + 1 /\ l # best /\ l \in 0 .. best /\ i + 1 \in 0 .. best
    BY <1>2, <2>1
  <2>3. Merged(f[l + 1], l + 1, best)
    BY <1>5, <2>2
  <2>4. f[l] = MergeLevel(f[l + 1], l)
    BY <1>3, <2>2 DEF Climbs
  <2>5. Merged(f[l], l, best)
    BY <1>2, <2>3, <2>4, MergeKeeps
  <2> QED BY <2>1, <2>2, <2>5
<1>6. best \in P
  <2> HIDE DEF P
  <2>1. \A i \in 0 .. best : i \in P
    BY <1>2, <1>4, <1>5, Induct
  <2> QED BY <1>2, <2>1
<1>7. best - best = 0
  BY <1>2
<1>8. Merged(f[0], 0, best)
  BY <1>6, <1>7
<1> QED BY <1>1, <1>3, <1>8

(* Not divided, the node is the root alone.                                *)
LEMMA NotDivided ==
  ASSUME FanoutAssumption, Reckoned, best_level = 0
  PROVE  merge_nodes_upwards = [use |-> Level(0), cost |-> LevelCost(0)]
<1>1. PICK f : Climbs(f, 0) /\ merge_nodes_upwards = f[0]
  BY MergesUpwards
<1>2. 0 \in 0 .. 0
  OBVIOUS
<1> QED BY <1>1, <1>2 DEF Climbs

-----------------------------------------------------------------------------
(* The nodes that merge_nodes_upwards leaves in use have each bucket of    *)
(* the best level exactly once, for every tree and all weights.            *)
THEOREM UsedTileHolds ==
  ASSUME FanoutAssumption, Reckoned
  PROVE  UsedTile
<1>1. PICK best : best = best_level
  OBVIOUS
<1>2. PICK use : use = merge_nodes_upwards.use
  OBVIOUS
<1>3. MaxLevel \in Nat /\ best \in 0 .. MaxLevel
  BY <1>1, BestIs DEF FanoutAssumption
<1>4. Tiled(use, 0, best)
  <2>1. CASE best > 0
    BY <1>1, <1>2, <2>1, MergedAll DEF Merged
  <2>2. CASE best = 0
    <3>1. use = Level(0)
      BY <1>1, <1>2, <2>2, NotDivided
    <3> QED BY <1>3, <2>2, <3>1, LevelTiled
  <2> QED BY <1>3, <2>1, <2>2
<1>5. ASSUME NEW b \in 0 .. Pow2[best] - 1
      PROVE  Cardinality({n \in use : b \in Span(n, best)}) = 1
  <2>1. PICK m \in use : b \in Span(m, best)
    BY <1>4 DEF Tiled
  <2>2. \A n \in use : b \in Span(n, best) => n = m
    BY <1>4, <2>1 DEF Tiled
  <2>3. {n \in use : b \in Span(n, best)} = {m}
    BY <2>1, <2>2
  <2>4. Cardinality({m}) = 1
    BY FS_Singleton
  <2> QED BY <2>3, <2>4
<1> QED BY <1>1, <1>2, <1>5 DEF UsedTile

(* A node that is divided has two children at least: merged into one, it   *)
(* would cost what the root costs, and not less.                           *)
THEOREM NeverOneChildHolds ==
  ASSUME FanoutAssumption, Reckoned
  PROVE  NeverOneChild
<1>1. SUFFICES ASSUME best_level > 0, Node(0, 0) \in merge_nodes_upwards.use
               PROVE  FALSE
  BY DEF NeverOneChild, Divides
<1>2. PICK best : best = best_level
  OBVIOUS
<1>3. PICK s : s = merge_nodes_upwards
  OBVIOUS
<1>4. PICK root : root = Node(0, 0)
  OBVIOUS
<1>5. MaxLevel \in Nat /\ best \in 0 .. MaxLevel
  BY <1>2, BestIs DEF FanoutAssumption
<1>6. /\ Tiled(s.use, 0, best)
      /\ s.cost = Whole(s.use) + (kNodeLookupsWeight * num_keys + Pow2[best] * PointerWeight)
      /\ s.cost <= LevelCost(best)
  BY <1>1, <1>2, <1>3, MergedAll DEF Merged
<1>7. s.use = Level(0)
  <2>1. Span(root, best) = 0 .. Pow2[best] - 1
    BY <1>4, <1>5, SpanOfEnds
  <2>2. \A n \in s.use : Span(n, best) # {} /\ Span(n, best) \subseteq 0 .. Pow2[best] - 1
    BY <1>6 DEF Tiled
  <2>3. \A n \in s.use : n # root => Span(n, best) \cap Span(root, best) = {}
    BY <1>1, <1>3, <1>4, <1>6 DEF Tiled
  <2>4. \A n \in s.use : n = root
    BY <2>1, <2>2, <2>3
  <2>5. Level(0) = {root}
    BY <1>4, NumbersAre
  <2> QED BY <1>1, <1>3, <1>4, <2>4, <2>5
<1>8. LevelCost(best) < LevelCost(0)
  BY <1>1, <1>2, BestIs
<1>9. LevelCost(0) <= Whole(Level(0)) + (kNodeLookupsWeight * num_keys + PointerWeight)
      /\ LevelCost(0) \in Int /\ LevelCost(best) \in Int
  <2>1. 0 \in 0 .. MaxLevel
    BY <1>5
  <2> QED BY <1>5, <2>1, LevelCostIs
<1>10. Whole(Level(0)) \in Int
  <2>1. 0 \in 0 .. MaxLevel
    BY <1>5
  <2>2. IsFiniteSet(Level(0)) /\ Level(0) \in SUBSET Nodes
    BY <1>5, <2>1, LevelIs
  <2> QED BY <2>2, NumbersAre
<1>11. PointerWeight \in Nat /\ kNodeLookupsWeight \in Nat /\ num_keys \in Nat
  BY NumbersAre DEF FanoutAssumption
<1>12. PICK k \in Int : k = kNodeLookupsWeight * num_keys
  BY <1>11
<1>13. PICK p \in Nat \ {0} : p = Pow2[best]
  BY <1>5, Pow2Is
<1>14. p * PointerWeight >= PointerWeight /\ p * PointerWeight \in Int
  BY <1>11
<1>15. PICK v \in Int : v = p * PointerWeight
  BY <1>14
<1>16. s.cost = Whole(Level(0)) + (k + v) /\ v >= PointerWeight
  BY <1>6, <1>7, <1>12, <1>13, <1>14, <1>15
<1> QED BY <1>6, <1>8, <1>9, <1>10, <1>11, <1>12, <1>16

(* The cost that is returned is what the children in use cost, and at most *)
(* what any level cost that was tried.                                     *)
THEOREM CostOfChildrenHolds ==
  ASSUME FanoutAssumption, Reckoned
  PROVE  CostOfChildren
<1>1. PICK best : best = best_level
  OBVIOUS
<1>2. PICK s : s = merge_nodes_upwards
  OBVIOUS
<1>3. MaxLevel \in Nat /\ best \in 0 .. MaxLevel
  BY <1>1, BestIs DEF FanoutAssumption
<1>4. best > 0 => /\ s.cost = Whole(s.use) + (kNodeLookupsWeight * num_keys
                                              + Pow2[best] * PointerWeight)
                  /\ s.cost <= LevelCost(best)
                  /\ Tiled(s.use, 0, best)
  BY <1>1, <1>2, MergedAll DEF Merged
<1>5. best = 0 => s.cost = LevelCost(best)
  BY <1>1, <1>2, NotDivided
<1>6. LevelCost(best) \in Int
  BY <1>3, LevelCostIs
<1>7. s.cost \in Int /\ s.cost <= LevelCost(best)
  <2>1. CASE best = 0
    BY <1>5, <1>6, <2>1
  <2>2. CASE best > 0
    <3>1. 0 \in 0 .. MaxLevel
      BY <1>3
    <3>2. IsFiniteSet(s.use) /\ s.use \in SUBSET Nodes
      BY <1>3, <1>4, <2>2, <3>1, TiledNodes
    <3>3. Whole(s.use) \in Int
      BY <3>2, NumbersAre
    <3>5. kNodeLookupsWeight \in Nat /\ PointerWeight \in Nat /\ num_keys \in Nat
      BY NumbersAre DEF FanoutAssumption
    <3>6. Pow2[best] \in Nat
      BY <1>3, Pow2Is
    <3>7. kNodeLookupsWeight * num_keys \in Int /\ Pow2[best] * PointerWeight \in Int
      BY <3>5, <3>6
    <3>8. s.cost \in Int
      BY <1>4, <2>2, <3>3, <3>7
    <3> QED BY <1>4, <2>2, <3>8
  <2> QED BY <1>3, <2>1, <2>2
<1>8. \A m \in Tried(LevelCosts) : m \in 0 .. MaxLevel /\ LevelCost(best) <= LevelCost(m)
  BY <1>1, BestIs
<1>9. ASSUME NEW m \in Tried(LevelCosts)
      PROVE  s.cost <= LevelCosts[m]
  <2>1. LevelCosts[m] = LevelCost(m) /\ LevelCost(m) \in Int
    BY <1>8, LevelCostIs DEF LevelCosts
  <2>2. LevelCost(best) <= LevelCost(m)
    BY <1>8
  <2> QED BY <1>6, <1>7, <2>1, <2>2
<1>10. best > 0 => s.cost = Total(s.use) + kNodeLookupsWeight * num_keys
                            + Cardinality(s.use) * DataNodeWeight + Pow2[best] * PointerWeight
  <2> SUFFICES ASSUME best > 0
               PROVE  s.cost = Total(s.use) + kNodeLookupsWeight * num_keys
                               + Cardinality(s.use) * DataNodeWeight + Pow2[best] * PointerWeight
    OBVIOUS
  <2>1. 0 \in 0 .. MaxLevel
    BY <1>3
  <2>2. IsFiniteSet(s.use) /\ s.use \in SUBSET Nodes
    BY <1>3, <1>4, <2>1, TiledNodes
  <2>4. PICK t \in Int : t = Total(s.use)
    BY <2>2, NumbersAre
  <2>5. kNodeLookupsWeight \in Nat /\ PointerWeight \in Nat /\ DataNodeWeight \in Nat
        /\ num_keys \in Nat /\ Pow2[best] \in Nat /\ Cardinality(s.use) \in Nat
    BY <1>3, <2>2, NumbersAre, Pow2Is, FS_CardinalityType DEF FanoutAssumption
  <2>6. PICK k \in Int : k = kNodeLookupsWeight * num_keys
    BY <2>5
  <2>7. PICK v \in Int : v = Pow2[best] * PointerWeight
    BY <2>5
  <2>8. PICK u \in Int : u = Cardinality(s.use) * DataNodeWeight
    BY <2>5
  <2>9. Whole(s.use) = t + u
    BY <2>4, <2>8 DEF Whole
  <2>10. s.cost = (t + u) + (k + v)
    BY <1>4, <2>6, <2>7, <2>9
  <2>11. (t + u) + (k + v) = t + k + u + v
    OBVIOUS
  <2> QED BY <2>4, <2>6, <2>7, <2>8, <2>10, <2>11
<1> QED BY <1>1, <1>2, <1>9, <1>10 DEF CostOfChildren, Divides

-----------------------------------------------------------------------------
(* A leaf is listed once, and was given a number not given before.         *)
Listed ==
  /\ list \in Seq(Nat) /\ created \in Nat
  /\ \A i \in DOMAIN list : list[i] < created
  /\ \A i, j \in DOMAIN list : i # j => list[i] # list[j]

Counted ==
  /\ op_ \in [ToSet(list) -> Nat]
  /\ hot_degree_ \in [ToSet(list) -> Nat]

(* The leaves the walk has passed.                                         *)
Scanned == {list[i] : i \in 2 .. scan - 1}

(* The queue has the hottest of them, as many as it takes.                 *)
Queued ==
  /\ scan \in Nat
  /\ scan # 0 =>
       /\ 2 <= scan /\ scan <= Len(list)
       /\ q \subseteq Scanned /\ IsFiniteSet(q) /\ Cardinality(q) <= hot_node_num
       /\ Cardinality(q) = hot_node_num \/ q = Scanned
       /\ \A c \in Scanned \ q, h \in q : hot_degree_[c] <= hot_degree_[h]

Walk == Listed /\ Counted /\ Queued

-----------------------------------------------------------------------------
(* Which positions a leaf of the list may be at, and what Listed says of   *)
(* the set of leaves.                                                      *)
LEMMA InList ==
  ASSUME Listed
  PROVE  /\ Len(list) \in Nat /\ DOMAIN list = 1 .. Len(list)
         /\ \A i \in DOMAIN list : list[i] \in Nat /\ list[i] \in ToSet(list)
         /\ \A n \in ToSet(list) : \E i \in DOMAIN list : list[i] = n
         /\ ToSet(list) \subseteq 0 .. created - 1
<1>1. Len(list) \in Nat /\ DOMAIN list = 1 .. Len(list) /\ \A i \in DOMAIN list : list[i] \in Nat
  BY DEF Listed
<1>2. /\ \A i \in DOMAIN list : list[i] \in ToSet(list)
      /\ \A n \in ToSet(list) : \E i \in DOMAIN list : list[i] = n
  BY DEF ToSet
<1> QED BY <1>1, <1>2 DEF Listed

(* The leaves between the first and the last are finitely many.            *)
LEMMA InnerIs ==
  ASSUME Listed
  PROVE  Inner \subseteq ToSet(list) /\ IsFiniteSet(Inner)
<1>1. Inner \subseteq ToSet(list)
  BY InList DEF Inner
<1>2. Inner \in SUBSET (0 .. created - 1)
  BY <1>1, InList
<1>3. IsFiniteSet(0 .. created - 1)
  BY FS_Interval DEF Listed
<1> QED BY <1>1, <1>2, <1>3, FS_Subset

-----------------------------------------------------------------------------
(* A split puts two leaves in the place of one.                            *)
Replaced(s, i, left, right) ==
  SubSeq(s, 1, i - 1) \o <<left, right>> \o SubSeq(s, i + 1, Len(s))

LEMMA SplitPlaces ==
  ASSUME Listed, NEW i \in DOMAIN list, NEW left \in Nat, list' = Replaced(list, i, left, created)
  PROVE  /\ list' \in Seq(Nat) /\ DOMAIN list' = 1 .. Len(list) + 1
         /\ list'[i] = left /\ list'[i + 1] = created
         /\ \A x \in DOMAIN list' : x < i => x \in DOMAIN list /\ list'[x] = list[x]
         /\ \A x \in DOMAIN list' : x > i + 1 => x - 1 \in DOMAIN list /\ list'[x] = list[x - 1]
<1>0. /\ Len(list) \in Nat /\ DOMAIN list = 1 .. Len(list)
      /\ i \in Nat /\ 1 <= i /\ i <= Len(list) /\ list \in Seq(Nat) /\ created \in Nat
  BY InList DEF Listed
<1>1. PICK p \in Seq(Nat) : p = <<left, created>>
  <2>1. created \in Nat
    BY DEF Listed
  <2>2. <<left, created>> \in Seq(Nat)
    BY <2>1
  <2> QED BY <2>2
<1>2. Len(p) = 2 /\ p[1] = left /\ p[2] = created
  BY <1>1
<1>2a. Len(p) = 2
  BY <1>2
<1>3. PICK a \in Nat, b \in Nat : a = i - 1 /\ b = i + 1
  BY <1>0
<1>3a. b = a + 2
  BY <1>0, <1>3
<1>4. list' = SubSeq(list, 1, a) \o p \o SubSeq(list, b, Len(list))
  BY <1>1, <1>3 DEF Replaced
<1>5. a < b /\ b <= Len(list) + 1
  BY <1>0, <1>3
<1>6. list' \in Seq(Nat) /\ Spliced(list', list, a, p, b)
  BY <1>0, <1>4, <1>5, SpliceIs
<1>7. /\ Len(list') = a + Len(p) + Len(list) - b + 1
      /\ \A x \in 1 .. a : list'[x] = list[x]
      /\ \A x \in 1 .. Len(p) : list'[a + x] = p[x]
      /\ \A x \in b .. Len(list) : list'[a + Len(p) + x - b + 1] = list[x]
  BY <1>6, Zenon DEF Spliced
<1>8. Len(list') = Len(list) + 1
  <2>1. Len(list') = a + Len(p) + Len(list) - b + 1
    BY <1>7
  <2>2. Len(list') = a + 2 + Len(list) - b + 1
    BY <1>2a, <2>1
  <2>3. \A l \in Nat : a + 2 + l - (a + 2) + 1 = l + 1
    OBVIOUS
  <2>4. Len(list) \in Nat
    BY <1>0
  <2> QED BY <1>3a, <2>2, <2>3, <2>4
<1>9. DOMAIN list' = 1 .. Len(list) + 1
  BY <1>0, <1>6, <1>8
<1>10. list'[i] = left /\ list'[i + 1] = created
  <2>1. list'[a + 1] = p[1] /\ list'[a + 2] = p[2]
    BY <1>2, <1>7
  <2>2. a + 1 = i /\ a + 2 = i + 1
    BY <1>0, <1>3
  <2> QED BY <1>2, <2>1, <2>2
<1>11. ASSUME NEW x \in DOMAIN list', x < i
       PROVE  x \in DOMAIN list /\ list'[x] = list[x]
  <2>1. x \in 1 .. a /\ x \in DOMAIN list
    BY <1>0, <1>3, <1>9, <1>11
  <2> QED BY <1>7, <2>1
<1>12. ASSUME NEW x \in DOMAIN list', x > i + 1
       PROVE  x - 1 \in DOMAIN list /\ list'[x] = list[x - 1]
  <2>1. x \in Int
    BY <1>9
  <2>2. PICK y \in Int : y = x - 1
    BY <2>1
  <2>3. y \in b .. Len(list) /\ y \in DOMAIN list
    <3>1. PICK n \in Nat : n = Len(list)
      BY <1>0
    <3>2. x \in 1 .. n + 1 /\ b = i + 1 /\ i \in Nat
      BY <1>0, <1>3, <1>9, <3>1
    <3>3. y \in b .. n /\ y \in 1 .. n
      BY <1>12, <2>2, <3>2
    <3> QED BY <1>0, <3>1, <3>3
  <2>4. a + Len(p) + y - b + 1 = x
    <3>1. a + 2 + y - b + 1 = x
      <4>1. a + 2 + y - (a + 2) + 1 = y + 1
        OBVIOUS
      <4>2. y + 1 = x
        BY <2>1, <2>2
      <4> QED BY <1>3a, <4>1, <4>2
    <3> QED BY <1>2a, <3>1
  <2>5. list'[a + Len(p) + y - b + 1] = list[y]
    BY <1>7, <2>3
  <2> QED BY <2>2, <2>3, <2>4, <2>5
<1> QED BY <1>6, <1>9, <1>10, <1>11, <1>12

(* No step lists a leaf twice: a new one has a number not yet given.       *)
LEMMA SplitLists ==
  ASSUME Listed, NEW i \in DOMAIN list, NEW both \in BOOLEAN,
         NEW moved \in [1 .. 2 -> 0 .. MaxMoved], Split(i, both, moved)
  PROVE  Listed'
<1>0. /\ i \in Nat /\ created \in Nat /\ list[i] \in Nat /\ list[i] < created
      /\ \A j \in DOMAIN list : list[j] \in Nat /\ list[j] < created
  BY InList DEF Listed
<1>1. PICK left \in Nat : left = IF both THEN created + 1 ELSE list[i]
  BY <1>0
<1>2. list' = Replaced(list, i, left, created)
  BY <1>1 DEF Split, Replaced
<1>3. created' = created + IF both THEN 2 ELSE 1
  BY DEF Split
<1>4. created' \in Nat /\ left < created' /\ created < created' /\ left \in {list[i], created + 1}
  BY <1>0, <1>1, <1>3
<1>5. /\ list' \in Seq(Nat) /\ DOMAIN list' = 1 .. Len(list) + 1
      /\ list'[i] = left /\ list'[i + 1] = created
      /\ \A x \in DOMAIN list' : x < i => x \in DOMAIN list /\ list'[x] = list[x]
      /\ \A x \in DOMAIN list' : x > i + 1 => x - 1 \in DOMAIN list /\ list'[x] = list[x - 1]
  BY <1>2, SplitPlaces
<1>6. /\ Len(list) \in Nat /\ \A x \in DOMAIN list' : x \in Int
      /\ \A x \in DOMAIN list' : x < i \/ x = i \/ x = i + 1 \/ x > i + 1
  <2>1. Len(list) \in Nat
    BY InList
  <2>2. DOMAIN list' = 1 .. Len(list) + 1
    BY <1>5
  <2> QED BY <1>0, <2>1, <2>2
<1>7. \A x \in DOMAIN list' : x # i /\ x # i + 1 =>
        list'[x] # left /\ list'[x] # created /\ list'[x] < created
  <2> SUFFICES ASSUME NEW x \in DOMAIN list', x # i, x # i + 1
               PROVE  list'[x] # left /\ list'[x] # created /\ list'[x] < created
    OBVIOUS
  <2>1. PICK j \in DOMAIN list : j # i /\ list'[x] = list[j]
    <3>1. CASE x < i
      BY <1>0, <1>5, <1>6, <3>1
    <3>2. CASE x > i + 1
      <4>1. x - 1 # i
        BY <1>0, <1>6, <3>2
      <4> QED BY <1>5, <3>2, <4>1
    <3> QED BY <1>6, <3>1, <3>2
  <2>2. list[j] # list[i] /\ list[j] \in Nat /\ list[j] < created
    BY <1>0, <2>1 DEF Listed
  <2> QED BY <1>0, <1>4, <2>1, <2>2
<1>8. \A x \in DOMAIN list' : list'[x] < created'
  <2> TAKE x \in DOMAIN list'
  <2>1. CASE x = i \/ x = i + 1
    BY <1>4, <1>5, <2>1
  <2>2. CASE x # i /\ x # i + 1
    <3>1. list'[x] < created /\ list'[x] \in Nat
      BY <1>5, <1>7, <2>2
    <3> QED BY <1>0, <1>4, <3>1
  <2> QED BY <2>1, <2>2
<1>9. ASSUME NEW x \in DOMAIN list', NEW y \in DOMAIN list', x < y
      PROVE  list'[x] # list'[y]
  <2>0. x \in Int /\ y \in Int /\ left # created
    BY <1>0, <1>4, <1>6
  <2>1. CASE x = i /\ y = i + 1
    BY <1>5, <2>0, <2>1
  <2>2. CASE x \in {i, i + 1} /\ y \notin {i, i + 1}
    BY <1>5, <1>7, <2>2
  <2>3. CASE x \notin {i, i + 1} /\ y \in {i, i + 1}
    BY <1>5, <1>7, <2>3
  <2>4. CASE y < i
    <3>1. x < i
      BY <1>0, <1>9, <2>0, <2>4
    <3> QED BY <1>5, <1>9, <2>0, <2>4, <3>1 DEF Listed
  <2>5. CASE x < i /\ y > i + 1
    <3>1. x # y - 1
      BY <1>0, <2>0, <2>5
    <3> QED BY <1>5, <2>5, <3>1 DEF Listed
  <2>6. CASE x > i + 1
    <3>1. y > i + 1 /\ x - 1 # y - 1
      BY <1>0, <1>9, <2>0, <2>6
    <3> QED BY <1>5, <2>6, <3>1 DEF Listed
  <2> QED BY <1>0, <1>6, <1>9, <2>0, <2>1, <2>2, <2>3, <2>4, <2>5, <2>6
<1>10. \A x, y \in DOMAIN list' : x # y => list'[x] # list'[y]
  BY <1>6, <1>9
<1> QED BY <1>4, <1>5, <1>8, <1>10 DEF Listed

LEMMA MergeLists ==
  ASSUME Listed, NEW i \in DOMAIN list, Merge(i)
  PROVE  Listed' /\ ToSet(list') \subseteq ToSet(list)
<1>0. /\ Len(list) \in Nat /\ DOMAIN list = 1 .. Len(list) /\ i \in 1 .. Len(list)
      /\ list \in Seq(Nat)
  BY InList DEF Listed
<1>1. list' = RemoveAt(list, i) /\ created' = created
  BY DEF Merge
<1>2. /\ list' \in Seq(Nat) /\ Len(list') = Len(list) - 1
      /\ \A x \in 1 .. i - 1 : list'[x] = list[x]
      /\ \A x \in i .. Len(list) - 1 : list'[x] = list[x + 1]
  BY <1>0, <1>1, RemoveIs
<1>3. DOMAIN list' = 1 .. Len(list) - 1
  BY <1>0, <1>2
<1> DEFINE old(x) == IF x < i THEN x ELSE x + 1
<1>4. \A x \in DOMAIN list' : old(x) \in DOMAIN list /\ list'[x] = list[old(x)]
  <2> TAKE x \in DOMAIN list'
  <2>1. CASE x < i
    <3>1. x \in 1 .. i - 1 /\ x \in DOMAIN list
      BY <1>0, <1>3, <2>1
    <3> QED BY <1>2, <2>1, <3>1
  <2>2. CASE ~(x < i)
    <3>1. x \in i .. Len(list) - 1 /\ x + 1 \in DOMAIN list
      BY <1>0, <1>3, <2>2
    <3> QED BY <1>2, <2>2, <3>1
  <2> QED BY <2>1, <2>2
<1>5. \A x, y \in DOMAIN list' : x # y => old(x) # old(y)
  <2>1. i \in Int /\ \A x \in DOMAIN list' : x \in Int
    BY <1>0, <1>3
  <2>2. \A x, y \in Int : x # y => old(x) # old(y)
    BY <2>1
  <2> HIDE DEF old
  <2> QED BY <2>1, <2>2
<1> HIDE DEF old
<1>6. ToSet(list') \subseteq ToSet(list)
  BY <1>4 DEF ToSet
<1> QED BY <1>1, <1>2, <1>4, <1>5, <1>6 DEF Listed

(* The counts are those of the leaves of the list.                         *)
LEMMA SplitCounts ==
  ASSUME HotAssumption, Listed, Counted, NEW i \in DOMAIN list, NEW both \in BOOLEAN,
         NEW moved \in [1 .. 2 -> 0 .. MaxMoved], Split(i, both, moved)
  PROVE  Counted'
<1> DEFINE new == created .. created + (IF both THEN 2 ELSE 1) - 1
<1>0. i \in Nat /\ created \in Nat /\ list[i] \in Nat
  BY InList DEF Listed
<1>1. PICK left \in Nat : left = IF both THEN created + 1 ELSE list[i]
  BY <1>0
<1>2. list' = Replaced(list, i, left, created)
  BY <1>1 DEF Split, Replaced
<1>3. /\ op_' = [m \in ToSet(list') |-> IF m \in new THEN moved[m - created + 1] ELSE op_[m]]
      /\ hot_degree_' = [m \in ToSet(list') |->
                           IF m \in new THEN <<0, 0>>[m - created + 1] ELSE hot_degree_[m]]
  BY DEF Split
<1>4. /\ \A m \in new : m - created + 1 \in {1, 2}
      /\ left \in new \cup {list[i]} /\ created \in new
  BY <1>0, <1>1
<1> HIDE DEF new
<1>5. ToSet(list') \subseteq ToSet(list) \cup new
  <2> SUFFICES ASSUME NEW x \in DOMAIN list'
               PROVE  list'[x] \in ToSet(list) \cup new
    BY DEF ToSet
  <2>1. list'[x] \in {left, created} \/ \E j \in DOMAIN list : list'[x] = list[j]
    <3>1. /\ DOMAIN list' = 1 .. Len(list) + 1 /\ Len(list) \in Nat
          /\ list'[i] = left /\ list'[i + 1] = created
          /\ x < i => x \in DOMAIN list /\ list'[x] = list[x]
          /\ x > i + 1 => x - 1 \in DOMAIN list /\ list'[x] = list[x - 1]
      BY <1>2, SplitPlaces, InList
    <3>2. x < i \/ x = i \/ x = i + 1 \/ x > i + 1
      BY <1>0, <3>1
    <3> QED BY <3>1, <3>2
  <2> QED BY <1>4, <2>1, InList
<1>6. \A x \in {1, 2} : moved[x] \in Nat /\ <<0, 0>>[x] \in Nat
  BY DEF HotAssumption
<1>7. \A m \in ToSet(list') \ new : op_[m] \in Nat /\ hot_degree_[m] \in Nat
  BY <1>5 DEF Counted
<1>8. op_' \in [ToSet(list') -> Nat]
  BY <1>3, <1>4, <1>6, <1>7
<1>9. hot_degree_' \in [ToSet(list') -> Nat]
  <2> DEFINE zero == <<0, 0>>
  <2>1. \A x \in {1, 2} : zero[x] \in Nat
    OBVIOUS
  <2>2. hot_degree_' = [m \in ToSet(list') |-> IF m \in new THEN zero[m - created + 1] ELSE hot_degree_[m]]
    BY <1>3
  <2> HIDE DEF zero
  <2> QED BY <1>4, <1>7, <2>1, <2>2
<1> QED BY <1>8, <1>9 DEF Counted

-----------------------------------------------------------------------------
(* What a step of the walk does.  The leaf that is pushed was not in the   *)
(* queue, so that aging it leaves the degrees of the others.               *)
LEMMA ScanKeeps ==
  ASSUME HotAssumption, Walk, ScanLeaf
  PROVE  Walk'
<1> DEFINE n == list[scan]
           d == hot_degree_'
<1>0. /\ Len(list) \in Nat /\ DOMAIN list = 1 .. Len(list) /\ scan \in Nat /\ scan # 0
      /\ 2 <= scan /\ scan <= Len(list) - 1 /\ scan \in DOMAIN list
      /\ list' = list /\ created' = created /\ scan' = scan + 1
  BY InList DEF Walk, Queued, ScanLeaf
<1>1. n \in ToSet(list)
  BY <1>0, InList DEF Walk
<1>2. Listed'
  BY <1>0 DEF Walk, Listed
<1>3. Aged(n) \in Nat
  <2>1. hot_degree_[n] \in Nat /\ op_[n] \in Nat /\ Unit \in Nat
    BY <1>1 DEF Walk, Counted, HotAssumption
  <2>2. op_[n] * Unit \in Nat
    BY <2>1
  <2> QED BY <2>1, <2>2 DEF Aged
<1>4. d = [hot_degree_ EXCEPT ![n] = Aged(n)] /\ op_' = [op_ EXCEPT ![n] = 0]
  BY DEF ScanLeaf, AgedDegree
<1>5. Counted'
  BY <1>0, <1>1, <1>3, <1>4 DEF Walk, Counted
<1>6. Scanned' = Scanned \cup {n} /\ Scanned \subseteq ToSet(list)
  <2>1. Scanned' = {list[i] : i \in 2 .. scan + 1 - 1}
    BY <1>0 DEF Scanned
  <2>2. 2 .. scan + 1 - 1 = (2 .. scan - 1) \cup {scan}
    BY <1>0
  <2>3. \A i \in 2 .. scan - 1 : i \in DOMAIN list
    BY <1>0
  <2>4. Scanned' = Scanned \cup {n}
    <3> HIDE DEF n
    <3>1. n = list[scan]
      BY DEF n
    <3>2. \A i \in 2 .. scan + 1 - 1 : i \in 2 .. scan - 1 \/ i = scan
      BY <2>2
    <3>3. \A i \in 2 .. scan - 1 : i \in 2 .. scan + 1 - 1
      BY <2>2
    <3>4. scan \in 2 .. scan + 1 - 1
      BY <2>2
    <3> QED BY <2>1, <3>1, <3>2, <3>3, <3>4, Zenon DEF Scanned
  <2>5. Scanned \subseteq ToSet(list)
    BY <2>3, InList, Zenon DEF Scanned, Walk
  <2> QED BY <2>4, <2>5
<1>7. n \notin Scanned
  <2>1. \A i \in 2 .. scan - 1 : i \in DOMAIN list /\ i # scan
    BY <1>0
  <2> QED BY <1>0, <2>1 DEF Scanned, Walk, Listed
<1>8. /\ q \subseteq Scanned /\ IsFiniteSet(q) /\ Cardinality(q) \in Nat
      /\ Cardinality(q) <= hot_node_num /\ hot_node_num \in Nat \ {0}
      /\ Cardinality(q) = hot_node_num \/ q = Scanned
      /\ \A c \in Scanned \ q, h \in q : hot_degree_[c] <= hot_degree_[h]
  <2>1. /\ q \subseteq Scanned /\ IsFiniteSet(q) /\ Cardinality(q) <= hot_node_num
        /\ Cardinality(q) = hot_node_num \/ q = Scanned
        /\ \A c \in Scanned \ q, h \in q : hot_degree_[c] <= hot_degree_[h]
    BY <1>0 DEF Walk, Queued
  <2> QED BY <2>1, FS_CardinalityType DEF HotAssumption
<1>9. /\ \A m \in Scanned : d[m] = hot_degree_[m] /\ d[m] \in Int
      /\ d[n] \in Int
  <2>1. \A m \in Scanned : m \in ToSet(list) /\ m # n
    BY <1>6, <1>7
  <2> QED BY <1>1, <1>3, <1>4, <2>1 DEF Walk, Counted
<1>10. /\ q' \subseteq Scanned' /\ IsFiniteSet(q') /\ Cardinality(q') <= hot_node_num
       /\ Cardinality(q') = hot_node_num \/ q' = Scanned'
       /\ \A c \in Scanned' \ q', h \in q' : d[c] <= d[h]
  <2>0. Push(n, d)
    BY DEF ScanLeaf
  <2> HIDE DEF n, d
  <2>1. CASE Cardinality(q) < hot_node_num
    <3>1. q' = q \cup {n}
      BY <2>0, <2>1 DEF Push
    <3>2. q = Scanned /\ n \notin q
      BY <1>7, <1>8, <2>1
    <3>3. IsFiniteSet(q') /\ Cardinality(q') = Cardinality(q) + 1
      BY <1>8, <3>1, <3>2, FS_AddElement
    <3> QED BY <1>6, <1>8, <2>1, <3>1, <3>2, <3>3
  <2>2. CASE Cardinality(q) = hot_node_num
    <3>1. PICK m \in q : /\ \A y \in q : d[m] <= d[y]
                         /\ q' = IF d[m] < d[n] THEN (q \ {m}) \cup {n} ELSE q
      BY <1>8, <2>0, <2>2 DEF Push
    <3>2. CASE d[m] < d[n]
      <4>1. q' = (q \ {m}) \cup {n} /\ n \notin q \ {m} /\ m # n
        BY <1>7, <1>8, <3>1, <3>2
      <4>2. IsFiniteSet(q \ {m}) /\ Cardinality(q \ {m}) = Cardinality(q) - 1
        BY <1>8, <3>1, FS_RemoveElement
      <4>3. IsFiniteSet(q') /\ Cardinality(q') = Cardinality(q)
        <5> DEFINE kept == q \ {m}
        <5>1. IsFiniteSet(kept) /\ n \notin kept /\ q' = kept \cup {n}
          BY <4>1, <4>2
        <5>2. Cardinality(kept) = Cardinality(q) - 1
          BY <4>2
        <5> HIDE DEF kept
        <5>3. IsFiniteSet(q') /\ Cardinality(q') = Cardinality(kept) + 1
          BY <5>1, FS_AddElement
        <5> QED BY <1>8, <5>2, <5>3
      <4>4. \A c \in Scanned' \ q' : c \in Scanned /\ d[c] <= d[m]
        BY <1>6, <1>8, <1>9, <3>1, <4>1
      <4>5. \A h \in q' : h = n \/ (h \in Scanned /\ d[m] <= d[h])
        BY <1>8, <3>1, <4>1
      <4>6. \A c \in Scanned' \ q', h \in q' : d[c] <= d[h]
        BY <1>8, <1>9, <3>1, <3>2, <4>4, <4>5
      <4> QED BY <1>6, <1>8, <2>2, <4>1, <4>3, <4>6
    <3>3. CASE ~(d[m] < d[n])
      <4>1. q' = q
        BY <3>1, <3>3
      <4>2. \A h \in q : d[n] <= d[h]
        BY <1>8, <1>9, <3>1, <3>3
      <4> QED BY <1>6, <1>8, <1>9, <2>2, <4>1, <4>2
    <3> QED BY <3>2, <3>3
  <2> QED BY <1>8, <2>1, <2>2
<1>11. Queued'
  <2>1. scan' \in Nat /\ 2 <= scan' /\ scan' <= Len(list')
    BY <1>0
  <2> QED BY <1>10, <2>1 DEF Queued
<1> QED BY <1>2, <1>5, <1>11 DEF Walk

LEMMA WalkBegins ==
  ASSUME HotAssumption, HotInit
  PROVE  Walk
<1>1. list = <<1>> /\ created = 2 /\ op_ = <<0>> /\ hot_degree_ = <<0>> /\ scan = 0
  BY DEF HotInit
<1>2. DOMAIN list = {1} /\ list[1] = 1 /\ list \in Seq(Nat)
  BY <1>1
<1>3. ToSet(list) = {1}
  BY <1>2 DEF ToSet
<1>4. op_ \in [{1} -> Nat] /\ hot_degree_ \in [{1} -> Nat]
  BY <1>1
<1> QED BY <1>1, <1>2, <1>3, <1>4 DEF Walk, Listed, Counted, Queued

LEMMA WalkGoesOn ==
  ASSUME HotAssumption, Walk, [HotNext]_vars
  PROVE  Walk'
<1>0. /\ Listed /\ Counted /\ Queued
  BY DEF Walk
<1>1. ASSUME NEW n \in ToSet(list), Call(n) PROVE Walk'
  <2>1. /\ list' = list /\ created' = created /\ hot_degree_' = hot_degree_ /\ scan = 0 /\ scan' = 0
        /\ op_' = [op_ EXCEPT ![n] = @ + 1]
    BY <1>1 DEF Call
  <2>2. Listed' /\ Queued'
    BY <1>0, <2>1 DEF Listed, Queued
  <2>3. op_[n] + 1 \in Nat
    BY <1>0 DEF Counted
  <2>4. Counted'
    BY <1>0, <2>1, <2>3 DEF Counted
  <2> QED BY <2>2, <2>4 DEF Walk
<1>2. ASSUME NEW i \in DOMAIN list, NEW both \in BOOLEAN, NEW moved \in [1 .. 2 -> 0 .. MaxMoved],
             Split(i, both, moved)
      PROVE  Walk'
  <2>1. scan' = 0
    BY <1>2 DEF Split
  <2> QED BY <1>0, <1>2, <2>1, SplitLists, SplitCounts DEF Walk, Queued
<1>3. ASSUME NEW i \in DOMAIN list, Merge(i) PROVE Walk'
  <2>1. /\ op_' = [m \in ToSet(list') |-> op_[m]] /\ hot_degree_' = [m \in ToSet(list') |-> hot_degree_[m]]
        /\ scan' = 0
    BY <1>3 DEF Merge, Restrict
  <2>2. Listed' /\ ToSet(list') \subseteq ToSet(list)
    BY <1>0, <1>3, MergeLists
  <2>3. Counted'
    BY <1>0, <2>1, <2>2 DEF Counted
  <2> QED BY <2>1, <2>2, <2>3 DEF Walk, Queued
<1>4. CASE BeginAdjust
  <2>1. /\ list' = list /\ created' = created /\ op_' = op_ /\ hot_degree_' = hot_degree_
        /\ scan' = 2 /\ q' = {} /\ Len(list) > 2
    BY <1>4 DEF BeginAdjust
  <2>2. Listed' /\ Counted'
    BY <1>0, <2>1 DEF Listed, Counted
  <2>3. Scanned' = {}
    <3>1. 2 .. 2 - 1 = {}
      OBVIOUS
    <3> QED BY <2>1, <3>1 DEF Scanned
  <2>4. IsFiniteSet({}) /\ Cardinality({}) = 0 /\ Len(list) \in Nat
    BY <1>0, FS_EmptySet, InList
  <2>5. Queued'
    BY <2>1, <2>3, <2>4 DEF Queued, HotAssumption
  <2> QED BY <2>2, <2>5 DEF Walk
<1>5. CASE ScanLeaf
  BY <1>5, ScanKeeps
<1>6. CASE SwitchLeaves
  <2>1. /\ list' = list /\ created' = created /\ op_' = op_ /\ hot_degree_' = hot_degree_ /\ scan' = 0
    BY <1>6 DEF SwitchLeaves
  <2> QED BY <1>0, <2>1 DEF Walk, Listed, Counted, Queued
<1>7. CASE UNCHANGED vars
  BY <1>0, <1>7 DEF vars, Walk, Listed, Counted, Queued, Scanned
<1> QED BY <1>1, <1>2, <1>3, <1>4, <1>5, <1>6, <1>7 DEF HotNext

-----------------------------------------------------------------------------
(* AdjustNodeType: after the second walk as many inner leaves are hot as   *)
(* were asked for, or all; no cold one was used more than a hot one that   *)
(* the queue had chosen; and none more is hot unless two of the leaves     *)
(* agree in the bits of their identifiers that the map keeps.              *)
THEOREM HottestAreHotHolds ==
  ASSUME HotAssumption
  PROVE  HotSpec => HottestAreHot
<1>1. HotSpec => []Walk
  <2>1. HotInit => Walk
    BY WalkBegins
  <2>2. Walk /\ [HotNext]_vars => Walk'
    BY WalkGoesOn
  <2> QED BY <2>1, <2>2, PTL DEF HotSpec
<1>2. Walk /\ [HotNext]_vars => [Chosen]_vars
  <2> SUFFICES ASSUME Walk, [HotNext]_vars, scan > 0, scan' = 0
               PROVE  LET hot == Inner \ cold'
                      IN  /\ Cardinality(hot) >= hot_node_num \/ hot = Inner
                          /\ \A c \in Inner \ hot, h \in hot :
                               \E g \in hot : Key16(g) = Key16(h) /\ hot_degree_[c] <= hot_degree_[g]
                          /\ (\A m, n \in Inner : Key16(m) = Key16(n) => m = n)
                             => Cardinality(hot) <= hot_node_num
    BY DEF Chosen
  <2>0. scan \in Nat /\ scan # 0
    BY DEF Walk, Queued
  <2>1. SwitchLeaves
    <3>1. ~UNCHANGED vars
      BY <2>0 DEF vars
    <3>2. ~BeginAdjust /\ ~ScanLeaf
      BY <2>0 DEF BeginAdjust, ScanLeaf
    <3>3. /\ \A n \in ToSet(list) : ~Call(n)
          /\ \A i \in DOMAIN list : ~Merge(i)
          /\ \A i \in DOMAIN list, both \in BOOLEAN : \A moved \in [1 .. 2 -> 0 .. MaxMoved] :
               ~Split(i, both, moved)
      BY <2>0 DEF Call, Merge, Split
    <3> QED BY <3>1, <3>2, <3>3 DEF HotNext
  <2> DEFINE hot == Inner \ cold'
  <2>2. /\ cold' = (cold \ Inner) \cup {n \in Inner : Key16(n) \notin {Key16(m) : m \in q}}
        /\ scan = Len(list)
    BY <2>1 DEF SwitchLeaves
  <2>3. hot = {n \in Inner : \E m \in q : Key16(n) = Key16(m)}
    BY <2>2
  <2>4. /\ q \subseteq Inner /\ IsFiniteSet(q) /\ Cardinality(q) <= hot_node_num
        /\ Cardinality(q) = hot_node_num \/ q = Inner
        /\ \A c \in Inner \ q, h \in q : hot_degree_[c] <= hot_degree_[h]
    <3>1. Scanned = Inner
      BY <2>2 DEF Scanned, Inner
    <3> QED BY <2>0, <3>1 DEF Walk, Queued
  <2>5. q \subseteq hot /\ hot \subseteq Inner
    BY <2>3, <2>4
  <2> HIDE DEF hot
  <2>6. IsFiniteSet(hot) /\ Cardinality(q) <= Cardinality(hot) /\ Cardinality(hot) \in Nat
        /\ Cardinality(q) \in Nat
    <3>1. IsFiniteSet(hot)
      BY <2>5, InnerIs, FS_Subset DEF Walk
    <3> QED BY <2>4, <2>5, <3>1, FS_Subset, FS_CardinalityType
  <2>7. Cardinality(hot) >= hot_node_num \/ hot = Inner
    BY <2>4, <2>5, <2>6 DEF HotAssumption
  <2>8. ASSUME NEW c \in Inner \ hot, NEW h \in hot
        PROVE  \E g \in hot : Key16(g) = Key16(h) /\ hot_degree_[c] <= hot_degree_[g]
    <3>1. PICK g \in q : Key16(h) = Key16(g)
      BY <2>3
    <3>2. c \in Inner \ q /\ g \in hot
      BY <2>5
    <3> QED BY <2>4, <3>1, <3>2
  <2>9. ASSUME \A m, n \in Inner : Key16(m) = Key16(n) => m = n
        PROVE  Cardinality(hot) <= hot_node_num
    <3>1. hot = q
      BY <2>3, <2>4, <2>5, <2>9
    <3> QED BY <2>4, <3>1
  <2> QED BY <2>7, <2>8, <2>9 DEF hot
<1> QED BY <1>1, <1>2, PTL DEF HotSpec, HottestAreHot
=============================================================================
