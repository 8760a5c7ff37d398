---------------------------- MODULE HBTree_proofs ----------------------------
(***************************************************************************)
(* The types of the hybrid tree's state and the producers of its logs, for *)
(* any keys, nodes, log size and schedule.  TypeOK is not inductive: that  *)
(* a piece still to be split is a leaf, that an inner node is left for it, *)
(* and that a node waiting for its leaf is in the chain, is what State     *)
(* says besides; that the entry a worker splits at is there, is Producers. *)
(* Each needs the other, so that the two are proved together.              *)
(***************************************************************************)
EXTENDS HBTree, Ordering_proofs

-----------------------------------------------------------------------------
(* The inner nodes made so far are the first ones.                         *)
Numbered == created = 0 .. Cardinality(created) - 1

(* Every key is in the range of one leaf.                                  *)
Sorted ==
  /\ leaves[1].from = 0
  /\ \A x, y \in DOMAIN leaves : x < y => leaves[x].from < leaves[y].from

Inners == \A x \in DOMAIN leaves : leaves[x].inner \in created

(* What the call under way knows of the leaves and inner nodes.            *)
Splitting == client.at \in {"split", "wait"}

Begun ==
  /\ client.at # "idle" => client.key \in Keys /\ client.op \in {"insert", "erase"}
  /\ client.at = "merge" => client.leaf \in DOMAIN leaves

ToSplit ==
  Splitting =>
    /\ client.todo # <<>> /\ \A j \in DOMAIN client.todo : client.todo[j] \in DOMAIN leaves
    /\ client.old \in created
    /\ Cardinality(created) + Len(client.todo)
         <= Cardinality(Nodes) + (IF client.at = "wait" THEN 1 ELSE 0)

Waiting ==
  client.at = "wait" => client.leaf \in created \ cold /\ client.leaf # client.old

(* A split entry is the last of its log and its call waits for it, until   *)
(* the worker has set the latch: then it is the first.                     *)
SplitEntries ==
  \A n \in Nodes : \A i \in DOMAIN log[n] :
    log[n][i].type = "split" =>
      \/ i = 1 /\ worker[n].at = "prune"
      \/ /\ client.at = "wait" /\ client.old = n /\ client.leaf = log[n][i].to
         /\ i = Len(log[n]) /\ ~split_[n]

InSplit ==
  \A n \in Nodes :
    /\ worker[n].at # "idle" => log[n] # <<>> /\ log[n][1].type = "split"
    /\ worker[n].at = "move" => worker[n].i > 0

(* The chain has each inner node that is not freed, once.                  *)
ChainOnce ==
  /\ freed \subseteq to_be_recycled
  /\ \A p, q \in DOMAIN chain : chain[p] = chain[q] => p = q
  /\ \A p \in DOMAIN chain : chain[p] \in created \ freed
  /\ \A n \in created \ freed : \E p \in DOMAIN chain : chain[p] = n

State == TypeOK /\ Numbered /\ Sorted /\ Inners /\ Begun /\ ToSplit /\ Waiting /\ ChainOnce
Producers == SplitEntries /\ InSplit

-----------------------------------------------------------------------------
(* There is a leaf, and every leaf has an inner node, a least key and      *)
(* data.                                                                   *)
LEMMA LeafTypes ==
  ASSUME TypeOK
  PROVE  /\ leaves \in Seq(LeafType) /\ Len(leaves) \in Nat \ {0} /\ DOMAIN leaves = 1 .. Len(leaves)
         /\ \A x \in DOMAIN leaves :
              leaves[x].inner \in Nodes /\ leaves[x].from \in Nat /\ leaves[x].data \in Contents
<1>1. leaves \in Seq(LeafType) /\ leaves # <<>>
  BY DEF TypeOK
<1>2. Len(leaves) \in Nat \ {0} /\ DOMAIN leaves = 1 .. Len(leaves)
  BY <1>1
<1>3. \A x \in DOMAIN leaves : leaves[x] \in LeafType
  BY <1>1
<1> QED BY <1>1, <1>2, <1>3 DEF LeafType

(* Every key has a leaf: the last one that begins at it or below it.       *)
LEMMA LeafOfIs ==
  ASSUME TypeOK, Sorted, NEW k \in Nat
  PROVE  /\ LeafOf(k) \in DOMAIN leaves /\ leaves[LeafOf(k)].from <= k
         /\ \A j \in LeafOf(k) + 1 .. Len(leaves) : k < leaves[j].from
<1> DEFINE S == {x \in DOMAIN leaves : leaves[x].from <= k}
<1>1. S \in SUBSET Int /\ IsFiniteSet(S) /\ S # {}
  <2>1. S \in SUBSET (1 .. Len(leaves)) /\ IsFiniteSet(1 .. Len(leaves))
    BY LeafTypes, FS_Interval
  <2>2. 1 \in S
    BY LeafTypes DEF Sorted
  <2>3. S \in SUBSET Int
    BY <2>1
  <2> HIDE DEF S
  <2> QED BY <2>1, <2>2, <2>3, FS_Subset
<1>2. PICK i \in S : \A x \in S : x <= i
  <2> HIDE DEF S
  <2> QED BY <1>1, EndsOf
<1>3. \A j \in i + 1 .. Len(leaves) : k < leaves[j].from
  <2> TAKE j \in i + 1 .. Len(leaves)
  <2>1. i \in 1 .. Len(leaves) /\ Len(leaves) \in Nat
    BY LeafTypes
  <2>2. j \in DOMAIN leaves /\ j \notin S
    BY <1>2, <2>1, LeafTypes
  <2> QED BY <2>2, LeafTypes
<1>4. i \in DOMAIN leaves /\ leaves[i].from <= k
  OBVIOUS
<1>5. \E x \in DOMAIN leaves : leaves[x].from <= k /\ \A j \in x + 1 .. Len(leaves) : k < leaves[j].from
  BY <1>3, <1>4
<1> QED BY <1>5 DEF LeafOf

(* The pieces of leaf i, divided at the keys of B, have its inner node and *)
(* lie one after the other in its range.                                   *)
LEMMA DivideIs ==
  ASSUME TypeOK, Sorted, NEW i \in DOMAIN leaves, NEW B \in SUBSET Keys, Inside(i, B)
  PROVE  /\ Cardinality(B) \in Nat /\ (B # {} => Cardinality(B) > 0)
         /\ Divide(i, B) \in Seq(LeafType) /\ Len(Divide(i, B)) = Cardinality(B) + 1
         /\ \A j \in 1 .. Cardinality(B) + 1 :
              /\ Divide(i, B)[j].inner = leaves[i].inner
              /\ leaves[i].from <= Divide(i, B)[j].from
              /\ i < Len(leaves) => Divide(i, B)[j].from < leaves[i + 1].from
         /\ Divide(i, B)[1].from = leaves[i].from
         /\ \A j, l \in 1 .. Cardinality(B) + 1 :
              j < l => Divide(i, B)[j].from < Divide(i, B)[l].from
<1> DEFINE f == leaves[i].from
           S == {f} \cup B
           n == Cardinality(B)
           starts == Ordered(S)
           in(j, k) == starts[j] <= k /\ (j < Len(starts) => k < starts[j + 1])
<1>1. IsFiniteSet(B) /\ B \in SUBSET Nat /\ f \in Nat /\ f \notin B /\ \A b \in B : f < b
  <2>1. IsFiniteSet(B) /\ B \in SUBSET Nat
    BY KeysAssumption, FS_Subset
  <2>2. f \in Nat
    BY LeafTypes
  <2>3. \A b \in B : f < b
    BY DEF Inside
  <2>4. f \notin B
    <3> HIDE DEF f
    <3> QED BY <2>2, <2>3
  <2> QED BY <2>1, <2>2, <2>3, <2>4
<1>2. n \in Nat /\ (B # {} => n > 0)
  BY <1>1, FS_CardinalityType, FS_EmptySet
<1>3. S \in SUBSET Int /\ IsFiniteSet(S) /\ Cardinality(S) = n + 1
  <2>1. S = B \cup {f}
    OBVIOUS
  <2> HIDE DEF f, S
  <2>2. IsFiniteSet(B \cup {f}) /\ Cardinality(B \cup {f}) = n + 1
    BY <1>1, FS_AddElement
  <2> QED BY <2>1, <2>2, <1>1
<1>4. /\ starts \in [1 .. n + 1 -> S] /\ \A j, l \in 1 .. n + 1 : j < l => starts[j] < starts[l]
      /\ \A x \in S : \E j \in 1 .. n + 1 : starts[j] = x
  <2> HIDE DEF S, n
  <2> QED BY <1>3, OrderedIs
<1>5. Len(starts) = n + 1 /\ DOMAIN starts = 1 .. n + 1
  <2> HIDE DEF starts, n, S
  <2> QED BY <1>2, <1>4
<1>6. \A j \in 1 .. n + 1 : starts[j] \in S /\ starts[j] \in Nat
  BY <1>1, <1>4
<1>7. starts[1] = f
  <2>1. PICK j \in 1 .. n + 1 : starts[j] = f
    BY <1>4
  <2>2. SUFFICES ASSUME j # 1 PROVE FALSE
    BY <2>1
  <2>3. 1 \in 1 .. n + 1 /\ starts[1] < starts[j]
    <3>1. 1 \in 1 .. n + 1 /\ 1 < j
      BY <2>2, <1>2
    <3> HIDE DEF starts, n
    <3> QED BY <3>1, <1>4
  <2>4. starts[1] \in B
    BY <2>3, <1>6, <2>1, <1>1
  <2> QED BY <2>3, <2>4, <2>1, <1>1
<1>8. \A j \in 1 .. n + 1 : f <= starts[j] /\ (i < Len(leaves) => starts[j] < leaves[i + 1].from)
  <2>1. i < Len(leaves) => i + 1 \in DOMAIN leaves /\ i < i + 1
    BY LeafTypes
  <2>2. i < Len(leaves) => f < leaves[i + 1].from
    BY <2>1 DEF Sorted
  <2>3. \A x \in B : f < x /\ (i < Len(leaves) => x < leaves[i + 1].from)
    BY DEF Inside
  <2>4. \A x \in S : f <= x /\ (i < Len(leaves) => x < leaves[i + 1].from)
    <3> HIDE DEF f
    <3> QED BY <2>2, <2>3, <1>1
  <2> HIDE DEF f, S
  <2> QED BY <2>4, <1>6
<1>9. Divide(i, B) = [j \in 1 .. n + 1 |-> Leaf(leaves[i].inner, starts[j],
                        [k \in Keys |-> IF in(j, k) THEN leaves[i].data[k] ELSE <<>>])]
  BY <1>5 DEF Divide
<1>10. \A j \in 1 .. n + 1 : [k \in Keys |-> IF in(j, k) THEN leaves[i].data[k] ELSE <<>>] \in Contents
  <2>1. \A k \in Keys : leaves[i].data[k] \in Seq(Nat) /\ <<>> \in Seq(Nat)
    BY LeafTypes DEF Contents
  <2> HIDE DEF in
  <2> QED BY <2>1 DEF Contents
<1>11. \A j \in 1 .. n + 1 : /\ Divide(i, B)[j].inner = leaves[i].inner
                             /\ Divide(i, B)[j].from = starts[j]
                             /\ Divide(i, B)[j] \in LeafType
  <2> TAKE j \in 1 .. n + 1
  <2> DEFINE data == [k \in Keys |-> IF in(j, k) THEN leaves[i].data[k] ELSE <<>>]
  <2>1. data \in Contents /\ starts[j] \in Nat /\ leaves[i].inner \in Nodes
    BY <1>10, <1>6, LeafTypes
  <2>2. Divide(i, B)[j] = [inner |-> leaves[i].inner, from |-> starts[j], data |-> data]
    BY <1>9 DEF Leaf
  <2> HIDE DEF data
  <2> QED BY <2>1, <2>2 DEF LeafType
<1>12. Divide(i, B) \in Seq(LeafType) /\ Len(Divide(i, B)) = n + 1
  <2>1. \E d : d = Divide(i, B)
    OBVIOUS
  <2>2. PICK d : d = Divide(i, B)
    BY <2>1
  <2>3. d = [j \in 1 .. n + 1 |-> d[j]] /\ \A j \in 1 .. n + 1 : d[j] \in LeafType
    BY <1>9, <1>11, <2>2
  <2>4. d \in Seq(LeafType) /\ Len(d) = n + 1
    BY <2>3, <1>2
  <2> QED BY <2>2, <2>4
<1> HIDE DEF starts, f, S, n
<1>13. 1 \in 1 .. n + 1
  BY <1>2
<1> QED BY <1>2, <1>4, <1>7, <1>8, <1>11, <1>12, <1>13 DEF f, n

(* The leaves after leaf i is divided at the keys of B.                    *)
LEMMA DividedLeaves ==
  ASSUME TypeOK, Sorted, NEW i \in DOMAIN leaves, NEW B \in SUBSET Keys, Inside(i, B)
  PROVE  LET new == Replace(i, Divide(i, B))
             n == Cardinality(B)
         IN  /\ n \in Nat /\ (B # {} => n > 0) /\ new \in Seq(LeafType) /\ Len(new) = Len(leaves) + n
             /\ \A x \in 1 .. i - 1 : new[x] = leaves[x]
             /\ \A x \in i .. i + n : new[x].inner = leaves[i].inner
             /\ \A x \in i + n + 1 .. Len(leaves) + n : new[x] = leaves[x - n]
             /\ new[1].from = 0
             /\ \A x, y \in DOMAIN new : x < y => new[x].from < new[y].from
<1> DEFINE new == Replace(i, Divide(i, B))
           d == Divide(i, B)
           n == Cardinality(B)
           m == Len(leaves)
<1>1. /\ n \in Nat /\ (B # {} => n > 0) /\ d \in Seq(LeafType) /\ Len(d) = n + 1
      /\ \A j \in 1 .. n + 1 : /\ d[j].inner = leaves[i].inner /\ leaves[i].from <= d[j].from
                               /\ i < m => d[j].from < leaves[i + 1].from
      /\ d[1].from = leaves[i].from
      /\ \A j, l \in 1 .. n + 1 : j < l => d[j].from < d[l].from
  BY DivideIs
<1>2. leaves \in Seq(LeafType) /\ m \in Nat /\ i \in 1 .. m /\ DOMAIN leaves = 1 .. m
  BY LeafTypes
<1> HIDE DEF d, n
<1>a. n \in Int /\ n >= 0 /\ m \in Int /\ i \in Int /\ 1 <= i /\ i <= m
  BY <1>1, <1>2
<1>3. /\ new \in Seq(LeafType) /\ Len(new) = m + n
      /\ \A x \in 1 .. i - 1 : new[x] = leaves[x]
      /\ \A x \in 1 .. n + 1 : new[i - 1 + x] = d[x]
      /\ \A x \in i + 1 .. m : new[i - 1 + (n + 1) + x - (i + 1) + 1] = leaves[x]
  <2>1. /\ new \in Seq(LeafType) /\ Len(new) = (i - 1) + Len(d) + m - (i + 1) + 1
        /\ \A x \in 1 .. i - 1 : new[x] = leaves[x]
        /\ \A x \in 1 .. Len(d) : new[i - 1 + x] = d[x]
        /\ \A x \in i + 1 .. m : new[i - 1 + Len(d) + x - (i + 1) + 1] = leaves[x]
    <3> DEFINE a == i - 1
               b == i + 1
    <3>1. a \in Nat /\ b \in Nat /\ a < b /\ b <= Len(leaves) + 1
      BY <1>a
    <3>2. new = SubSeq(leaves, 1, a) \o d \o SubSeq(leaves, b, Len(leaves))
      BY DEF Replace, d
    <3>3. d \in Seq(LeafType) /\ leaves \in Seq(LeafType)
      BY <1>1, <1>2
    <3> HIDE DEF new, a, b
    <3>4. /\ new \in Seq(LeafType) /\ Len(new) = a + Len(d) + Len(leaves) - b + 1
          /\ \A x \in 1 .. a : new[x] = leaves[x]
          /\ \A x \in 1 .. Len(d) : new[a + x] = d[x]
          /\ \A x \in b .. Len(leaves) : new[a + Len(d) + x - b + 1] = leaves[x]
      <4>1. new \in Seq(LeafType) /\ Spliced(new, leaves, a, d, b)
        BY <3>1, <3>2, <3>3, SpliceIs
      <4> QED BY <4>1 DEF Spliced
    <3> QED BY <3>4 DEF a, b
  <2>2. (i - 1) + (n + 1) + m - (i + 1) + 1 = m + n
    BY <1>1, <1>2
  <2> HIDE DEF new, m
  <2> QED BY <2>1, <2>2, <1>1
<1> HIDE DEF new, m
<1>4. \A x \in i .. i + n : x - i + 1 \in 1 .. n + 1 /\ new[x] = d[x - i + 1]
  <2> TAKE x \in i .. i + n
  <2>1. x - i + 1 \in 1 .. n + 1 /\ i - 1 + (x - i + 1) = x
    BY <1>a
  <2> QED BY <2>1, <1>3
<1>5. \A x \in i + n + 1 .. m + n : x - n \in i + 1 .. m /\ new[x] = leaves[x - n]
  <2> TAKE x \in i + n + 1 .. m + n
  <2>1. x - n \in i + 1 .. m /\ i - 1 + (n + 1) + (x - n) - (i + 1) + 1 = x
    BY <1>a
  <2>2. new[i - 1 + (n + 1) + (x - n) - (i + 1) + 1] = leaves[x - n]
    BY <2>1, <1>3
  <2> QED BY <2>1, <2>2
<1>6. \A x \in i .. i + n : new[x].inner = leaves[i].inner
  BY <1>4, <1>1
<1>7. new[1].from = 0
  <2>1. leaves[1].from = 0
    BY DEF Sorted
  <2>2. CASE i = 1
    BY <2>1, <2>2, <1>1, <1>4
  <2>3. CASE i # 1
    <3>1. 1 \in 1 .. i - 1
      BY <2>3, <1>2
    <3> QED BY <3>1, <2>1, <1>3
  <2> QED BY <2>2, <2>3
<1>8. \A x, y \in 1 .. m + n : x < y => new[x].from < new[y].from
  <2> DEFINE F == [x \in 1 .. m |-> leaves[x].from]
  <2>1. \A x, y \in 1 .. m : x < y => F[x] < F[y]
    BY <1>2 DEF Sorted
  <2>2. \A x \in 1 .. m : F[x] \in Nat
    BY <1>2, LeafTypes
  <2>3. \A x \in 1 .. n + 1 : d[x].from \in Nat
    <3>1. \A x \in 1 .. n + 1 : d[x] \in LeafType
      BY <1>1
    <3> QED BY <3>1 DEF LeafType
  <2>4. \A x \in 1 .. m + n : new[x].from \in Nat /\
          \/ x < i /\ new[x].from = F[x]
          \/ i <= x /\ x <= i + n /\ new[x].from = d[x - i + 1].from /\ x - i + 1 \in 1 .. n + 1
          \/ x > i + n /\ x - n \in i + 1 .. m /\ new[x].from = F[x - n]
    <3> TAKE x \in 1 .. m + n
    <3>1. CASE x < i
      <4>1. x \in 1 .. i - 1 /\ x \in 1 .. m
        BY <3>1, <1>a
      <4>2. new[x].from = F[x]
        BY <4>1, <1>3
      <4> HIDE DEF F
      <4> QED BY <3>1, <4>1, <4>2, <2>2
    <3>2. CASE i <= x /\ x <= i + n
      <4>1. x \in i .. i + n
        BY <3>2, <1>a
      <4> QED BY <4>1, <3>2, <1>4, <2>3
    <3>3. CASE x > i + n
      <4>1. x \in i + n + 1 .. m + n
        BY <3>3, <1>a
      <4>2. x - n \in i + 1 .. m /\ x - n \in 1 .. m /\ new[x].from = F[x - n]
        BY <4>1, <1>5, <1>2
      <4> HIDE DEF F
      <4> QED BY <3>3, <4>2, <2>2
    <3> QED BY <3>1, <3>2, <3>3, <1>a
  <2>5. \A x \in 1 .. n + 1 : F[i] <= d[x].from /\ \A y \in i + 1 .. m : d[x].from < F[y]
    <3> TAKE x \in 1 .. n + 1
    <3>1. F[i] <= d[x].from /\ (i < m => d[x].from < F[i + 1])
      <4>1. i \in 1 .. m /\ (i < m => i + 1 \in 1 .. m)
        BY <1>a
      <4> QED BY <1>1, <4>1
    <3>a. F[i] <= d[x].from
      BY <3>1
    <3> SUFFICES ASSUME NEW y \in i + 1 .. m PROVE d[x].from < F[y]
      BY <3>a
    <3>2. i < m /\ i + 1 \in 1 .. m /\ y \in 1 .. m /\ (y = i + 1 \/ i + 1 < y)
      BY <1>a
    <3>3. F[i + 1] <= F[y]
      <4> HIDE DEF F
      <4> QED BY <3>2, <2>1, <2>2
    <3>4. d[x].from \in Nat /\ F[i + 1] \in Nat /\ F[y] \in Nat
      BY <2>2, <2>3, <3>2
    <3> HIDE DEF F
    <3> QED BY <3>1, <3>2, <3>3, <3>4
  <2>6. \A x \in 1 .. i - 1 : F[x] < F[i]
    <3>1. \A x \in 1 .. i - 1 : x \in 1 .. m /\ i \in 1 .. m /\ x < i
      BY <1>a
    <3> HIDE DEF F
    <3> QED BY <3>1, <2>1
  <2> HIDE DEF F
  <2> TAKE x, y \in 1 .. m + n
  <2> HAVE x < y
  <2>7. CASE x < i /\ y < i
    <3>1. new[x].from = F[x] /\ x \in 1 .. m
      BY <2>7, <2>4, <1>a
    <3>2. new[y].from = F[y] /\ y \in 1 .. m
      BY <2>7, <2>4, <1>a
    <3> QED BY <3>1, <3>2, <2>1
  <2>8. CASE x < i /\ i <= y /\ y <= i + n
    <3>1. new[x].from = F[x] /\ x \in 1 .. i - 1 /\ x \in 1 .. m /\ i \in 1 .. m
      BY <2>8, <2>4, <1>a
    <3>2. new[y].from = d[y - i + 1].from /\ y - i + 1 \in 1 .. n + 1
      BY <2>8, <2>4, <1>a
    <3> QED BY <3>1, <3>2, <2>5, <2>6, <2>2, <2>3
  <2>9. CASE x < i /\ y > i + n
    <3>1. new[x].from = F[x] /\ x \in 1 .. m
      BY <2>9, <2>4, <1>a
    <3>2. new[y].from = F[y - n] /\ y - n \in 1 .. m /\ x < y - n
      BY <2>9, <2>4, <1>a
    <3> QED BY <3>1, <3>2, <2>1
  <2>10. CASE i <= x /\ x <= i + n /\ y <= i + n
    <3>1. new[x].from = d[x - i + 1].from /\ x - i + 1 \in 1 .. n + 1
      BY <2>10, <2>4, <1>a
    <3>2. new[y].from = d[y - i + 1].from /\ y - i + 1 \in 1 .. n + 1
      BY <2>10, <2>4, <1>a
    <3>3. x - i + 1 < y - i + 1
      BY <1>a
    <3> QED BY <3>1, <3>2, <3>3, <1>1
  <2>11. CASE i <= x /\ x <= i + n /\ y > i + n
    <3>1. new[x].from = d[x - i + 1].from /\ x - i + 1 \in 1 .. n + 1
      BY <2>11, <2>4, <1>a
    <3>2. new[y].from = F[y - n] /\ y - n \in i + 1 .. m
      BY <2>11, <2>4, <1>a
    <3> QED BY <3>1, <3>2, <2>5
  <2>12. CASE x > i + n
    <3>1. y > i + n /\ x - n < y - n
      BY <2>12, <1>a
    <3>2. new[x].from = F[x - n] /\ x - n \in 1 .. m
      BY <2>12, <2>4, <1>a
    <3>3. new[y].from = F[y - n] /\ y - n \in 1 .. m
      BY <3>1, <2>4, <1>a
    <3> QED BY <3>1, <3>2, <3>3, <2>1
  <2> QED BY <2>7, <2>8, <2>9, <2>10, <2>11, <2>12, <1>a
<1>9. DOMAIN new = 1 .. m + n
  BY <1>3, <1>1, <1>2
<1> QED BY <1>1, <1>3, <1>5, <1>6, <1>7, <1>8, <1>9 DEF new, n, m

-----------------------------------------------------------------------------
(* The steps that leave the leaves and the inner nodes alone.              *)

(* The entries that RangeSearch returns, the batch of a split.             *)
LEMMA PairsIs ==
  ASSUME NEW t \in Contents, NEW S \in SUBSET Keys
  PROVE  /\ Pairs(t, S) \in Seq(Keys \X Nat)
         /\ \A i \in DOMAIN Pairs(t, S) :
              \E k \in S : \E j \in DOMAIN t[k] : Pairs(t, S)[i] = <<k, t[k][j]>>
         /\ \A k \in S : \A j \in DOMAIN t[k] :
              \E i \in DOMAIN Pairs(t, S) : Pairs(t, S)[i] = <<k, t[k][j]>>
         /\ \A k \in Keys : Len(t[k]) <= 1 =>
              \A i, j \in DOMAIN Pairs(t, S) :
                Pairs(t, S)[i][1] = k /\ Pairs(t, S)[j][1] = k => i = j
<1> DEFINE ks == Ordered(S)
           of(k) == [j \in DOMAIN t[k] |-> <<k, t[k][j]>>]
           s == [i \in DOMAIN ks |-> [j \in DOMAIN t[ks[i]] |-> <<ks[i], t[ks[i]][j]>>]]
           n == Cardinality(S)
<1>1. S \in SUBSET Int /\ IsFiniteSet(S)
  <2>1. IsFiniteSet(S)
    BY KeysAssumption, FS_Subset
  <2>2. \A k \in S : k \in Int
    BY KeysAssumption
  <2> QED BY <2>1, <2>2
<1>2. /\ n \in Nat /\ ks \in [1 .. n -> S] /\ DOMAIN ks = 1 .. n
      /\ \A k \in S : \E i \in 1 .. n : ks[i] = k
      /\ \A i, j \in 1 .. n : ks[i] = ks[j] => i = j
  <2>1. /\ n \in Nat /\ ks \in [1 .. n -> S]
        /\ \A k \in S : \E i \in 1 .. n : ks[i] = k
        /\ \A i, j \in 1 .. n : i < j => ks[i] < ks[j]
    BY <1>1, OrderedIs
  <2>2. \A i \in 1 .. n : ks[i] \in Int
    BY <2>1, <1>1
  <2>3. \A i, j \in 1 .. n : ks[i] = ks[j] => i = j
    <3> HIDE DEF ks, n
    <3> QED BY <2>1, <2>2
  <2> QED BY <2>1, <2>3
<1> HIDE DEF ks, n
<1>3. \A i \in 1 .. n : ks[i] \in S /\ ks[i] \in Keys
  BY <1>2
<1>4. \A k \in Keys : t[k] \in Seq(Nat)
  BY DEF Contents
<1>5. \A i \in 1 .. n : s[i] \in Seq(Keys \X Nat)
  <2> TAKE i \in 1 .. n
  <2>1. ks[i] \in Keys /\ t[ks[i]] \in Seq(Nat)
    BY <1>3, <1>4
  <2>2. s[i] = [j \in DOMAIN t[ks[i]] |-> <<ks[i], t[ks[i]][j]>>]
    BY <1>2
  <2>3. DOMAIN t[ks[i]] = 1 .. Len(t[ks[i]]) /\ Len(t[ks[i]]) \in Nat
    BY <2>1
  <2>4. \A j \in DOMAIN t[ks[i]] : <<ks[i], t[ks[i]][j]>> \in Keys \X Nat
    BY <2>1
  <2> HIDE DEF s
  <2> QED BY <2>2, <2>3, <2>4
<1>6. s \in Seq(Seq(Keys \X Nat))
  <2>1. DOMAIN s = 1 .. n /\ s = [i \in 1 .. n |-> s[i]]
    BY <1>2
  <2> HIDE DEF s
  <2> QED BY <2>1, <1>2, <1>5
<1>7. Pairs(t, S) = FlattenSeq(s)
  BY DEF Pairs, ks
<1>8. /\ FlattenSeq(s) \in Seq(Keys \X Nat)
      /\ \A i \in DOMAIN FlattenSeq(s) :
           \E j \in DOMAIN s : \E l \in DOMAIN s[j] : FlattenSeq(s)[i] = s[j][l]
      /\ \A j \in DOMAIN s : \A l \in DOMAIN s[j] :
           \E i \in DOMAIN FlattenSeq(s) : FlattenSeq(s)[i] = s[j][l]
      /\ InTurn(FlattenSeq(s), s, Len(s))
  <2> HIDE DEF s
  <2> QED BY <1>6, FlattenIs
<1>9. DOMAIN s = 1 .. n /\ \A i \in 1 .. n : /\ DOMAIN s[i] = DOMAIN t[ks[i]]
                                            /\ \A j \in DOMAIN s[i] : s[i][j] = <<ks[i], t[ks[i]][j]>>
  BY <1>2
<1> DEFINE P == Pairs(t, S)
<1>10. /\ P \in Seq(Keys \X Nat)
       /\ \A i \in DOMAIN P : \E j \in DOMAIN s : \E l \in DOMAIN s[j] : P[i] = s[j][l]
       /\ \A j \in DOMAIN s : \A l \in DOMAIN s[j] : \E i \in DOMAIN P : P[i] = s[j][l]
       /\ InTurn(P, s, Len(s)) /\ Len(s) = n
  <2>1. Len(s) = n
    BY <1>9, <1>6, <1>2
  <2> HIDE DEF s
  <2> QED BY <1>7, <1>8, <2>1
<1> HIDE DEF s, P
<1>11. \A i \in DOMAIN P : \E k \in S : \E j \in DOMAIN t[k] : P[i] = <<k, t[k][j]>>
  <2> TAKE i \in DOMAIN P
  <2>1. PICK j \in 1 .. n : \E l \in DOMAIN s[j] : P[i] = s[j][l]
    BY <1>9, <1>10
  <2>2. PICK l \in DOMAIN s[j] : P[i] = s[j][l]
    BY <2>1
  <2> QED BY <2>2, <1>9, <1>3
<1>12. \A k \in S : \A j \in DOMAIN t[k] : \E i \in DOMAIN P : P[i] = <<k, t[k][j]>>
  <2> TAKE k \in S
  <2> TAKE j \in DOMAIN t[k]
  <2>1. PICK i \in 1 .. n : ks[i] = k
    BY <1>2
  <2>2. j \in DOMAIN s[i] /\ s[i][j] = <<k, t[k][j]>>
    BY <2>1, <1>9
  <2> QED BY SMTT(30), <2>1, <2>2, <1>9, <1>10
<1>13. ASSUME NEW k \in Keys, Len(t[k]) <= 1, NEW i \in DOMAIN P, NEW j \in DOMAIN P,
              P[i][1] = k, P[j][1] = k, i < j
       PROVE  FALSE
  <2>1. PICK x \in 1 .. n, y \in 1 .. n : \E a \in DOMAIN s[x], b \in DOMAIN s[y] :
          P[i] = s[x][a] /\ P[j] = s[y][b] /\ (x < y \/ (x = y /\ a < b))
    BY <1>10, <1>13 DEF InTurn
  <2>2. PICK a \in DOMAIN s[x], b \in DOMAIN s[y] :
          P[i] = s[x][a] /\ P[j] = s[y][b] /\ (x < y \/ (x = y /\ a < b))
    BY <2>1
  <2>3. ks[x] = k /\ ks[y] = k
    BY <2>2, <1>9, <1>13
  <2>4. x = y
    BY <2>3, <1>2
  <2>5. a \in DOMAIN t[k] /\ b \in DOMAIN t[k] /\ t[k] \in Seq(Nat)
    BY <2>2, <2>3, <1>9, <1>4
  <2>6. a \in Int /\ b \in Int /\ 1 <= a /\ b <= Len(t[k]) /\ Len(t[k]) \in Nat
    <3> HIDE DEF ks, n
    <3>1. DOMAIN t[k] = 1 .. Len(t[k]) /\ Len(t[k]) \in Nat
      BY <2>5
    <3> QED BY <2>5, <3>1
  <2>7. a < b /\ Len(t[k]) <= 1
    BY <2>2, <2>4, <1>2, <1>13
  <2> QED BY <2>6, <2>7
<1>14. \A k \in Keys : Len(t[k]) <= 1 =>
         \A i, j \in DOMAIN P : P[i][1] = k /\ P[j][1] = k => i = j
  <2>1. \A i, j \in DOMAIN P : i = j \/ i < j \/ j < i
    BY <1>10
  <2> QED BY <2>1, <1>13
<1> QED BY <1>10, <1>11, <1>12, <1>14 DEF P

LEMMA ElementsTyped ==
  ASSUME NEW T, NEW s \in Seq(T)
  PROVE  \A i \in DOMAIN s : s[i] \in T
OBVIOUS

LEMMA ElementsMake ==
  ASSUME NEW T, NEW n \in Nat, NEW s, s = [i \in 1 .. n |-> s[i]], \A i \in 1 .. n : s[i] \in T
  PROVE  s \in Seq(T) /\ Len(s) = n
OBVIOUS

(* From the right to the left the same elements are met.                   *)
LEMMA ReverseIs ==
  ASSUME NEW T, NEW s \in Seq(T)
  PROVE  /\ Reverse(s) \in Seq(T) /\ DOMAIN Reverse(s) = DOMAIN s /\ DOMAIN s = 1 .. Len(s)
         /\ \A i \in 1 .. Len(s) : (Len(s) - i) + 1 \in 1 .. Len(s) /\ Reverse(s)[i] = s[(Len(s) - i) + 1]
         /\ \A i \in DOMAIN s : \E j \in DOMAIN s : Reverse(s)[i] = s[j]
         /\ \A j \in DOMAIN s : \E i \in DOMAIN s : Reverse(s)[i] = s[j]
<1> DEFINE r == Reverse(s)
<1>1. Len(s) \in Nat /\ DOMAIN s = 1 .. Len(s) /\ r = [i \in 1 .. Len(s) |-> s[(Len(s) - i) + 1]]
  BY DEF Reverse
<1>2. \A i \in 1 .. Len(s) : (Len(s) - i) + 1 \in 1 .. Len(s) /\ (Len(s) - ((Len(s) - i) + 1)) + 1 = i
  BY <1>1
<1>3. DOMAIN r = 1 .. Len(s) /\ \A i \in 1 .. Len(s) : r[i] = s[(Len(s) - i) + 1]
  BY <1>1
<1>4. \A i \in 1 .. Len(s) : s[i] \in T
  BY <1>1
<1>5. r \in Seq(T)
  BY <1>1, <1>2, <1>4
<1> HIDE DEF r
<1>6. \A j \in 1 .. Len(s) : r[(Len(s) - j) + 1] = s[j]
  BY <1>2, <1>3
<1> QED BY <1>1, <1>2, <1>3, <1>5, <1>6 DEF r

LEMMA ReverseOnce ==
  ASSUME NEW T, NEW s \in Seq(T), NEW R,
         \A i, j \in DOMAIN s : s[i] \in R /\ s[j] \in R => i = j
  PROVE  \A i, j \in DOMAIN s : Reverse(s)[i] \in R /\ Reverse(s)[j] \in R => i = j
<1>1. /\ DOMAIN s = 1 .. Len(s)
      /\ \A i \in 1 .. Len(s) : (Len(s) - i) + 1 \in 1 .. Len(s) /\ Reverse(s)[i] = s[(Len(s) - i) + 1]
  BY ReverseIs
<1>2. \A i, j \in 1 .. Len(s) : (Len(s) - i) + 1 = (Len(s) - j) + 1 => i = j
  OBVIOUS
<1> QED BY <1>1, <1>2

(* What a range search gives of the entries in t: entries of the range     *)
(* only, of a key that is there once one.                                  *)
Gives(b, t, min, max) ==
  /\ b \in Seq(Keys \X Nat)
  /\ \A i \in DOMAIN b : \E k \in Keys : \E j \in DOMAIN t[k] : min <= k /\ k <= max /\ b[i] = <<k, t[k][j]>>
  /\ \A k \in Keys : Len(t[k]) <= 1 => \A i, j \in DOMAIN b : b[i][1] = k /\ b[j][1] = k => i = j
Meets(b, t, k) == \A j \in DOMAIN t[k] : \E i \in DOMAIN b : b[i] = <<k, t[k][j]>>

(* A page gives entries of its keys, and all of the range unless it is     *)
(* scanned from right to left and has a key above.                         *)
LEMMA ScanIs ==
  ASSUME NEW t \in Contents, NEW S \in SUBSET Keys, NEW direction, NEW min \in Nat, NEW max \in Nat,
         NEW b, b = ScanPage(t, S, direction, min, max)
  PROVE  /\ Gives(b, t, min, max)
         /\ \A i \in DOMAIN b : b[i][1] \in S
         /\ \A k \in S : min <= k /\ k <= max /\ (direction = "forward" \/ \A q \in S : q <= max)
                           => Meets(b, t, k)
<1> DEFINE F == {k \in S : min <= k /\ k <= max}
           B == {k \in S : min <= k}
<1>1. F \in SUBSET Keys /\ B \in SUBSET Keys /\ \A k \in Keys : k \in Nat
  BY KeysAssumption
<1>2. ASSUME NEW R \in SUBSET S, \A k \in R : min <= k /\ k <= max, NEW c,
             c \in Seq(Keys \X Nat),
             \A i \in DOMAIN c : \E k \in R : \E j \in DOMAIN t[k] : c[i] = <<k, t[k][j]>>
      PROVE  /\ \A i \in DOMAIN c : \E k \in Keys : \E j \in DOMAIN t[k] :
                   min <= k /\ k <= max /\ c[i] = <<k, t[k][j]>>
             /\ \A i \in DOMAIN c : c[i][1] \in S
  <2> SUFFICES ASSUME NEW i \in DOMAIN c
               PROVE  /\ \E k \in Keys : \E j \in DOMAIN t[k] :
                           min <= k /\ k <= max /\ c[i] = <<k, t[k][j]>>
                      /\ c[i][1] \in S
    OBVIOUS
  <2>1. PICK k \in R : \E j \in DOMAIN t[k] : c[i] = <<k, t[k][j]>>
    BY <1>2
  <2>2. PICK j \in DOMAIN t[k] : c[i] = <<k, t[k][j]>>
    BY <2>1
  <2>3. k \in Keys /\ k \in S /\ min <= k /\ k <= max /\ c[i][1] = k
    BY <2>2, <1>2
  <2> QED BY <2>2, <2>3
<1>3. CASE direction = "forward"
  <2>1. b = Pairs(t, F)
    BY <1>3 DEF ScanPage
  <2> HIDE DEF F
  <2>2. /\ b \in Seq(Keys \X Nat)
        /\ \A i \in DOMAIN b : \E k \in F : \E j \in DOMAIN t[k] : b[i] = <<k, t[k][j]>>
        /\ \A k \in F : Meets(b, t, k)
        /\ \A k \in Keys : Len(t[k]) <= 1 => \A i, j \in DOMAIN b : b[i][1] = k /\ b[j][1] = k => i = j
    BY <2>1, <1>1, PairsIs DEF Meets
  <2>3. F \in SUBSET S /\ \A k \in F : min <= k /\ k <= max
    BY DEF F
  <2>4. \A k \in S : min <= k /\ k <= max => k \in F
    BY DEF F
  <2>5. /\ \A i \in DOMAIN b : \E k \in Keys : \E j \in DOMAIN t[k] :
              min <= k /\ k <= max /\ b[i] = <<k, t[k][j]>>
        /\ \A i \in DOMAIN b : b[i][1] \in S
    BY <2>2, <2>3, <1>2
  <2> QED BY <2>2, <2>4, <2>5 DEF Gives
<1>4. CASE direction # "forward" /\ \E k \in S : k > max
  <2>1. b = <<>>
    BY <1>4 DEF ScanPage
  <2>2. PICK q \in S : q > max
    BY <1>4
  <2>3. ~(q <= max)
    BY <2>2, <1>1
  <2>4. b \in Seq(Keys \X Nat) /\ DOMAIN b = {}
    BY <2>1
  <2> QED BY <2>3, <2>4, <1>4 DEF Gives
<1>5. CASE direction # "forward" /\ ~ \E k \in S : k > max
  <2> DEFINE p == Pairs(t, B)
  <2>1. b = Reverse(p)
    BY <1>5 DEF ScanPage
  <2>2. B \in SUBSET S /\ \A k \in B : min <= k /\ k <= max
    BY <1>5, <1>1
  <2>3. \A k \in S : min <= k => k \in B
    OBVIOUS
  <2> HIDE DEF B
  <2>4. /\ p \in Seq(Keys \X Nat)
        /\ \A i \in DOMAIN p : \E k \in B : \E j \in DOMAIN t[k] : p[i] = <<k, t[k][j]>>
        /\ \A k \in B : \A j \in DOMAIN t[k] : \E i \in DOMAIN p : p[i] = <<k, t[k][j]>>
        /\ \A k \in Keys : Len(t[k]) <= 1 => \A i, j \in DOMAIN p : p[i][1] = k /\ p[j][1] = k => i = j
    BY <1>1, PairsIs
  <2> HIDE DEF p
  <2>5. /\ b \in Seq(Keys \X Nat) /\ DOMAIN b = DOMAIN p
        /\ \A i \in DOMAIN p : \E j \in DOMAIN p : b[i] = p[j]
        /\ \A j \in DOMAIN p : \E i \in DOMAIN p : b[i] = p[j]
    BY <2>1, <2>4, ReverseIs
  <2>6. \A i \in DOMAIN b : \E k \in B : \E j \in DOMAIN t[k] : b[i] = <<k, t[k][j]>>
    <3> TAKE i \in DOMAIN b
    <3>1. PICK j \in DOMAIN p : b[i] = p[j]
      BY <2>5
    <3>2. \E k \in B : \E x \in DOMAIN t[k] : p[j] = <<k, t[k][x]>>
      BY <2>4
    <3> QED BY <3>1, <3>2
  <2>7. \A k \in B : Meets(b, t, k)
    <3> SUFFICES ASSUME NEW k \in B, NEW x \in DOMAIN t[k] PROVE \E i \in DOMAIN b : b[i] = <<k, t[k][x]>>
      BY DEF Meets
    <3>1. PICK j \in DOMAIN p : p[j] = <<k, t[k][x]>>
      BY <2>4
    <3>2. PICK i \in DOMAIN p : b[i] = p[j]
      BY <2>5
    <3> QED BY <3>1, <3>2, <2>5
  <2>8. ASSUME NEW k \in Keys, Len(t[k]) <= 1, NEW i \in DOMAIN b, NEW j \in DOMAIN b,
               b[i][1] = k, b[j][1] = k
        PROVE  i = j
    <3> DEFINE R == {x \in Keys \X Nat : x[1] = k}
    <3>1. \A x, y \in DOMAIN p : p[x] \in R /\ p[y] \in R => x = y
      BY <2>4, <2>8
    <3>2. \A x \in DOMAIN b : b[x] \in Keys \X Nat
      <4>1. b \in Seq(Keys \X Nat)
        BY <2>5
      <4> HIDE DEF p
      <4> QED BY <4>1, ElementsTyped
    <3>3. R \in SUBSET (Keys \X Nat) /\ b[i] \in R /\ b[j] \in R
      BY <3>2, <2>8
    <3> HIDE DEF R
    <3>4. \A x, y \in DOMAIN p : b[x] \in R /\ b[y] \in R => x = y
      <4>1. \A x, y \in DOMAIN p : Reverse(p)[x] \in R /\ Reverse(p)[y] \in R => x = y
        BY <2>4, <3>1, ReverseOnce
      <4> QED BY <4>1, <2>1
    <3> QED BY <3>3, <3>4, <2>5
  <2>9. /\ \A i \in DOMAIN b : \E k \in Keys : \E j \in DOMAIN t[k] :
              min <= k /\ k <= max /\ b[i] = <<k, t[k][j]>>
        /\ \A i \in DOMAIN b : b[i][1] \in S
    <3>1. B \in SUBSET S /\ b \in Seq(Keys \X Nat)
      BY <2>2, <2>5
    <3> QED BY ONLY <3>1, <2>2, <2>6, <1>2
  <2> QED BY <2>3, <2>5, <2>7, <2>8, <2>9 DEF Gives
<1> QED BY <1>3, <1>4, <1>5

(* The pages of a tree begin at 0 and at keys.                             *)
LEMMA LayoutIs ==
  ASSUME TypeOK, NEW n \in Nodes, NEW layout \in Layouts(n)
  PROVE  /\ 0 \in DOMAIN layout /\ DOMAIN layout \subseteq Keys \cup {0}
         /\ pages[n] = "forward" => \A p \in DOMAIN layout : layout[p] = "forward"
<1>1. CASE pages[n] = "many"
  <2>1. PICK starts \in SUBSET Keys : layout \in [{0} \cup starts -> {"forward", "backward"}]
    BY <1>1 DEF Layouts
  <2> QED BY <2>1, <1>1
<1>2. CASE pages[n] # "many"
  <2>1. layout \in [{0} -> {pages[n]}]
    BY <1>2 DEF Layouts
  <2> QED BY <2>1
<1> QED BY <1>1, <1>2

(* linear_search_range over all pages.                                     *)
LEMMA RangeIs ==
  ASSUME NEW t \in Contents, NEW layout, 0 \in DOMAIN layout, DOMAIN layout \subseteq Keys \cup {0},
         NEW min \in Nat, NEW max \in Nat, NEW b, b = RangeSearch(t, layout, min, max)
  PROVE  /\ Gives(b, t, min, max)
         /\ \A k \in Keys : /\ min <= k /\ k <= max
                            /\ \/ \A p \in DOMAIN layout : layout[p] = "forward"
                               \/ \A q \in Present(t) : q <= max
                            => Meets(b, t, k)
<1> DEFINE D == DOMAIN layout
           n == Cardinality(D)
           starts == Ordered(D)
           On(p) == OnPage(t, layout, p)
           s == [i \in DOMAIN starts |-> ScanPage(t, OnPage(t, layout, starts[i]), layout[starts[i]], min, max)]
<1>1. /\ D \in SUBSET Int /\ IsFiniteSet(D) /\ \A k \in Keys : k \in Nat
  <2>1. IsFiniteSet(Keys \cup {0})
    BY KeysAssumption, FS_AddElement
  <2>2. IsFiniteSet(D)
    BY <2>1, FS_Subset
  <2>3. \A k \in Keys \cup {0} : k \in Nat
    BY KeysAssumption
  <2> QED BY <2>2, <2>3
<1>2. /\ n \in Nat /\ starts \in [1 .. n -> D] /\ DOMAIN starts = 1 .. n
      /\ \A p \in D : \E i \in 1 .. n : starts[i] = p
      /\ \A i, j \in 1 .. n : starts[i] = starts[j] => i = j
  <2>1. /\ n \in Nat /\ starts \in [1 .. n -> D]
        /\ \A p \in D : \E i \in 1 .. n : starts[i] = p
        /\ \A i, j \in 1 .. n : i < j => starts[i] < starts[j]
    BY <1>1, OrderedIs
  <2>2. \A i \in 1 .. n : starts[i] \in Int
    BY <2>1, <1>1
  <2>3. \A i, j \in 1 .. n : starts[i] = starts[j] => i = j
    <3> HIDE DEF starts, n, D
    <3>1. \A i, j \in 1 .. n : i = j \/ i < j \/ j < i
      OBVIOUS
    <3>2. \A i, j \in 1 .. n : i < j => starts[i] < starts[j]
      BY <2>1
    <3>3. \A x, y \in Int : x < y => x # y
      OBVIOUS
    <3>4. \A i, j \in 1 .. n : i < j => starts[i] # starts[j]
      BY <3>2, <3>3, <2>2
    <3> QED BY <3>1, <3>4
  <2> QED BY <2>1, <2>3
<1>3. Present(t) \in SUBSET Keys
  BY DEF Present
<1> HIDE DEF n, starts
<1>4. \A p \in D : On(p) \in SUBSET Keys
  BY <1>3 DEF OnPage
<1>5. \A k \in Present(t), p, q \in D : k \in On(p) /\ k \in On(q) => p = q
  <2> TAKE k \in Present(t), p, q \in D
  <2>1. k \in On(p) /\ k \in On(q) => p <= q /\ q <= p
    BY DEF OnPage
  <2> QED BY <2>1, <1>1
<1>6. \A k \in Present(t) : \E p \in D : k \in On(p)
  <2> TAKE k \in Present(t)
  <2> DEFINE E == {p \in D : p <= k}
  <2>1. 0 \in E /\ E \in SUBSET Int /\ IsFiniteSet(E)
    <3>1. k \in Nat
      BY <1>1, <1>3
    <3>2. IsFiniteSet(E)
      BY <1>1, FS_Subset
    <3> QED BY <1>1, <3>1, <3>2
  <2>2. PICK p \in E : \A q \in E : q <= p
    BY <2>1, EndsOf
  <2>3. k \in On(p)
    BY <2>2 DEF OnPage
  <2> QED BY <2>2, <2>3
<1>7. /\ DOMAIN s = 1 .. n
      /\ \A i \in 1 .. n : /\ starts[i] \in D
                           /\ s[i] = ScanPage(t, On(starts[i]), layout[starts[i]], min, max)
  BY <1>2
<1>8. b = FlattenSeq(s)
  BY DEF RangeSearch, starts
<1> HIDE DEF s
<1>9. \A i \in 1 .. n :
        /\ Gives(s[i], t, min, max)
        /\ \A j \in DOMAIN s[i] : s[i][j][1] \in On(starts[i])
        /\ \A k \in On(starts[i]) :
             min <= k /\ k <= max /\ (layout[starts[i]] = "forward" \/ \A q \in On(starts[i]) : q <= max)
               => Meets(s[i], t, k)
  <2> TAKE i \in 1 .. n
  <2>1. On(starts[i]) \in SUBSET Keys
    BY <1>4, <1>7
  <2> HIDE DEF On
  <2> QED BY <2>1, <1>7, ScanIs
<1> HIDE DEF On
<1>10. s \in Seq(Seq(Keys \X Nat)) /\ Len(s) = n
  <2>1. \A i \in 1 .. n : s[i] \in Seq(Keys \X Nat)
    BY <1>9 DEF Gives
  <2>2. s = [i \in 1 .. n |-> s[i]]
    BY <1>7 DEF s
  <2> QED BY <2>1, <2>2, <1>2, ElementsMake
<1>11. /\ b \in Seq(Keys \X Nat)
       /\ \A i \in DOMAIN b : \E j \in 1 .. n : \E l \in DOMAIN s[j] : b[i] = s[j][l]
       /\ \A j \in 1 .. n : \A l \in DOMAIN s[j] : \E i \in DOMAIN b : b[i] = s[j][l]
       /\ InTurn(b, s, n)
  <2>1. /\ FlattenSeq(s) \in Seq(Keys \X Nat)
        /\ \A i \in DOMAIN FlattenSeq(s) :
             \E j \in DOMAIN s : \E l \in DOMAIN s[j] : FlattenSeq(s)[i] = s[j][l]
        /\ \A j \in DOMAIN s : \A l \in DOMAIN s[j] :
             \E i \in DOMAIN FlattenSeq(s) : FlattenSeq(s)[i] = s[j][l]
        /\ InTurn(FlattenSeq(s), s, Len(s))
    BY <1>10, FlattenIs
  <2>2. DOMAIN s = 1 .. n /\ Len(s) = n
    BY <1>7, <1>10
  <2>3. InTurn(b, s, n)
    BY <2>1, <2>2, <1>8
  <2>4. /\ b \in Seq(Keys \X Nat)
        /\ \A i \in DOMAIN b : \E j \in DOMAIN s : \E l \in DOMAIN s[j] : b[i] = s[j][l]
        /\ \A j \in DOMAIN s : \A l \in DOMAIN s[j] : \E i \in DOMAIN b : b[i] = s[j][l]
    BY <2>1, <1>8
  <2> QED BY <2>2, <2>3, <2>4
<1>12. ASSUME NEW i \in DOMAIN b
       PROVE  \E k \in Keys : \E j \in DOMAIN t[k] : min <= k /\ k <= max /\ b[i] = <<k, t[k][j]>>
  <2>1. PICK j \in 1 .. n : \E l \in DOMAIN s[j] : b[i] = s[j][l]
    BY <1>11
  <2>2. PICK l \in DOMAIN s[j] : b[i] = s[j][l]
    BY <2>1
  <2> QED BY <2>2, <1>9 DEF Gives
<1>13. ASSUME NEW k \in Keys, Len(t[k]) <= 1, NEW i \in DOMAIN b, NEW j \in DOMAIN b,
              b[i][1] = k, b[j][1] = k, i < j
       PROVE  FALSE
  <2>1. PICK x \in 1 .. n, y \in 1 .. n : \E a \in DOMAIN s[x], c \in DOMAIN s[y] :
          b[i] = s[x][a] /\ b[j] = s[y][c] /\ (x < y \/ (x = y /\ a < c))
    <3>1. InTurn(b, s, n)
      BY <1>11
    <3> QED BY <3>1, <1>13 DEF InTurn
  <2>2. PICK a \in DOMAIN s[x], c \in DOMAIN s[y] :
          b[i] = s[x][a] /\ b[j] = s[y][c] /\ (x < y \/ (x = y /\ a < c))
    BY <2>1
  <2>3. k \in On(starts[x]) /\ k \in On(starts[y])
    BY <2>2, <1>9, <1>13
  <2>4. k \in Present(t)
    <3>1. t[k] # <<>>
      <4>1. PICK q \in Keys : \E l \in DOMAIN t[q] : b[i] = <<q, t[q][l]>>
        BY <1>12
      <4>2. PICK l \in DOMAIN t[q] : b[i] = <<q, t[q][l]>>
        BY <4>1
      <4>3. l \in DOMAIN t[k] /\ t[k] \in Seq(Nat)
        BY <4>2, <1>13 DEF Contents
      <4> QED BY <4>3
    <3> QED BY <3>1 DEF Present
  <2>5. x = y
    BY <2>3, <2>4, <1>2, <1>5, <1>7
  <2>6. a = c
    BY <2>2, <2>5, <1>9, <1>13 DEF Gives
  <2>7. a < c /\ a \in Int
    <3>1. s[x] \in Seq(Keys \X Nat)
      BY <1>9 DEF Gives
    <3>2. a \in Int
      BY <3>1
    <3>3. x \in Int
      OBVIOUS
    <3> QED BY <2>2, <2>5, <3>2, <3>3
  <2> QED BY <2>6, <2>7
<1>14. \A k \in Keys : Len(t[k]) <= 1 => \A i, j \in DOMAIN b : b[i][1] = k /\ b[j][1] = k => i = j
  <2>1. \A i, j \in DOMAIN b : i = j \/ i < j \/ j < i
    BY <1>11
  <2> QED BY <2>1, <1>13
<1>15. ASSUME NEW k \in Keys, min <= k, k <= max,
              (\A p \in DOMAIN layout : layout[p] = "forward") \/ (\A q \in Present(t) : q <= max)
       PROVE  Meets(b, t, k)
  <2> SUFFICES ASSUME NEW j \in DOMAIN t[k] PROVE \E i \in DOMAIN b : b[i] = <<k, t[k][j]>>
    BY DEF Meets
  <2>1. k \in Present(t)
    <3>1. t[k] \in Seq(Nat)
      BY DEF Contents
    <3>2. t[k] # <<>>
      BY <3>1
    <3> QED BY <3>2 DEF Present
  <2>2. PICK p \in D : k \in On(p)
    BY <2>1, <1>6
  <2>3. PICK x \in 1 .. n : starts[x] = p
    BY <1>2
  <2>4. layout[p] = "forward" \/ \A q \in On(p) : q <= max
    <3>1. \A q \in On(p) : q \in Present(t)
      BY DEF On, OnPage
    <3> QED BY <3>1, <1>15
  <2>5. Meets(s[x], t, k)
    BY <2>2, <2>3, <2>4, <1>9, <1>15
  <2>6. PICK l \in DOMAIN s[x] : s[x][l] = <<k, t[k][j]>>
    BY <2>5 DEF Meets
  <2> QED BY <2>6, <1>11
<1> QED BY <1>11, <1>12, <1>14, <1>15 DEF Gives

(* The inner nodes are finitely many natural numbers.                      *)
LEMMA NodesNat == Cardinality(Nodes) \in Nat /\ Nodes \subseteq Nat
<1>1. Cardinality(Nodes) \in Nat
  BY NodesAssumption, FS_CardinalityType
<1>2. 0 .. Cardinality(Nodes) - 1 \subseteq Nat
  BY <1>1
<1> QED BY <1>1, <1>2, NodesAssumption

(* A worker that changes where it is in the batch is still a worker.       *)
LEMMA WorkerFields ==
  ASSUME NEW w \in WorkerType, NEW x \in Nat
  PROVE  [w EXCEPT !.i = x] \in WorkerType /\ [w EXCEPT !.at = "prune", !.i = x] \in WorkerType
BY DEF WorkerType

(* What an update of a typed function, log or client leaves is typed.      *)
LEMMA Typed ==
  ASSUME TypeOK
  PROVE  /\ client \in ClientType /\ client.key \in Nat /\ client.leaf \in Nat
         /\ client.old \in Nodes /\ client.todo \in Seq(Nat)
         /\ acked \in Contents /\ tree \in [Nodes -> Contents] /\ log \in [Nodes -> Seq(Entries)]
         /\ worker \in [Nodes -> WorkerType] /\ split_ \in [Nodes -> BOOLEAN]
         /\ \A n \in Nodes : tree[n] \in Contents /\ log[n] \in Seq(Entries) /\ worker[n] \in WorkerType
         /\ Nodes \subseteq Nat
<1>1. client \in ClientType /\ Nodes \subseteq Nat
  BY NodesNat DEF TypeOK
<1>2. /\ client.key \in Nat /\ client.leaf \in Nat /\ client.old \in Nodes /\ client.todo \in Seq(Nat)
  <2>1. client.key \in Keys \cup {0}
    BY <1>1 DEF ClientType
  <2>2. client.leaf \in Nat /\ client.old \in Nodes /\ client.todo \in Seq(Nat)
    BY <1>1 DEF ClientType
  <2>3. \A k \in Keys : k \in Nat
    BY KeysAssumption
  <2> QED BY <2>1, <2>2, <2>3
<1>3. /\ acked \in Contents /\ tree \in [Nodes -> Contents] /\ log \in [Nodes -> Seq(Entries)]
      /\ worker \in [Nodes -> WorkerType] /\ split_ \in [Nodes -> BOOLEAN]
  BY DEF TypeOK
<1>4. \A n \in Nodes : tree[n] \in Contents /\ log[n] \in Seq(Entries) /\ worker[n] \in WorkerType
  BY <1>3
<1> QED BY <1>1, <1>2, <1>3, <1>4

(* An insert or a removal leaves a page that is scanned in some order.     *)
LEMMA PagesTyped ==
  ASSUME TypeOK, NEW n \in Nodes
  PROVE  /\ AfterInsert(n) \in {"forward", "backward", "many"}
         /\ \A k : AfterDelete(n, k) \in {"forward", "backward", "many"}
BY DEF TypeOK, AfterInsert, AfterDelete

(* Steps that change none of leaves, chain and the sets of inner nodes.    *)
LEMMA SameShape ==
  ASSUME State, UNCHANGED shape
  PROVE  Numbered' /\ Sorted' /\ Inners' /\ ChainOnce'
BY DEF State, Numbered, Sorted, Inners, ChainOnce, shape

(* What the worker reads when it begins a split.                           *)
LEMMA BatchOf ==
  ASSUME TypeOK, NEW n \in Nodes, BeginSplit(n),
         NEW e, e = Head(log[n]), NEW t, t = tree[n]
  PROVE  \E b \in Seq(Keys \X Nat) :
           /\ worker' = [worker EXCEPT ![n] = [at |-> "move", batch |-> b, i |-> 1]]
           /\ Gives(b, t, e.key, e.value)
           /\ \A k \in Keys : /\ e.key <= k /\ k <= e.value
                              /\ pages[n] = "forward" \/ \A q \in Present(t) : q <= e.value
                              => Meets(b, t, k)
<1>1. PICK layout \in Layouts(n) :
        worker' = [worker EXCEPT ![n] =
                     [at |-> "move", batch |-> RangeSearch(tree[n], layout, e.key, e.value), i |-> 1]]
  BY DEF BeginSplit
<1>2. PICK b : b = RangeSearch(t, layout, e.key, e.value)
  OBVIOUS
<1>3. worker' = [worker EXCEPT ![n] = [at |-> "move", batch |-> b, i |-> 1]]
  BY <1>1, <1>2
<1>4. /\ 0 \in DOMAIN layout /\ DOMAIN layout \subseteq Keys \cup {0}
      /\ pages[n] = "forward" => \A p \in DOMAIN layout : layout[p] = "forward"
  BY LayoutIs
<1>5. e.key \in Nat /\ e.value \in Nat /\ t \in Contents
  <2>1. log[n] \in Seq(Entries) /\ log[n] # <<>> /\ tree[n] \in Contents
    BY DEF BeginSplit, TypeOK
  <2>2. e \in Entries /\ e.type = "split"
    BY <2>1, TailIs DEF BeginSplit
  <2> QED BY <2>1, <2>2, KeysAssumption DEF Entries
<1>6. /\ Gives(b, t, e.key, e.value)
      /\ \A k \in Keys : /\ e.key <= k /\ k <= e.value
                         /\ \/ \A p \in DOMAIN layout : layout[p] = "forward"
                            \/ \A q \in Present(t) : q <= e.value
                         => Meets(b, t, k)
  BY <1>2, <1>4, <1>5, RangeIs
<1>7. b \in Seq(Keys \X Nat)
  BY <1>6 DEF Gives
<1> QED BY <1>3, <1>4, <1>6, <1>7

(* A worker changes its tree, its log, its latch or the log of the new     *)
(* node, and leaves the leaves and the client alone.                       *)
LEMMA WorkerKeepsState ==
  ASSUME State, InSplit, NEW n \in Nodes, WorkerStep(n)
  PROVE  State'
<1> USE DEF State
<1>1. UNCHANGED <<shape, client, acked, broken, ops>>
  BY DEF WorkerStep, Apply, BeginSplit, MoveEntry, SetLatch, PruneEntry, EndSplit
<1>b. astray' \subseteq Keys
  <2>1. astray \subseteq Keys
    BY DEF TypeOK
  <2>2. CASE BeginSplit(n)
    <3>1. Stranded(n) \subseteq Keys
      BY DEF Stranded, Present
    <3> QED BY <2>1, <2>2, <3>1 DEF BeginSplit
  <2>3. CASE ~BeginSplit(n)
    BY <2>1, <2>3 DEF WorkerStep, Apply, MoveEntry, SetLatch, PruneEntry, EndSplit
  <2> QED BY <2>2, <2>3
<1>c. pages' \in [Nodes -> {"forward", "backward", "many"}]
  <2>1. pages \in [Nodes -> {"forward", "backward", "many"}]
    BY DEF TypeOK
  <2>2. CASE Apply(n) \/ PruneEntry(n)
    <3>1. /\ AfterInsert(n) \in {"forward", "backward", "many"}
          /\ \A k : AfterDelete(n, k) \in {"forward", "backward", "many"}
      BY PagesTyped
    <3>2. PICK x \in {"forward", "backward", "many"} : pages' = [pages EXCEPT ![n] = x]
      BY <2>2, <3>1 DEF Apply, PruneEntry
    <3> QED BY <2>1, <3>2
  <2>3. CASE ~(Apply(n) \/ PruneEntry(n))
    BY <2>1, <2>3 DEF WorkerStep, BeginSplit, MoveEntry, SetLatch, EndSplit
  <2> QED BY <2>2, <2>3
<1>2. Numbered' /\ Sorted' /\ Inners' /\ ChainOnce' /\ Begun' /\ ToSplit' /\ Waiting'
  <2>1. Numbered' /\ Sorted' /\ Inners' /\ ChainOnce'
    BY <1>1, SameShape
  <2>2. Begun' /\ ToSplit' /\ Waiting'
    BY <1>1 DEF Begun, ToSplit, Waiting, Splitting, shape
  <2> QED BY <2>1, <2>2
<1>3. SUFFICES
        /\ tree' \in [Nodes -> Contents] /\ split_' \in [Nodes -> BOOLEAN]
        /\ log' \in [Nodes -> Seq(Entries)] /\ \A m \in Nodes : Len(log'[m]) <= LogSlots
        /\ worker' \in [Nodes -> WorkerType]
  <2>1. TypeOK'
    BY <1>1, <1>b, <1>c, <1>3 DEF TypeOK, shape
  <2> QED BY <1>2, <2>1
<1>4. /\ tree \in [Nodes -> Contents] /\ split_ \in [Nodes -> BOOLEAN]
      /\ log \in [Nodes -> Seq(Entries)] /\ \A m \in Nodes : Len(log[m]) <= LogSlots
      /\ worker \in [Nodes -> WorkerType]
  BY DEF TypeOK
<1>5. log[n] \in Seq(Entries) /\ worker[n] \in WorkerType /\ tree[n] \in Contents
  BY <1>4
<1>6. \A k, v \in Nat : BtreeInsert(tree[n], k, v) \in Contents /\ BtreeDelete(tree[n], k) \in Contents
  <2> TAKE k, v \in Nat
  <2>1. \A x \in Keys : tree[n][x] \in Seq(Nat)
    BY <1>5 DEF Contents
  <2>2. \A x \in Keys : Append(tree[n][x], v) \in Seq(Nat) /\ (tree[n][x] # <<>> => Tail(tree[n][x]) \in Seq(Nat))
    BY <2>1
  <2> QED BY <1>5, <2>1, <2>2 DEF Contents, BtreeInsert, BtreeDelete
<1>7. log[n] # <<>> => /\ Head(log[n]) \in Entries /\ Tail(log[n]) \in Seq(Entries)
                       /\ Len(Tail(log[n])) <= LogSlots
  BY <1>4, <1>5, SlotsAssumption
<1>a. \A w \in WorkerType : worker' = [worker EXCEPT ![n] = w] => worker' \in [Nodes -> WorkerType]
  BY <1>4
<1>8. CASE Apply(n)
  <2> DEFINE e == Head(log[n])
  <2>1. log[n] # <<>> /\ e.type # "split" /\ e \in Entries
    BY <1>7, <1>8 DEF Apply
  <2>2. e.key \in Nat /\ e.value \in Nat
    BY <2>1, KeysAssumption DEF Entries
  <2>3. /\ tree' = [tree EXCEPT ![n] = IF e.type = "insert" THEN BtreeInsert(@, e.key, e.value)
                                     ELSE BtreeDelete(@, e.key)]
        /\ log' = [log EXCEPT ![n] = Tail(@)] /\ UNCHANGED <<split_, worker>>
    BY <1>8 DEF Apply
  <2> HIDE DEF e
  <2> QED BY <2>1, <2>2, <2>3, <1>4, <1>6, <1>7
<1>9. CASE BeginSplit(n)
  <2>1. PICK b \in Seq(Keys \X Nat) :
          worker' = [worker EXCEPT ![n] = [at |-> "move", batch |-> b, i |-> 1]]
    BY <1>9, BatchOf
  <2>2. UNCHANGED <<tree, log, split_>>
    BY <1>9 DEF BeginSplit
  <2> QED BY <2>1, <2>2, <1>4 DEF WorkerType
<1>10. CASE MoveEntry(n)
  <2> DEFINE w == worker[n]
             to == Head(log[n]).to
             e == Entry("insert", w.batch[w.i][1], w.batch[w.i][2], 0)
  <2>1. to \in Nodes
    <3>1. log[n] # <<>> /\ Head(log[n]).type = "split"
      BY <1>5, <1>10 DEF InSplit, MoveEntry
    <3> QED BY <3>1, <1>7 DEF Entries
  <2>2. e \in Entries
    <3>1. w.i \in Nat /\ w.batch \in Seq(Keys \X Nat)
      BY <1>5 DEF WorkerType
    <3>2. w.i \in DOMAIN w.batch
      BY <1>10, <3>1 DEF MoveEntry, InSplit
    <3> QED BY <3>1, <3>2 DEF Entries, Entry
  <2>3. /\ Len(log[to]) < LogSlots /\ log' = [log EXCEPT ![to] = Append(@, e)]
        /\ worker' = [worker EXCEPT ![n].i = @ + 1] /\ UNCHANGED <<tree, split_>>
    BY <1>10 DEF MoveEntry, Write, Accepts
  <2>4. worker' \in [Nodes -> WorkerType]
    <3>1. w.i + 1 \in Nat
      BY <1>5 DEF WorkerType
    <3>2. [w EXCEPT !.i = w.i + 1] \in WorkerType
      BY <1>5, <3>1, WorkerFields
    <3>3. worker' = [worker EXCEPT ![n] = [w EXCEPT !.i = w.i + 1]]
      BY <2>3
    <3> QED BY <3>2, <3>3, <1>a
  <2> HIDE DEF to, e
  <2>5. Append(log[to], e) \in Seq(Entries) /\ Len(Append(log[to], e)) <= LogSlots
    BY <2>1, <2>2, <2>3, <1>4, SlotsAssumption
  <2> QED BY <2>1, <2>3, <2>4, <2>5, <1>4
<1>11. CASE SetLatch(n)
  <2>1. worker[n].i \in Nat \ {0}
    BY <1>5, <1>11 DEF SetLatch, WorkerType
  <2>2. [worker[n] EXCEPT !.at = "prune", !.i = worker[n].i - 1] \in WorkerType
    <3>1. worker[n].i - 1 \in Nat
      BY <2>1
    <3> QED BY <3>1, <1>5, WorkerFields
  <2>3. worker' = [worker EXCEPT ![n] = [worker[n] EXCEPT !.at = "prune", !.i = worker[n].i - 1]]
    BY <1>11 DEF SetLatch
  <2>4. worker' \in [Nodes -> WorkerType]
    BY <2>2, <2>3, <1>a
  <2>5. split_' \in [Nodes -> BOOLEAN] /\ UNCHANGED <<tree, log>>
    BY <1>11, <1>4 DEF SetLatch
  <2> QED BY <2>4, <2>5, <1>4
<1>12. CASE PruneEntry(n)
  <2>1. /\ tree' = [tree EXCEPT ![n] = BtreeDelete(@, worker[n].batch[worker[n].i][1])]
        /\ worker' = [worker EXCEPT ![n].i = @ - 1] /\ UNCHANGED <<log, split_>> /\ worker[n].i > 0
    BY <1>12 DEF PruneEntry
  <2>2. \A k : BtreeDelete(tree[n], k) \in Contents
    <3> TAKE k
    <3>1. \A x \in Keys : tree[n][x] \in Seq(Nat)
      BY <1>5 DEF Contents
    <3>2. \A x \in Keys : tree[n][x] # <<>> => Tail(tree[n][x]) \in Seq(Nat)
      BY <3>1
    <3> QED BY <1>5, <3>1, <3>2 DEF Contents, BtreeDelete
  <2>3. worker' \in [Nodes -> WorkerType]
    <3>1. worker[n].i - 1 \in Nat
      BY <2>1, <1>5 DEF WorkerType
    <3>2. [worker[n] EXCEPT !.i = worker[n].i - 1] \in WorkerType
      BY <1>5, <3>1, WorkerFields
    <3>3. worker' = [worker EXCEPT ![n] = [worker[n] EXCEPT !.i = worker[n].i - 1]]
      BY <2>1
    <3> QED BY <3>2, <3>3, <1>a
  <2> QED BY <2>1, <2>2, <2>3, <1>4
<1>13. CASE EndSplit(n)
  <2>1. log[n] # <<>>
    BY <1>13 DEF EndSplit, InSplit
  <2>2. Resting \in WorkerType
    BY DEF Resting, WorkerType
  <2> QED BY <2>1, <2>2, <1>4, <1>7, <1>13 DEF EndSplit
<1> QED BY <1>8, <1>9, <1>10, <1>11, <1>12, <1>13 DEF WorkerStep

(* The call leaves the inner nodes and the ranges of the leaves alone.     *)
SameLeaves ==
  /\ Len(leaves') = Len(leaves)
  /\ \A x \in DOMAIN leaves : leaves'[x].inner = leaves[x].inner /\ leaves'[x].from = leaves[x].from

(* Leaves that keep their inner nodes and ranges stay sorted and have      *)
(* nodes.                                                                  *)
LEMMA SameLeavesKeepShape ==
  ASSUME State, SameLeaves, leaves' \in Seq(LeafType),
         UNCHANGED <<chain, created, to_be_recycled, freed>>
  PROVE  Numbered' /\ Sorted' /\ Inners' /\ ChainOnce' /\ DOMAIN leaves' = DOMAIN leaves /\ leaves' # <<>>
<1>1. DOMAIN leaves' = DOMAIN leaves /\ leaves' # <<>> /\ 1 \in DOMAIN leaves
  BY LeafTypes DEF SameLeaves, State
<1>2. Numbered' /\ ChainOnce'
  BY DEF State, Numbered, ChainOnce
<1>3. Sorted'
  BY <1>1 DEF State, Sorted, SameLeaves
<1>4. Inners'
  BY <1>1 DEF State, Inners, SameLeaves
<1> QED BY <1>1, <1>2, <1>3, <1>4

(* A call begins, and returns to the idle client.                          *)
LEMMA CallBegins ==
  /\ Idle \in ClientType /\ Idle.at = "idle" /\ Idle.then = "leaf"
  /\ \A k \in Keys, op \in {"insert", "erase"} :
       [Idle EXCEPT !.at = "write", !.key = k, !.op = op] \in ClientType
<1>1. Idle \in ClientType
  <2>1. <<>> \in Seq(Nat)
    OBVIOUS
  <2> QED BY <2>1, NodesAssumption DEF Idle, ClientType
<1>2. ASSUME NEW k \in Keys, NEW op \in {"insert", "erase"}
      PROVE  [Idle EXCEPT !.at = "write", !.key = k, !.op = op] \in ClientType
  BY <1>1 DEF ClientType
<1> QED BY <1>1, <1>2 DEF Idle

(* A call begins: only the client changes.                                 *)
LEMMA CallKeepsState ==
  ASSUME State, NEW k \in Keys, NEW op \in {"insert", "erase"}, Call(op, k)
  PROVE  State'
<1>1. Numbered' /\ Sorted' /\ Inners' /\ ChainOnce'
  BY SameShape DEF Call
<1>2. client' = [Idle EXCEPT !.at = "write", !.key = k, !.op = op]
  BY DEF Call
<1>3. client' \in ClientType /\ client'.at = "write" /\ client'.key = k /\ client'.op = op
  BY <1>2, CallBegins DEF Idle
<1>4. TypeOK'
  <2>1. ops' \in 0 .. MaxOps
    BY BoundAssumption DEF Call, State, TypeOK
  <2> QED BY <2>1, <1>3 DEF Call, State, TypeOK, nvm, shape
<1>5. Begun' /\ ToSplit' /\ Waiting'
  BY <1>3 DEF Begun, ToSplit, Waiting, Splitting
<1> QED BY <1>1, <1>4, <1>5 DEF State

(* A key's values after an insert or an erase returned.                    *)
LEMMA Acknowledged ==
  ASSUME State, NEW k \in Keys, Acknowledge(k)
  PROVE  acked' \in Contents /\ Value(k) \in Nat
<1>1. acked \in Contents
  BY DEF State, TypeOK
<1>2. acked[k] \in Seq(Nat) /\ \A x \in Keys : acked[x] \in Seq(Nat)
  BY <1>1 DEF Contents
<1>3. Value(k) \in Nat
  BY <1>2 DEF Value
<1>4. Append(acked[k], Value(k)) \in Seq(Nat) /\ <<>> \in Seq(Nat)
  BY <1>2, <1>3
<1> QED BY <1>1, <1>2, <1>3, <1>4 DEF Acknowledge, Contents

(* A call that is done with the write of a cold leaf or with merging       *)
(* returns, and one that wrote the log of a hot leaf goes on with the      *)
(* leaf.                                                                   *)
LEMMA ReturnsKeepsState ==
  ASSUME State, WriteCold \/ WriteLog \/ StopMerging
  PROVE  State'
<1>1. Numbered' /\ Sorted' /\ Inners' /\ ChainOnce'
  <2>1. UNCHANGED shape
    BY DEF WriteCold, WriteLog, StopMerging
  <2> QED BY <2>1, SameShape
<1> DEFINE k == client.key
           n == InnerOf(k)
<1>2. CASE StopMerging
  <2>1. client' = Idle /\ Idle.at = "idle"
    BY <1>2 DEF StopMerging, Idle
  <2>2. TypeOK'
    BY <1>2, <2>1, CallBegins DEF StopMerging, State, TypeOK, nvm, shape
  <2> QED BY <1>1, <2>1, <2>2 DEF State, Begun, ToSplit, Waiting, Splitting
<1>3. CASE WriteCold
  <2>1. k \in Keys
    BY <1>3 DEF WriteCold, State, Begun
  <2>2. acked' \in Contents /\ Value(k) \in Nat
    BY <1>3, <2>1, Acknowledged DEF WriteCold
  <2>3. client' = Idle /\ Idle.at = "idle"
    BY <1>3 DEF WriteCold, Idle
  <2>4. tree' \in [Nodes -> Contents]
    <3>1. tree \in [Nodes -> Contents]
      BY DEF State, TypeOK
    <3>2. \A m \in Nodes : BtreeInsert(tree[m], k, Value(k)) \in Contents /\ BtreeDelete(tree[m], k) \in Contents
      <4> TAKE m \in Nodes
      <4>1. tree[m] \in Contents /\ \A x \in Keys : tree[m][x] \in Seq(Nat)
        BY <3>1 DEF Contents
      <4>2. \A x \in Keys : Append(tree[m][x], Value(k)) \in Seq(Nat) /\ (tree[m][x] # <<>> => Tail(tree[m][x]) \in Seq(Nat))
        BY <4>1, <2>2
      <4> QED BY <4>1, <4>2 DEF Contents, BtreeInsert, BtreeDelete
    <3>3. tree' = [tree EXCEPT ![n] = IF client.op = "insert" THEN BtreeInsert(@, k, Value(k)) ELSE BtreeDelete(@, k)]
      BY <1>3 DEF WriteCold
    <3> HIDE DEF k, n
    <3> QED BY <3>1, <3>2, <3>3
  <2>5. pages' \in [Nodes -> {"forward", "backward", "many"}]
    <3>1. n \in Nodes /\ pages \in [Nodes -> {"forward", "backward", "many"}]
      BY <1>3 DEF WriteCold, State, TypeOK
    <3>2. /\ AfterInsert(n) \in {"forward", "backward", "many"}
          /\ AfterDelete(n, k) \in {"forward", "backward", "many"}
      BY <3>1, PagesTyped DEF State
    <3>3. PICK x \in {"forward", "backward", "many"} : pages' = [pages EXCEPT ![n] = x]
      BY <1>3, <3>2 DEF WriteCold
    <3> HIDE DEF n
    <3> QED BY <3>1, <3>3
  <2>6. TypeOK'
    BY <1>3, <2>2, <2>3, <2>4, <2>5, CallBegins DEF WriteCold, State, TypeOK, shape
  <2> QED BY <1>1, <2>3, <2>6 DEF State, Begun, ToSplit, Waiting, Splitting
<1>4. CASE WriteLog
  <2>1. k \in Keys /\ client.op \in {"insert", "erase"}
    BY <1>4 DEF WriteLog, State, Begun
  <2>2. Value(k) \in Nat
    <3>1. acked[k] \in Seq(Nat)
      BY <2>1 DEF State, TypeOK, Contents
    <3> QED BY <3>1 DEF Value
  <2>3. client' = [client EXCEPT !.at = "leaf"] /\ client \in ClientType
    BY <1>4 DEF WriteLog, State, TypeOK
  <2>4. client' \in ClientType /\ client'.at = "leaf" /\ client'.key = k /\ client'.op = client.op
    BY <2>3 DEF ClientType
  <2>5. log' \in [Nodes -> Seq(Entries)] /\ \A m \in Nodes : Len(log'[m]) <= LogSlots
    <3> DEFINE e == Entry(client.op, k, Value(k), 0)
    <3>1. e \in Entries
      BY <2>1, <2>2 DEF Entry, Entries
    <3>2. Len(log[n]) < LogSlots /\ log' = [log EXCEPT ![n] = Append(@, e)]
      BY <1>4 DEF WriteLog, Write, Accepts
    <3>3. log \in [Nodes -> Seq(Entries)] /\ \A m \in Nodes : Len(log[m]) <= LogSlots
      BY DEF State, TypeOK
    <3> HIDE DEF e, n
    <3>4. n \in Nodes => Append(log[n], e) \in Seq(Entries) /\ Len(Append(log[n], e)) <= LogSlots
      BY <3>1, <3>2, <3>3, SlotsAssumption
    <3> QED BY <3>2, <3>3, <3>4
  <2>6. TypeOK'
    BY <1>4, <2>4, <2>5 DEF WriteLog, State, TypeOK, shape
  <2>7. Begun' /\ ToSplit' /\ Waiting'
    BY <2>1, <2>4 DEF Begun, ToSplit, Waiting, Splitting
  <2> QED BY <1>1, <2>6, <2>7 DEF State
<1> QED BY <1>2, <1>3, <1>4

(* Only the data of the key's leaf change.                                 *)
LEMMA LeafKeepsLeaves ==
  ASSUME State, InsertLeaf \/ EraseLeaf
  PROVE  leaves' \in Seq(LeafType) /\ SameLeaves /\ DOMAIN leaves' = DOMAIN leaves
<1> DEFINE k == client.key
           i == LeafOf(k)
<1>1. k \in Keys /\ k \in Nat
  BY KeysAssumption DEF InsertLeaf, EraseLeaf, State, Begun
<1>2. i \in DOMAIN leaves /\ i \in Nat /\ leaves \in Seq(LeafType) /\ leaves[i] \in LeafType
  <2>1. i \in DOMAIN leaves
    BY <1>1, LeafOfIs DEF State
  <2>2. leaves \in Seq(LeafType)
    BY LeafTypes DEF State
  <2> HIDE DEF i
  <2> QED BY <2>1, <2>2
<1>3. acked' \in Contents /\ Value(k) \in Nat
  BY <1>1, Acknowledged DEF InsertLeaf, EraseLeaf
<1>4. PICK d \in Contents : leaves' = [leaves EXCEPT ![i].data = d]
  <2>1. leaves[i].data \in Contents
    BY <1>2 DEF LeafType
  <2>2. leaves[i].data[k] \in Seq(Nat)
    BY <2>1, <1>1 DEF Contents
  <2>3. CASE InsertLeaf
    <3>1. Append(leaves[i].data[k], Value(k)) \in Seq(Nat)
      BY <2>2, <1>3
    <3>2. [leaves[i].data EXCEPT ![k] = Append(@, Value(k))] \in Contents
      BY <2>1, <3>1 DEF Contents
    <3>3. leaves' = [leaves EXCEPT ![i].data = [leaves[i].data EXCEPT ![k] = Append(@, Value(k))]]
      BY <2>3 DEF InsertLeaf
    <3> QED BY <3>2, <3>3
  <2>4. CASE EraseLeaf
    <3>1. [leaves[i].data EXCEPT ![k] = <<>>] \in Contents
      <4>1. <<>> \in Seq(Nat)
        OBVIOUS
      <4> QED BY <2>1, <4>1 DEF Contents
    <3>2. leaves' = [leaves EXCEPT ![i].data = [leaves[i].data EXCEPT ![k] = <<>>]]
      BY <2>4 DEF EraseLeaf
    <3> QED BY <3>1, <3>2
  <2> QED BY <2>3, <2>4
<1> HIDE DEF i
<1>5. leaves' \in Seq(LeafType) /\ SameLeaves
  <2>1. [leaves[i] EXCEPT !.data = d] \in LeafType
    BY <1>2 DEF LeafType
  <2>2. leaves' = [leaves EXCEPT ![i] = [leaves[i] EXCEPT !.data = d]]
    BY <1>4
  <2>3. /\ [leaves[i] EXCEPT !.data = d].inner = leaves[i].inner
        /\ [leaves[i] EXCEPT !.data = d].from = leaves[i].from
    BY <1>2 DEF LeafType
  <2> DEFINE l == [leaves[i] EXCEPT !.data = d]
  <2> HIDE DEF l
  <2>4. leaves' \in Seq(LeafType) /\ Len(leaves') = Len(leaves)
    BY <2>1, <2>2, <1>2 DEF l
  <2>5. \A x \in DOMAIN leaves : leaves'[x].inner = leaves[x].inner /\ leaves'[x].from = leaves[x].from
    BY <2>2, <2>3, <1>2
  <2> QED BY <2>4, <2>5 DEF SameLeaves
<1>6. DOMAIN leaves' = DOMAIN leaves
  BY <1>4
<1> QED BY <1>5, <1>6

(* The insert or the erase in the key's leaf.                              *)
LEMMA LeafKeepsState ==
  ASSUME State, InsertLeaf \/ EraseLeaf
  PROVE  State'
<1> DEFINE k == client.key
           i == LeafOf(k)
<1>1. k \in Keys /\ k \in Nat
  BY KeysAssumption DEF InsertLeaf, EraseLeaf, State, Begun
<1>2. i \in DOMAIN leaves /\ i \in Nat
  <2>1. TypeOK /\ Sorted
    BY DEF State
  <2>2. i \in DOMAIN leaves
    BY <2>1, <1>1, LeafOfIs
  <2>3. DOMAIN leaves = 1 .. Len(leaves) /\ Len(leaves) \in Nat
    BY <2>1, LeafTypes
  <2> HIDE DEF i
  <2> QED BY <2>2, <2>3
<1>3. acked' \in Contents
  BY <1>1, Acknowledged DEF InsertLeaf, EraseLeaf
<1> HIDE DEF i
<1>5. leaves' \in Seq(LeafType) /\ SameLeaves
  BY LeafKeepsLeaves
<1>6. UNCHANGED <<nvm, chain, created, cold, to_be_recycled, freed, astray, broken, ops>>
  BY DEF InsertLeaf, EraseLeaf
<1>7. Numbered' /\ Sorted' /\ Inners' /\ ChainOnce' /\ DOMAIN leaves' = DOMAIN leaves /\ leaves' # <<>>
  BY <1>5, <1>6, SameLeavesKeepShape
<1>8. /\ client' \in ClientType
      /\ \/ client'.at = "idle"
         \/ client'.at = "merge" /\ client'.leaf = i /\ client'.key = client.key /\ client'.op = client.op
  <2>1. client \in ClientType
    BY DEF State, TypeOK
  <2>2. CASE client' = Idle
    BY <2>2, CallBegins
  <2>3. CASE client' = [client EXCEPT !.at = "merge", !.leaf = i]
    BY <2>1, <2>3, <1>2 DEF ClientType
  <2> QED BY <2>2, <2>3 DEF InsertLeaf, EraseLeaf, i
<1>9. TypeOK'
  BY <1>3, <1>5, <1>6, <1>7, <1>8 DEF State, TypeOK, nvm
<1>10. Begun' /\ ToSplit' /\ Waiting'
  <2>2. client.key \in Keys /\ client.op \in {"insert", "erase"}
    BY DEF InsertLeaf, EraseLeaf, State, Begun
  <2> QED BY <1>8, <2>2, <1>2, <1>7 DEF Begun, ToSplit, Waiting, Splitting
<1> QED BY <1>7, <1>9, <1>10 DEF State

(* The leaves stay sorted when the pieces of a leaf take its place.        *)
LEMMA DividedKeepsShape ==
  ASSUME State, NEW i \in DOMAIN leaves, NEW B \in SUBSET Keys, Inside(i, B),
         leaves' = Replace(i, Divide(i, B)), UNCHANGED <<chain, created, to_be_recycled, freed>>
  PROVE  /\ Numbered' /\ Sorted' /\ Inners' /\ ChainOnce' /\ leaves' \in Seq(LeafType) /\ leaves' # <<>>
         /\ Cardinality(B) \in Nat /\ DOMAIN leaves' = 1 .. Len(leaves) + Cardinality(B)
<1> DEFINE n == Cardinality(B)
           m == Len(leaves)
<1>1. /\ n \in Nat /\ leaves' \in Seq(LeafType) /\ Len(leaves') = m + n
      /\ \A x \in 1 .. i - 1 : leaves'[x] = leaves[x]
      /\ \A x \in i .. i + n : leaves'[x].inner = leaves[i].inner
      /\ \A x \in i + n + 1 .. m + n : leaves'[x] = leaves[x - n]
      /\ leaves'[1].from = 0
      /\ \A x, y \in DOMAIN leaves' : x < y => leaves'[x].from < leaves'[y].from
  BY DividedLeaves DEF State
<1>2. m \in Nat \ {0} /\ i \in 1 .. m /\ DOMAIN leaves = 1 .. m
  BY LeafTypes DEF State
<1> HIDE DEF n, m
<1>3. DOMAIN leaves' = 1 .. m + n /\ leaves' # <<>>
  BY <1>1, <1>2
<1>4. Inners'
  <2> SUFFICES ASSUME NEW x \in 1 .. m + n PROVE leaves'[x].inner \in created
    BY <1>3 DEF Inners
  <2>1. CASE x < i
    BY SMTT(30), <2>1, <1>1, <1>2 DEF State, Inners
  <2>2. CASE i <= x /\ x <= i + n
    BY <2>2, <1>1, <1>2 DEF State, Inners
  <2>3. CASE x > i + n
    <3>1. x \in i + n + 1 .. m + n /\ x - n \in 1 .. m
      BY <2>3, <1>1, <1>2
    <3> QED BY <3>1, <1>1, <1>2 DEF State, Inners
  <2> QED BY <2>1, <2>2, <2>3, <1>1, <1>2
<1>5. Numbered' /\ ChainOnce'
  BY DEF State, Numbered, ChainOnce
<1>6. Sorted'
  BY <1>1 DEF Sorted
<1> QED BY <1>1, <1>3, <1>4, <1>5, <1>6 DEF n, m

(* A leaf is split in two: there is an inner node left for each piece to   *)
(* do.                                                                     *)
LEMMA SplitLeafKeepsState ==
  ASSUME State, NEW b \in Keys, NEW kind, SplitLeaf(kind, b)
  PROVE  State'
<1> DEFINE k == client.key
           i == LeafOf(k)
           todo == IF kind = "two" THEN <<i + 1>> ELSE <<i + 1, i>>
<1>1. k \in Keys /\ k \in Nat /\ client.op \in {"insert", "erase"}
  BY KeysAssumption DEF SplitLeaf, State, Begun
<1>2. i \in DOMAIN leaves /\ i \in 1 .. Len(leaves) /\ Len(leaves) \in Nat
  BY <1>1, LeafOfIs, LeafTypes DEF State
<1>3. /\ Inside(i, {b}) /\ Spare(IF kind = "two" THEN 1 ELSE 2) /\ leaves' = Replace(i, Divide(i, {b}))
      /\ client' = [client EXCEPT !.at = "split", !.old = leaves[i].inner, !.then = "leaf", !.todo = todo]
      /\ UNCHANGED <<nvm, chain, created, cold, to_be_recycled, freed, acked, broken, ops>>
      /\ astray' \subseteq Keys
  <2>1. astray' \subseteq Keys
    <3>1. astray' \subseteq astray \cup {k}
      BY DEF SplitLeaf
    <3> QED BY <3>1, <1>1 DEF State, TypeOK
  <2> QED BY <2>1 DEF SplitLeaf
<1>4. leaves[i].inner \in created /\ leaves[i].inner \in Nodes
  BY <1>2, LeafTypes DEF State, Inners
<1> HIDE DEF i
<1>5. /\ Numbered' /\ Sorted' /\ Inners' /\ ChainOnce' /\ leaves' \in Seq(LeafType) /\ leaves' # <<>>
      /\ DOMAIN leaves' = 1 .. Len(leaves) + 1
  <2>1. Cardinality({b}) = 1 /\ {b} \in SUBSET Keys
    BY FS_Singleton
  <2> QED BY <2>1, <1>2, <1>3, DividedKeepsShape
<1>6. todo \in Seq(Nat) /\ todo # <<>> /\ Len(todo) = (IF kind = "two" THEN 1 ELSE 2)
      /\ \A j \in DOMAIN todo : todo[j] \in 1 .. Len(leaves) + 1
  <2>1. i \in Nat /\ i + 1 \in Nat /\ i \in 1 .. Len(leaves) + 1 /\ i + 1 \in 1 .. Len(leaves) + 1
    BY <1>2
  <2>2. CASE kind = "two"
    BY <2>1, <2>2
  <2>3. CASE kind # "two"
    <3>1. todo = <<i + 1, i>>
      BY <2>3
    <3> HIDE DEF todo
    <3> QED BY <2>1, <2>3, <3>1
  <2> QED BY <2>2, <2>3
<1> HIDE DEF todo
<1>7. client \in ClientType
  BY DEF State, TypeOK
<1>8. /\ client' \in ClientType /\ client'.at = "split" /\ client'.key = k /\ client'.op = client.op
      /\ client'.old = leaves[i].inner /\ client'.todo = todo
  <2>1. leaves[i].inner \in Nodes /\ todo \in Seq(Nat)
    BY <1>4, <1>6
  <2>2. client' = [client EXCEPT !.at = "split", !.old = leaves[i].inner, !.then = "leaf", !.todo = todo]
    BY <1>3
  <2> QED BY <2>1, <2>2, <1>7 DEF ClientType
<1>9. TypeOK'
  BY <1>3, <1>5, <1>8 DEF State, TypeOK, nvm
<1>10. Begun' /\ Waiting'
  BY <1>1, <1>8 DEF Begun, Waiting
<1>11. ToSplit'
  <2>1. Cardinality(created') + Len(todo) <= Cardinality(Nodes)
    BY <1>3, <1>6 DEF Spare
  <2>2. Cardinality(Nodes) + 0 = Cardinality(Nodes)
    BY NodesNat
  <2>3. /\ client'.todo # <<>> /\ \A j \in DOMAIN client'.todo : client'.todo[j] \in DOMAIN leaves'
        /\ client'.old \in created'
    BY <1>3, <1>4, <1>5, <1>6, <1>8
  <2> QED BY <2>1, <2>2, <2>3, <1>3, <1>8 DEF ToSplit
<1> QED BY <1>5, <1>9, <1>10, <1>11 DEF State

(* An outer leaf gives keys to new leaves: one inner node is left for      *)
(* each.                                                                   *)
LEMMA ExpandRootKeepsState ==
  ASSUME State, NEW B \in SUBSET Keys, ExpandRoot(B)
  PROVE  State'
<1> DEFINE k == client.key
           i == LeafOf(k)
           n == Cardinality(B)
           todo == [j \in 1 .. n |-> i + n + 1 - j]
<1>1. k \in Keys /\ k \in Nat /\ client.op \in {"insert", "erase"}
  BY KeysAssumption DEF ExpandRoot, State, Begun
<1>2. i \in DOMAIN leaves /\ i \in 1 .. Len(leaves) /\ Len(leaves) \in Nat
  BY <1>1, LeafOfIs, LeafTypes DEF State
<1>3. /\ Inside(i, B) /\ Spare(n) /\ leaves' = Replace(i, Divide(i, B)) /\ B # {}
      /\ client' = [client EXCEPT !.at = "split", !.old = leaves[i].inner, !.then = "write", !.todo = todo]
      /\ UNCHANGED <<nvm, chain, created, cold, to_be_recycled, freed, acked, astray, broken, ops>>
  BY DEF ExpandRoot
<1>4. leaves[i].inner \in created /\ leaves[i].inner \in Nodes
  BY <1>2, LeafTypes DEF State, Inners
<1>5. n \in Nat \ {0}
  <2>1. IsFiniteSet(B)
    BY KeysAssumption, FS_Subset
  <2> QED BY <2>1, <1>3, FS_CardinalityType, FS_EmptySet
<1> HIDE DEF i
<1>6. /\ Numbered' /\ Sorted' /\ Inners' /\ ChainOnce' /\ leaves' \in Seq(LeafType) /\ leaves' # <<>>
      /\ DOMAIN leaves' = 1 .. Len(leaves) + n
  BY <1>2, <1>3, DividedKeepsShape
<1> HIDE DEF n
<1>7. todo \in Seq(Nat) /\ todo # <<>> /\ Len(todo) = n
      /\ \A j \in DOMAIN todo : todo[j] \in 1 .. Len(leaves) + n
  <2>1. \A j \in 1 .. n : i + n + 1 - j \in Nat /\ i + n + 1 - j \in 1 .. Len(leaves) + n
    BY <1>2, <1>5
  <2> QED BY <2>1, <1>5
<1> HIDE DEF todo
<1>8. client \in ClientType
  BY DEF State, TypeOK
<1>9. /\ client' \in ClientType /\ client'.at = "split" /\ client'.key = k /\ client'.op = client.op
      /\ client'.old = leaves[i].inner /\ client'.todo = todo
  <2>1. leaves[i].inner \in Nodes /\ todo \in Seq(Nat)
    BY <1>4, <1>7
  <2>2. client' = [client EXCEPT !.at = "split", !.old = leaves[i].inner, !.then = "write", !.todo = todo]
    BY <1>3
  <2> QED BY <2>1, <2>2, <1>8 DEF ClientType
<1>10. TypeOK'
  BY <1>3, <1>6, <1>9 DEF State, TypeOK, nvm
<1>11. Begun' /\ Waiting'
  BY <1>1, <1>9 DEF Begun, Waiting
<1>12. ToSplit'
  <2>1. Cardinality(created') + Len(todo) <= Cardinality(Nodes)
    BY <1>3, <1>7 DEF Spare
  <2>2. Cardinality(Nodes) + 0 = Cardinality(Nodes)
    BY NodesNat
  <2>3. /\ client'.todo # <<>> /\ \A j \in DOMAIN client'.todo : client'.todo[j] \in DOMAIN leaves'
        /\ client'.old \in created'
    BY <1>3, <1>4, <1>6, <1>7, <1>9
  <2> QED BY <2>1, <2>2, <2>3, <1>3, <1>9 DEF ToSplit
<1> QED BY <1>6, <1>10, <1>11, <1>12 DEF State

(* InnerNode::split puts a node that was never used right of the old one.  *)
LEMMA NewNode ==
  ASSUME State, SplitNode
  PROVE  LET new == Cardinality(created)
         IN  /\ new \in Nodes \ created /\ created' = created \cup {new}
             /\ created' = 0 .. Cardinality(created') - 1 /\ Cardinality(created') = new + 1
             /\ chain' \in Seq(Nodes)
             /\ \E at \in DOMAIN chain :
                  /\ chain[at] = client.old /\ Len(chain') = Len(chain) + 1
                  /\ \A p \in 1 .. at : chain'[p] = chain[p]
                  /\ chain'[at + 1] = new
                  /\ \A p \in at + 1 .. Len(chain) : chain'[p + 1] = chain[p]
<1> DEFINE new == Cardinality(created)
           C == Cardinality(Nodes)
           at == CHOOSE p \in DOMAIN chain : chain[p] = client.old
<1>1. C \in Nat /\ Nodes = 0 .. C - 1 /\ new \in Nat /\ created = 0 .. new - 1
  <2>1. IsFiniteSet(Nodes) /\ created \in SUBSET Nodes
    BY NodesAssumption DEF State, TypeOK
  <2>2. IsFiniteSet(created)
    BY <2>1, FS_Subset
  <2> QED BY <2>2, NodesNat, NodesAssumption, FS_CardinalityType DEF State, Numbered
<1>2. new < C
  <2>1. Len(client.todo) \in Nat \ {0}
    <3>1. client.todo \in Seq(Nat) /\ client.todo # <<>>
      BY Typed DEF State, ToSplit, Splitting, SplitNode
    <3> QED BY <3>1
  <2>2. new + Len(client.todo) <= C + 0
    BY DEF State, ToSplit, Splitting, SplitNode
  <2> HIDE DEF new, C
  <2> QED BY <2>1, <2>2, <1>1
<1>3. created' = created \cup {new}
  BY DEF SplitNode
<1> HIDE DEF C
<1>4. new \in Nodes \ created /\ created' = 0 .. new /\ Cardinality(created') = new + 1
  <2> HIDE DEF new
  <2>1. new \in Nodes \ created /\ created' = 0 .. new
    BY <1>1, <1>2, <1>3
  <2>2. Cardinality(0 .. new) = new + 1
    BY <1>1, FS_Interval
  <2> QED BY <2>1, <2>2
<1>5. at \in DOMAIN chain /\ chain[at] = client.old
  <2>1. \E p \in DOMAIN chain : chain[p] = client.old
    BY DEF SplitNode, State, ToSplit, Splitting, ChainOnce
  <2> QED BY <2>1
<1>6. chain' = SubSeq(chain, 1, at) \o <<new>> \o SubSeq(chain, at + 1, Len(chain))
  BY DEF SplitNode
<1>7. chain \in Seq(Nodes) /\ <<new>> \in Seq(Nodes) /\ at \in Nat /\ at + 1 \in Nat /\ at < at + 1
      /\ at + 1 <= Len(chain) + 1
  <2>1. chain \in Seq(Nodes)
    BY DEF State, TypeOK
  <2> HIDE DEF new, at
  <2> QED BY <2>1, <1>4, <1>5
<1> HIDE DEF new, at
<1>8. chain' \in Seq(Nodes) /\ Spliced(chain', chain, at, <<new>>, at + 1)
  BY <1>6, <1>7, SpliceIs
<1>9. /\ Len(chain') = Len(chain) + 1
      /\ \A p \in 1 .. at : chain'[p] = chain[p]
      /\ chain'[at + 1] = new
      /\ \A p \in at + 1 .. Len(chain) : chain'[p + 1] = chain[p]
  <2>1. Len(<<new>>) = 1 /\ <<new>>[1] = new
    OBVIOUS
  <2>2. /\ Len(chain') = at + 1 + Len(chain) - (at + 1) + 1
        /\ \A p \in 1 .. at : chain'[p] = chain[p]
        /\ \A p \in 1 .. 1 : chain'[at + p] = <<new>>[p]
        /\ \A p \in at + 1 .. Len(chain) : chain'[at + 1 + p - (at + 1) + 1] = chain[p]
    BY <1>8, <2>1 DEF Spliced
  <2>3. Len(chain) \in Nat
    BY <1>7
  <2>4. at + 1 + Len(chain) - (at + 1) + 1 = Len(chain) + 1
    BY <1>7, <2>3
  <2>5. \A p \in at + 1 .. Len(chain) : at + 1 + p - (at + 1) + 1 = p + 1
    BY <1>7, <2>3
  <2> QED BY <2>1, <2>2, <2>4, <2>5
<1>10. (new + 1) - 1 = new
  BY <1>1
<1> QED BY <1>3, <1>4, <1>5, <1>8, <1>9, <1>10 DEF new

(* The new node is the next number and comes right of the old one in the   *)
(* chain; the old one's latch is reset and the call waits for it.          *)
LEMMA SplitNodeKeepsState ==
  ASSUME State, SplitNode
  PROVE  State'
<1> DEFINE new == Cardinality(created)
           C == Cardinality(Nodes)
           t == Head(client.todo)
           keys == Present(leaves[t].data)
<1>1. /\ new \in Nodes \ created /\ created' = created \cup {new}
      /\ created' = 0 .. Cardinality(created') - 1 /\ Cardinality(created') = new + 1
      /\ chain' \in Seq(Nodes)
  BY NewNode
<1>2. PICK at \in DOMAIN chain :
        /\ chain[at] = client.old /\ Len(chain') = Len(chain) + 1
        /\ \A p \in 1 .. at : chain'[p] = chain[p]
        /\ chain'[at + 1] = new
        /\ \A p \in at + 1 .. Len(chain) : chain'[p + 1] = chain[p]
  BY NewNode
<1>3. /\ client.at = "split" /\ client.old \in Nodes /\ client.old \in created
      /\ client.todo \in Seq(Nat) /\ client.todo # <<>> /\ new + Len(client.todo) <= C
      /\ \A j \in DOMAIN client.todo : client.todo[j] \in DOMAIN leaves
      /\ client.key \in Keys /\ client.op \in {"insert", "erase"}
  <2>1. client.old \in Nodes /\ client.todo \in Seq(Nat)
    BY Typed DEF State
  <2>2. new + Len(client.todo) <= C + 0 /\ C \in Nat
    BY NodesNat DEF SplitNode, State, ToSplit, Splitting
  <2>3. new \in Nat
    BY NodesNat, <1>1
  <2>4. Len(client.todo) \in Nat
    BY <2>1
  <2>5. new + Len(client.todo) <= C
    <3> HIDE DEF new, C
    <3> QED BY <2>2, <2>3, <2>4
  <2> HIDE DEF new, C
  <2> QED BY <2>1, <2>5 DEF SplitNode, State, ToSplit, Splitting, Begun
<1>4. /\ client' = [client EXCEPT !.at = "wait", !.leaf = new] /\ split_' = [split_ EXCEPT ![client.old] = FALSE]
      /\ Write(client.old, IF keys = {} THEN Entry("split", 1, 0, new)
                           ELSE Entry("split", Least(keys), Greatest(keys), new))
      /\ UNCHANGED <<tree, pages, worker, leaves, cold, to_be_recycled, freed, acked, astray, broken, ops>>
  BY DEF SplitNode
<1>5. /\ client' \in ClientType /\ client'.at = "wait" /\ client'.leaf = new /\ client'.old = client.old
      /\ client'.todo = client.todo /\ client'.key = client.key /\ client'.op = client.op
  <2>1. new \in Nat
    BY NodesNat, <1>1
  <2>2. client \in ClientType /\ client' = [client EXCEPT !.at = "wait", !.leaf = new]
    BY <1>4 DEF State, TypeOK
  <2> HIDE DEF new
  <2> QED BY <2>1, <2>2 DEF ClientType
<1>6. log' \in [Nodes -> Seq(Entries)] /\ \A m \in Nodes : Len(log'[m]) <= LogSlots
  <2> DEFINE e == IF keys = {} THEN Entry("split", 1, 0, new) ELSE Entry("split", Least(keys), Greatest(keys), new)
  <2>1. keys # {} => Least(keys) \in Nat /\ Greatest(keys) \in Nat
    <3>1. keys \in SUBSET Keys
      BY DEF Present
    <3> HIDE DEF keys
    <3>2. \A k \in keys : k \in Nat
      BY <3>1, KeysAssumption
    <3>3. keys \in SUBSET Int /\ IsFiniteSet(keys)
      <4>1. IsFiniteSet(keys)
        BY <3>1, KeysAssumption, FS_Subset
      <4> QED BY <4>1, <3>2
    <3> SUFFICES ASSUME keys # {} PROVE Least(keys) \in Nat /\ Greatest(keys) \in Nat
      OBVIOUS
    <3>4. (\E x \in keys : \A y \in keys : x <= y) /\ \E x \in keys : \A y \in keys : x >= y
      <4>1. (\E x \in keys : \A y \in keys : x <= y) /\ \E x \in keys : \A y \in keys : y <= x
        BY <3>3, EndsOf
      <4> QED BY <4>1, <3>2
    <3>5. Least(keys) \in keys /\ Greatest(keys) \in keys
      BY <3>4 DEF Least, Greatest
    <3> QED BY <3>2, <3>5
  <2>2. e \in Entries
    <3>1. new \in Nodes
      BY <1>1
    <3> HIDE DEF new, keys
    <3> QED BY <2>1, <3>1 DEF Entry, Entries
  <2> DEFINE old == client.old
  <2>3. Len(log[old]) < LogSlots /\ log' = [log EXCEPT ![old] = Append(@, e)] /\ old \in Nodes
    BY <1>3, <1>4 DEF Write, Accepts
  <2>4. log \in [Nodes -> Seq(Entries)] /\ \A m \in Nodes : Len(log[m]) <= LogSlots
    BY DEF State, TypeOK
  <2> HIDE DEF e, old
  <2>5. Append(log[old], e) \in Seq(Entries) /\ Len(Append(log[old], e)) <= LogSlots
    BY <2>2, <2>3, <2>4, SlotsAssumption
  <2> QED BY <2>3, <2>4, <2>5
<1>7. TypeOK'
  BY <1>1, <1>4, <1>5, <1>6 DEF State, TypeOK
<1>8. Numbered' /\ Sorted' /\ Inners'
  BY <1>1, <1>4 DEF State, Numbered, Sorted, Inners
<1>9. Begun' /\ Waiting'
  BY <1>1, <1>3, <1>4, <1>5 DEF Begun, Waiting, State, TypeOK
<1>10. ToSplit'
  <2>1. Cardinality(created') + Len(client'.todo) <= C + 1
    <3>1. new \in Nat /\ C \in Nat /\ Len(client.todo) \in Nat
      BY <1>1, <1>3, NodesNat
    <3>2. (new + 1) + Len(client.todo) <= C + 1
      <4> DEFINE l == Len(client.todo)
      <4>1. new + l <= C /\ l \in Nat
        BY <1>3, <3>1
      <4> HIDE DEF new, C, l
      <4>2. (new + 1) + l <= C + 1
        BY <3>1, <4>1
      <4> QED BY <4>2 DEF l
    <3> QED BY <3>2, <1>1, <1>5
  <2>2. client'.todo # <<>> /\ \A j \in DOMAIN client'.todo : client'.todo[j] \in DOMAIN leaves'
    BY <1>3, <1>4, <1>5
  <2>3. client'.old \in created'
    BY <1>1, <1>3, <1>5
  <2> QED BY <2>1, <2>2, <2>3, <1>5 DEF ToSplit
<1>11. ChainOnce'
  <2>1. freed' \subseteq to_be_recycled' /\ new \notin freed /\ freed' = freed
    BY <1>1, <1>4 DEF State, ChainOnce, TypeOK
  <2>2. Len(chain) \in Nat /\ DOMAIN chain = 1 .. Len(chain) /\ DOMAIN chain' = 1 .. Len(chain) + 1
    <3>1. chain \in Seq(Nodes)
      BY DEF State, TypeOK
    <3> QED BY <3>1, <1>1, <1>2
  <2> HIDE DEF new
  <2>3. \A p \in DOMAIN chain' :
          \/ p \in 1 .. at /\ p \in DOMAIN chain /\ chain'[p] = chain[p]
          \/ p = at + 1 /\ chain'[p] = new
          \/ p > at + 1 /\ p - 1 \in DOMAIN chain /\ p - 1 > at /\ chain'[p] = chain[p - 1]
    <3> TAKE p \in DOMAIN chain'
    <3>1. CASE p <= at
      BY <3>1, <2>2, <1>2
    <3>2. CASE p = at + 1
      BY <3>2, <1>2
    <3>3. CASE p > at + 1
      <4>1. p - 1 \in at + 1 .. Len(chain) /\ (p - 1) + 1 = p
        BY <3>3, <2>2
      <4>2. chain'[(p - 1) + 1] = chain[p - 1]
        BY <4>1, <1>2
      <4> QED BY <3>3, <4>1, <4>2, <2>2
    <3> QED BY <3>1, <3>2, <3>3, <2>2
  <2>4. /\ \A p, q \in DOMAIN chain : chain[p] = chain[q] => p = q
        /\ \A p \in DOMAIN chain : chain[p] \in created \ freed
        /\ \A n \in created \ freed : \E p \in DOMAIN chain : chain[p] = n
    BY DEF State, ChainOnce
  <2>5. \A p \in DOMAIN chain : chain[p] # new
    BY <2>4, <1>1
  <2>6. \A p, q \in DOMAIN chain' : chain'[p] = chain'[q] => p = q
    <3> SUFFICES ASSUME NEW p \in DOMAIN chain', NEW q \in DOMAIN chain', p < q, chain'[p] = chain'[q]
                 PROVE  FALSE
      BY <2>2
    <3>1. CASE p \in 1 .. at /\ p \in DOMAIN chain /\ chain'[p] = chain[p]
      <4>1. q \in 1 .. at \/ q = at + 1 \/ q > at + 1
        BY <2>3
      <4>2. CASE q \in 1 .. at
        <5>1. q \in DOMAIN chain /\ chain'[q] = chain[q]
          BY <4>2, <1>2, <2>2
        <5>2. p = q
          BY <3>1, <5>1, <2>4
        <5> QED BY <5>2, <2>2
      <4>3. CASE q = at + 1
        BY <3>1, <4>3, <2>5, <1>2
      <4>4. CASE q > at + 1
        <5>1. q - 1 \in DOMAIN chain /\ chain'[q] = chain[q - 1] /\ q - 1 > at
          BY <4>4, <2>3, <2>2
        <5> QED BY <5>1, <3>1, <2>4, <2>2
      <4> QED BY <4>1, <4>2, <4>3, <4>4
    <3>2. CASE p = at + 1 /\ chain'[p] = new
      <4>1. q - 1 \in DOMAIN chain /\ chain'[q] = chain[q - 1]
        BY <3>2, <2>3, <2>2
      <4> QED BY <4>1, <3>2, <2>5
    <3>3. CASE p > at + 1 /\ p - 1 \in DOMAIN chain /\ p - 1 > at /\ chain'[p] = chain[p - 1]
      <4>1. q - 1 \in DOMAIN chain /\ chain'[q] = chain[q - 1]
        <5>1. q > at + 1
          BY <3>3, <2>2
        <5> QED BY <5>1, <2>3, <2>2
      <4>2. p - 1 = q - 1
        BY <4>1, <3>3, <2>4
      <4> QED BY <4>2, <2>2
    <3> QED BY <3>1, <3>2, <3>3, <2>3
  <2>7. \A p \in DOMAIN chain' : chain'[p] \in created' \ freed'
    BY <2>1, <2>3, <2>4, <1>1
  <2>8. \A n \in created' \ freed' : \E p \in DOMAIN chain' : chain'[p] = n
    <3> TAKE n \in created' \ freed'
    <3>1. CASE n = new
      BY <3>1, <1>2, <2>2
    <3>2. CASE n # new
      <4>1. PICK p \in DOMAIN chain : chain[p] = n
        BY <3>2, <2>1, <2>4, <1>1
      <4>2. CASE p <= at
        BY <4>1, <4>2, <1>2, <2>2
      <4>3. CASE p > at
        <5>1. p \in at + 1 .. Len(chain) /\ p + 1 \in DOMAIN chain'
          BY <4>3, <2>2
        <5> QED BY <5>1, <4>1, <1>2
      <4> QED BY <4>2, <4>3, <2>2
    <3> QED BY <3>1, <3>2
  <2> QED BY <2>1, <2>6, <2>7, <2>8 DEF ChainOnce
<1> QED BY <1>7, <1>8, <1>9, <1>10, <1>11 DEF State

(* The piece gets its node and the call goes on with the other pieces.     *)
LEMMA SplitReturnsKeepsState ==
  ASSUME State, SplitReturns
  PROVE  State'
<1> DEFINE t == Head(client.todo)
           rest == Tail(client.todo)
           C == Cardinality(Nodes)
           n == Cardinality(created)
<1>1. /\ client.at = "wait" /\ client.todo \in Seq(Nat) /\ client.todo # <<>> /\ client.old \in created
      /\ client.leaf \in created /\ client.key \in Keys /\ client.op \in {"insert", "erase"}
      /\ \A j \in DOMAIN client.todo : client.todo[j] \in DOMAIN leaves
      /\ n + Len(client.todo) <= C + 1
  <2>1. client.todo \in Seq(Nat)
    BY Typed DEF State
  <2> QED BY <2>1 DEF SplitReturns, State, ToSplit, Splitting, Waiting, Begun
<1>2. /\ t \in DOMAIN leaves /\ rest \in Seq(Nat) /\ Len(rest) = Len(client.todo) - 1 /\ Len(rest) \in Nat
      /\ \A j \in DOMAIN rest : rest[j] \in DOMAIN leaves
  <2> DEFINE s == client.todo
  <2>1. s \in Seq(Nat) /\ s # <<>> /\ \A j \in DOMAIN s : s[j] \in DOMAIN leaves
    BY <1>1
  <2> HIDE DEF s
  <2>2. Len(s) \in Nat \ {0} /\ DOMAIN s = 1 .. Len(s) /\ Head(s) = s[1] /\ Tail(s) \in Seq(Nat)
        /\ Len(Tail(s)) = Len(s) - 1 /\ \A j \in 1 .. Len(s) - 1 : Tail(s)[j] = s[j + 1]
    BY <2>1
  <2>3. DOMAIN Tail(s) = 1 .. Len(s) - 1
    BY <2>2
  <2>4. Head(s) \in DOMAIN leaves /\ \A j \in DOMAIN Tail(s) : Tail(s)[j] \in DOMAIN leaves
    BY <2>1, <2>2, <2>3
  <2> QED BY <2>2, <2>4 DEF s
<1>3. /\ leaves' = [leaves EXCEPT ![t].inner = client.leaf]
      /\ client' = [client EXCEPT !.at = IF rest = <<>> THEN client.then ELSE "split", !.todo = rest]
      /\ to_be_recycled' = to_be_recycled \cup (IF rest = <<>> /\ client.then = "leaf" THEN {client.old} ELSE {})
      /\ UNCHANGED <<nvm, chain, created, cold, freed, acked, astray, broken, ops>>
  BY DEF SplitReturns
<1> HIDE DEF t, rest, n, C
<1>4. /\ leaves \in Seq(LeafType) /\ leaves[t] \in LeafType /\ client.leaf \in Nodes
      /\ DOMAIN leaves = 1 .. Len(leaves) /\ Len(leaves) \in Nat \ {0}
  <2>1. leaves \in Seq(LeafType)
    BY DEF State, TypeOK
  <2> QED BY <2>1, <1>1, <1>2, LeafTypes DEF State, TypeOK
<1> DEFINE l == [leaves[t] EXCEPT !.inner = client.leaf]
<1>5. l \in LeafType /\ l.inner = client.leaf /\ l.from = leaves[t].from
  BY <1>4 DEF LeafType
<1>6. leaves' = [leaves EXCEPT ![t] = l]
  BY <1>3
<1> HIDE DEF l
<1>7. /\ leaves' \in Seq(LeafType) /\ Len(leaves') = Len(leaves) /\ leaves' # <<>>
      /\ DOMAIN leaves' = DOMAIN leaves
      /\ \A x \in DOMAIN leaves : leaves'[x] = IF x = t THEN l ELSE leaves[x]
  BY <1>2, <1>4, <1>5, <1>6
<1>8. client \in ClientType
  BY DEF State, TypeOK
<1>9. /\ client' \in ClientType /\ client'.at = (IF rest = <<>> THEN client.then ELSE "split")
      /\ client'.key = client.key /\ client'.op = client.op /\ client'.old = client.old /\ client'.todo = rest
      /\ client.then \in {"leaf", "write"}
  <2>1. client.then \in {"leaf", "write"}
    BY <1>8 DEF ClientType
  <2>2. (IF rest = <<>> THEN client.then ELSE "split") \in {"leaf", "write", "split"}
    BY <2>1
  <2> QED BY <1>2, <1>3, <1>8, <2>1, <2>2 DEF ClientType
<1>10. to_be_recycled \subseteq to_be_recycled' /\ to_be_recycled' \subseteq created'
  BY <1>1, <1>3 DEF State, TypeOK
<1>11. TypeOK'
  BY <1>3, <1>7, <1>9, <1>10 DEF State, TypeOK, nvm
<1>12. Numbered' /\ ChainOnce'
  BY <1>3, <1>10 DEF State, Numbered, ChainOnce
<1>13. Sorted' /\ Inners'
  <2>1. \A x \in DOMAIN leaves : leaves'[x].from = leaves[x].from /\ leaves'[x].inner \in created
    BY <1>1, <1>5, <1>7 DEF State, Inners
  <2>2. 1 \in DOMAIN leaves
    BY <1>4
  <2> QED BY <1>3, <1>7, <2>1, <2>2 DEF State, Sorted, Inners
<1>14. Begun' /\ Waiting'
  BY <1>1, <1>9 DEF Begun, Waiting
<1>15. ToSplit'
  <2> SUFFICES ASSUME rest # <<>> PROVE ToSplit'
    BY <1>9 DEF ToSplit, Splitting
  <2>1. Cardinality(created') + Len(rest) <= C + 0
    <3> DEFINE m == Len(rest)
               k == Len(client.todo)
    <3>1. n \in Nat /\ C \in Nat
      <4>1. IsFiniteSet(Nodes) /\ created \in SUBSET Nodes
        BY NodesAssumption DEF State, TypeOK
      <4>2. IsFiniteSet(created)
        BY <4>1, FS_Subset
      <4> QED BY <4>2, NodesNat, FS_CardinalityType DEF n, C
    <3>2. k \in Nat /\ m = k - 1 /\ n + k <= C + 1 /\ created' = created
      BY <1>1, <1>2, <1>3
    <3> HIDE DEF m, k
    <3>3. n + m <= C + 0
      BY <3>1, <3>2
    <3> QED BY <3>2, <3>3 DEF n, m
  <2>2. \A j \in DOMAIN client'.todo : client'.todo[j] \in DOMAIN leaves'
    BY <1>2, <1>7, <1>9
  <2> QED BY <2>1, <2>2, <1>1, <1>3, <1>9 DEF ToSplit, C
<1> QED BY <1>11, <1>12, <1>13, <1>14, <1>15 DEF State

(* The leaves after leaf i is merged with its neighbour: the others, with  *)
(* their inner nodes, and with the same least keys but that of a right     *)
(* neighbour, which becomes that of leaf i.                                *)
LEMMA MergedLeaves ==
  ASSUME State, NEW adjacent \in DOMAIN leaves, Merge(adjacent)
  PROVE  LET i == client.leaf
         IN  /\ i \in 1 .. Len(leaves) /\ Len(leaves) > 1 /\ leaves' \in Seq(LeafType)
             /\ Len(leaves') = Len(leaves) - 1
             /\ \A x \in 1 .. i - 1 : leaves'[x].inner = leaves[x].inner /\ leaves'[x].from = leaves[x].from
             /\ \A x \in i .. Len(leaves) - 1 :
                  /\ leaves'[x].inner = leaves[x + 1].inner
                  /\ leaves'[x].from = leaves[x + 1].from \/ (x = i /\ leaves'[x].from = leaves[i].from)
             /\ i = 1 => leaves'[1].from = leaves[1].from
<1> DEFINE i == client.leaf
           m == Len(leaves)
           from == IF adjacent > i THEN leaves[i].from ELSE leaves[adjacent].from
           l == [leaves[adjacent] EXCEPT !.from = from]
           s == [leaves EXCEPT ![adjacent] = l]
<1>1. /\ client.at = "merge" /\ adjacent \in {i - 1, i + 1} /\ i \in DOMAIN leaves
      /\ leaves' = RemoveAt(s, i)
  <2>1. [leaves EXCEPT ![adjacent].from = from] = s
    OBVIOUS
  <2> QED BY <2>1 DEF Merge, State, Begun
<1>2. /\ leaves \in Seq(LeafType) /\ m \in Nat \ {0} /\ DOMAIN leaves = 1 .. m
      /\ leaves[adjacent] \in LeafType /\ leaves[i].from \in Nat /\ leaves[adjacent].from \in Nat
  <2>1. leaves \in Seq(LeafType)
    BY DEF State, TypeOK
  <2> QED BY <2>1, <1>1, LeafTypes DEF State
<1> HIDE DEF i
<1>3. l \in LeafType /\ l.inner = leaves[adjacent].inner /\ l.from = from
  BY <1>2 DEF LeafType
<1> HIDE DEF l, from
<1>4. /\ s \in Seq(LeafType) /\ Len(s) = m
      /\ \A x \in 1 .. m : s[x] = IF x = adjacent THEN l ELSE leaves[x]
  BY <1>2, <1>3
<1> HIDE DEF s
<1>5. /\ leaves' \in Seq(LeafType) /\ Len(leaves') = m - 1
      /\ \A x \in 1 .. i - 1 : leaves'[x] = s[x]
      /\ \A x \in i .. m - 1 : leaves'[x] = s[x + 1]
  <2>1. i \in 1 .. Len(s)
    BY <1>1, <1>2, <1>4
  <2> QED BY <1>1, <1>4, <2>1, RemoveIs
<1> HIDE DEF m
<1>6. i \in 1 .. m /\ adjacent \in 1 .. m /\ m > 1
  BY <1>1, <1>2
<1>7. \A x \in 1 .. i - 1 : leaves'[x].inner = leaves[x].inner /\ leaves'[x].from = leaves[x].from
  <2> TAKE x \in 1 .. i - 1
  <2>1. x \in 1 .. m /\ (x = adjacent => ~(adjacent > i))
    BY <1>2, <1>6
  <2> QED BY <2>1, <1>3, <1>4, <1>5 DEF from
<1>8. \A x \in i .. m - 1 : /\ leaves'[x].inner = leaves[x + 1].inner
                            /\ leaves'[x].from = leaves[x + 1].from \/ (x = i /\ leaves'[x].from = leaves[i].from)
  <2> TAKE x \in i .. m - 1
  <2>1. x + 1 \in 1 .. m /\ (x + 1 = adjacent => adjacent > i /\ x = i)
    BY <1>1, <1>2, <1>6
  <2>2. leaves'[x] = s[x + 1]
    BY <1>5
  <2>3. CASE x + 1 = adjacent
    <3>1. leaves'[x] = l /\ x = i /\ from = leaves[i].from
      BY <2>1, <2>2, <2>3, <1>4 DEF from
    <3> QED BY <3>1, <2>3, <1>3
  <2>4. CASE x + 1 # adjacent
    <3>1. leaves'[x] = leaves[x + 1]
      BY <2>1, <2>2, <2>4, <1>4
    <3> QED BY <3>1
  <2> QED BY <2>3, <2>4
<1>9. i = 1 => leaves'[1].from = leaves[1].from
  <2> SUFFICES ASSUME i = 1 PROVE leaves'[1].from = leaves[1].from
    OBVIOUS
  <2>1. adjacent = 2 /\ 1 \in i .. m - 1 /\ adjacent > i
    BY <1>1, <1>2, <1>6
  <2>2. leaves'[1] = s[2] /\ s[2] = l
    <3>1. 1 + 1 = 2
      OBVIOUS
    <3> QED BY <2>1, <3>1, <1>4, <1>5, <1>6
  <2> QED BY <2>1, <2>2, <1>3 DEF from
<1> QED BY <1>5, <1>6, <1>7, <1>8, <1>9 DEF i, m

(* A merge removes the empty leaf: the call goes on with its neighbour.    *)
LEMMA MergeKeepsState ==
  ASSUME State, NEW adjacent \in DOMAIN leaves, Merge(adjacent)
  PROVE  State'
<1> DEFINE i == client.leaf
           m == Len(leaves)
<1>1. /\ i \in 1 .. m /\ m > 1 /\ leaves' \in Seq(LeafType) /\ Len(leaves') = m - 1
      /\ \A x \in 1 .. i - 1 : leaves'[x].inner = leaves[x].inner /\ leaves'[x].from = leaves[x].from
      /\ \A x \in i .. m - 1 :
           /\ leaves'[x].inner = leaves[x + 1].inner
           /\ leaves'[x].from = leaves[x + 1].from \/ (x = i /\ leaves'[x].from = leaves[i].from)
      /\ i = 1 => leaves'[1].from = leaves[1].from
  BY MergedLeaves
<1>2. m \in Nat /\ DOMAIN leaves = 1 .. m /\ \A x \in 1 .. m : leaves[x].from \in Nat
  BY LeafTypes DEF State
<1>3. /\ client' = [client EXCEPT !.leaf = IF adjacent > i THEN i ELSE i - 1]
      /\ client.at = "merge" /\ adjacent \in {i - 1, i + 1}
      /\ to_be_recycled' = to_be_recycled \cup {leaves[i].inner}
      /\ astray' \subseteq Keys
      /\ UNCHANGED <<nvm, chain, created, cold, freed, acked, broken, ops>>
  <2>1. astray' \subseteq Keys
    BY DEF Merge, Present, State, TypeOK
  <2> QED BY <2>1 DEF Merge
<1>4. client \in ClientType /\ client.key \in Keys /\ client.op \in {"insert", "erase"}
  BY <1>3 DEF State, TypeOK, Begun
<1> HIDE DEF m, i
<1>5. DOMAIN leaves' = 1 .. m - 1 /\ leaves' # <<>>
  BY <1>1, <1>2
<1>6. client' \in ClientType /\ client'.at = "merge" /\ client'.leaf \in DOMAIN leaves'
      /\ client'.key = client.key /\ client'.op = client.op
  <2> DEFINE j == IF adjacent > i THEN i ELSE i - 1
  <2>1. j \in 1 .. m - 1 /\ j \in Nat
    BY <1>1, <1>2, <1>3
  <2>2. client' = [client EXCEPT !.leaf = j]
    BY <1>3
  <2> HIDE DEF j
  <2> QED BY <2>1, <2>2, <1>3, <1>4, <1>5 DEF ClientType
<1>7. TypeOK'
  <2>1. to_be_recycled' \subseteq created'
    BY <1>1, <1>2, <1>3 DEF State, TypeOK, Inners
  <2> QED BY <2>1, <1>1, <1>3, <1>5, <1>6 DEF State, TypeOK, nvm
<1>8. Begun' /\ Waiting' /\ ToSplit'
  BY <1>4, <1>6 DEF Begun, Waiting, ToSplit, Splitting
<1>9. Numbered' /\ ChainOnce'
  BY <1>3 DEF State, Numbered, ChainOnce
<1>10. Inners'
  <2> SUFFICES ASSUME NEW x \in 1 .. m - 1 PROVE leaves'[x].inner \in created
    BY <1>3, <1>5 DEF Inners
  <2>1. x \in 1 .. m /\ x + 1 \in 1 .. m /\ (x \in 1 .. i - 1 \/ x \in i .. m - 1)
    BY <1>1, <1>2
  <2> QED BY <2>1, <1>1, <1>2 DEF State, Inners
<1>11. Sorted'
  <2>1. \A x, y \in 1 .. m : x < y => leaves[x].from < leaves[y].from
    BY <1>2 DEF State, Sorted
  <2>2. leaves'[1].from = 0
    <3>1. leaves[1].from = 0
      BY DEF State, Sorted
    <3>2. i # 1 => 1 \in 1 .. i - 1
      BY <1>1
    <3> QED BY <3>1, <3>2, <1>1
  <2>3. \A x, y \in 1 .. m - 1 : x < y => leaves'[x].from < leaves'[y].from
    <3> SUFFICES ASSUME NEW x \in 1 .. m - 1, NEW y \in 1 .. m - 1, x < y
                 PROVE  leaves'[x].from < leaves'[y].from
      OBVIOUS
    <3> DEFINE F(z) == leaves[z].from
    <3>1. x \in 1 .. m /\ y \in 1 .. m /\ x + 1 \in 1 .. m /\ y + 1 \in 1 .. m /\ m \in Nat
      BY <1>2
    <3>2. CASE y < i
      <4>1. x \in 1 .. i - 1 /\ y \in 1 .. i - 1
        BY <3>2, <1>1
      <4> QED BY <4>1, <3>1, <2>1, <1>1
    <3>3. CASE x < i /\ y >= i
      <4>1. x \in 1 .. i - 1 /\ y \in i .. m - 1 /\ x < y + 1
        BY <3>3, <1>1
      <4>2. leaves[x].from < leaves[y + 1].from /\ leaves[x].from < leaves[i].from
        BY <4>1, <3>1, <3>3, <2>1, <1>1
      <4> QED BY <4>1, <4>2, <1>1
    <3>4. CASE x >= i
      <4>1. x \in i .. m - 1 /\ y \in i .. m - 1 /\ x + 1 < y + 1 /\ i < y + 1 /\ y # i
        BY <3>4, <1>1
      <4>2. leaves[x + 1].from < leaves[y + 1].from /\ leaves[i].from < leaves[y + 1].from
        BY <4>1, <3>1, <2>1, <1>1
      <4> QED BY <4>1, <4>2, <1>1
    <3> QED BY <3>2, <3>3, <3>4, <1>1
  <2> QED BY <2>2, <2>3, <1>5 DEF Sorted
<1> QED BY <1>7, <1>8, <1>9, <1>10, <1>11 DEF State

(* AdjustNodeType changes the data of leaves and the kind of their nodes.  *)
LEMMA Adjusted ==
  ASSUME State, AdjustNodeType
  PROVE  /\ leaves' \in Seq(LeafType) /\ SameLeaves /\ cold' \subseteq created
         /\ leaves' # <<>> /\ DOMAIN leaves' = DOMAIN leaves /\ broken' \in BOOLEAN
<1> DEFINE inner == IF Len(leaves) < 3 THEN {} ELSE 2 .. Len(leaves) - 1
           node(x) == leaves[x].inner
<1>1. PICK hot \in SUBSET inner :
        /\ leaves' = [x \in DOMAIN leaves |->
             [leaves[x] EXCEPT !.data =
                IF x \in hot /\ node(x) \in cold THEN tree[node(x)]
                ELSE IF x \in inner \ hot /\ node(x) \notin cold THEN NoValues ELSE @]]
        /\ cold' = (cold \ {node(x) : x \in hot}) \cup {node(x) : x \in inner \ hot}
        /\ broken' \in BOOLEAN
  BY DEF AdjustNodeType
<1>2. /\ leaves \in Seq(LeafType) /\ Len(leaves) \in Nat \ {0} /\ DOMAIN leaves = 1 .. Len(leaves)
      /\ \A x \in DOMAIN leaves : leaves[x] \in LeafType /\ leaves[x].inner \in created /\ leaves[x].inner \in Nodes
  BY LeafTypes DEF State, Inners
<1>3. inner \subseteq DOMAIN leaves
  BY <1>2
<1>4. cold' \subseteq created
  <2>1. cold \subseteq created
    BY DEF State, TypeOK
  <2> HIDE DEF inner
  <2> QED BY <1>1, <1>2, <1>3, <2>1
<1>5. \A x \in DOMAIN leaves : /\ leaves'[x] \in LeafType /\ leaves'[x].inner = leaves[x].inner
                               /\ leaves'[x].from = leaves[x].from
  <2> TAKE x \in DOMAIN leaves
  <2> DEFINE d == IF x \in hot /\ node(x) \in cold THEN tree[node(x)]
                  ELSE IF x \in inner \ hot /\ node(x) \notin cold THEN NoValues ELSE leaves[x].data
  <2>1. leaves'[x] = [leaves[x] EXCEPT !.data = d]
    BY <1>1
  <2>2. d \in Contents
    <3>1. tree[node(x)] \in Contents
      BY <1>2 DEF State, TypeOK
    <3>2. NoValues \in Contents
      <4>1. <<>> \in Seq(Nat)
        OBVIOUS
      <4> QED BY <4>1 DEF NoValues, Contents
    <3>3. leaves[x].data \in Contents
      BY <1>2 DEF LeafType
    <3> QED BY <3>1, <3>2, <3>3
  <2> HIDE DEF d
  <2> QED BY <1>2, <2>1, <2>2 DEF LeafType
<1>6. DOMAIN leaves' = DOMAIN leaves /\ leaves' = [x \in 1 .. Len(leaves) |-> leaves'[x]]
  BY <1>1, <1>2
<1>7. leaves' \in Seq(LeafType) /\ Len(leaves') = Len(leaves) /\ leaves' # <<>>
  BY <1>2, <1>5, <1>6
<1> QED BY <1>1, <1>4, <1>5, <1>6, <1>7 DEF SameLeaves

(* SwitchInnerNode takes the nodes to be recycled out of the chain.        *)
LEMMA SwitchKeepsState ==
  ASSUME State, SwitchInnerNode
  PROVE  State'
<1> DEFINE lost == to_be_recycled \ freed
           at == Kept(chain, lost)
<1>1. UNCHANGED <<nvm, client, acked, astray>> /\ client.at = "idle" /\ ops' \in 0 .. MaxOps
  <2>1. ops' \in 0 .. MaxOps
    BY BoundAssumption DEF SwitchInnerNode, State, TypeOK
  <2> QED BY <2>1 DEF SwitchInnerNode
<1>2. Begun' /\ ToSplit' /\ Waiting'
  BY <1>1 DEF Begun, ToSplit, Waiting, Splitting
<1>3. CASE Last(chain) \in lost
  <2>1. broken' = TRUE /\ UNCHANGED shape
    BY <1>3 DEF SwitchInnerNode
  <2>2. TypeOK'
    BY <1>1, <2>1 DEF State, TypeOK, nvm, shape
  <2> QED BY <1>2, <2>1, <2>2, SameShape DEF State
<1>4. CASE Last(chain) \notin lost
  <2>1. /\ chain' = Omit(chain, lost) /\ freed' = freed \cup lost /\ AdjustNodeType
        /\ UNCHANGED <<created, to_be_recycled>>
    BY <1>4 DEF SwitchInnerNode
  <2>2. /\ leaves' \in Seq(LeafType) /\ SameLeaves /\ cold' \subseteq created
        /\ leaves' # <<>> /\ DOMAIN leaves' = DOMAIN leaves /\ broken' \in BOOLEAN
    BY <2>1, Adjusted
  <2>3. chain \in Seq(Nodes) /\ to_be_recycled \cup freed \subseteq created
    BY DEF State, TypeOK
  <2> HIDE DEF lost
  <2>4. /\ chain' \in Seq(Nodes) /\ DOMAIN at = 1 .. Len(chain')
        /\ \A p \in 1 .. Len(chain') : at[p] \in DOMAIN chain /\ chain[at[p]] \notin lost /\ chain'[p] = chain[at[p]]
        /\ \A p, q \in 1 .. Len(chain') : p < q => at[p] < at[q]
        /\ \A j \in DOMAIN chain : chain[j] \notin lost => \E p \in 1 .. Len(chain') : at[p] = j
    BY <2>1, <2>3, OmitIs
  <2> HIDE DEF at
  <2>5. TypeOK'
    BY <1>1, <2>1, <2>2, <2>3, <2>4 DEF State, TypeOK, nvm, lost
  <2>6. Numbered' /\ Sorted' /\ Inners'
    <3>1. 1 \in DOMAIN leaves
      BY LeafTypes DEF State
    <3> QED BY <2>1, <2>2, <3>1 DEF State, Numbered, Sorted, Inners, SameLeaves
  <2>7. ChainOnce'
    <3>1. DOMAIN chain' = 1 .. Len(chain') /\ Len(chain') \in Nat /\ \A j \in DOMAIN chain : j \in Int
      BY <2>3, <2>4
    <3>2. freed' \subseteq to_be_recycled'
      BY <2>1 DEF State, ChainOnce, lost
    <3>3. \A p, q \in DOMAIN chain' : chain'[p] = chain'[q] => p = q
      <4> SUFFICES ASSUME NEW p \in DOMAIN chain', NEW q \in DOMAIN chain', chain'[p] = chain'[q], p < q
                   PROVE  FALSE
        BY <3>1
      <4>1. at[p] = at[q]
        BY <2>4, <3>1 DEF State, ChainOnce
      <4>2. at[p] < at[q] /\ at[p] \in Int
        BY <2>4, <3>1
      <4> QED BY <4>1, <4>2
    <3>4. \A p \in DOMAIN chain' : chain'[p] \in created' \ freed'
      BY <2>1, <2>4, <3>1 DEF State, ChainOnce
    <3>5. \A n \in created' \ freed' : \E p \in DOMAIN chain' : chain'[p] = n
      <4> TAKE n \in created' \ freed'
      <4>1. PICK j \in DOMAIN chain : chain[j] = n
        BY <2>1 DEF State, ChainOnce
      <4>2. PICK p \in 1 .. Len(chain') : at[p] = j
        BY <2>1, <2>4, <4>1
      <4> QED BY <2>4, <3>1, <4>1, <4>2
    <3> QED BY <3>2, <3>3, <3>4, <3>5 DEF ChainOnce
  <2> QED BY <1>2, <2>5, <2>6, <2>7 DEF State
<1> QED BY <1>3, <1>4

(* One leaf, one inner node, no call.                                      *)
LEMMA InitState == Init => State
<1> SUFFICES ASSUME Init PROVE State
  OBVIOUS
<1>1. /\ leaves = <<Leaf(0, 0, NoValues)>> /\ chain = <<0>> /\ created = {0}
      /\ cold = {} /\ to_be_recycled = {} /\ freed = {}
  BY DEF Init
<1>2. NoValues \in Contents /\ <<>> \in Seq(Entries) /\ Resting \in WorkerType /\ 0 \in Nodes /\ 0 \in Keys \cup {0}
  <2>1. <<>> \in Seq(Nat) /\ <<>> \in Seq(Keys \X Nat)
    OBVIOUS
  <2> QED BY <2>1, NodesAssumption DEF NoValues, Contents, Resting, WorkerType
<1>3. Leaf(0, 0, NoValues) \in LeafType
  BY <1>2 DEF Leaf, LeafType
<1>4. leaves \in Seq(LeafType) /\ leaves # <<>> /\ DOMAIN leaves = {1} /\ leaves[1] = Leaf(0, 0, NoValues)
  BY <1>1, <1>3
<1>5. chain \in Seq(Nodes) /\ DOMAIN chain = {1} /\ chain[1] = 0
  BY <1>1, <1>2
<1>6. Cardinality(created) = 1 /\ 0 .. 1 - 1 = {0}
  <2>1. Cardinality({0}) = 1
    BY FS_Singleton
  <2>2. 0 .. 1 - 1 = {0}
    OBVIOUS
  <2> QED BY <1>1, <2>1, <2>2
<1>7. TypeOK
  <2>1. Len(<<>>) = 0 /\ 0 <= LogSlots /\ 0 \in 0 .. MaxOps
    BY SlotsAssumption, BoundAssumption
  <2>2. client = Idle /\ Idle \in ClientType
    BY CallBegins DEF Init
  <2> QED BY <1>1, <1>2, <1>4, <1>5, <2>1, <2>2 DEF Init, TypeOK
<1>8. Numbered
  BY <1>1, <1>6 DEF Numbered
<1>9. Sorted /\ Inners
  BY <1>1, <1>4 DEF Sorted, Inners, Leaf
<1>10. Begun /\ ToSplit /\ Waiting
  BY DEF Init, Idle, Begun, ToSplit, Waiting, Splitting
<1>11. ChainOnce
  BY <1>1, <1>5 DEF ChainOnce
<1> QED BY <1>7, <1>8, <1>9, <1>10, <1>11 DEF State

(* Every step keeps State, given that a worker in a split entry has one.   *)
LEMMA StateStep ==
  ASSUME State, InSplit, [Next]_vars
  PROVE  State'
<1>1. CASE UNCHANGED vars
  <2>1. TypeOK'
    BY <1>1 DEF vars, nvm, shape, State, TypeOK
  <2>2. Begun' /\ ToSplit' /\ Waiting'
    BY <1>1 DEF vars, nvm, shape, State, Begun, ToSplit, Waiting, Splitting
  <2>3. UNCHANGED shape
    BY <1>1 DEF vars
  <2> QED BY <2>1, <2>2, <2>3, SameShape DEF State
<1>2. ASSUME NEW k \in Keys, NEW op \in {"insert", "erase"}, Call(op, k)
      PROVE  State'
  BY <1>2, CallKeepsState
<1>3. CASE ClientStep
  <2>1. CASE WriteCold \/ WriteLog \/ StopMerging
    BY <2>1, ReturnsKeepsState
  <2>2. CASE InsertLeaf \/ EraseLeaf
    BY <2>2, LeafKeepsState
  <2>3. CASE SplitNode
    BY <2>3, SplitNodeKeepsState
  <2>4. CASE SplitReturns
    BY <2>4, SplitReturnsKeepsState
  <2>5. ASSUME NEW b \in Keys, NEW kind, SplitLeaf(kind, b)
        PROVE  State'
    BY <2>5, SplitLeafKeepsState
  <2>6. ASSUME NEW B \in SUBSET Keys, ExpandRoot(B)
        PROVE  State'
    BY <2>6, ExpandRootKeepsState
  <2>7. ASSUME NEW adjacent \in DOMAIN leaves, Merge(adjacent)
        PROVE  State'
    BY <2>7, MergeKeepsState
  <2> QED BY <1>3, <2>1, <2>2, <2>3, <2>4, <2>5, <2>6, <2>7 DEF ClientStep
<1>4. ASSUME NEW n \in Nodes, WorkerStep(n)
      PROVE  State'
  BY <1>4, WorkerKeepsState
<1>5. CASE SwitchInnerNode
  BY <1>5, SwitchKeepsState
<1> QED BY <1>1, <1>2, <1>3, <1>4, <1>5 DEF Next

-----------------------------------------------------------------------------
(* Every step keeps Producers.                                             *)

(* Steps that leave the logs, workers and latches alone.  A call that      *)
(* waits may go on when its latch is set.                                  *)
LEMMA SameLogs ==
  ASSUME State, Producers, UNCHANGED <<log, worker, split_>>,
         client.at # "wait" \/ split_[client.old] \/ UNCHANGED client
  PROVE  Producers'
<1>1. InSplit'
  BY DEF Producers, InSplit
<1>2. SplitEntries'
  BY DEF Producers, SplitEntries
<1> QED BY <1>1, <1>2 DEF Producers

(* The client adds an entry to a log that has no split entry waiting.      *)
LEMMA WriteLogKeepsProducers ==
  ASSUME State, Producers, WriteLog
  PROVE  Producers'
<1> DEFINE n == InnerOf(client.key)
           e == Entry(client.op, client.key, Value(client.key), 0)
<1>1. /\ client.at = "write" /\ client.op \in {"insert", "erase"} /\ UNCHANGED <<worker, split_>>
      /\ log' = [log EXCEPT ![n] = Append(@, e)]
  BY DEF WriteLog, Write, State, Begun
<1>2. e.type # "split" /\ log \in [Nodes -> Seq(Entries)]
  BY <1>1 DEF Entry, State, TypeOK
<1>3. e \in Entries
  <2>1. client.key \in Keys /\ acked[client.key] \in Seq(Nat)
    BY <1>1 DEF State, TypeOK, Begun, Contents
  <2>2. Value(client.key) \in Nat
    BY <2>1 DEF Value
  <2> QED BY <1>1, <2>1, <2>2 DEF Entry, Entries
<1> HIDE DEF n, e
<1>4. \A m \in Nodes :
        /\ \A i \in DOMAIN log'[m] : log'[m][i].type = "split" => i \in DOMAIN log[m] /\ log'[m][i] = log[m][i]
        /\ log[m] # <<>> => log'[m] # <<>> /\ log'[m][1] = log[m][1]
  <2> TAKE m \in Nodes
  <2>1. log[m] \in Seq(Entries) /\ log'[m] = IF m = n THEN Append(log[m], e) ELSE log[m]
    BY <1>1, <1>2
  <2>2. log[m] # <<>> => 1 \in DOMAIN log[m]
    BY <2>1
  <2>3. CASE m = n
    BY <2>1, <2>2, <2>3, <1>2, AppendIs
  <2> QED BY <2>1, <2>3
<1>5. InSplit'
  BY <1>1, <1>4 DEF Producers, InSplit
<1>6. SplitEntries'
  BY <1>1, <1>4 DEF Producers, SplitEntries
<1> QED BY <1>5, <1>6 DEF Producers

(* The split entry is the last of its log.                                 *)
LEMMA SplitNodeKeepsProducers ==
  ASSUME State, Producers, SplitNode
  PROVE  Producers'
<1> DEFINE new == Cardinality(created)
           keys == Present(leaves[Head(client.todo)].data)
           e == IF keys = {} THEN Entry("split", 1, 0, new) ELSE Entry("split", Least(keys), Greatest(keys), new)
           old == client.old
<1>1. /\ client.at = "split" /\ old \in Nodes /\ UNCHANGED worker
      /\ log' = [log EXCEPT ![old] = Append(@, e)] /\ split_' = [split_ EXCEPT ![old] = FALSE]
  BY Typed DEF SplitNode, Write, State
<1>2. client'.at = "wait" /\ client'.leaf = new /\ client'.old = old
  BY Typed DEF SplitNode, State, ClientType
<1>3. e.type = "split" /\ e.to = new
  BY DEF Entry
<1>4. log \in [Nodes -> Seq(Entries)] /\ split_ \in [Nodes -> BOOLEAN]
  BY DEF State, TypeOK
<1> HIDE DEF e, old, new
<1>5. /\ Len(log'[old]) = Len(log[old]) + 1 /\ ~split_'[old]
      /\ \A i \in DOMAIN log'[old] : \/ i \in DOMAIN log[old] /\ log'[old][i] = log[old][i]
                                     \/ i = Len(log'[old]) /\ log'[old][i] = e
      /\ log[old] # <<>> => log'[old] # <<>> /\ log'[old][1] = log[old][1]
  <2>1. log[old] \in Seq(Entries) /\ log'[old] = Append(log[old], e)
    BY <1>1, <1>4
  <2>2. log[old] # <<>> => 1 \in DOMAIN log[old]
    BY <2>1
  <2> QED BY <2>1, <2>2, <1>1, <1>4, AppendIs
<1>6. \A m \in Nodes : m # old => log'[m] = log[m] /\ split_'[m] = split_[m]
  BY <1>1, <1>4
<1>7. InSplit'
  BY <1>1, <1>5, <1>6 DEF Producers, InSplit
<1>8. SplitEntries'
  <2> SUFFICES ASSUME NEW m \in Nodes, NEW i \in DOMAIN log'[m], log'[m][i].type = "split"
               PROVE  \/ i = 1 /\ worker'[m].at = "prune"
                      \/ /\ client'.at = "wait" /\ client'.old = m /\ client'.leaf = log'[m][i].to
                         /\ i = Len(log'[m]) /\ ~split_'[m]
    BY DEF SplitEntries
  <2>1. CASE i \in DOMAIN log[m] /\ log'[m][i] = log[m][i]
    BY <2>1, <1>1 DEF Producers, SplitEntries
  <2>2. CASE m = old /\ i = Len(log'[m]) /\ log'[m][i] = e
    BY <2>2, <1>2, <1>3, <1>5
  <2> QED BY <2>1, <2>2, <1>5, <1>6
<1> QED BY <1>7, <1>8 DEF Producers

(* A worker takes its own entries from the front; in a split it adds them  *)
(* to the log of the node that waits for its leaf, which has no split      *)
(* entry: only the log it was split from has one.                          *)
LEMMA WorkerKeepsProducers ==
  ASSUME State, Producers, NEW n \in Nodes, WorkerStep(n)
  PROVE  Producers'
<1>1. UNCHANGED client
  BY DEF WorkerStep, Apply, BeginSplit, MoveEntry, SetLatch, PruneEntry, EndSplit
<1>2. /\ log \in [Nodes -> Seq(Entries)] /\ worker \in [Nodes -> WorkerType] /\ split_ \in [Nodes -> BOOLEAN]
      /\ log[n] \in Seq(Entries) /\ worker[n] \in WorkerType /\ worker[n].i \in Nat
  <2>1. /\ log \in [Nodes -> Seq(Entries)] /\ worker \in [Nodes -> WorkerType] /\ split_ \in [Nodes -> BOOLEAN]
    BY DEF State, TypeOK
  <2> QED BY <2>1 DEF WorkerType
<1>3. log[n] # <<>> => /\ Head(log[n]) = log[n][1] /\ 1 \in DOMAIN log[n] /\ Head(log[n]) \in Entries
                       /\ Len(Tail(log[n])) = Len(log[n]) - 1
                       /\ \A i \in DOMAIN Tail(log[n]) :
                            i + 1 \in DOMAIN log[n] /\ i + 1 > 1 /\ Tail(log[n])[i] = log[n][i + 1]
  BY <1>2, TailIs
<1>4. CASE UNCHANGED log /\ UNCHANGED split_ /\ \A m \in Nodes : worker'[m].at = worker[m].at
                                                     /\ (worker'[m].at = "move" => worker'[m].i > 0)
  <2>1. InSplit'
    BY <1>4 DEF Producers, InSplit
  <2>2. SplitEntries'
    BY <1>1, <1>4 DEF Producers, SplitEntries
  <2> QED BY <2>1, <2>2 DEF Producers
(* An entry that is taken from the front.                                  *)
<1>5. CASE /\ log[n] # <<>> /\ log' = [log EXCEPT ![n] = Tail(@)] /\ UNCHANGED split_
           /\ \A m \in Nodes : m # n => worker'[m] = worker[m]
           /\ worker'[n].at = "idle"
  <2>1. /\ \A m \in Nodes : m # n => log'[m] = log[m] /\ worker'[m] = worker[m]
        /\ log'[n] = Tail(log[n])
    BY <1>2, <1>5
  <2>2. InSplit'
    BY <1>5, <2>1 DEF Producers, InSplit
  <2>3. SplitEntries'
    <3> SUFFICES ASSUME NEW m \in Nodes, NEW i \in DOMAIN log'[m], log'[m][i].type = "split"
                 PROVE  \/ i = 1 /\ worker'[m].at = "prune"
                        \/ /\ client'.at = "wait" /\ client'.old = m /\ client'.leaf = log'[m][i].to
                           /\ i = Len(log'[m]) /\ ~split_'[m]
      BY DEF SplitEntries
    <3>1. CASE m # n
      BY <3>1, <2>1, <1>1, <1>5 DEF Producers, SplitEntries
    <3>2. CASE m = n
      <4>1. i + 1 \in DOMAIN log[n] /\ i + 1 # 1 /\ log'[n][i] = log[n][i + 1] /\ i \in Nat
            /\ Len(log'[n]) = Len(log[n]) - 1 /\ Len(log[n]) \in Nat
        <5>1. Tail(log[n]) \in Seq(Entries) /\ Len(log[n]) \in Nat
          BY <1>2, <1>5
        <5>2. i \in Nat
          BY <5>1, <3>2, <2>1
        <5> QED BY <5>1, <5>2, <3>2, <2>1, <1>3, <1>5
      <4>2. /\ client.at = "wait" /\ client.old = n /\ client.leaf = log[n][i + 1].to
            /\ i + 1 = Len(log[n]) /\ ~split_[n]
        BY <4>1, <3>2 DEF Producers, SplitEntries
      <4>3. i = Len(log'[n])
        BY <4>1, <4>2
      <4> QED BY <3>2, <4>1, <4>2, <4>3, <1>1, <1>5
    <3> QED BY <3>1, <3>2
  <2> QED BY <2>2, <2>3 DEF Producers
<1>6. CASE Apply(n)
  <2>1. worker[n].at = "idle"
    BY <1>3, <1>6 DEF Apply, Producers, InSplit
  <2> QED BY <2>1, <1>5, <1>6 DEF Apply
<1>7. CASE EndSplit(n)
  <2>1. log[n] # <<>>
    BY <1>7 DEF EndSplit, Producers, InSplit
  <2>2. worker' = [worker EXCEPT ![n] = Resting] /\ Resting.at = "idle"
    BY <1>7 DEF EndSplit, Resting
  <2> QED BY <2>1, <2>2, <1>2, <1>5, <1>7 DEF EndSplit
<1>8. CASE PruneEntry(n)
  <2>1. worker' = [worker EXCEPT ![n] = [worker[n] EXCEPT !.i = worker[n].i - 1]] /\ worker[n].at = "prune"
    BY <1>8 DEF PruneEntry
  <2>2. [worker[n] EXCEPT !.i = worker[n].i - 1].at = worker[n].at
    BY <1>2 DEF WorkerType
  <2>3. \A m \in Nodes : worker'[m].at = worker[m].at /\ (worker'[m].at = "move" => worker'[m].i > 0)
    BY <2>1, <2>2, <1>2 DEF Producers, InSplit
  <2> QED BY <2>3, <1>4, <1>8 DEF PruneEntry
<1>9. CASE BeginSplit(n)
  <2>0. PICK b \in Seq(Keys \X Nat) :
          worker' = [worker EXCEPT ![n] = [at |-> "move", batch |-> b, i |-> 1]]
    BY <1>9, BatchOf DEF State
  <2> DEFINE w == [at |-> "move", batch |-> b, i |-> 1]
  <2>1. /\ worker' = [worker EXCEPT ![n] = w] /\ w.at = "move" /\ w.i > 0 /\ UNCHANGED <<log, split_>>
        /\ log[n] # <<>> /\ Head(log[n]).type = "split" /\ worker[n].at = "idle"
    <3>1. UNCHANGED <<log, split_>> /\ log[n] # <<>> /\ Head(log[n]).type = "split" /\ worker[n].at = "idle"
      BY <1>9 DEF BeginSplit
    <3>2. w.at = "move" /\ w.i = 1
      OBVIOUS
    <3> QED BY <2>0, <3>1, <3>2
  <2> HIDE DEF w
  <2>2. InSplit'
    BY <2>1, <1>2, <1>3 DEF Producers, InSplit
  <2>3. SplitEntries'
    BY <2>1, <1>1, <1>2 DEF Producers, SplitEntries
  <2> QED BY <2>2, <2>3 DEF Producers
(* The split entry whose worker moves entries or is about to tell so.      *)
<1>10. ASSUME worker[n].at = "move"
       PROVE  /\ log[n] # <<>> /\ log[n][1].type = "split" /\ worker[n].i > 0 /\ Len(log[n]) = 1
              /\ client.at = "wait" /\ client.old = n /\ client.leaf = Head(log[n]).to
  BY ZenonT(40), <1>3, <1>10 DEF Producers, InSplit, SplitEntries
<1>11. CASE SetLatch(n)
  <2>1. /\ UNCHANGED log /\ split_' = [split_ EXCEPT ![n] = TRUE] /\ worker[n].at = "move"
        /\ worker' = [worker EXCEPT ![n] = [worker[n] EXCEPT !.at = "prune", !.i = worker[n].i - 1]]
    BY <1>11 DEF SetLatch
  <2>2. [worker[n] EXCEPT !.at = "prune", !.i = worker[n].i - 1].at = "prune"
    BY <1>2 DEF WorkerType
  <2>3. InSplit'
    BY <2>1, <2>2, <1>2, <1>10 DEF Producers, InSplit
  <2>4. SplitEntries'
    <3>1. \A i \in DOMAIN log[n] : i = 1
      BY <2>1, <1>2, <1>10
    <3>2. worker'[n].at = "prune" /\ \A m \in Nodes : m # n => worker'[m] = worker[m] /\ split_'[m] = split_[m]
      BY <2>1, <2>2, <1>2
    <3> QED BY <2>1, <3>1, <3>2, <1>1 DEF Producers, SplitEntries
  <2> QED BY <2>3, <2>4 DEF Producers
<1>12. CASE MoveEntry(n)
  <2> DEFINE w == worker[n]
             to == client.leaf
             e == Entry("insert", w.batch[w.i][1], w.batch[w.i][2], 0)
  <2>1. /\ log' = [log EXCEPT ![to] = Append(@, e)] /\ UNCHANGED split_ /\ w.at = "move"
        /\ worker' = [worker EXCEPT ![n] = [w EXCEPT !.i = w.i + 1]]
    BY <1>10, <1>12 DEF MoveEntry, Write
  <2>2. [w EXCEPT !.i = w.i + 1].at = "move" /\ [w EXCEPT !.i = w.i + 1].i > 0
    BY <1>2, <2>1 DEF WorkerType
  <2>3. to \in Nodes /\ to # client.old
    BY <2>1, <1>10 DEF State, Waiting, TypeOK
  <2>4. e.type # "split"
    BY DEF Entry
  <2> HIDE DEF e, to
  <2>5. \A m \in Nodes :
          /\ \A i \in DOMAIN log'[m] : log'[m][i].type = "split" => i \in DOMAIN log[m] /\ log'[m][i] = log[m][i]
          /\ log[m] # <<>> => log'[m] # <<>> /\ log'[m][1] = log[m][1]
          /\ m # to => log'[m] = log[m]
    <3> TAKE m \in Nodes
    <3>1. log[m] \in Seq(Entries) /\ log'[m] = IF m = to THEN Append(log[m], e) ELSE log[m]
      BY <2>1, <1>2
    <3>2. log[m] # <<>> => 1 \in DOMAIN log[m]
      BY <3>1
    <3> QED BY <3>1, <3>2, <2>4, AppendIs
  <2>6. \A m \in Nodes : worker'[m].at = worker[m].at /\ (worker'[m].at = "move" => worker'[m].i > 0)
    BY <2>1, <2>2, <1>2 DEF Producers, InSplit
  <2>7. InSplit'
    BY <2>5, <2>6 DEF Producers, InSplit
  <2>8. SplitEntries'
    <3> SUFFICES ASSUME NEW m \in Nodes, NEW i \in DOMAIN log'[m], log'[m][i].type = "split"
                 PROVE  \/ i = 1 /\ worker'[m].at = "prune"
                        \/ /\ client'.at = "wait" /\ client'.old = m /\ client'.leaf = log'[m][i].to
                           /\ i = Len(log'[m]) /\ ~split_'[m]
      BY DEF SplitEntries
    <3>1. i \in DOMAIN log[m] /\ log'[m][i] = log[m][i]
      BY <2>5
    <3>2. CASE i = 1 /\ worker[m].at = "prune"
      BY <3>2, <2>6
    <3>3. CASE /\ client.at = "wait" /\ client.old = m /\ client.leaf = log[m][i].to
               /\ i = Len(log[m]) /\ ~split_[m]
      BY <3>1, <3>3, <2>1, <2>3, <2>5, <1>1
    <3> QED BY <3>1, <3>2, <3>3 DEF Producers, SplitEntries
  <2> QED BY <2>7, <2>8 DEF Producers
<1> QED BY <1>6, <1>7, <1>8, <1>9, <1>11, <1>12 DEF WorkerStep

(* Every step keeps the split entries where the call and the workers       *)
(* expect them, given State.                                               *)
LEMMA ProducersStep ==
  ASSUME State, Producers, [Next]_vars
  PROVE  Producers'
<1>1. CASE UNCHANGED vars
  BY <1>1, SameLogs DEF vars, nvm
<1>2. ASSUME NEW k \in Keys, NEW op \in {"insert", "erase"}, Call(op, k)
      PROVE  Producers'
  BY <1>2, SameLogs DEF Call, nvm
<1>3. CASE ClientStep
  <2>1. CASE WriteCold
    BY <2>1, SameLogs DEF WriteCold
  <2>2. CASE InsertLeaf \/ EraseLeaf \/ StopMerging
    BY <2>2, SameLogs DEF InsertLeaf, EraseLeaf, StopMerging, nvm
  <2>3. CASE SplitReturns
    BY <2>3, SameLogs DEF SplitReturns, nvm
  <2>4. ASSUME NEW b \in Keys, NEW kind, SplitLeaf(kind, b)
        PROVE  Producers'
    BY <2>4, SameLogs DEF SplitLeaf, nvm
  <2>5. ASSUME NEW B \in SUBSET Keys, ExpandRoot(B)
        PROVE  Producers'
    BY <2>5, SameLogs DEF ExpandRoot, nvm
  <2>6. ASSUME NEW adjacent \in DOMAIN leaves, Merge(adjacent)
        PROVE  Producers'
    BY <2>6, SameLogs DEF Merge, nvm
  <2> QED BY <1>3, <2>1, <2>2, <2>3, <2>4, <2>5, <2>6, WriteLogKeepsProducers, SplitNodeKeepsProducers
          DEF ClientStep
<1>4. ASSUME NEW n \in Nodes, WorkerStep(n)
      PROVE  Producers'
  BY <1>4, WorkerKeepsProducers
<1>5. CASE SwitchInnerNode
  BY <1>5, SameLogs DEF SwitchInnerNode, nvm
<1> QED BY <1>1, <1>2, <1>3, <1>4, <1>5 DEF Next

-----------------------------------------------------------------------------
(* The workers and the client keep within their types and the leaves,      *)
(* chain and inner nodes fit together, whatever the schedule: the state    *)
(* and the producers of the logs are one inductive invariant, because a    *)
(* worker's steps are typed only while it has a split entry.               *)
LEMMA Reachable == Spec => [](State /\ Producers)
<1>1. Init => State /\ Producers
  <2>1. Init => Producers
    <3> SUFFICES ASSUME Init PROVE Producers
      OBVIOUS
    <3>1. \A n \in Nodes : log[n] = <<>> /\ worker[n].at = "idle"
      BY DEF Init, Resting
    <3> QED BY <3>1 DEF Producers, InSplit, SplitEntries
  <2> QED BY <2>1, InitState
<1>2. State /\ Producers /\ [Next]_vars => (State /\ Producers)'
  BY StateStep, ProducersStep DEF Producers
<1> QED BY <1>1, <1>2, PTL DEF Spec

(* Every variable keeps its type: positions in the leaf list are in it, a  *)
(* log never has more entries than slots (hbtree.cc, btree.h, LogQueue).   *)
THEOREM TypeCorrect == Spec => []TypeOK
<1>1. State => TypeOK
  BY DEF State
<1> QED BY <1>1, Reachable, PTL

(* A log is written by the client or by one worker that splits a node into *)
(* its own, never by both: NVMLogFile's Write takes no lock against        *)
(* another Write.                                                          *)
THEOREM OneProducerHolds == Spec => []OneProducer
<1>1. State /\ Producers => OneProducer
  <2> SUFFICES ASSUME State, Producers, NEW n \in Nodes
               PROVE  LET workers == {m \in Nodes : worker[m].at = "move" /\ Head(log[m]).to = n}
                          calls == (client.at = "write" /\ InnerOf(client.key) = n)
                                   \/ (client.at = "split" /\ client.old = n)
                      IN  Cardinality(workers) + (IF calls THEN 1 ELSE 0) <= 1
    BY DEF OneProducer
  <2> DEFINE workers == {m \in Nodes : worker[m].at = "move" /\ Head(log[m]).to = n}
             calls == (client.at = "write" /\ InnerOf(client.key) = n)
                      \/ (client.at = "split" /\ client.old = n)
  <2> SUFFICES Cardinality(workers) + (IF calls THEN 1 ELSE 0) <= 1
    OBVIOUS
  <2>1. \A m \in workers : client.at = "wait" /\ client.old = m
    <3> TAKE m \in workers
    <3>1. log[m] # <<>> /\ log[m][1].type = "split" /\ worker[m].at # "prune"
      BY DEF Producers, InSplit
    <3>2. 1 \in DOMAIN log[m]
      <4>1. log[m] \in Seq(Entries)
        BY DEF State, TypeOK
      <4> QED BY <3>1, <4>1
    <3> QED BY <3>1, <3>2 DEF Producers, SplitEntries
  <2>2. CASE workers = {}
    <3>1. Cardinality(workers) = 0
      BY <2>2, FS_EmptySet
    <3> HIDE DEF workers, calls
    <3> QED BY <3>1
  <2>3. CASE workers # {}
    <3>1. workers = {client.old} /\ ~calls
      BY <2>1, <2>3
    <3>2. Cardinality({client.old}) = 1
      BY FS_Singleton
    <3>3. Cardinality(workers) = 1
      BY <3>1, <3>2
    <3> HIDE DEF workers, calls
    <3> QED BY <3>1, <3>3
  <2> QED BY <2>2, <2>3
<1> QED BY <1>1, Reachable, PTL

-----------------------------------------------------------------------------
(***************************************************************************)
(* The list of inner nodes follows the leaf list, through splits,          *)
(* expansions, merges and SwitchInnerNode, as long as no leaf is split     *)
(* two-way: after such a split the left leaf has a node that is to be      *)
(* recycled.  While a leaf is split its pieces get their nodes from right  *)
(* to left: Shape says which pieces still have the old one, so that each   *)
(* new node, linked right of the old one, comes where its leaf is.         *)
(***************************************************************************)

(* The nodes of the leaves follow each other in the chain as the leaves    *)
(* do, and only a node that waits for its leaf comes between.              *)

NoneRecycled ==
  \A x \in DOMAIN leaves : leaves[x].inner \notin to_be_recycled

ChainInLeaves ==
  \A p \in DOMAIN chain : chain[p] \notin to_be_recycled =>
    \/ \E x \in DOMAIN leaves : leaves[x].inner = chain[p]
    \/ client.at = "wait" /\ client.leaf = chain[p]

InOrder ==
  \A x, y \in DOMAIN leaves : \A p, q \in DOMAIN chain :
    x < y /\ chain[p] = leaves[x].inner /\ chain[q] = leaves[y].inner =>
      p < q \/ (Splitting /\ chain[p] = client.old /\ chain[q] = client.old)

(* The pieces that still have the inner node of the leaf that is split.    *)
Pieces ==
  Splitting =>
    LET t == Head(client.todo)
        b == t + 1 - Len(client.todo)
    IN  /\ \A j \in DOMAIN client.todo : client.todo[j] = t + 1 - j
        /\ \A x \in DOMAIN leaves :
             leaves[x].inner = client.old <=>
               x <= t /\ (IF client.then = "leaf" THEN b ELSE b - 1) <= x
        /\ client.then = "write" => b > 1

NextInChain ==
  client.at = "wait" =>
    /\ client.leaf \notin to_be_recycled
    /\ \A x \in DOMAIN leaves : leaves[x].inner # client.leaf
    /\ \E p \in DOMAIN chain : /\ chain[p] = client.old /\ p + 1 \in DOMAIN chain
                               /\ chain[p + 1] = client.leaf

Shape ==
  NoneRecycled /\ ChainInLeaves /\ InOrder /\ Pieces /\ NextInChain

(* The node of a leaf is in the chain, and no other leaf has it unless     *)
(* they are pieces of the leaf that is split.                              *)
LEMMA LeafInChain ==
  ASSUME State, Shape
  PROVE  /\ \A x \in DOMAIN leaves : \E p \in DOMAIN chain : chain[p] = leaves[x].inner
         /\ \A x, y \in DOMAIN leaves :
              leaves[x].inner = leaves[y].inner => x = y \/ (Splitting /\ leaves[x].inner = client.old)
         /\ DOMAIN leaves = 1 .. Len(leaves) /\ Len(leaves) \in Nat \ {0}
         /\ \A p \in DOMAIN chain : p \in Int
<1>1. /\ DOMAIN leaves = 1 .. Len(leaves) /\ Len(leaves) \in Nat \ {0}
      /\ \A p \in DOMAIN chain : p \in Int
  <2>1. chain \in Seq(Nodes)
    BY DEF State, TypeOK
  <2>2. \A p \in DOMAIN chain : p \in Int
    BY <2>1
  <2> QED BY <2>2, LeafTypes DEF State
<1>2. \A x \in DOMAIN leaves : \E p \in DOMAIN chain : chain[p] = leaves[x].inner
  BY DEF State, Shape, Inners, ChainOnce, NoneRecycled
<1>3. \A x, y \in DOMAIN leaves :
        x < y /\ leaves[x].inner = leaves[y].inner => Splitting /\ leaves[x].inner = client.old
  <2> SUFFICES ASSUME NEW x \in DOMAIN leaves, NEW y \in DOMAIN leaves, x < y, leaves[x].inner = leaves[y].inner
               PROVE  Splitting /\ leaves[x].inner = client.old
    OBVIOUS
  <2>1. PICK p \in DOMAIN chain : chain[p] = leaves[x].inner
    BY <1>2
  <2>2. p < p \/ (Splitting /\ chain[p] = client.old /\ chain[p] = client.old)
    BY <2>1 DEF Shape, InOrder
  <2> QED BY <2>1, <2>2, <1>1
<1>4. \A x, y \in DOMAIN leaves : x = y \/ x < y \/ y < x
  BY <1>1
<1> QED BY <1>1, <1>2, <1>3, <1>4

(* Steps that leave the chain and the nodes of the leaves alone.           *)
LEMMA SameChain ==
  ASSUME State, Shape, Len(leaves') = Len(leaves), DOMAIN leaves' = DOMAIN leaves,
         \A x \in DOMAIN leaves : leaves'[x].inner = leaves[x].inner,
         UNCHANGED <<chain, to_be_recycled>>,
         UNCHANGED client \/ (~Splitting /\ ~Splitting')
  PROVE  Shape'
<1>1. NoneRecycled'
  BY DEF Shape, NoneRecycled
<1>2. ChainInLeaves'
  BY DEF Shape, ChainInLeaves, Splitting
<1>3. InOrder'
  BY DEF Shape, InOrder, Splitting
<1>4. Pieces'
  BY DEF Shape, Pieces, Splitting
<1>5. NextInChain'
  BY DEF Shape, NextInChain, Splitting
<1> QED BY <1>1, <1>2, <1>3, <1>4, <1>5 DEF Shape

(* A leaf divided in n + 1 pieces, each with its inner node: all of them   *)
(* get a new one, or all but the left-most.                                *)
LEMMA DividedKeepsChain ==
  ASSUME State, Shape, ~Splitting, NEW i \in DOMAIN leaves, NEW B \in SUBSET Keys, Inside(i, B),
         leaves' = Replace(i, Divide(i, B)), UNCHANGED <<chain, to_be_recycled>>,
         client'.at = "split", client'.old = leaves[i].inner, client'.todo \in Seq(Nat), client'.todo # <<>>,
         \A j \in DOMAIN client'.todo : client'.todo[j] = i + Cardinality(B) + 1 - j,
         \/ client'.then = "leaf" /\ Len(client'.todo) = Cardinality(B) + 1
         \/ client'.then = "write" /\ Len(client'.todo) = Cardinality(B)
  PROVE  Shape'
<1> DEFINE n == Cardinality(B)
           m == Len(leaves)
           o == [x \in 1 .. m + n |-> IF x < i THEN x ELSE IF x <= i + n THEN i ELSE x - n]
<1>1. /\ n \in Nat /\ leaves' \in Seq(LeafType) /\ Len(leaves') = m + n
      /\ \A x \in 1 .. i - 1 : leaves'[x] = leaves[x]
      /\ \A x \in i .. i + n : leaves'[x].inner = leaves[i].inner
      /\ \A x \in i + n + 1 .. m + n : leaves'[x] = leaves[x - n]
  BY DividedLeaves DEF State
<1>2. /\ \A x \in DOMAIN leaves : \E p \in DOMAIN chain : chain[p] = leaves[x].inner
      /\ \A x, y \in DOMAIN leaves : leaves[x].inner = leaves[y].inner => x = y
      /\ DOMAIN leaves = 1 .. m /\ m \in Nat \ {0} /\ i \in 1 .. m
  BY LeafInChain
<1> HIDE DEF n, m
<1>a. n \in Int /\ n >= 0 /\ m \in Int /\ i \in Int /\ 1 <= i /\ i <= m
  BY <1>1, <1>2
<1>3. DOMAIN leaves' = 1 .. m + n
  BY <1>1, <1>2
<1>b. \A x \in 1 .. m + n : /\ x \in Int /\ (x < i => o[x] = x)
                            /\ i <= x /\ x <= i + n => o[x] = i
                            /\ x > i + n => o[x] = x - n
  <2> TAKE x \in 1 .. m + n
  <2>0. x \in Int
    BY <1>a
  <2>1. CASE x < i
    BY <2>0, <2>1, <1>a
  <2>2. CASE i <= x /\ x <= i + n
    <3>1. ~(x < i)
      BY <2>0, <2>2, <1>a
    <3>2. o[x] = i
      BY <2>2, <3>1
    <3> HIDE DEF o
    <3> QED BY <2>0, <2>2, <3>1, <3>2, <1>a
  <2>3. CASE x > i + n
    <3>1. ~(x < i) /\ ~(x <= i + n)
      BY <2>0, <2>3, <1>a
    <3>2. o[x] = x - n
      BY <3>1
    <3> HIDE DEF o
    <3> QED BY <2>0, <3>1, <3>2
  <2> QED BY <2>0, <2>1, <2>2, <2>3, <1>a
<1> HIDE DEF o
<1>4. \A x \in 1 .. m + n :
        /\ o[x] \in 1 .. m /\ leaves'[x].inner = leaves[o[x]].inner
        /\ o[x] = i <=> i <= x /\ x <= i + n
  <2> TAKE x \in 1 .. m + n
  <2>1. CASE x < i
    <3>1. x \in 1 .. i - 1 /\ o[x] = x /\ x \in 1 .. m /\ ~(i <= x)
      BY <2>1, <1>a, <1>b
    <3> QED BY <3>1, <1>1, <1>2
  <2>2. CASE i <= x /\ x <= i + n
    <3>1. x \in i .. i + n /\ o[x] = i
      BY <2>2, <1>a, <1>b
    <3> QED BY <3>1, <2>2, <1>1, <1>2
  <2>3. CASE x > i + n
    <3>1. x \in i + n + 1 .. m + n /\ o[x] = x - n /\ x - n \in 1 .. m /\ x - n # i /\ ~(x <= i + n)
      BY <2>3, <1>a, <1>b
    <3> QED BY <3>1, <1>1
  <2> QED BY <2>1, <2>2, <2>3, <1>a, <1>b
<1>5. \A x, y \in 1 .. m + n : x < y => o[x] < o[y] \/ (o[x] = i /\ o[y] = i)
  <2> TAKE x, y \in 1 .. m + n
  <2> HAVE x < y
  <2>1. CASE x < i
    BY SMTT(30), <2>1, <1>a, <1>b
  <2>2. CASE i <= x /\ x <= i + n
    BY <2>2, <1>a, <1>b
  <2>3. CASE x > i + n
    <3>1. x \in Int /\ y \in Int /\ y > i + n
      BY <2>3, <1>a, <1>b
    <3>2. o[x] = x - n /\ o[y] = y - n
      BY <2>3, <3>1, <1>b
    <3> QED BY <3>1, <3>2, <1>a
  <2> QED BY <2>1, <2>2, <2>3, <1>a, <1>b
<1>6. \A z \in 1 .. m : \E x \in 1 .. m + n : o[x] = z
  <2> TAKE z \in 1 .. m
  <2>1. CASE z <= i
    <3>1. z \in 1 .. m + n
      BY <2>1, <1>a
    <3>2. o[z] = z
      BY <2>1, <3>1, <1>a, <1>b
    <3> QED BY <3>1, <3>2
  <2>2. CASE z > i
    <3>1. z + n \in 1 .. m + n /\ z + n > i + n /\ (z + n) - n = z
      BY <2>2, <1>a
    <3>2. o[z + n] = (z + n) - n
      BY <3>1, <1>b
    <3> QED BY <3>1, <3>2
  <2> QED BY <2>1, <2>2, <1>2
<1>7. NoneRecycled'
  BY <1>2, <1>3, <1>4 DEF Shape, NoneRecycled
<1>8. ChainInLeaves'
  <2> SUFFICES ASSUME NEW p \in DOMAIN chain, chain[p] \notin to_be_recycled
               PROVE  \E x \in DOMAIN leaves' : leaves'[x].inner = chain[p]
    BY DEF ChainInLeaves
  <2>1. PICK z \in 1 .. m : leaves[z].inner = chain[p]
    BY <1>2 DEF Shape, ChainInLeaves, Splitting
  <2>2. PICK x \in 1 .. m + n : o[x] = z
    BY <1>6
  <2> QED BY <2>1, <2>2, <1>3, <1>4
<1>9. InOrder'
  <2> SUFFICES ASSUME NEW x \in 1 .. m + n, NEW y \in 1 .. m + n, NEW p \in DOMAIN chain, NEW q \in DOMAIN chain,
                      x < y, chain[p] = leaves'[x].inner, chain[q] = leaves'[y].inner
               PROVE  p < q \/ (Splitting' /\ chain[p] = client'.old /\ chain[q] = client'.old)
    BY <1>3 DEF InOrder
  <2>1. CASE o[x] < o[y]
    <3>1. o[x] \in DOMAIN leaves /\ o[y] \in DOMAIN leaves
      BY <1>2, <1>4
    <3>2. chain[p] = leaves[o[x]].inner /\ chain[q] = leaves[o[y]].inner
      BY <1>4
    <3> QED BY <2>1, <3>1, <3>2 DEF Shape, InOrder
  <2>2. CASE o[x] = i /\ o[y] = i
    BY <2>2, <1>4 DEF Splitting
  <2> QED BY <2>1, <2>2, <1>5
<1>10. Pieces'
  <2> DEFINE t == Head(client'.todo)
             l == Len(client'.todo)
             b == t + 1 - l
  <2>1. t = i + n /\ l \in Nat
    <3>1. t = client'.todo[1] /\ 1 \in DOMAIN client'.todo /\ l \in Nat
      OBVIOUS
    <3>2. t = i + n + 1 - 1
      BY <3>1 DEF n
    <3> QED BY <3>1, <3>2, <1>1, <1>2
  <2>2. \/ client'.then = "leaf" /\ l = n + 1
        \/ client'.then = "write" /\ l = n
    BY DEF n
  <2>3. \A j \in DOMAIN client'.todo : client'.todo[j] = t + 1 - j
    BY <2>1 DEF n
  <2> HIDE DEF t, l
  <2>4. (IF client'.then = "leaf" THEN b ELSE b - 1) = i /\ (client'.then = "write" => b > 1)
    BY SMTT(30), <2>1, <2>2, <1>1, <1>2
  <2> HIDE DEF b
  <2>5. \A x \in DOMAIN leaves' :
          leaves'[x].inner = client'.old <=> x <= t /\ (IF client'.then = "leaf" THEN b ELSE b - 1) <= x
    <3> TAKE x \in DOMAIN leaves'
    <3>1. leaves'[x].inner = client'.old <=> o[x] = i
      BY <1>2, <1>3, <1>4
    <3> QED BY <3>1, <2>1, <2>4, <1>3, <1>4
  <2> QED BY <2>3, <2>4, <2>5 DEF Pieces, t, l, b
<1>11. NextInChain'
  BY DEF NextInChain
<1> QED BY <1>7, <1>8, <1>9, <1>10, <1>11 DEF Shape

(* The new node comes right of the old one.                                *)
LEMMA SplitNodeKeepsChain ==
  ASSUME State, Shape, SplitNode
  PROVE  Shape'
<1> DEFINE new == Cardinality(created)
<1>1. new \in Nodes \ created /\ created' = created \cup {new} /\ chain' \in Seq(Nodes)
  BY NewNode
<1>2. PICK at \in DOMAIN chain :
        /\ chain[at] = client.old /\ Len(chain') = Len(chain) + 1
        /\ \A p \in 1 .. at : chain'[p] = chain[p]
        /\ chain'[at + 1] = new
        /\ \A p \in at + 1 .. Len(chain) : chain'[p + 1] = chain[p]
  BY NewNode
<1>3. /\ client.at = "split" /\ client'.at = "wait" /\ client'.leaf = new /\ client'.old = client.old
      /\ client'.todo = client.todo /\ client'.then = client.then
      /\ UNCHANGED <<leaves, to_be_recycled>>
  BY DEF SplitNode, State, TypeOK, ClientType
<1>4. /\ Len(chain) \in Nat /\ at \in Nat /\ 1 <= at /\ at <= Len(chain)
      /\ DOMAIN chain = 1 .. Len(chain) /\ DOMAIN chain' = 1 .. Len(chain) + 1
  <2>1. chain \in Seq(Nodes)
    BY DEF State, TypeOK
  <2> QED BY <2>1, <1>1, <1>2
<1> HIDE DEF new
<1>5. \A x \in DOMAIN leaves : leaves[x].inner # new
  BY <1>1 DEF State, Inners
<1>6. new \notin to_be_recycled
  BY <1>1 DEF State, TypeOK
<1> DEFINE o == [p \in 1 .. Len(chain) + 1 |-> IF p <= at THEN p ELSE p - 1]
<1>7. \A p \in 1 .. Len(chain) + 1 :
        p # at + 1 => o[p] \in DOMAIN chain /\ chain'[p] = chain[o[p]]
  <2> TAKE p \in 1 .. Len(chain) + 1
  <2>1. CASE p <= at
    <3>1. p \in 1 .. at /\ p \in DOMAIN chain /\ o[p] = p
      BY <2>1, <1>4
    <3> HIDE DEF o
    <3> QED BY <3>1, <1>2
  <2>2. CASE p > at + 1
    <3>1. ~(p <= at) /\ p - 1 \in at + 1 .. Len(chain) /\ p - 1 \in DOMAIN chain /\ (p - 1) + 1 = p
      BY <2>2, <1>4
    <3>2. o[p] = p - 1
      BY <3>1
    <3> HIDE DEF o
    <3>3. chain'[(p - 1) + 1] = chain[p - 1]
      BY <3>1, <1>2
    <3> QED BY <3>1, <3>2, <3>3
  <2> QED BY <2>1, <2>2, <1>4
<1>8. \A p, q \in 1 .. Len(chain) + 1 : p # at + 1 /\ q # at + 1 /\ o[p] < o[q] => p < q
  <2> TAKE p, q \in 1 .. Len(chain) + 1
  <2> SUFFICES ASSUME p # at + 1, q # at + 1, o[p] < o[q] PROVE p < q
    OBVIOUS
  <2>1. p \in Int /\ q \in Int /\ (p <= at \/ ~(p <= at)) /\ (q <= at \/ ~(q <= at))
    BY <1>4
  <2>2. (p <= at => o[p] = p) /\ (~(p <= at) => o[p] = p - 1)
    OBVIOUS
  <2>3. (q <= at => o[q] = q) /\ (~(q <= at) => o[q] = q - 1)
    OBVIOUS
  <2> HIDE DEF o
  <2> QED BY <2>1, <2>2, <2>3, <1>4
<1> HIDE DEF o
<1>9. NoneRecycled'
  BY <1>3 DEF Shape, NoneRecycled
<1>10. ChainInLeaves'
  <2> SUFFICES ASSUME NEW p \in 1 .. Len(chain) + 1, chain'[p] \notin to_be_recycled, p # at + 1
               PROVE  \E x \in DOMAIN leaves : leaves[x].inner = chain'[p]
    BY <1>2, <1>3, <1>4 DEF ChainInLeaves
  <2>1. o[p] \in DOMAIN chain /\ chain'[p] = chain[o[p]]
    BY <1>7
  <2> QED BY <2>1, <1>3 DEF Shape, ChainInLeaves
<1>11. InOrder'
  <2> SUFFICES ASSUME NEW x \in DOMAIN leaves, NEW y \in DOMAIN leaves, x < y,
                      NEW p \in 1 .. Len(chain) + 1, NEW q \in 1 .. Len(chain) + 1,
                      chain'[p] = leaves[x].inner, chain'[q] = leaves[y].inner
               PROVE  p < q \/ (chain'[p] = client.old /\ chain'[q] = client.old)
    BY <1>3, <1>4 DEF InOrder, Splitting
  <2>1. p # at + 1 /\ q # at + 1
    BY <1>2, <1>5
  <2>2. o[p] \in DOMAIN chain /\ chain'[p] = chain[o[p]] /\ o[q] \in DOMAIN chain /\ chain'[q] = chain[o[q]]
    BY <2>1, <1>7
  <2>3. o[p] < o[q] \/ (chain[o[p]] = client.old /\ chain[o[q]] = client.old)
    BY ZenonT(40), <2>2 DEF Shape, InOrder
  <2> QED BY <2>1, <2>2, <2>3, <1>8
<1>12. Pieces'
  BY <1>3 DEF Shape, Pieces, Splitting
<1>13. NextInChain'
  <2>1. at \in DOMAIN chain' /\ at + 1 \in DOMAIN chain' /\ chain'[at] = client.old
    BY <1>2, <1>4
  <2> QED BY <2>1, <1>2, <1>3, <1>5, <1>6 DEF NextInChain
<1> QED BY <1>9, <1>10, <1>11, <1>12, <1>13 DEF Shape

(* The right-most piece gets the node that comes right of the one that the *)
(* pieces had; the last to get one that was split is the left-most, and no *)
(* leaf has the old node any more.                                         *)
LEMMA SplitReturnsKeepsChain ==
  ASSUME State, Shape, SplitReturns
  PROVE  Shape'
<1> DEFINE s == client.todo
           t == Head(s)
           l == Len(s)
           rest == Tail(s)
           old == client.old
           new == client.leaf
           low == IF client.then = "leaf" THEN t + 1 - l ELSE t + 1 - l - 1
<1>1. /\ client.at = "wait" /\ s \in Seq(Nat) /\ s # <<>> /\ new \notin to_be_recycled /\ new # old
      /\ \A j \in DOMAIN s : s[j] \in DOMAIN leaves
      /\ \A j \in DOMAIN s : s[j] = t + 1 - j
      /\ \A x \in DOMAIN leaves : leaves[x].inner # new
      /\ client.then = "write" => t + 1 - l > 1
  <2>1. client.at = "wait" /\ s \in Seq(Nat)
    BY Typed DEF SplitReturns, State
  <2> QED BY <2>1 DEF Shape, Pieces, NextInChain, Splitting, State, ToSplit, Waiting
<1>2. \A x \in DOMAIN leaves : leaves[x].inner = old <=> x <= t /\ low <= x
  BY <1>1 DEF Shape, Pieces, Splitting
<1>3. /\ t \in DOMAIN leaves /\ t \in Nat /\ l \in Nat \ {0} /\ rest \in Seq(Nat) /\ Len(rest) = l - 1
      /\ \A j \in DOMAIN rest : j \in Nat /\ j + 1 \in DOMAIN s /\ rest[j] = s[j + 1]
      /\ DOMAIN s = 1 .. l /\ (rest = <<>> <=> l = 1)
  <2> HIDE DEF s
  <2>1. /\ t = s[1] /\ 1 \in DOMAIN s /\ t \in Nat /\ rest \in Seq(Nat) /\ Len(rest) = l - 1
        /\ \A j \in DOMAIN rest : j + 1 \in DOMAIN s /\ rest[j] = s[j + 1]
    BY <1>1, TailIs
  <2>2. l \in Nat \ {0} /\ DOMAIN s = 1 .. l
    BY <1>1
  <2>3. \A j \in DOMAIN rest : j \in Nat
    BY <2>1
  <2> HIDE DEF rest
  <2>4. rest = <<>> <=> Len(rest) = 0
    BY <2>1
  <2> HIDE DEF t, l
  <2>5. rest = <<>> <=> l = 1
    BY <2>1, <2>2, <2>4
  <2> QED BY <2>1, <2>2, <2>3, <2>5, <1>1
<1>4. /\ leaves' = [leaves EXCEPT ![t].inner = new] /\ chain' = chain
      /\ to_be_recycled' = to_be_recycled \cup (IF rest = <<>> /\ client.then = "leaf" THEN {old} ELSE {})
      /\ client'.at = (IF rest = <<>> THEN client.then ELSE "split") /\ client'.todo = rest
      /\ client'.old = old /\ client'.then = client.then /\ client.then \in {"leaf", "write"}
  <2>1. client \in ClientType
    BY DEF State, TypeOK
  <2>2. client' = [client EXCEPT !.at = IF rest = <<>> THEN client.then ELSE "split", !.todo = rest]
    BY DEF SplitReturns
  <2>3. client.then \in {"leaf", "write"}
    BY <2>1 DEF ClientType
  <2> HIDE DEF rest, t
  <2>4. /\ client'.at = (IF rest = <<>> THEN client.then ELSE "split") /\ client'.todo = rest
        /\ client'.old = old /\ client'.then = client.then
    BY <2>1, <2>2 DEF ClientType
  <2> QED BY <2>3, <2>4 DEF SplitReturns, rest, t
<1>5. /\ DOMAIN leaves = 1 .. Len(leaves) /\ Len(leaves) \in Nat \ {0}
      /\ \A p \in DOMAIN chain : p \in Int
  BY LeafInChain
<1> HIDE DEF s, t, l, rest
<1>6. /\ DOMAIN leaves' = DOMAIN leaves
      /\ \A x \in DOMAIN leaves : leaves'[x].inner = IF x = t THEN new ELSE leaves[x].inner
  <2>1. leaves \in Seq(LeafType) /\ leaves[t] \in LeafType
    <3>1. leaves \in Seq(LeafType)
      BY DEF State, TypeOK
    <3> QED BY <3>1, <1>3
  <2>2. [leaves[t] EXCEPT !.inner = new].inner = new
    BY <2>1 DEF LeafType
  <2> QED BY <2>1, <2>2, <1>3, <1>4
<1>7. PICK po \in DOMAIN chain : chain[po] = old /\ po + 1 \in DOMAIN chain /\ chain[po + 1] = new
  BY <1>1 DEF Shape, NextInChain
<1>8. \A p \in DOMAIN chain : (chain[p] = old => p = po) /\ (chain[p] = new => p = po + 1)
  BY <1>7 DEF State, ChainOnce
<1>9. low <= t /\ (rest # <<>> => low <= t - 1) /\ low \in Int /\ l \in Int /\ t \in Int
  <2>1. t + 1 - l >= 1
    <3>1. l \in DOMAIN s
      BY <1>3
    <3>2. s[l] = t + 1 - l /\ s[l] \in DOMAIN leaves
      BY <3>1, <1>1
    <3> QED BY <3>2, <1>5
  <2> QED BY <2>1, <1>3
<1>10. client.then = "write" => low <= t - 1 /\ low >= 1
  BY <1>1, <1>3
<1> HIDE DEF low
<1>11. leaves[t].inner = old
  BY <1>2, <1>3, <1>9
(* A leaf that still has the old node, unless no leaf may have it.         *)
<1>12. old \notin to_be_recycled' => \E x \in DOMAIN leaves : x # t /\ leaves[x].inner = old
  <2> SUFFICES ASSUME old \notin to_be_recycled' PROVE t - 1 \in DOMAIN leaves /\ leaves[t - 1].inner = old
    BY <1>9
  <2>1. low <= t - 1
    BY <1>4, <1>9, <1>10
  <2>2. t - 1 >= 1
    <3>1. CASE client.then = "write"
      BY <3>1, <1>9, <1>10
    <3>2. CASE rest # <<>>
      <4>1. l >= 2 /\ 2 \in DOMAIN s
        BY <3>2, <1>3
      <4>2. s[2] = t + 1 - 2 /\ s[2] \in DOMAIN leaves
        BY <4>1, <1>1
      <4> QED BY <4>2, <1>5, <1>9
    <3> QED BY <3>1, <3>2, <1>4
  <2>3. t - 1 \in DOMAIN leaves
    BY <2>2, <1>3, <1>5
  <2>4. t - 1 <= t
    BY <1>9
  <2> QED BY <2>1, <2>3, <2>4, <1>2
<1>13. NoneRecycled'
  <2> SUFFICES ASSUME NEW x \in DOMAIN leaves PROVE leaves'[x].inner \notin to_be_recycled'
    BY <1>6 DEF NoneRecycled
  <2>1. CASE x = t
    <3>1. leaves'[x].inner = new
      BY <2>1, <1>6
    <3>2. new \notin to_be_recycled'
      BY <1>1, <1>4
    <3> QED BY <3>1, <3>2
  <2>2. CASE x # t
    <3>1. leaves'[x].inner = leaves[x].inner /\ leaves[x].inner \notin to_be_recycled
      BY <2>2, <1>6 DEF Shape, NoneRecycled
    <3>2. rest = <<>> /\ client.then = "leaf" => leaves[x].inner # old
      <4>1. rest = <<>> /\ client.then = "leaf" => low = t
        BY <1>3 DEF low
      <4> QED BY <4>1, <2>2, <1>2, <1>5, <1>9
    <3> QED BY <3>1, <3>2, <1>4
  <2> QED BY <2>1, <2>2
<1>14. ChainInLeaves'
  <2> SUFFICES ASSUME NEW p \in DOMAIN chain, chain[p] \notin to_be_recycled'
               PROVE  \E x \in DOMAIN leaves : leaves'[x].inner = chain[p]
    BY <1>4, <1>6 DEF ChainInLeaves
  <2>1. CASE chain[p] = new
    BY <2>1, <1>3, <1>6
  <2>2. CASE chain[p] # new
    <3>1. PICK x \in DOMAIN leaves : leaves[x].inner = chain[p]
      BY <2>2, <1>4 DEF Shape, ChainInLeaves
    <3>2. CASE x # t
      BY <3>1, <3>2, <1>6
    <3>3. CASE x = t
      <4>1. PICK y \in DOMAIN leaves : y # t /\ leaves[y].inner = old
        BY <3>1, <3>3, <1>11, <1>12
      <4> QED BY <4>1, <3>1, <3>3, <1>6, <1>11
    <3> QED BY <3>2, <3>3
  <2> QED BY <2>1, <2>2
<1>15. InOrder'
  <2> SUFFICES ASSUME NEW x \in DOMAIN leaves, NEW y \in DOMAIN leaves, x < y,
                      NEW p \in DOMAIN chain, NEW q \in DOMAIN chain,
                      chain[p] = leaves'[x].inner, chain[q] = leaves'[y].inner
               PROVE  p < q \/ (Splitting' /\ chain[p] = old /\ chain[q] = old)
    BY <1>4, <1>6 DEF InOrder
  <2>0. x \in Int /\ y \in Int
    BY <1>5
  <2>1. CASE x = t
    <3>1. p = po + 1 /\ chain[q] = leaves[y].inner
      BY <2>0, <2>1, <1>6, <1>8
    <3>2. chain[q] # old /\ chain[q] # new
      <4>1. ~(y <= t)
        BY <2>0, <2>1
      <4> QED BY <4>1, <3>1, <1>1, <1>2
    <3>3. po < q
      BY <2>1, <3>1, <3>2, <1>7, <1>11 DEF Shape, InOrder
    <3>4. q # po + 1
      BY <3>2, <1>7
    <3> QED BY <3>1, <3>3, <3>4, <1>5
  <2>2. CASE y = t
    <3>1. q = po + 1 /\ chain[p] = leaves[x].inner
      BY <2>0, <2>2, <1>6, <1>8
    <3>2. p < po \/ chain[p] = old
      BY <2>2, <3>1, <1>7, <1>11 DEF Shape, InOrder
    <3> QED BY <3>1, <3>2, <1>5, <1>8
  <2>3. CASE x # t /\ y # t
    <3>1. chain[p] = leaves[x].inner /\ chain[q] = leaves[y].inner
      BY <2>3, <1>6
    <3>2. p < q \/ (chain[p] = old /\ chain[q] = old)
      BY <3>1 DEF Shape, InOrder
    <3>3. chain[p] = old /\ chain[q] = old => rest # <<>>
      <4> SUFFICES ASSUME rest = <<>>, leaves[x].inner = old, leaves[y].inner = old PROVE FALSE
        BY <3>1
      <4>1. x <= t /\ low <= x /\ y <= t /\ low <= y
        BY <1>2
      <4>2. l = 1
        BY <1>3
      <4>3. low >= t - 1
        BY <4>2, <1>3 DEF low
      <4> QED BY <4>1, <4>3, <2>0, <2>3, <1>9
    <3>4. rest # <<>> => Splitting'
      BY <1>4 DEF Splitting
    <3> QED BY <3>2, <3>3, <3>4
  <2> QED BY <2>1, <2>2, <2>3
<1>16. Pieces'
  <2>1. CASE rest = <<>>
    BY <2>1, <1>4 DEF Pieces, Splitting
  <2>2. CASE rest # <<>>
    <3> DEFINE t2 == Head(rest)
               l2 == Len(rest)
    <3>1. t2 = t - 1 /\ l2 = l - 1
      <4>1. t2 = rest[1] /\ 1 \in DOMAIN rest
        BY <2>2, <1>3
      <4>2. 1 + 1 \in DOMAIN s /\ rest[1] = s[1 + 1] /\ s[1 + 1] = t + 1 - (1 + 1)
        BY <4>1, <1>1, <1>3
      <4> QED BY <4>1, <4>2, <1>3
    <3>2. \A j \in DOMAIN rest : rest[j] = t2 + 1 - j
      <4> TAKE j \in DOMAIN rest
      <4>1. rest[j] = t + 1 - (j + 1) /\ j \in Nat
        BY <1>1, <1>3
      <4> HIDE DEF t2
      <4> QED BY <4>1, <3>1, <1>9
    <3> HIDE DEF t2, l2
    <3>3. t2 + 1 - l2 = t + 1 - l /\ t2 + 1 - l2 - 1 = t + 1 - l - 1
      BY <3>1, <1>9
    <3>4. \A x \in DOMAIN leaves : leaves'[x].inner = old <=> x <= t2 /\ low <= x
      <4> TAKE x \in DOMAIN leaves
      <4>1. x \in Int
        BY <1>5
      <4>2. CASE x = t
        BY <4>1, <4>2, <3>1, <1>1, <1>6
      <4>3. CASE x # t
        <5>1. x <= t <=> x <= t2
          BY <4>1, <4>3, <3>1, <1>9
        <5> QED BY <5>1, <4>3, <1>2, <1>6
      <4> QED BY <4>2, <4>3
    <3>5. low = IF client.then = "leaf" THEN t2 + 1 - l2 ELSE t2 + 1 - l2 - 1
      BY <3>3 DEF low
    <3>6. client.then = "write" => t2 + 1 - l2 > 1
      BY <3>3, <1>1
    <3>7. \A x \in DOMAIN leaves' : leaves'[x].inner = client'.old <=> x <= t2 /\ low <= x
      BY <3>4, <1>4, <1>6
    <3> DEFINE b == t2 + 1 - l2
    <3>8. t2 = Head(client'.todo) /\ b = t2 + 1 - Len(client'.todo)
      BY <1>4 DEF t2, l2
    <3>9. low = (IF client'.then = "leaf" THEN b ELSE b - 1) /\ (client'.then = "write" => b > 1)
      <4>1. client'.then = client.then
        BY <1>4
      <4>2. low = (IF client.then = "leaf" THEN b ELSE b - 1)
        BY <3>1, <3>5, <1>9
      <4>3. client.then = "write" => b > 1
        BY <3>6
      <4> HIDE DEF b
      <4> QED BY <4>1, <4>2, <4>3
    <3>10. \A j \in DOMAIN client'.todo : client'.todo[j] = t2 + 1 - j
      BY <3>2, <1>4
    <3> HIDE DEF b
    <3> QED BY <3>7, <3>8, <3>9, <3>10 DEF Pieces
  <2> QED BY <2>1, <2>2
<1>17. NextInChain'
  BY <1>4 DEF NextInChain
<1> QED BY <1>13, <1>14, <1>15, <1>16, <1>17 DEF Shape

(* The node of the leaf that goes is to be recycled.                       *)
LEMMA MergeKeepsChain ==
  ASSUME State, Shape, NEW adjacent \in DOMAIN leaves, Merge(adjacent)
  PROVE  Shape'
<1> DEFINE i == client.leaf
           m == Len(leaves)
           o == [x \in 1 .. m - 1 |-> IF x < i THEN x ELSE x + 1]
<1>1. /\ i \in 1 .. m /\ m > 1 /\ leaves' \in Seq(LeafType) /\ Len(leaves') = m - 1
      /\ \A x \in 1 .. i - 1 : leaves'[x].inner = leaves[x].inner
      /\ \A x \in i .. m - 1 : leaves'[x].inner = leaves[x + 1].inner
  BY MergedLeaves
<1>2. /\ \A x, y \in DOMAIN leaves : leaves[x].inner = leaves[y].inner => x = y
      /\ DOMAIN leaves = 1 .. m /\ m \in Int /\ i \in Int /\ 1 <= i /\ i <= m /\ m > 1
      /\ \A p \in DOMAIN chain : p \in Int
  <2>1. /\ \A x, y \in DOMAIN leaves : leaves[x].inner = leaves[y].inner => x = y
        /\ DOMAIN leaves = 1 .. m /\ m \in Nat /\ \A p \in DOMAIN chain : p \in Int
    BY LeafInChain DEF Merge, Splitting
  <2> HIDE DEF m, i
  <2>2. i \in Int /\ 1 <= i /\ i <= m /\ m > 1
    BY <2>1, <1>1
  <2> QED BY <2>1, <2>2
<1>3. /\ to_be_recycled' = to_be_recycled \cup {leaves[i].inner} /\ chain' = chain
      /\ client.at = "merge" /\ client'.at = "merge"
  BY DEF Merge, State, TypeOK, ClientType
<1> HIDE DEF m, i
<1>4. DOMAIN leaves' = 1 .. m - 1
  BY <1>1, <1>2
<1>5. \A x \in 1 .. m - 1 : /\ x \in Int /\ o[x] \in 1 .. m /\ o[x] # i
                            /\ (x < i => o[x] = x) /\ (x >= i => o[x] = x + 1)
                            /\ leaves'[x].inner = leaves[o[x]].inner
  <2> TAKE x \in 1 .. m - 1
  <2>1. CASE x < i
    <3>1. x \in 1 .. i - 1 /\ x \in 1 .. m /\ ~(x >= i) /\ x # i
      BY <2>1, <1>2
    <3>2. o[x] = x
      BY <2>1
    <3> HIDE DEF o
    <3> QED BY <3>1, <3>2, <1>1
  <2>2. CASE ~(x < i)
    <3>1. x \in i .. m - 1 /\ x + 1 \in 1 .. m /\ x + 1 # i
      BY <2>2, <1>2
    <3>2. o[x] = x + 1
      BY <2>2
    <3> HIDE DEF o
    <3> QED BY <3>1, <3>2, <2>2, <1>1
  <2> QED BY <2>1, <2>2
<1>6. \A z \in 1 .. m : z # i => \E x \in 1 .. m - 1 : o[x] = z
  <2> HIDE DEF o
  <2> TAKE z \in 1 .. m
  <2>1. CASE z < i
    <3>1. z \in 1 .. m - 1
      BY <2>1, <1>2
    <3> QED BY <2>1, <3>1, <1>5
  <2>2. CASE z > i
    <3>1. z - 1 \in 1 .. m - 1 /\ z - 1 >= i /\ (z - 1) + 1 = z
      BY <2>2, <1>2
    <3>2. o[z - 1] = (z - 1) + 1
      BY <3>1, <1>5
    <3> QED BY <3>1, <3>2
  <2> QED BY <2>1, <2>2, <1>2
<1> HIDE DEF o
<1>7. NoneRecycled'
  <2> SUFFICES ASSUME NEW x \in 1 .. m - 1 PROVE leaves'[x].inner \notin to_be_recycled'
    BY <1>4 DEF NoneRecycled
  <2>1. o[x] \in DOMAIN leaves /\ o[x] # i /\ leaves'[x].inner = leaves[o[x]].inner /\ i \in DOMAIN leaves
    BY <1>1, <1>2, <1>5
  <2>2. leaves[o[x]].inner # leaves[i].inner
    BY <2>1, <1>2
  <2> QED BY <2>1, <2>2, <1>3 DEF Shape, NoneRecycled
<1>8. ChainInLeaves'
  <2> SUFFICES ASSUME NEW p \in DOMAIN chain, chain[p] \notin to_be_recycled'
               PROVE  \E x \in DOMAIN leaves' : leaves'[x].inner = chain[p]
    BY <1>3 DEF ChainInLeaves
  <2>1. PICK z \in 1 .. m : leaves[z].inner = chain[p]
    BY <1>2, <1>3 DEF Shape, ChainInLeaves
  <2>2. z # i
    BY <2>1, <1>3
  <2> QED BY <2>1, <2>2, <1>4, <1>5, <1>6
<1>9. InOrder'
  <2> SUFFICES ASSUME NEW x \in 1 .. m - 1, NEW y \in 1 .. m - 1, NEW p \in DOMAIN chain, NEW q \in DOMAIN chain,
                      x < y, chain[p] = leaves'[x].inner, chain[q] = leaves'[y].inner
               PROVE  p < q
    BY <1>3, <1>4 DEF InOrder
  <2>1. o[x] < o[y]
    <3>1. x \in Int /\ y \in Int /\ (x < i => o[x] = x) /\ (x >= i => o[x] = x + 1)
          /\ (y < i => o[y] = y) /\ (y >= i => o[y] = y + 1)
      BY <1>5
    <3> QED BY <3>1, <1>2
  <2>2. o[x] \in DOMAIN leaves /\ o[y] \in DOMAIN leaves /\ chain[p] = leaves[o[x]].inner
        /\ chain[q] = leaves[o[y]].inner
    BY <1>2, <1>5
  <2> QED BY <2>1, <2>2, <1>3 DEF Shape, InOrder, Splitting
<1>10. Pieces' /\ NextInChain'
  BY <1>3 DEF Pieces, NextInChain, Splitting
<1> QED BY <1>7, <1>8, <1>9, <1>10 DEF Shape

(* What stays in the chain keeps its order.                                *)
LEMMA SwitchKeepsChain ==
  ASSUME State, Shape, SwitchInnerNode
  PROVE  Shape'
<1> DEFINE lost == to_be_recycled \ freed
           at == Kept(chain, lost)
<1>1. UNCHANGED client /\ client.at = "idle" /\ ~Splitting
  BY DEF SwitchInnerNode, Splitting
<1>2. CASE Last(chain) \in lost
  <2>1. UNCHANGED <<leaves, chain, to_be_recycled>>
    BY <1>2 DEF SwitchInnerNode, shape
  <2> QED BY <1>1, <2>1, SameChain
<1>3. CASE Last(chain) \notin lost
  <2>1. chain' = Omit(chain, lost) /\ AdjustNodeType /\ UNCHANGED to_be_recycled
    BY <1>3 DEF SwitchInnerNode
  <2>2. DOMAIN leaves' = DOMAIN leaves /\ \A x \in DOMAIN leaves : leaves'[x].inner = leaves[x].inner
    BY <2>1, Adjusted DEF SameLeaves
  <2>3. chain \in Seq(Nodes)
    BY DEF State, TypeOK
  <2>a. \A p \in DOMAIN chain : p \in Int
    BY LeafInChain
  <2> HIDE DEF lost
  <2>4. /\ chain' \in Seq(Nodes) /\ DOMAIN at = 1 .. Len(chain')
        /\ \A p \in 1 .. Len(chain') : at[p] \in DOMAIN chain /\ chain[at[p]] \notin lost /\ chain'[p] = chain[at[p]]
        /\ \A p, q \in 1 .. Len(chain') : p < q => at[p] < at[q]
        /\ \A j \in DOMAIN chain : chain[j] \notin lost => \E p \in 1 .. Len(chain') : at[p] = j
    <3>1. chain' = Omit(chain, lost) /\ at = Kept(chain, lost)
      BY <2>1
    <3> HIDE DEF at
    <3>2. /\ Omit(chain, lost) \in Seq(Nodes)
          /\ DOMAIN Kept(chain, lost) = 1 .. Len(Omit(chain, lost))
      BY <2>3, OmitIs
    <3>3. \A p \in 1 .. Len(Omit(chain, lost)) :
            /\ Kept(chain, lost)[p] \in DOMAIN chain /\ chain[Kept(chain, lost)[p]] \notin lost
            /\ Omit(chain, lost)[p] = chain[Kept(chain, lost)[p]]
      BY <2>3, OmitIs
    <3>4. \A p, q \in 1 .. Len(Omit(chain, lost)) :
            p < q => Kept(chain, lost)[p] < Kept(chain, lost)[q]
      BY <2>3, OmitIs
    <3>5. \A j \in DOMAIN chain :
            chain[j] \notin lost => \E p \in 1 .. Len(Omit(chain, lost)) : Kept(chain, lost)[p] = j
      BY <2>3, OmitIs
    <3> QED BY <3>1, <3>2, <3>3, <3>4, <3>5
  <2>5. DOMAIN chain' = 1 .. Len(chain') /\ \A p \in DOMAIN chain' : p \in Int
    BY <2>4
  <2> HIDE DEF at
  <2>6. NoneRecycled'
    BY <2>1, <2>2 DEF Shape, NoneRecycled
  <2>7. ChainInLeaves'
    BY <1>1, <2>1, <2>2, <2>4, <2>5 DEF Shape, ChainInLeaves
  <2>8. InOrder'
    <3> SUFFICES ASSUME NEW x \in DOMAIN leaves, NEW y \in DOMAIN leaves, x < y,
                        NEW p \in DOMAIN chain', NEW q \in DOMAIN chain',
                        chain'[p] = leaves[x].inner, chain'[q] = leaves[y].inner
                 PROVE  p < q
      BY <2>2 DEF InOrder
    <3>1. at[p] < at[q] /\ at[p] \in Int /\ at[q] \in Int
      BY <1>1, <2>a, <2>4, <2>5 DEF Shape, InOrder
    <3>2. ~(q < p) /\ q # p
      BY <3>1, <2>4, <2>5
    <3> QED BY <3>2, <2>5
  <2>9. Pieces' /\ NextInChain'
    BY <1>1 DEF Pieces, NextInChain, Splitting
  <2> QED BY <2>6, <2>7, <2>8, <2>9 DEF Shape
<1> QED BY <1>2, <1>3

(* With fanout trees only: a two-way split deletes the node that its left  *)
(* piece keeps, and the run HBTreeRecycle shows what becomes of it.        *)
LEMMA ShapeStep ==
  ASSUME TwoWay = FALSE, State, Shape, [Next]_vars
  PROVE  Shape'
<1>1. CASE UNCHANGED vars
  BY <1>1, SameChain DEF vars, shape
<1>2. ASSUME NEW k \in Keys, NEW op \in {"insert", "erase"}, Call(op, k)
      PROVE  Shape'
  <2>1. ~Splitting /\ ~Splitting' /\ UNCHANGED <<leaves, chain, to_be_recycled>>
    BY <1>2, CallBegins DEF Call, Splitting, shape, Idle
  <2> QED BY <2>1, SameChain
<1>3. CASE ClientStep
  <2>1. CASE WriteCold \/ WriteLog \/ StopMerging
    <3>1. UNCHANGED <<leaves, chain, to_be_recycled>> /\ ~Splitting
      BY <2>1 DEF WriteCold, WriteLog, StopMerging, shape, Splitting
    <3>2. client'.at \in {"idle", "leaf"}
      BY <2>1 DEF WriteCold, WriteLog, StopMerging, Idle, State, TypeOK, ClientType
    <3> QED BY <3>1, <3>2, SameChain DEF Splitting
  <2>2. CASE InsertLeaf \/ EraseLeaf
    <3> DEFINE i == LeafOf(client.key)
    <3>1. UNCHANGED <<chain, to_be_recycled>> /\ ~Splitting
      BY <2>2 DEF InsertLeaf, EraseLeaf, Splitting
    <3>2. client'.at \in {"idle", "merge"}
      <4>1. client' = Idle \/ client' = [client EXCEPT !.at = "merge", !.leaf = i]
        BY <2>2 DEF InsertLeaf, EraseLeaf
      <4>2. client \in ClientType
        BY DEF State, TypeOK
      <4> HIDE DEF i
      <4>3. CASE client' = Idle
        BY <4>3 DEF Idle
      <4>4. CASE client' = [client EXCEPT !.at = "merge", !.leaf = i]
        BY <4>2, <4>4 DEF ClientType
      <4> QED BY <4>1, <4>3, <4>4
    <3>3. SameLeaves /\ DOMAIN leaves' = DOMAIN leaves
      BY <2>2, LeafKeepsLeaves
    <3> QED BY <3>1, <3>2, <3>3, SameChain DEF Splitting, SameLeaves
  <2>3. CASE SplitNode
    BY <2>3, SplitNodeKeepsChain
  <2>4. CASE SplitReturns
    BY <2>4, SplitReturnsKeepsChain
  <2>5. ASSUME NEW b \in Keys, SplitLeaf("fanout", b)
        PROVE  Shape'
    <3> DEFINE i == LeafOf(client.key)
               todo == <<i + 1, i>>
    <3>1. /\ Inside(i, {b}) /\ leaves' = Replace(i, Divide(i, {b})) /\ UNCHANGED <<chain, to_be_recycled>>
          /\ client' = [client EXCEPT !.at = "split", !.old = leaves[i].inner, !.then = "leaf", !.todo = todo]
          /\ ~Splitting
      BY <2>5 DEF SplitLeaf, Splitting
    <3>2. i \in DOMAIN leaves /\ i \in Nat
      <4>1. client.key \in Nat
        BY Typed DEF State
      <4>2. i \in DOMAIN leaves
        BY <4>1, LeafOfIs DEF State
      <4> QED BY <4>2, LeafInChain
    <3>3. /\ client'.at = "split" /\ client'.old = leaves[i].inner /\ client'.todo = todo /\ client'.then = "leaf"
      <4> HIDE DEF todo, i
      <4>1. client \in ClientType
        BY DEF State, TypeOK
      <4> QED BY <3>1, <4>1 DEF ClientType
    <3>4. Cardinality({b}) = 1
      BY FS_Singleton
    <3>5. /\ todo \in Seq(Nat) /\ todo # <<>> /\ Len(todo) = 1 + 1
          /\ \A j \in DOMAIN todo : todo[j] = i + 1 + 1 - j
      <4> HIDE DEF i
      <4> QED BY <3>2
    <3> HIDE DEF todo, i
    <3> QED BY <3>1, <3>2, <3>3, <3>4, <3>5, DividedKeepsChain
  <2>6. ASSUME NEW B \in SUBSET Keys, ExpandRoot(B)
        PROVE  Shape'
    <3> DEFINE i == LeafOf(client.key)
               n == Cardinality(B)
               todo == [j \in 1 .. n |-> i + n + 1 - j]
    <3>1. /\ Inside(i, B) /\ leaves' = Replace(i, Divide(i, B)) /\ UNCHANGED <<chain, to_be_recycled>>
          /\ client' = [client EXCEPT !.at = "split", !.old = leaves[i].inner, !.then = "write", !.todo = todo]
          /\ ~Splitting /\ B # {}
      BY <2>6 DEF ExpandRoot, Splitting
    <3>2. i \in DOMAIN leaves /\ i \in Nat
      <4>1. client.key \in Nat
        BY Typed DEF State
      <4>2. i \in DOMAIN leaves
        BY <4>1, LeafOfIs DEF State
      <4> QED BY <4>2, LeafInChain
    <3>3. /\ client'.at = "split" /\ client'.old = leaves[i].inner /\ client'.todo = todo /\ client'.then = "write"
      <4> HIDE DEF todo, i
      <4>1. client \in ClientType
        BY DEF State, TypeOK
      <4> QED BY <3>1, <4>1 DEF ClientType
    <3>4. n \in Nat /\ n # 0
      <4>1. IsFiniteSet(B)
        BY KeysAssumption, FS_Subset
      <4> QED BY <3>1, <4>1, FS_CardinalityType, FS_EmptySet
    <3>5. /\ todo \in Seq(Nat) /\ todo # <<>> /\ Len(todo) = n
          /\ \A j \in DOMAIN todo : todo[j] = i + n + 1 - j
      <4> HIDE DEF i, n
      <4>1. \A j \in 1 .. n : i + n + 1 - j \in Nat
        BY <3>2, <3>4
      <4> QED BY <3>4, <4>1
    <3> HIDE DEF todo, i
    <3> QED BY <3>1, <3>2, <3>3, <3>5, DividedKeepsChain
  <2>7. ASSUME NEW adjacent \in DOMAIN leaves, Merge(adjacent)
        PROVE  Shape'
    BY <2>7, MergeKeepsChain
  <2> QED BY <1>3, <2>1, <2>2, <2>3, <2>4, <2>5, <2>6, <2>7 DEF ClientStep
<1>4. ASSUME NEW n \in Nodes, WorkerStep(n)
      PROVE  Shape'
  <2>1. UNCHANGED <<leaves, chain, to_be_recycled, client>>
    BY <1>4 DEF WorkerStep, Apply, BeginSplit, MoveEntry, SetLatch, PruneEntry, EndSplit, shape
  <2> QED BY <2>1, SameChain
<1>5. CASE SwitchInnerNode
  BY <1>5, SwitchKeepsChain
<1> QED BY <1>1, <1>2, <1>3, <1>4, <1>5 DEF Next

(* The only leaf has the only node of the chain.                           *)
LEMMA InitShape == Init => Shape
<1> SUFFICES ASSUME Init PROVE Shape
  OBVIOUS
<1>1. leaves = <<Leaf(0, 0, NoValues)>> /\ chain = <<0>> /\ to_be_recycled = {} /\ client.at = "idle"
  BY DEF Init, Idle
<1>2. DOMAIN leaves = {1} /\ leaves[1].inner = 0
  BY <1>1 DEF Leaf
<1>3. DOMAIN chain = {1} /\ chain[1] = 0
  BY <1>1
<1>4. NoneRecycled /\ ChainInLeaves
  BY <1>1, <1>2, <1>3 DEF NoneRecycled, ChainInLeaves
<1>5. InOrder
  BY <1>2 DEF InOrder
<1> QED BY <1>1, <1>4, <1>5 DEF Shape, Pieces, NextInChain, Splitting

(* Without two-way splits the chain follows the leaves in every state.     *)
LEMMA ReachableShape ==
  ASSUME TwoWay = FALSE
  PROVE  Spec => [](State /\ Shape)
<1>1. Init => Shape
  BY InitShape
<1>2. (State /\ Producers) /\ Shape /\ [Next]_vars => Shape'
  BY ShapeStep
<1>3. Spec => [](State /\ Producers)
  BY Reachable
<1> QED BY <1>1, <1>2, <1>3, PTL DEF Spec

-----------------------------------------------------------------------------
(* Between two calls the chain without the nodes to be recycled is the     *)
(* list of the leaves' nodes, in the order of the leaves (hbtree.cc:16-31  *)
(* and inner_node.cc walk the one to reach the other).                     *)
THEOREM ChainIsLeavesHolds ==
  ASSUME TwoWay = FALSE
  PROVE  Spec => []ChainIsLeaves
<1>1. State /\ Shape => ChainIsLeaves
  <2> SUFFICES ASSUME State, Shape, client.at = "idle"
               PROVE  Omit(chain, to_be_recycled) = [i \in DOMAIN leaves |-> leaves[i].inner]
    BY DEF ChainIsLeaves
  <2> DEFINE m == Len(leaves)
             P == {p \in DOMAIN chain : chain[p] \notin to_be_recycled}
             s == [x \in 1 .. m |-> CHOOSE p \in DOMAIN chain : chain[p] = leaves[x].inner]
  <2>1. /\ \A x \in DOMAIN leaves : \E p \in DOMAIN chain : chain[p] = leaves[x].inner
        /\ DOMAIN leaves = 1 .. m /\ m \in Nat /\ \A p \in DOMAIN chain : p \in Int
    BY LeafInChain
  <2> HIDE DEF m
  <2>2. \A x \in 1 .. m : s[x] \in DOMAIN chain /\ chain[s[x]] = leaves[x].inner
    BY <2>1
  <2> HIDE DEF s
  <2>3. \A x \in 1 .. m : s[x] \in P
    BY <2>1, <2>2 DEF Shape, NoneRecycled
  <2>4. \A x, y \in 1 .. m : x < y => s[x] < s[y]
    <3> TAKE x, y \in 1 .. m
    <3>1. s[x] \in Int /\ s[y] \in Int /\ x \in DOMAIN leaves /\ y \in DOMAIN leaves
      BY <2>1, <2>2
    <3> QED BY <3>1, <2>2 DEF Shape, InOrder, Splitting
  <2>5. \A p \in P : \E x \in 1 .. m : s[x] = p
    <3> TAKE p \in P
    <3>1. PICK x \in 1 .. m : leaves[x].inner = chain[p]
      BY <2>1 DEF Shape, ChainInLeaves
    <3>2. s[x] = p
      BY <2>2, <3>1 DEF State, ChainOnce
    <3> QED BY <3>2
  <2>6. P \in SUBSET Int /\ s \in [1 .. m -> P]
    <3>1. s = [x \in 1 .. m |-> s[x]]
      BY DEF s
    <3> QED BY <2>1, <2>3, <3>1
  <2>7. s = Ordered(P)
    <3> HIDE DEF P
    <3> QED BY <2>1, <2>4, <2>5, <2>6, OrderedUnique
  <2>8. DOMAIN s = 1 .. m
    BY DEF s
  <2>9. Omit(chain, to_be_recycled) = [i \in DOMAIN Ordered(P) |-> chain[Ordered(P)[i]]]
    BY DEF Omit
  <2>10. Omit(chain, to_be_recycled) = [i \in 1 .. m |-> chain[s[i]]]
    BY <2>7, <2>8, <2>9
  <2> QED BY <2>1, <2>2, <2>10
<1>2. Spec => [](State /\ Shape)
  BY ReachableShape
<1> QED BY <1>1, <1>2, PTL

(* A leaf's node is never freed, in a call or between calls: only a node   *)
(* that no leaf has is to be recycled.                                     *)
THEOREM NoLeafDanglesHolds ==
  ASSUME TwoWay = FALSE
  PROVE  Spec => []NoLeafDangles
<1>1. State /\ Shape => NoLeafDangles
  BY DEF State, Shape, ChainOnce, NoneRecycled, NoLeafDangles
<1>2. Spec => [](State /\ Shape)
  BY ReachableShape
<1> QED BY <1>1, <1>2, PTL

(* The first and the last leaf after a leaf was divided.                   *)
LEMMA DividedEnds ==
  ASSUME State, NEW i \in DOMAIN leaves, NEW B \in SUBSET Keys, Inside(i, B),
         leaves' = Replace(i, Divide(i, B)), UNCHANGED cold, EndsHot
  PROVE  EndsHot'
<1> DEFINE n == Cardinality(B)
           m == Len(leaves)
<1>1. /\ n \in Nat /\ leaves' \in Seq(LeafType) /\ Len(leaves') = m + n
      /\ \A x \in 1 .. i - 1 : leaves'[x] = leaves[x]
      /\ \A x \in i .. i + n : leaves'[x].inner = leaves[i].inner
      /\ \A x \in i + n + 1 .. m + n : leaves'[x] = leaves[x - n]
  BY DividedLeaves DEF State
<1>2. i \in 1 .. m /\ m \in Nat \ {0}
  BY LeafTypes DEF State
<1> HIDE DEF n, m
<1>3. leaves'[1].inner = leaves[1].inner
  <2>1. CASE i = 1
    <3>1. 1 \in i .. i + n
      BY <2>1, <1>1
    <3> QED BY <2>1, <3>1, <1>1
  <2>2. CASE i # 1
    <3>1. 1 \in 1 .. i - 1
      BY <2>2, <1>2
    <3> QED BY <3>1, <1>1
  <2> QED BY <2>1, <2>2
<1>4. leaves'[m + n].inner = leaves[m].inner
  <2>1. CASE i = m
    <3>1. m + n \in i .. i + n
      BY <2>1, <1>1, <1>2
    <3> QED BY <2>1, <3>1, <1>1
  <2>2. CASE i # m
    <3>1. m + n \in i + n + 1 .. m + n /\ (m + n) - n = m
      BY <2>2, <1>1, <1>2
    <3>2. leaves'[m + n] = leaves[(m + n) - n]
      BY <3>1, <1>1
    <3> QED BY <3>1, <3>2
  <2> QED BY <2>1, <2>2
<1>5. Last(leaves) = leaves[m] /\ Last(leaves)' = leaves'[m + n]
  BY <1>1 DEF Last, m
<1> QED BY <1>3, <1>4, <1>5 DEF EndsHot

(* An adjustment leaves the first and the last leaf out, and no other leaf *)
(* has their nodes.                                                        *)
LEMMA AdjustedEnds ==
  ASSUME State, Shape, ~Splitting, AdjustNodeType, EndsHot
  PROVE  EndsHot'
<1> DEFINE m == Len(leaves)
           inner == IF m < 3 THEN {} ELSE 2 .. m - 1
<1>1. Len(leaves') = m /\ \A x \in DOMAIN leaves : leaves'[x].inner = leaves[x].inner
  BY Adjusted DEF SameLeaves
<1>2. /\ \A x, y \in DOMAIN leaves : leaves[x].inner = leaves[y].inner => x = y
      /\ DOMAIN leaves = 1 .. m /\ m \in Nat \ {0}
  BY LeafInChain
<1>3. cold' \subseteq cold \cup {leaves[x].inner : x \in inner}
  BY DEF AdjustNodeType
<1> HIDE DEF m
<1>4. \A x \in inner : x \in DOMAIN leaves /\ x # 1 /\ x # m
  BY <1>2
<1>5. 1 \in DOMAIN leaves /\ m \in DOMAIN leaves
  BY <1>2
<1> HIDE DEF inner
<1>6. \A n \in {leaves[1].inner, leaves[m].inner} : n \notin {leaves[x].inner : x \in inner}
  BY <1>2, <1>4, <1>5
<1>7. Last(leaves) = leaves[m] /\ Last(leaves)' = leaves'[m]
  BY <1>1 DEF Last, m
<1>8. leaves[1].inner \notin cold /\ leaves[m].inner \notin cold
  BY <1>7 DEF EndsHot
<1>9. leaves'[1].inner \notin cold' /\ leaves'[m].inner \notin cold'
  BY <1>1, <1>3, <1>5, <1>6, <1>8
<1> QED BY <1>7, <1>9 DEF EndsHot

(* Only a merge turns the first or the last leaf into a cold one           *)
(* (alex.h:267 says that they are hot): no adjustment, split or expansion  *)
(* of the root does.                                                       *)
THEOREM EndsTurnColdByMergeHolds ==
  ASSUME TwoWay = FALSE
  PROVE  Spec => EndsTurnColdByMerge
<1>1. ASSUME State, Shape, [Next]_vars, EndsHot, client.at # "merge"
      PROVE  EndsHot'
  <2>1. CASE /\ Len(leaves') = Len(leaves) /\ UNCHANGED cold
             /\ \A x \in DOMAIN leaves : leaves'[x].inner \notin cold \/ leaves'[x].inner = leaves[x].inner
    <3>1. 1 \in DOMAIN leaves /\ Len(leaves) \in DOMAIN leaves
      BY <1>1, LeafInChain
    <3>2. Last(leaves) = leaves[Len(leaves)] /\ Last(leaves)' = leaves'[Len(leaves)]
      BY <2>1 DEF Last
    <3> QED BY <1>1, <2>1, <3>1, <3>2 DEF EndsHot
  <2>2. CASE UNCHANGED vars
    BY <2>1, <2>2 DEF vars, shape
  <2>3. ASSUME NEW k \in Keys, NEW op \in {"insert", "erase"}, Call(op, k)
        PROVE  EndsHot'
    BY <2>1, <2>3 DEF Call, shape
  <2>4. CASE WriteCold \/ WriteLog
    BY <2>1, <2>4 DEF WriteCold, WriteLog, shape
  <2>5. CASE InsertLeaf \/ EraseLeaf
    <3>1. UNCHANGED cold /\ SameLeaves
      BY <1>1, <2>5, LeafKeepsLeaves DEF InsertLeaf, EraseLeaf
    <3> QED BY <2>1, <3>1 DEF SameLeaves
  <2>6. CASE SplitNode
    BY <2>1, <2>6 DEF SplitNode
  <2>7. CASE SplitReturns
    <3> DEFINE t == Head(client.todo)
    <3>1. /\ leaves' = [leaves EXCEPT ![t].inner = client.leaf] /\ UNCHANGED cold
          /\ client.leaf \notin cold
      BY <1>1, <2>7 DEF SplitReturns, State, Waiting
    <3>2. leaves \in Seq(LeafType) /\ \A x \in DOMAIN leaves : leaves[x] \in LeafType
      <4>1. leaves \in Seq(LeafType)
        BY <1>1 DEF State, TypeOK
      <4> QED BY <4>1
    <3> HIDE DEF t
    <3>3. Len(leaves') = Len(leaves)
      BY <3>1, <3>2
    <3>4. \A x \in DOMAIN leaves : leaves'[x].inner = client.leaf \/ leaves'[x].inner = leaves[x].inner
      BY <3>1, <3>2 DEF LeafType
    <3> QED BY <2>1, <3>1, <3>3, <3>4
  <2>8. ASSUME NEW b \in Keys, NEW kind, SplitLeaf(kind, b)
        PROVE  EndsHot'
    <3> DEFINE i == LeafOf(client.key)
    <3>1. Inside(i, {b}) /\ leaves' = Replace(i, Divide(i, {b})) /\ UNCHANGED cold
      BY <2>8 DEF SplitLeaf
    <3>2. i \in DOMAIN leaves
      BY <1>1, Typed, LeafOfIs DEF State
    <3> HIDE DEF i
    <3> QED BY <1>1, <3>1, <3>2, DividedEnds
  <2>9. ASSUME NEW B \in SUBSET Keys, ExpandRoot(B)
        PROVE  EndsHot'
    <3> DEFINE i == LeafOf(client.key)
    <3>1. Inside(i, B) /\ leaves' = Replace(i, Divide(i, B)) /\ UNCHANGED cold
      BY <2>9 DEF ExpandRoot
    <3>2. i \in DOMAIN leaves
      BY <1>1, Typed, LeafOfIs DEF State
    <3> HIDE DEF i
    <3> QED BY <1>1, <3>1, <3>2, DividedEnds
  <2>10. CASE StopMerging \/ \E adjacent \in DOMAIN leaves : Merge(adjacent)
    BY <1>1, <2>10 DEF StopMerging, Merge
  <2>11. ASSUME NEW n \in Nodes, WorkerStep(n)
         PROVE  EndsHot'
    <3>1. UNCHANGED <<leaves, cold>>
      BY <2>11 DEF WorkerStep, Apply, BeginSplit, MoveEntry, SetLatch, PruneEntry, EndSplit, shape
    <3> QED BY <2>1, <3>1
  <2>12. CASE SwitchInnerNode
    <3>1. ~Splitting /\ (AdjustNodeType \/ UNCHANGED <<leaves, cold>>)
      BY <2>12 DEF SwitchInnerNode, Splitting, shape
    <3> QED BY <1>1, <2>1, <3>1, AdjustedEnds
  <2> QED BY <1>1, <2>2, <2>3, <2>4, <2>5, <2>6, <2>7, <2>8, <2>9, <2>10, <2>11, <2>12 DEF Next, ClientStep
<1>2. (State /\ Shape) /\ [Next]_vars => [EndsHot /\ ~EndsHot' => client.at = "merge"]_vars
  BY <1>1
<1>3. Spec => [](State /\ Shape)
  BY ReachableShape
<1> QED BY <1>2, <1>3, PTL DEF Spec, EndsTurnColdByMerge
=============================================================================
